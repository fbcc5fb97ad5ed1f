----------------------------- MODULE ChatGateway -----------------------------
(***************************************************************************)
(* The backend as one browser of user Me sees it: the socket gateway with  *)
(* its rooms, and the route that pages through messages.  A message is     *)
(* known by its position in msgs.  Every socket of a user is in the user's *)
(* room for as long as it is connected; rooms are the conversation rooms.  *)
(*                                                                         *)
(* What a connection carries arrives in order (inbox); nothing that was    *)
(* emitted to a closed connection arrives.                                 *)
(***************************************************************************)
EXTENDS Naturals, FiniteSets, Sequences

CONSTANTS
    Convs,
    PageSize,   \* 10 in the code
    Spoken,     \* bound: the conversations whose messages and members change
    MaxMsgs, MaxInbox, MaxCalls  \* bounds

ASSUME PageAssumption == PageSize \in Nat \ {0}

Calls == 1 .. MaxCalls
NoCall == 0
None == "none"

VARIABLES
    msgs,    \* messages: conv, at (sentAt), own (senderId = Me)
    active,  \* conversations Me is an active participant of
    link,    \* the browser's socket is connected
    rooms,   \* conversation rooms its socket is in
    inbox,   \* what the server has emitted to it
    jobs,    \* messages stored and not yet emitted
    tenure,  \* ghost: Me was an active participant during this connection
    gone     \* ghost: Me stopped being an active participant since Me last sent there

gatewayVars == <<msgs, active, link, rooms, inbox, jobs, tenure, gone>>

Ids == 1 .. Len(msgs)
Delivered(id) == [t |-> "message_delivered", id |-> id, conv |-> msgs[id].conv, call |-> NoCall, ok |-> TRUE]
Read(c) == [t |-> "conversation_read_updated", id |-> 0, conv |-> c, call |-> NoCall, ok |-> TRUE]
Ack(s, c, ok) == [t |-> "ack", id |-> 0, conv |-> c, call |-> s, ok |-> ok]

\* Sends over the connection, in order; a closed one drops everything.
Emit(events) ==
    /\ Len(inbox) + Len(events) <= MaxInbox
    /\ inbox' = IF link THEN inbox \o events ELSE inbox

Acks(s, c, ok) == IF s = NoCall THEN <<>> ELSE <<Ack(s, c, ok)>>

-----------------------------------------------------------------------------
(* getMessages: the newest PageSize messages sent before an instant.       *)

At(id) == msgs[id].at
Matching(c, before) == {id \in Ids : msgs[id].conv = c /\ At(id) < before}

\* Messages of the same millisecond at the page's edge are cut anywhere.
Pages(c, before) ==
    LET found == Matching(c, before)
    IN {page \in SUBSET found :
          /\ Cardinality(page) = IF Cardinality(found) < PageSize THEN Cardinality(found) ELSE PageSize
          /\ \A x \in page, y \in found \ page : At(y) <= At(x)}

-----------------------------------------------------------------------------
(* Membership.                                                             *)

\* addMember, or a direct conversation restored by the peer's message.
AddMe(c) ==
    /\ c \in Spoken \ active
    /\ active' = active \cup {c}
    /\ tenure' = IF link THEN tenure \cup {c} ELSE tenure
    /\ UNCHANGED <<msgs, link, rooms, inbox, jobs, gone>>

\* removeMember: the room is not left.
RemoveMe(c) ==
    /\ c \in Spoken \cap active
    /\ active' = active \ {c}
    /\ gone' = gone \cup {c}
    /\ UNCHANGED <<msgs, link, rooms, inbox, jobs, tenure>>

-----------------------------------------------------------------------------
(* Rooms.                                                                  *)

\* Mutant: anybody may join.
MayJoinAnyone(c) == TRUE

\* handleJoinConversation.
MayJoin(c) == c \in active

\* handleConnection.
Accept ==
    /\ ~link /\ link' = TRUE
    /\ tenure' = active
    /\ UNCHANGED <<msgs, active, rooms, inbox, jobs, gone>>

\* handleDisconnect.  The acknowledgements that are due have nowhere to go.
Drop ==
    /\ link /\ link' = FALSE
    /\ rooms' = {} /\ inbox' = <<>> /\ tenure' = {}
    /\ jobs' = {[j EXCEPT !.call = NoCall] : j \in jobs}
    /\ UNCHANGED <<msgs, active, gone>>

-----------------------------------------------------------------------------
(* Messages.                                                               *)

Instants == IF msgs = <<>> THEN {1} ELSE {At(Len(msgs)), At(Len(msgs)) + 1}

\* messageModel.create with sentAt: new Date().
Create(c, own, call) ==
    /\ Len(msgs) < MaxMsgs
    /\ \E at \in Instants : msgs' = Append(msgs, [conv |-> c, at |-> at, own |-> own])
    /\ jobs' = jobs \cup {[call |-> call, id |-> Len(msgs) + 1]}

\* handleSendMessage up to the stored message.
StoreMessage(c, s) ==
    /\ c \in active
    /\ Create(c, TRUE, s)
    /\ UNCHANGED inbox

\* toErrorAck: not a participant, or the message could not be encrypted.
RefuseMessage(c, s) ==
    /\ Emit(<<Ack(s, c, FALSE)>>)
    /\ UNCHANGED <<msgs, jobs>>

OtherSends(c) ==
    /\ c \in Spoken
    /\ Create(c, FALSE, NoCall)
    /\ UNCHANGED <<active, link, rooms, inbox, tenure, gone>>

\* Mutant: only to the conversation's room.
CopiesRoomOnly(id) == IF msgs[id].conv \in rooms THEN <<Delivered(id)>> ELSE <<>>

\* emitRealtimeMessage: to the conversation's room and to every active
\* participant's own room.
Copies(id) == (IF msgs[id].conv \in rooms THEN <<Delivered(id)>> ELSE <<>>)
              \o (IF msgs[id].conv \in active THEN <<Delivered(id)>> ELSE <<>>)

\* The participants are read, the events emitted and the call acknowledged.
Publish(j) ==
    /\ j \in jobs
    /\ jobs' = jobs \ {j}
    /\ Emit(Copies(j.id) \o Acks(j.call, msgs[j.id].conv, TRUE))
    /\ UNCHANGED <<msgs, active, link, rooms, tenure, gone>>

\* handleMarkConversationRead, for Me: an event to Me's room and one to the
\* conversation's; nothing for somebody who is no participant.
ReadCopies(c) ==
    IF c \in active THEN <<Read(c)>> \o (IF c \in rooms THEN <<Read(c)>> ELSE <<>>) ELSE <<>>

\* handleMarkConversationRead, for somebody else.
OtherReads(c) ==
    /\ link /\ c \in rooms \cap Spoken
    /\ Emit(<<Read(c)>>)
    /\ UNCHANGED <<msgs, active, link, rooms, jobs, tenure, gone>>
=============================================================================

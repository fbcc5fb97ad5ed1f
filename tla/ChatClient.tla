----------------------------- MODULE ChatClient -----------------------------
(***************************************************************************)
(* The chat page and its socket service in one browser of user Me, against *)
(* the gateway.  The thread is the sequence of messages on display; the    *)
(* conversation list with its previews and badges is not modelled.         *)
(*                                                                         *)
(* HTTP answers arrive in any order; a request is served when it is made,  *)
(* and only its answer is delayed.  Room, read and typing calls are served *)
(* and acknowledged in one step.                                           *)
(***************************************************************************)
EXTENDS ChatGateway, SequencesExt

CONSTANTS
    History,   \* messages there are to begin with
    MaxFetches, MaxSyncs,  \* bounds
    MaxMoves  \* bound on what users and the network do of their own accord

\* Messages are stored one after the other, at most one more instant with each.
ASSUME HistoryAssumption ==
    /\ MaxMsgs \in Nat /\ MaxCalls \in Nat /\ Spoken \subseteq Convs
    /\ \A h \in History :
         /\ h \in Seq([conv : Convs, at : Nat, own : BOOLEAN]) /\ Len(h) <= MaxMsgs
         /\ \A i \in 1 .. Len(h) : h[i].at <= i /\ \A j \in 1 .. i : h[j].at <= h[i].at

VARIABLES
    activeId,  \* socket service: activeConversationId
    joined,    \* joinedConversationRef
    syncs,     \* changes of room under way
    selected, thread, loading, hasMore,
    sending,   \* sendingMessage
    fetches,   \* getMessages calls under way
    call,      \* sendMessage calls, and the conversation of the last one
    moves,     \* those that are left of MaxMoves
    calm       \* ghost: no answer and no event was missed since the last selection

socketVars == <<activeId, joined, syncs>>
pageVars == <<selected, thread, loading, hasMore, fetches>>
sendVars == <<sending, call>>
vars == <<gatewayVars, socketVars, pageVars, sendVars, moves, calm>>

Always == MaxMsgs + 2  \* an instant after every message
Refused == {Always}    \* instead of a page

Init ==
    /\ msgs \in History /\ active = Convs
    /\ link = FALSE /\ rooms = {} /\ inbox = <<>>
    /\ jobs = {} /\ tenure = {} /\ gone = {}
    /\ activeId = None /\ joined = None /\ syncs = {}
    /\ selected = None /\ thread = <<>> /\ loading = FALSE /\ hasMore = TRUE
    /\ sending = FALSE /\ fetches = {} /\ call = [s \in Calls |-> [pc |-> "idle", conv |-> None]]
    /\ moves = MaxMoves /\ calm = TRUE

\* One of the bounded moves.
Spend == moves > 0 /\ moves' = moves - 1

-----------------------------------------------------------------------------
(* The socket service: the connection and the rooms.                       *)

Sync(from, to, rejoin) == [from |-> from, to |-> to, rejoin |-> rejoin]

\* on 'connect': only the active conversation is joined again.
Connect ==
    /\ Accept
    /\ \/ activeId = None /\ UNCHANGED syncs
       \/ activeId # None /\ syncs' = syncs \cup {Sync(None, activeId, TRUE)}
    /\ UNCHANGED <<activeId, joined, pageVars, sendVars, calm, moves>>

\* on 'connect_error': handleSocketError gives the composer back.
ConnectRefused ==
    /\ ~link /\ sending /\ sending' = FALSE
    /\ UNCHANGED <<gatewayVars, socketVars, pageVars, call, calm, moves>>

\* on 'disconnect'.
Disconnect ==
    /\ Drop
    /\ calm' = (calm /\ \A e \in ToSet(inbox) : e.t = "message_delivered" => e.conv # selected)
    /\ Spend
    /\ UNCHANGED <<socketVars, pageVars, sendVars>>

\* The effect on selectedConversationId: leave the joined room, if any, and join
\* the new one.
RoomSync(c) ==
    \/ /\ c = joined
       /\ UNCHANGED <<activeId, syncs>>
    \/ /\ c # joined
       /\ Cardinality(syncs) < MaxSyncs
       /\ syncs' = syncs \cup {Sync(joined, c, FALSE)}
       /\ activeId' = IF joined = None THEN c
                      ELSE IF activeId = joined THEN None ELSE activeId

\* leaveConversation, then joinConversation; a refusal is an error event.
SyncRooms(y) ==
    /\ y \in syncs /\ link
    /\ syncs' = syncs \ {y}
    /\ activeId' = IF y.from = None THEN activeId ELSE y.to
    /\ \/ /\ MayJoin(y.to)
          /\ rooms' = (rooms \ {y.from}) \cup {y.to}
          /\ joined' = IF y.rejoin THEN joined ELSE y.to
          /\ UNCHANGED sending
       \/ /\ ~MayJoin(y.to)
          /\ rooms' = rooms \ {y.from}
          /\ sending' = FALSE
          /\ UNCHANGED joined
    /\ UNCHANGED <<msgs, active, link, inbox, jobs, tenure, gone, pageVars, call, calm, moves>>

\* No connection, or no acknowledgement, within 5 s.
SyncTimeout(y) ==
    /\ y \in syncs
    /\ syncs' = syncs \ {y}
    /\ activeId' \in IF y.from = None THEN {activeId} ELSE {activeId, y.to}
    /\ UNCHANGED <<gatewayVars, joined, pageVars, sendVars, calm, moves>>

-----------------------------------------------------------------------------
(* The thread.                                                             *)

\* The route getMessages.
Fetch(kind, c, before) ==
    /\ Cardinality(fetches) < MaxFetches
    /\ \E page \in IF c \in active THEN Pages(c, before) ELSE {Refused} :
          fetches' = fetches \cup {[kind |-> kind, conv |-> c, page |-> page]}

Fetching(kinds) == \E f \in fetches : f.kind \in kinds

SelectConversation(c) ==
    /\ c \in active \cup gone \cup {selected}  \* still on the list
    /\ selected' = c /\ thread' = <<>> /\ loading' = TRUE /\ hasMore' = TRUE
    /\ Fetch("load", c, Always)
    /\ IF c = selected THEN UNCHANGED <<activeId, syncs>> ELSE RoomSync(c)
    /\ calm' = (fetches = {})
    /\ Spend
    /\ UNCHANGED <<gatewayVars, joined, sendVars>>

\* loadMoreMessages.
LoadMore ==
    /\ selected # None /\ hasMore /\ ~loading /\ thread # <<>>
    /\ Fetch("more", selected, At(Head(thread)))
    /\ loading' = TRUE
    /\ calm' = (calm /\ ~Fetching({"refetch"}))
    /\ Spend
    /\ UNCHANGED <<gatewayVars, socketVars, selected, thread, hasMore, sendVars>>

\* sort and reverse of getMessages.
Sorted(page) ==
    CHOOSE s \in [1 .. Cardinality(page) -> page] : \A i, j \in DOMAIN s : i < j => s[i] < s[j]

\* The answer is in: load and refetch replace the thread, more goes before it,
\* whatever is selected by now; load then marks the conversation read, by
\* socket if there is a connection, and a refusal is an error event.
Arrive(f) ==
    /\ f \in fetches /\ f.page # Refused
    /\ fetches' = fetches \ {f}
    /\ thread' = IF f.kind = "more" THEN Sorted(f.page) \o thread ELSE Sorted(f.page)
    /\ loading' = (loading /\ f.kind = "refetch")
    /\ hasMore' = IF f.kind = "refetch" THEN hasMore ELSE Cardinality(f.page) >= PageSize
    /\ Emit(IF f.kind = "load" THEN ReadCopies(f.conv) ELSE <<>>)
    /\ sending' = (sending /\ ~(f.kind = "load" /\ link /\ f.conv \notin active))
    /\ UNCHANGED <<msgs, active, link, rooms, jobs, tenure, gone,
                   socketVars, selected, call, calm, moves>>

\* Refused, or the network failed.
FetchFailed(f) ==
    /\ f \in fetches
    /\ fetches' = fetches \ {f}
    /\ loading' = (loading /\ f.kind = "refetch")
    /\ calm' = (calm /\ f.kind # "load")
    /\ UNCHANGED <<gatewayVars, socketVars, selected, thread, hasMore, sendVars, moves>>

\* Array.prototype.sort by sentAt: messages of the same millisecond stay in order.
Chronological(t) ==
    LET before(i, j) == At(t[i]) < At(t[j]) \/ (At(t[i]) = At(t[j]) /\ i < j)
        order == CHOOSE p \in [DOMAIN t -> DOMAIN t] :
                   \A i, j \in DOMAIN t : i < j => before(p[i], p[j])
    IN [k \in DOMAIN t |-> t[order[k]]]

\* Mutant: every copy is added.
UpsertTwice(t, id) == Chronological(Append(t, id))

\* upsertMessage.
Upsert(t, id) == IF id \in ToSet(t) THEN t ELSE Chronological(Append(t, id))

\* A page taken before the message was stored, on its way to replace the thread.
Overwritten(id) == \E f \in fetches : f.kind # "more" /\ f.page # Refused /\ id \notin f.page

\* A message stored long ago, delivered under a thread that starts later.
Belated(id) == /\ msgs[id].conv = selected /\ id \notin ToSet(thread)
               /\ thread # <<>> /\ At(id) < At(Head(thread))

Take(t) == inbox # <<>> /\ Head(inbox).t = t /\ inbox' = Tail(inbox)

\* handleIncomingMessage.
MessageDelivered ==
    LET id == Head(inbox).id
    IN /\ Take("message_delivered")
       /\ thread' = IF msgs[id].conv = selected THEN Upsert(thread, id) ELSE thread
       /\ sending' = (sending /\ ~msgs[id].own)
       /\ calm' = (calm /\ ~Overwritten(id) /\ ~Belated(id))
       /\ UNCHANGED <<msgs, active, link, rooms, jobs, tenure, gone,
                      socketVars, selected, loading, hasMore, fetches, call, moves>>

\* handleConversationRead.
ConversationRead ==
    /\ Take("conversation_read_updated")
    /\ IF Head(inbox).conv = selected
         THEN Fetch("refetch", selected, Always) /\ calm' = (calm /\ ~Fetching({"more"}))
         ELSE UNCHANGED <<fetches, calm>>
    /\ UNCHANGED <<msgs, active, link, rooms, jobs, tenure, gone,
                   socketVars, selected, thread, loading, hasMore, sendVars, moves>>

-----------------------------------------------------------------------------
(* Sending.                                                                *)

\* handleSend.  The message is stored, or refused, or lost on the way; a file is
\* uploaded first (Attachments), and an upload that fails ends as a lost call does.
Send(s) ==
    /\ selected \in Spoken /\ ~sending /\ link
    /\ call[s].pc = "idle"
    /\ sending' = TRUE
    /\ call' = [call EXCEPT ![s] = [pc |-> "sent", conv |-> selected]]
    /\ \/ StoreMessage(selected, s)
       \/ RefuseMessage(selected, s)
       \/ UNCHANGED <<msgs, jobs, inbox>>
    /\ gone' = IF selected \in active THEN gone \ {selected} ELSE gone
    /\ Spend
    /\ UNCHANGED <<active, link, rooms, tenure, socketVars, pageVars, calm>>

End(s) == call' = [call EXCEPT ![s].pc = "idle"]

\* The acknowledgement: success leaves the composer to the delivered message and
\* goes on to updateTypingPresence, which a participant may lose and nobody else
\* may call.
SendAnswered ==
    LET ack == Head(inbox)
    IN /\ Take("ack") /\ ack.call # NoCall
       /\ End(ack.call)
       /\ sending' \in IF ack.ok /\ ack.conv \in active THEN {sending, FALSE} ELSE {FALSE}
       /\ UNCHANGED <<msgs, active, link, rooms, jobs, tenure, gone,
                      socketVars, pageVars, calm, moves>>

\* No acknowledgement within 5 s; the server goes on.
CallTimeout(s) ==
    LET forget(x) == IF x.call = s THEN [x EXCEPT !.call = NoCall] ELSE x
    IN /\ call[s].pc # "idle"
       /\ End(s) /\ sending' = FALSE
       /\ jobs' = {forget(j) : j \in jobs}
       /\ inbox' = [k \in DOMAIN inbox |-> forget(inbox[k])]
       /\ UNCHANGED <<msgs, active, link, rooms, tenure, gone,
                      socketVars, pageVars, calm, moves>>

\* An acknowledgement after the timeout.
LateAck ==
    /\ Take("ack") /\ Head(inbox).call = NoCall
    /\ UNCHANGED <<msgs, active, link, rooms, jobs, tenure, gone,
                   socketVars, pageVars, sendVars, calm, moves>>

-----------------------------------------------------------------------------
(* Leaving.                                                                *)

\* handleLeave, and handleDeleteConversation of the selected conversation: the
\* room, the membership, the page.
Leave ==
    /\ selected \in Spoken \cap active /\ link
    /\ rooms' = rooms \ {selected}
    /\ activeId' = IF activeId = selected THEN None ELSE activeId
    /\ joined' = None
    /\ active' = active \ {selected} /\ gone' = gone \cup {selected}
    /\ selected' = None /\ thread' = <<>>
    /\ Spend
    /\ UNCHANGED <<msgs, link, inbox, jobs, tenure,
                   syncs, loading, hasMore, fetches, sendVars, calm>>

\* The second call failed: the room is left, the page unchanged.
LeaveFailed ==
    /\ selected \in Spoken /\ link
    /\ rooms' = rooms \ {selected}
    /\ activeId' = IF activeId = selected THEN None ELSE activeId
    /\ joined' = None
    /\ Spend
    /\ UNCHANGED <<msgs, active, link, inbox, jobs, tenure, gone,
                   syncs, pageVars, sendVars, calm>>

-----------------------------------------------------------------------------

\* An event nobody receives leaves a gap in the thread.
Published(j) ==
    /\ Publish(j)
    /\ calm' = (calm /\ (msgs[j.id].conv # selected \/ (link /\ Copies(j.id) # <<>>)))
    /\ UNCHANGED <<socketVars, pageVars, sendVars, moves>>

\* What others do, as the browser's user sees it.
Others(c) ==
    /\ AddMe(c) \/ RemoveMe(c) \/ OtherReads(c) \/ OtherSends(c)
    /\ Spend
    /\ UNCHANGED <<socketVars, pageVars, sendVars, calm>>

Next ==
    \/ \E c \in Convs : SelectConversation(c) \/ Others(c)
    \/ \E s \in Calls : Send(s) \/ CallTimeout(s)
    \/ LoadMore \/ Leave \/ LeaveFailed
    \/ Connect \/ ConnectRefused \/ Disconnect
    \/ \E j \in jobs : Published(j)
    \/ \E y \in syncs : SyncRooms(y) \/ SyncTimeout(y)
    \/ \E f \in fetches : Arrive(f) \/ FetchFailed(f)
    \/ MessageDelivered \/ ConversationRead \/ SendAnswered \/ LateAck

Spec == Init /\ [][Next]_vars

-----------------------------------------------------------------------------
\* A connection is in a conversation's room only if its user was an active
\* participant during that connection: who was removed hears on at most until
\* the next reconnection, although the page asks to join again.
RoomsEarned == rooms \subseteq tenure

\* emitRealtimeMessage sends each message up to twice and pages replace or
\* extend the thread.  While no page was taken before a message that it then
\* overwrites and no event was lost, the thread is that of the selected
\* conversation, in order, each message once; and what it lacks of the messages
\* delivered is older than all of it, or was cut at a page's edge in the same
\* millisecond as a message on display.
ThreadSound ==
    LET shown == ToSet(thread)
        outstanding == {j.id : j \in jobs} \cup {e.id : e \in ToSet(inbox)}
        lacking == {id \in Ids : msgs[id].conv = selected} \ (shown \cup outstanding)
    IN calm /\ selected # None /\ ~Fetching({"load"}) =>
         /\ IsInjective(thread)
         /\ \A id \in shown : msgs[id].conv = selected
         /\ \A k \in 1 .. Len(thread) - 1 : At(thread[k]) <= At(thread[k + 1])
         /\ \A id \in lacking : \/ thread # <<>> /\ At(id) < At(Head(thread))
                                \/ \E x \in shown : At(x) = At(id)

\* A composer that stays locked with no sendMessage call under way belongs to
\* somebody who left or was removed from the conversation since the message was
\* sent: in every other case the delivered message, a failed acknowledgement or
\* a timeout unlocks it.
ComposerReleased ==
    sending /\ (\A s \in Calls : call[s].pc = "idle") => \E s \in Calls : call[s].conv \in gone
=============================================================================

---------------------------- MODULE TerminalClient ----------------------------
(***************************************************************************)
(* The terminal client (app/client): the main thread, which asks the user  *)
(* and waits for the server's acknowledgements, the receiver thread, which *)
(* reads deliveries and acknowledgements from one stream, and the server's *)
(* thread for this connection as the client sees it (RelayServer has the   *)
(* others).                                                                *)
(*                                                                         *)
(* What a thread does under ack_lock is one step.  A record is written and *)
(* read as a whole; names and texts are abstracted: a request has a type   *)
(* and a message_id.                                                       *)
(***************************************************************************)
EXTENDS Naturals, Sequences

CONSTANTS
    MaxInputs,     \* bound: what the user enters
    MaxDeliveries  \* bound: messages of other users

Ids == 1 .. 2 * MaxInputs
AuthTypes == {"register", "login"}
VARIABLES
    requests,   \* on their way to the server
    responses,  \* on their way to the client
    server,     \* pc, auth (the session is authenticated and online), req, status
    main,       \* the main thread: pc, req, and, as a ghost, the answer it took last
    receiver,   \* the receiver thread
    running,
    ack,        \* last_ack
    ackReady,
    nextId,     \* message_id
    shut,       \* the client has shut the socket down
    inputs, deliveries,
    served      \* ghost: the status that the server gave to each message_id

shared == <<running, ack, ackReady>>
vars == <<requests, responses, server, main, receiver, shared, nextId, shut, inputs, deliveries, served>>

NoRequest == [type |-> "none", id |-> 0]
NoResponse == [type |-> "none", id |-> 0, status |-> "none"]

Init ==
    /\ requests = <<>> /\ responses = <<>>
    /\ server = [pc |-> "read", auth |-> FALSE, req |-> NoRequest, status |-> "none"]
    /\ main = [pc |-> "menu", req |-> NoRequest, answer |-> NoResponse]
    /\ receiver = "read"
    /\ running = TRUE /\ ack = NoResponse /\ ackReady = FALSE
    /\ nextId = 1 /\ shut = FALSE
    /\ inputs = 0 /\ deliveries = 0 /\ served = [i \in Ids |-> "none"]

-----------------------------------------------------------------------------
(* The main thread.                                                        *)

Prompting == main.pc \in {"menuPrompt", "peerPrompt", "chatPrompt"}
Goto(from, to) == main.pc = from /\ main' = [main EXCEPT !.pc = to]

\* The heads of the loops: the menu, the choice of a peer, the conversation.
Menu ==
    /\ Goto("menu", IF running THEN "menuPrompt" ELSE "stop")
    /\ UNCHANGED <<requests, responses, server, receiver, shared, nextId, shut, inputs, deliveries, served>>

Peers ==
    /\ Goto("peers", IF running THEN "peerPrompt" ELSE "menu")
    /\ UNCHANGED <<requests, responses, server, receiver, shared, nextId, shut, inputs, deliveries, served>>

Chat ==
    /\ Goto("chat", IF running THEN "chatPrompt" ELSE "stop")
    /\ UNCHANGED <<requests, responses, server, receiver, shared, nextId, shut, inputs, deliveries, served>>

\* submit_auth_request uses one id for the hash and one for the request.
IdsUsed(type) == IF type \in AuthTypes THEN 2 ELSE 1

\* What the user enters at a prompt, up to the wait for the acknowledgement.  A
\* write to a connection that the server has closed may still succeed.
Request(type) ==
    LET req == [type |-> type, id |-> IF type \in AuthTypes THEN nextId + 1 ELSE nextId]
    IN /\ inputs < MaxInputs /\ inputs' = inputs + 1
       /\ nextId' = nextId + IdsUsed(type)
       /\ requests' = IF server.pc = "closed" THEN requests ELSE Append(requests, req)
       /\ main' = [main EXCEPT !.pc = "check", !.req = req]
       /\ UNCHANGED <<responses, server, receiver, shared, shut, deliveries, served>>

Submit ==
    \/ main.pc = "menuPrompt" /\ \E type \in AuthTypes : Request(type)
    \/ main.pc = "peerPrompt" /\ Request("select")
    \/ main.pc = "chatPrompt" /\ \E type \in {"chat", "logout"} : Request(type)

\* The device failed, the request has no valid form, or the user made another
\* choice: exit or an invalid option, no name, /switch, an empty line.  A message
\* that has no valid form has used its id.
Elsewise ==
    /\ inputs < MaxInputs /\ inputs' = inputs + 1
    /\ \/ Goto("menuPrompt", "stop") \/ Goto("menuPrompt", "menu")
       \/ Goto("peerPrompt", "peerPrompt")
       \/ Goto("chatPrompt", "chat") \/ Goto("chatPrompt", "peers")
    /\ nextId' \in IF main.pc = "chatPrompt" /\ main'.pc = "chat" THEN {nextId, nextId + 1} ELSE {nextId}
    /\ UNCHANGED <<requests, responses, server, receiver, shared, shut, deliveries, served>>

\* write_full fails.
WriteFails ==
    /\ Prompting /\ server.pc = "closed"
    /\ main' = [main EXCEPT !.pc = "stop"]
    /\ UNCHANGED <<requests, responses, server, receiver, shared, nextId, shut, inputs, deliveries, served>>

\* A write to a closed connection: SIGPIPE, which nobody handles.
Killed ==
    /\ Prompting /\ server.pc = "closed"
    /\ main' = [main EXCEPT !.pc = "killed"]
    /\ receiver' = "ended" /\ shut' = TRUE
    /\ UNCHANGED <<requests, responses, server, shared, nextId, inputs, deliveries, served>>

\* Mutant: a peer that cannot be selected leads back to the menu.
OrMenu(type, status) ==
    CASE type = "register" -> "menu"
      [] type = "login" -> IF status = "ok" THEN "peers" ELSE "menu"
      [] type = "select" -> IF status = "ok" THEN "chat" ELSE "menu"
      [] type = "chat" -> IF status = "offline" THEN "peers" ELSE "chat"
      [] OTHER -> "stop"

\* Where main, select_peer and chat_loop go on with an answer.
Continue(type, status) ==
    CASE type = "register" -> "menu"
      [] type = "login" -> IF status = "ok" THEN "peers" ELSE "menu"
      [] type = "select" -> IF status = "ok" THEN "chat" ELSE "peerPrompt"
      [] type = "chat" -> IF status = "offline" THEN "peers" ELSE "chat"
      [] OTHER -> "stop"

\* The loop of send_request_and_wait_ack, under ack_lock.
Answered == ackReady /\ ack.id = main.req.id

Check ==
    /\ main.pc = "check"
    /\ IF ~running
         THEN main' = [main EXCEPT !.pc = "stop"] /\ UNCHANGED <<ack, ackReady>>
         ELSE IF Answered
         THEN /\ main' = [main EXCEPT !.pc = Continue(main.req.type, ack.status), !.answer = ack]
              /\ ackReady' = FALSE /\ ack' = NoResponse
         ELSE main' = [main EXCEPT !.pc = "asleep"] /\ UNCHANGED <<ack, ackReady>>
    /\ UNCHANGED <<requests, responses, server, receiver, running, nextId, shut, inputs, deliveries, served>>

\* pthread_cond_wait may return without a signal.
WokenForNothing ==
    /\ Goto("asleep", "check")
    /\ UNCHANGED <<requests, responses, server, receiver, shared, nextId, shut, inputs, deliveries, served>>

Stop ==
    /\ Goto("stop", "join")
    /\ running' = FALSE /\ shut' = TRUE
    /\ UNCHANGED <<requests, responses, server, receiver, ack, ackReady, nextId, inputs, deliveries, served>>

Join ==
    /\ receiver = "ended" /\ Goto("join", "exit")
    /\ UNCHANGED <<requests, responses, server, receiver, shared, nextId, shut, inputs, deliveries, served>>

-----------------------------------------------------------------------------
(* The receiver thread.                                                    *)

\* Mutant: nobody is woken.
Silent == main

\* pthread_cond_broadcast(ack_cond).
Broadcast == IF main.pc = "asleep" THEN [main EXCEPT !.pc = "check"] ELSE main

\* Mutant: deliveries count as acknowledgements.
AnyResponse(r) == TRUE

IsAck(r) == r.type = "ack"

Receive ==
    LET r == Head(responses)
    IN /\ receiver = "read" /\ responses # <<>> /\ responses' = Tail(responses)
       /\ IF IsAck(r) THEN ack' = r /\ ackReady' = TRUE /\ main' = Broadcast /\ UNCHANGED receiver
                      ELSE receiver' = "decrypt" /\ UNCHANGED <<ack, ackReady, main>>
       /\ UNCHANGED <<requests, server, running, nextId, shut, inputs, deliveries, served>>

\* process_message has answered, or failed: either is printed.
Decrypted ==
    /\ receiver = "decrypt" /\ receiver' = "read"
    /\ UNCHANGED <<requests, responses, server, main, shared, nextId, shut, inputs, deliveries, served>>

\* read_full fails: the stream has ended, or the socket was shut down.
ReceiverEnds ==
    /\ receiver = "read" /\ receiver' = "ended"
    /\ shut \/ (server.pc = "closed" /\ responses = <<>>)
    /\ running' = FALSE /\ main' = Broadcast
    /\ UNCHANGED <<requests, responses, server, ack, ackReady, nextId, shut, inputs, deliveries, served>>

-----------------------------------------------------------------------------
(* The server's thread for this client.                                    *)

\* What the handlers answer; "offline" is any answer that drops the peer.
Statuses(type, auth) ==
    CASE type = "register" -> {"registered", "refused"}
      [] type = "login" -> {"ok", "refused", "already-online"}
      [] type = "logout" -> {"ok"}
      [] ~auth -> {"auth-required"}
      [] type = "select" -> {"ok", "offline"}
      [] OTHER -> {"delivered", "offline"}

\* A request is served, and answered in a later step: as soon as its user is
\* online, others can deliver messages.
Serve ==
    LET r == Head(requests)
    IN /\ server.pc = "read" /\ requests # <<>> /\ requests' = Tail(requests)
       /\ \E status \in Statuses(r.type, server.auth) :
            /\ server' = [pc |-> "answer", req |-> r, status |-> status,
                          auth |-> IF r.type # "login" \/ status = "already-online" THEN server.auth
                                   ELSE status = "ok"]
            /\ served' = [served EXCEPT ![r.id] = status]
       /\ UNCHANGED <<responses, main, receiver, shared, nextId, shut, inputs, deliveries>>

\* send_ack; a logout ends the connection.
SendAck ==
    /\ server.pc = "answer"
    /\ responses' = Append(responses, [type |-> "ack", id |-> server.req.id, status |-> server.status])
    /\ server' = [server EXCEPT !.pc = IF server.req.type = "logout" THEN "closed" ELSE "read"]
    /\ UNCHANGED <<requests, main, receiver, shared, nextId, shut, inputs, deliveries, served>>

EndOfStream ==
    /\ server.pc = "read" /\ shut /\ requests = <<>>
    /\ server' = [server EXCEPT !.pc = "closed"]
    /\ UNCHANGED <<requests, responses, main, receiver, shared, nextId, shut, inputs, deliveries, served>>

\* Another user's message, with that user's message_id.
Deliver ==
    /\ server.pc # "closed" /\ server.auth
    /\ deliveries < MaxDeliveries /\ deliveries' = deliveries + 1
    /\ \E id \in Ids : responses' = Append(responses, [type |-> "delivery", id |-> id, status |-> "ok"])
    /\ UNCHANGED <<requests, server, main, receiver, shared, nextId, shut, inputs, served>>

\* The server dies or the connection breaks, with what is on its way or without.
Break ==
    /\ server.pc # "closed" /\ server' = [server EXCEPT !.pc = "closed"]
    /\ requests' = <<>> /\ responses' \in {responses, <<>>}
    /\ UNCHANGED <<main, receiver, shared, nextId, shut, inputs, deliveries, served>>

-----------------------------------------------------------------------------
Ended == main.pc \in {"exit", "killed"}

\* The user may leave a prompt unanswered.
Over == (Ended \/ Prompting) /\ UNCHANGED vars

MainStep == Menu \/ Peers \/ Chat \/ Check \/ Stop \/ Join
ReceiverStep == Receive \/ Decrypted \/ ReceiverEnds
ServerStep == Serve \/ SendAck \/ EndOfStream

Next ==
    \/ MainStep \/ Submit \/ Elsewise \/ WriteFails \/ Killed \/ WokenForNothing
    \/ ReceiverStep
    \/ ServerStep \/ Deliver \/ Break
    \/ Over

\* Threads are scheduled; the device answers or fails.
Fairness == WF_vars(MainStep) /\ WF_vars(ReceiverStep) /\ WF_vars(ServerStep)

Spec == Init /\ [][Next]_vars /\ Fairness

-----------------------------------------------------------------------------
\* What the terminal reports about a request is what the server did with that
\* request, although deliveries, numbered by their senders, come in between, and
\* one acknowledgement at a time is kept for the main thread.
AnswerIsTrue ==
    main.answer # NoResponse => served[main.answer.id] = main.answer.status

\* The client never signs in or registers on a connection that the server has
\* signed in: with this client, the case in which the relay's table of online
\* users keeps a stale entry (switched in RelayServer) does not arise, whatever
\* fails or is refused.
NoSecondLogin ==
    \A k \in DOMAIN requests : requests[k].type \in AuthTypes => ~server.auth

\* The main thread does not wait for ever: it comes back to a prompt or the
\* program ends, whether the server answers, dies before or after it did its
\* work, or closes the connection after a logout, and however the two threads'
\* steps around ack_cond interleave.
BackToPrompt == main.pc \in {"check", "asleep", "stop", "join"} ~> Prompting \/ Ended
=============================================================================

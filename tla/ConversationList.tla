--------------------------- MODULE ConversationList ---------------------------
(***************************************************************************)
(* The conversation list of user Me's chat page, with its order and its    *)
(* unread badges, and the server handlers that feed it: sends and reads    *)
(* from one await to the next, previews that are built from several reads, *)
(* and listConversationsForUser.  All conversations are direct; sentAt is  *)
(* the number of a message, and no two messages share an instant.          *)
(*                                                                         *)
(* The room of the selected conversation is joined at once: ChatClient     *)
(* models how rooms are changed.                                           *)
(***************************************************************************)
EXTENDS Naturals, FiniteSets, Sequences

CONSTANTS
    Convs,
    First,    \* [Convs -> Nat]: sentAt of each conversation's first message
    Slots,    \* bound: handlers that run at a time
    MaxLists, \* bound: loads of the list that are under way at a time
    MaxMsgs, MaxInbox, \* bounds
    MaxMoves  \* bound on what users and the network do of their own accord

None == "none"

\* The first messages were stored at different instants.
ASSUME FirstAssumption ==
    /\ IsFiniteSet(Convs) /\ None \notin Convs
    /\ First \in [Convs -> 1 .. Cardinality(Convs)]
    /\ \A c, d \in Convs : First[c] = First[d] => c = d

Loads == 1 .. MaxLists

VARIABLES
    \* the server
    now,      \* sentAt of the last message
    active,   \* conversations Me is an active participant of
    latest,   \* sentAt of each conversation's latest message
    touched,  \* conversations: lastMessageAt
    unread,   \* participants: Me's unreadCount
    job,      \* the send and read handlers
    \* the browser
    link,     \* the socket is connected
    room,     \* the conversation room the socket is in
    inbox,    \* events on their way
    selected,
    list,     \* state.conversations: id, at (lastMessageAt), n (unreadCount)
    load,     \* calls of listConversations
    moves,
    calm      \* ghost: nothing that the list shows was overtaken or lost

serverVars == <<now, active, latest, touched, unread>>
browserVars == <<link, room, selected, list>>
vars == <<serverVars, job, inbox, browserVars, load, moves, calm>>

Handler(kind, pc, c, sent) ==
    [kind |-> kind, pc |-> pc, conv |-> c, sent |-> sent, at |-> 0, n |-> 0, to |-> FALSE]
Idle == Handler("idle", "idle", None, 0)

LoadAt(pc, clean, drop) == [pc |-> pc, rows |-> <<>>, items |-> <<>>, drop |-> drop, clean |-> clean]
NoLoad == LoadAt("idle", TRUE, None)
NewLoad(clean, drop) == LoadAt("rows", clean, drop)

NoJobs == \A s \in Slots : job[s] = Idle
Spend == moves > 0 /\ moves' = moves - 1

Init ==
    /\ now = Cardinality(Convs) /\ active = Convs
    /\ latest = First /\ touched = First /\ unread = [c \in Convs |-> 0]
    /\ job = [s \in Slots |-> Idle]
    /\ link = TRUE /\ room = None /\ inbox = <<>> /\ selected = None
    /\ list = <<>>
    /\ load = [i \in Loads |-> IF i = 1 THEN NewLoad(TRUE, None) ELSE NoLoad]
    /\ moves = MaxMoves /\ calm = FALSE

-----------------------------------------------------------------------------
(* Handlers.  Ghosts: two handlers of one conversation overlap; a load of  *)
(* the list that is under way is no longer of one instant.                 *)

Overtaken == [i \in Loads |-> [load[i] EXCEPT !.clean = (load[i] = NoLoad)]]

Begin(s, kind, pc, c, sent) ==
    /\ job[s] = Idle
    /\ job' = [job EXCEPT ![s] = Handler(kind, pc, c, sent)]
    /\ calm' = (calm /\ \A r \in Slots : job[r].conv # c)
    /\ load' = Overtaken

Store(c) ==
    /\ now < MaxMsgs /\ now' = now + 1
    /\ latest' = [latest EXCEPT ![c] = now']

\* sendMessage up to the stored message: Me's row is restored if Me had left.
PeerSends(s, c) ==
    /\ Store(c) /\ Begin(s, "peerSend", "touch", c, now')
    /\ active' = active \cup {c}
    /\ Spend
    /\ UNCHANGED <<touched, unread, inbox, browserVars>>

ISend(s) ==
    /\ selected \in active /\ link
    /\ Store(selected) /\ Begin(s, "mySend", "touch", selected, now')
    /\ Spend
    /\ UNCHANGED <<active, touched, unread, inbox, browserVars>>

\* selectConversation, from the click to mark_conversation_read: by socket, or by
\* HTTP if there is no connection.  Somebody who is no participant is refused, and
\* a thread that could not be loaded is not read.
Open(s, c) ==
    /\ \E k \in DOMAIN list : list[k].id = c
    /\ selected' = c
    /\ room' = IF c \in active THEN c ELSE None
    /\ \/ c \in active /\ Begin(s, IF link THEN "myRead" ELSE "httpRead", "zero", c, 0)
       \/ UNCHANGED <<job, calm, load>>
    /\ Spend
    /\ UNCHANGED <<serverVars, inbox, link, list>>

\* handleMarkConversationRead for the peer; its own row is not modelled.
PeerReads(s, c) ==
    /\ Begin(s, "peerRead", "latest", c, 0)
    /\ Spend
    /\ UNCHANGED <<serverVars, inbox, browserVars>>

Step(s, from, to) ==
    /\ job[s].pc = from
    /\ job' = [job EXCEPT ![s].pc = to]

\* conversationModel.updateOne: the handlers' writes come in any order.
Touch(s) ==
    /\ Step(s, "touch", "count")
    /\ touched' = [touched EXCEPT ![job[s].conv] = job[s].sent]
    /\ UNCHANGED <<now, active, latest, unread, inbox, browserVars, load, moves, calm>>

\* The sender's counter is reset, then the others' are incremented.
Count(s) ==
    LET c == job[s].conv
    IN /\ Step(s, "count", "latest")
       /\ unread' = [unread EXCEPT ![c] = IF job[s].kind = "mySend" THEN 0
                                          ELSE IF c \in active THEN @ + 1 ELSE @]
       /\ UNCHANGED <<now, active, latest, touched, inbox, browserVars, load, moves, calm>>

\* markConversationRead.
Zero(s) ==
    /\ Step(s, "zero", IF job[s].kind = "httpRead" THEN "answer" ELSE "latest")
    /\ unread' = [unread EXCEPT ![job[s].conv] = 0]
    /\ UNCHANGED <<now, active, latest, touched, inbox, browserVars, load, moves, calm>>

\* buildConversationPreviewPayloads: who is told, and the latest message.
ReadLatest(s) ==
    /\ job[s].pc = "latest"
    /\ job' = [job EXCEPT ![s].pc = "row", ![s].to = (job[s].conv \in active),
                          ![s].at = latest[job[s].conv]]
    /\ UNCHANGED <<serverVars, inbox, browserVars, load, moves, calm>>

\* buildConversationPreviewPayload: Me's row.
ReadRow(s) ==
    /\ job[s].pc = "row"
    /\ job' = [job EXCEPT ![s].pc = "emit",
                          ![s].n = IF job[s].conv \in active THEN unread[job[s].conv] ELSE 0]
    /\ UNCHANGED <<serverVars, inbox, browserVars, load, moves, calm>>

\* emitConversationPreviews, then emitRealtimeMessage or conversation_read_updated.
\* The second copy of a message, and the acknowledgement that follows Me's own
\* read, change nothing more in the list.
Events(j) ==
    LET event(t) == [t |-> t, conv |-> j.conv, sent |-> j.sent, at |-> j.at, n |-> j.n, kind |-> j.kind]
        heard == j.to \/ room = j.conv
    IN (IF j.to THEN <<event("preview")>> ELSE <<>>)
       \o (IF j.kind \in {"peerSend", "mySend"} /\ heard THEN <<event("message")>> ELSE <<>>)
       \o (IF j.kind = "myRead" \/ (j.kind = "peerRead" /\ room = j.conv) THEN <<event("read")>> ELSE <<>>)

Emit(s) ==
    /\ job[s].pc = "emit"
    /\ Len(inbox) + Len(Events(job[s])) <= MaxInbox
    /\ job' = [job EXCEPT ![s] = Idle]
    /\ inbox' = IF link THEN inbox \o Events(job[s]) ELSE inbox
    /\ calm' = (calm /\ (link \/ Events(job[s]) = <<>>))
    /\ UNCHANGED <<serverVars, browserVars, load, moves>>

-----------------------------------------------------------------------------
(* listConversationsForUser.                                               *)

\* Me's rows.
ListRows(i) ==
    /\ load[i].pc = "rows"
    /\ load' = [load EXCEPT ![i].pc = "order", ![i].rows = [c \in active |-> unread[c]]]
    /\ UNCHANGED <<serverVars, job, inbox, browserVars, moves, calm>>

\* The conversations, by lastMessageAt.
ByTouched(convs) ==
    CHOOSE s \in [1 .. Cardinality(convs) -> convs] :
        \A j, k \in DOMAIN s : j < k => touched[s[j]] > touched[s[k]]

ListOrder(i) ==
    /\ load[i].pc = "order"
    /\ load' = [load EXCEPT ![i].pc = "latest", ![i].items = ByTouched(DOMAIN load[i].rows)]
    /\ UNCHANGED <<serverVars, job, inbox, browserVars, moves, calm>>

\* Their latest messages; the order stands.
ListLatest(i) ==
    LET item(c) == [id |-> c, at |-> latest[c], n |-> load[i].rows[c]]
    IN /\ load[i].pc = "latest"
       /\ load' = [load EXCEPT ![i].pc = "arrive",
                               ![i].items = [k \in DOMAIN @ |-> item(@[k])]]
       /\ UNCHANGED <<serverVars, job, inbox, browserVars, moves, calm>>

\* loadConversations, and the end of handleDeleteConversation.
ListArrives(i) ==
    /\ load[i].pc = "arrive"
    /\ list' = load[i].items
    /\ selected' = IF selected = load[i].drop THEN None ELSE selected
    /\ load' = [load EXCEPT ![i] = NoLoad]
    /\ calm' = (load[i].clean /\ (calm \/ inbox = <<>>))
    /\ UNCHANGED <<serverVars, job, inbox, link, room, moves>>

ListFails(i) ==
    /\ load[i].pc = "arrive"
    /\ load' = [load EXCEPT ![i] = NoLoad]
    /\ calm' = FALSE
    /\ UNCHANGED <<serverVars, job, inbox, browserVars, moves>>

\* Ghost: clean while nothing else runs.
StartLoad(others, drop) ==
    \E i \in Loads : /\ load[i] = NoLoad
                     /\ load' = [others EXCEPT ![i] = NewLoad(NoJobs, drop)]

\* handleDeleteConversation: the room is left, by socket, ...
LeaveRoom(c) ==
    /\ \E k \in DOMAIN list : list[k].id = c
    /\ room = c => link
    /\ room' = IF room = c THEN None ELSE room

\* ... then the conversation, and the list is loaded again.
Delete(c) ==
    /\ LeaveRoom(c)
    /\ c \in active /\ active' = active \ {c}
    /\ StartLoad(Overtaken, c)
    /\ calm' = (calm /\ \A s \in Slots : job[s].conv # c)
    /\ Spend
    /\ UNCHANGED <<now, latest, touched, unread, job, inbox, link, selected, list>>

\* The route fails, or refuses somebody who is no participant: catch gives up.
DeleteFails(c) ==
    /\ LeaveRoom(c) /\ room' # room
    /\ Spend
    /\ UNCHANGED <<serverVars, job, inbox, link, selected, list, load, calm>>

-----------------------------------------------------------------------------
(* The page.                                                               *)

Listed(c) == \E k \in DOMAIN list : list[k].id = c
Badge(c) == LET k == CHOOSE x \in DOMAIN list : list[x].id = c IN list[k].n
Cleared(c) == [k \in DOMAIN list |-> IF list[k].id = c THEN [list[k] EXCEPT !.n = 0] ELSE list[k]]

\* Array.prototype.sort: what is equal stays in order.
LatestFirst(items) ==
    LET before(j, k) == items[j].at > items[k].at \/ (items[j].at = items[k].at /\ j < k)
        order == CHOOSE p \in [DOMAIN items -> DOMAIN items] :
                   \A j, k \in DOMAIN items : j < k => before(p[j], p[k])
    IN [k \in DOMAIN items |-> items[order[k]]]

\* updateConversationPreview of a listed conversation.
UpdatePreview(c, at, n) ==
    LatestFirst([k \in DOMAIN list |-> IF list[k].id = c THEN [id |-> c, at |-> at, n |-> n] ELSE list[k]])

Take(t) == inbox # <<>> /\ Head(inbox).t = t /\ inbox' = Tail(inbox)

\* Mutant: an unknown conversation is ignored.
ReloadNever == UNCHANGED load

\* shouldReloadConversations.
Reload == StartLoad(load, None)

\* handlePreviewUpdate.
PreviewUpdated ==
    LET e == Head(inbox)
    IN /\ Take("preview")
       /\ IF Listed(e.conv) THEN list' = UpdatePreview(e.conv, e.at, e.n) /\ UNCHANGED load
                            ELSE Reload /\ UNCHANGED list
       /\ UNCHANGED <<serverVars, job, link, room, selected, moves, calm>>

\* handleIncomingMessage: the badge stays.
MessageDelivered ==
    LET e == Head(inbox)
    IN /\ Take("message")
       /\ IF Listed(e.conv) THEN list' = UpdatePreview(e.conv, e.sent, Badge(e.conv)) /\ UNCHANGED load
                            ELSE Reload /\ UNCHANGED list
       /\ UNCHANGED <<serverVars, job, link, room, selected, moves, calm>>

\* handleConversationRead, whoever has read.
ConversationRead ==
    LET e == Head(inbox)
    IN /\ Take("read")
       /\ list' = Cleared(e.conv)
       /\ calm' = (calm /\ (e.kind = "myRead" \/ ~Listed(e.conv) \/ Badge(e.conv) = 0))
       /\ UNCHANGED <<serverVars, job, link, room, selected, load, moves>>

\* The answer of the HTTP route: no event is emitted.
ReadAnswered(s) ==
    /\ job[s].pc = "answer"
    /\ job' = [job EXCEPT ![s] = Idle]
    /\ list' = Cleared(job[s].conv)
    /\ UNCHANGED <<serverVars, inbox, link, room, selected, load, moves, calm>>

\* Events to a closed connection are lost, and nothing is loaded again when it is
\* back.
Disconnect ==
    /\ link /\ link' = FALSE
    /\ inbox' = <<>>
    /\ calm' = (calm /\ inbox = <<>>)
    /\ Spend
    /\ UNCHANGED <<serverVars, job, room, selected, list, load>>

Connect ==
    /\ ~link /\ link' = TRUE
    /\ UNCHANGED <<serverVars, job, inbox, room, selected, list, load, moves, calm>>

\* The page is opened anew (while no answer of the HTTP route is due to it).
Reopen ==
    /\ \A s \in Slots : job[s].kind # "httpRead"
    /\ link' = TRUE /\ room' = None /\ inbox' = <<>> /\ selected' = None
    /\ list' = <<>> /\ calm' = FALSE
    /\ load' = [i \in Loads |-> IF i = 1 THEN NewLoad(NoJobs, None) ELSE NoLoad]
    /\ Spend
    /\ UNCHANGED <<serverVars, job>>

Next ==
    \/ \E s \in Slots, c \in Convs : PeerSends(s, c) \/ Open(s, c) \/ PeerReads(s, c)
    \/ \E s \in Slots : \/ ISend(s) \/ Touch(s) \/ Count(s) \/ Zero(s)
                        \/ ReadLatest(s) \/ ReadRow(s) \/ Emit(s) \/ ReadAnswered(s)
    \/ \E i \in Loads : ListRows(i) \/ ListOrder(i) \/ ListLatest(i) \/ ListArrives(i) \/ ListFails(i)
    \/ \E c \in Convs : Delete(c) \/ DeleteFails(c)
    \/ PreviewUpdated \/ MessageDelivered \/ ConversationRead
    \/ Disconnect \/ Connect \/ Reopen

Spec == Init /\ [][Next]_vars

-----------------------------------------------------------------------------
Descending(items) == \A k \in 1 .. Len(items) - 1 : items[k].at > items[k + 1].at

Quiet == NoJobs /\ inbox = <<>> /\ \A i \in Loads : load[i] = NoLoad

\* Once everything has arrived, the page lists exactly the conversations its user
\* is in, once each, the ones that a message brought back included, each with the server's
\* unread count and latest message, and the latest one first - unless handlers
\* of one conversation overlapped, a load of the list overlapped a handler or
\* failed, events were lost with the connection, or the peer's reading cleared
\* the badge; a later load of the list that overlaps nothing repairs all of
\* these, except an order that the server itself stores wrongly.
ListTrue ==
    calm /\ Quiet =>
      /\ {list[k].id : k \in DOMAIN list} = active /\ Len(list) = Cardinality(active)
      /\ \A k \in DOMAIN list : list[k].n = unread[list[k].id] /\ list[k].at = latest[list[k].id]
      /\ touched = latest => Descending(list)
=============================================================================

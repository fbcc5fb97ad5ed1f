---------------------------- MODULE Conversations ----------------------------
(***************************************************************************)
(* Conversations and their members: createConversation, addMember,         *)
(* removeMember, leaveConversation / deleteConversationForUser, with the   *)
(* access checks the controller awaits before each of them.                *)
(***************************************************************************)
EXTENDS ChatStore

NewRow(c, u, role) ==
    [conv |-> c, user |-> u, role |-> role, status |-> "active",
     unread |-> 0, lastRead |-> 0, joined |-> Len(msgs)]

NewEvent(c, type, target, actor) ==
    [conv |-> c, type |-> type, target |-> target, actor |-> actor]

-----------------------------------------------------------------------------
(* Access checks, shared by the handlers of one conversation. *)

\* Where a handler goes once its caller is known to be an active participant.
AfterGuard(op) ==
    CASE op = "add"     -> "find"
      [] op = "leave"   -> "update"
      [] op = "send"    -> "restore"
      [] op = "read"    -> "latest"
      [] op = "presign" -> "insert"
      [] op = "confirm" -> "file"

\* Mutant: the check is forgotten.
SkipActiveCheck(p) ==
    /\ call[p].pc = "guard"
    /\ call[p].op # "remove"
    /\ Goto(p, AfterGuard(call[p].op))
    /\ UNCHANGED <<store, world, opened>>

\* requireActiveParticipant / getRequiredActiveParticipant.
RequireActiveParticipant(p) ==
    LET c == call[p]
        mine == ActiveRows(c.conv, c.user)
    IN /\ c.pc = "guard"
       /\ c.op # "remove"
       /\ \/ mine = {} /\ Return(p)
          \/ \E i \in mine :
                call' = [call EXCEPT ![p].pc = AfterGuard(c.op),
                                     ![p].row = IF c.op \in {"send", "read"} THEN i ELSE 0]
       /\ UNCHANGED <<store, world, opened>>

\* Mutant: any active participant may remove others.
RequireAnyRole(p) ==
    LET c == call[p]
    IN /\ At(p, "remove", "guard")
       /\ \/ ActiveRows(c.conv, c.user) = {} /\ Return(p)
          \/ ActiveRows(c.conv, c.user) # {} /\ Goto(p, "update")
       /\ UNCHANGED <<store, world, opened>>

\* requireAdminOrOwner: the role comes from any one of the caller's active rows.
RequireAdminOrOwner(p) ==
    LET c == call[p]
        mine == ActiveRows(c.conv, c.user)
        allowed == {i \in mine : rows[i].role \in {"admin", "owner"}}
    IN /\ At(p, "remove", "guard")
       /\ \/ allowed # mine /\ Return(p)
          \/ mine = {} /\ Return(p)
          \/ allowed # {} /\ Goto(p, "update")
       /\ UNCHANGED <<store, world, opened>>

-----------------------------------------------------------------------------
(* createConversation *)

\* A direct conversation with oneself is refused before anything is read.
CreateConversation(p) ==
    \E u \in Users, group \in BOOLEAN, others \in SUBSET Users :
        /\ ~group => \E v \in Users \ {u} : others = {v}
        /\ Begin(p, "create",
                 [Idle EXCEPT !.op = "create", !.user = u, !.who = {u} \cup others,
                              !.flag = group, !.pc = IF group THEN "insert" ELSE "find"])

\* findDirectConversation, first half: the direct conversations in which both
\* users have a participant row, whatever its status.
FindShared(p) ==
    LET c == call[p]
        shared == {k \in DOMAIN convs : /\ convs[k].type = "direct"
                                        /\ \A u \in c.who : \E i \in RowsOf(k) : rows[i].user = u}
    IN /\ At(p, "create", "find")
       /\ call' = [call EXCEPT ![p].ids = shared,
                               ![p].pc = IF shared = {} THEN "insert" ELSE "check"]
       /\ UNCHANGED <<store, world, opened>>

\* Mutant: only active rows are counted.
MatchesActivePair(k, pair) ==
    /\ Cardinality({i \in RowsOf(k) : rows[i].status = "active"}) = 2
    /\ pair = {rows[i].user : i \in {j \in RowsOf(k) : rows[j].status = "active"}}

\* The conversation has exactly two rows, one for each of the two users.
MatchesPair(k, pair) ==
    Cardinality(RowsOf(k)) = 2 /\ pair = {rows[i].user : i \in RowsOf(k)}

\* findDirectConversation, the loop: one candidate is read at a time, in the
\* order of updatedAt, which every message changes: here, in any order.
CheckConversation(p) ==
    \E k \in call[p].ids :
        LET left == call[p].ids \ {k}
        IN /\ At(p, "create", "check")
           /\ IF MatchesPair(k, call[p].who)
                THEN Return(p)
                ELSE call' = [call EXCEPT ![p].ids = left,
                                          ![p].pc = IF left = {} THEN "insert" ELSE "check"]
           /\ UNCHANGED <<store, world, opened>>

InsertConversation(p) ==
    LET c == call[p]
    IN /\ At(p, "create", "insert")
       /\ convs' = Append(convs, [type |-> IF c.flag THEN "group" ELSE "direct",
                                  createdBy |-> c.user, lastMessageAt |-> 0])
       /\ call' = [call EXCEPT ![p].conv = Len(convs) + 1, ![p].todo = c.who,
                               ![p].pc = "insertRow"]
       /\ UNCHANGED <<rows, events, msgs, files, world, opened>>

\* insertMany writes its documents in order, the creator's first, and each is
\* visible as soon as it is written.
NextToInsert(p) ==
    IF call[p].user \in call[p].todo THEN {call[p].user} ELSE call[p].todo

InsertRow(p) ==
    \E u \in NextToInsert(p) :
        LET c == call[p]
            last == c.todo = {u}
        IN /\ At(p, "create", "insertRow")
           /\ rows' = Append(rows, NewRow(c.conv, u, IF u = c.user THEN "owner" ELSE "member"))
           /\ call' = [call EXCEPT ![p].todo = IF last THEN c.who ELSE c.todo \ {u},
                                   ![p].pc = IF last THEN "insertEvent" ELSE "insertRow"]
           /\ UNCHANGED <<convs, events, msgs, files, world, opened>>

InsertEvent(p) ==
    \E u \in NextToInsert(p) :
        LET c == call[p]
        IN /\ At(p, "create", "insertEvent")
           /\ events' = Append(events, IF u = c.user THEN NewEvent(c.conv, "joined", u, None)
                                                     ELSE NewEvent(c.conv, "added", u, c.user))
           /\ IF c.todo = {u} THEN Return(p)
                              ELSE call' = [call EXCEPT ![p].todo = c.todo \ {u}]
           /\ UNCHANGED <<convs, rows, msgs, files, world, opened>>

-----------------------------------------------------------------------------
(* addMember, removeMember, leaveConversation: the controller's check is an *)
(* await of its own, made before the service reads anything.                *)

\* A client names a conversation it has seen and a user of the directory.
MemberRequest(p, op) ==
    \E u \in Users, v \in Users, k \in DOMAIN convs :
        /\ op = "leave" => v = u
        /\ Begin(p, op, [Idle EXCEPT !.op = op, !.pc = "guard", !.user = u, !.peer = v,
                                     !.conv = k])

AddMember(p) == MemberRequest(p, "add")
RemoveMember(p) == MemberRequest(p, "remove")
LeaveConversation(p) == MemberRequest(p, "leave")

\* Mutant: the service does not look for an active row.
SkipFindExisting(p) ==
    /\ At(p, "add", "find")
    /\ Goto(p, "insert")
    /\ UNCHANGED <<store, world, opened>>

AddFindExisting(p) ==
    /\ At(p, "add", "find")
    /\ IF ActiveRows(call[p].conv, call[p].peer) # {} THEN Return(p) ELSE Goto(p, "insert")
    /\ UNCHANGED <<store, world, opened>>

AddInsertRow(p) ==
    /\ At(p, "add", "insert")
    /\ rows' = Append(rows, NewRow(call[p].conv, call[p].peer, "member"))
    /\ Goto(p, "event")
    /\ UNCHANGED <<convs, events, msgs, files, world, opened>>

AddEvent(p) ==
    /\ At(p, "add", "event")
    /\ events' = Append(events, NewEvent(call[p].conv, "added", call[p].peer, call[p].user))
    /\ Return(p)
    /\ UNCHANGED <<convs, rows, msgs, files, world, opened>>

\* updateOne on the active rows of the user: one of them, if there is any.
UpdateStatus(p, status) ==
    LET live == ActiveRows(call[p].conv, call[p].peer)
    IN /\ \/ live = {} /\ UNCHANGED rows
          \/ \E i \in live : rows' = [rows EXCEPT ![i].status = status]
       /\ Goto(p, "event")
       /\ UNCHANGED <<convs, events, msgs, files, world, opened>>

RemoveUpdate(p) == At(p, "remove", "update") /\ UpdateStatus(p, "removed")

RemoveEvent(p) ==
    /\ At(p, "remove", "event")
    /\ events' = Append(events, NewEvent(call[p].conv, "removed", call[p].peer, call[p].user))
    /\ Return(p)
    /\ UNCHANGED <<convs, rows, msgs, files, world, opened>>

\* Mutant: the row is marked removed, as removeMember does.
LeaveAsRemoved(p) == At(p, "leave", "update") /\ UpdateStatus(p, "removed")

LeaveUpdate(p) == At(p, "leave", "update") /\ UpdateStatus(p, "left")

LeaveEvent(p) ==
    /\ At(p, "leave", "event")
    /\ events' = Append(events, NewEvent(call[p].conv, "left", call[p].peer, None))
    /\ Return(p)
    /\ UNCHANGED <<convs, rows, msgs, files, world, opened>>

MembershipRequest(p) ==
    CreateConversation(p) \/ AddMember(p) \/ RemoveMember(p) \/ LeaveConversation(p)

MembershipStep(p) ==
    \/ RequireActiveParticipant(p) \/ RequireAdminOrOwner(p)
    \/ FindShared(p) \/ CheckConversation(p)
    \/ InsertConversation(p) \/ InsertRow(p) \/ InsertEvent(p)
    \/ AddFindExisting(p) \/ AddInsertRow(p) \/ AddEvent(p)
    \/ RemoveUpdate(p) \/ RemoveEvent(p)
    \/ LeaveUpdate(p) \/ LeaveEvent(p)
=============================================================================

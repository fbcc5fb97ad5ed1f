----------------------------- MODULE ChatService -----------------------------
(***************************************************************************)
(* The chat backend: every request that changes the chat collections, run  *)
(* by handlers that interleave at their awaits.  It composes the modules   *)
(* Conversations, Messages and Attachments over one store.                 *)
(***************************************************************************)
EXTENDS Attachments

Request(p) == MembershipRequest(p) \/ MessageRequest(p) \/ AttachmentRequest(p)

Step(p) == MembershipStep(p) \/ MessageStep(p) \/ AttachmentStep(p)

\* The clients have no request left and every handler has returned.
Finished == started = MaxRequests /\ Quiescent /\ UNCHANGED vars

Next ==
    \/ \E p \in Procs : Request(p) \/ Step(p) \/ Fail(p)
    \/ Tick
    \/ Finished

\* Every awaited call settles, so a handler in flight takes its next step.
Fairness == \A p \in Procs : WF_vars(Step(p))

Spec == Init /\ [][Next]_vars /\ Fairness

-----------------------------------------------------------------------------
(* Members. *)

\* In a group, a participant row that stopped being active is never touched
\* again: who left or was removed only comes back with a row of its own, made
\* by addMember.  (sendMessage's restoration is for direct conversations.)
GroupExitIsFinal ==
    [][\A i \in DOMAIN rows :
          convs[rows[i].conv].type = "group" /\ rows[i].status # "active"
            => rows'[i].status = rows[i].status]_vars

\* Every "removed" entry of the history names an actor who was given the role
\* of owner or admin in that conversation (requireAdminOrOwner), whatever
\* happened to that actor between the check and the write.
RemovedByManager ==
    \A k \in DOMAIN events : events[k].type = "removed" =>
        \E i \in RowsOf(events[k].conv) :
            rows[i].user = events[k].actor /\ rows[i].role \in {"admin", "owner"}

\* When no handler failed and none is in flight, every row that is not active
\* is explained by an event of the same kind on the same user: concurrent
\* leaves, removals and restorations never produce an unexplained absence.
AbsenceExplained ==
    failures = 0 /\ Quiescent =>
        \A i \in DOMAIN rows : rows[i].status # "active" =>
            \E k \in DOMAIN events : /\ events[k].conv = rows[i].conv
                                     /\ events[k].target = rows[i].user
                                     /\ events[k].type = rows[i].status

\* One active row for each member of a conversation.
UniqueActiveMembership ==
    \A c \in DOMAIN convs, u \in Users : Cardinality(ActiveRows(c, u)) <= 1

\* As long as requests are served one at a time, addMember's look-up keeps the
\* active membership of a group unique, failures included.
SequentialGroupUnique ==
    ~overlap => \A c \in DOMAIN convs, u \in Users :
                    convs[c].type = "group" => Cardinality(ActiveRows(c, u)) <= 1

\* As long as requests are served one at a time, none fails and nobody was added
\* to a direct conversation, two users share at most one direct conversation:
\* leaving and coming back finds the old one.
SequentialDirectUnique ==
    LET pairs == {c \in DOMAIN convs : convs[c].type = "direct" /\ Cardinality(RowsOf(c)) = 2}
        members(c) == {rows[i].user : i \in RowsOf(c)}
    IN ~overlap /\ failures = 0
         /\ (\A c \in DOMAIN convs : convs[c].type = "direct" => Cardinality(RowsOf(c)) <= 2)
         => \A c, d \in pairs : members(c) = members(d) => c = d

-----------------------------------------------------------------------------
(* Messages. *)

\* A message's sender has, or had, a participant row in its conversation: the
\* check made before the restoration and the encryption is never by-passed.
SenderWasMember ==
    \A m \in DOMAIN msgs : \E i \in RowsOf(msgs[m].conv) : rows[i].user = msgs[m].sender

\* A message is "seen" only if some other user recorded a read of a message at
\* least as recent: never by its own sender, never because of a read that was
\* made before it was sent.
SeenWasRead ==
    \A m \in DOMAIN msgs : msgs[m].seen =>
        \E r \in opened : /\ r.conv = msgs[m].conv
                          /\ r.user # msgs[m].sender
                          /\ r.at >= msgs[m].sentAt

FromOthers(i) == {m \in MessagesOf(rows[i].conv) : msgs[m].sender # rows[i].user}

\* The user of row i stayed in the conversation since the row was made.
Stayed(i) ==
    \A k \in DOMAIN events : events[k].conv = rows[i].conv /\ events[k].target = rows[i].user
                               => events[k].type \in {"joined", "added"}

\* A counter at zero hides no message newer than the last one read.
NoHiddenMessage(i) ==
    rows[i].unread = 0 => \A m \in FromOthers(i) : m > rows[i].joined =>
        rows[i].lastRead # 0 /\ msgs[m].sentAt <= msgs[rows[i].lastRead].sentAt

\* A counter above zero stands for a message that was not read yet.
NoPhantomMessage(i) ==
    rows[i].unread > 0 => \E m \in FromOthers(i) :
        rows[i].lastRead # 0 => msgs[m].sentAt >= msgs[rows[i].lastRead].sentAt

\* When no request is in flight, a member's unread counter is zero only if no
\* message is newer than the last one read.
UnreadConsistent ==
    Quiescent /\ failures = 0 =>
        \A i \in DOMAIN rows : rows[i].status = "active" /\ Stayed(i) => NoHiddenMessage(i)

\* As long as requests are served one at a time and none fails, the unread
\* counter of a member who stayed agrees with the last message read.
SequentialUnread ==
    ~overlap /\ failures = 0 /\ Quiescent =>
        \A i \in DOMAIN rows : rows[i].status = "active" /\ Stayed(i) =>
            NoHiddenMessage(i) /\ NoPhantomMessage(i)

-----------------------------------------------------------------------------
(* Attachments. *)

\* A message carries only a file of its own conversation that its own sender
\* uploaded and confirmed, and a file's messageId leads back to a message that
\* carries it: whatever confirmations and sends of the file overlap.
AttachmentSound ==
    /\ \A m \in DOMAIN msgs : msgs[m].file # 0 =>
          LET f == files[msgs[m].file]
          IN f.conv = msgs[m].conv /\ f.uploader = msgs[m].sender /\ f.status # "draft"
    /\ \A f \in DOMAIN files : files[f].msg # 0 => msgs[files[f].msg].file = f

\* As long as requests are served one at a time and none fails, a file that was
\* shared belongs to exactly one message and every active member of the
\* conversation can download it.
SequentialShare ==
    ~overlap /\ failures = 0 /\ Quiescent =>
        \A m \in DOMAIN msgs : msgs[m].file # 0 =>
            /\ files[msgs[m].file].msg = m
            /\ \A u \in ActiveUsers(msgs[m].conv) : Downloadable(msgs[m].file, u)

-----------------------------------------------------------------------------
\* Every handler eventually returns to its client.
EveryCallReturns == \A p \in Procs : call[p] # Idle ~> call[p] = Idle
=============================================================================

-------------------------- MODULE ChatServiceProofs --------------------------
(***************************************************************************)
(* Proofs about the chat backend, for any number of users, of handlers in  *)
(* flight and of requests, whichever handlers fail.                        *)
(*                                                                         *)
(* Handlers keep ids of documents across awaits.  The argument is the same *)
(* for all of them: what a handler learnt about a document (its owner, its *)
(* role, the type of its conversation) is never changed by anyone, so it   *)
(* still holds when the handler writes (Known, Grow, KnownIsStable).       *)
(***************************************************************************)
EXTENDS ChatService, SequenceTheorems, FiniteSetTheorems, TLAPS

USE NoneAssumption

\* The handlers that start with an access check.
Guarded == {"add", "remove", "leave", "send", "read", "presign", "confirm"}

\* What the handler c has learnt of the conversations cv and the rows rw.
Known(c, cv, rw) ==
    /\ c.op # "idle" => c.user \in Users
    /\ c.op \in {"add", "remove", "leave"} => c.peer \in Users
    /\ c.pc = "guard" => c.op \in Guarded
    /\ c.op \in Guarded => c.conv \in DOMAIN cv
    /\ c.op = "create" /\ c.pc \in {"insertRow", "insertEvent"} => c.conv \in DOMAIN cv
    /\ c.op \in {"send", "read"} /\ c.pc # "guard" =>
          c.row \in DOMAIN rw /\ rw[c.row].conv = c.conv /\ rw[c.row].user = c.user
    /\ c.op = "send" /\ c.pc = "restoreRow" =>
          \A i \in c.ids : i \in DOMAIN rw /\ rw[i].conv \in DOMAIN cv
                             /\ cv[rw[i].conv].type = "direct"
    /\ c.op = "remove" /\ c.pc # "guard" =>
          \E i \in DOMAIN rw : rw[i].conv = c.conv /\ rw[i].user = c.user
                                 /\ rw[i].role \in {"admin", "owner"}

\* Documents are added, and what identifies the old ones stays.
Grow(cv, rw, cv2, rw2) ==
    /\ \A k \in DOMAIN cv : k \in DOMAIN cv2 /\ cv2[k].type = cv[k].type
    /\ \A i \in DOMAIN rw : /\ i \in DOMAIN rw2
                            /\ rw2[i].conv = rw[i].conv
                            /\ rw2[i].user = rw[i].user
                            /\ rw2[i].role = rw[i].role

\* What a handler has learnt stays true while others write.
LEMMA KnownIsStable ==
    ASSUME NEW c, NEW cv, NEW rw, NEW cv2, NEW rw2, Grow(cv, rw, cv2, rw2), Known(c, cv, rw)
    PROVE  Known(c, cv2, rw2)
<1>1. c.op = "remove" /\ c.pc # "guard" =>
          \E i \in DOMAIN rw2 : rw2[i].conv = c.conv /\ rw2[i].user = c.user
                                  /\ rw2[i].role \in {"admin", "owner"}
  BY DEF Known, Grow
<1>2. c.op = "send" /\ c.pc = "restoreRow" =>
          \A i \in c.ids : i \in DOMAIN rw2 /\ rw2[i].conv \in DOMAIN cv2
                             /\ cv2[rw2[i].conv].type = "direct"
  BY DEF Known, Grow
<1>3. c.op \in {"send", "read"} /\ c.pc # "guard" =>
          c.row \in DOMAIN rw2 /\ rw2[c.row].conv = c.conv /\ rw2[c.row].user = c.user
  BY DEF Known, Grow
<1>4. /\ c.op \in Guarded => c.conv \in DOMAIN cv2
      /\ c.op = "create" /\ c.pc \in {"insertRow", "insertEvent"} => c.conv \in DOMAIN cv2
  BY DEF Known, Grow
<1>5. QED BY <1>1, <1>2, <1>3, <1>4 DEF Known

\* A step that writes no conversation and no row keeps them.
LEMMA GrowIsReflexive == \A cv, rw : Grow(cv, rw, cv, rw)
  BY DEF Grow

-----------------------------------------------------------------------------
(* Collections. *)

\* insertMany, create: a document is added at the end of a collection.
LEMMA Appended ==
    ASSUME NEW S, NEW s \in Seq(S), NEW d \in S
    PROVE  /\ Append(s, d) \in Seq(S)
           /\ DOMAIN Append(s, d) = DOMAIN s \cup {Len(s) + 1}
           /\ Len(s) + 1 \notin DOMAIN s
           /\ Append(s, d)[Len(s) + 1] = d
           /\ \A i \in DOMAIN s : Append(s, d)[i] = s[i]
  OBVIOUS

\* updateOne, save: one document of a collection is replaced.
LEMMA Replaced ==
    ASSUME NEW S, NEW s \in Seq(S), NEW i \in DOMAIN s, NEW d \in S
    PROVE  /\ [s EXCEPT ![i] = d] \in Seq(S)
           /\ DOMAIN [s EXCEPT ![i] = d] = DOMAIN s
           /\ [s EXCEPT ![i] = d][i] = d
           /\ \A j \in DOMAIN s : j # i => [s EXCEPT ![i] = d][j] = s[j]
  OBVIOUS

\* A function on the indices of a sequence is a sequence.
LEMMA Mapped ==
    ASSUME NEW S, NEW s \in Seq(S), NEW f, f \in [DOMAIN s -> S]
    PROVE  f \in Seq(S) /\ DOMAIN f = DOMAIN s
<1>1. Len(s) \in Nat /\ DOMAIN s = 1..Len(s)
  BY LenProperties
<1>2. f \in [1..Len(s) -> S]
  BY <1>1
<1>3. QED BY <1>1, <1>2, SeqDef

\* Every new state of the handler in slot p is a Call, the other slots stay.
LEMMA CallUpdated ==
    ASSUME call \in [Procs -> Call], NEW p \in Procs, NEW c \in Call,
           call' = [call EXCEPT ![p] = c]
    PROVE  /\ call' \in [Procs -> Call]
           /\ call'[p] = c
           /\ \A q \in Procs : q # p => call'[q] = call[q]
  OBVIOUS

-----------------------------------------------------------------------------
(* The inductive invariant. *)

CallInv == \A p \in Procs : Known(call[p], convs, rows)

RowsInv == \A i \in DOMAIN rows : rows[i].conv \in DOMAIN convs

IInv == TypeOK /\ CallInv /\ RowsInv /\ SenderWasMember /\ RemovedByManager

\* A slot with no handler in it knows nothing.
LEMMA IdleKnown == Idle \in Call /\ \A cv, rw : Known(Idle, cv, rw)
  BY DEF Idle, Call, Pcs, OpNames, Known, Guarded

\* The store before the first request satisfies the invariant.
LEMMA InitIInv == Init => IInv
<1> SUFFICES ASSUME Init PROVE IInv
  OBVIOUS
<1>1. PICK s \in Seeds, u \in Users, v \in Users : u # v /\ Seed(s, u, v)
  BY DEF Init
<1>2. CallInv
  BY IdleKnown DEF Init, CallInv
<1>3. SenderWasMember
  BY DEF Init, SenderWasMember
<1>a. call \in [Procs -> Call]
  BY IdleKnown DEF Init
<1>b. msgs \in Seq(Message) /\ files \in Seq(Attachment) /\ opened \subseteq ReadRecord
  BY DEF Init
<1>c. clock \in Nat /\ started \in Nat /\ failures \in Nat
  BY DEF Init
<1>d. overlap \in BOOLEAN
  BY DEF Init
<1>4. CASE s = "empty"
  <2>1. convs = << >> /\ rows = << >> /\ events = << >>
    BY <1>1, <1>4 DEF Seed
  <2>2. TypeOK
    BY <2>1, <1>a, <1>b, <1>c, <1>d DEF TypeOK
  <2>3. RowsInv /\ RemovedByManager
    BY <2>1 DEF RowsInv, RemovedByManager
  <2>4. QED BY <1>2, <1>3, <2>2, <2>3 DEF IInv
<1>5. CASE s # "empty"
  <2>1. s \in {"direct", "group"}
    BY <1>5, SeedsAssumption
  <2>2. /\ convs = <<[type |-> s, createdBy |-> u, lastMessageAt |-> 0]>>
        /\ rows = <<[conv |-> 1, user |-> u, role |-> "owner", status |-> "active",
                      unread |-> 0, lastRead |-> 0, joined |-> 0],
                     [conv |-> 1, user |-> v, role |-> "member", status |-> "active",
                      unread |-> 0, lastRead |-> 0, joined |-> 0]>>
        /\ events = <<[conv |-> 1, type |-> "joined", target |-> u, actor |-> None],
                       [conv |-> 1, type |-> "added", target |-> v, actor |-> u]>>
    BY <1>1, <1>5 DEF Seed
  <2>3. convs \in Seq(Conversation) /\ DOMAIN convs = {1}
    BY <2>1, <2>2 DEF Conversation
  <2>4. rows \in Seq(Participant) /\ \A i \in DOMAIN rows : rows[i].conv = 1
    BY <2>2 DEF Participant
  <2>5. events \in Seq(MembershipEvent) /\ \A k \in DOMAIN events : events[k].type # "removed"
    BY <2>2 DEF MembershipEvent
  <2>6. TypeOK
    BY <2>3, <2>4, <2>5, <1>a, <1>b, <1>c, <1>d DEF TypeOK
  <2>7. RowsInv /\ RemovedByManager
    BY <2>3, <2>4, <2>5 DEF RowsInv, RemovedByManager
  <2>8. QED BY <1>2, <1>3, <2>6, <2>7 DEF IInv
<1>6. QED BY <1>4, <1>5

\* A message of the new collection is an old one, up to its seen state, or its
\* sender has a row.
MsgsStep ==
    \A m \in DOMAIN msgs' :
        \/ m \in DOMAIN msgs /\ msgs'[m].conv = msgs[m].conv /\ msgs'[m].sender = msgs[m].sender
        \/ \E i \in DOMAIN rows : rows[i].conv = msgs'[m].conv /\ rows[i].user = msgs'[m].sender

\* An event of the new collection is an old one, no removal, or its actor has
\* the row of a manager.
EventsStep ==
    \A k \in DOMAIN events' :
        \/ k \in DOMAIN events /\ events'[k] = events[k]
        \/ events'[k].type # "removed"
        \/ \E i \in DOMAIN rows : /\ rows[i].conv = events'[k].conv
                                  /\ rows[i].user = events'[k].actor
                                  /\ rows[i].role \in {"admin", "owner"}

StoreTyped ==
    /\ convs \in Seq(Conversation)
    /\ rows \in Seq(Participant)
    /\ events \in Seq(MembershipEvent)
    /\ msgs \in Seq(Message)
    /\ files \in Seq(Attachment)
    /\ opened \subseteq ReadRecord

WorldTyped == clock \in Nat /\ started \in Nat /\ failures \in Nat /\ overlap \in BOOLEAN

\* What a step of the handler in slot p has to establish.
LEMMA Written ==
    ASSUME IInv, NEW p \in Procs, NEW c \in Call, call' = [call EXCEPT ![p] = c],
           StoreTyped', WorldTyped', Grow(convs, rows, convs', rows'),
           \A i \in DOMAIN rows' : i \in DOMAIN rows \/ rows'[i].conv \in DOMAIN convs,
           Known(c, convs', rows'), MsgsStep, EventsStep
    PROVE  IInv'
<1>1. /\ call' \in [Procs -> Call]
      /\ call'[p] = c
      /\ \A q \in Procs : q # p => call'[q] = call[q]
  BY CallUpdated DEF IInv, TypeOK
<1>2. TypeOK'
  BY <1>1 DEF TypeOK, StoreTyped, WorldTyped
<1>3. CallInv'
  <2> SUFFICES ASSUME NEW q \in Procs PROVE Known(call'[q], convs', rows')
    BY DEF CallInv
  <2>1. CASE q = p
    BY <2>1, <1>1
  <2>2. CASE q # p
    <3>1. Known(call[q], convs, rows)
      BY DEF IInv, CallInv
    <3>2. QED BY <1>1, <2>2, <3>1, KnownIsStable
  <2>3. QED BY <2>1, <2>2
<1>4. RowsInv'
  BY DEF IInv, RowsInv, Grow
<1>5. SenderWasMember'
  BY DEF IInv, SenderWasMember, RowsOf, MsgsStep, Grow
<1>6. RemovedByManager'
  BY DEF IInv, RemovedByManager, RowsOf, EventsStep, Grow
<1>7. QED BY <1>2, <1>3, <1>4, <1>5, <1>6 DEF IInv

\* A step of the handler in slot p that writes nothing.
LEMMA ReadOnly ==
    ASSUME IInv, NEW p \in Procs, NEW c \in Call, call' = [call EXCEPT ![p] = c],
           UNCHANGED <<store, opened>>, WorldTyped', Known(c, convs, rows)
    PROVE  IInv'
<1>1. UNCHANGED <<convs, rows, events, msgs, files, opened>>
  BY DEF store
<1>2. StoreTyped'
  BY <1>1 DEF IInv, TypeOK, StoreTyped
<1>3. Grow(convs, rows, convs', rows')
  BY <1>1, GrowIsReflexive
<1>4. MsgsStep /\ EventsStep
  BY <1>1 DEF MsgsStep, EventsStep
<1>5. QED BY <1>1, <1>2, <1>3, <1>4, Written

\* A step that leaves the clock and the counters alone keeps their types.
LEMMA WorldUnchanged == IInv /\ UNCHANGED world => WorldTyped'
  BY DEF IInv, TypeOK, WorldTyped, world

\* A handler that is past its check keeps what it knows while it advances.
LEMMA Advance ==
    ASSUME NEW b, NEW c, NEW cv, NEW rw, Known(b, cv, rw), b.pc # "guard",
           c.op = b.op, c.user = b.user, c.peer = b.peer, c.conv = b.conv, c.row = b.row,
           c.pc \notin {"guard", "restoreRow", "insertRow", "insertEvent"}
    PROVE  Known(c, cv, rw)
  BY DEF Known

-----------------------------------------------------------------------------
(* Requests. *)

\* A handler that starts with a request it knows to be well formed.
LEMMA BeginKeepsIInv ==
    ASSUME IInv, NEW p \in Procs, NEW op, NEW r \in Call, Known(r, convs, rows), Begin(p, op, r)
    PROVE  IInv'
<1>1. started' \in Nat /\ clock' \in Nat /\ failures' \in Nat
  BY DEF Begin, IInv, TypeOK
<1>2. overlap' \in BOOLEAN
  BY DEF Begin
<1>3. WorldTyped'
  BY <1>1, <1>2 DEF WorldTyped
<1>4. UNCHANGED <<store, opened>> /\ call' = [call EXCEPT ![p] = r]
  BY DEF Begin
<1>5. QED BY <1>3, <1>4, ReadOnly

\* The requests of the controller and of the gateway.
LEMMA RequestKeepsIInv == ASSUME IInv, NEW p \in Procs, Request(p) PROVE IInv'
<1>1. CASE CreateConversation(p)
  <2>1. PICK u \in Users, group \in BOOLEAN, others \in SUBSET Users :
            Begin(p, "create",
                  [Idle EXCEPT !.op = "create", !.user = u, !.who = {u} \cup others,
                               !.flag = group, !.pc = IF group THEN "insert" ELSE "find"])
    BY <1>1 DEF CreateConversation
  <2> DEFINE r == [Idle EXCEPT !.op = "create", !.user = u, !.who = {u} \cup others,
                               !.flag = group, !.pc = IF group THEN "insert" ELSE "find"]
  <2>2. r \in Call
    BY ZenonT(40) DEF Idle, Call, Pcs, OpNames
  <2>3. Known(r, convs, rows)
    BY DEF Idle, Known, Guarded
  <2>4. QED BY <2>1, <2>2, <2>3, BeginKeepsIInv
<1>2. ASSUME NEW op \in {"add", "remove", "leave"}, MemberRequest(p, op) PROVE IInv'
  <2>1. PICK u \in Users, v \in Users, k \in DOMAIN convs :
            Begin(p, op, [Idle EXCEPT !.op = op, !.pc = "guard", !.user = u, !.peer = v,
                                      !.conv = k])
    BY <1>2 DEF MemberRequest
  <2> DEFINE r == [Idle EXCEPT !.op = op, !.pc = "guard", !.user = u, !.peer = v, !.conv = k]
  <2>2. k \in Nat
    BY DEF IInv, TypeOK
  <2>3. r \in Call
    BY <2>2 DEF Idle, Call, Pcs, OpNames
  <2>4. Known(r, convs, rows)
    BY DEF Idle, Known, Guarded
  <2>5. QED BY <2>1, <2>3, <2>4, BeginKeepsIInv
<1>3. CASE SendMessage(p)
  <2>1. PICK u \in Users, k \in DOMAIN convs, f \in 0..Len(files), ai \in BOOLEAN :
            Begin(p, "send", [Idle EXCEPT !.op = "send", !.pc = "guard", !.user = u, !.conv = k,
                                          !.file = f, !.flag = ai])
    BY <1>3 DEF SendMessage
  <2> DEFINE r == [Idle EXCEPT !.op = "send", !.pc = "guard", !.user = u, !.conv = k,
                               !.file = f, !.flag = ai]
  <2>2. k \in Nat /\ f \in Nat
    BY DEF IInv, TypeOK
  <2>3. r \in Call
    BY <2>2 DEF Idle, Call, Pcs, OpNames
  <2>4. Known(r, convs, rows)
    BY DEF Idle, Known, Guarded
  <2>5. QED BY <2>1, <2>3, <2>4, BeginKeepsIInv
<1>4. ASSUME NEW op \in {"read", "presign"}, NEW u \in Users, NEW k \in DOMAIN convs,
             Begin(p, op, [Idle EXCEPT !.op = op, !.pc = "guard", !.user = u, !.conv = k])
      PROVE  IInv'
  <2> DEFINE r == [Idle EXCEPT !.op = op, !.pc = "guard", !.user = u, !.conv = k]
  <2>1. k \in Nat
    BY DEF IInv, TypeOK
  <2>2. r \in Call
    BY <2>1 DEF Idle, Call, Pcs, OpNames
  <2>3. Known(r, convs, rows)
    BY DEF Idle, Known, Guarded
  <2>4. QED BY <1>4, <2>2, <2>3, BeginKeepsIInv
<1>5. CASE MarkAttachmentUploaded(p)
  <2>1. PICK u \in Users, k \in DOMAIN convs, f \in DOMAIN files :
            Begin(p, "confirm", [Idle EXCEPT !.op = "confirm", !.pc = "guard", !.user = u,
                                             !.conv = k, !.file = f])
    BY <1>5 DEF MarkAttachmentUploaded
  <2> DEFINE r == [Idle EXCEPT !.op = "confirm", !.pc = "guard", !.user = u, !.conv = k,
                               !.file = f]
  <2>2. k \in Nat /\ f \in Nat
    BY DEF IInv, TypeOK
  <2>3. r \in Call
    BY <2>2 DEF Idle, Call, Pcs, OpNames
  <2>4. Known(r, convs, rows)
    BY DEF Idle, Known, Guarded
  <2>5. QED BY <2>1, <2>3, <2>4, BeginKeepsIInv
<1>6. QED
  BY <1>1, <1>2, <1>3, <1>4, <1>5
  DEF Request, MembershipRequest, MessageRequest, AttachmentRequest, AddMember, RemoveMember,
      LeaveConversation, MarkConversationRead, GeneratePresignedUploadUrl

-----------------------------------------------------------------------------
(* Steps that write to one collection. *)

\* A step that writes to the participant rows only.
LEMMA OnlyRows ==
    ASSUME IInv, NEW p \in Procs, NEW c \in Call, call' = [call EXCEPT ![p] = c],
           UNCHANGED <<convs, events, msgs, files, world, opened>>,
           rows' \in Seq(Participant), Grow(convs, rows, convs, rows'),
           \A i \in DOMAIN rows' : i \in DOMAIN rows \/ rows'[i].conv \in DOMAIN convs,
           Known(c, convs, rows)
    PROVE  IInv'
<1>1. StoreTyped' /\ WorldTyped'
  BY WorldUnchanged DEF IInv, TypeOK, StoreTyped
<1>2. MsgsStep /\ EventsStep
  BY DEF MsgsStep, EventsStep
<1>3. Grow(convs, rows, convs', rows') /\ Known(c, convs', rows')
  BY KnownIsStable
<1>4. QED BY <1>1, <1>2, <1>3, Written

\* A new participant row of a known user in a known conversation.
LEMMA RowAppended ==
    ASSUME IInv, NEW k \in DOMAIN convs, NEW u \in Users, NEW role \in {"member", "owner"},
           rows' = Append(rows, NewRow(k, u, role))
    PROVE  /\ rows' \in Seq(Participant)
           /\ Grow(convs, rows, convs, rows')
           /\ \A i \in DOMAIN rows' : i \in DOMAIN rows \/ rows'[i].conv \in DOMAIN convs
<1> DEFINE d == NewRow(k, u, role)
<1>1. k \in Nat /\ Len(msgs) \in Nat /\ rows \in Seq(Participant)
  BY DEF IInv, TypeOK
<1>2. d \in Participant /\ d.conv = k
  BY <1>1 DEF NewRow, Participant
<1> HIDE DEF d
<1>3. rows' = Append(rows, d)
  BY DEF d
<1>4. QED BY <1>1, <1>2, <1>3, Appended DEF Grow

\* A participant row is replaced, its conversation, user and role kept.
LEMMA RowWritten ==
    ASSUME IInv, NEW i \in DOMAIN rows, NEW d \in Participant, d.conv = rows[i].conv,
           d.user = rows[i].user, d.role = rows[i].role, rows' = [rows EXCEPT ![i] = d]
    PROVE  /\ rows' \in Seq(Participant)
           /\ Grow(convs, rows, convs, rows')
           /\ \A j \in DOMAIN rows' : j \in DOMAIN rows \/ rows'[j].conv \in DOMAIN convs
<1>1. rows \in Seq(Participant)
  BY DEF IInv, TypeOK
<1>2. QED BY <1>1, Replaced DEF Grow

\* A step that adds one event to the history; a removal needs a manager.
LEMMA OnlyEvents ==
    ASSUME IInv, NEW p \in Procs, NEW c \in Call, call' = [call EXCEPT ![p] = c],
           UNCHANGED <<convs, rows, msgs, files, world, opened>>,
           NEW e \in MembershipEvent, events' = Append(events, e), Known(c, convs, rows),
           e.type = "removed" => \E i \in DOMAIN rows : /\ rows[i].conv = e.conv
                                                        /\ rows[i].user = e.actor
                                                        /\ rows[i].role \in {"admin", "owner"}
    PROVE  IInv'
<1>1. events \in Seq(MembershipEvent)
  BY DEF IInv, TypeOK
<1>2. /\ events' \in Seq(MembershipEvent)
      /\ \A k \in DOMAIN events' : \/ k \in DOMAIN events /\ events'[k] = events[k]
                                   \/ events'[k] = e
  BY <1>1, Appended
<1>3. StoreTyped' /\ WorldTyped'
  BY <1>2, WorldUnchanged DEF IInv, TypeOK, StoreTyped
<1>4. EventsStep
  BY <1>2 DEF EventsStep
<1>5. MsgsStep
  BY DEF MsgsStep
<1>6. Grow(convs, rows, convs', rows') /\ Known(c, convs', rows')
  BY GrowIsReflexive
<1>7. QED BY <1>3, <1>4, <1>5, <1>6, Written

\* A step that writes to the messages only.
LEMMA OnlyMsgs ==
    ASSUME IInv, NEW p \in Procs, NEW c \in Call, call' = [call EXCEPT ![p] = c],
           UNCHANGED <<convs, rows, events, files, world, opened>>,
           msgs' \in Seq(Message), MsgsStep, Known(c, convs, rows)
    PROVE  IInv'
<1>1. StoreTyped' /\ WorldTyped'
  BY WorldUnchanged DEF IInv, TypeOK, StoreTyped
<1>2. EventsStep
  BY DEF EventsStep
<1>3. Grow(convs, rows, convs', rows') /\ Known(c, convs', rows')
  BY GrowIsReflexive
<1>4. QED BY <1>1, <1>2, <1>3, Written

\* A step that writes to the attachments only.
LEMMA OnlyFiles ==
    ASSUME IInv, NEW p \in Procs, NEW c \in Call, call' = [call EXCEPT ![p] = c],
           UNCHANGED <<convs, rows, events, msgs, world, opened>>,
           files' \in Seq(Attachment), Known(c, convs, rows)
    PROVE  IInv'
<1>1. StoreTyped' /\ WorldTyped'
  BY WorldUnchanged DEF IInv, TypeOK, StoreTyped
<1>2. MsgsStep /\ EventsStep
  BY DEF MsgsStep, EventsStep
<1>3. Grow(convs, rows, convs', rows') /\ Known(c, convs', rows')
  BY GrowIsReflexive
<1>4. QED BY <1>1, <1>2, <1>3, Written

\* A step that writes to the conversations only.
LEMMA OnlyConvs ==
    ASSUME IInv, NEW p \in Procs, NEW c \in Call, call' = [call EXCEPT ![p] = c],
           UNCHANGED <<rows, events, msgs, files, world, opened>>,
           convs' \in Seq(Conversation), Grow(convs, rows, convs', rows), Known(c, convs', rows)
    PROVE  IInv'
<1>1. StoreTyped' /\ WorldTyped'
  BY WorldUnchanged DEF IInv, TypeOK, StoreTyped
<1>2. MsgsStep /\ EventsStep
  BY DEF MsgsStep, EventsStep
<1>3. Grow(convs, rows, convs', rows') /\ Known(c, convs', rows')
  OBVIOUS
<1>4. QED BY <1>1, <1>2, <1>3, Written

\* A step that writes nothing and lets the handler return, or go on past its
\* check.
LEMMA ReturnOnly ==
    ASSUME IInv, NEW p \in Procs, Return(p), UNCHANGED <<store, world, opened>>
    PROVE  IInv'
  BY IdleKnown, WorldUnchanged, ReadOnly DEF Return

\* A step that writes nothing and takes the handler past its check.
LEMMA ReadAndAdvance ==
    ASSUME IInv, NEW p \in Procs, call[p].pc # "guard", NEW c \in Call,
           call' = [call EXCEPT ![p] = c], c.op = call[p].op, c.user = call[p].user,
           c.peer = call[p].peer, c.conv = call[p].conv, c.row = call[p].row,
           c.pc \notin {"guard", "restoreRow", "insertRow", "insertEvent"},
           UNCHANGED <<store, world, opened>>
    PROVE  IInv'
<1>1. Known(call[p], convs, rows)
  BY DEF IInv, CallInv
<1>2. Known(c, convs, rows)
  BY <1>1, Advance
<1>3. QED BY <1>2, WorldUnchanged, ReadOnly

\* A handler in flight is a Call and knows what Known says.
LEMMA CallTyped ==
    ASSUME IInv, NEW p \in Procs
    PROVE  call[p] \in Call /\ Known(call[p], convs, rows)
  BY DEF IInv, TypeOK, CallInv

\* The handler in slot p returns, or goes on past its check.
Advances(p) == \E c \in Call : call' = [call EXCEPT ![p] = c] /\ Known(c, convs, rows)

\* A handler that returns leaves an empty slot behind.
LEMMA ReturnAdvances == ASSUME NEW p \in Procs, Return(p) PROVE Advances(p)
  BY IdleKnown DEF Return, Advances

\* A handler that only moves on keeps what it knows.
LEMMA GotoAdvances ==
    ASSUME IInv, NEW p \in Procs, call[p].pc # "guard",
           NEW pc \in Pcs \ {"guard", "restoreRow", "insertRow", "insertEvent"}, Goto(p, pc)
    PROVE  Advances(p)
<1> DEFINE c == [call[p] EXCEPT !.pc = pc]
<1>1. call[p] \in Call /\ Known(call[p], convs, rows)
  BY CallTyped
<1>2. /\ c \in Call /\ c.op = call[p].op /\ c.user = call[p].user /\ c.peer = call[p].peer
      /\ c.conv = call[p].conv /\ c.row = call[p].row /\ c.pc = pc
  BY <1>1 DEF Call
<1>3. call' = [call EXCEPT ![p] = c]
  BY DEF Goto
<1> HIDE DEF c
<1>4. Known(c, convs, rows)
  BY <1>1, <1>2, Advance
<1>5. QED BY <1>2, <1>3, <1>4 DEF Advances

-----------------------------------------------------------------------------
(* Conversations and their members. *)

\* createConversation, addMember, removeMember, leaveConversation and the access
\* checks keep the invariant.
LEMMA MembershipKeepsIInv == ASSUME IInv, NEW p \in Procs, MembershipStep(p) PROVE IInv'
<1> DEFINE b == call[p]
<1>0. b \in Call /\ Known(b, convs, rows) /\ call \in [Procs -> Call]
  BY CallTyped DEF IInv, TypeOK
<1>1. CASE RequireActiveParticipant(p)
  <2>1. b.pc = "guard" /\ b.op # "remove" /\ UNCHANGED <<store, world, opened>>
    BY <1>1 DEF RequireActiveParticipant
  <2>2. CASE Return(p)
    BY <2>1, <2>2, ReturnOnly
  <2>3. CASE ~Return(p)
    <3>1. PICK i \in ActiveRows(b.conv, b.user) :
              call' = [call EXCEPT ![p].pc = AfterGuard(b.op),
                                   ![p].row = IF b.op \in {"send", "read"} THEN i ELSE 0]
      BY <1>1, <2>3 DEF RequireActiveParticipant
    <3>2. i \in DOMAIN rows /\ i \in Nat /\ rows[i].conv = b.conv /\ rows[i].user = b.user
      BY DEF ActiveRows, IInv, TypeOK
    <3>3. AfterGuard(b.op) \in {"find", "update", "restore", "latest", "insert", "file"}
      <4>1. b.op \in {"add", "leave", "send", "read", "presign", "confirm"}
        BY <1>0, <2>1 DEF Known, Guarded
      <4>2. QED BY <4>1 DEF AfterGuard
    <3> DEFINE pc == AfterGuard(b.op)
               row == IF b.op \in {"send", "read"} THEN i ELSE 0
               c == [b EXCEPT !.pc = pc, !.row = row]
    <3>4. row \in Nat /\ (b.op \in {"send", "read"} => row = i)
      BY <3>2
    <3>5. call' = [call EXCEPT ![p] = c]
      BY <1>0, <3>1 DEF Call
    <3>a. pc \in {"find", "update", "restore", "latest", "insert", "file"}
      BY <3>3
    <3> HIDE DEF pc, row
    <3>b. /\ c \in Call /\ c.pc = pc /\ c.op = b.op /\ c.user = b.user
          /\ c.peer = b.peer /\ c.conv = b.conv /\ c.row = row
      BY <1>0, <3>4, <3>a, ZenonT(40) DEF Call, Pcs
    <3> HIDE DEF c
    <3>6. Known(c, convs, rows)
      BY <1>0, <2>1, <3>2, <3>4, <3>a, <3>b DEF Known, Guarded
    <3>7. QED BY <2>1, <3>b, <3>5, <3>6, WorldUnchanged, ReadOnly
  <2>4. QED BY <2>2, <2>3
<1>2. CASE RequireAdminOrOwner(p)
  <2>1. b.op = "remove" /\ b.pc = "guard" /\ UNCHANGED <<store, world, opened>>
    BY <1>2 DEF RequireAdminOrOwner, At
  <2>2. CASE Return(p)
    BY <2>1, <2>2, ReturnOnly
  <2>3. CASE ~Return(p)
    <3>1. /\ call' = [call EXCEPT ![p] = [b EXCEPT !.pc = "update"]]
          /\ \E i \in ActiveRows(b.conv, b.user) : rows[i].role \in {"admin", "owner"}
      BY <1>2, <2>3 DEF RequireAdminOrOwner, Goto
    <3>2. \E i \in DOMAIN rows : rows[i].conv = b.conv /\ rows[i].user = b.user
                                   /\ rows[i].role \in {"admin", "owner"}
      BY <3>1 DEF ActiveRows
    <3> DEFINE c == [b EXCEPT !.pc = "update"]
    <3>3. /\ c \in Call /\ c.pc = "update" /\ c.op = b.op /\ c.user = b.user
          /\ c.peer = b.peer /\ c.conv = b.conv
      BY <1>0 DEF Call, Pcs
    <3> HIDE DEF c
    <3>4. Known(c, convs, rows)
      BY <1>0, <2>1, <3>2, <3>3 DEF Known, Guarded
    <3>5. QED BY <2>1, <3>1, <3>3, <3>4, WorldUnchanged, ReadOnly DEF c
  <2>4. QED BY <2>2, <2>3
<1>3. CASE FindShared(p)
  <2>1. PICK shared \in SUBSET DOMAIN convs :
            call' = [call EXCEPT ![p].ids = shared,
                                 ![p].pc = IF shared = {} THEN "insert" ELSE "check"]
    BY <1>3 DEF FindShared
  <2>2. b.pc = "find" /\ UNCHANGED <<store, world, opened>>
    BY <1>3 DEF FindShared, At
  <2>3. shared \subseteq Nat
    BY DEF IInv, TypeOK
  <2> DEFINE c == [b EXCEPT !.ids = shared, !.pc = IF shared = {} THEN "insert" ELSE "check"]
  <2>4. /\ c \in Call /\ c.pc \in {"insert", "check"} /\ c.op = b.op /\ c.user = b.user
        /\ c.peer = b.peer /\ c.conv = b.conv /\ c.row = b.row
    BY <1>0, <2>3, ZenonT(40) DEF Call, Pcs
  <2>5. call' = [call EXCEPT ![p] = c]
    BY <1>0, <2>1 DEF Call
  <2> HIDE DEF c
  <2>6. QED BY <2>2, <2>4, <2>5, ReadAndAdvance
<1>4. CASE CheckConversation(p)
  <2>1. b.pc = "check" /\ UNCHANGED <<store, world, opened>>
    BY <1>4 DEF CheckConversation, At
  <2>2. CASE Return(p)
    BY <2>1, <2>2, ReturnOnly
  <2>3. CASE ~Return(p)
    <3>1. PICK k \in b.ids :
              call' = [call EXCEPT ![p].ids = b.ids \ {k},
                                   ![p].pc = IF b.ids \ {k} = {} THEN "insert" ELSE "check"]
      BY <1>4, <2>3 DEF CheckConversation
    <3> DEFINE left == b.ids \ {k}
               c == [b EXCEPT !.ids = left, !.pc = IF left = {} THEN "insert" ELSE "check"]
    <3>2. left \subseteq Nat
      BY <1>0 DEF Call
    <3>3. call' = [call EXCEPT ![p] = c]
      BY <1>0, <3>1 DEF Call
    <3> HIDE DEF left
    <3>4. /\ c \in Call /\ c.pc \in {"insert", "check"} /\ c.op = b.op /\ c.user = b.user
          /\ c.peer = b.peer /\ c.conv = b.conv /\ c.row = b.row
      BY <1>0, <3>2, ZenonT(40) DEF Call, Pcs
    <3> HIDE DEF c
    <3>5. QED BY <2>1, <3>3, <3>4, ReadAndAdvance
  <2>4. QED BY <2>2, <2>3
<1>5. CASE InsertConversation(p)
  <2> DEFINE d == [type |-> IF b.flag THEN "group" ELSE "direct", createdBy |-> b.user,
                   lastMessageAt |-> 0]
             c == [b EXCEPT !.conv = Len(convs) + 1, !.todo = b.who, !.pc = "insertRow"]
  <2>1. /\ b.op = "create" /\ b.pc = "insert"
        /\ convs' = Append(convs, d)
        /\ UNCHANGED <<rows, events, msgs, files, world, opened>>
    BY <1>5 DEF InsertConversation, At
  <2>2. convs \in Seq(Conversation) /\ Len(convs) + 1 \in Nat
    BY DEF IInv, TypeOK
  <2>3. d \in Conversation
    BY <1>0, <2>1 DEF Known, Conversation
  <2>4. call' = [call EXCEPT ![p] = c]
    BY <1>0, <1>5 DEF InsertConversation, Call
  <2>5. /\ c \in Call /\ c.pc = "insertRow" /\ c.op = "create" /\ c.user = b.user
        /\ c.conv = Len(convs) + 1
    BY <1>0, <2>1, <2>2 DEF Call, Pcs
  <2> HIDE DEF c, d
  <2>6. convs' \in Seq(Conversation) /\ Grow(convs, rows, convs', rows)
        /\ Len(convs) + 1 \in DOMAIN convs'
    BY <2>1, <2>2, <2>3, Appended DEF Grow
  <2>7. Known(c, convs', rows)
    BY <1>0, <2>1, <2>5, <2>6 DEF Known, Guarded
  <2>8. QED BY <2>1, <2>4, <2>5, <2>6, <2>7, OnlyConvs
<1>6. CASE InsertRow(p)
  <2>1. PICK u \in NextToInsert(p) :
            /\ rows' = Append(rows, NewRow(b.conv, u, IF u = b.user THEN "owner" ELSE "member"))
            /\ call' = [call EXCEPT ![p].todo = IF b.todo = {u} THEN b.who ELSE b.todo \ {u},
                                    ![p].pc = IF b.todo = {u} THEN "insertEvent" ELSE "insertRow"]
    BY <1>6 DEF InsertRow
  <2>2. /\ b.op = "create" /\ b.pc = "insertRow"
        /\ UNCHANGED <<convs, events, msgs, files, world, opened>>
    BY <1>6 DEF InsertRow, At
  <2>3. u \in Users /\ b.conv \in DOMAIN convs
    BY <1>0, <2>2 DEF NextToInsert, Call, Known
  <2> DEFINE todo == IF b.todo = {u} THEN b.who ELSE b.todo \ {u}
             pc == IF b.todo = {u} THEN "insertEvent" ELSE "insertRow"
             c == [b EXCEPT !.todo = todo, !.pc = pc]
  <2>4. todo \in SUBSET Users /\ pc \in {"insertEvent", "insertRow"}
    BY <1>0 DEF Call
  <2>5. call' = [call EXCEPT ![p] = c]
    BY <1>0, <2>1 DEF Call
  <2> HIDE DEF todo, pc
  <2>6. /\ c \in Call /\ c.pc = pc /\ c.op = b.op /\ c.user = b.user /\ c.conv = b.conv
    BY <1>0, <2>4 DEF Call, Pcs
  <2> HIDE DEF c
  <2>7. Known(c, convs, rows)
    BY <1>0, <2>2, <2>3, <2>4, <2>6 DEF Known, Guarded
  <2>8. QED BY <2>1, <2>2, <2>3, <2>5, <2>6, <2>7, RowAppended, OnlyRows
<1>7. CASE InsertEvent(p)
  <2>1. PICK u \in NextToInsert(p) :
            /\ events' = Append(events, IF u = b.user THEN NewEvent(b.conv, "joined", u, None)
                                                      ELSE NewEvent(b.conv, "added", u, b.user))
            /\ IF b.todo = {u} THEN Return(p)
                               ELSE call' = [call EXCEPT ![p].todo = b.todo \ {u}]
    BY <1>7 DEF InsertEvent
  <2>2. /\ b.op = "create" /\ b.pc = "insertEvent"
        /\ UNCHANGED <<convs, rows, msgs, files, world, opened>>
    BY <1>7 DEF InsertEvent, At
  <2> DEFINE e == IF u = b.user THEN NewEvent(b.conv, "joined", u, None)
                                ELSE NewEvent(b.conv, "added", u, b.user)
  <2>3. u \in Users /\ b.conv \in Nat /\ b.user \in Users
    BY <1>0, <2>2 DEF NextToInsert, Call, Known
  <2>4. e \in MembershipEvent /\ e.type # "removed"
    BY <2>3 DEF NewEvent, MembershipEvent
  <2> HIDE DEF e
  <2>5. CASE Return(p)
    BY <2>1, <2>2, <2>4, <2>5, IdleKnown, OnlyEvents DEF Return, e
  <2>6. CASE ~Return(p)
    <3> DEFINE c == [b EXCEPT !.todo = b.todo \ {u}]
    <3>1. call' = [call EXCEPT ![p] = c]
      BY <2>1, <2>6
    <3>2. c \in Call /\ c.pc = b.pc /\ c.op = b.op /\ c.user = b.user /\ c.conv = b.conv
      BY <1>0 DEF Call
    <3> HIDE DEF c
    <3>3. Known(c, convs, rows)
      BY <1>0, <2>2, <3>2 DEF Known, Guarded
    <3>4. QED BY <2>1, <2>2, <2>4, <3>1, <3>2, <3>3, OnlyEvents DEF e
  <2>7. QED BY <2>5, <2>6
<1>8. CASE AddFindExisting(p)
  <2>1. b.pc = "find" /\ UNCHANGED <<store, world, opened>> /\ (Return(p) \/ Goto(p, "insert"))
    BY <1>8 DEF AddFindExisting, At
  <2>2. Advances(p)
    BY <2>1, ReturnAdvances, GotoAdvances DEF Pcs
  <2>3. QED BY <2>1, <2>2, WorldUnchanged, ReadOnly DEF Advances
<1>9. CASE AddInsertRow(p)
  <2>1. /\ b.op = "add" /\ b.pc = "insert" /\ Goto(p, "event")
        /\ rows' = Append(rows, NewRow(b.conv, b.peer, "member"))
        /\ UNCHANGED <<convs, events, msgs, files, world, opened>>
    BY <1>9 DEF AddInsertRow, At
  <2>2. b.conv \in DOMAIN convs /\ b.peer \in Users
    BY <1>0, <2>1 DEF Known, Guarded
  <2>3. PICK c \in Call : call' = [call EXCEPT ![p] = c] /\ Known(c, convs, rows)
    BY <2>1, GotoAdvances DEF Pcs, Advances
  <2>4. QED BY <2>1, <2>2, <2>3, RowAppended, OnlyRows
<1>10. ASSUME NEW op \in {"add", "remove", "leave"}, b.op = op, b.pc = "event", Return(p),
              NEW type \in {"added", "removed", "left"}, type = "removed" => op = "remove",
              NEW actor \in {None, b.user}, type = "removed" => actor = b.user,
              events' = Append(events, NewEvent(b.conv, type, b.peer, actor)),
              UNCHANGED <<convs, rows, msgs, files, world, opened>>
       PROVE  IInv'
  <2> DEFINE e == NewEvent(b.conv, type, b.peer, actor)
  <2>1. b.conv \in Nat /\ b.peer \in Users /\ actor \in Users \cup {None}
    BY <1>0, <1>10 DEF Known, Call
  <2>2. /\ e \in MembershipEvent /\ e.type = type /\ e.conv = b.conv /\ e.actor = actor
    BY <2>1 DEF NewEvent, MembershipEvent
  <2> HIDE DEF e
  <2>3. e.type = "removed" => \E i \in DOMAIN rows : /\ rows[i].conv = e.conv
                                                     /\ rows[i].user = e.actor
                                                     /\ rows[i].role \in {"admin", "owner"}
    BY <1>0, <1>10, <2>2 DEF Known
  <2>4. events' = Append(events, e)
    BY <1>10 DEF e
  <2>5. call' = [call EXCEPT ![p] = Idle]
    BY <1>10 DEF Return
  <2>6. QED BY <1>10, <2>2, <2>3, <2>4, <2>5, IdleKnown, OnlyEvents
<1>11. CASE AddEvent(p)
  BY <1>10, <1>11 DEF AddEvent, At
<1>12. CASE RemoveEvent(p)
  BY <1>10, <1>12 DEF RemoveEvent, At
<1>13. CASE LeaveEvent(p)
  BY <1>10, <1>13 DEF LeaveEvent, At
<1>14. ASSUME NEW status \in {"left", "removed"}, b.pc = "update", UpdateStatus(p, status)
       PROVE  IInv'
  <2>1. UNCHANGED <<convs, events, msgs, files, world, opened>> /\ Goto(p, "event")
    BY <1>14 DEF UpdateStatus
  <2>2. PICK c \in Call : call' = [call EXCEPT ![p] = c] /\ Known(c, convs, rows)
    BY <1>14, <2>1, GotoAdvances DEF Pcs, Advances
  <2>3. CASE rows' = rows
    BY <2>1, <2>2, <2>3, WorldUnchanged, ReadOnly DEF store
  <2>4. CASE rows' # rows
    <3>1. PICK i \in ActiveRows(b.conv, b.peer) :
              rows' = [rows EXCEPT ![i] = [rows[i] EXCEPT !.status = status]]
      BY <1>14, <2>4 DEF UpdateStatus
    <3>2. i \in DOMAIN rows /\ rows[i] \in Participant
      BY DEF ActiveRows, IInv, TypeOK
    <3> DEFINE d == [rows[i] EXCEPT !.status = status]
    <3>3. d \in Participant /\ d.conv = rows[i].conv /\ d.user = rows[i].user
          /\ d.role = rows[i].role
      BY <3>2 DEF Participant
    <3>4. rows' = [rows EXCEPT ![i] = d]
      BY <3>1
    <3> HIDE DEF d
    <3>5. QED BY <2>1, <2>2, <3>2, <3>3, <3>4, RowWritten, OnlyRows
  <2>5. QED BY <2>3, <2>4
<1>15. CASE RemoveUpdate(p)
  BY <1>14, <1>15 DEF RemoveUpdate, At
<1>16. CASE LeaveUpdate(p)
  BY <1>14, <1>16 DEF LeaveUpdate, At
<1>17. QED
  BY <1>1, <1>2, <1>3, <1>4, <1>5, <1>6, <1>7, <1>8, <1>9, <1>11, <1>12, <1>13, <1>15, <1>16
  DEF MembershipStep

-----------------------------------------------------------------------------
(* Messages and reads. *)

\* updateOne on the caller's row: read markers only.
LEMMA OwnRowWritten ==
    ASSUME IInv, NEW i \in DOMAIN rows, NEW last \in Nat,
           rows' = [rows EXCEPT ![i].lastRead = last, ![i].unread = 0]
    PROVE  /\ rows' \in Seq(Participant)
           /\ Grow(convs, rows, convs, rows')
           /\ \A j \in DOMAIN rows' : j \in DOMAIN rows \/ rows'[j].conv \in DOMAIN convs
<1> DEFINE d == [rows[i] EXCEPT !.lastRead = last, !.unread = 0]
<1>1. rows[i] \in Participant /\ rows \in Seq(Participant)
  BY DEF IInv, TypeOK
<1>2. /\ d \in Participant /\ d.conv = rows[i].conv /\ d.user = rows[i].user
      /\ d.role = rows[i].role
  BY <1>1 DEF Participant
<1>3. rows' = [rows EXCEPT ![i] = d]
  BY <1>1 DEF Participant
<1> HIDE DEF d
<1>4. QED BY <1>2, <1>3, RowWritten

\* incrementUnreadForOtherParticipants changes counters only.
LEMMA UnreadWritten ==
    ASSUME IInv, NEW k, NEW u, rows' = IncrementOthers(k, u)
    PROVE  /\ rows' \in Seq(Participant)
           /\ Grow(convs, rows, convs, rows')
           /\ \A j \in DOMAIN rows' : j \in DOMAIN rows \/ rows'[j].conv \in DOMAIN convs
<1>1. rows \in Seq(Participant)
  BY DEF IInv, TypeOK
<1>2. \A i \in DOMAIN rows : /\ rows'[i] \in Participant /\ rows'[i].conv = rows[i].conv
                             /\ rows'[i].user = rows[i].user /\ rows'[i].role = rows[i].role
  <2> TAKE i \in DOMAIN rows
  <2>1. rows[i] \in Participant
    BY <1>1
  <2>2. rows'[i] \in {rows[i], [rows[i] EXCEPT !.unread = @ + 1]}
    BY DEF IncrementOthers
  <2>3. QED BY <2>1, <2>2 DEF Participant
<1>3. DOMAIN rows' = DOMAIN rows /\ rows' \in [DOMAIN rows -> Participant]
  BY <1>2 DEF IncrementOthers
<1>4. QED BY <1>1, <1>2, <1>3, Mapped DEF Grow

\* A handler past its check inserts a message of its own caller.
LEMMA MessageAppended ==
    ASSUME IInv, NEW p \in Procs, NEW at \in Nat, NEW file \in Nat,
           call[p].op = "send", call[p].pc # "guard",
           msgs' = Append(msgs, NewMessage(call[p].conv, call[p].user, at, file))
    PROVE  msgs' \in Seq(Message) /\ MsgsStep
<1> DEFINE d == NewMessage(call[p].conv, call[p].user, at, file)
<1>1. call[p] \in Call /\ Known(call[p], convs, rows) /\ msgs \in Seq(Message)
  BY CallTyped DEF IInv, TypeOK
<1>2. /\ call[p].conv \in Nat /\ call[p].user \in Users
      /\ \E i \in DOMAIN rows : rows[i].conv = call[p].conv /\ rows[i].user = call[p].user
  BY <1>1 DEF Known, Call
<1>3. d \in Message /\ d.conv = call[p].conv /\ d.sender = call[p].user
  BY <1>2 DEF NewMessage, Message
<1> HIDE DEF d
<1>4. msgs' = Append(msgs, d)
  BY DEF d
<1>5. QED BY <1>1, <1>2, <1>3, <1>4, Appended DEF MsgsStep

\* Updating lastMessageAt keeps the type of the conversation.
LEMMA ConversationTouched ==
    ASSUME IInv, NEW k, k \in DOMAIN convs, NEW at \in Nat,
           convs' = [convs EXCEPT ![k].lastMessageAt = at]
    PROVE  convs' \in Seq(Conversation) /\ Grow(convs, rows, convs', rows)
<1> DEFINE d == [convs[k] EXCEPT !.lastMessageAt = at]
<1>1. convs \in Seq(Conversation) /\ convs[k] \in Conversation
  BY DEF IInv, TypeOK
<1>2. d \in Conversation /\ d.type = convs[k].type
  BY <1>1 DEF Conversation
<1>3. convs' = [convs EXCEPT ![k] = d]
  OBVIOUS
<1> HIDE DEF d
<1>4. QED BY <1>1, <1>2, <1>3, Replaced DEF Grow

\* sendMessage, sendAiBotMessage and markConversationRead keep the invariant.
LEMMA MessagesKeepIInv == ASSUME IInv, NEW p \in Procs, MessageStep(p) PROVE IInv'
<1> DEFINE b == call[p]
<1>0. b \in Call /\ Known(b, convs, rows) /\ call \in [Procs -> Call] /\ clock \in Nat
  BY CallTyped DEF IInv, TypeOK
<1>a. b.at \in Nat /\ b.file \in Nat /\ b.msg \in Nat /\ b.ids \subseteq Nat
  BY <1>0 DEF Call
<1>b. AfterRestore(p) \in {"stamp", "file"}
  BY DEF AfterRestore
<1>1. CASE RestoreRead(p)
  <2>1. PICK gone \in SUBSET DOMAIN rows :
            /\ \A i \in gone : rows[i].conv = b.conv /\ convs[b.conv].type = "direct"
            /\ call' = [call EXCEPT ![p].ids = gone,
                                    ![p].pc = IF gone = {} THEN AfterRestore(p) ELSE "restoreRow"]
    BY <1>1 DEF RestoreRead, RowsOf
  <2>2. b.op = "send" /\ b.pc = "restore" /\ UNCHANGED <<store, world, opened>>
    BY <1>1 DEF RestoreRead, At
  <2> DEFINE pc == IF gone = {} THEN AfterRestore(p) ELSE "restoreRow"
             c == [b EXCEPT !.ids = gone, !.pc = pc]
  <2>3. gone \subseteq Nat
    BY DEF IInv, TypeOK
  <2>4. pc \in {"stamp", "file", "restoreRow"}
    BY <1>b
  <2>5. call' = [call EXCEPT ![p] = c]
    BY <1>0, <2>1 DEF Call
  <2> HIDE DEF pc
  <2>6. /\ c \in Call /\ c.pc = pc /\ c.op = b.op /\ c.user = b.user /\ c.peer = b.peer
        /\ c.conv = b.conv /\ c.row = b.row /\ c.ids = gone
    BY <1>0, <2>3, <2>4 DEF Call, Pcs
  <2> HIDE DEF c
  <2>7. Known(c, convs, rows)
    BY <1>0, <2>1, <2>2, <2>4, <2>6 DEF Known, Guarded
  <2>8. QED BY <2>2, <2>5, <2>6, <2>7, WorldUnchanged, ReadOnly
<1>2. CASE RestoreRow(p)
  <2>1. PICK i \in b.ids :
            /\ rows' = [rows EXCEPT ![i].status = "active"]
            /\ call' = [call EXCEPT ![p].ids = b.ids \ {i},
                          ![p].pc = IF b.ids \ {i} = {} THEN AfterRestore(p) ELSE "restoreRow"]
    BY <1>2 DEF RestoreRow
  <2>2. /\ b.op = "send" /\ b.pc = "restoreRow"
        /\ UNCHANGED <<convs, events, msgs, files, world, opened>>
    BY <1>2 DEF RestoreRow, At
  <2> DEFINE left == b.ids \ {i}
             pc == IF left = {} THEN AfterRestore(p) ELSE "restoreRow"
             c == [b EXCEPT !.ids = left, !.pc = pc]
             d == [rows[i] EXCEPT !.status = "active"]
  <2>3. left \subseteq b.ids /\ left \subseteq Nat /\ pc \in {"stamp", "file", "restoreRow"}
    BY <1>a, <1>b
  <2>4. call' = [call EXCEPT ![p] = c]
    BY <1>0, <2>1 DEF Call
  <2>5. i \in DOMAIN rows /\ rows[i] \in Participant
    BY <1>0, <2>2 DEF Known, IInv, TypeOK
  <2>6. d \in Participant /\ d.conv = rows[i].conv /\ d.user = rows[i].user
        /\ d.role = rows[i].role
    BY <2>5 DEF Participant
  <2>7. rows' = [rows EXCEPT ![i] = d]
    BY <2>1
  <2> HIDE DEF left, pc, d
  <2>8. /\ c \in Call /\ c.pc = pc /\ c.op = b.op /\ c.user = b.user /\ c.peer = b.peer
        /\ c.conv = b.conv /\ c.row = b.row /\ c.ids = left
    BY <1>0, <2>3 DEF Call, Pcs
  <2> HIDE DEF c
  <2>9. Known(c, convs, rows)
    BY <1>0, <2>2, <2>3, <2>8 DEF Known, Guarded
  <2>10. QED BY <2>2, <2>4, <2>5, <2>6, <2>7, <2>8, <2>9, RowWritten, OnlyRows
<1>3. CASE CheckFile(p)
  <2>1. b.pc = "file" /\ UNCHANGED <<store, world, opened>> /\ (Return(p) \/ Goto(p, "stamp"))
    BY <1>3 DEF CheckFile, At
  <2>2. Advances(p)
    BY <2>1, ReturnAdvances, GotoAdvances DEF Pcs
  <2>3. QED BY <2>1, <2>2, WorldUnchanged, ReadOnly DEF Advances
<1>4. ASSUME NEW next \in {"insert", "botInsert"}, b.pc \in {"stamp", "bot"},
             UNCHANGED <<store, world, opened>>,
             call' = [call EXCEPT ![p].at = clock, ![p].pc = next]
      PROVE  IInv'
  <2> DEFINE c == [b EXCEPT !.at = clock, !.pc = next]
  <2>1. /\ c \in Call /\ c.pc = next /\ c.op = b.op /\ c.user = b.user /\ c.peer = b.peer
        /\ c.conv = b.conv /\ c.row = b.row
    BY <1>0 DEF Call, Pcs
  <2>2. call' = [call EXCEPT ![p] = c]
    BY <1>0, <1>4 DEF Call
  <2> HIDE DEF c
  <2>3. QED BY <1>4, <2>1, <2>2, ReadAndAdvance
<1>5. CASE Stamp(p)
  BY <1>4, <1>5 DEF Stamp, At
<1>6. CASE BotAnswer(p)
  BY <1>4, <1>6, ReturnOnly DEF BotAnswer, At
<1>7. CASE InsertMessage(p)
  <2>1. /\ b.op = "send" /\ b.pc = "insert"
        /\ msgs' = Append(msgs, NewMessage(b.conv, b.user, b.at, b.file))
        /\ UNCHANGED <<convs, rows, events, files, world, opened>>
    BY <1>7 DEF InsertMessage, At
  <2> DEFINE pc == IF b.file = 0 THEN "touch" ELSE "saveFile"
             c == [b EXCEPT !.msg = Len(msgs) + 1, !.pc = pc]
  <2>2. pc \in {"touch", "saveFile"} /\ Len(msgs) + 1 \in Nat
    BY DEF IInv, TypeOK
  <2>3. call' = [call EXCEPT ![p] = c]
    BY <1>0, <1>7 DEF InsertMessage, Call
  <2> HIDE DEF pc
  <2>4. /\ c \in Call /\ c.pc = pc /\ c.op = b.op /\ c.user = b.user /\ c.peer = b.peer
        /\ c.conv = b.conv /\ c.row = b.row
    BY <1>0, <2>2 DEF Call, Pcs
  <2> HIDE DEF c
  <2>5. Known(c, convs, rows)
    BY <1>0, <2>1, <2>2, <2>4, Advance
  <2>6. msgs' \in Seq(Message) /\ MsgsStep
    BY <1>a, <2>1, MessageAppended
  <2>7. QED BY <2>1, <2>3, <2>4, <2>5, <2>6, OnlyMsgs
<1>8. CASE BotInsert(p)
  <2>1. /\ b.op = "send" /\ b.pc = "botInsert" /\ Goto(p, "botTouch")
        /\ msgs' = Append(msgs, NewMessage(b.conv, b.user, b.at, 0))
        /\ UNCHANGED <<convs, rows, events, files, world, opened>>
    BY <1>8 DEF BotInsert, At
  <2>2. PICK c \in Call : call' = [call EXCEPT ![p] = c] /\ Known(c, convs, rows)
    BY <2>1, GotoAdvances DEF Pcs, Advances
  <2>3. msgs' \in Seq(Message) /\ MsgsStep
    BY <1>a, <2>1, MessageAppended
  <2>4. QED BY <2>1, <2>2, <2>3, OnlyMsgs
<1>9. CASE SaveFile(p)
  <2>1. /\ b.pc = "saveFile" /\ Goto(p, "touch")
        /\ files' = [files EXCEPT ![b.file].msg = b.msg, ![b.file].status = "attached"]
        /\ UNCHANGED <<convs, rows, events, msgs, world, opened>>
    BY <1>9 DEF SaveFile, At
  <2>2. PICK c \in Call : call' = [call EXCEPT ![p] = c] /\ Known(c, convs, rows)
    BY <2>1, GotoAdvances DEF Pcs, Advances
  <2>3. files \in Seq(Attachment)
    BY DEF IInv, TypeOK
  <2>4. \A f \in DOMAIN files : files'[f] \in Attachment
    <3> TAKE f \in DOMAIN files
    <3>1. files[f] \in Attachment
      BY <2>3
    <3>2. [files[f] EXCEPT !.msg = b.msg, !.status = "attached"] \in Attachment
      BY <1>a, <3>1 DEF Attachment
    <3>3. f # b.file => files'[f] = files[f]
      BY <2>1
    <3>4. f = b.file => files'[f] = [files[f] EXCEPT !.msg = b.msg, !.status = "attached"]
      BY <2>1, <2>3, <3>1 DEF Attachment
    <3>5. QED BY <3>1, <3>2, <3>3, <3>4
  <2>5. files' \in [DOMAIN files -> Attachment]
    BY <2>1, <2>4
  <2>6. files' \in Seq(Attachment)
    BY <2>3, <2>5, Mapped
  <2>7. QED BY <2>1, <2>2, <2>6, OnlyFiles
<1>10. ASSUME NEW next \in {"own", "botUnread"}, b.op = "send", b.pc # "guard", Goto(p, next),
              convs' = [convs EXCEPT ![b.conv].lastMessageAt = b.at],
              UNCHANGED <<rows, events, msgs, files, world, opened>>
       PROVE  IInv'
  <2>1. b.conv \in DOMAIN convs
    BY <1>0, <1>10 DEF Known, Guarded
  <2>2. convs' \in Seq(Conversation) /\ Grow(convs, rows, convs', rows)
    BY <1>a, <1>10, <2>1, ConversationTouched
  <2>3. PICK c \in Call : call' = [call EXCEPT ![p] = c] /\ Known(c, convs, rows)
    BY <1>10, GotoAdvances DEF Pcs, Advances
  <2>4. Known(c, convs', rows)
    BY <2>2, <2>3, KnownIsStable
  <2>5. QED BY <1>10, <2>2, <2>3, <2>4, OnlyConvs
<1>11. CASE TouchConversation(p)
  BY <1>10, <1>11 DEF TouchConversation, At
<1>12. CASE BotTouch(p)
  BY <1>10, <1>12 DEF BotTouch, At
<1>13. CASE OwnRow(p)
  <2>1. /\ b.op = "send" /\ b.pc = "own" /\ Goto(p, "unread")
        /\ rows' = [rows EXCEPT ![b.row].lastRead = b.msg, ![b.row].unread = 0]
        /\ UNCHANGED <<convs, events, msgs, files, world, opened>>
    BY <1>13 DEF OwnRow, At
  <2>2. b.row \in DOMAIN rows
    BY <1>0, <2>1 DEF Known
  <2>3. PICK c \in Call : call' = [call EXCEPT ![p] = c] /\ Known(c, convs, rows)
    BY <2>1, GotoAdvances DEF Pcs, Advances
  <2>4. QED BY <1>a, <2>1, <2>2, <2>3, OwnRowWritten, OnlyRows
<1>14. ASSUME b.pc # "guard", Return(p) \/ Goto(p, "bot"),
              rows' = IncrementOthers(b.conv, b.user),
              UNCHANGED <<convs, events, msgs, files, world, opened>>
       PROVE  IInv'
  <2>1. PICK c \in Call : call' = [call EXCEPT ![p] = c] /\ Known(c, convs, rows)
    BY <1>14, ReturnAdvances, GotoAdvances DEF Pcs, Advances
  <2>2. QED BY <1>14, <2>1, UnreadWritten, OnlyRows
<1>15. CASE IncrementUnread(p)
  BY <1>14, <1>15 DEF IncrementUnread, At
<1>16. CASE BotUnread(p)
  BY <1>14, <1>16 DEF BotUnread, At
<1>17. CASE ReadLatest(p)
  <2>1. b.pc = "latest" /\ UNCHANGED <<store, world, opened>>
    BY <1>17 DEF ReadLatest, At
  <2>2. CASE Goto(p, "zero")
    BY <2>1, <2>2, GotoAdvances, WorldUnchanged, ReadOnly DEF Pcs, Advances
  <2>3. CASE ~Goto(p, "zero")
    <3>1. PICK m \in DOMAIN msgs :
              call' = [call EXCEPT ![p].msg = m, ![p].at = msgs[m].sentAt, ![p].pc = "own"]
      BY <1>17, <2>3 DEF ReadLatest, LatestMessages, MessagesOf
    <3>2. m \in Nat /\ msgs[m].sentAt \in Nat
      <4>1. m \in Nat /\ msgs[m] \in Message
        BY DEF IInv, TypeOK
      <4>2. QED BY <4>1 DEF Message
    <3> DEFINE at == msgs[m].sentAt
               c == [b EXCEPT !.msg = m, !.at = at, !.pc = "own"]
    <3>3. call' = [call EXCEPT ![p] = c]
      BY <1>0, <3>1 DEF Call
    <3>4. at \in Nat
      BY <3>2
    <3> HIDE DEF at
    <3>5. /\ c \in Call /\ c.pc = "own" /\ c.op = b.op /\ c.user = b.user /\ c.peer = b.peer
          /\ c.conv = b.conv /\ c.row = b.row
      BY <1>0, <3>2, <3>4 DEF Call, Pcs
    <3> HIDE DEF c
    <3>6. QED BY <2>1, <3>3, <3>5, ReadAndAdvance
  <2>4. QED BY <2>2, <2>3
<1>18. CASE ReadZero(p)
  <2>1. /\ b.op = "read" /\ b.pc = "zero" /\ Return(p)
        /\ rows' = [rows EXCEPT ![b.row].unread = 0]
        /\ UNCHANGED <<convs, events, msgs, files, world, opened>>
    BY <1>18 DEF ReadZero, At
  <2>2. b.row \in DOMAIN rows /\ rows[b.row] \in Participant
    BY <1>0, <2>1 DEF Known, IInv, TypeOK
  <2> DEFINE d == [rows[b.row] EXCEPT !.unread = 0]
  <2>3. d \in Participant /\ d.conv = rows[b.row].conv /\ d.user = rows[b.row].user
        /\ d.role = rows[b.row].role
    BY <2>2 DEF Participant
  <2>4. rows' = [rows EXCEPT ![b.row] = d]
    BY <2>1
  <2> HIDE DEF d
  <2>5. PICK c \in Call : call' = [call EXCEPT ![p] = c] /\ Known(c, convs, rows)
    BY <2>1, ReturnAdvances DEF Advances
  <2>6. QED BY <2>1, <2>2, <2>3, <2>4, <2>5, RowWritten, OnlyRows
<1>19. CASE ReadOwn(p)
  <2>1. /\ b.op = "read" /\ b.pc = "own" /\ Goto(p, "others")
        /\ rows' = [rows EXCEPT ![b.row].lastRead = b.msg, ![b.row].unread = 0]
        /\ opened' = opened \cup {[conv |-> b.conv, user |-> b.user, at |-> b.at]}
        /\ UNCHANGED <<convs, events, msgs, files, world>>
    BY <1>19 DEF ReadOwn, At
  <2>2. b.row \in DOMAIN rows /\ b.user \in Users /\ b.conv \in Nat
    BY <1>0, <2>1 DEF Known, Call
  <2>3. PICK c \in Call : call' = [call EXCEPT ![p] = c] /\ Known(c, convs, rows)
    BY <2>1, GotoAdvances DEF Pcs, Advances
  <2>4. /\ rows' \in Seq(Participant)
        /\ Grow(convs, rows, convs, rows')
        /\ \A j \in DOMAIN rows' : j \in DOMAIN rows \/ rows'[j].conv \in DOMAIN convs
    BY <1>a, <2>1, <2>2, OwnRowWritten
  <2>5. opened' \subseteq ReadRecord
    BY <1>a, <2>1, <2>2, SMTT(30) DEF IInv, TypeOK, ReadRecord
  <2>6. StoreTyped' /\ WorldTyped'
    BY <2>1, <2>4, <2>5, WorldUnchanged DEF IInv, TypeOK, StoreTyped
  <2>7. MsgsStep /\ EventsStep
    BY <2>1 DEF MsgsStep, EventsStep
  <2>8. Known(c, convs', rows') /\ Grow(convs, rows, convs', rows')
    BY <2>1, <2>3, <2>4, KnownIsStable
  <2>9. QED BY <2>3, <2>4, <2>6, <2>7, <2>8, Written
<1>20. CASE ReadOthers(p)
  <2>1. b.pc = "others" /\ UNCHANGED <<store, world, opened>>
    BY <1>20 DEF ReadOthers, At
  <2>2. CASE Return(p)
    BY <2>1, <2>2, ReturnOnly
  <2>3. CASE ~Return(p)
    <3>1. PICK others \in SUBSET Users :
              call' = [call EXCEPT ![p].todo = others, ![p].pc = "seen"]
      BY <1>20, <2>3 DEF ReadOthers, ActiveUsers
    <3> DEFINE c == [b EXCEPT !.todo = others, !.pc = "seen"]
    <3>2. call' = [call EXCEPT ![p] = c]
      BY <1>0, <3>1 DEF Call
    <3>3. /\ c \in Call /\ c.pc = "seen" /\ c.op = b.op /\ c.user = b.user /\ c.peer = b.peer
          /\ c.conv = b.conv /\ c.row = b.row
      BY <1>0 DEF Call, Pcs
    <3> HIDE DEF c
    <3>4. QED BY <2>1, <3>2, <3>3, ReadAndAdvance
  <2>4. QED BY <2>2, <2>3
<1>21. CASE ReadSeen(p)
  <2>1. /\ b.pc = "seen" /\ Return(p) /\ msgs' = SeenUpTo(b)
        /\ UNCHANGED <<convs, rows, events, files, world, opened>>
    BY <1>21 DEF ReadSeen, At
  <2>2. msgs \in Seq(Message)
    BY DEF IInv, TypeOK
  <2>3. \A m \in DOMAIN msgs : /\ msgs'[m] \in Message /\ msgs'[m].conv = msgs[m].conv
                               /\ msgs'[m].sender = msgs[m].sender
    <3> TAKE m \in DOMAIN msgs
    <3>1. msgs[m] \in Message
      BY <2>2
    <3>2. msgs'[m] \in {msgs[m], [msgs[m] EXCEPT !.seen = TRUE]}
      BY <2>1 DEF SeenUpTo
    <3> DEFINE d == [msgs[m] EXCEPT !.seen = TRUE]
    <3>3. d \in Message
      BY <3>1 DEF Message
    <3>4. d.conv = msgs[m].conv /\ d.sender = msgs[m].sender
      BY <3>1 DEF Message
    <3>5. QED BY <3>1, <3>2, <3>3, <3>4
  <2>4. DOMAIN msgs' = DOMAIN msgs /\ msgs' \in [DOMAIN msgs -> Message]
    BY <2>1, <2>3 DEF SeenUpTo
  <2>5. msgs' \in Seq(Message) /\ MsgsStep
    BY <2>2, <2>3, <2>4, Mapped DEF MsgsStep
  <2>6. PICK c \in Call : call' = [call EXCEPT ![p] = c] /\ Known(c, convs, rows)
    BY <2>1, ReturnAdvances DEF Advances
  <2>7. QED BY <2>1, <2>5, <2>6, OnlyMsgs
<1>22. QED
  BY <1>1, <1>2, <1>3, <1>5, <1>6, <1>7, <1>8, <1>9, <1>11, <1>12, <1>13, <1>15, <1>16, <1>17,
     <1>18, <1>19, <1>20, <1>21
  DEF MessageStep

-----------------------------------------------------------------------------
(* Attachments. *)

\* generatePresignedUploadUrl and markAttachmentUploaded keep the invariant.
LEMMA AttachmentsKeepIInv == ASSUME IInv, NEW p \in Procs, AttachmentStep(p) PROVE IInv'
<1> DEFINE b == call[p]
<1>0. b \in Call /\ Known(b, convs, rows) /\ call \in [Procs -> Call]
  BY CallTyped DEF IInv, TypeOK
<1>1. files \in Seq(Attachment)
  BY DEF IInv, TypeOK
<1>2. CASE InsertDraft(p)
  <2> DEFINE d == [conv |-> b.conv, uploader |-> b.user, status |-> "draft", msg |-> 0]
  <2>1. /\ b.op = "presign" /\ b.pc = "insert" /\ Return(p) /\ files' = Append(files, d)
        /\ UNCHANGED <<convs, rows, events, msgs, world, opened>>
    BY <1>2 DEF InsertDraft, At
  <2>2. d \in Attachment
    BY <1>0, <2>1 DEF Known, Call, Attachment
  <2>3. files' \in Seq(Attachment)
    BY <1>1, <2>1, <2>2, Appended
  <2>4. PICK c \in Call : call' = [call EXCEPT ![p] = c] /\ Known(c, convs, rows)
    BY <2>1, ReturnAdvances DEF Advances
  <2>5. QED BY <2>1, <2>3, <2>4, OnlyFiles
<1>3. CASE FindFile(p)
  <2>1. b.pc = "file" /\ UNCHANGED <<store, world, opened>>
    BY <1>3 DEF FindFile, At
  <2>2. CASE Return(p)
    BY <2>1, <2>2, ReturnOnly
  <2>3. CASE ~Return(p)
    <3>1. PICK flag \in BOOLEAN :
              call' = [call EXCEPT ![p].flag = flag, ![p].pc = "saveFile"]
      BY <1>3, <2>3 DEF FindFile
    <3> DEFINE c == [b EXCEPT !.flag = flag, !.pc = "saveFile"]
    <3>2. call' = [call EXCEPT ![p] = c]
      BY <1>0, <3>1 DEF Call
    <3>3. /\ c \in Call /\ c.pc = "saveFile" /\ c.op = b.op /\ c.user = b.user
          /\ c.peer = b.peer /\ c.conv = b.conv /\ c.row = b.row
      BY <1>0 DEF Call, Pcs
    <3> HIDE DEF c
    <3>4. QED BY <2>1, <3>2, <3>3, ReadAndAdvance
  <2>4. QED BY <2>2, <2>3
<1>4. CASE SaveUploaded(p)
  <2>1. /\ b.pc = "saveFile" /\ Return(p)
        /\ files' = [files EXCEPT ![b.file].status = IF b.flag THEN "uploaded" ELSE @]
        /\ UNCHANGED <<convs, rows, events, msgs, world, opened>>
    BY <1>4 DEF SaveUploaded, At
  <2>2. \A f \in DOMAIN files : files'[f] \in Attachment
    <3> TAKE f \in DOMAIN files
    <3>1. files[f] \in Attachment
      BY <1>1
    <3>2. [files[f] EXCEPT !.status = "uploaded"] \in Attachment
      BY <3>1 DEF Attachment
    <3>3. [files[f] EXCEPT !.status = files[f].status] = files[f]
      BY <3>1 DEF Attachment
    <3>4. files'[f] \in {files[f], [files[f] EXCEPT !.status = "uploaded"],
                         [files[f] EXCEPT !.status = files[f].status]}
      BY <2>1
    <3>5. QED BY <3>1, <3>2, <3>3, <3>4
  <2>3. files' \in [DOMAIN files -> Attachment]
    BY <2>1, <2>2
  <2>4. files' \in Seq(Attachment)
    BY <1>1, <2>3, Mapped
  <2>5. PICK c \in Call : call' = [call EXCEPT ![p] = c] /\ Known(c, convs, rows)
    BY <2>1, ReturnAdvances DEF Advances
  <2>6. QED BY <2>1, <2>4, <2>5, OnlyFiles
<1>5. QED BY <1>2, <1>3, <1>4 DEF AttachmentStep

-----------------------------------------------------------------------------
(* The invariant holds, and with it the safety properties. *)

\* Every step keeps the invariant.
LEMMA StepIInv == IInv /\ [Next]_vars => IInv'
<1> SUFFICES ASSUME IInv, [Next]_vars PROVE IInv'
  OBVIOUS
<1>1. ASSUME UNCHANGED <<store, call, opened>>, WorldTyped' PROVE IInv'
  <2>1. UNCHANGED <<convs, rows, events, msgs, files, opened, call>>
    BY <1>1 DEF store
  <2>2. TypeOK'
    BY <1>1, <2>1 DEF IInv, TypeOK, WorldTyped
  <2>3. CallInv' /\ RowsInv'
    BY <2>1 DEF IInv, CallInv, RowsInv
  <2>4. SenderWasMember' /\ RemovedByManager'
    BY <2>1 DEF IInv, SenderWasMember, RemovedByManager, RowsOf
  <2>5. QED BY <2>2, <2>3, <2>4 DEF IInv
<1>2. CASE UNCHANGED vars
  BY <1>1, <1>2, WorldUnchanged DEF vars
<1>3. CASE Tick
  <2>1. clock' \in Nat /\ started' \in Nat /\ failures' \in Nat
    BY <1>3 DEF Tick, IInv, TypeOK
  <2>2. overlap' \in BOOLEAN
    BY <1>3 DEF Tick, IInv, TypeOK
  <2>3. WorldTyped'
    BY <2>1, <2>2 DEF WorldTyped
  <2>4. QED BY <1>1, <1>3, <2>3 DEF Tick
<1>4. ASSUME NEW p \in Procs, Fail(p) PROVE IInv'
  <2>1. clock' \in Nat /\ started' \in Nat /\ failures' \in Nat
    BY <1>4 DEF Fail, IInv, TypeOK
  <2>2. overlap' \in BOOLEAN
    BY <1>4 DEF Fail, IInv, TypeOK
  <2>3. WorldTyped'
    BY <2>1, <2>2 DEF WorldTyped
  <2>4. QED BY <1>4, <2>3, IdleKnown, ReadOnly DEF Fail, Return
<1>5. QED
  BY <1>2, <1>3, <1>4, RequestKeepsIInv, MembershipKeepsIInv, MessagesKeepIInv,
     AttachmentsKeepIInv
  DEF Next, Step, Finished

\* The invariant always holds.
LEMMA Invariance == Spec => []IInv
  BY InitIInv, StepIInv, PTL DEF Spec

\* Type correctness of the collections and of the handlers in flight.
THEOREM TypeCorrect == Spec => []TypeOK
  BY Invariance, PTL DEF IInv

\* sendMessage and sendAiBotMessage write only messages of users who have, or
\* had, a participant row in the conversation.
THEOREM OnlyMembersSend == Spec => []SenderWasMember
  BY Invariance, PTL DEF IInv

\* removeMember's history names only actors that requireAdminOrOwner let pass.
THEOREM OnlyManagersRemove == Spec => []RemovedByManager
  BY Invariance, PTL DEF IInv

\* No handler re-activates a row of a group, whatever it read before.
THEOREM ExitFromGroupIsFinal == Spec => GroupExitIsFinal
<1> DEFINE Exit(i) == convs[rows[i].conv].type = "group" /\ rows[i].status # "active"
                        => rows'[i].status = rows[i].status
<1>1. ASSUME IInv, [Next]_vars PROVE \A i \in DOMAIN rows : Exit(i)
  <2> SUFFICES ASSUME NEW i \in DOMAIN rows PROVE Exit(i)
    OBVIOUS
  <2>0. rows \in Seq(Participant) /\ rows[i] \in Participant
    BY <1>1 DEF IInv, TypeOK
  <2>1. CASE UNCHANGED rows
    BY <2>1
  <2>2. ASSUME NEW d, rows' = Append(rows, d) PROVE Exit(i)
    BY <2>0, <2>2
  <2>3. ASSUME NEW p \in Procs, NEW status, UpdateStatus(p, status) PROVE Exit(i)
    BY <2>0, <2>3 DEF UpdateStatus, ActiveRows
  <2>4. ASSUME NEW p \in Procs, RestoreRow(p) PROVE Exit(i)
    <3>1. Known(call[p], convs, rows) /\ call[p].op = "send" /\ call[p].pc = "restoreRow"
      BY <1>1, <2>4, CallTyped DEF RestoreRow, At
    <3>2. PICK j \in call[p].ids : rows' = [rows EXCEPT ![j].status = "active"]
      BY <2>4 DEF RestoreRow
    <3>3. j = i => convs[rows[i].conv].type = "direct"
      BY <3>1 DEF Known
    <3>4. QED BY <2>0, <3>2, <3>3
  <2>5. ASSUME NEW k, NEW u, rows' = IncrementOthers(k, u) PROVE Exit(i)
    <3>1. rows'[i] \in {rows[i], [rows[i] EXCEPT !.unread = @ + 1]}
      BY <2>5 DEF IncrementOthers
    <3>2. QED BY <2>0, <3>1 DEF Participant
  <2>6. ASSUME NEW j, NEW m, \/ rows' = [rows EXCEPT ![j].lastRead = m, ![j].unread = 0]
                            \/ rows' = [rows EXCEPT ![j].unread = 0]
        PROVE  Exit(i)
    <3>1. j # i => rows'[i] = rows[i]
      BY <2>6
    <3>2. j = i => rows'[i] \in {[rows[i] EXCEPT !.lastRead = m, !.unread = 0],
                                 [rows[i] EXCEPT !.unread = 0]}
      BY <2>0, <2>6 DEF Participant
    <3>3. QED BY <2>0, <3>1, <3>2 DEF Participant
  <2>7. ASSUME NEW p \in Procs, MembershipStep(p) PROVE Exit(i)
    BY <2>1, <2>2, <2>3, <2>7
    DEF MembershipStep, RequireActiveParticipant, RequireAdminOrOwner, FindShared,
        CheckConversation, InsertConversation, InsertRow, InsertEvent, AddFindExisting,
        AddInsertRow, AddEvent, RemoveUpdate, RemoveEvent, LeaveUpdate, LeaveEvent, store
  <2>8. ASSUME NEW p \in Procs, MessageStep(p) PROVE Exit(i)
    BY <2>1, <2>4, <2>5, <2>6, <2>8
    DEF MessageStep, RestoreRead, CheckFile, Stamp, InsertMessage, SaveFile,
        TouchConversation, OwnRow, IncrementUnread, BotAnswer, BotInsert, BotTouch, BotUnread,
        ReadLatest, ReadZero, ReadOwn, ReadOthers, ReadSeen, store
  <2>9. ASSUME NEW p \in Procs, Request(p) \/ AttachmentStep(p) \/ Fail(p) PROVE Exit(i)
    BY <2>1, <2>9
    DEF Request, MembershipRequest, MessageRequest, AttachmentRequest, CreateConversation,
        AddMember, RemoveMember, LeaveConversation, MemberRequest, SendMessage,
        MarkConversationRead, GeneratePresignedUploadUrl, MarkAttachmentUploaded, Begin,
        AttachmentStep, InsertDraft, FindFile, SaveUploaded, Fail, store
  <2>10. QED
    BY <1>1, <2>1, <2>7, <2>8, <2>9 DEF Next, Step, Tick, Finished, vars, store
<1>2. QED
  BY Invariance, <1>1, PTL DEF Spec, GroupExitIsFinal

-----------------------------------------------------------------------------
(* Which handlers write a collection, and how a handler goes on.            *)

\* A request starts with an access check or the look-up of createConversation.
LEMMA RequestStarts ==
    ASSUME IInv, NEW p \in Procs, Request(p)
    PROVE  /\ call[p] = Idle /\ call' = [call EXCEPT ![p] = call'[p]]
           /\ overlap' = (overlap \/ \E q \in Procs : call[q] # Idle)
           /\ UNCHANGED <<store, clock, failures, opened>>
           /\ call'[p].pc \in {"guard", "insert", "find"} /\ call'[p].op # "idle"
           /\ call'[p].pc # "guard" => call'[p].op = "create"
           /\ call'[p].op \in {"send", "confirm"} => call'[p].file \in 0 .. Len(files)
           /\ call'[p].op = "confirm" => call'[p].file \in DOMAIN files
<1>0. call \in [Procs -> Call]
  BY DEF IInv, TypeOK
<1> USE <1>0 DEF Begin, Idle
<1>1. CASE CreateConversation(p)
  BY <1>1 DEF CreateConversation
<1>2. ASSUME NEW op \in {"add", "remove", "leave"}, MemberRequest(p, op)
      PROVE  /\ call[p] = Idle /\ call' = [call EXCEPT ![p] = call'[p]]
             /\ overlap' = (overlap \/ \E q \in Procs : call[q] # Idle)
             /\ UNCHANGED <<store, clock, failures, opened>>
             /\ call'[p].pc = "guard" /\ call'[p].op = op
  BY <1>2 DEF MemberRequest
<1>3. CASE SendMessage(p)
  BY <1>3 DEF SendMessage
<1>4. CASE MarkConversationRead(p)
  BY <1>4 DEF MarkConversationRead
<1>5. CASE GeneratePresignedUploadUrl(p)
  BY <1>5 DEF GeneratePresignedUploadUrl
<1>6. CASE MarkAttachmentUploaded(p)
  <2>1. DOMAIN files \subseteq 0 .. Len(files)
    BY DEF IInv, TypeOK
  <2> QED BY <1>6, <2>1 DEF MarkAttachmentUploaded
<1> QED BY <1>1, <1>2, <1>3, <1>4, <1>5, <1>6
    DEF Request, MembershipRequest, MessageRequest, AttachmentRequest, AddMember, RemoveMember,
        LeaveConversation

\* The awaits of a handler, in their order.
Follows(op, pc, next) ==
    \/ /\ op = "create"
       /\ \/ pc \in {"find", "check"} /\ next \in {"check", "insert"}
          \/ pc = "insert" /\ next = "insertRow"
          \/ pc = "insertRow" /\ next \in {"insertRow", "insertEvent"}
          \/ pc = "insertEvent" /\ next = "insertEvent"
    \/ /\ op = "add"
       /\ \/ pc = "guard" /\ next = "find"
          \/ pc = "find" /\ next = "insert"
          \/ pc = "insert" /\ next = "event"
    \/ /\ op \in {"remove", "leave"}
       /\ \/ pc = "guard" /\ next = "update"
          \/ pc = "update" /\ next = "event"
    \/ /\ op = "send"
       /\ \/ pc = "guard" /\ next = "restore"
          \/ pc \in {"restore", "restoreRow"} /\ next \in {"restoreRow", "stamp", "file"}
          \/ pc = "file" /\ next = "stamp"
          \/ pc = "stamp" /\ next = "insert"
          \/ pc = "insert" /\ next \in {"saveFile", "touch"}
          \/ pc = "saveFile" /\ next = "touch"
          \/ pc = "touch" /\ next = "own"
          \/ pc = "own" /\ next = "unread"
          \/ pc = "unread" /\ next = "bot"
          \/ pc = "bot" /\ next = "botInsert"
          \/ pc = "botInsert" /\ next = "botTouch"
          \/ pc = "botTouch" /\ next = "botUnread"
    \/ /\ op = "read"
       /\ \/ pc = "guard" /\ next = "latest"
          \/ pc = "latest" /\ next \in {"zero", "own"}
          \/ pc = "own" /\ next = "others"
          \/ pc = "others" /\ next = "seen"
    \/ op = "presign" /\ pc = "guard" /\ next = "insert"
    \/ op = "confirm" /\ pc = "guard" /\ next = "file"
    \/ op = "confirm" /\ pc = "file" /\ next = "saveFile"

\* What a handler keeps of its request when it goes on from b to c.
Continues(b, c) ==
    /\ Follows(b.op, b.pc, c.pc)
    /\ c.op = b.op /\ c.user = b.user /\ c.peer = b.peer /\ c.file = b.file /\ c.who = b.who
    /\ b.op # "create" => c.conv = b.conv
    /\ b.op # "confirm" => c.flag = b.flag

\* A step takes its handler to the next await, or ends it.
LEMMA StepContinues ==
    ASSUME IInv, NEW p \in Procs, Step(p)
    PROVE  /\ call[p].op # "idle" /\ UNCHANGED world
           /\ call' = [call EXCEPT ![p] = call'[p]]
           /\ call'[p] = Idle \/ Continues(call[p], call'[p])
<1> DEFINE Done == /\ call[p].op # "idle" /\ UNCHANGED world
                   /\ call' = [call EXCEPT ![p] = call'[p]]
                   /\ call'[p] = Idle \/ Continues(call[p], call'[p])
<1>0. call \in [Procs -> Call] /\ call[p] \in Call /\ Known(call[p], convs, rows)
  BY CallTyped DEF IInv, TypeOK
<1>a. ASSUME NEW pc, Goto(p, pc), Follows(call[p].op, call[p].pc, pc), call[p].op # "idle",
             UNCHANGED world
      PROVE  Done
  BY <1>0, <1>a DEF Goto, Continues, Call
<1>b. ASSUME Return(p), call[p].op # "idle", UNCHANGED world PROVE Done
  BY <1>0, <1>b DEF Return
<1>c. ASSUME NEW c, call' = [call EXCEPT ![p] = c], Continues(call[p], c), call[p].op # "idle",
             UNCHANGED world
      PROVE  Done
  BY <1>0, <1>c
<1>1. CASE RequireActiveParticipant(p)
  <2>1. /\ call[p].op \in {"add", "leave", "send", "read", "presign", "confirm"}
        /\ call[p].pc = "guard" /\ UNCHANGED world
    BY <1>0, <1>1 DEF RequireActiveParticipant, Known, Guarded
  <2>2. CASE Return(p)
    BY <1>b, <2>1, <2>2
  <2>3. CASE ~Return(p)
    <3>1. PICK i : call' = [call EXCEPT ![p].pc = AfterGuard(call[p].op),
                                       ![p].row = IF call[p].op \in {"send", "read"} THEN i ELSE 0]
      BY <1>1, <2>3 DEF RequireActiveParticipant
    <3>2. Follows(call[p].op, call[p].pc, AfterGuard(call[p].op))
      BY <2>1 DEF AfterGuard, Follows
    <3>3. PICK next : next = AfterGuard(call[p].op)
      OBVIOUS
    <3>4. PICK row : row = IF call[p].op \in {"send", "read"} THEN i ELSE 0
      OBVIOUS
    <3> DEFINE c == [call[p] EXCEPT !.pc = next, !.row = row]
    <3>5. call' = [call EXCEPT ![p] = c]
      BY <1>0, <3>1, <3>3, <3>4 DEF Call
    <3>6. Continues(call[p], c)
      BY <1>0, <3>2, <3>3 DEF Continues, Call
    <3> HIDE DEF c
    <3> QED BY <1>c, <2>1, <3>5, <3>6
  <2> QED BY <2>2, <2>3
<1>2. CASE RequireAdminOrOwner(p)
  <2>1. /\ call[p].op = "remove" /\ call[p].pc = "guard" /\ UNCHANGED world
        /\ Return(p) \/ Goto(p, "update")
    BY <1>2 DEF RequireAdminOrOwner, At
  <2> QED BY <1>a, <1>b, <2>1 DEF Follows
<1>3. CASE FindShared(p)
  <2>1. call[p].op = "create" /\ call[p].pc = "find" /\ UNCHANGED world
    BY <1>3 DEF FindShared, At
  <2>3. PICK ids, next : next \in {"check", "insert"} /\ call' = [call EXCEPT ![p].ids = ids, ![p].pc = next]
    BY <1>3 DEF FindShared
  <2> DEFINE c == [call[p] EXCEPT !.ids = ids, !.pc = next]
  <2>4. call' = [call EXCEPT ![p] = c]
    BY <1>0, <2>3 DEF Call
  <2>5. Continues(call[p], c)
    BY <1>0, <2>1, <2>3 DEF Continues, Call, Follows
  <2> HIDE DEF c
  <2> QED BY <1>c, <2>1, <2>4, <2>5
<1>4. CASE CheckConversation(p)
  <2>1. call[p].op = "create" /\ call[p].pc = "check" /\ UNCHANGED world
    BY <1>4 DEF CheckConversation, At
  <2>2. CASE Return(p)
    BY <1>b, <2>1, <2>2 DEF Follows
  <2>3. CASE ~Return(p)
    <3>2. PICK ids, next : next \in {"check", "insert"} /\ call' = [call EXCEPT ![p].ids = ids, ![p].pc = next]
      BY <1>4, <2>3 DEF CheckConversation
    <3> DEFINE c == [call[p] EXCEPT !.ids = ids, !.pc = next]
    <3>3. call' = [call EXCEPT ![p] = c]
      BY <1>0, <3>2 DEF Call
    <3>4. Continues(call[p], c)
      BY <1>0, <2>1, <3>2 DEF Continues, Call, Follows
    <3> HIDE DEF c
    <3> QED BY <1>c, <2>1, <3>3, <3>4
  <2> QED BY <2>2, <2>3
<1>5. CASE InsertConversation(p)
  <2>1. call[p].op = "create" /\ call[p].pc = "insert" /\ UNCHANGED world
    BY <1>5 DEF InsertConversation, At
  <2>2. PICK k, todo : k = Len(convs) + 1 /\ todo = call[p].who
    OBVIOUS
  <2>3. call' = [call EXCEPT ![p].conv = k, ![p].todo = todo, ![p].pc = "insertRow"]
    BY <1>5, <2>2 DEF InsertConversation
  <2> DEFINE c == [call[p] EXCEPT !.conv = k, !.todo = todo, !.pc = "insertRow"]
  <2>4. call' = [call EXCEPT ![p] = c]
    BY <1>0, <2>3 DEF Call
  <2>5. Continues(call[p], c)
    BY <1>0, <2>1, <2>3 DEF Continues, Call, Follows
  <2> HIDE DEF c
  <2> QED BY <1>c, <2>1, <2>4, <2>5
<1>6. CASE InsertRow(p)
  <2>1. call[p].op = "create" /\ call[p].pc = "insertRow" /\ UNCHANGED world
    BY <1>6 DEF InsertRow, At
  <2>3. PICK todo, next : next \in {"insertRow", "insertEvent"} /\ call' = [call EXCEPT ![p].todo = todo, ![p].pc = next]
    BY <1>6 DEF InsertRow
  <2> DEFINE c == [call[p] EXCEPT !.todo = todo, !.pc = next]
  <2>4. call' = [call EXCEPT ![p] = c]
    BY <1>0, <2>3 DEF Call
  <2>5. Continues(call[p], c)
    BY <1>0, <2>1, <2>3 DEF Continues, Call, Follows
  <2> HIDE DEF c
  <2> QED BY <1>c, <2>1, <2>4, <2>5
<1>7. CASE InsertEvent(p)
  <2>1. call[p].op = "create" /\ call[p].pc = "insertEvent" /\ UNCHANGED world
    BY <1>7 DEF InsertEvent, At
  <2>2. CASE Return(p)
    BY <1>b, <2>1, <2>2 DEF Follows
  <2>3. CASE ~Return(p)
    <3>2. PICK todo : call' = [call EXCEPT ![p].todo = todo]
      BY <1>7, <2>3 DEF InsertEvent
    <3> DEFINE c == [call[p] EXCEPT !.todo = todo]
    <3>3. call' = [call EXCEPT ![p] = c]
      BY <1>0, <3>2 DEF Call
    <3>4. Continues(call[p], c)
      BY <1>0, <2>1, <3>2 DEF Continues, Call, Follows
    <3> HIDE DEF c
    <3> QED BY <1>c, <2>1, <3>3, <3>4
  <2> QED BY <2>2, <2>3
<1>8. CASE AddFindExisting(p)
  <2>1. /\ call[p].op = "add" /\ call[p].pc = "find" /\ UNCHANGED world
        /\ Return(p) \/ Goto(p, "insert")
    BY <1>8 DEF AddFindExisting, At
  <2> QED BY <1>a, <1>b, <2>1 DEF Follows
<1>9. CASE AddInsertRow(p)
  <2>1. /\ call[p].op = "add" /\ call[p].pc = "insert" /\ UNCHANGED world
        /\ Goto(p, "event")
    BY <1>9 DEF AddInsertRow, At
  <2> QED BY <1>a, <1>b, <2>1 DEF Follows
<1>10. CASE AddEvent(p)
  <2>1. /\ call[p].op = "add" /\ call[p].pc = "event" /\ UNCHANGED world
        /\ Return(p)
    BY <1>10 DEF AddEvent, At
  <2> QED BY <1>a, <1>b, <2>1 DEF Follows
<1>11. CASE RemoveUpdate(p)
  <2>1. /\ call[p].op = "remove" /\ call[p].pc = "update" /\ UNCHANGED world
        /\ Goto(p, "event")
    BY <1>11 DEF RemoveUpdate, UpdateStatus, At
  <2> QED BY <1>a, <1>b, <2>1 DEF Follows
<1>12. CASE RemoveEvent(p)
  <2>1. /\ call[p].op = "remove" /\ call[p].pc = "event" /\ UNCHANGED world
        /\ Return(p)
    BY <1>12 DEF RemoveEvent, At
  <2> QED BY <1>a, <1>b, <2>1 DEF Follows
<1>13. CASE LeaveUpdate(p)
  <2>1. /\ call[p].op = "leave" /\ call[p].pc = "update" /\ UNCHANGED world
        /\ Goto(p, "event")
    BY <1>13 DEF LeaveUpdate, UpdateStatus, At
  <2> QED BY <1>a, <1>b, <2>1 DEF Follows
<1>14. CASE LeaveEvent(p)
  <2>1. /\ call[p].op = "leave" /\ call[p].pc = "event" /\ UNCHANGED world
        /\ Return(p)
    BY <1>14 DEF LeaveEvent, At
  <2> QED BY <1>a, <1>b, <2>1 DEF Follows
<1>15. CASE RestoreRead(p)
  <2>1. call[p].op = "send" /\ call[p].pc = "restore" /\ UNCHANGED world
    BY <1>15 DEF RestoreRead, At
  <2>3. PICK ids, next : next \in {"restoreRow", "stamp", "file"} /\ call' = [call EXCEPT ![p].ids = ids, ![p].pc = next]
    BY <1>15 DEF RestoreRead, AfterRestore
  <2> DEFINE c == [call[p] EXCEPT !.ids = ids, !.pc = next]
  <2>4. call' = [call EXCEPT ![p] = c]
    BY <1>0, <2>3 DEF Call
  <2>5. Continues(call[p], c)
    BY <1>0, <2>1, <2>3 DEF Continues, Call, Follows
  <2> HIDE DEF c
  <2> QED BY <1>c, <2>1, <2>4, <2>5
<1>16. CASE RestoreRow(p)
  <2>1. call[p].op = "send" /\ call[p].pc = "restoreRow" /\ UNCHANGED world
    BY <1>16 DEF RestoreRow, At
  <2>3. PICK ids, next : next \in {"restoreRow", "stamp", "file"} /\ call' = [call EXCEPT ![p].ids = ids, ![p].pc = next]
    BY <1>16 DEF RestoreRow, AfterRestore
  <2> DEFINE c == [call[p] EXCEPT !.ids = ids, !.pc = next]
  <2>4. call' = [call EXCEPT ![p] = c]
    BY <1>0, <2>3 DEF Call
  <2>5. Continues(call[p], c)
    BY <1>0, <2>1, <2>3 DEF Continues, Call, Follows
  <2> HIDE DEF c
  <2> QED BY <1>c, <2>1, <2>4, <2>5
<1>17. CASE CheckFile(p)
  <2>1. /\ call[p].op = "send" /\ call[p].pc = "file" /\ UNCHANGED world
        /\ Return(p) \/ Goto(p, "stamp")
    BY <1>17 DEF CheckFile, At
  <2> QED BY <1>a, <1>b, <2>1 DEF Follows
<1>18. CASE Stamp(p)
  <2>1. call[p].op = "send" /\ call[p].pc = "stamp" /\ UNCHANGED world
    BY <1>18 DEF Stamp, At
  <2>3. PICK at : call' = [call EXCEPT ![p].at = at, ![p].pc = "insert"]
    BY <1>18 DEF Stamp
  <2> DEFINE c == [call[p] EXCEPT !.at = at, !.pc = "insert"]
  <2>4. call' = [call EXCEPT ![p] = c]
    BY <1>0, <2>3 DEF Call
  <2>5. Continues(call[p], c)
    BY <1>0, <2>1, <2>3 DEF Continues, Call, Follows
  <2> HIDE DEF c
  <2> QED BY <1>c, <2>1, <2>4, <2>5
<1>19. CASE InsertMessage(p)
  <2>1. call[p].op = "send" /\ call[p].pc = "insert" /\ UNCHANGED world
    BY <1>19 DEF InsertMessage, At
  <2>3. PICK m, next : next \in {"saveFile", "touch"} /\ call' = [call EXCEPT ![p].msg = m, ![p].pc = next]
    BY <1>19 DEF InsertMessage
  <2> DEFINE c == [call[p] EXCEPT !.msg = m, !.pc = next]
  <2>4. call' = [call EXCEPT ![p] = c]
    BY <1>0, <2>3 DEF Call
  <2>5. Continues(call[p], c)
    BY <1>0, <2>1, <2>3 DEF Continues, Call, Follows
  <2> HIDE DEF c
  <2> QED BY <1>c, <2>1, <2>4, <2>5
<1>20. CASE SaveFile(p)
  <2>1. /\ call[p].op = "send" /\ call[p].pc = "saveFile" /\ UNCHANGED world
        /\ Goto(p, "touch")
    BY <1>20 DEF SaveFile, At
  <2> QED BY <1>a, <1>b, <2>1 DEF Follows
<1>21. CASE TouchConversation(p)
  <2>1. /\ call[p].op = "send" /\ call[p].pc = "touch" /\ UNCHANGED world
        /\ Goto(p, "own")
    BY <1>21 DEF TouchConversation, At
  <2> QED BY <1>a, <1>b, <2>1 DEF Follows
<1>22. CASE OwnRow(p)
  <2>1. /\ call[p].op = "send" /\ call[p].pc = "own" /\ UNCHANGED world
        /\ Goto(p, "unread")
    BY <1>22 DEF OwnRow, At
  <2> QED BY <1>a, <1>b, <2>1 DEF Follows
<1>23. CASE IncrementUnread(p)
  <2>1. /\ call[p].op = "send" /\ call[p].pc = "unread" /\ UNCHANGED world
        /\ Return(p) \/ Goto(p, "bot")
    BY <1>23 DEF IncrementUnread, At
  <2> QED BY <1>a, <1>b, <2>1 DEF Follows
<1>24. CASE BotAnswer(p)
  <2>1. call[p].op = "send" /\ call[p].pc = "bot" /\ UNCHANGED world
    BY <1>24 DEF BotAnswer, At
  <2>2. CASE Return(p)
    BY <1>b, <2>1, <2>2 DEF Follows
  <2>3. CASE ~Return(p)
    <3>2. PICK at : call' = [call EXCEPT ![p].at = at, ![p].pc = "botInsert"]
      BY <1>24, <2>3 DEF BotAnswer
    <3> DEFINE c == [call[p] EXCEPT !.at = at, !.pc = "botInsert"]
    <3>3. call' = [call EXCEPT ![p] = c]
      BY <1>0, <3>2 DEF Call
    <3>4. Continues(call[p], c)
      BY <1>0, <2>1, <3>2 DEF Continues, Call, Follows
    <3> HIDE DEF c
    <3> QED BY <1>c, <2>1, <3>3, <3>4
  <2> QED BY <2>2, <2>3
<1>25. CASE BotInsert(p)
  <2>1. /\ call[p].op = "send" /\ call[p].pc = "botInsert" /\ UNCHANGED world
        /\ Goto(p, "botTouch")
    BY <1>25 DEF BotInsert, At
  <2> QED BY <1>a, <1>b, <2>1 DEF Follows
<1>26. CASE BotTouch(p)
  <2>1. /\ call[p].op = "send" /\ call[p].pc = "botTouch" /\ UNCHANGED world
        /\ Goto(p, "botUnread")
    BY <1>26 DEF BotTouch, At
  <2> QED BY <1>a, <1>b, <2>1 DEF Follows
<1>27. CASE BotUnread(p)
  <2>1. /\ call[p].op = "send" /\ call[p].pc = "botUnread" /\ UNCHANGED world
        /\ Return(p)
    BY <1>27 DEF BotUnread, At
  <2> QED BY <1>a, <1>b, <2>1 DEF Follows
<1>28. CASE ReadLatest(p)
  <2>1. call[p].op = "read" /\ call[p].pc = "latest" /\ UNCHANGED world
    <3> HIDE DEF Done
    <3> QED BY <1>28, Zenon DEF ReadLatest, At
  <2>2. CASE Goto(p, "zero")
    BY <1>a, <2>1, <2>2 DEF Follows
  <2>3. CASE ~Goto(p, "zero")
    <3>2. PICK m, at : call' = [call EXCEPT ![p].msg = m, ![p].at = at, ![p].pc = "own"]
      BY <1>28, <2>3, Zenon DEF ReadLatest
    <3> DEFINE c == [call[p] EXCEPT !.msg = m, !.at = at, !.pc = "own"]
    <3>3. call' = [call EXCEPT ![p] = c]
      BY <1>0, <3>2 DEF Call
    <3>4. Continues(call[p], c)
      BY <1>0, <2>1, <3>2 DEF Continues, Call, Follows
    <3> HIDE DEF c
    <3> QED BY <1>c, <2>1, <3>3, <3>4
  <2> QED BY <2>2, <2>3
<1>29. CASE ReadZero(p)
  <2>1. /\ call[p].op = "read" /\ call[p].pc = "zero" /\ UNCHANGED world
        /\ Return(p)
    BY <1>29 DEF ReadZero, At
  <2> QED BY <1>a, <1>b, <2>1 DEF Follows
<1>30. CASE ReadOwn(p)
  <2>1. /\ call[p].op = "read" /\ call[p].pc = "own" /\ UNCHANGED world
        /\ Goto(p, "others")
    BY <1>30 DEF ReadOwn, At
  <2> QED BY <1>a, <1>b, <2>1 DEF Follows
<1>31. CASE ReadOthers(p)
  <2>1. call[p].op = "read" /\ call[p].pc = "others" /\ UNCHANGED world
    BY <1>31 DEF ReadOthers, At
  <2>2. CASE Return(p)
    BY <1>b, <2>1, <2>2 DEF Follows
  <2>3. CASE ~Return(p)
    <3>2. PICK todo : call' = [call EXCEPT ![p].todo = todo, ![p].pc = "seen"]
      BY <1>31, <2>3 DEF ReadOthers
    <3> DEFINE c == [call[p] EXCEPT !.todo = todo, !.pc = "seen"]
    <3>3. call' = [call EXCEPT ![p] = c]
      BY <1>0, <3>2 DEF Call
    <3>4. Continues(call[p], c)
      BY <1>0, <2>1, <3>2 DEF Continues, Call, Follows
    <3> HIDE DEF c
    <3> QED BY <1>c, <2>1, <3>3, <3>4
  <2> QED BY <2>2, <2>3
<1>32. CASE ReadSeen(p)
  <2>1. /\ call[p].op = "read" /\ call[p].pc = "seen" /\ UNCHANGED world
        /\ Return(p)
    BY <1>32 DEF ReadSeen, At
  <2> QED BY <1>a, <1>b, <2>1 DEF Follows
<1>33. CASE InsertDraft(p)
  <2>1. /\ call[p].op = "presign" /\ call[p].pc = "insert" /\ UNCHANGED world
        /\ Return(p)
    BY <1>33 DEF InsertDraft, At
  <2> QED BY <1>a, <1>b, <2>1 DEF Follows
<1>34. CASE FindFile(p)
  <2>1. call[p].op = "confirm" /\ call[p].pc = "file" /\ UNCHANGED world
    BY <1>34 DEF FindFile, At
  <2>2. CASE Return(p)
    BY <1>b, <2>1, <2>2 DEF Follows
  <2>3. CASE ~Return(p)
    <3>2. PICK flag : call' = [call EXCEPT ![p].flag = flag, ![p].pc = "saveFile"]
      BY <1>34, <2>3 DEF FindFile
    <3> DEFINE c == [call[p] EXCEPT !.flag = flag, !.pc = "saveFile"]
    <3>3. call' = [call EXCEPT ![p] = c]
      BY <1>0, <3>2 DEF Call
    <3>4. Continues(call[p], c)
      BY <1>0, <2>1, <3>2 DEF Continues, Call, Follows
    <3> HIDE DEF c
    <3> QED BY <1>c, <2>1, <3>3, <3>4
  <2> QED BY <2>2, <2>3
<1>35. CASE SaveUploaded(p)
  <2>1. /\ call[p].op = "confirm" /\ call[p].pc = "saveFile" /\ UNCHANGED world
        /\ Return(p)
    BY <1>35 DEF SaveUploaded, At
  <2> QED BY <1>a, <1>b, <2>1 DEF Follows
<1>36. CASE MembershipStep(p)
  BY <1>36, <1>1, <1>2, <1>3, <1>4, <1>5, <1>6, <1>7, <1>8, <1>9, <1>10, <1>11, <1>12, <1>13, <1>14
     DEF MembershipStep
<1>37. CASE MessageStep(p)
  BY <1>37, <1>15, <1>16, <1>17, <1>18, <1>19, <1>20, <1>21, <1>22, <1>23, <1>24, <1>25, <1>26,
     <1>27, <1>28, <1>29, <1>30, <1>31, <1>32
     DEF MessageStep
<1>38. CASE AttachmentStep(p)
  BY <1>38, <1>33, <1>34, <1>35 DEF AttachmentStep
<1> QED BY <1>36, <1>37, <1>38 DEF Step

\* The steps that write each collection.
LEMMA Writers ==
    ASSUME NEW p, Step(p)
    PROVE  /\ \/ UNCHANGED rows
              \/ InsertRow(p) \/ AddInsertRow(p) \/ RemoveUpdate(p) \/ LeaveUpdate(p) \/ RestoreRow(p)
              \/ OwnRow(p) \/ IncrementUnread(p) \/ BotUnread(p) \/ ReadZero(p) \/ ReadOwn(p)
           /\ UNCHANGED events \/ InsertEvent(p) \/ AddEvent(p) \/ RemoveEvent(p) \/ LeaveEvent(p)
           /\ UNCHANGED msgs \/ InsertMessage(p) \/ BotInsert(p) \/ ReadSeen(p)
           /\ UNCHANGED files \/ SaveFile(p) \/ InsertDraft(p) \/ SaveUploaded(p)
           /\ UNCHANGED convs \/ InsertConversation(p) \/ TouchConversation(p) \/ BotTouch(p)
           /\ UNCHANGED opened \/ ReadOwn(p)
<1>0. ASSUME UNCHANGED <<store, opened>>
      PROVE  UNCHANGED <<rows, events, msgs, files, convs, opened>>
  BY <1>0 DEF store
<1>1. CASE InsertConversation(p)
  <2>1. UNCHANGED <<rows, events, msgs, files, opened>>
    BY <1>1 DEF InsertConversation
  <2> QED BY <1>1, <2>1
<1>2. CASE InsertRow(p)
  <2>1. UNCHANGED <<convs, events, msgs, files, opened>>
    BY <1>2 DEF InsertRow
  <2> QED BY <1>2, <2>1
<1>3. CASE InsertEvent(p)
  <2>1. UNCHANGED <<convs, rows, msgs, files, opened>>
    BY <1>3 DEF InsertEvent
  <2> QED BY <1>3, <2>1
<1>4. CASE AddInsertRow(p)
  <2>1. UNCHANGED <<convs, events, msgs, files, opened>>
    BY <1>4 DEF AddInsertRow
  <2> QED BY <1>4, <2>1
<1>5. CASE AddEvent(p)
  <2>1. UNCHANGED <<convs, rows, msgs, files, opened>>
    BY <1>5 DEF AddEvent
  <2> QED BY <1>5, <2>1
<1>6. CASE RemoveUpdate(p)
  <2>1. UNCHANGED <<convs, events, msgs, files, opened>>
    BY <1>6 DEF RemoveUpdate, UpdateStatus
  <2> QED BY <1>6, <2>1
<1>7. CASE RemoveEvent(p)
  <2>1. UNCHANGED <<convs, rows, msgs, files, opened>>
    BY <1>7 DEF RemoveEvent
  <2> QED BY <1>7, <2>1
<1>8. CASE LeaveUpdate(p)
  <2>1. UNCHANGED <<convs, events, msgs, files, opened>>
    BY <1>8 DEF LeaveUpdate, UpdateStatus
  <2> QED BY <1>8, <2>1
<1>9. CASE LeaveEvent(p)
  <2>1. UNCHANGED <<convs, rows, msgs, files, opened>>
    BY <1>9 DEF LeaveEvent
  <2> QED BY <1>9, <2>1
<1>10. CASE RestoreRow(p)
  <2>1. UNCHANGED <<convs, events, msgs, files, opened>>
    BY <1>10 DEF RestoreRow
  <2> QED BY <1>10, <2>1
<1>11. CASE InsertMessage(p)
  <2>1. UNCHANGED <<convs, rows, events, files, opened>>
    BY <1>11 DEF InsertMessage
  <2> QED BY <1>11, <2>1
<1>12. CASE SaveFile(p)
  <2>1. UNCHANGED <<convs, rows, events, msgs, opened>>
    BY <1>12 DEF SaveFile
  <2> QED BY <1>12, <2>1
<1>13. CASE TouchConversation(p)
  <2>1. UNCHANGED <<rows, events, msgs, files, opened>>
    BY <1>13 DEF TouchConversation
  <2> QED BY <1>13, <2>1
<1>14. CASE OwnRow(p)
  <2>1. UNCHANGED <<convs, events, msgs, files, opened>>
    BY <1>14 DEF OwnRow
  <2> QED BY <1>14, <2>1
<1>15. CASE IncrementUnread(p)
  <2>1. UNCHANGED <<convs, events, msgs, files, opened>>
    BY <1>15 DEF IncrementUnread
  <2> QED BY <1>15, <2>1
<1>16. CASE BotInsert(p)
  <2>1. UNCHANGED <<convs, rows, events, files, opened>>
    BY <1>16 DEF BotInsert
  <2> QED BY <1>16, <2>1
<1>17. CASE BotTouch(p)
  <2>1. UNCHANGED <<rows, events, msgs, files, opened>>
    BY <1>17 DEF BotTouch
  <2> QED BY <1>17, <2>1
<1>18. CASE BotUnread(p)
  <2>1. UNCHANGED <<convs, events, msgs, files, opened>>
    BY <1>18 DEF BotUnread
  <2> QED BY <1>18, <2>1
<1>19. CASE ReadZero(p)
  <2>1. UNCHANGED <<convs, events, msgs, files, opened>>
    BY <1>19 DEF ReadZero
  <2> QED BY <1>19, <2>1
<1>20. CASE ReadOwn(p)
  <2>1. UNCHANGED <<convs, events, msgs, files>>
    BY <1>20 DEF ReadOwn
  <2> QED BY <1>20, <2>1
<1>21. CASE ReadSeen(p)
  <2>1. UNCHANGED <<convs, rows, events, files, opened>>
    BY <1>21 DEF ReadSeen
  <2> QED BY <1>21, <2>1
<1>22. CASE InsertDraft(p)
  <2>1. UNCHANGED <<convs, rows, events, msgs, opened>>
    BY <1>22 DEF InsertDraft
  <2> QED BY <1>22, <2>1
<1>23. CASE SaveUploaded(p)
  <2>1. UNCHANGED <<convs, rows, events, msgs, opened>>
    BY <1>23 DEF SaveUploaded
  <2> QED BY <1>23, <2>1
<1>24. CASE \/ RequireActiveParticipant(p) \/ RequireAdminOrOwner(p) \/ FindShared(p)
            \/ CheckConversation(p) \/ AddFindExisting(p) \/ RestoreRead(p) \/ CheckFile(p)
            \/ Stamp(p) \/ BotAnswer(p) \/ ReadLatest(p) \/ ReadOthers(p) \/ FindFile(p)
  <2>1. UNCHANGED <<store, opened>>
    <3>1. RequireActiveParticipant(p) \/ RequireAdminOrOwner(p) => UNCHANGED <<store, opened>>
      BY Zenon DEF RequireActiveParticipant, RequireAdminOrOwner
    <3>2. FindShared(p) \/ CheckConversation(p) \/ AddFindExisting(p) => UNCHANGED <<store, opened>>
      BY Zenon DEF FindShared, CheckConversation, AddFindExisting
    <3>3. RestoreRead(p) \/ CheckFile(p) \/ Stamp(p) \/ BotAnswer(p) => UNCHANGED <<store, opened>>
      BY Zenon DEF RestoreRead, CheckFile, Stamp, BotAnswer
    <3>4. ReadLatest(p) \/ ReadOthers(p) \/ FindFile(p) => UNCHANGED <<store, opened>>
      BY Zenon DEF ReadLatest, ReadOthers, FindFile
    <3> QED BY <1>24, <3>1, <3>2, <3>3, <3>4
  <2> QED BY <1>0, <2>1
<1> QED BY <1>1, <1>2, <1>3, <1>4, <1>5, <1>6, <1>7, <1>8, <1>9, <1>10, <1>11, <1>12, <1>13,
           <1>14, <1>15, <1>16, <1>17, <1>18, <1>19, <1>20, <1>21, <1>22, <1>23, <1>24
    DEF Step, MembershipStep, MessageStep, AttachmentStep

\* The last await of addMember, removeMember and leaveConversation.
LEMMA EventSteps ==
    ASSUME NEW p, Step(p), call[p].pc = "event"
    PROVE  AddEvent(p) \/ RemoveEvent(p) \/ LeaveEvent(p)
<1> USE DEF At
<1>1. CASE MembershipStep(p)
  BY <1>1 DEF MembershipStep, RequireActiveParticipant, RequireAdminOrOwner, FindShared,
     CheckConversation, InsertConversation, InsertRow, InsertEvent, AddFindExisting, AddInsertRow,
     RemoveUpdate, LeaveUpdate
<1>2. ~MessageStep(p)
  BY DEF MessageStep, RestoreRead, RestoreRow, CheckFile, Stamp, InsertMessage, SaveFile,
     TouchConversation, OwnRow, IncrementUnread, BotAnswer, BotInsert, BotTouch, BotUnread,
     ReadLatest, ReadZero, ReadOwn, ReadOthers, ReadSeen
<1>3. ~AttachmentStep(p)
  BY DEF AttachmentStep, InsertDraft, FindFile, SaveUploaded
<1> QED BY <1>1, <1>2, <1>3 DEF Step

\* A step is one of a handler, or changes nothing but the clock.
LEMMA Turns ==
    ASSUME [Next]_vars
    PROVE  \/ UNCHANGED <<store, call, opened, failures, overlap>>
           \/ \E p \in Procs : Request(p) \/ Step(p) \/ Fail(p)
BY DEF Next, Tick, Finished, vars, world

\* A handler that fails has written what it has written.
LEMMA FailReturns ==
    ASSUME IInv, NEW p \in Procs, Fail(p)
    PROVE  /\ call[p] # Idle /\ call'[p] = Idle /\ call' = [call EXCEPT ![p] = call'[p]]
           /\ failures' = failures + 1 /\ UNCHANGED <<store, overlap, opened>>
<1>1. call \in [Procs -> Call]
  BY DEF IInv, TypeOK
<1> QED BY <1>1 DEF Fail, Return

\* What happens to the rows and to the history: a row is added as an active one, is restored, is
\* ended by removeMember or leaveConversation, or keeps its status.
RowKept(i) ==
    /\ i \in DOMAIN rows /\ rows'[i].status = rows[i].status /\ rows'[i].conv = rows[i].conv
    /\ rows'[i].user = rows[i].user

\* Rows that are written by sends and reads keep their status.
LEMMA RowsMove ==
    ASSUME IInv, NEW p \in Procs, Step(p), ~RemoveUpdate(p), ~LeaveUpdate(p),
           NEW i \in DOMAIN rows'
    PROVE  RowKept(i) \/ rows'[i].status = "active"
<1>0. rows \in Seq(Participant) /\ call[p] \in Call /\ Known(call[p], convs, rows)
  BY CallTyped DEF IInv, TypeOK
<1>1. CASE UNCHANGED rows
  BY <1>1 DEF RowKept
<1>2. ASSUME NEW d, rows' = Append(rows, d), d.status = "active" PROVE RowKept(i) \/ rows'[i].status = "active"
  BY <1>0, <1>2 DEF RowKept
<1>3. CASE InsertRow(p) \/ AddInsertRow(p)
  BY <1>2, <1>3 DEF InsertRow, AddInsertRow, NewRow
<1>4. CASE RestoreRow(p)
  <2>1. PICK j \in call[p].ids : rows' = [rows EXCEPT ![j].status = "active"]
    BY <1>4 DEF RestoreRow
  <2>2. i \in DOMAIN rows /\ rows[i] \in Participant
    BY <1>0, <2>1
  <2> QED BY <2>1, <2>2 DEF RowKept, Participant
<1>5. ASSUME NEW j, NEW m, \/ rows' = [rows EXCEPT ![j].lastRead = m, ![j].unread = 0]
                          \/ rows' = [rows EXCEPT ![j].unread = 0]
      PROVE  RowKept(i)
  <2>1. i \in DOMAIN rows /\ rows[i] \in Participant
    BY <1>0, <1>5
  <2>2. j # i => rows'[i] = rows[i]
    BY <1>5, <2>1
  <2>3. j = i => rows'[i] \in {[rows[i] EXCEPT !.lastRead = m, !.unread = 0],
                               [rows[i] EXCEPT !.unread = 0]}
    BY <1>0, <1>5, <2>1 DEF Participant
  <2> QED BY <2>1, <2>2, <2>3 DEF RowKept, Participant
<1>6. CASE OwnRow(p) \/ ReadZero(p) \/ ReadOwn(p)
  BY <1>5, <1>6 DEF OwnRow, ReadZero, ReadOwn
<1>7. ASSUME NEW k, NEW u, rows' = IncrementOthers(k, u) PROVE RowKept(i)
  <2>1. i \in DOMAIN rows /\ rows[i] \in Participant
    BY <1>0, <1>7 DEF IncrementOthers
  <2>2. rows'[i] \in {rows[i], [rows[i] EXCEPT !.unread = @ + 1]}
    BY <1>7, <2>1 DEF IncrementOthers
  <2> QED BY <2>1, <2>2 DEF RowKept, Participant
<1>8. CASE IncrementUnread(p) \/ BotUnread(p)
  BY <1>7, <1>8 DEF IncrementUnread, BotUnread
<1> QED BY <1>1, <1>3, <1>4, <1>6, <1>8, Writers

\* The history is only appended to.
LEMMA EventsMove ==
    ASSUME IInv, NEW p \in Procs, Step(p)
    PROVE  \A k \in DOMAIN events : k \in DOMAIN events' /\ events'[k] = events[k]
<1>1. events \in Seq(MembershipEvent)
  BY DEF IInv, TypeOK
<1>2. ASSUME NEW e, events' = Append(events, e)
      PROVE  \A k \in DOMAIN events : k \in DOMAIN events' /\ events'[k] = events[k]
  BY <1>1, <1>2
<1>3. CASE InsertEvent(p)
  BY <1>2, <1>3 DEF InsertEvent
<1>4. CASE AddEvent(p) \/ RemoveEvent(p) \/ LeaveEvent(p)
  BY <1>2, <1>4 DEF AddEvent, RemoveEvent, LeaveEvent
<1> QED BY <1>3, <1>4, Writers

-----------------------------------------------------------------------------
(* Absences are explained. *)

\* The event in the history, or the handler that is about to write it.
Explained(i) ==
    \/ rows[i].status = "active"
    \/ \E k \in DOMAIN events : /\ events[k].conv = rows[i].conv
                                /\ events[k].target = rows[i].user
                                /\ events[k].type = rows[i].status
    \/ \E q \in Procs : /\ call[q].op = IF rows[i].status = "left" THEN "leave" ELSE "remove"
                        /\ call[q].pc = "event" /\ call[q].conv = rows[i].conv
                        /\ call[q].peer = rows[i].user

AbsenceInv == failures = 0 => \A i \in DOMAIN rows : Explained(i)

\* Every step keeps an explanation for every row that is not active.
LEMMA AbsenceStep == IInv /\ AbsenceInv /\ [Next]_vars => AbsenceInv'
<1> SUFFICES ASSUME IInv, AbsenceInv, [Next]_vars PROVE AbsenceInv'
  OBVIOUS
<1>0. /\ rows \in Seq(Participant) /\ events \in Seq(MembershipEvent)
      /\ call \in [Procs -> Call] /\ failures \in Nat
  BY DEF IInv, TypeOK
<1>1. CASE UNCHANGED <<store, call, opened, failures, overlap>>
  BY <1>1 DEF AbsenceInv, Explained, store
<1>2. ASSUME NEW p \in Procs, Request(p) PROVE AbsenceInv'
  <2>1. /\ UNCHANGED <<rows, events, failures>> /\ call[p] = Idle
        /\ \A q \in Procs \ {p} : call'[q] = call[q]
    BY <1>0, <1>2, RequestStarts DEF store
  <2> QED BY <2>1 DEF AbsenceInv, Explained, Idle
<1>3. ASSUME NEW p \in Procs, Fail(p) PROVE AbsenceInv'
  <2>1. failures' # 0
    BY <1>0, <1>3, FailReturns
  <2> QED BY <2>1 DEF AbsenceInv
<1>4. ASSUME NEW p \in Procs, Step(p) PROVE AbsenceInv'
  <2> SUFFICES ASSUME failures = 0, NEW i \in DOMAIN rows' PROVE Explained(i)'
    BY <1>4, StepContinues DEF AbsenceInv, world
  <2>1. /\ \A q \in Procs \ {p} : call'[q] = call[q]
        /\ call'[p] = Idle \/ Continues(call[p], call'[p])
    BY <1>0, <1>4, StepContinues
  <2>2. \A k \in DOMAIN events : k \in DOMAIN events' /\ events'[k] = events[k]
    BY <1>4, EventsMove
  <2>3. \A j \in DOMAIN rows : Explained(j)
    BY DEF AbsenceInv
  <2>4. ASSUME RowKept(i), call[p].pc # "event" PROVE Explained(i)'
    <3>1. Explained(i)
      BY <2>3, <2>4 DEF RowKept
    <3> QED BY <2>1, <2>2, <2>4, <3>1 DEF RowKept, Explained
  <2>5. ASSUME NEW status \in {"left", "removed"}, UpdateStatus(p, status), call[p].pc = "update",
               call[p].op = IF status = "left" THEN "leave" ELSE "remove"
        PROVE  Explained(i)'
    <3>1. call'[p] = [call[p] EXCEPT !.pc = "event"] /\ call[p] \in Call
      BY <1>0, <2>5 DEF UpdateStatus, Goto
    <3>2. /\ call'[p].pc = "event" /\ call'[p].op = call[p].op /\ call'[p].conv = call[p].conv
          /\ call'[p].peer = call[p].peer
      BY <3>1 DEF Call
    <3>3. CASE UNCHANGED rows
      BY <2>4, <2>5, <3>3 DEF RowKept
    <3>4. ASSUME NEW j \in ActiveRows(call[p].conv, call[p].peer),
                 rows' = [rows EXCEPT ![j].status = status]
          PROVE  Explained(i)'
      <4>1. i \in DOMAIN rows /\ rows[i] \in Participant
        BY <1>0, <3>4
      <4>2. CASE i = j
        <5>1. /\ rows'[i].status = status /\ rows'[i].conv = call[p].conv
              /\ rows'[i].user = call[p].peer
          BY <3>4, <4>1, <4>2 DEF ActiveRows, Participant
        <5> QED BY <2>5, <3>2, <5>1 DEF Explained
      <4>3. CASE i # j
        BY <2>4, <2>5, <3>4, <4>1, <4>3 DEF RowKept
      <4> QED BY <4>2, <4>3
    <3> QED BY <2>5, <3>3, <3>4 DEF UpdateStatus
  <2>6. CASE RemoveUpdate(p)
    BY <2>5, <2>6 DEF RemoveUpdate, At
  <2>7. CASE LeaveUpdate(p)
    BY <2>5, <2>7 DEF LeaveUpdate, At
  <2>8. ASSUME ~RemoveUpdate(p), ~LeaveUpdate(p), call[p].pc # "event" PROVE Explained(i)'
    BY <1>4, <2>4, <2>8, RowsMove DEF Explained
  <2>9. ASSUME NEW type \in {"added", "left", "removed"}, NEW actor, UNCHANGED rows,
               events' = Append(events, NewEvent(call[p].conv, type, call[p].peer, actor)),
               type = "left" => call[p].op = "leave", type = "removed" => call[p].op = "remove",
               type = "added" => call[p].op = "add"
        PROVE  Explained(i)'
    <3>1. Explained(i)
      BY <2>3, <2>9
    <3>2. PICK e : e = NewEvent(call[p].conv, type, call[p].peer, actor)
      OBVIOUS
    <3>3. e.conv = call[p].conv /\ e.type = type /\ e.target = call[p].peer
      BY <3>2 DEF NewEvent
    <3>4. Len(events) + 1 \in DOMAIN events' /\ events'[Len(events) + 1] = e
      BY <1>0, <2>9, <3>2
    <3>5. CASE \E q \in Procs \ {p} :
                  /\ call[q].op = IF rows[i].status = "left" THEN "leave" ELSE "remove"
                  /\ call[q].pc = "event" /\ call[q].conv = rows[i].conv
                  /\ call[q].peer = rows[i].user
      BY <2>1, <2>9, <3>5 DEF Explained
    <3>6. CASE /\ call[p].op = IF rows[i].status = "left" THEN "leave" ELSE "remove"
               /\ call[p].pc = "event" /\ call[p].conv = rows[i].conv
               /\ call[p].peer = rows[i].user /\ rows[i].status # "active"
      <4>1. rows[i].status = type
        <5>1. rows[i].status \in {"active", "left", "removed"}
          <6>1. rows[i] \in Participant
            BY <1>0, <2>9
          <6> QED BY <6>1 DEF Participant
        <5> QED BY <2>9, <3>6, <5>1
      <4> QED BY <2>9, <3>3, <3>4, <3>6, <4>1 DEF Explained
    <3>7. CASE \/ rows[i].status = "active"
               \/ \E k \in DOMAIN events : /\ events[k].conv = rows[i].conv
                                           /\ events[k].target = rows[i].user
                                           /\ events[k].type = rows[i].status
      BY <2>2, <2>9, <3>7 DEF Explained
    <3> QED BY <3>1, <3>5, <3>6, <3>7 DEF Explained
  <2>10. CASE AddEvent(p) \/ RemoveEvent(p) \/ LeaveEvent(p)
    BY <2>9, <2>10 DEF AddEvent, RemoveEvent, LeaveEvent, At
  <2>11. call[p].pc = "event" => AddEvent(p) \/ RemoveEvent(p) \/ LeaveEvent(p)
    BY <1>4, EventSteps
  <2> QED BY <2>6, <2>7, <2>8, <2>10, <2>11
<1> QED BY <1>1, <1>2, <1>3, <1>4, Turns

\* When no handler failed and none is in flight, every row that is not active is explained by an
\* event of its kind: leaves, removals and restorations that overlap leave no other absence.
THEOREM AbsencesAreExplained == Spec => []AbsenceExplained
<1>1. Init => AbsenceInv
  <2> SUFFICES ASSUME Init, NEW i \in DOMAIN rows PROVE rows[i].status = "active"
    BY DEF AbsenceInv, Explained
  <2> QED BY DEF Init, Seed
<1>2. AbsenceInv /\ IInv => AbsenceExplained
  <2> SUFFICES ASSUME AbsenceInv, failures = 0, Quiescent, NEW i \in DOMAIN rows,
                      rows[i].status # "active"
               PROVE  \E k \in DOMAIN events : /\ events[k].conv = rows[i].conv
                                              /\ events[k].target = rows[i].user
                                              /\ events[k].type = rows[i].status
    BY DEF AbsenceExplained
  <2>1. Explained(i)
    BY DEF AbsenceInv
  <2>2. \A q \in Procs : call[q].pc # "event"
    BY DEF Quiescent, Idle
  <2> QED BY <2>1, <2>2 DEF Explained
<1> QED BY <1>1, <1>2, AbsenceStep, Invariance, PTL DEF Spec

-----------------------------------------------------------------------------
(* Messages are seen by readers. *)

\* The steps of markConversationRead.
LEMMA ReadSteps ==
    ASSUME NEW p, Step(p), call[p].op = "read"
    PROVE  \/ RequireActiveParticipant(p)
           \/ ReadLatest(p) \/ ReadZero(p) \/ ReadOwn(p) \/ ReadOthers(p) \/ ReadSeen(p)
<1> USE DEF At
<1>1. CASE MembershipStep(p)
  BY <1>1 DEF MembershipStep, RequireAdminOrOwner, FindShared,
     CheckConversation, InsertConversation, InsertRow, InsertEvent, AddFindExisting, AddInsertRow,
     AddEvent, RemoveUpdate, RemoveEvent, LeaveUpdate, LeaveEvent
<1>2. CASE MessageStep(p)
  BY <1>2 DEF MessageStep, RestoreRead, RestoreRow, CheckFile, Stamp, InsertMessage, SaveFile,
     TouchConversation, OwnRow, IncrementUnread, BotAnswer, BotInsert, BotTouch, BotUnread
<1>3. ~AttachmentStep(p)
  BY DEF AttachmentStep, InsertDraft, FindFile, SaveUploaded
<1> QED BY <1>1, <1>2, <1>3 DEF Step

\* A reader that is past its own row has recorded the read, and marks no message of its own.
ReaderOK(c, reads) ==
    /\ c.op = "read" /\ c.pc \in {"others", "seen"} =>
          [conv |-> c.conv, user |-> c.user, at |-> c.at] \in reads
    /\ c.op = "read" /\ c.pc = "seen" => c.user \notin c.todo

ReadersOK == \A q \in Procs : ReaderOK(call[q], opened)

SeenInv == ReadersOK /\ SeenWasRead

\* Readers record their reads before they mark messages.
LEMMA ReadersStep ==
    ASSUME IInv, ReadersOK, NEW p \in Procs, Step(p)
    PROVE  ReadersOK' /\ opened \subseteq opened'
<1>0. call \in [Procs -> Call] /\ call[p] \in Call
  BY DEF IInv, TypeOK
<1>1. opened \subseteq opened'
  BY Writers DEF ReadOwn
<1>2. /\ \A q \in Procs \ {p} : call'[q] = call[q]
      /\ call'[p] = Idle \/ Continues(call[p], call'[p])
  BY <1>0, StepContinues
<1>3. ReaderOK(call'[p], opened')
  <2>1. CASE call'[p] = Idle \/ call[p].op # "read"
    BY <1>2, <2>1 DEF ReaderOK, Idle, Continues
  <2>2. CASE Continues(call[p], call'[p]) /\ call[p].op = "read"
    <3>1. CASE ReadOwn(p)
      <4>1. /\ call'[p] = [call[p] EXCEPT !.pc = "others"]
            /\ [conv |-> call[p].conv, user |-> call[p].user, at |-> call[p].at] \in opened'
        BY <1>0, <3>1 DEF ReadOwn, Goto
      <4> QED BY <1>0, <4>1 DEF ReaderOK, Call
    <3>2. CASE ReadOthers(p)
      <4>1. call[p].op = "read" /\ call[p].pc = "others"
        BY <3>2, Zenon DEF ReadOthers, At
      <4>2. ~Return(p)
        BY <1>0, <2>2 DEF Return, Continues, Idle
      <4>3. PICK todo : call' = [call EXCEPT ![p].todo = todo, ![p].pc = "seen"]
                          /\ todo = ActiveUsers(call[p].conv) \ {call[p].user}
        BY <3>2, <4>2, Zenon DEF ReadOthers
      <4>4. call[p].user \notin todo
        BY <4>3
      <4>5. call'[p] = [call[p] EXCEPT !.todo = todo, !.pc = "seen"]
        BY <1>0, <4>3 DEF Call
      <4>6. [conv |-> call[p].conv, user |-> call[p].user, at |-> call[p].at] \in opened
        BY <4>1 DEF ReadersOK, ReaderOK
      <4> QED BY <1>0, <1>1, <4>4, <4>5, <4>6 DEF ReaderOK, Call
    <3>3. CASE ~ReadOwn(p) /\ ~ReadOthers(p)
      <4>1. /\ RequireActiveParticipant(p) => call[p].pc = "guard"
            /\ ReadLatest(p) => call[p].pc = "latest"
            /\ ReadZero(p) => call[p].pc = "zero"
            /\ ReadSeen(p) => call[p].pc = "seen"
        BY Zenon DEF RequireActiveParticipant, ReadLatest, ReadZero, ReadSeen, At
      <4>2. call[p].pc \in {"guard", "latest", "zero", "seen"}
        BY <2>2, <3>3, <4>1, ReadSteps
      <4> QED BY <2>2, <4>2 DEF Continues, Follows, ReaderOK
    <3> QED BY <3>1, <3>2, <3>3
  <2> QED BY <1>2, <2>1, <2>2
<1> QED BY <1>1, <1>2, <1>3 DEF ReadersOK, ReaderOK

\* Messages are inserted unseen, and marked by readers only.
LEMMA SeenStep == IInv /\ SeenInv /\ [Next]_vars => SeenInv'
<1> SUFFICES ASSUME IInv, SeenInv, [Next]_vars PROVE SeenInv'
  OBVIOUS
<1>0. call \in [Procs -> Call] /\ msgs \in Seq(Message)
  BY DEF IInv, TypeOK
<1>1. CASE UNCHANGED <<store, call, opened, failures, overlap>>
  BY <1>1 DEF SeenInv, ReadersOK, SeenWasRead, store
<1>2. ASSUME NEW p \in Procs, UNCHANGED <<msgs, opened>>, call' = [call EXCEPT ![p] = call'[p]],
             call'[p] = Idle \/ call'[p].pc \in {"guard", "insert", "find"}
      PROVE  SeenInv'
  <2>1. \A q \in Procs \ {p} : call'[q] = call[q]
    BY <1>0, <1>2
  <2>2. ReaderOK(call'[p], opened)
    BY <1>2 DEF ReaderOK, Idle
  <2> QED BY <1>2, <2>1, <2>2 DEF SeenInv, ReadersOK, SeenWasRead
<1>3. ASSUME NEW p \in Procs, Request(p) \/ Fail(p) PROVE SeenInv'
  BY <1>2, <1>3, RequestStarts, FailReturns DEF store
<1>4. ASSUME NEW p \in Procs, Step(p) PROVE SeenInv'
  <2>1. ReadersOK' /\ opened \subseteq opened'
    BY <1>4, ReadersStep DEF SeenInv
  <2>2. ASSUME \A m \in DOMAIN msgs' : ~msgs'[m].seen \/ (m \in DOMAIN msgs /\ msgs'[m] = msgs[m])
        PROVE  SeenWasRead'
    BY <2>1, <2>2 DEF SeenInv, SeenWasRead
  <2>3. ASSUME NEW d, msgs' = Append(msgs, d), d.seen = FALSE PROVE SeenWasRead'
    BY <1>0, <2>2, <2>3
  <2>4. ASSUME UNCHANGED msgs PROVE SeenWasRead'
    BY <2>1, <2>4 DEF SeenInv, SeenWasRead
  <2>5. ASSUME InsertMessage(p) \/ BotInsert(p) PROVE SeenWasRead'
    BY <2>3, <2>5 DEF InsertMessage, BotInsert, NewMessage
  <2>6. ASSUME ReadSeen(p) PROVE SeenWasRead'
    <3> DEFINE b == call[p]
    <3>1. b.op = "read" /\ b.pc = "seen" /\ msgs' = SeenUpTo(b)
      BY <2>6 DEF ReadSeen, At
    <3>2. [conv |-> b.conv, user |-> b.user, at |-> b.at] \in opened /\ b.user \notin b.todo
      BY <3>1 DEF SeenInv, ReadersOK, ReaderOK
    <3>3. SUFFICES ASSUME NEW m \in DOMAIN msgs', msgs'[m].seen
          PROVE  \E r \in opened : /\ r.conv = msgs'[m].conv /\ r.user # msgs'[m].sender
                                  /\ r.at >= msgs'[m].sentAt
      BY <2>1 DEF SeenWasRead
    <3>4. m \in DOMAIN msgs /\ msgs[m] \in Message /\ b.at \in Nat
      BY <1>0, <3>1 DEF SeenUpTo, Call
    <3>5. CASE msgs'[m] = msgs[m]
      BY <3>3, <3>4, <3>5 DEF SeenInv, SeenWasRead
    <3>6. CASE /\ msgs'[m] = [msgs[m] EXCEPT !.seen = TRUE]
               /\ msgs[m].conv = b.conv /\ msgs[m].sender \in b.todo /\ msgs[m].sentAt <= b.at
      <4>1. msgs'[m].conv = b.conv /\ msgs'[m].sender \in b.todo /\ msgs'[m].sentAt <= b.at
            /\ msgs'[m].sentAt \in Nat
        BY <3>4, <3>6 DEF Message
      <4>2. PICK r \in opened : r = [conv |-> b.conv, user |-> b.user, at |-> b.at]
        BY <3>2
      <4>3. r.conv = b.conv /\ r.user = b.user /\ r.at = b.at
        BY <4>2
      <4>4. r.user # msgs'[m].sender /\ r.at >= msgs'[m].sentAt
        BY <3>2, <3>4, <4>1, <4>3
      <4> QED BY <4>1, <4>3, <4>4
    <3>7. QED BY <3>1, <3>4, <3>5, <3>6 DEF SeenUpTo
  <2> QED BY <1>4, <2>1, <2>4, <2>5, <2>6, Writers DEF SeenInv
<1> QED BY <1>1, <1>3, <1>4, Turns

\* A message is seen only if a user other than its sender recorded a read of a message at least
\* as recent, whatever was sent between the look-up of markConversationRead and its updates.
THEOREM SeenByReaders == Spec => []SeenWasRead
<1>1. Init => SeenInv
  BY DEF Init, SeenInv, ReadersOK, ReaderOK, SeenWasRead, Idle
<1>2. SeenInv => SeenWasRead
  BY DEF SeenInv
<1> QED BY <1>1, <1>2, SeenStep, Invariance, PTL DEF Spec

-----------------------------------------------------------------------------
(* Attachments: what a file and a message say of each other.                *)

\* What identifies files and messages stays, and no file becomes a draft again.
FilesGrow(fs, ms, fs2, ms2) ==
    /\ \A f \in DOMAIN fs : /\ f \in DOMAIN fs2
                            /\ fs2[f].conv = fs[f].conv /\ fs2[f].uploader = fs[f].uploader
                            /\ fs[f].status # "draft" => fs2[f].status # "draft"
    /\ \A m \in DOMAIN ms : /\ m \in DOMAIN ms2 /\ ms2[m].file = ms[m].file
                            /\ ms2[m].conv = ms[m].conv /\ ms2[m].sender = ms[m].sender

\* The file fs[f] may be carried by a message of u in the conversation c.
Checked(fs, f, c, u) ==
    f \in DOMAIN fs /\ fs[f].conv = c /\ fs[f].uploader = u /\ fs[f].status # "draft"

\* What the handler c has learnt of the file it names and of the message it wrote.
HolderOK(c, fs, ms) ==
    /\ c.op \in {"send", "confirm"} => c.file = 0 \/ c.file \in DOMAIN fs
    /\ c.op = "confirm" => c.file \in DOMAIN fs
    /\ c.op = "send" /\ c.pc = "file" => c.file # 0
    /\ c.op = "send" /\ c.pc \in {"stamp", "insert", "saveFile"} /\ c.file # 0 =>
          Checked(fs, c.file, c.conv, c.user)
    /\ c.op = "send" /\ c.pc = "saveFile" =>
          c.file # 0 /\ c.msg \in DOMAIN ms /\ ms[c.msg].file = c.file

Carried(fs, ms) ==
    \A m \in DOMAIN ms : ms[m].file # 0 => Checked(fs, ms[m].file, ms[m].conv, ms[m].sender)

LedBack(fs, ms) ==
    \A f \in DOMAIN fs : fs[f].msg # 0 => fs[f].msg \in DOMAIN ms /\ ms[fs[f].msg].file = f

FileInv ==
    Carried(files, msgs) /\ LedBack(files, msgs) /\ \A q \in Procs : HolderOK(call[q], files, msgs)

\* What a handler has learnt of a file stays true while others write.
LEMMA HolderIsStable ==
    ASSUME NEW c, NEW fs, NEW ms, NEW fs2, NEW ms2, FilesGrow(fs, ms, fs2, ms2), HolderOK(c, fs, ms)
    PROVE  HolderOK(c, fs2, ms2)
BY DEF HolderOK, Checked, FilesGrow

\* A message that is written keeps what it carries: only "seen" changes.
LEMMA MessagesMove ==
    ASSUME IInv, NEW p \in Procs, Step(p), NEW m \in DOMAIN msgs
    PROVE  /\ m \in DOMAIN msgs' /\ msgs'[m].file = msgs[m].file
           /\ msgs'[m].conv = msgs[m].conv /\ msgs'[m].sender = msgs[m].sender
           /\ msgs'[m].sentAt = msgs[m].sentAt
<1>0. msgs \in Seq(Message) /\ msgs[m] \in Message
  BY DEF IInv, TypeOK
<1>1. CASE UNCHANGED msgs
  BY <1>1
<1>2. ASSUME NEW d, msgs' = Append(msgs, d) PROVE m \in DOMAIN msgs' /\ msgs'[m] = msgs[m]
  BY <1>0, <1>2
<1>3. CASE InsertMessage(p) \/ BotInsert(p)
  BY <1>2, <1>3 DEF InsertMessage, BotInsert
<1>4. CASE ReadSeen(p)
  <2>1. msgs' = SeenUpTo(call[p])
    BY <1>4 DEF ReadSeen
  <2>2. m \in DOMAIN msgs' /\ msgs'[m] \in {msgs[m], [msgs[m] EXCEPT !.seen = TRUE]}
    BY <2>1 DEF SeenUpTo
  <2> QED BY <1>0, <2>2 DEF Message
<1> QED BY <1>1, <1>3, <1>4, Writers

\* A file that is written keeps its conversation and its uploader, and never becomes a draft.
LEMMA FilesMove ==
    ASSUME IInv, FileInv, NEW p \in Procs, Step(p), NEW f \in DOMAIN files
    PROVE  /\ f \in DOMAIN files' /\ files'[f].conv = files[f].conv
           /\ files'[f].uploader = files[f].uploader
           /\ files[f].status # "draft" => files'[f].status # "draft"
<1>0. files \in Seq(Attachment) /\ files[f] \in Attachment
  BY DEF IInv, TypeOK
<1>1. CASE UNCHANGED files
  BY <1>1
<1>2. CASE InsertDraft(p)
  <2>1. PICK d : files' = Append(files, d)
    BY <1>2 DEF InsertDraft
  <2> QED BY <1>0, <2>1
<1>3. CASE SaveFile(p)
  <2>1. PICK g, m : files' = [files EXCEPT ![g].msg = m, ![g].status = "attached"]
    BY <1>3 DEF SaveFile
  <2>2. /\ f \in DOMAIN files'
        /\ files'[f] \in {files[f], [files[f] EXCEPT !.msg = m, !.status = "attached"]}
    BY <1>0, <2>1 DEF Attachment
  <2> QED BY <1>0, <2>2 DEF Attachment
<1>4. CASE SaveUploaded(p)
  <2>1. files' = [files EXCEPT ![call[p].file].status = IF call[p].flag THEN "uploaded" ELSE @]
    BY <1>4 DEF SaveUploaded
  <2>2. /\ f \in DOMAIN files'
        /\ files'[f] \in {files[f], [files[f] EXCEPT !.status = "uploaded"]}
    BY <1>0, <2>1 DEF Attachment
  <2> QED BY <1>0, <2>2 DEF Attachment
<1> QED BY <1>1, <1>2, <1>3, <1>4, Writers

\* The steps of sendMessage, after its access check.
LEMMA SendSteps ==
    ASSUME NEW p, Step(p), call[p].op = "send"
    PROVE  /\ call[p].pc = "restore" => RestoreRead(p)
           /\ call[p].pc = "restoreRow" => RestoreRow(p)
           /\ call[p].pc = "file" => CheckFile(p)
           /\ call[p].pc = "stamp" => Stamp(p)
           /\ call[p].pc = "insert" => InsertMessage(p)
           /\ call[p].pc = "saveFile" => SaveFile(p)
           /\ call[p].pc = "touch" => TouchConversation(p)
           /\ call[p].pc = "own" => OwnRow(p)
           /\ call[p].pc = "unread" => IncrementUnread(p)
           /\ call[p].pc = "bot" => BotAnswer(p)
           /\ call[p].pc = "botInsert" => BotInsert(p)
           /\ call[p].pc = "botTouch" => BotTouch(p)
           /\ call[p].pc = "botUnread" => BotUnread(p)
<1> USE DEF At
<1>1. CASE MembershipStep(p)
  <2>1. RequireActiveParticipant(p)
    BY <1>1 DEF MembershipStep, RequireAdminOrOwner, FindShared,
       CheckConversation, InsertConversation, InsertRow, InsertEvent, AddFindExisting, AddInsertRow,
       AddEvent, RemoveUpdate, RemoveEvent, LeaveUpdate, LeaveEvent
  <2> QED BY <2>1 DEF RequireActiveParticipant
<1>2. CASE MessageStep(p)
  <2>1. /\ RestoreRead(p) => call[p].pc = "restore"
        /\ RestoreRow(p) => call[p].pc = "restoreRow"
        /\ CheckFile(p) => call[p].pc = "file"
        /\ Stamp(p) => call[p].pc = "stamp"
        /\ InsertMessage(p) => call[p].pc = "insert"
        /\ SaveFile(p) => call[p].pc = "saveFile"
        /\ TouchConversation(p) => call[p].pc = "touch"
        /\ OwnRow(p) => call[p].pc = "own"
        /\ IncrementUnread(p) => call[p].pc = "unread"
    BY Zenon DEF RestoreRead, RestoreRow, CheckFile, Stamp, InsertMessage, SaveFile,
       TouchConversation, OwnRow, IncrementUnread
  <2>2. /\ BotAnswer(p) => call[p].pc = "bot"
        /\ BotInsert(p) => call[p].pc = "botInsert"
        /\ BotTouch(p) => call[p].pc = "botTouch"
        /\ BotUnread(p) => call[p].pc = "botUnread"
    BY Zenon DEF BotAnswer, BotInsert, BotTouch, BotUnread
  <2>3. ReadLatest(p) \/ ReadZero(p) \/ ReadOwn(p) \/ ReadOthers(p) \/ ReadSeen(p) =>
            call[p].op = "read"
    BY Zenon DEF ReadLatest, ReadZero, ReadOwn, ReadOthers, ReadSeen
  <2> QED BY <1>2, <2>1, <2>2, <2>3 DEF MessageStep
<1>3. ~AttachmentStep(p)
  BY DEF AttachmentStep, InsertDraft, FindFile, SaveUploaded
<1> QED BY <1>1, <1>2, <1>3 DEF Step

\* A send goes on with a file only after its checks, and keeps the id of the message it wrote.
LEMMA HolderStep ==
    ASSUME IInv, FileInv, NEW p \in Procs, Step(p)
    PROVE  HolderOK(call'[p], files', msgs')
<1> DEFINE b == call[p]
<1>0. call \in [Procs -> Call] /\ b \in Call /\ msgs \in Seq(Message) /\ files \in Seq(Attachment)
  BY CallTyped DEF IInv, TypeOK
<1>1. FilesGrow(files, msgs, files', msgs')
  BY FilesMove, MessagesMove DEF FilesGrow
<1>2. HolderOK(b, files, msgs) /\ HolderOK(b, files', msgs')
  BY <1>1, HolderIsStable DEF FileInv
<1>3. call'[p] = Idle \/ Continues(b, call'[p])
  BY StepContinues
<1>4. CASE call'[p] = Idle \/ b.op # "send"
  BY <1>2, <1>3, <1>4 DEF HolderOK, Idle, Continues
<1>5. ASSUME b.op = "send", Continues(b, call'[p]) PROVE HolderOK(call'[p], files', msgs')
  <2>1. b.pc \notin {"restore", "restoreRow", "file", "insert"} => HolderOK(call'[p], files', msgs')
    BY <1>2, <1>5 DEF HolderOK, Continues, Follows
  <2>2. ASSUME RestoreRead(p) \/ RestoreRow(p) PROVE HolderOK(call'[p], files', msgs')
    <3>1. PICK ids, next : /\ call' = [call EXCEPT ![p].ids = ids, ![p].pc = next]
                           /\ next \in {"restoreRow", AfterRestore(p)}
      BY <2>2, Zenon DEF RestoreRead, RestoreRow
    <3>2. call'[p].pc \in {"restoreRow", AfterRestore(p)}
      BY <1>0, <3>1 DEF Call
    <3> QED BY <1>2, <1>5, <3>2 DEF HolderOK, Continues, AfterRestore
  <2>3. ASSUME CheckFile(p) PROVE HolderOK(call'[p], files', msgs')
    <3>1. b.pc = "file" /\ UNCHANGED files
      BY <2>3 DEF CheckFile, At, store
    <3>2. ~Return(p)
      BY <1>0, <1>5 DEF Return, Continues, Idle
    <3>3. /\ files[b.file].conv = b.conv /\ files[b.file].uploader = b.user
          /\ files[b.file].status = "uploaded"
      BY <2>3, <3>2 DEF CheckFile
    <3>4. Checked(files', b.file, b.conv, b.user)
      BY <1>2, <1>5, <3>1, <3>3 DEF Checked, HolderOK
    <3>5. call'[p].pc = "stamp"
      BY <1>5, <3>1 DEF Continues, Follows
    <3> QED BY <1>2, <1>5, <3>4, <3>5 DEF HolderOK, Continues
  <2>4. ASSUME InsertMessage(p) PROVE HolderOK(call'[p], files', msgs')
    <3>1. b.pc = "insert"
      BY <2>4 DEF InsertMessage, At
    <3>2. /\ msgs' = Append(msgs, NewMessage(b.conv, b.user, b.at, b.file))
          /\ call' = [call EXCEPT ![p].msg = Len(msgs) + 1,
                                  ![p].pc = IF b.file = 0 THEN "touch" ELSE "saveFile"]
      BY <2>4 DEF InsertMessage
    <3>3. call'[p].msg = Len(msgs) + 1 /\ call'[p].pc = IF b.file = 0 THEN "touch" ELSE "saveFile"
      BY <1>0, <3>2 DEF Call
    <3>4. Len(msgs) + 1 \in DOMAIN msgs' /\ msgs'[Len(msgs) + 1].file = b.file
      BY <1>0, <3>2 DEF NewMessage
    <3> QED BY <1>2, <1>5, <3>1, <3>3, <3>4 DEF HolderOK, Continues
  <2> QED BY <1>5, <2>1, <2>2, <2>3, <2>4, SendSteps
<1> QED BY <1>3, <1>4, <1>5

\* A message is written with a file that was checked for it.
LEMMA CarriedStep ==
    ASSUME IInv, FileInv, NEW p \in Procs, Step(p)
    PROVE  Carried(files', msgs')
<1>0. msgs \in Seq(Message)
  BY DEF IInv, TypeOK
<1>1. \A m \in DOMAIN msgs : msgs[m].file # 0 =>
          Checked(files', msgs[m].file, msgs[m].conv, msgs[m].sender)
  BY FilesMove DEF FileInv, Carried, Checked
<1>2. ASSUME NEW m \in DOMAIN msgs, m \in DOMAIN msgs', msgs'[m].file # 0
      PROVE  Checked(files', msgs'[m].file, msgs'[m].conv, msgs'[m].sender)
  BY <1>1, <1>2, MessagesMove
<1>3. ASSUME NEW d, msgs' = Append(msgs, d), d.file # 0 => Checked(files', d.file, d.conv, d.sender)
      PROVE  Carried(files', msgs')
  <2> SUFFICES ASSUME NEW m \in DOMAIN msgs', msgs'[m].file # 0
               PROVE  Checked(files', msgs'[m].file, msgs'[m].conv, msgs'[m].sender)
    BY DEF Carried
  <2>1. m \in DOMAIN msgs \/ msgs'[m] = d
    BY <1>0, <1>3
  <2> QED BY <1>2, <1>3, <2>1
<1>4. ASSUME DOMAIN msgs' = DOMAIN msgs PROVE Carried(files', msgs')
  BY <1>2, <1>4 DEF Carried
<1>5. CASE UNCHANGED msgs
  BY <1>4, <1>5
<1>6. CASE ReadSeen(p)
  <2>1. DOMAIN msgs' = DOMAIN msgs
    BY <1>6 DEF ReadSeen, SeenUpTo
  <2> QED BY <1>4, <2>1
<1>7. CASE BotInsert(p)
  BY <1>3, <1>7 DEF BotInsert, NewMessage
<1>8. CASE InsertMessage(p)
  <2> DEFINE b == call[p]
  <2>1. /\ msgs' = Append(msgs, NewMessage(b.conv, b.user, b.at, b.file)) /\ UNCHANGED files
        /\ b.op = "send" /\ b.pc = "insert"
    BY <1>8 DEF InsertMessage, At
  <2>2. b.file # 0 => Checked(files', b.file, b.conv, b.user)
    BY <2>1 DEF FileInv, HolderOK
  <2> QED BY <1>3, <2>1, <2>2 DEF NewMessage
<1> QED BY <1>5, <1>6, <1>7, <1>8, Writers

\* A file is given the id of the message that was written with it.
LEMMA LedBackStep ==
    ASSUME IInv, FileInv, NEW p \in Procs, Step(p)
    PROVE  LedBack(files', msgs')
<1> DEFINE b == call[p]
<1>0. files \in Seq(Attachment) /\ b \in Call
  BY CallTyped DEF IInv, TypeOK
<1>1. \A f \in DOMAIN files : files[f].msg # 0 =>
          files[f].msg \in DOMAIN msgs' /\ msgs'[files[f].msg].file = f
  BY MessagesMove DEF FileInv, LedBack
<1>2. ASSUME \A f \in DOMAIN files' :
                \/ f \in DOMAIN files /\ files'[f].msg = files[f].msg
                \/ files'[f].msg = 0
      PROVE  LedBack(files', msgs')
  BY <1>1, <1>2 DEF LedBack
<1>3. CASE UNCHANGED files
  BY <1>2, <1>3
<1>4. CASE InsertDraft(p)
  <2>1. PICK d : files' = Append(files, d) /\ d.msg = 0
    BY <1>4 DEF InsertDraft
  <2>2. \A f \in DOMAIN files' : \/ f \in DOMAIN files /\ files'[f] = files[f]
                                 \/ files'[f] = d
    BY <1>0, <2>1
  <2> QED BY <1>2, <2>1, <2>2
<1>5. CASE SaveUploaded(p)
  <2>1. files' = [files EXCEPT ![b.file].status = IF b.flag THEN "uploaded" ELSE @]
    BY <1>5 DEF SaveUploaded
  <2>2. \A f \in DOMAIN files' : f \in DOMAIN files /\ files'[f].msg = files[f].msg
    BY <1>0, <2>1 DEF Attachment
  <2> QED BY <1>2, <2>2
<1>6. CASE SaveFile(p)
  <2>1. /\ files' = [files EXCEPT ![b.file].msg = b.msg, ![b.file].status = "attached"]
        /\ UNCHANGED msgs /\ b.op = "send" /\ b.pc = "saveFile"
    BY <1>6 DEF SaveFile, At
  <2>2. b.file \in DOMAIN files /\ b.msg \in DOMAIN msgs /\ msgs[b.msg].file = b.file
    BY <2>1 DEF FileInv, HolderOK
  <2>3. \A f \in DOMAIN files' : f \in DOMAIN files
                                  /\ files'[f].msg = IF f = b.file THEN b.msg ELSE files[f].msg
    BY <1>0, <2>1, <2>2 DEF Attachment
  <2> QED BY <1>1, <2>1, <2>2, <2>3 DEF LedBack
<1> QED BY <1>3, <1>4, <1>5, <1>6, Writers

\* Files, messages and the handlers that hold them agree after every step.
LEMMA FileStep == IInv /\ FileInv /\ [Next]_vars => FileInv'
<1> SUFFICES ASSUME IInv, FileInv, [Next]_vars PROVE FileInv'
  OBVIOUS
<1>0. call \in [Procs -> Call] /\ files \in Seq(Attachment)
  BY DEF IInv, TypeOK
<1>1. CASE UNCHANGED <<store, call, opened, failures, overlap>>
  BY <1>1 DEF FileInv, store
<1>2. ASSUME NEW p \in Procs, UNCHANGED <<files, msgs>>, call' = [call EXCEPT ![p] = call'[p]],
             HolderOK(call'[p], files, msgs)
      PROVE  FileInv'
  <2>1. \A q \in Procs \ {p} : call'[q] = call[q]
    BY <1>0, <1>2
  <2>2. \A q \in Procs : HolderOK(call'[q], files, msgs)
    BY <1>2, <2>1 DEF FileInv
  <2> QED BY <1>2, <2>2 DEF FileInv
<1>3. ASSUME NEW p \in Procs, Fail(p) PROVE FileInv'
  <2>1. HolderOK(Idle, files, msgs)
    BY DEF HolderOK, Idle
  <2> QED BY <1>2, <1>3, <2>1, FailReturns DEF store
<1>4. ASSUME NEW p \in Procs, Request(p) PROVE FileInv'
  <2>1. \A f \in 0 .. Len(files) : f = 0 \/ f \in DOMAIN files
    BY <1>0
  <2>2. HolderOK(call'[p], files, msgs)
    BY <1>4, <2>1, RequestStarts DEF HolderOK
  <2> QED BY <1>2, <1>4, <2>2, RequestStarts DEF store
<1>5. ASSUME NEW p \in Procs, Step(p) PROVE FileInv'
  <2>1. FilesGrow(files, msgs, files', msgs')
    BY <1>5, FilesMove, MessagesMove DEF FilesGrow
  <2>2. \A q \in Procs \ {p} : call'[q] = call[q]
    BY <1>0, <1>5, StepContinues
  <2>3. \A q \in Procs : HolderOK(call'[q], files', msgs')
    BY <1>5, <2>1, <2>2, HolderStep, HolderIsStable DEF FileInv
  <2> QED BY <1>5, <2>3, CarriedStep, LedBackStep DEF FileInv
<1> QED BY <1>1, <1>3, <1>4, <1>5, Turns

\* A message carries only a file of its conversation that its sender uploaded and confirmed, and a
\* file's messageId leads to a message that carries it, whatever sends, confirmations and failures
\* overlap.
THEOREM AttachmentsAreSound == Spec => []AttachmentSound
<1>1. Init => FileInv
  <2> SUFFICES ASSUME Init PROVE FileInv
    OBVIOUS
  <2>1. \A q \in Procs : call[q] = Idle
    BY DEF Init
  <2>2. DOMAIN msgs = {} /\ DOMAIN files = {}
    BY DEF Init
  <2> QED BY <2>1, <2>2 DEF FileInv, Carried, LedBack, HolderOK, Idle
<1>2. FileInv => AttachmentSound
  BY DEF FileInv, Carried, Checked, LedBack, AttachmentSound
<1> QED BY <1>1, <1>2, FileStep, Invariance, PTL DEF Spec

-----------------------------------------------------------------------------
(* One request at a time.                                                   *)

\* As long as nothing overlapped, at most one handler is in flight.
SoleInv == ~overlap => \A p, q \in Procs : call[p] # Idle /\ call[q] # Idle => p = q

\* A handler that takes a step while nothing overlaps is alone before and after it.
LEMMA SoleStep == IInv /\ SoleInv /\ [Next]_vars => SoleInv'
<1> SUFFICES ASSUME IInv, SoleInv, [Next]_vars PROVE SoleInv'
  OBVIOUS
<1>0. call \in [Procs -> Call]
  BY DEF IInv, TypeOK
<1>1. CASE UNCHANGED <<store, call, opened, failures, overlap>>
  BY <1>1 DEF SoleInv
<1>2. ASSUME NEW p \in Procs, Request(p) PROVE SoleInv'
  <2>1. /\ call' = [call EXCEPT ![p] = call'[p]]
        /\ overlap' = (overlap \/ \E q \in Procs : call[q] # Idle)
    BY <1>2, RequestStarts
  <2>2. \A q \in Procs \ {p} : call'[q] = call[q]
    BY <1>0, <2>1
  <2> QED BY <2>1, <2>2 DEF SoleInv
<1>3. ASSUME NEW p \in Procs, Step(p) \/ Fail(p) PROVE SoleInv'
  <2>1. call[p] # Idle /\ UNCHANGED overlap /\ call' = [call EXCEPT ![p] = call'[p]]
    <3>1. Idle.op = "idle"
      BY DEF Idle
    <3>2. CASE Step(p)
      BY <3>1, <3>2, StepContinues DEF world
    <3>3. CASE Fail(p)
      BY <3>3, FailReturns
    <3> QED BY <1>3, <3>2, <3>3
  <2>2. \A q \in Procs \ {p} : call'[q] = call[q]
    BY <1>0, <2>1
  <2> QED BY <2>1, <2>2 DEF SoleInv
<1> QED BY <1>1, <1>2, <1>3, Turns

\* When the handler in slot p acts and nothing overlaps, the other slots are idle.
LEMMA OthersIdle ==
    ASSUME IInv, SoleInv, NEW p \in Procs, Request(p) \/ Step(p) \/ Fail(p), ~overlap'
    PROVE  ~overlap /\ \A q \in Procs \ {p} : call[q] = Idle /\ call'[q] = Idle
<1>0. call \in [Procs -> Call]
  BY DEF IInv, TypeOK
<1>1. call' = [call EXCEPT ![p] = call'[p]]
  BY StepContinues, FailReturns, RequestStarts
<1>2. \A q \in Procs \ {p} : call'[q] = call[q]
  BY <1>0, <1>1
<1>3. CASE Request(p)
  BY <1>2, <1>3, RequestStarts
<1>4. CASE Step(p) \/ Fail(p)
  <2>1. call[p] # Idle /\ UNCHANGED overlap
    <3>1. Idle.op = "idle"
      BY DEF Idle
    <3>2. CASE Step(p)
      BY <3>1, <3>2, StepContinues DEF world
    <3>3. CASE Fail(p)
      BY <3>3, FailReturns
    <3> QED BY <1>4, <3>2, <3>3
  <2> QED BY <1>2, <2>1 DEF SoleInv
<1> QED BY <1>3, <1>4

\* No step changes the type of a conversation.
LEMMA ConvsMove ==
    ASSUME IInv, NEW p \in Procs, Step(p), NEW k \in DOMAIN convs
    PROVE  k \in DOMAIN convs' /\ convs'[k].type = convs[k].type
<1>0. convs \in Seq(Conversation) /\ convs[k] \in Conversation
  BY DEF IInv, TypeOK
<1>1. CASE UNCHANGED convs
  BY <1>1
<1>2. CASE InsertConversation(p)
  <2>1. PICK d : convs' = Append(convs, d)
    BY <1>2 DEF InsertConversation
  <2> QED BY <1>0, <2>1
<1>3. CASE TouchConversation(p) \/ BotTouch(p)
  <2>1. PICK c, at : convs' = [convs EXCEPT ![c].lastMessageAt = at]
    BY <1>3 DEF TouchConversation, BotTouch
  <2>2. k \in DOMAIN convs' /\ convs'[k] \in {convs[k], [convs[k] EXCEPT !.lastMessageAt = at]}
    BY <1>0, <2>1 DEF Conversation
  <2> QED BY <1>0, <2>2 DEF Conversation
<1> QED BY <1>1, <1>2, <1>3, Writers

\* Only createConversation and addMember add rows, and only sendMessage revives one, in a direct
\* conversation.
LEMMA RowsStay ==
    ASSUME IInv, NEW p \in Procs, Step(p), ~InsertRow(p), ~AddInsertRow(p)
    PROVE  /\ DOMAIN rows' = DOMAIN rows
           /\ \A i \in DOMAIN rows :
                 /\ rows'[i].conv = rows[i].conv /\ rows'[i].user = rows[i].user
                 /\ rows'[i].status = "active" =>
                       rows[i].status = "active" \/ convs[rows[i].conv].type = "direct"
<1> DEFINE Stays(r) == /\ DOMAIN r = DOMAIN rows
                       /\ \A i \in DOMAIN rows :
                             /\ r[i].conv = rows[i].conv /\ r[i].user = rows[i].user
                             /\ r[i].status = "active" =>
                                   rows[i].status = "active" \/ convs[rows[i].conv].type = "direct"
<1>0. rows \in Seq(Participant) /\ call[p] \in Call /\ Known(call[p], convs, rows)
  BY CallTyped DEF IInv, TypeOK
<1>1. CASE UNCHANGED rows
  BY <1>1
<1>2. ASSUME NEW j, NEW st, st # "active", rows' = [rows EXCEPT ![j].status = st] PROVE Stays(rows')
  <2>1. DOMAIN rows' = DOMAIN rows
    BY <1>2
  <2>2. \A i \in DOMAIN rows : rows'[i] \in {rows[i], [rows[i] EXCEPT !.status = st]}
    BY <1>0, <1>2 DEF Participant
  <2> QED BY <1>0, <1>2, <2>1, <2>2 DEF Participant
<1>3. CASE RemoveUpdate(p) \/ LeaveUpdate(p)
  <2>1. UNCHANGED rows \/ \E j, st : st # "active" /\ rows' = [rows EXCEPT ![j].status = st]
    BY <1>3 DEF RemoveUpdate, LeaveUpdate, UpdateStatus
  <2> QED BY <1>1, <1>2, <2>1
<1>4. CASE RestoreRow(p)
  <2>1. PICK j \in call[p].ids : rows' = [rows EXCEPT ![j].status = "active"]
    BY <1>4 DEF RestoreRow
  <2>2. call[p].op = "send" /\ call[p].pc = "restoreRow"
    BY <1>4 DEF RestoreRow, At
  <2>3. j \in DOMAIN rows /\ convs[rows[j].conv].type = "direct"
    BY <1>0, <2>1, <2>2 DEF Known
  <2>4. DOMAIN rows' = DOMAIN rows
    BY <2>1
  <2>5. \A i \in DOMAIN rows : \/ rows'[i] = rows[i]
                               \/ i = j /\ rows'[i] = [rows[i] EXCEPT !.status = "active"]
    BY <1>0, <2>1 DEF Participant
  <2>6. ASSUME NEW i \in DOMAIN rows
        PROVE  /\ rows'[i].conv = rows[i].conv /\ rows'[i].user = rows[i].user
               /\ rows'[i] = rows[i] \/ convs[rows[i].conv].type = "direct"
    <3>1. rows[i] \in Participant
      BY <1>0
    <3> QED BY <2>3, <2>5, <3>1 DEF Participant
  <2> QED BY <2>4, <2>6
<1>5. CASE ~RemoveUpdate(p) /\ ~LeaveUpdate(p) /\ ~RestoreRow(p) /\ ~UNCHANGED rows
  <2>1. OwnRow(p) \/ IncrementUnread(p) \/ BotUnread(p) \/ ReadZero(p) \/ ReadOwn(p)
    BY <1>5, Writers
  <2>2. ASSUME NEW j, NEW m, \/ rows' = [rows EXCEPT ![j].lastRead = m, ![j].unread = 0]
                            \/ rows' = [rows EXCEPT ![j].unread = 0]
        PROVE  Stays(rows')
    <3>1. DOMAIN rows' = DOMAIN rows
      BY <2>2
    <3>2. \A i \in DOMAIN rows : \/ rows'[i] = rows[i]
                                 \/ rows'[i] = [rows[i] EXCEPT !.unread = 0]
                                 \/ rows'[i] = [rows[i] EXCEPT !.lastRead = m, !.unread = 0]
      BY <1>0, <2>2 DEF Participant
    <3>3. ASSUME NEW i \in DOMAIN rows
          PROVE  /\ rows'[i].conv = rows[i].conv /\ rows'[i].user = rows[i].user
                 /\ rows'[i].status = rows[i].status
      <4>1. rows[i] \in Participant
        BY <1>0
      <4>2. CASE rows'[i] = rows[i]
        BY <4>2
      <4>3. CASE rows'[i] = [rows[i] EXCEPT !.unread = 0]
        BY <4>1, <4>3 DEF Participant
      <4>4. CASE rows'[i] = [rows[i] EXCEPT !.lastRead = m, !.unread = 0]
        BY <4>1, <4>4 DEF Participant
      <4> QED BY <3>2, <4>2, <4>3, <4>4, Zenon
    <3> QED BY <3>1, <3>3
  <2>3. ASSUME NEW k, NEW u, rows' = IncrementOthers(k, u) PROVE Stays(rows')
    <3>1. DOMAIN rows' = DOMAIN rows
      BY <2>3 DEF IncrementOthers
    <3>2. \A i \in DOMAIN rows : rows'[i] \in {rows[i], [rows[i] EXCEPT !.unread = @ + 1]}
      BY <2>3 DEF IncrementOthers
    <3>3. ASSUME NEW i \in DOMAIN rows
          PROVE  /\ rows'[i].conv = rows[i].conv /\ rows'[i].user = rows[i].user
                 /\ rows'[i].status = rows[i].status
      <4>1. rows[i] \in Participant
        BY <1>0
      <4> QED BY <3>2, <4>1 DEF Participant
    <3> QED BY <3>1, <3>3
  <2>4. \/ \E j, m : \/ rows' = [rows EXCEPT ![j].lastRead = m, ![j].unread = 0]
                     \/ rows' = [rows EXCEPT ![j].unread = 0]
        \/ \E k, u : rows' = IncrementOthers(k, u)
    BY <2>1 DEF OwnRow, IncrementUnread, BotUnread, ReadZero, ReadOwn
  <2> QED BY <2>2, <2>3, <2>4
<1> QED BY <1>1, <1>3, <1>4, <1>5

\* No user has two active rows in a group.
UniqueIn(cv, rw) ==
    \A i, j \in DOMAIN rw :
        /\ rw[i].conv = rw[j].conv /\ rw[i].user = rw[j].user
        /\ rw[i].status = "active" /\ rw[j].status = "active" /\ cv[rw[i].conv].type = "group"
        => i = j

\* What the handler c relies on when it adds a row.
AdderOK(c, rw) ==
    /\ c.op = "add" /\ c.pc = "insert" =>
          \A i \in DOMAIN rw : ~(rw[i].conv = c.conv /\ rw[i].user = c.peer /\ rw[i].status = "active")
    /\ c.op = "create" /\ c.pc = "insertRow" =>
          \A i \in DOMAIN rw : ~(rw[i].conv = c.conv /\ rw[i].user \in c.todo)

GroupInv ==
    ~overlap => UniqueIn(convs, rows) /\ \A q \in Procs : AdderOK(call[q], rows)

\* A row is added where the user has no active one.
LEMMA UniqueStep ==
    ASSUME IInv, NEW p \in Procs, Step(p), UniqueIn(convs, rows), AdderOK(call[p], rows)
    PROVE  UniqueIn(convs', rows')
<1> DEFINE b == call[p]
<1>0. rows \in Seq(Participant) /\ \A i \in DOMAIN rows : rows[i].conv \in DOMAIN convs
  BY DEF IInv, TypeOK, RowsInv
<1>1. ASSUME NEW d, rows' = Append(rows, d), UNCHANGED convs,
             \A i \in DOMAIN rows : ~(rows[i].conv = d.conv /\ rows[i].user = d.user
                                        /\ rows[i].status = "active")
      PROVE  UniqueIn(convs', rows')
  <2>1. \A i \in DOMAIN rows' : \/ i \in DOMAIN rows /\ rows'[i] = rows[i]
                                \/ i = Len(rows) + 1 /\ rows'[i] = d
    BY <1>0, <1>1
  <2> QED BY <1>1, <2>1 DEF UniqueIn
<1>2. CASE AddInsertRow(p)
  <2>1. /\ rows' = Append(rows, NewRow(b.conv, b.peer, "member")) /\ UNCHANGED convs
        /\ b.op = "add" /\ b.pc = "insert"
    BY <1>2 DEF AddInsertRow, At
  <2> QED BY <1>1, <2>1 DEF AdderOK, NewRow
<1>3. CASE InsertRow(p)
  <2>1. PICK u \in NextToInsert(p) : \E role : rows' = Append(rows, NewRow(b.conv, u, role))
    BY <1>3 DEF InsertRow
  <2>2. UNCHANGED convs /\ b.op = "create" /\ b.pc = "insertRow"
    BY <1>3 DEF InsertRow, At
  <2>3. u \in b.todo
    BY <2>1 DEF NextToInsert
  <2> QED BY <1>1, <2>1, <2>2, <2>3 DEF AdderOK, NewRow
<1>4. CASE ~InsertRow(p) /\ ~AddInsertRow(p)
  <2> SUFFICES ASSUME NEW i \in DOMAIN rows', NEW j \in DOMAIN rows',
                      rows'[i].conv = rows'[j].conv, rows'[i].user = rows'[j].user,
                      rows'[i].status = "active", rows'[j].status = "active",
                      convs'[rows'[i].conv].type = "group"
               PROVE  i = j
    BY DEF UniqueIn
  <2>1. /\ i \in DOMAIN rows /\ j \in DOMAIN rows
        /\ rows'[i].conv = rows[i].conv /\ rows'[i].user = rows[i].user
        /\ rows'[j].conv = rows[j].conv /\ rows'[j].user = rows[j].user
        /\ rows[i].status = "active" \/ convs[rows[i].conv].type = "direct"
        /\ rows[j].status = "active" \/ convs[rows[j].conv].type = "direct"
    BY <1>4, RowsStay
  <2>2. convs[rows[i].conv].type = "group" /\ convs[rows[j].conv].type = "group"
    BY <1>0, <2>1, ConvsMove
  <2> QED BY <2>1, <2>2 DEF UniqueIn
<1> QED BY <1>2, <1>3, <1>4

\* addMember inserts after its look-up, createConversation inserts the rows of a new conversation.
LEMMA AdderStep ==
    ASSUME IInv, NEW p \in Procs, Step(p), AdderOK(call[p], rows)
    PROVE  AdderOK(call'[p], rows')
<1> DEFINE b == call[p]
<1>0. /\ call \in [Procs -> Call] /\ b \in Call /\ rows \in Seq(Participant)
      /\ convs \in Seq(Conversation) /\ \A i \in DOMAIN rows : rows[i].conv \in DOMAIN convs
  BY CallTyped DEF IInv, TypeOK, RowsInv
<1>1. call'[p] = Idle \/ Continues(b, call'[p])
  BY StepContinues
<1>2. CASE call'[p] = Idle
  BY <1>2 DEF AdderOK, Idle
<1>3. ASSUME Continues(b, call'[p]), b.op = "add", b.pc = "find" PROVE AdderOK(call'[p], rows')
  <2>1. AddFindExisting(p)
    BY <1>3 DEF Step, MembershipStep, MessageStep, AttachmentStep, RequireActiveParticipant,
       RequireAdminOrOwner, FindShared, CheckConversation, InsertConversation, InsertRow, InsertEvent,
       AddInsertRow, AddEvent, RemoveUpdate, RemoveEvent, LeaveUpdate, LeaveEvent,
       RestoreRead, RestoreRow, CheckFile, Stamp, InsertMessage, SaveFile, TouchConversation, OwnRow,
       IncrementUnread, BotAnswer, BotInsert, BotTouch, BotUnread, ReadLatest, ReadZero, ReadOwn,
       ReadOthers, ReadSeen, InsertDraft, FindFile, SaveUploaded, At
  <2>2. ~Return(p)
    BY <1>0, <1>3 DEF Return, Continues, Idle
  <2>3. ActiveRows(b.conv, b.peer) = {} /\ UNCHANGED rows
    BY <2>1, <2>2 DEF AddFindExisting, store
  <2> QED BY <1>3, <2>3 DEF AdderOK, Continues, ActiveRows
<1>4. ASSUME Continues(b, call'[p]), b.op = "create", b.pc \in {"insert", "insertRow"}
      PROVE  AdderOK(call'[p], rows')
  <2>1. InsertConversation(p) \/ InsertRow(p)
    BY <1>4 DEF Step, MembershipStep, MessageStep, AttachmentStep, RequireActiveParticipant,
       RequireAdminOrOwner, FindShared, CheckConversation, InsertEvent, AddFindExisting,
       AddInsertRow, AddEvent, RemoveUpdate, RemoveEvent, LeaveUpdate, LeaveEvent,
       RestoreRead, RestoreRow, CheckFile, Stamp, InsertMessage, SaveFile, TouchConversation, OwnRow,
       IncrementUnread, BotAnswer, BotInsert, BotTouch, BotUnread, ReadLatest, ReadZero, ReadOwn,
       ReadOthers, ReadSeen, InsertDraft, FindFile, SaveUploaded, At
  <2>2. ASSUME InsertConversation(p) PROVE AdderOK(call'[p], rows')
    <3>1. /\ call' = [call EXCEPT ![p].conv = Len(convs) + 1, ![p].todo = b.who, ![p].pc = "insertRow"]
          /\ UNCHANGED rows
      BY <2>2 DEF InsertConversation
    <3>2. call'[p].conv = Len(convs) + 1
      BY <1>0, <3>1 DEF Call
    <3>3. Len(convs) + 1 \notin DOMAIN convs
      BY <1>0
    <3> QED BY <1>0, <1>4, <3>1, <3>2, <3>3 DEF AdderOK, Continues
  <2>3. ASSUME InsertRow(p) PROVE AdderOK(call'[p], rows')
    <3>1. PICK u, role, todo, next :
             /\ u \in NextToInsert(p)
             /\ rows' = Append(rows, NewRow(b.conv, u, role))
             /\ call' = [call EXCEPT ![p].todo = todo, ![p].pc = next]
             /\ next = IF b.todo = {u} THEN "insertEvent" ELSE "insertRow"
             /\ todo = IF b.todo = {u} THEN b.who ELSE b.todo \ {u}
      BY <2>3 DEF InsertRow
    <3>2. call'[p].todo = todo /\ call'[p].pc = next /\ call'[p].conv = b.conv /\ call'[p].op = b.op
      BY <1>0, <3>1 DEF Call
    <3>3. b.op = "create" /\ b.pc = "insertRow"
      BY <2>3 DEF InsertRow, At
    <3>4. CASE next = "insertRow"
      <4>1. todo = b.todo \ {u}
        BY <3>1, <3>4
      <4>2. \A i \in DOMAIN rows' : \/ i \in DOMAIN rows /\ rows'[i] = rows[i]
                                    \/ rows'[i] = NewRow(b.conv, u, role)
        BY <1>0, <3>1
      <4> QED BY <3>2, <3>3, <3>4, <4>1, <4>2 DEF AdderOK, NewRow
    <3>5. CASE next = "insertEvent"
      BY <3>2, <3>3, <3>5 DEF AdderOK
    <3> QED BY <3>1, <3>4, <3>5
  <2> QED BY <2>1, <2>2, <2>3
<1>5. CASE /\ Continues(b, call'[p])
           /\ ~(b.op = "add" /\ b.pc = "find")
           /\ ~(b.op = "create" /\ b.pc \in {"insert", "insertRow"})
  BY <1>5 DEF Continues, Follows, AdderOK
<1> QED BY <1>1, <1>2, <1>3, <1>4, <1>5

\* While requests are served one at a time, the look-ups of the handlers stay true until they write.
LEMMA GroupStep == IInv /\ SoleInv /\ GroupInv /\ [Next]_vars => GroupInv'
<1> SUFFICES ASSUME IInv, SoleInv, GroupInv, [Next]_vars PROVE GroupInv'
  OBVIOUS
<1>0. call \in [Procs -> Call]
  BY DEF IInv, TypeOK
<1>1. CASE UNCHANGED <<store, call, opened, failures, overlap>>
  BY <1>1 DEF GroupInv, store
<1>2. ASSUME NEW p \in Procs, Request(p) \/ Step(p) \/ Fail(p) PROVE GroupInv'
  <2> SUFFICES ASSUME ~overlap'
               PROVE  UniqueIn(convs', rows') /\ \A q \in Procs : AdderOK(call'[q], rows')
    BY DEF GroupInv
  <2>1. ~overlap /\ \A q \in Procs \ {p} : call'[q] = Idle
    BY <1>2, OthersIdle
  <2>2. UniqueIn(convs, rows) /\ AdderOK(call[p], rows)
    BY <2>1 DEF GroupInv
  <2>3. AdderOK(Idle, rows')
    BY DEF AdderOK, Idle
  <2>4. CASE Step(p)
    BY <2>1, <2>2, <2>3, <2>4, UniqueStep, AdderStep
  <2>5. CASE Request(p) \/ Fail(p)
    <3>1. UNCHANGED <<convs, rows>>
      BY <2>5, RequestStarts, FailReturns DEF store
    <3>2. CASE Fail(p)
      BY <2>1, <2>2, <2>3, <3>1, <3>2, FailReturns
    <3>3. CASE Request(p)
      <4>1. AdderOK(call'[p], rows)
        BY <3>3, RequestStarts DEF AdderOK
      <4> QED BY <2>1, <2>2, <2>3, <3>1, <4>1
    <3> QED BY <2>5, <3>2, <3>3
  <2> QED BY <1>2, <2>4, <2>5
<1> QED BY <1>1, <1>2, Turns

\* As long as requests are served one at a time, a user has at most one active row in a group,
\* whichever of them fail halfway.
THEOREM GroupsStayUnique == Spec => []SequentialGroupUnique
<1>1. Init => GroupInv /\ SoleInv
  <2> SUFFICES ASSUME Init PROVE GroupInv /\ SoleInv
    OBVIOUS
  <2>1. \A q \in Procs : call[q] = Idle
    BY DEF Init
  <2>2. UniqueIn(convs, rows)
    BY DEF Init, Seed, UniqueIn
  <2>3. \A q \in Procs : AdderOK(call[q], rows)
    BY <2>1 DEF AdderOK, Idle
  <2> QED BY <2>1, <2>2, <2>3 DEF GroupInv, SoleInv
<1>2. IInv /\ GroupInv => SequentialGroupUnique
  <2> SUFFICES ASSUME IInv, GroupInv, ~overlap, NEW c \in DOMAIN convs, NEW u \in Users,
                      convs[c].type = "group"
               PROVE  Cardinality(ActiveRows(c, u)) <= 1
    BY DEF SequentialGroupUnique
  <2>1. \A i, j \in ActiveRows(c, u) : i = j
    BY DEF GroupInv, UniqueIn, ActiveRows
  <2>2. CASE ActiveRows(c, u) = {}
    BY <2>2, FS_EmptySet
  <2>3. CASE ActiveRows(c, u) # {}
    <3>1. PICK i : ActiveRows(c, u) = {i}
      BY <2>1, <2>3
    <3>2. Cardinality({i}) = 1
      BY FS_Singleton
    <3> QED BY <3>1, <3>2
  <2> QED BY <2>2, <2>3
<1> QED BY <1>1, <1>2, SoleStep, GroupStep, Invariance, PTL DEF Spec

-----------------------------------------------------------------------------
(* Files that were shared one request at a time.                            *)

\* The file of the message m belongs to m.
Owned(m, fs, ms) == fs[ms[m].file].msg = m /\ fs[ms[m].file].status = "attached"

\* Every file that a message carries belongs to it, but for the message that c has just written.
OwnedBut(c, fs, ms) ==
    \A m \in DOMAIN ms : ms[m].file # 0 =>
        Owned(m, fs, ms) \/ (c.op = "send" /\ c.pc = "saveFile" /\ c.msg = m)

\* What the handler c relies on when it writes a file or a message with a file.
SharerOK(c, fs, ms) ==
    /\ c.op = "send" /\ c.pc \in {"stamp", "insert"} /\ c.file # 0 => fs[c.file].status = "uploaded"
    /\ c.op = "send" /\ c.pc = "saveFile" => \A m \in DOMAIN ms : ms[m].file = c.file => m = c.msg
    /\ c.op = "confirm" /\ c.pc = "saveFile" => fs[c.file].status # "attached"

ShareInv ==
    ~overlap /\ failures = 0 =>
        /\ \A m \in DOMAIN msgs : msgs[m].file # 0 =>
              \/ Owned(m, files, msgs)
              \/ \E q \in Procs : call[q].op = "send" /\ call[q].pc = "saveFile" /\ call[q].msg = m
        /\ \A q \in Procs : SharerOK(call[q], files, msgs)

\* The steps of markAttachmentUploaded.
LEMMA ConfirmSteps ==
    ASSUME NEW p, Step(p), call[p].op = "confirm"
    PROVE  RequireActiveParticipant(p) \/ FindFile(p) \/ SaveUploaded(p)
<1> USE DEF At
<1>1. CASE MembershipStep(p)
  BY <1>1 DEF MembershipStep, RequireAdminOrOwner, FindShared,
     CheckConversation, InsertConversation, InsertRow, InsertEvent, AddFindExisting, AddInsertRow,
     AddEvent, RemoveUpdate, RemoveEvent, LeaveUpdate, LeaveEvent
<1>2. ~MessageStep(p)
  BY DEF MessageStep, RestoreRead, RestoreRow, CheckFile, Stamp, InsertMessage, SaveFile,
     TouchConversation, OwnRow, IncrementUnread, BotAnswer, BotInsert, BotTouch, BotUnread,
     ReadLatest, ReadZero, ReadOwn, ReadOthers, ReadSeen
<1>3. CASE AttachmentStep(p)
  BY <1>3 DEF AttachmentStep, InsertDraft
<1> QED BY <1>1, <1>2, <1>3 DEF Step

\* The handler that goes on has checked the file it will write.
LEMMA SharerStep ==
    ASSUME IInv, FileInv, NEW p \in Procs, Step(p), OwnedBut(call[p], files, msgs),
           SharerOK(call[p], files, msgs)
    PROVE  SharerOK(call'[p], files', msgs')
<1> DEFINE b == call[p]
<1>0. call \in [Procs -> Call] /\ b \in Call /\ msgs \in Seq(Message)
  BY CallTyped DEF IInv, TypeOK
<1>1. CASE call'[p] = Idle
  BY <1>1 DEF SharerOK, Idle
<1>2. ASSUME Continues(b, call'[p]), b.op = "confirm" PROVE SharerOK(call'[p], files', msgs')
  <2>1. CASE FindFile(p)
    <3>1. ~Return(p)
      BY <1>0, <1>2 DEF Return, Continues, Idle
    <3>2. files[b.file].status # "attached" /\ UNCHANGED files
      BY <2>1, <3>1 DEF FindFile, store
    <3> QED BY <1>2, <3>2 DEF SharerOK, Continues
  <2>2. CASE RequireActiveParticipant(p) \/ SaveUploaded(p)
    <3>1. b.pc \in {"guard", "saveFile"}
      BY <2>2, Zenon DEF RequireActiveParticipant, SaveUploaded, At
    <3> QED BY <1>2, <3>1 DEF SharerOK, Continues, Follows
  <2> QED BY <1>2, <2>1, <2>2, ConfirmSteps
<1>3. ASSUME Continues(b, call'[p]), b.op = "send" PROVE SharerOK(call'[p], files', msgs')
  <2>1. CASE b.pc \in {"restore", "restoreRow"}
    <3>1. PICK ids, next : /\ call' = [call EXCEPT ![p].ids = ids, ![p].pc = next]
                           /\ next \in {"restoreRow", AfterRestore(p)}
      <4>1. RestoreRead(p) \/ RestoreRow(p)
        BY <1>3, <2>1, SendSteps
      <4> QED BY <4>1, Zenon DEF RestoreRead, RestoreRow
    <3>2. call'[p].pc \in {"restoreRow", AfterRestore(p)}
      BY <1>0, <3>1 DEF Call
    <3> QED BY <1>3, <3>2 DEF SharerOK, Continues, AfterRestore
  <2>2. CASE b.pc = "file"
    <3>1. CheckFile(p)
      BY <1>3, <2>2, SendSteps
    <3>2. ~Return(p)
      BY <1>0, <1>3 DEF Return, Continues, Idle
    <3>3. files[b.file].status = "uploaded" /\ UNCHANGED files
      BY <3>1, <3>2 DEF CheckFile, store
    <3> QED BY <1>3, <2>2, <3>3 DEF SharerOK, Continues, Follows
  <2>3. CASE b.pc = "stamp"
    <3>1. UNCHANGED files
      BY <1>3, <2>3, SendSteps DEF Stamp, store
    <3> QED BY <1>3, <2>3, <3>1 DEF SharerOK, Continues, Follows
  <2>4. CASE b.pc = "insert"
    <3>1. InsertMessage(p)
      BY <1>3, <2>4, SendSteps
    <3>2. /\ msgs' = Append(msgs, NewMessage(b.conv, b.user, b.at, b.file))
          /\ call' = [call EXCEPT ![p].msg = Len(msgs) + 1,
                                  ![p].pc = IF b.file = 0 THEN "touch" ELSE "saveFile"]
      BY <3>1 DEF InsertMessage
    <3>3. call'[p].msg = Len(msgs) + 1 /\ call'[p].pc = IF b.file = 0 THEN "touch" ELSE "saveFile"
      BY <1>0, <3>2 DEF Call
    <3>4. b.file # 0 => \A m \in DOMAIN msgs : msgs[m].file # b.file
      BY <1>3, <2>4 DEF OwnedBut, Owned, SharerOK
    <3>5. \A m \in DOMAIN msgs' : m = Len(msgs) + 1 \/ (m \in DOMAIN msgs /\ msgs'[m] = msgs[m])
      BY <1>0, <3>2
    <3> QED BY <1>3, <3>3, <3>4, <3>5 DEF SharerOK, Continues
  <2>5. CASE b.pc \notin {"restore", "restoreRow", "file", "stamp", "insert"}
    BY <1>3, <2>5 DEF SharerOK, Continues, Follows
  <2> QED BY <2>1, <2>2, <2>3, <2>4, <2>5
<1>4. CASE Continues(b, call'[p]) /\ b.op \notin {"send", "confirm"}
  BY <1>4 DEF SharerOK, Continues
<1> QED BY <1>1, <1>2, <1>3, <1>4, StepContinues

\* A file is attached to the message written with it, and never taken from a message.
LEMMA OwnedStep ==
    ASSUME IInv, FileInv, NEW p \in Procs, Step(p), OwnedBut(call[p], files, msgs),
           SharerOK(call[p], files, msgs)
    PROVE  OwnedBut(call'[p], files', msgs')
<1> DEFINE b == call[p]
<1>0. /\ call \in [Procs -> Call] /\ b \in Call /\ msgs \in Seq(Message)
      /\ files \in Seq(Attachment)
  BY CallTyped DEF IInv, TypeOK
<1>1. CASE SaveFile(p)
  <2>1. /\ files' = [files EXCEPT ![b.file].msg = b.msg, ![b.file].status = "attached"]
        /\ UNCHANGED msgs /\ b.op = "send" /\ b.pc = "saveFile"
    BY <1>1 DEF SaveFile, At
  <2>2. /\ b.file \in DOMAIN files /\ b.msg \in DOMAIN msgs /\ msgs[b.msg].file = b.file
        /\ \A m \in DOMAIN msgs : msgs[m].file = b.file => m = b.msg
    BY <2>1 DEF FileInv, HolderOK, SharerOK
  <2>3. /\ files'[b.file].msg = b.msg /\ files'[b.file].status = "attached"
        /\ \A f \in DOMAIN files : f # b.file => files'[f] = files[f]
    <3>1. files[b.file] \in Attachment
      BY <1>0, <2>2
    <3>2. files'[b.file] = [files[b.file] EXCEPT !.msg = b.msg, !.status = "attached"]
      BY <2>1, <2>2, <3>1 DEF Attachment
    <3>3. \A f \in DOMAIN files : f # b.file => files'[f] = files[f]
      BY <2>1
    <3> QED BY <3>1, <3>2, <3>3 DEF Attachment
  <2> SUFFICES ASSUME NEW m \in DOMAIN msgs, msgs[m].file # 0 PROVE Owned(m, files', msgs)
    BY <2>1 DEF OwnedBut
  <2>4. msgs[m].file \in DOMAIN files
    BY DEF FileInv, Carried, Checked
  <2>5. CASE msgs[m].file = b.file
    BY <2>2, <2>3, <2>5 DEF Owned
  <2>6. CASE msgs[m].file # b.file
    BY <2>2, <2>3, <2>4, <2>6 DEF Owned, OwnedBut
  <2> QED BY <2>5, <2>6
<1>2. CASE ~SaveFile(p)
  <2>1. ASSUME NEW m \in DOMAIN msgs, msgs[m].file # 0
        PROVE  Owned(m, files, msgs) /\ msgs[m].file \in DOMAIN files
    BY <1>2, <2>1, SendSteps DEF OwnedBut, FileInv, Carried, Checked
  <2>2. ASSUME NEW m \in DOMAIN msgs, msgs[m].file # 0
        PROVE  /\ files'[msgs[m].file].msg = files[msgs[m].file].msg
               /\ files'[msgs[m].file].status = files[msgs[m].file].status
    <3>1. CASE UNCHANGED files
      BY <3>1
    <3>2. CASE InsertDraft(p)
      <4>1. PICK d : files' = Append(files, d)
        BY <3>2 DEF InsertDraft
      <4>2. files'[msgs[m].file] = files[msgs[m].file]
        BY <1>0, <2>1, <2>2, <4>1
      <4> QED BY <4>2
    <3>3. CASE SaveUploaded(p)
      <4>1. /\ files' = [files EXCEPT ![b.file].status = IF b.flag THEN "uploaded" ELSE @]
            /\ b.op = "confirm" /\ b.pc = "saveFile"
        BY <3>3 DEF SaveUploaded, At
      <4>2. msgs[m].file # b.file
        BY <2>1, <2>2, <4>1 DEF SharerOK, Owned
      <4>3. files'[msgs[m].file] = files[msgs[m].file]
        BY <1>0, <2>1, <2>2, <4>1, <4>2
      <4> QED BY <4>3
    <3> QED BY <1>2, <3>1, <3>2, <3>3, Writers
  <2>3. ASSUME NEW m \in DOMAIN msgs, m \in DOMAIN msgs', msgs'[m].file # 0
        PROVE  Owned(m, files', msgs')
    BY <2>1, <2>2, <2>3, MessagesMove DEF Owned
  <2>4. CASE DOMAIN msgs' = DOMAIN msgs
    BY <2>3, <2>4 DEF OwnedBut
  <2>5. CASE InsertMessage(p)
    <3>1. /\ msgs' = Append(msgs, NewMessage(b.conv, b.user, b.at, b.file)) /\ b.op = "send"
          /\ call' = [call EXCEPT ![p].msg = Len(msgs) + 1,
                                  ![p].pc = IF b.file = 0 THEN "touch" ELSE "saveFile"]
      BY <2>5 DEF InsertMessage, At
    <3>2. /\ call'[p].msg = Len(msgs) + 1 /\ call'[p].op = "send"
          /\ call'[p].pc = IF b.file = 0 THEN "touch" ELSE "saveFile"
      BY <1>0, <3>1 DEF Call
    <3>3. \A m \in DOMAIN msgs' : m \in DOMAIN msgs \/ (m = Len(msgs) + 1 /\ msgs'[m].file = b.file)
      BY <1>0, <3>1 DEF NewMessage
    <3> QED BY <2>3, <3>2, <3>3 DEF OwnedBut
  <2>6. CASE BotInsert(p)
    <3>1. msgs' = Append(msgs, NewMessage(b.conv, b.user, b.at, 0))
      BY <2>6 DEF BotInsert
    <3>2. \A m \in DOMAIN msgs' : m \in DOMAIN msgs \/ msgs'[m].file = 0
      BY <1>0, <3>1 DEF NewMessage
    <3> QED BY <2>3, <3>2 DEF OwnedBut
  <2>7. CASE UNCHANGED msgs \/ ReadSeen(p)
    <3>1. DOMAIN msgs' = DOMAIN msgs
      BY <2>7 DEF ReadSeen, SeenUpTo
    <3> QED BY <2>4, <3>1
  <2> QED BY <2>5, <2>6, <2>7, Writers
<1> QED BY <1>1, <1>2

\* While requests are served one at a time and none fails, files follow their messages.
LEMMA ShareStep == IInv /\ FileInv /\ SoleInv /\ ShareInv /\ [Next]_vars => ShareInv'
<1> SUFFICES ASSUME IInv, FileInv, SoleInv, ShareInv, [Next]_vars PROVE ShareInv'
  OBVIOUS
<1>1. CASE UNCHANGED <<store, call, opened, failures, overlap>>
  BY <1>1 DEF ShareInv, store
<1>2. ASSUME NEW p \in Procs, Request(p) \/ Step(p) \/ Fail(p), ~overlap', failures' = 0
      PROVE  /\ OwnedBut(call'[p], files', msgs')
             /\ \A q \in Procs : SharerOK(call'[q], files', msgs')
  <2>1. ~overlap /\ \A q \in Procs \ {p} : call[q] = Idle /\ call'[q] = Idle
    BY <1>2, OthersIdle
  <2>2. failures \in Nat
    BY DEF IInv, TypeOK
  <2>3. ~Fail(p) /\ failures = 0
    BY <1>2, <2>2, StepContinues, FailReturns, RequestStarts DEF world
  <2>4. OwnedBut(call[p], files, msgs) /\ SharerOK(call[p], files, msgs)
    BY <2>1, <2>3 DEF ShareInv, OwnedBut, Idle
  <2>5. SharerOK(Idle, files', msgs')
    BY DEF SharerOK, Idle
  <2>6. CASE Step(p)
    BY <2>1, <2>4, <2>5, <2>6, OwnedStep, SharerStep
  <2>7. CASE Request(p)
    <3>1. UNCHANGED <<files, msgs>> /\ call[p] = Idle
      BY <2>7, RequestStarts DEF store
    <3>2. SharerOK(call'[p], files, msgs)
      BY <2>7, RequestStarts DEF SharerOK
    <3>3. OwnedBut(call'[p], files, msgs)
      BY <2>4, <3>1 DEF OwnedBut, Idle
    <3> QED BY <2>1, <2>5, <3>1, <3>2, <3>3
  <2> QED BY <1>2, <2>3, <2>6, <2>7
<1>3. ASSUME NEW p \in Procs, Request(p) \/ Step(p) \/ Fail(p) PROVE ShareInv'
  BY <1>2, <1>3 DEF ShareInv, OwnedBut
<1> QED BY <1>1, <1>3, Turns

\* As long as requests are served one at a time and none fails, a file that was shared belongs to
\* one message, and the active members of its conversation can download it.
THEOREM SharedFilesStay == Spec => []SequentialShare
<1>1. Init => ShareInv /\ SoleInv /\ FileInv
  <2> SUFFICES ASSUME Init PROVE ShareInv /\ SoleInv /\ FileInv
    OBVIOUS
  <2>1. \A q \in Procs : call[q] = Idle
    BY DEF Init
  <2>2. DOMAIN msgs = {} /\ DOMAIN files = {}
    BY DEF Init
  <2>3. \A q \in Procs : SharerOK(call[q], files, msgs) /\ HolderOK(call[q], files, msgs)
    BY <2>1 DEF SharerOK, HolderOK, Idle
  <2> QED BY <2>1, <2>2, <2>3 DEF ShareInv, SoleInv, FileInv, Carried, LedBack
<1>2. IInv /\ FileInv /\ ShareInv => SequentialShare
  <2> SUFFICES ASSUME IInv, FileInv, ShareInv, ~overlap, failures = 0, Quiescent,
                      NEW m \in DOMAIN msgs, msgs[m].file # 0
               PROVE  /\ files[msgs[m].file].msg = m
                      /\ \A u \in ActiveUsers(msgs[m].conv) : Downloadable(msgs[m].file, u)
    BY DEF SequentialShare
  <2>1. \A q \in Procs : call[q].op = "idle"
    BY DEF Quiescent, Idle
  <2>2. Owned(m, files, msgs)
    BY <2>1 DEF ShareInv
  <2>3. files[msgs[m].file].conv = msgs[m].conv
    BY DEF FileInv, Carried, Checked
  <2> QED BY <2>2, <2>3 DEF Owned, Downloadable, ActiveUsers
<1> QED BY <1>1, <1>2, SoleStep, FileStep, ShareStep, Invariance, PTL DEF Spec

-----------------------------------------------------------------------------
(* Direct conversations that were created one request at a time.            *)

AtLeastTwo(S) == \E i, j \in S : i # j

AtMostTwo(S) == \A i, j, k \in S : i = j \/ i = k \/ j = k

\* Two elements, counted.
LEMMA CountTwo ==
    ASSUME NEW S, IsFiniteSet(S)
    PROVE  /\ Cardinality(S) <= 2 <=> AtMostTwo(S)
           /\ Cardinality(S) = 2 <=> AtMostTwo(S) /\ AtLeastTwo(S)
<1>0. Cardinality(S) \in Nat
  BY FS_CardinalityType
<1>1. CASE S = {}
  <2>1. Cardinality(S) = 0
    BY <1>1, FS_EmptySet
  <2> QED BY <1>1, <2>1 DEF AtMostTwo, AtLeastTwo
<1>2. CASE S # {}
  <2>1. PICK i : i \in S
    BY <1>2
  <2>2. IsFiniteSet(S \ {i}) /\ Cardinality(S \ {i}) = Cardinality(S) - 1
    BY <2>1, FS_RemoveElement
  <2>3. CASE S \ {i} = {}
    <3>1. S = {i}
      BY <2>1, <2>3
    <3>2. Cardinality(S) = 1
      BY <3>1, FS_Singleton
    <3> QED BY <3>1, <3>2 DEF AtMostTwo, AtLeastTwo
  <2>4. CASE S \ {i} # {}
    <3>1. PICK j : j \in S \ {i}
      BY <2>4
    <3>2. /\ IsFiniteSet((S \ {i}) \ {j})
          /\ Cardinality((S \ {i}) \ {j}) = Cardinality(S \ {i}) - 1
      BY <2>2, <3>1, FS_RemoveElement
    <3>3. CASE (S \ {i}) \ {j} = {}
      <4>1. S = {i, j}
        BY <2>1, <3>1, <3>3
      <4>2. Cardinality((S \ {i}) \ {j}) = 0
        BY <3>3, FS_EmptySet
      <4>3. Cardinality(S) = 2
        BY <1>0, <2>2, <3>2, <4>2
      <4> QED BY <3>1, <4>1, <4>3 DEF AtMostTwo, AtLeastTwo
    <3>4. CASE (S \ {i}) \ {j} # {}
      <4>1. PICK k : k \in (S \ {i}) \ {j}
        BY <3>4
      <4>2. ~AtMostTwo(S)
        BY <2>1, <3>1, <4>1 DEF AtMostTwo
      <4>3. Cardinality((S \ {i}) \ {j}) \in Nat /\ Cardinality((S \ {i}) \ {j}) # 0
        BY <3>2, <3>4, FS_CardinalityType, FS_EmptySet
      <4>4. Cardinality(S) > 2
        BY <1>0, <2>2, <3>2, <4>3
      <4> QED BY <1>0, <4>2, <4>4
    <3> QED BY <3>3, <3>4
  <2> QED BY <2>3, <2>4
<1> QED BY <1>1, <1>2

RowsIn(rw, c) == {i \in DOMAIN rw : rw[i].conv = c}

Members(rw, c) == {rw[i].user : i \in RowsIn(rw, c)}

Directs(cv) == {c \in DOMAIN cv : cv[c].type = "direct"}

\* Nobody was added to a direct conversation.
NoThird(cv, rw) == \A c \in Directs(cv) : AtMostTwo(RowsIn(rw, c))

\* The conversation whose rows the handler c is inserting.
Making(c) == IF c.op = "create" /\ c.pc = "insertRow" THEN {c.conv} ELSE {}

\* The direct conversations but for those in busy have two rows and differ in their members.
DirectOK(busy, cv, rw) ==
    /\ \A c \in Directs(cv) \ busy : AtLeastTwo(RowsIn(rw, c))
    /\ \A c, d \in Directs(cv) \ busy : Members(rw, c) = Members(rw, d) => c = d

\* What createConversation knows when it looks for a direct conversation, and when it makes one.
MakerOK(c, cv, rw) ==
    /\ c.op = "create" /\ c.pc = "insertRow" =>
          cv[c.conv].type = IF c.flag THEN "group" ELSE "direct"
    /\ c.op = "create" /\ ~c.flag =>
          /\ \E u, v : u # v /\ c.who = {u, v}
          /\ c.pc = "check" => \A k \in Directs(cv) : Members(rw, k) = c.who => k \in c.ids
          /\ c.pc = "insert" => \A k \in Directs(cv) : Members(rw, k) # c.who
          /\ c.pc = "insertRow" =>
                /\ \A k \in Directs(cv) \ {c.conv} : Members(rw, k) # c.who
                /\ Members(rw, c.conv) = c.who \ c.todo
                /\ c.todo \subseteq c.who /\ c.todo # {}
                /\ ~AtLeastTwo(RowsIn(rw, c.conv))

DirectInv ==
    ~overlap /\ failures = 0 /\ NoThird(convs, rows) =>
        /\ DirectOK(UNION {Making(call[q]) : q \in Procs}, convs, rows)
        /\ \A q \in Procs : MakerOK(call[q], convs, rows)

\* Two users are two members.
LEMMA PairHasTwo ==
    ASSUME NEW rw, NEW c, NEW u, NEW v, u # v, Members(rw, c) = {u, v}
    PROVE  AtLeastTwo(RowsIn(rw, c))
BY DEF Members, AtLeastTwo

\* Conversations keep their rows when no row is added.
LEMMA SameMembers ==
    ASSUME NEW rw, NEW rw2, NEW c, RowsIn(rw2, c) = RowsIn(rw, c),
           \A i \in RowsIn(rw, c) : rw2[i].user = rw[i].user
    PROVE  Members(rw2, c) = Members(rw, c)
BY DEF Members

\* A direct conversation is requested for two users.
LEMMA CreateStarts ==
    ASSUME IInv, NEW p \in Procs, Request(p), call'[p].op = "create"
    PROVE  \/ call'[p].flag /\ call'[p].pc = "insert"
           \/ /\ call'[p].pc = "find"
              /\ \E u, v : u # v /\ call'[p].who = {u, v}
<1>0. call \in [Procs -> Call]
  BY DEF IInv, TypeOK
<1>1. ~AddMember(p) /\ ~RemoveMember(p) /\ ~LeaveConversation(p)
  <2>1. ASSUME NEW op \in {"add", "remove", "leave"}, MemberRequest(p, op) PROVE call'[p].op = op
    BY <1>0, <2>1 DEF MemberRequest, Begin, Idle
  <2> QED BY <2>1 DEF AddMember, RemoveMember, LeaveConversation
<1>2. ~MessageRequest(p) /\ ~AttachmentRequest(p)
  <2>1. SendMessage(p) => call'[p].op = "send"
    BY <1>0 DEF SendMessage, Begin, Idle
  <2>2. MarkConversationRead(p) => call'[p].op = "read"
    BY <1>0 DEF MarkConversationRead, Begin, Idle
  <2>3. GeneratePresignedUploadUrl(p) => call'[p].op = "presign"
    BY <1>0 DEF GeneratePresignedUploadUrl, Begin, Idle
  <2>4. MarkAttachmentUploaded(p) => call'[p].op = "confirm"
    BY <1>0 DEF MarkAttachmentUploaded, Begin, Idle
  <2> QED BY <2>1, <2>2, <2>3, <2>4 DEF MessageRequest, AttachmentRequest
<1>3. PICK u \in Users, group \in BOOLEAN, others \in SUBSET Users :
          /\ ~group => \E v \in Users \ {u} : others = {v}
          /\ call' = [call EXCEPT ![p] =
                 [Idle EXCEPT !.op = "create", !.user = u, !.who = {u} \cup others,
                              !.flag = group, !.pc = IF group THEN "insert" ELSE "find"]]
  <2>1. CreateConversation(p)
    BY <1>1, <1>2 DEF Request, MembershipRequest
  <2> QED BY <2>1, Zenon DEF CreateConversation, Begin
<1>4. /\ call'[p].who = {u} \cup others /\ call'[p].flag = group
      /\ call'[p].pc = IF group THEN "insert" ELSE "find"
  BY <1>0, <1>3 DEF Idle
<1> QED BY <1>3, <1>4

\* The steps of createConversation.
LEMMA CreateSteps ==
    ASSUME NEW p, Step(p), call[p].op = "create"
    PROVE  /\ call[p].pc = "find" => FindShared(p)
           /\ call[p].pc = "check" => CheckConversation(p)
           /\ call[p].pc = "insert" => InsertConversation(p)
           /\ call[p].pc = "insertRow" => InsertRow(p)
<1> USE DEF At
<1>1. CASE MembershipStep(p)
  <2>1. /\ RequireActiveParticipant(p) => call[p].pc = "guard"
        /\ FindShared(p) => call[p].pc = "find"
        /\ CheckConversation(p) => call[p].pc = "check"
        /\ InsertConversation(p) => call[p].pc = "insert"
        /\ InsertRow(p) => call[p].pc = "insertRow"
        /\ InsertEvent(p) => call[p].pc = "insertEvent"
    BY Zenon DEF RequireActiveParticipant, FindShared, CheckConversation, InsertConversation,
       InsertRow, InsertEvent
  <2>2. \/ RequireActiveParticipant(p) \/ FindShared(p) \/ CheckConversation(p)
        \/ InsertConversation(p) \/ InsertRow(p) \/ InsertEvent(p)
    BY <1>1 DEF MembershipStep, RequireAdminOrOwner, AddFindExisting, AddInsertRow, AddEvent,
       RemoveUpdate, RemoveEvent, LeaveUpdate, LeaveEvent
  <2> QED BY <2>1, <2>2
<1>2. ~MessageStep(p)
  BY DEF MessageStep, RestoreRead, RestoreRow, CheckFile, Stamp, InsertMessage, SaveFile,
     TouchConversation, OwnRow, IncrementUnread, BotAnswer, BotInsert, BotTouch, BotUnread,
     ReadLatest, ReadZero, ReadOwn, ReadOthers, ReadSeen
<1>3. ~AttachmentStep(p)
  BY DEF AttachmentStep, InsertDraft, FindFile, SaveUploaded
<1> QED BY <1>1, <1>2, <1>3 DEF Step

\* Rows stay in their conversation.
LEMMA RowsKeep ==
    ASSUME IInv, NEW p \in Procs, Step(p), NEW i \in DOMAIN rows
    PROVE  i \in DOMAIN rows' /\ rows'[i].conv = rows[i].conv /\ rows'[i].user = rows[i].user
<1>0. rows \in Seq(Participant)
  BY DEF IInv, TypeOK
<1>1. ASSUME NEW d, rows' = Append(rows, d) PROVE i \in DOMAIN rows' /\ rows'[i] = rows[i]
  BY <1>0, <1>1
<1>2. CASE InsertRow(p) \/ AddInsertRow(p)
  BY <1>1, <1>2 DEF InsertRow, AddInsertRow
<1>3. CASE ~InsertRow(p) /\ ~AddInsertRow(p)
  BY <1>3, RowsStay
<1> QED BY <1>2, <1>3

\* Who was added to a direct conversation stays there.
LEMMA ThirdStays ==
    ASSUME IInv, NEW p \in Procs, Step(p), NoThird(convs', rows')
    PROVE  NoThird(convs, rows)
<1>1. Directs(convs) \subseteq Directs(convs')
  BY ConvsMove DEF Directs
<1>2. \A c : RowsIn(rows, c) \subseteq RowsIn(rows', c)
  BY RowsKeep DEF RowsIn
<1> QED BY <1>1, <1>2 DEF NoThird, AtMostTwo

\* A new conversation has no row.
LEMMA NewIsEmpty ==
    ASSUME IInv
    PROVE  RowsIn(rows, Len(convs) + 1) = {} /\ Members(rows, Len(convs) + 1) = {}
<1>1. Len(convs) + 1 \notin DOMAIN convs
  BY DEF IInv, TypeOK
<1> QED BY <1>1 DEF IInv, RowsInv, RowsIn, Members

\* A step that adds neither a row nor a conversation leaves the pairs as they are.
LEMMA PairsStay ==
    ASSUME IInv, NEW p \in Procs, Step(p), ~InsertRow(p), ~AddInsertRow(p), ~InsertConversation(p)
    PROVE  /\ Directs(convs') = Directs(convs)
           /\ \A c : RowsIn(rows', c) = RowsIn(rows, c) /\ Members(rows', c) = Members(rows, c)
<1>0. convs \in Seq(Conversation)
  BY DEF IInv, TypeOK
<1>1. DOMAIN convs' = DOMAIN convs
  <2>1. UNCHANGED convs \/ TouchConversation(p) \/ BotTouch(p)
    BY Writers
  <2> QED BY <2>1 DEF TouchConversation, BotTouch
<1>2. Directs(convs') = Directs(convs)
  BY <1>1, ConvsMove DEF Directs
<1>3. \A c : RowsIn(rows', c) = RowsIn(rows, c)
  BY RowsStay DEF RowsIn
<1>4. \A c : \A i \in RowsIn(rows, c) : rows'[i].user = rows[i].user
  BY RowsStay DEF RowsIn
<1>5. \A c : Members(rows', c) = Members(rows, c)
  BY <1>3, <1>4, SameMembers
<1> QED BY <1>2, <1>3, <1>5

\* A row is added to one conversation only.
LEMMA PairsGrow ==
    ASSUME IInv, NEW d, rows' = Append(rows, d)
    PROVE  /\ \A c : c # d.conv => /\ RowsIn(rows', c) = RowsIn(rows, c)
                                   /\ Members(rows', c) = Members(rows, c)
           /\ RowsIn(rows', d.conv) = RowsIn(rows, d.conv) \cup {Len(rows) + 1}
           /\ Members(rows', d.conv) = Members(rows, d.conv) \cup {d.user}
           /\ Len(rows) + 1 \notin RowsIn(rows, d.conv)
<1>0. rows \in Seq(Participant)
  BY DEF IInv, TypeOK
<1>1. /\ DOMAIN rows' = DOMAIN rows \cup {Len(rows) + 1} /\ Len(rows) + 1 \notin DOMAIN rows
      /\ \A i \in DOMAIN rows : rows'[i] = rows[i]
      /\ rows'[Len(rows) + 1] = d
  BY <1>0
<1>2. \A c : c # d.conv => RowsIn(rows', c) = RowsIn(rows, c)
  BY <1>1 DEF RowsIn
<1>3. \A c : \A i \in RowsIn(rows, c) : rows'[i] = rows[i]
  BY <1>1 DEF RowsIn
<1>4. /\ RowsIn(rows', d.conv) = RowsIn(rows, d.conv) \cup {Len(rows) + 1}
      /\ Len(rows) + 1 \notin RowsIn(rows, d.conv)
  BY <1>1 DEF RowsIn
<1>5. ASSUME NEW c, c # d.conv PROVE Members(rows', c) = Members(rows, c)
  <2>1. RowsIn(rows', c) = RowsIn(rows, c)
    BY <1>2, <1>5
  <2>2. \A i \in RowsIn(rows, c) : rows'[i].user = rows[i].user
    BY <1>3
  <2> QED BY <2>1, <2>2, SameMembers
<1>6. Members(rows', d.conv) = Members(rows, d.conv) \cup {d.user}
  <2>1. PICK n : n = Len(rows) + 1
    OBVIOUS
  <2>2. PICK S : S = RowsIn(rows, d.conv)
    OBVIOUS
  <2>3. RowsIn(rows', d.conv) = S \cup {n}
    BY <1>4, <2>1, <2>2
  <2>4. rows'[n].user = d.user /\ \A i \in S : rows'[i].user = rows[i].user
    BY <1>1, <1>3, <2>1, <2>2
  <2>5. {rows'[i].user : i \in S \cup {n}} = {rows[i].user : i \in S} \cup {d.user}
    BY <2>4
  <2> QED BY <2>2, <2>3, <2>5 DEF Members
<1> QED BY <1>2, <1>4, <1>5, <1>6

\* createConversation looks up the pair, and makes its conversation if there is none.
LEMMA LookedUp ==
    ASSUME IInv, NEW p \in Procs, Step(p), ~InsertRow(p), ~AddInsertRow(p), ~InsertConversation(p),
           NoThird(convs, rows), MakerOK(call[p], convs, rows)
    PROVE  MakerOK(call'[p], convs', rows')
<1> DEFINE b == call[p]
<1>0. call \in [Procs -> Call] /\ b \in Call /\ rows \in Seq(Participant)
  BY CallTyped DEF IInv, TypeOK
<1>1. /\ Directs(convs') = Directs(convs)
      /\ \A c : Members(rows', c) = Members(rows, c)
  BY PairsStay
<1>2. CASE call'[p] = Idle \/ b.op # "create"
  <2>1. call'[p].op # "create"
    BY <1>2, StepContinues DEF Idle, Continues
  <2> QED BY <2>1 DEF MakerOK
<1>3. ASSUME Continues(b, call'[p]), b.op = "create" PROVE MakerOK(call'[p], convs', rows')
  <2>1. b.pc \notin {"insert", "insertRow"}
    BY <1>3, CreateSteps
  <2>2. /\ call'[p].pc # "insertRow" /\ call'[p].op = "create" /\ call'[p].who = b.who
        /\ call'[p].flag = b.flag
        /\ b.pc \in {"find", "check"} \/ call'[p].pc = "insertEvent"
    BY <1>3, <2>1 DEF Continues, Follows
  <2>3. SUFFICES ASSUME ~b.flag, b.pc \in {"find", "check"}
        PROVE  /\ call'[p].pc = "check" =>
                     \A k \in Directs(convs) : Members(rows, k) = b.who => k \in call'[p].ids
               /\ call'[p].pc = "insert" => \A k \in Directs(convs) : Members(rows, k) # b.who
    BY <1>1, <1>3, <2>2 DEF MakerOK
  <2>4. PICK u, v : u # v /\ b.who = {u, v}
    BY <1>3, <2>3 DEF MakerOK
  <2>5. CASE b.pc = "find"
    <3>1. PICK ids : /\ ids = {k \in DOMAIN convs : /\ convs[k].type = "direct"
                              /\ \A w \in b.who : \E i \in RowsOf(k) : rows[i].user = w}
                     /\ call' = [call EXCEPT ![p].ids = ids,
                                             ![p].pc = IF ids = {} THEN "insert" ELSE "check"]
      BY <1>3, <2>5, CreateSteps DEF FindShared
    <3>2. call'[p].ids = ids /\ call'[p].pc = IF ids = {} THEN "insert" ELSE "check"
      BY <1>0, <3>1 DEF Call
    <3>3. \A k \in Directs(convs) : Members(rows, k) = b.who => k \in ids
      BY <3>1 DEF Directs, Members, RowsIn, RowsOf
    <3> QED BY <3>2, <3>3
  <2>6. CASE b.pc = "check"
    <3>1. CheckConversation(p)
      BY <1>3, <2>6, CreateSteps
    <3>2. ~Return(p)
      BY <1>0, <1>3 DEF Return, Continues, Idle
    <3>3. PICK k, ids : /\ k \in b.ids /\ ids = b.ids \ {k} /\ ~MatchesPair(k, b.who)
                        /\ call' = [call EXCEPT ![p].ids = ids,
                                                ![p].pc = IF ids = {} THEN "insert" ELSE "check"]
      BY <3>1, <3>2, Zenon DEF CheckConversation
    <3>4. call'[p].ids = ids /\ call'[p].pc = IF ids = {} THEN "insert" ELSE "check"
      BY <1>0, <3>3 DEF Call
    <3>5. ASSUME k \in Directs(convs) PROVE Members(rows, k) # b.who
      <4>1. SUFFICES ASSUME Members(rows, k) = b.who PROVE FALSE
        OBVIOUS
      <4>2. AtLeastTwo(RowsIn(rows, k)) /\ AtMostTwo(RowsIn(rows, k))
        BY <2>4, <3>5, <4>1, PairHasTwo DEF NoThird
      <4>3. IsFiniteSet(RowsIn(rows, k))
        <5>1. RowsIn(rows, k) \subseteq 1 .. Len(rows) /\ Len(rows) \in Nat
          BY <1>0 DEF RowsIn
        <5>2. IsFiniteSet(1 .. Len(rows))
          BY <5>1, FS_Interval
        <5> QED BY <5>1, <5>2, FS_Subset
      <4>4. Cardinality(RowsIn(rows, k)) = 2
        BY <4>2, <4>3, CountTwo
      <4> QED BY <3>3, <4>1, <4>4 DEF MatchesPair, Members, RowsIn, RowsOf
    <3>6. \A j \in Directs(convs) : Members(rows, j) = b.who => j \in b.ids
      BY <1>3, <2>3, <2>6 DEF MakerOK
    <3>7. \A j \in Directs(convs) : Members(rows, j) = b.who => j \in ids
      BY <3>3, <3>5, <3>6
    <3> QED BY <3>4, <3>7
  <2> QED BY <2>3, <2>5, <2>6
<1> QED BY <1>2, <1>3, StepContinues

\* A pair of users gets a second direct conversation in no step.
LEMMA PairStep ==
    ASSUME IInv, NEW p \in Procs, Step(p), NoThird(convs', rows'),
           DirectOK(Making(call[p]), convs, rows), MakerOK(call[p], convs, rows)
    PROVE  DirectOK(Making(call'[p]), convs', rows') /\ MakerOK(call'[p], convs', rows')
<1> DEFINE b == call[p]
           Goal == DirectOK(Making(call'[p]), convs', rows') /\ MakerOK(call'[p], convs', rows')
<1>0. /\ call \in [Procs -> Call] /\ b \in Call /\ rows \in Seq(Participant)
      /\ convs \in Seq(Conversation) /\ Known(b, convs, rows)
  BY CallTyped DEF IInv, TypeOK
<1>1. NoThird(convs, rows)
  BY ThirdStays
<1>2. CASE ~InsertRow(p) /\ ~AddInsertRow(p) /\ ~InsertConversation(p)
  <2>1. MakerOK(call'[p], convs', rows')
    BY <1>1, <1>2, LookedUp
  <2>2. /\ Directs(convs') = Directs(convs)
        /\ \A c : RowsIn(rows', c) = RowsIn(rows, c) /\ Members(rows', c) = Members(rows, c)
    BY <1>2, PairsStay
  <2>3. ~(b.op = "create" /\ b.pc \in {"insert", "insertRow"})
    BY <1>2, CreateSteps
  <2>4. Making(b) = {}
    BY <2>3 DEF Making
  <2>5. Making(call'[p]) = {}
    BY <2>3, StepContinues DEF Making, Idle, Continues, Follows
  <2> QED BY <2>1, <2>2, <2>4, <2>5 DEF DirectOK
<1>3. CASE AddInsertRow(p)
  <2>1. /\ b.op = "add" /\ b.pc = "insert" /\ UNCHANGED convs
        /\ rows' = Append(rows, NewRow(b.conv, b.peer, "member"))
    BY <1>3 DEF AddInsertRow, At
  <2>2. Making(b) = {} /\ Making(call'[p]) = {} /\ call'[p].op # "create"
    BY <2>1, StepContinues DEF Making, Idle, Continues
  <2>3. PICK d : d = NewRow(b.conv, b.peer, "member")
    OBVIOUS
  <2>4. d.conv = b.conv /\ rows' = Append(rows, d)
    BY <2>1, <2>3 DEF NewRow
  <2>5. b.conv \notin Directs(convs)
    <3>1. SUFFICES ASSUME b.conv \in Directs(convs) PROVE FALSE
      OBVIOUS
    <3>2. AtLeastTwo(RowsIn(rows, b.conv))
      BY <2>2, <3>1 DEF DirectOK
    <3>3. ~AtMostTwo(RowsIn(rows', b.conv))
      <4>1. /\ RowsIn(rows', b.conv) = RowsIn(rows, b.conv) \cup {Len(rows) + 1}
            /\ Len(rows) + 1 \notin RowsIn(rows, b.conv)
        BY <2>4, PairsGrow
      <4> QED BY <3>2, <4>1 DEF AtLeastTwo, AtMostTwo
    <3> QED BY <2>1, <3>1, <3>3 DEF NoThird
  <2>6. \A c \in Directs(convs) : /\ RowsIn(rows', c) = RowsIn(rows, c)
                                  /\ Members(rows', c) = Members(rows, c)
    BY <2>4, <2>5, PairsGrow
  <2>7. DirectOK(Making(call'[p]), convs', rows')
    BY <2>1, <2>2, <2>6 DEF DirectOK
  <2> QED BY <2>2, <2>7 DEF MakerOK
<1>4. CASE InsertConversation(p)
  <2>1. /\ b.op = "create" /\ b.pc = "insert" /\ UNCHANGED rows
        /\ convs' = Append(convs, [type |-> IF b.flag THEN "group" ELSE "direct",
                                   createdBy |-> b.user, lastMessageAt |-> 0])
        /\ call' = [call EXCEPT ![p].conv = Len(convs) + 1, ![p].todo = b.who, ![p].pc = "insertRow"]
    BY <1>4 DEF InsertConversation, At
  <2>2. PICK n : n = Len(convs) + 1
    OBVIOUS
  <2>3. /\ call'[p].conv = n /\ call'[p].todo = b.who /\ call'[p].pc = "insertRow"
        /\ call'[p].op = "create" /\ call'[p].who = b.who /\ call'[p].flag = b.flag
    BY <1>0, <2>1, <2>2 DEF Call
  <2>4. /\ DOMAIN convs' = DOMAIN convs \cup {n} /\ n \notin DOMAIN convs
        /\ \A k \in DOMAIN convs : convs'[k] = convs[k]
        /\ convs'[n].type = IF b.flag THEN "group" ELSE "direct"
    BY <1>0, <2>1, <2>2
  <2>5. Directs(convs') \ {n} = Directs(convs)
    BY <2>4 DEF Directs
  <2>6. Making(b) = {} /\ Making(call'[p]) = {n}
    BY <2>1, <2>3 DEF Making
  <2>7. DirectOK(Making(call'[p]), convs', rows')
    BY <2>1, <2>5, <2>6 DEF DirectOK
  <2>8. ~b.flag => \A k \in Directs(convs) : Members(rows, k) # b.who
    BY <2>1 DEF MakerOK
  <2>9. RowsIn(rows, n) = {} /\ Members(rows, n) = {}
    BY <2>2, NewIsEmpty
  <2>10. ~b.flag => \E u, v : u # v /\ b.who = {u, v}
    BY <2>1 DEF MakerOK
  <2>11. ~b.flag => b.who # {} /\ ~AtLeastTwo(RowsIn(rows, n))
    BY <2>9, <2>10 DEF AtLeastTwo
  <2>12. MakerOK(call'[p], convs', rows')
    <3>1. PICK c : c = call'[p]
      OBVIOUS
    <3>2. convs'[c.conv].type = IF c.flag THEN "group" ELSE "direct"
      BY <2>3, <2>4, <3>1
    <3>3. ASSUME ~c.flag
          PROVE  /\ \E u, v : u # v /\ c.who = {u, v}
                 /\ \A k \in Directs(convs') \ {c.conv} : Members(rows', k) # c.who
                 /\ Members(rows', c.conv) = c.who \ c.todo
                 /\ c.todo \subseteq c.who /\ c.todo # {}
                 /\ ~AtLeastTwo(RowsIn(rows', c.conv))
      <4>1. c.conv = n /\ c.todo = b.who /\ c.who = b.who /\ ~b.flag
        BY <2>3, <3>1, <3>3
      <4>2. Members(rows', n) = {} /\ ~AtLeastTwo(RowsIn(rows', n))
        BY <2>1, <2>9, <2>11, <4>1
      <4>3. \A k \in Directs(convs') \ {n} : Members(rows', k) # b.who
        BY <2>1, <2>5, <2>8, <4>1
      <4> QED BY <2>10, <2>11, <4>1, <4>2, <4>3
    <3>4. c.pc = "insertRow" /\ c.op = "create"
      BY <2>3, <3>1
    <3>5. MakerOK(c, convs', rows')
      BY <3>2, <3>3, <3>4 DEF MakerOK
    <3> QED BY <3>1, <3>5
  <2> QED BY <2>7, <2>12
<1>5. CASE InsertRow(p)
  <2>1. b.op = "create" /\ b.pc = "insertRow" /\ UNCHANGED convs
    BY <1>5 DEF InsertRow, At
  <2>2. PICK u, role, todo, next :
             /\ u \in NextToInsert(p)
             /\ rows' = Append(rows, NewRow(b.conv, u, role))
             /\ call' = [call EXCEPT ![p].todo = todo, ![p].pc = next]
             /\ next = IF b.todo = {u} THEN "insertEvent" ELSE "insertRow"
             /\ todo = IF b.todo = {u} THEN b.who ELSE b.todo \ {u}
    BY <1>5 DEF InsertRow
  <2>3. /\ call'[p].todo = todo /\ call'[p].pc = next /\ call'[p].conv = b.conv
        /\ call'[p].op = "create" /\ call'[p].who = b.who /\ call'[p].flag = b.flag
    BY <1>0, <2>1, <2>2 DEF Call
  <2>4. u \in b.todo
    BY <2>2 DEF NextToInsert
  <2>5. PICK d : d = NewRow(b.conv, u, role)
    OBVIOUS
  <2>6. d.conv = b.conv /\ d.user = u /\ rows' = Append(rows, d)
    BY <2>2, <2>5 DEF NewRow
  <2>7. /\ \A c : c # b.conv => /\ RowsIn(rows', c) = RowsIn(rows, c)
                                /\ Members(rows', c) = Members(rows, c)
        /\ RowsIn(rows', b.conv) = RowsIn(rows, b.conv) \cup {Len(rows) + 1}
        /\ Members(rows', b.conv) = Members(rows, b.conv) \cup {u}
    BY <2>6, PairsGrow
  <2>8. Making(b) = {b.conv} /\ convs[b.conv].type = IF b.flag THEN "group" ELSE "direct"
    BY <2>1 DEF Making, MakerOK
  <2>9. ASSUME b.flag PROVE Goal
    <3>1. b.conv \notin Directs(convs)
      BY <2>8, <2>9 DEF Directs
    <3>2. DirectOK(Making(call'[p]), convs', rows')
      BY <2>1, <2>7, <2>8, <3>1 DEF DirectOK
    <3>3. MakerOK(call'[p], convs', rows')
      BY <2>1, <2>3, <2>8, <2>9 DEF MakerOK
    <3> QED BY <3>2, <3>3
  <2>10. ASSUME ~b.flag PROVE Goal
    <3>1. PICK x, y : x # y /\ b.who = {x, y}
      BY <2>1, <2>10 DEF MakerOK
    <3>2. /\ \A k \in Directs(convs) \ {b.conv} : Members(rows, k) # b.who
          /\ Members(rows, b.conv) = b.who \ b.todo
          /\ b.todo \subseteq b.who
      BY <2>1, <2>10 DEF MakerOK
    <3>3. CASE b.todo = {u}
      <4>1. next = "insertEvent" /\ Making(call'[p]) = {}
        BY <2>2, <2>3, <3>3 DEF Making
      <4>2. Members(rows', b.conv) = b.who
        BY <2>4, <2>7, <3>2, <3>3
      <4>3. AtLeastTwo(RowsIn(rows', b.conv))
        BY <3>1, <4>2, PairHasTwo
      <4>4. DirectOK({}, convs', rows')
        <5>1. \A c \in Directs(convs) : AtLeastTwo(RowsIn(rows', c))
          BY <2>7, <2>8, <4>3 DEF DirectOK
        <5>2. ASSUME NEW c \in Directs(convs), NEW k \in Directs(convs),
                     Members(rows', c) = Members(rows', k)
              PROVE  c = k
          BY <2>7, <2>8, <3>2, <4>2, <5>2 DEF DirectOK
        <5> QED BY <2>1, <5>1, <5>2 DEF DirectOK
      <4>5. MakerOK(call'[p], convs', rows')
        BY <2>3, <3>1, <4>1 DEF MakerOK
      <4> QED BY <4>1, <4>4, <4>5
    <3>4. CASE b.todo # {u}
      <4>1. next = "insertRow" /\ todo = b.todo \ {u} /\ Making(call'[p]) = {b.conv}
        BY <2>2, <2>3, <3>4 DEF Making
      <4>2. b.todo = b.who
        BY <2>4, <3>1, <3>2, <3>4
      <4>3. Members(rows, b.conv) = {} /\ RowsIn(rows, b.conv) = {}
        <5>1. Members(rows, b.conv) = {}
          BY <3>2, <4>2
        <5>2. \A i \in RowsIn(rows, b.conv) : rows[i].user \in Members(rows, b.conv)
          BY DEF Members
        <5> QED BY <5>1, <5>2
      <4>4. /\ Members(rows', b.conv) = b.who \ todo /\ todo \subseteq b.who /\ todo # {}
            /\ RowsIn(rows', b.conv) = {Len(rows) + 1}
        BY <2>4, <2>7, <3>4, <4>1, <4>2, <4>3
      <4>5. ~AtLeastTwo(RowsIn(rows', b.conv))
        BY <4>4 DEF AtLeastTwo
      <4>6. DirectOK({b.conv}, convs', rows')
        BY <2>1, <2>7, <2>8 DEF DirectOK
      <4>7. \A k \in Directs(convs) \ {b.conv} : Members(rows', k) # b.who
        BY <2>7, <3>2
      <4>8. MakerOK(call'[p], convs', rows')
        <5>1. PICK c : c = call'[p]
          OBVIOUS
        <5>2. /\ c.conv = b.conv /\ c.todo = todo /\ c.who = b.who /\ c.flag = b.flag
              /\ c.pc = "insertRow" /\ c.op = "create"
          BY <2>3, <4>1, <5>1
        <5>3. \E v, w : v # w /\ c.who = {v, w}
          BY <3>1, <5>2
        <5>4. convs'[c.conv].type = IF c.flag THEN "group" ELSE "direct"
          BY <2>1, <2>8, <5>2
        <5>5. \A k \in Directs(convs') \ {c.conv} : Members(rows', k) # c.who
          BY <2>1, <4>7, <5>2
        <5>6. MakerOK(c, convs', rows')
          BY <4>4, <4>5, <5>2, <5>3, <5>4, <5>5 DEF MakerOK
        <5> QED BY <5>1, <5>6
      <4> QED BY <4>1, <4>6, <4>8
    <3> QED BY <3>3, <3>4
  <2> QED BY <2>9, <2>10
<1> QED BY <1>2, <1>3, <1>4, <1>5

\* While requests are served one at a time and none fails, pairs of users stay with one direct
\* conversation.
LEMMA DirectStep == IInv /\ SoleInv /\ DirectInv /\ [Next]_vars => DirectInv'
<1> SUFFICES ASSUME IInv, SoleInv, DirectInv, [Next]_vars PROVE DirectInv'
  OBVIOUS
<1>1. CASE UNCHANGED <<store, call, opened, failures, overlap>>
  BY <1>1 DEF DirectInv, store
<1>2. ASSUME NEW p \in Procs, Request(p) \/ Step(p) \/ Fail(p), ~overlap', failures' = 0,
             NoThird(convs', rows')
      PROVE  /\ DirectOK(UNION {Making(call'[q]) : q \in Procs}, convs', rows')
             /\ \A q \in Procs : MakerOK(call'[q], convs', rows')
  <2>1. ~overlap /\ \A q \in Procs \ {p} : call[q] = Idle /\ call'[q] = Idle
    BY <1>2, OthersIdle
  <2>2. failures \in Nat
    BY DEF IInv, TypeOK
  <2>3. ~Fail(p) /\ failures = 0
    BY <1>2, <2>2, StepContinues, FailReturns, RequestStarts DEF world
  <2>4. Making(Idle) = {} /\ MakerOK(Idle, convs', rows')
    BY DEF Making, MakerOK, Idle
  <2>5. /\ UNION {Making(call[q]) : q \in Procs} = Making(call[p])
        /\ UNION {Making(call'[q]) : q \in Procs} = Making(call'[p])
    <3>1. \A q \in Procs \ {p} : Making(call[q]) = {} /\ Making(call'[q]) = {}
      BY <2>1, <2>4
    <3> QED BY <3>1
  <2>6. NoThird(convs, rows)
    <3>1. CASE Request(p)
      BY <1>2, <3>1, RequestStarts DEF store
    <3> QED BY <1>2, <2>3, <3>1, ThirdStays
  <2>7. DirectOK(Making(call[p]), convs, rows) /\ MakerOK(call[p], convs, rows)
    BY <2>1, <2>3, <2>5, <2>6 DEF DirectInv
  <2>8. ASSUME Request(p) PROVE DirectOK(Making(call'[p]), convs', rows')
                                /\ MakerOK(call'[p], convs', rows')
    <3>1. UNCHANGED <<convs, rows>> /\ call[p] = Idle /\ call'[p].pc # "insertRow"
      BY <2>8, RequestStarts DEF store
    <3>2. Making(call'[p]) = {}
      BY <3>1 DEF Making
    <3>3. MakerOK(call'[p], convs, rows)
      BY <2>8, <3>1, CreateStarts DEF MakerOK
    <3> QED BY <2>4, <2>7, <3>1, <3>2, <3>3
  <2>9. DirectOK(Making(call'[p]), convs', rows') /\ MakerOK(call'[p], convs', rows')
    BY <1>2, <2>3, <2>7, <2>8, PairStep
  <2> QED BY <2>1, <2>4, <2>5, <2>9
<1>3. ASSUME NEW p \in Procs, Request(p) \/ Step(p) \/ Fail(p) PROVE DirectInv'
  BY <1>2, <1>3 DEF DirectInv
<1> QED BY <1>1, <1>3, Turns

\* As long as requests are served one at a time, none fails and nobody was added to a direct
\* conversation, two users share at most one direct conversation: createConversation finds it.
THEOREM DirectsStayUnique == Spec => []SequentialDirectUnique
<1>1. Init => DirectInv /\ SoleInv
  <2> SUFFICES ASSUME Init PROVE DirectInv /\ SoleInv
    OBVIOUS
  <2>1. \A q \in Procs : call[q] = Idle
    BY DEF Init
  <2>2. Making(Idle) = {} /\ MakerOK(Idle, convs, rows)
    BY DEF Making, MakerOK, Idle
  <2>3. UNION {Making(call[q]) : q \in Procs} = {}
    BY <2>1, <2>2
  <2>4. PICK t \in Seeds, u \in Users, v \in Users : u # v /\ Seed(t, u, v)
    BY DEF Init
  <2>5. CASE t = "empty"
    <3>1. DOMAIN convs = {}
      BY <2>4, <2>5 DEF Seed
    <3> QED BY <2>1, <2>2, <2>3, <3>1 DEF DirectInv, DirectOK, Directs, SoleInv
  <2>6. CASE t # "empty"
    <3>1. DOMAIN convs = {1} /\ 1 \in RowsIn(rows, 1) /\ 2 \in RowsIn(rows, 1)
      BY <2>4, <2>6 DEF Seed, RowsIn
    <3>2. AtLeastTwo(RowsIn(rows, 1))
      BY <3>1 DEF AtLeastTwo
    <3> QED BY <2>1, <2>2, <2>3, <3>1, <3>2 DEF DirectInv, DirectOK, Directs, SoleInv
  <2> QED BY <2>5, <2>6
<1>2. IInv /\ SoleInv /\ DirectInv => SequentialDirectUnique
  <2> SUFFICES ASSUME IInv, SoleInv, DirectInv, ~overlap, failures = 0,
                      \A c \in DOMAIN convs : convs[c].type = "direct" => Cardinality(RowsOf(c)) <= 2,
                      NEW c \in DOMAIN convs, NEW d \in DOMAIN convs,
                      convs[c].type = "direct", Cardinality(RowsOf(c)) = 2,
                      convs[d].type = "direct", Cardinality(RowsOf(d)) = 2,
                      {rows[i].user : i \in RowsOf(c)} = {rows[i].user : i \in RowsOf(d)}
               PROVE  c = d
    BY DEF SequentialDirectUnique
  <2>0. rows \in Seq(Participant)
    BY DEF IInv, TypeOK
  <2>1. \A k : RowsOf(k) = RowsIn(rows, k) /\ IsFiniteSet(RowsIn(rows, k))
    <3>1. Len(rows) \in Nat /\ \A k : RowsIn(rows, k) \subseteq 1 .. Len(rows)
      BY <2>0 DEF RowsIn
    <3>2. IsFiniteSet(1 .. Len(rows))
      BY <3>1, FS_Interval
    <3> QED BY <3>1, <3>2, FS_Subset DEF RowsIn, RowsOf
  <2>2. NoThird(convs, rows)
    BY <2>1, CountTwo DEF NoThird, Directs
  <2>3. AtLeastTwo(RowsIn(rows, c)) /\ AtLeastTwo(RowsIn(rows, d))
    BY <2>1, CountTwo
  <2>4. Members(rows, c) = Members(rows, d) /\ c \in Directs(convs) /\ d \in Directs(convs)
    BY <2>1 DEF Members, Directs
  <2>5. ASSUME NEW q \in Procs, NEW k \in Making(call[q]), k \in Directs(convs)
        PROVE  ~AtLeastTwo(RowsIn(rows, k))
    <3>1. k = call[q].conv /\ call[q].op = "create" /\ call[q].pc = "insertRow"
      BY <2>5 DEF Making
    <3>2. MakerOK(call[q], convs, rows)
      BY <2>2 DEF DirectInv
    <3>3. ~call[q].flag
      BY <2>5, <3>1, <3>2 DEF MakerOK, Directs
    <3> QED BY <3>1, <3>2, <3>3 DEF MakerOK
  <2>6. c \notin UNION {Making(call[q]) : q \in Procs} /\ d \notin UNION {Making(call[q]) : q \in Procs}
    BY <2>3, <2>4, <2>5
  <2> QED BY <2>2, <2>4, <2>6 DEF DirectInv, DirectOK
<1> QED BY <1>1, <1>2, SoleStep, DirectStep, Invariance, PTL DEF Spec

-----------------------------------------------------------------------------
(* Unread counters, one request at a time.                                  *)

\* The awaits of a send between a message's insertion and the update of the others' counters.
Unannounced == {"saveFile", "touch", "own", "unread", "botTouch", "botUnread"}

\* The last message is one the handler c has not counted yet for the member of the row r.
Pending(c, r) ==
    c.op = "send" /\ c.pc \in Unannounced /\ c.conv = r.conv /\ c.user # r.user

FromOther(m, r, ms) == ms[m].conv = r.conv /\ ms[m].sender # r.user

\* The counter of the row r agrees with its lastRead, but for the last message if it is pending.
Counted(pending, r, ms) ==
    /\ r.unread = 0 => \A m \in DOMAIN ms : FromOther(m, r, ms) /\ m > r.joined =>
          \/ r.lastRead # 0 /\ ms[m].sentAt <= ms[r.lastRead].sentAt
          \/ pending /\ m = Len(ms)
    /\ r.unread > 0 => \E m \in DOMAIN ms : /\ FromOther(m, r, ms)
                                            /\ r.lastRead # 0 => ms[m].sentAt >= ms[r.lastRead].sentAt

\* The member of the row r never left, as far as the history ev tells.
Remained(r, ev) ==
    \A k \in DOMAIN ev : ev[k].conv = r.conv /\ ev[k].target = r.user =>
                              ev[k].type \in {"joined", "added"}

\* No message is newer than the last one, nor than the clock.
Timed(ms, now) ==
    \A m \in DOMAIN ms : ms[m].sentAt <= now /\ ms[m].sentAt <= ms[Len(ms)].sentAt

\* The message n is at least as recent as the others of the conversation c.
LatestOf(n, c, ms) ==
    n \in DOMAIN ms /\ \A k \in DOMAIN ms : ms[k].conv = c => ms[k].sentAt <= ms[n].sentAt

\* A conversation that has messages has a latest one.
HasLatest(ms) ==
    \A m \in DOMAIN ms : \E n \in DOMAIN ms : ms[n].conv = ms[m].conv /\ LatestOf(n, ms[m].conv, ms)

\* What sendMessage and markConversationRead know when they write messages and counters.
CounterOK(c, ms, now) ==
    /\ c.op = "send" /\ c.pc \in {"insert", "botInsert"} =>
          c.at <= now /\ \A m \in DOMAIN ms : ms[m].sentAt <= c.at
    /\ c.op = "send" /\ c.pc \in Unannounced =>
          Len(ms) \in DOMAIN ms /\ ms[Len(ms)].conv = c.conv /\ ms[Len(ms)].sender = c.user
    /\ c.op = "send" /\ c.pc \in {"saveFile", "touch", "own"} => c.msg = Len(ms)
    /\ c.op = "read" /\ c.pc = "own" => c.msg # 0 /\ LatestOf(c.msg, c.conv, ms)
    /\ c.op = "read" /\ c.pc = "zero" => \A k \in DOMAIN ms : ms[k].conv # c.conv

\* A row as the handler c leaves it.
RowCounted(c, r, ev, ms) ==
    /\ r.lastRead # 0 => r.lastRead \in DOMAIN ms
    /\ r.status = "active" /\ Remained(r, ev) => Counted(Pending(c, r), r, ms)

UnreadInv ==
    ~overlap /\ failures = 0 =>
        /\ Timed(msgs, clock) /\ HasLatest(msgs)
        /\ \A q \in Procs : CounterOK(call[q], msgs, clock)
        /\ \A i \in DOMAIN rows :
              \/ \E q \in Procs : call[q] # Idle /\ RowCounted(call[q], rows[i], events, msgs)
              \/ (\A q \in Procs : call[q] = Idle) /\ RowCounted(Idle, rows[i], events, msgs)

\* The messages ms2 are those of ms, but for what is seen.
SameMsgs(ms, ms2) ==
    /\ DOMAIN ms2 = DOMAIN ms /\ Len(ms2) = Len(ms)
    /\ \A m \in DOMAIN ms : /\ ms2[m].conv = ms[m].conv /\ ms2[m].sender = ms[m].sender
                            /\ ms2[m].sentAt = ms[m].sentAt

\* Marking messages as seen changes nothing that counters and times depend on.
LEMMA SameStays ==
    ASSUME NEW ms \in Seq(Message), NEW ms2, SameMsgs(ms, ms2), NEW now
    PROVE  /\ Timed(ms, now) => Timed(ms2, now)
           /\ HasLatest(ms) => HasLatest(ms2)
           /\ \A c : CounterOK(c, ms, now) => CounterOK(c, ms2, now)
           /\ \A r, pending : (r.lastRead # 0 => r.lastRead \in DOMAIN ms) /\ Counted(pending, r, ms)
                                => Counted(pending, r, ms2)
<1>1. Timed(ms, now) => Timed(ms2, now)
  <2>1. \A m \in DOMAIN ms : Len(ms) \in DOMAIN ms
    OBVIOUS
  <2> QED BY <2>1 DEF Timed, SameMsgs
<1>2. \A n, c : LatestOf(n, c, ms) => LatestOf(n, c, ms2)
  BY DEF LatestOf, SameMsgs
<1>3. HasLatest(ms) => HasLatest(ms2)
  BY <1>2 DEF HasLatest, SameMsgs
<1>4. ASSUME NEW c, CounterOK(c, ms, now) PROVE CounterOK(c, ms2, now)
  BY <1>2, <1>4 DEF CounterOK, SameMsgs
<1>5. ASSUME NEW r, NEW pending, r.lastRead # 0 => r.lastRead \in DOMAIN ms, Counted(pending, r, ms)
      PROVE  Counted(pending, r, ms2)
  <2>1. \A m \in DOMAIN ms : FromOther(m, r, ms2) <=> FromOther(m, r, ms)
    BY DEF FromOther, SameMsgs
  <2> QED BY <1>5, <2>1 DEF Counted, SameMsgs
<1> QED BY <1>1, <1>3, <1>4, <1>5

\* Time passes.
LEMMA TimePasses ==
    ASSUME NEW ms \in Seq(Message), NEW now \in Nat, NEW now2 \in Nat, now <= now2
    PROVE  /\ Timed(ms, now) => Timed(ms, now2)
           /\ \A c \in Call : CounterOK(c, ms, now) => CounterOK(c, ms, now2)
<1>1. \A m \in DOMAIN ms : ms[m].sentAt \in Nat
  <2>1. \A m \in DOMAIN ms : ms[m] \in Message
    OBVIOUS
  <2> QED BY <2>1 DEF Message
<1>2. Timed(ms, now) => Timed(ms, now2)
  BY <1>1 DEF Timed
<1>3. ASSUME NEW c \in Call, CounterOK(c, ms, now) PROVE CounterOK(c, ms, now2)
  <2>1. c.at \in Nat
    BY DEF Call
  <2> QED BY <1>3, <2>1 DEF CounterOK
<1> QED BY <1>2, <1>3

\* A message that is stamped after all others is the latest, and counts as unread for the others.
LEMMA MessageCounts ==
    ASSUME NEW ms \in Seq(Message), NEW d \in Message, NEW now \in Nat, Timed(ms, now), HasLatest(ms),
           d.sentAt <= now, \A m \in DOMAIN ms : ms[m].sentAt <= d.sentAt
    PROVE  /\ Timed(Append(ms, d), now) /\ HasLatest(Append(ms, d))
           /\ \A r, pending :
                 /\ r.lastRead # 0 => r.lastRead \in DOMAIN ms
                 /\ Counted(FALSE, r, ms)
                 /\ d.conv = r.conv /\ d.sender # r.user => pending
                 => Counted(pending, r, Append(ms, d))
<1> DEFINE ms2 == Append(ms, d)
           n == Len(ms) + 1
<1>1. /\ DOMAIN ms2 = DOMAIN ms \cup {n} /\ ms2[n] = d /\ Len(ms2) = n /\ n \notin DOMAIN ms
      /\ \A m \in DOMAIN ms : ms2[m] = ms[m]
  OBVIOUS
<1>2. d.sentAt \in Nat /\ \A m \in DOMAIN ms : ms[m].sentAt \in Nat
  <2>1. \A m \in DOMAIN ms : ms[m] \in Message
    OBVIOUS
  <2> QED BY <2>1 DEF Message
<1> HIDE DEF ms2, n
<1>3. Timed(ms2, now)
  BY <1>1, <1>2 DEF Timed
<1>4. HasLatest(ms2)
  <2> SUFFICES ASSUME NEW m \in DOMAIN ms2
               PROVE  \E k \in DOMAIN ms2 : ms2[k].conv = ms2[m].conv /\ LatestOf(k, ms2[m].conv, ms2)
    BY DEF HasLatest
  <2>1. CASE ms2[m].conv = d.conv
    <3>1. LatestOf(n, d.conv, ms2)
      BY <1>1, <1>2 DEF LatestOf
    <3> QED BY <1>1, <2>1, <3>1
  <2>2. CASE ms2[m].conv # d.conv
    <3>1. m \in DOMAIN ms /\ ms2[m] = ms[m]
      BY <1>1, <2>2
    <3>2. PICK k \in DOMAIN ms : ms[k].conv = ms[m].conv /\ LatestOf(k, ms[m].conv, ms)
      BY <3>1 DEF HasLatest
    <3>3. LatestOf(k, ms[m].conv, ms2)
      BY <1>1, <2>2, <3>1, <3>2 DEF LatestOf
    <3> QED BY <1>1, <3>1, <3>2, <3>3
  <2> QED BY <2>1, <2>2
<1>5. ASSUME NEW r, NEW pending, r.lastRead # 0 => r.lastRead \in DOMAIN ms, Counted(FALSE, r, ms),
             d.conv = r.conv /\ d.sender # r.user => pending
      PROVE  Counted(pending, r, ms2)
  <2>1. \A m \in DOMAIN ms : FromOther(m, r, ms2) <=> FromOther(m, r, ms)
    BY <1>1 DEF FromOther
  <2>2. FromOther(n, r, ms2) => pending
    BY <1>1, <1>5 DEF FromOther
  <2>3. r.unread = 0 => \A m \in DOMAIN ms2 : FromOther(m, r, ms2) /\ m > r.joined =>
          \/ r.lastRead # 0 /\ ms2[m].sentAt <= ms2[r.lastRead].sentAt
          \/ pending /\ m = Len(ms2)
    BY <1>1, <1>5, <2>1, <2>2 DEF Counted
  <2>4. r.unread > 0 => \E m \in DOMAIN ms2 :
            FromOther(m, r, ms2) /\ (r.lastRead # 0 => ms2[m].sentAt >= ms2[r.lastRead].sentAt)
    BY <1>1, <1>5, <2>1 DEF Counted
  <2> QED BY <2>3, <2>4 DEF Counted
<1> QED BY <1>3, <1>4, <1>5 DEF ms2

\* A step posts a message, or leaves the messages as they are but for what is seen.
LEMMA MessagesCount ==
    ASSUME IInv, NEW p \in Procs, Step(p)
    PROVE  SameMsgs(msgs, msgs') \/ InsertMessage(p) \/ BotInsert(p)
<1>0. msgs \in Seq(Message)
  BY DEF IInv, TypeOK
<1>1. CASE UNCHANGED msgs
  BY <1>1 DEF SameMsgs
<1>2. CASE ReadSeen(p)
  <2>1. msgs' = SeenUpTo(call[p])
    BY <1>2 DEF ReadSeen
  <2>2. DOMAIN msgs' = DOMAIN msgs
    BY <2>1 DEF SeenUpTo
  <2>3. msgs' \in Seq(Message)
    BY StepIInv DEF Next, IInv, TypeOK
  <2>4. Len(msgs') = Len(msgs)
    BY <1>0, <2>2, <2>3
  <2> QED BY <2>2, <2>4, MessagesMove DEF SameMsgs
<1> QED BY <1>1, <1>2, Writers

\* The counter, the position and the owner of a row are those of another.
SameCount(r, r2) ==
    /\ r2.conv = r.conv /\ r2.user = r.user /\ r2.joined = r.joined
    /\ r2.unread = r.unread /\ r2.lastRead = r.lastRead

\* The step of the handler b leaves the counter of the row r, and counts no message for it.
NotCounted(b, r, r2) ==
    /\ SameCount(r, r2)
    /\ r2.status = "active" => r.status = "active" \/ (b.op = "send" /\ b.pc = "restoreRow")
    /\ b.pc \in {"unread", "botUnread"} /\ r2.status = "active" => ~Pending(b, r)

\* The row r2 has just been made, after n messages.
Fresh(r2, n) == r2.unread = 0 /\ r2.lastRead = 0 /\ r2.joined = n

\* The step of the handler b counts the last message for the row r.
Incremented(b, r, r2) ==
    /\ Pending(b, r) /\ b.pc \in {"unread", "botUnread"} /\ r.status = "active"
    /\ r2.conv = r.conv /\ r2.user = r.user /\ r2.joined = r.joined
    /\ r2.lastRead = r.lastRead /\ r2.unread = r.unread + 1

\* The step of the handler b clears the counter of the row r.
Cleared(b, i, r, r2) ==
    /\ i = b.row /\ r2.conv = r.conv /\ r2.user = r.user /\ r2.joined = r.joined /\ r2.unread = 0
    /\ \/ b.op \in {"send", "read"} /\ b.pc = "own" /\ r2.lastRead = b.msg
       \/ b.op = "read" /\ b.pc = "zero" /\ r2.lastRead = r.lastRead

\* What a step does to the counters.
LEMMA RowsCount ==
    ASSUME IInv, NEW p \in Procs, Step(p), NEW i \in DOMAIN rows'
    PROVE  \/ i \in DOMAIN rows /\ NotCounted(call[p], rows[i], rows'[i])
           \/ Fresh(rows'[i], Len(msgs)) /\ UNCHANGED msgs
           \/ i \in DOMAIN rows /\ Incremented(call[p], rows[i], rows'[i]) /\ UNCHANGED msgs
           \/ i \in DOMAIN rows /\ Cleared(call[p], i, rows[i], rows'[i]) /\ UNCHANGED msgs
<1> DEFINE b == call[p]
           Goal == \/ i \in DOMAIN rows /\ NotCounted(b, rows[i], rows'[i])
                   \/ Fresh(rows'[i], Len(msgs)) /\ UNCHANGED msgs
                   \/ i \in DOMAIN rows /\ Incremented(b, rows[i], rows'[i]) /\ UNCHANGED msgs
                   \/ i \in DOMAIN rows /\ Cleared(b, i, rows[i], rows'[i]) /\ UNCHANGED msgs
<1>0. rows \in Seq(Participant) /\ b \in Call /\ Known(b, convs, rows)
  BY CallTyped DEF IInv, TypeOK
<1>1. ASSUME i \in DOMAIN rows, rows'[i] = rows[i], b.pc \notin {"unread", "botUnread"} PROVE Goal
  BY <1>1 DEF NotCounted, SameCount
<1>2. CASE UNCHANGED rows
  <2>1. CASE b.op = "send" /\ b.pc \in {"unread", "botUnread"}
    <3>1. rows' = IncrementOthers(b.conv, b.user)
      BY <2>1, SendSteps DEF IncrementUnread, BotUnread
    <3>2. i \in DOMAIN rows /\ rows[i] \in Participant
      BY <1>0, <1>2
    <3>3. Pending(b, rows[i]) /\ rows[i].status = "active" =>
              rows'[i] = [rows[i] EXCEPT !.unread = @ + 1]
      BY <3>1, <3>2 DEF IncrementOthers, Pending
    <3>4. rows[i] # [rows[i] EXCEPT !.unread = @ + 1]
      BY <3>2 DEF Participant
    <3> QED BY <1>2, <3>2, <3>3, <3>4 DEF NotCounted, SameCount
  <2>2. CASE ~(b.op = "send" /\ b.pc \in {"unread", "botUnread"})
    BY <1>2, <2>2 DEF NotCounted, SameCount, Pending
  <2> QED BY <2>1, <2>2
<1>3. ASSUME NEW d, rows' = Append(rows, d), Fresh(d, Len(msgs)), UNCHANGED msgs,
             b.pc \notin {"unread", "botUnread"}
      PROVE  Goal
  <2>1. (i \in DOMAIN rows /\ rows'[i] = rows[i]) \/ rows'[i] = d
    BY <1>0, <1>3
  <2> QED BY <1>1, <1>3, <2>1
<1>4. CASE InsertRow(p)
  <2>1. PICK u, role : rows' = Append(rows, NewRow(b.conv, u, role))
    BY <1>4 DEF InsertRow
  <2>2. b.pc = "insertRow" /\ UNCHANGED msgs
    BY <1>4 DEF InsertRow, At
  <2>3. Fresh(NewRow(b.conv, u, role), Len(msgs))
    BY DEF Fresh, NewRow
  <2> QED BY <1>3, <2>1, <2>2, <2>3
<1>5. CASE AddInsertRow(p)
  <2>1. rows' = Append(rows, NewRow(b.conv, b.peer, "member")) /\ b.pc = "insert" /\ UNCHANGED msgs
    BY <1>5 DEF AddInsertRow, At
  <2>2. Fresh(NewRow(b.conv, b.peer, "member"), Len(msgs))
    BY DEF Fresh, NewRow
  <2> QED BY <1>3, <2>1, <2>2
<1>6. CASE RemoveUpdate(p) \/ LeaveUpdate(p)
  <2>1. b.pc = "update"
    BY <1>6 DEF RemoveUpdate, LeaveUpdate, At
  <2>2. UNCHANGED rows \/ \E j, st : st # "active" /\ rows' = [rows EXCEPT ![j].status = st]
    BY <1>6 DEF RemoveUpdate, LeaveUpdate, UpdateStatus
  <2>3. ASSUME NEW j, NEW st, st # "active", rows' = [rows EXCEPT ![j].status = st] PROVE Goal
    <3>1. i \in DOMAIN rows /\ rows[i] \in Participant
      BY <1>0, <2>3
    <3>2. rows'[i] = rows[i] \/ rows'[i] = [rows[i] EXCEPT !.status = st]
      BY <1>0, <2>3, <3>1 DEF Participant
    <3>3. ASSUME rows'[i] = [rows[i] EXCEPT !.status = st] PROVE NotCounted(b, rows[i], rows'[i])
      BY <2>3, <3>1, <3>3 DEF NotCounted, SameCount, Participant
    <3> QED BY <1>1, <2>1, <3>1, <3>2, <3>3
  <2> QED BY <1>2, <2>2, <2>3
<1>7. CASE RestoreRow(p)
  <2>1. b.op = "send" /\ b.pc = "restoreRow"
    BY <1>7 DEF RestoreRow, At
  <2>2. PICK j : rows' = [rows EXCEPT ![j].status = "active"]
    BY <1>7 DEF RestoreRow
  <2>3. i \in DOMAIN rows /\ rows[i] \in Participant
    BY <1>0, <2>2
  <2>4. rows'[i] = rows[i] \/ rows'[i] = [rows[i] EXCEPT !.status = "active"]
    BY <1>0, <2>2, <2>3 DEF Participant
  <2>5. ASSUME rows'[i] = [rows[i] EXCEPT !.status = "active"] PROVE NotCounted(b, rows[i], rows'[i])
    BY <2>1, <2>3, <2>5 DEF NotCounted, SameCount, Participant
  <2> QED BY <1>1, <2>1, <2>3, <2>4, <2>5
<1>8. ASSUME NEW m, rows' = [rows EXCEPT ![b.row].lastRead = m, ![b.row].unread = 0], m = b.msg,
             b.op \in {"send", "read"}, b.pc = "own", UNCHANGED msgs
      PROVE  Goal
  <2>1. i \in DOMAIN rows /\ rows[i] \in Participant
    BY <1>0, <1>8
  <2>2. i # b.row => rows'[i] = rows[i]
    BY <1>8, <2>1
  <2>3. i = b.row => rows'[i] = [rows[i] EXCEPT !.lastRead = m, !.unread = 0]
    BY <1>0, <1>8, <2>1 DEF Participant
  <2>4. ASSUME i = b.row PROVE Cleared(b, i, rows[i], rows'[i])
    BY <1>8, <2>1, <2>3, <2>4 DEF Cleared, Participant
  <2> QED BY <1>1, <1>8, <2>1, <2>2, <2>4
<1>9. CASE OwnRow(p) \/ ReadOwn(p)
  <2>1. /\ rows' = [rows EXCEPT ![b.row].lastRead = b.msg, ![b.row].unread = 0]
        /\ b.op \in {"send", "read"} /\ b.pc = "own" /\ UNCHANGED msgs
    BY <1>9 DEF OwnRow, ReadOwn, At
  <2> QED BY <1>8, <2>1
<1>10. CASE ReadZero(p)
  <2>1. /\ rows' = [rows EXCEPT ![b.row].unread = 0] /\ UNCHANGED msgs
        /\ b.op = "read" /\ b.pc = "zero"
    BY <1>10 DEF ReadZero, At
  <2>2. i \in DOMAIN rows /\ rows[i] \in Participant
    BY <1>0, <2>1
  <2>3. i # b.row => rows'[i] = rows[i]
    BY <2>1, <2>2
  <2>4. i = b.row => rows'[i] = [rows[i] EXCEPT !.unread = 0]
    BY <1>0, <2>1, <2>2 DEF Participant
  <2>5. ASSUME i = b.row PROVE Cleared(b, i, rows[i], rows'[i])
    BY <2>1, <2>2, <2>4, <2>5 DEF Cleared, Participant
  <2> QED BY <1>1, <2>1, <2>2, <2>3, <2>5
<1>11. CASE IncrementUnread(p) \/ BotUnread(p)
  <2>1. /\ rows' = IncrementOthers(b.conv, b.user) /\ UNCHANGED msgs
        /\ b.op = "send" /\ b.pc \in {"unread", "botUnread"}
    BY <1>11 DEF IncrementUnread, BotUnread, At
  <2>2. i \in DOMAIN rows /\ rows[i] \in Participant
    BY <1>0, <2>1 DEF IncrementOthers
  <2>3. CASE Pending(b, rows[i]) /\ rows[i].status = "active"
    <3>1. rows'[i] = [rows[i] EXCEPT !.unread = @ + 1]
      BY <2>1, <2>2, <2>3 DEF IncrementOthers, Pending
    <3>2. Incremented(b, rows[i], rows'[i])
      BY <2>1, <2>2, <2>3, <3>1 DEF Incremented, Participant
    <3> QED BY <2>1, <2>2, <3>2
  <2>4. CASE ~(Pending(b, rows[i]) /\ rows[i].status = "active")
    <3>1. rows'[i] = rows[i]
      BY <2>1, <2>2, <2>4 DEF IncrementOthers, Pending, Unannounced
    <3>2. NotCounted(b, rows[i], rows'[i])
      BY <2>4, <3>1 DEF NotCounted, SameCount
    <3> QED BY <2>2, <3>2
  <2> QED BY <2>3, <2>4
<1> QED BY <1>2, <1>4, <1>5, <1>6, <1>7, <1>9, <1>10, <1>11, Writers

\* The steps between the insertion of a message and the update of the counters.
LEMMA PendingStays ==
    ASSUME IInv, NEW p \in Procs, Step(p), call[p].op = "send",
           call[p].pc \in Unannounced \ {"unread", "botUnread"}
    PROVE  /\ call'[p].op = "send" /\ call'[p].pc \in Unannounced /\ call'[p].conv = call[p].conv
           /\ call'[p].user = call[p].user /\ call'[p].msg = call[p].msg
           /\ call'[p].pc \in {"saveFile", "touch", "own"} =>
                 call[p].pc \in {"saveFile", "touch", "own"}
<1>0. call \in [Procs -> Call] /\ call[p] \in Call
  BY CallTyped DEF IInv, TypeOK
<1>1. PICK pc \in Unannounced :
          /\ Goto(p, pc)
          /\ pc \in {"saveFile", "touch", "own"} => call[p].pc \in {"saveFile", "touch", "own"}
  BY SendSteps DEF SaveFile, TouchConversation, OwnRow, BotTouch, Unannounced
<1>2. call'[p] = [call[p] EXCEPT !.pc = pc]
  BY <1>0, <1>1 DEF Goto
<1> QED BY <1>0, <1>1, <1>2 DEF Call

\* The message that a handler posts is stamped after all others.
LEMMA Posting ==
    ASSUME IInv, NEW p \in Procs, Step(p), InsertMessage(p) \/ BotInsert(p),
           CounterOK(call[p], msgs, clock)
    PROVE  /\ \E d \in Message : /\ msgs' = Append(msgs, d)
                                 /\ d.conv = call[p].conv /\ d.sender = call[p].user
                                 /\ d.sentAt <= clock /\ \A m \in DOMAIN msgs : msgs[m].sentAt <= d.sentAt
           /\ call[p].op = "send" /\ call[p].pc \in {"insert", "botInsert"}
           /\ call'[p].op = "send" /\ call'[p].pc \in {"saveFile", "touch", "botTouch"}
           /\ call'[p].conv = call[p].conv /\ call'[p].user = call[p].user
           /\ call'[p].pc # "botTouch" => call'[p].msg = Len(msgs) + 1
<1> DEFINE b == call[p]
<1>0. call \in [Procs -> Call] /\ b \in Call /\ Known(b, convs, rows)
  BY CallTyped DEF IInv, TypeOK
<1>1. b.op = "send" /\ b.pc \in {"insert", "botInsert"}
  BY DEF InsertMessage, BotInsert, At
<1>2. b.conv \in Nat /\ b.user \in Users /\ b.at \in Nat /\ b.file \in Nat
  BY <1>0, <1>1 DEF Call, Known
<1>3. PICK f \in Nat : msgs' = Append(msgs, NewMessage(b.conv, b.user, b.at, f))
  BY <1>2 DEF InsertMessage, BotInsert
<1>4. PICK d : d = NewMessage(b.conv, b.user, b.at, f)
  OBVIOUS
<1>5. d \in Message /\ d.conv = b.conv /\ d.sender = b.user /\ d.sentAt = b.at
  BY <1>2, <1>3, <1>4 DEF NewMessage, Message
<1>6. b.at <= clock /\ \A m \in DOMAIN msgs : msgs[m].sentAt <= b.at
  BY <1>1 DEF CounterOK
<1>7. CASE InsertMessage(p)
  <2>1. PICK n, next : /\ call' = [call EXCEPT ![p].msg = n, ![p].pc = next]
                       /\ n = Len(msgs) + 1 /\ next \in {"saveFile", "touch"}
    BY <1>7 DEF InsertMessage
  <2>2. call'[p] = [b EXCEPT !.msg = n, !.pc = next]
    BY <1>0, <2>1 DEF Call
  <2>3. /\ call'[p].op = b.op /\ call'[p].pc = next /\ call'[p].msg = n
        /\ call'[p].conv = b.conv /\ call'[p].user = b.user
    BY <1>0, <2>2 DEF Call
  <2> QED BY <1>1, <1>3, <1>4, <1>5, <1>6, <2>1, <2>3
<1>8. CASE BotInsert(p)
  <2>1. call'[p] = [b EXCEPT !.pc = "botTouch"]
    BY <1>0, <1>8 DEF BotInsert, Goto
  <2>2. /\ call'[p].op = b.op /\ call'[p].pc = "botTouch"
        /\ call'[p].conv = b.conv /\ call'[p].user = b.user
    BY <1>0, <2>1 DEF Call
  <2> QED BY <1>1, <1>3, <1>4, <1>5, <1>6, <2>2
<1> QED BY <1>7, <1>8

\* The clock and the messages stay in step, and so does what the handler knows of them.
LEMMA CounterStep ==
    ASSUME IInv, NEW p \in Procs, Step(p), Timed(msgs, clock), HasLatest(msgs),
           CounterOK(call[p], msgs, clock)
    PROVE  Timed(msgs', clock) /\ HasLatest(msgs') /\ CounterOK(call'[p], msgs', clock)
<1> DEFINE b == call[p]
<1>0. /\ call \in [Procs -> Call] /\ b \in Call /\ msgs \in Seq(Message) /\ clock \in Nat
  BY CallTyped DEF IInv, TypeOK
<1>1. CASE InsertMessage(p) \/ BotInsert(p)
  <2>1. PICK d \in Message : /\ msgs' = Append(msgs, d) /\ d.conv = b.conv /\ d.sender = b.user
                             /\ d.sentAt <= clock /\ \A m \in DOMAIN msgs : msgs[m].sentAt <= d.sentAt
    BY <1>1, Posting
  <2>2. Timed(msgs', clock) /\ HasLatest(msgs')
    BY <1>0, <2>1, MessageCounts
  <2>3. Len(msgs') = Len(msgs) + 1 /\ Len(msgs') \in DOMAIN msgs' /\ msgs'[Len(msgs')] = d
    BY <1>0, <2>1
  <2>4. CounterOK(call'[p], msgs', clock)
    BY <1>1, <2>1, <2>3, Posting DEF CounterOK
  <2> QED BY <2>2, <2>4
<1>2. CASE ~(InsertMessage(p) \/ BotInsert(p))
  <2>1. SameMsgs(msgs, msgs')
    BY <1>2, MessagesCount
  <2>2. Timed(msgs', clock) /\ HasLatest(msgs') /\ CounterOK(b, msgs', clock)
    BY <1>0, <2>1, SameStays
  <2>3. SUFFICES CounterOK(call'[p], msgs', clock)
    BY <2>2
  <2>4. CASE call'[p].op \notin {"send", "read"}
    BY <2>4 DEF CounterOK
  <2>5. ASSUME Continues(b, call'[p]), b.op = "send" PROVE CounterOK(call'[p], msgs', clock)
    <3>1. b.pc \notin {"insert", "botInsert"}
      BY <1>2, <2>5, SendSteps
    <3>2. CASE b.pc = "stamp"
      <4>1. call' = [call EXCEPT ![p].at = clock, ![p].pc = "insert"] /\ UNCHANGED msgs
        BY <2>5, <3>2, SendSteps DEF Stamp, store
      <4>2. call'[p].at = clock /\ call'[p].pc = "insert"
        BY <1>0, <4>1 DEF Call
      <4> QED BY <1>0, <4>1, <4>2 DEF CounterOK, Timed, Unannounced
    <3>3. CASE b.pc = "bot"
      <4>1. ~Return(p)
        BY <1>0, <2>5 DEF Return, Continues, Idle
      <4>2. call' = [call EXCEPT ![p].at = clock, ![p].pc = "botInsert"] /\ UNCHANGED msgs
        BY <2>5, <3>3, <4>1, SendSteps DEF BotAnswer, store
      <4>3. call'[p].at = clock /\ call'[p].pc = "botInsert"
        BY <1>0, <4>2 DEF Call
      <4> QED BY <1>0, <4>2, <4>3 DEF CounterOK, Timed, Unannounced
    <3>4. CASE b.pc \in Unannounced \ {"unread", "botUnread"}
      <4>1. /\ call'[p].pc \in Unannounced /\ call'[p].conv = b.conv
            /\ call'[p].user = b.user /\ call'[p].msg = b.msg /\ call'[p].op = "send"
            /\ call'[p].pc \in {"saveFile", "touch", "own"} => b.pc \in {"saveFile", "touch", "own"}
        BY <2>5, <3>4, PendingStays
      <4> QED BY <2>2, <2>5, <3>4, <4>1 DEF CounterOK, Unannounced
    <3>5. CASE b.pc \notin {"insert", "botInsert", "stamp", "bot"} \cup (Unannounced \ {"unread", "botUnread"})
      <4>1. call'[p].pc \notin {"insert", "botInsert"} \cup Unannounced /\ call'[p].op = "send"
        BY <2>5, <3>5 DEF Continues, Follows, Unannounced
      <4> QED BY <4>1 DEF CounterOK, Unannounced
    <3> QED BY <3>1, <3>2, <3>3, <3>4, <3>5
  <2>6. ASSUME Continues(b, call'[p]), b.op = "read" PROVE CounterOK(call'[p], msgs', clock)
    <3>1. CASE b.pc # "latest"
      <4>1. call'[p].pc \notin {"own", "zero"} /\ call'[p].op = "read"
        BY <2>6, <3>1 DEF Continues, Follows
      <4> QED BY <4>1 DEF CounterOK
    <3>2. CASE b.pc = "latest"
      <4>1. /\ RequireActiveParticipant(p) => b.pc = "guard"
            /\ ReadZero(p) => b.pc = "zero"
            /\ ReadOwn(p) => b.pc = "own"
            /\ ReadOthers(p) => b.pc = "others"
            /\ ReadSeen(p) => b.pc = "seen"
        BY Zenon DEF RequireActiveParticipant, ReadZero, ReadOwn, ReadOthers, ReadSeen, At
      <4>2. ReadLatest(p)
        BY <2>6, <3>2, <4>1, ReadSteps
      <4>3. UNCHANGED msgs /\ call'[p].conv = b.conv /\ call'[p].op = "read"
        <5>1. UNCHANGED store
          BY <4>2, Zenon DEF ReadLatest
        <5> QED BY <2>6, <5>1 DEF store, Continues
      <4>4. CASE LatestMessages(b.conv) = {} /\ Goto(p, "zero")
        <5>1. call'[p].pc = "zero"
          BY <1>0, <4>4 DEF Goto, Call
        <5>2. \A k \in DOMAIN msgs : msgs[k].conv # b.conv
          BY <4>4 DEF HasLatest, LatestOf, LatestMessages, MessagesOf
        <5> QED BY <4>3, <5>1, <5>2 DEF CounterOK
      <4>5. ASSUME NEW m \in LatestMessages(b.conv), NEW at,
                   call' = [call EXCEPT ![p].msg = m, ![p].at = at, ![p].pc = "own"]
            PROVE  CounterOK(call'[p], msgs', clock)
        <5>1. call'[p].msg = m /\ call'[p].pc = "own"
          BY <1>0, <4>5 DEF Call
        <5>2. LatestOf(m, b.conv, msgs) /\ m # 0
          BY <1>0 DEF LatestOf, LatestMessages, MessagesOf
        <5> QED BY <4>3, <5>1, <5>2 DEF CounterOK
      <4> QED BY <4>2, <4>4, <4>5, Zenon DEF ReadLatest
    <3> QED BY <3>1, <3>2
  <2>7. call'[p].op \in {"send", "read"} => Continues(b, call'[p]) /\ b.op \in {"send", "read"}
    BY StepContinues DEF Idle, Continues
  <2> QED BY <2>4, <2>5, <2>6, <2>7
<1> QED BY <1>1, <1>2

\* Rows that agree on what is counted are counted alike, and a pending message excuses more.
LEMMA CountedAlike ==
    ASSUME NEW r, NEW r2, SameCount(r, r2), NEW ms, NEW pending, NEW pending2, pending => pending2,
           Counted(pending, r, ms)
    PROVE  Counted(pending2, r2, ms)
<1>1. \A m : FromOther(m, r2, ms) <=> FromOther(m, r, ms)
  BY DEF FromOther, SameCount
<1> QED BY <1>1 DEF Counted, SameCount

\* A row whose member never left was active before the step.
LEMMA WasActive ==
    ASSUME IInv, AbsenceInv, failures = 0, NEW p \in Procs, Step(p),
           \A q \in Procs \ {p} : call[q] = Idle,
           NEW i \in DOMAIN rows, i \in DOMAIN rows', NotCounted(call[p], rows[i], rows'[i]),
           rows'[i].status = "active", Remained(rows'[i], events')
    PROVE  rows[i].status = "active" /\ Remained(rows[i], events)
<1>0. rows[i] \in Participant
  BY DEF IInv, TypeOK
<1>1. Remained(rows[i], events)
  BY EventsMove DEF Remained, NotCounted, SameCount
<1>2. ASSUME rows[i].status # "active" PROVE FALSE
  <2>1. call[p].op = "send"
    BY <1>2 DEF NotCounted
  <2>2. \A q \in Procs : call[q].op \notin {"leave", "remove"}
    BY <2>1 DEF Idle
  <2>3. PICK k \in DOMAIN events : /\ events[k].conv = rows[i].conv
                                   /\ events[k].target = rows[i].user
                                   /\ events[k].type = rows[i].status
    BY <1>2, <2>2 DEF AbsenceInv, Explained
  <2>4. rows[i].status \in {"left", "removed"}
    BY <1>0, <1>2 DEF Participant
  <2> QED BY <1>1, <2>3, <2>4 DEF Remained
<1> QED BY <1>1, <1>2

\* A row whose counter the step leaves alone is still counted.
LEMMA UncountedStep ==
    ASSUME IInv, NEW p \in Procs, Step(p), Timed(msgs, clock), HasLatest(msgs),
           CounterOK(call[p], msgs, clock), NEW r, NEW r2, NotCounted(call[p], r, r2),
           r2.status = "active", r.lastRead # 0 => r.lastRead \in DOMAIN msgs,
           Counted(Pending(call[p], r), r, msgs)
    PROVE  Counted(Pending(call'[p], r2), r2, msgs')
<1> DEFINE b == call[p]
<1>0. msgs \in Seq(Message) /\ clock \in Nat /\ SameCount(r, r2)
  BY DEF IInv, TypeOK, NotCounted
<1>1. Pending(call'[p], r2) <=> Pending(call'[p], r)
  BY <1>0 DEF Pending, SameCount
<1>2. SUFFICES Counted(Pending(call'[p], r), r, msgs')
  BY <1>0, <1>1, CountedAlike
<1>3. CASE InsertMessage(p) \/ BotInsert(p)
  <2>1. PICK d \in Message : /\ msgs' = Append(msgs, d) /\ d.conv = b.conv /\ d.sender = b.user
                             /\ d.sentAt <= clock /\ \A m \in DOMAIN msgs : msgs[m].sentAt <= d.sentAt
    BY <1>3, Posting
  <2>2. /\ ~Pending(b, r)
        /\ d.conv = r.conv /\ d.sender # r.user => Pending(call'[p], r)
    BY <1>3, <2>1, Posting DEF Pending, Unannounced
  <2>3. Counted(FALSE, r, msgs)
    BY <2>2 DEF Counted
  <2> QED BY <1>0, <2>1, <2>2, <2>3, MessageCounts
<1>4. CASE ~(InsertMessage(p) \/ BotInsert(p))
  <2>1. Counted(Pending(b, r), r, msgs')
    BY <1>0, <1>4, MessagesCount, SameStays
  <2>2. Pending(b, r) => Pending(call'[p], r)
    <3>1. ASSUME Pending(b, r) PROVE b.op = "send" /\ b.pc \in Unannounced \ {"unread", "botUnread"}
      BY <3>1 DEF NotCounted, Pending
    <3> QED BY <3>1, PendingStays DEF Pending
  <2>3. SameCount(r, r)
    BY DEF SameCount
  <2> QED BY <2>1, <2>2, <2>3, CountedAlike
<1> QED BY <1>3, <1>4

\* A row that the step makes, increments or clears agrees with the messages.
LEMMA CountedNow ==
    ASSUME IInv, NEW p \in Procs, Timed(msgs, clock), CounterOK(call[p], msgs, clock),
           NEW i \in DOMAIN rows, NEW r2, NEW pending,
           rows[i].lastRead # 0 => rows[i].lastRead \in DOMAIN msgs,
           Incremented(call[p], rows[i], r2) \/ Cleared(call[p], i, rows[i], r2)
    PROVE  Counted(pending, r2, msgs) /\ (r2.lastRead # 0 => r2.lastRead \in DOMAIN msgs)
<1> DEFINE b == call[p]
           r == rows[i]
<1>0. msgs \in Seq(Message) /\ r \in Participant /\ Known(b, convs, rows)
  BY DEF IInv, TypeOK, CallInv
<1>1. r.unread \in Nat /\ \A m \in DOMAIN msgs : msgs[m].sentAt \in Nat
  <2>1. \A m \in DOMAIN msgs : msgs[m] \in Message
    BY <1>0
  <2> QED BY <1>0, <2>1 DEF Participant, Message
<1>2. CASE Incremented(b, r, r2)
  <2>1. r2.unread # 0
    BY <1>1, <1>2 DEF Incremented
  <2>2. Len(msgs) \in DOMAIN msgs /\ FromOther(Len(msgs), r2, msgs)
    BY <1>2 DEF Incremented, Pending, CounterOK, FromOther
  <2>3. r2.lastRead # 0 => r2.lastRead \in DOMAIN msgs
    BY <1>2 DEF Incremented
  <2>4. r2.lastRead # 0 => msgs[Len(msgs)].sentAt >= msgs[r2.lastRead].sentAt
    BY <1>1, <2>2, <2>3 DEF Timed
  <2> QED BY <2>1, <2>2, <2>3, <2>4 DEF Counted
<1>3. CASE Cleared(b, i, r, r2)
  <2>1. /\ r2.unread = 0 /\ r2.conv = r.conv
        /\ \/ b.op = "send" /\ b.pc = "own" /\ r2.lastRead = b.msg
           \/ b.op = "read" /\ b.pc = "own" /\ r2.lastRead = b.msg
           \/ b.op = "read" /\ b.pc = "zero" /\ r2.lastRead = r.lastRead
    BY <1>3 DEF Cleared
  <2>2. r2.conv = b.conv
    BY <1>0, <1>3, <2>1 DEF Cleared, Known
  <2>3. CASE b.op = "send" /\ b.pc = "own" /\ r2.lastRead = b.msg
    <3>1. r2.lastRead = Len(msgs) /\ Len(msgs) \in DOMAIN msgs
      BY <2>3 DEF CounterOK, Unannounced
    <3>2. r2.lastRead # 0
      BY <1>0, <3>1
    <3> QED BY <2>1, <3>1, <3>2 DEF Counted, Timed
  <2>4. CASE b.op = "read" /\ b.pc = "own" /\ r2.lastRead = b.msg
    <3>1. r2.lastRead # 0 /\ LatestOf(r2.lastRead, r2.conv, msgs)
      BY <2>2, <2>4 DEF CounterOK
    <3> QED BY <2>1, <3>1 DEF Counted, LatestOf, FromOther
  <2>5. CASE b.op = "read" /\ b.pc = "zero" /\ r2.lastRead = r.lastRead
    <3>1. \A m \in DOMAIN msgs : ~FromOther(m, r2, msgs)
      BY <2>2, <2>5 DEF CounterOK, FromOther
    <3> QED BY <2>1, <2>5, <3>1 DEF Counted
  <2> QED BY <2>1, <2>3, <2>4, <2>5
<1> QED BY <1>2, <1>3

\* Every row agrees with the messages after the step, but for the message still to be counted.
LEMMA RowCountedStep ==
    ASSUME IInv, AbsenceInv, failures = 0, NEW p \in Procs, Step(p),
           \A q \in Procs \ {p} : call[q] = Idle, Timed(msgs, clock), HasLatest(msgs),
           CounterOK(call[p], msgs, clock),
           \A j \in DOMAIN rows : RowCounted(call[p], rows[j], events, msgs),
           NEW i \in DOMAIN rows'
    PROVE  RowCounted(call'[p], rows'[i], events', msgs')
<1> DEFINE b == call[p]
<1>0. msgs \in Seq(Message)
  BY DEF IInv, TypeOK
<1>1. ASSUME i \in DOMAIN rows, NotCounted(b, rows[i], rows'[i])
      PROVE  RowCounted(call'[p], rows'[i], events', msgs')
  <2>1. rows[i].lastRead # 0 => rows[i].lastRead \in DOMAIN msgs
    BY <1>1 DEF RowCounted
  <2>2. rows'[i].lastRead # 0 => rows'[i].lastRead \in DOMAIN msgs'
    BY <1>1, <2>1, MessagesMove DEF NotCounted, SameCount
  <2>3. ASSUME rows'[i].status = "active", Remained(rows'[i], events')
        PROVE  Counted(Pending(call'[p], rows'[i]), rows'[i], msgs')
    <3>1. rows[i].status = "active" /\ Remained(rows[i], events)
      BY <1>1, <2>3, WasActive
    <3>2. Counted(Pending(b, rows[i]), rows[i], msgs)
      BY <1>1, <3>1 DEF RowCounted
    <3> QED BY <1>1, <2>1, <2>3, <3>2, UncountedStep
  <2> QED BY <2>2, <2>3 DEF RowCounted
<1>2. ASSUME Fresh(rows'[i], Len(msgs)), UNCHANGED msgs
      PROVE  RowCounted(call'[p], rows'[i], events', msgs')
  <2>1. \A m \in DOMAIN msgs : ~(m > Len(msgs))
    BY <1>0
  <2> QED BY <1>2, <2>1 DEF Fresh, RowCounted, Counted
<1>3. ASSUME i \in DOMAIN rows, UNCHANGED msgs,
             Incremented(b, rows[i], rows'[i]) \/ Cleared(b, i, rows[i], rows'[i])
      PROVE  RowCounted(call'[p], rows'[i], events', msgs')
  <2>1. rows[i].lastRead # 0 => rows[i].lastRead \in DOMAIN msgs
    BY <1>3 DEF RowCounted
  <2>2. /\ Counted(Pending(call'[p], rows'[i]), rows'[i], msgs)
        /\ rows'[i].lastRead # 0 => rows'[i].lastRead \in DOMAIN msgs
    BY <1>3, <2>1, CountedNow
  <2> QED BY <1>3, <2>2 DEF RowCounted
<1> QED BY <1>1, <1>2, <1>3, RowsCount

\* The clock never goes back.
LEMMA ClockMoves ==
    ASSUME IInv, [Next]_vars
    PROVE  /\ clock \in Nat /\ clock' \in Nat /\ clock <= clock'
           /\ \A p \in Procs : Request(p) \/ Step(p) \/ Fail(p) => clock' = clock
<1>0. clock \in Nat
  BY DEF IInv, TypeOK
<1>1. ASSUME NEW p \in Procs, Request(p) \/ Step(p) \/ Fail(p) PROVE clock' = clock
  BY <1>1, RequestStarts, StepContinues DEF Fail, world
<1>2. CASE Tick
  BY <1>0, <1>1, <1>2 DEF Tick
<1>3. CASE Finished \/ UNCHANGED vars
  BY <1>0, <1>1, <1>3 DEF Finished, vars, world
<1> QED BY <1>0, <1>1, <1>2, <1>3 DEF Next

\* While requests are served one at a time and none fails, counters follow the messages.
LEMMA UnreadStep == IInv /\ AbsenceInv /\ SoleInv /\ UnreadInv /\ [Next]_vars => UnreadInv'
<1> SUFFICES ASSUME IInv, AbsenceInv, SoleInv, UnreadInv, [Next]_vars PROVE UnreadInv'
  OBVIOUS
<1>0. msgs \in Seq(Message) /\ call \in [Procs -> Call]
  BY DEF IInv, TypeOK
<1>1. CASE UNCHANGED <<store, call, opened, failures, overlap>>
  <2> SUFFICES ASSUME ~overlap, failures = 0
               PROVE  /\ Timed(msgs, clock') /\ HasLatest(msgs)
                      /\ \A q \in Procs : CounterOK(call[q], msgs, clock')
    BY <1>1 DEF UnreadInv, store
  <2>1. /\ Timed(msgs, clock) /\ HasLatest(msgs)
        /\ \A q \in Procs : CounterOK(call[q], msgs, clock)
    BY DEF UnreadInv
  <2> QED BY <1>0, <2>1, ClockMoves, TimePasses
<1>2. ASSUME NEW p \in Procs, Request(p) \/ Step(p) \/ Fail(p), ~overlap', failures' = 0
      PROVE  /\ Timed(msgs', clock') /\ HasLatest(msgs')
             /\ \A q \in Procs : CounterOK(call'[q], msgs', clock')
             /\ \A i \in DOMAIN rows' : RowCounted(call'[p], rows'[i], events', msgs')
             /\ \A q \in Procs \ {p} : call'[q] = Idle
  <2>1. ~overlap /\ \A q \in Procs \ {p} : call[q] = Idle /\ call'[q] = Idle
    BY <1>2, OthersIdle
  <2>2. failures \in Nat
    BY DEF IInv, TypeOK
  <2>3. ~Fail(p) /\ failures = 0
    BY <1>2, <2>2, StepContinues, FailReturns, RequestStarts DEF world
  <2>4. Timed(msgs, clock) /\ HasLatest(msgs) /\ CounterOK(call[p], msgs, clock)
    BY <2>1, <2>3 DEF UnreadInv
  <2>5. \A i \in DOMAIN rows : RowCounted(call[p], rows[i], events, msgs)
    BY <2>1, <2>3 DEF UnreadInv
  <2>6. \A ms, now : CounterOK(Idle, ms, now)
    BY DEF CounterOK, Idle
  <2>7. clock' = clock
    BY <1>2, ClockMoves
  <2>8. CASE Step(p)
    BY <2>1, <2>3, <2>4, <2>5, <2>6, <2>7, <2>8, CounterStep, RowCountedStep
  <2>9. CASE Request(p)
    <3>1. /\ UNCHANGED <<rows, events, msgs>> /\ call[p] = Idle
          /\ call'[p].pc \in {"guard", "insert", "find"}
          /\ call'[p].pc # "guard" => call'[p].op = "create"
      BY <2>9, RequestStarts DEF store
    <3>2. CounterOK(call'[p], msgs, clock)
      BY <3>1 DEF CounterOK, Unannounced
    <3>3. \A r : ~Pending(Idle, r) /\ ~Pending(call'[p], r)
      BY <3>1 DEF Pending, Idle, Unannounced
    <3>4. \A i \in DOMAIN rows : RowCounted(call'[p], rows[i], events, msgs)
      BY <2>5, <3>1, <3>3 DEF RowCounted, Counted
    <3> QED BY <2>1, <2>4, <2>6, <2>7, <3>1, <3>2, <3>4
  <2> QED BY <1>2, <2>3, <2>8, <2>9
<1>3. ASSUME NEW p \in Procs, Request(p) \/ Step(p) \/ Fail(p) PROVE UnreadInv'
  <2> SUFFICES ASSUME ~overlap', failures' = 0, NEW i \in DOMAIN rows'
               PROVE  \/ \E q \in Procs : call'[q] # Idle /\ RowCounted(call'[q], rows'[i], events', msgs')
                      \/ (\A q \in Procs : call'[q] = Idle) /\ RowCounted(Idle, rows'[i], events', msgs')
    BY <1>2, <1>3 DEF UnreadInv
  <2>1. RowCounted(call'[p], rows'[i], events', msgs') /\ \A q \in Procs \ {p} : call'[q] = Idle
    BY <1>2, <1>3
  <2> QED BY <2>1
<1> QED BY <1>1, <1>3, Turns

\* As long as requests are served one at a time and none fails, the unread counter of a member who
\* stayed agrees with the last message it read: it is zero only if nothing newer was sent by others,
\* and above zero only if something was.
THEOREM CountersAgree == Spec => []SequentialUnread
<1>1. Init => UnreadInv /\ SoleInv /\ AbsenceInv
  <2> SUFFICES ASSUME Init PROVE UnreadInv /\ SoleInv /\ AbsenceInv
    OBVIOUS
  <2>1. \A q \in Procs : call[q] = Idle
    BY DEF Init
  <2>2. DOMAIN msgs = {}
    BY DEF Init
  <2>3. \A i \in DOMAIN rows : rows[i].status = "active" /\ rows[i].unread = 0 /\ rows[i].lastRead = 0
    BY DEF Init, Seed
  <2>4. \A q \in Procs : CounterOK(call[q], msgs, clock)
    BY <2>1 DEF CounterOK, Idle
  <2>5. \A i \in DOMAIN rows : RowCounted(Idle, rows[i], events, msgs)
    BY <2>2, <2>3 DEF RowCounted, Counted
  <2> QED BY <2>1, <2>2, <2>3, <2>4, <2>5
      DEF UnreadInv, SoleInv, AbsenceInv, Explained, Timed, HasLatest
<1>2. IInv /\ UnreadInv => SequentialUnread
  <2> SUFFICES ASSUME IInv, UnreadInv, ~overlap, failures = 0, Quiescent, NEW i \in DOMAIN rows,
                      rows[i].status = "active", Stayed(i)
               PROVE  NoHiddenMessage(i) /\ NoPhantomMessage(i)
    BY DEF SequentialUnread
  <2>1. RowCounted(Idle, rows[i], events, msgs)
    BY DEF UnreadInv, Quiescent
  <2>2. ~Pending(Idle, rows[i])
    BY DEF Pending, Idle
  <2>3. Remained(rows[i], events)
    BY DEF Remained, Stayed
  <2>4. Counted(FALSE, rows[i], msgs)
    BY <2>1, <2>2, <2>3 DEF RowCounted, Counted
  <2>5. \A m : m \in FromOthers(i) <=> m \in DOMAIN msgs /\ FromOther(m, rows[i], msgs)
    BY DEF FromOthers, FromOther, MessagesOf
  <2> QED BY <2>4, <2>5 DEF Counted, NoHiddenMessage, NoPhantomMessage
<1> QED BY <1>1, <1>2, SoleStep, AbsenceStep, UnreadStep, Invariance, PTL DEF Spec
=============================================================================

------------------------ MODULE ConversationListProofs ------------------------
(***************************************************************************)
(* ListTrue holds in every reachable state of ConversationList.            *)
(*                                                                         *)
(* The inductive invariant says what makes the list right in the end while *)
(* handlers run, events are on their way and loads are under way:          *)
(*   - every message has an instant of its own (StampsOK);                 *)
(*   - a load that nothing overtook is of one instant (LoadsClean);        *)
(*   - while calm, a handler that runs alone in its conversation knows the *)
(*     server's state, and the last event of a conversation tells it       *)
(*     (CalmOK);                                                           *)
(*   - while calm, and no load is under way, an entry that no event is on  *)
(*     its way for is right, and one out of order is still to be put in    *)
(*     its place (ListOK).                                                 *)
(***************************************************************************)
EXTENDS ConversationList, FiniteSetTheorems, SequenceTheorems, SortingProofs, TLAPS

-----------------------------------------------------------------------------
(* Shapes, and the stamps of messages.                                     *)

Sends == {"peerSend", "mySend"}
Job == [kind : {"idle", "peerSend", "mySend", "peerRead", "myRead", "httpRead"},
        pc : {"idle", "touch", "count", "zero", "latest", "row", "emit", "answer"},
        conv : Convs \cup {None}, sent : Nat, at : Nat, n : Nat, to : BOOLEAN]
Event == [t : {"preview", "message", "read"}, conv : Convs, sent : Nat, at : Nat, n : Nat,
          kind : {"peerSend", "mySend", "peerRead", "myRead", "httpRead"}]
Item == [id : Convs, at : Nat, n : Nat]

\* Where a handler of each kind can be.
JobOK(j) ==
    /\ j \in Job
    /\ j = Idle \/ (j.conv \in Convs /\ j.kind # "idle" /\ j.pc # "idle")
    /\ j.pc \in {"touch", "count"} => j.kind \in Sends
    /\ j.pc = "zero" => j.kind \in {"myRead", "httpRead"}
    /\ j.pc \in {"latest", "row", "emit"} => j.kind # "httpRead"
    /\ j.pc = "answer" => j.kind = "httpRead"

LoadOK(l) == l = [pc |-> l.pc, rows |-> l.rows, items |-> l.items, drop |-> l.drop, clean |-> l.clean]

ServerOK ==
    /\ now \in Nat /\ active \subseteq Convs
    /\ latest \in [Convs -> Nat] /\ touched \in [Convs -> Nat] /\ unread \in [Convs -> Nat]
JobsOK == DOMAIN job = Slots /\ \A s \in Slots : JobOK(job[s])
LoadsOK == DOMAIN load = Loads /\ \A i \in Loads : LoadOK(load[i])
BrowserOK ==
    /\ selected \in Convs \cup {None} /\ inbox \in Seq(Event)
    /\ link \in BOOLEAN /\ calm \in BOOLEAN /\ (~link => inbox = <<>>)

ShapeOK == ServerOK /\ JobsOK /\ LoadsOK /\ BrowserOK

\* The instants that a conversation's stamps are, or are still to be, of.
Stamps(c) == {latest[c], touched[c]} \cup {job[s].sent : s \in {r \in Slots : job[r].conv = c /\ job[r].kind \in Sends}}
StampsOK ==
    /\ \A c \in Convs : \A x \in Stamps(c) : x <= now
    /\ \A c, d \in Convs : c # d => Stamps(c) \cap Stamps(d) = {}

-----------------------------------------------------------------------------
(* Loads.                                                                  *)

\* What a load that nothing overtook answers.
Fresh(items) ==
    /\ items \in Seq(Item) /\ Len(items) = Cardinality(active)
    /\ \A k \in DOMAIN items : items[k].id \in active
    /\ \A j, k \in DOMAIN items : items[j].id = items[k].id => j = k
    /\ \A c \in active : \E k \in DOMAIN items : items[k].id = c
    /\ \A k \in DOMAIN items : items[k].n = unread[items[k].id] /\ items[k].at = latest[items[k].id]
    /\ \A j, k \in DOMAIN items : j < k => touched[items[j].id] > touched[items[k].id]

CleanOK(l) ==
    l # NoLoad /\ l.clean =>
      /\ NoJobs
      /\ l.pc \in {"order", "latest"} => l.rows = [c \in active |-> unread[c]]
      /\ l.pc = "latest" => /\ l.items \in [1 .. Cardinality(active) -> active]
                            /\ \A j, k \in DOMAIN l.items : j < k => touched[l.items[j]] > touched[l.items[k]]
      /\ l.pc = "arrive" => Fresh(l.items)

LoadsClean == \A i \in Loads : CleanOK(load[i])
NoLoads == \A i \in Loads : load[i] = NoLoad

-----------------------------------------------------------------------------
(* The list, while calm.                                                   *)

Under(c) == \E s \in Slots : job[s].conv = c

\* The events that set a conversation's badge, and its instant.
Counts(q, c) == {k \in DOMAIN q : q[k].conv = c /\ (q[k].t = "preview" \/ (q[k].t = "read" /\ q[k].kind = "myRead"))}
Dates(q, c) == {k \in DOMAIN q : q[k].conv = c /\ q[k].t \in {"preview", "message"}}

\* The last of them sets it right.
CountsRight(q, c, n) ==
    \A k \in Counts(q, c) : (\A j \in Counts(q, c) : j <= k) =>
        IF q[k].t = "preview" THEN q[k].n = n ELSE n = 0
DatesRight(q, c, at) ==
    \A k \in Dates(q, c) : (\A j \in Dates(q, c) : j <= k) =>
        IF q[k].t = "preview" THEN q[k].at = at ELSE q[k].sent = at

Previewed(q, c) == \E k \in DOMAIN q : q[k].conv = c /\ q[k].t = "preview"
Expected(q, c) == Listed(c) \/ Previewed(q, c)

\* Events of c that are right, of a counter n and a message of the instant at.
Say(ev, c, n, at) ==
    /\ ev # <<>> /\ ev[1].t = "preview"
    /\ \A k \in DOMAIN ev :
         /\ ev[k].conv = c /\ ev[k].n = n /\ ev[k].at = at
         /\ (ev[k].t = "message" => ev[k].sent = at)
         /\ (ev[k].kind = "myRead" => n = 0)

\* What a handler that is alone in its conversation c knows of it: its latest
\* message, of the instant at, its counter n and the events q.
Knows(j, c, at, n, q) ==
    /\ j.kind \in Sends => j.sent = at
    /\ j.pc \in {"row", "emit"} => j.to /\ j.at = at
    /\ j.pc = "emit" => j.n = n
    /\ j.kind = "myRead" /\ j.pc \in {"latest", "row", "emit"} => n = 0
    /\ j.kind = "httpRead" => Counts(q, c) = {} /\ Dates(q, c) = {}
    /\ j.pc = "answer" => n = 0

Alone(s) == \A r \in Slots : job[r].conv = job[s].conv /\ job[s].conv # None => r = s
KnowsAll(s) == job[s].conv \in active => Knows(job[s], job[s].conv, latest[job[s].conv], unread[job[s].conv], inbox)
Told(c) == c \in active /\ ~Under(c) => CountsRight(inbox, c, unread[c]) /\ DatesRight(inbox, c, latest[c])

CalmOK ==
    calm =>
      /\ \A s \in Slots : Alone(s)
      /\ \A s \in Slots : KnowsAll(s)
      /\ \A c \in Convs : Told(c)

CountShown(c) == \A k \in DOMAIN list : list[k].id = c => list[k].n = unread[c]
DateShown(c) == \A k \in DOMAIN list : list[k].id = c => list[k].at = latest[c]

Descends == \A j, k \in DOMAIN list : j < k => list[j].at >= list[k].at

\* c's entry is still to be put in its place, or the server's order is wrong.
Misplaced(c) ==
    \/ touched[c] # latest[c]
    \/ \E s \in Slots : job[s].conv = c /\ job[s].kind # "httpRead"
    \/ Dates(inbox, c) # {}

RowsOK ==
    /\ list \in Seq(Item)
    /\ \A k \in DOMAIN list : list[k].id \in active
    /\ \A j, k \in DOMAIN list : list[j].id = list[k].id => j = k

\* What no event is on its way for is right, where no handler runs; what is not
\* listed, a preview brings.
Shown(c) ==
    c \in active /\ ~Under(c) =>
      /\ Expected(inbox, c)
      /\ (Counts(inbox, c) = {} => CountShown(c))
      /\ (Dates(inbox, c) = {} => DateShown(c))

ReadShown(s) == job[s].kind = "httpRead" /\ job[s].conv \in active => Listed(job[s].conv) /\ DateShown(job[s].conv)

ListOK ==
    /\ RowsOK
    /\ \A c \in Convs : Shown(c)
    /\ \A s \in Slots : ReadShown(s)
    /\ Descends \/ \E c \in active : Misplaced(c)

\* A list in which the entry of c is replaced, in order again.
Replaced(m, c, at, n) ==
    /\ m \in Seq(Item)
    /\ \A k \in DOMAIN m : \E j \in DOMAIN list :
         /\ m[k].id = list[j].id
         /\ (list[j].id # c => m[k] = list[j])
         /\ (list[j].id = c => m[k].at = at /\ m[k].n = n)
    /\ \A j \in DOMAIN list : \E k \in DOMAIN m : m[k].id = list[j].id
    /\ \A j, k \in DOMAIN m : m[j].id = m[k].id => j = k
    /\ \A j, k \in DOMAIN m : j < k => m[j].at >= m[k].at

ListInv ==
    /\ ShapeOK /\ StampsOK
    /\ LoadsClean
    /\ CalmOK
    /\ calm /\ NoLoads => ListOK

-----------------------------------------------------------------------------
(* Shapes.                                                                 *)

\* The page has just been opened: no handler runs, and the list is being loaded.
LEMMA InitShape == Init => ShapeOK
<1> SUFFICES ASSUME Init PROVE ShapeOK
  OBVIOUS
<1>1. Cardinality(Convs) \in Nat /\ First \in [Convs -> Nat]
  <2>1. Cardinality(Convs) \in Nat
    BY FirstAssumption, FS_CardinalityType
  <2> QED BY <2>1, FirstAssumption
<1>2. JobsOK
  BY DEF Init, JobsOK, Idle, Handler, Job, JobOK
<1>3. LoadsOK
  BY DEF Init, LoadsOK, LoadOK, NewLoad, NoLoad, LoadAt
<1>4. ServerOK
  BY <1>1 DEF Init, ServerOK
<1>5. BrowserOK
  <2>1. <<>> \in Seq(Event)
    OBVIOUS
  <2> QED BY <2>1, Zenon DEF Init, BrowserOK
<1> QED BY <1>2, <1>3, <1>4, <1>5 DEF ShapeOK

\* A handler moves on.
LEMMA JobMoves ==
    ASSUME NEW j, JobOK(j), j.pc # "idle", NEW l \in Job, l.conv = j.conv, l.kind = j.kind,
           l.pc \in {"count", "latest", "row", "emit", "answer"},
           l.pc = "count" => j.kind \in Sends,
           l.pc \in {"latest", "row", "emit"} => j.kind # "httpRead",
           l.pc = "answer" => j.kind = "httpRead"
    PROVE  JobOK(l)
BY DEF JobOK, Idle, Handler

\* One handler's state changes.
LEMMA JobSet ==
    ASSUME JobsOK, NEW s \in Slots, NEW j, JobOK(j), job' = [job EXCEPT ![s] = j]
    PROVE  JobsOK' /\ job'[s] = j /\ \A r \in Slots : r # s => job'[r] = job[r]
BY DEF JobsOK

\* A slot that no handler runs in.
LEMMA IdleOK == JobOK(Idle)
BY DEF JobOK, Idle, Handler, Job

\* No load that is under way is of one instant any more.
LEMMA OvertakenLoads ==
    ASSUME ShapeOK
    PROVE  /\ DOMAIN Overtaken = Loads
           /\ \A i \in Loads : /\ LoadOK(Overtaken[i]) /\ (Overtaken[i].clean => Overtaken[i] = NoLoad)
                              /\ (Overtaken[i] = NoLoad <=> load[i] = NoLoad)
<1>1. ASSUME NEW i \in Loads
      PROVE  LoadOK(Overtaken[i]) /\ (Overtaken[i].clean => Overtaken[i] = NoLoad) /\ (Overtaken[i] = NoLoad <=> load[i] = NoLoad)
  <2>1. LoadOK(load[i]) /\ Overtaken[i] = [load[i] EXCEPT !.clean = (load[i] = NoLoad)]
    BY DEF ShapeOK, LoadsOK, Overtaken
  <2>2. Overtaken[i] = [pc |-> load[i].pc, rows |-> load[i].rows, items |-> load[i].items, drop |-> load[i].drop,
                    clean |-> (load[i] = NoLoad)]
    BY <2>1 DEF LoadOK
  <2>3. CASE load[i] = NoLoad
    <3>1. Overtaken[i] = [pc |-> NoLoad.pc, rows |-> NoLoad.rows, items |-> NoLoad.items, drop |-> NoLoad.drop, clean |-> TRUE]
      BY <2>2, <2>3, Zenon
    <3>2. Overtaken[i] = NoLoad
      BY <3>1 DEF NoLoad, LoadAt
    <3> QED BY <2>1, <2>3, <3>2
  <2>4. CASE load[i] # NoLoad
    <3>1. Overtaken[i] = [pc |-> load[i].pc, rows |-> load[i].rows, items |-> load[i].items, drop |-> load[i].drop,
                      clean |-> FALSE]
      BY <2>2, <2>4, Zenon
    <3>2. ~Overtaken[i].clean /\ LoadOK(Overtaken[i])
      BY <3>1 DEF LoadOK
    <3> QED BY <2>4, <3>2 DEF NoLoad, LoadAt
  <2> QED BY <2>3, <2>4
<1> QED BY <1>1 DEF Overtaken

\* A handler starts.
LEMMA Begins ==
    ASSUME ShapeOK, NEW s \in Slots, NEW c \in Convs, NEW sent \in Nat, NEW kind, NEW pc,
           \/ kind \in Sends /\ pc = "touch"
           \/ kind \in {"myRead", "httpRead"} /\ pc = "zero"
           \/ kind = "peerRead" /\ pc = "latest",
           Begin(s, kind, pc, c, sent)
    PROVE  /\ JobsOK' /\ LoadsOK' /\ calm' \in BOOLEAN /\ job[s] = Idle
           /\ job'[s] = Handler(kind, pc, c, sent)
           /\ \A r \in Slots : r # s => job'[r] = job[r]
           /\ calm' => calm /\ \A r \in Slots : job[r].conv # c
           /\ \A i \in Loads : load'[i].clean => load'[i] = NoLoad
           /\ \A i \in Loads : load'[i] = NoLoad <=> load[i] = NoLoad
<1> DEFINE j == Handler(kind, pc, c, sent)
<1>2. JobOK(j)
  <2>1. j \in Job
    BY DEF Job, Sends, Handler
  <2> QED BY <2>1 DEF JobOK, Sends, Handler
<1>3. job' = [job EXCEPT ![s] = j] /\ load' = Overtaken /\ job[s] = Idle
  BY Zenon DEF Begin
<1>4. calm' = (calm /\ \A r \in Slots : job[r].conv # c)
  BY DEF Begin
<1> HIDE DEF j
<1>5. JobsOK' /\ job'[s] = j /\ \A r \in Slots : r # s => job'[r] = job[r]
  BY <1>2, <1>3, JobSet DEF ShapeOK
<1>6. /\ DOMAIN load' = Loads
      /\ \A i \in Loads : LoadOK(load'[i]) /\ (load'[i].clean => load'[i] = NoLoad) /\ (load'[i] = NoLoad <=> load[i] = NoLoad)
  BY <1>3, OvertakenLoads
<1>7. LoadsOK'
  BY <1>6 DEF LoadsOK
<1> QED BY <1>3, <1>4, <1>5, <1>6, <1>7 DEF ShapeOK, BrowserOK, j

\* A handler goes from one await to the next.
LEMMA Moves ==
    ASSUME ShapeOK, NEW s \in Slots, Touch(s) \/ Count(s) \/ Zero(s) \/ ReadLatest(s) \/ ReadRow(s)
    PROVE  /\ JobsOK' /\ job[s].conv \in Convs /\ job[s].pc # "idle" /\ job'[s].pc # "idle"
           /\ \A r \in Slots : r # s => job'[r] = job[r]
           /\ job'[s].conv = job[s].conv /\ job'[s].kind = job[s].kind /\ job'[s].sent = job[s].sent
           /\ Touch(s) => job'[s].pc = "count" /\ job[s].kind \in Sends
           /\ Count(s) => job'[s].pc = "latest" /\ job[s].kind \in Sends
           /\ Zero(s) => /\ job[s].kind \in {"myRead", "httpRead"}
                        /\ job'[s].pc = IF job[s].kind = "httpRead" THEN "answer" ELSE "latest"
           /\ ReadLatest(s) => /\ job'[s].pc = "row" /\ job[s].kind # "httpRead"
                              /\ job'[s].to = (job[s].conv \in active) /\ job'[s].at = latest[job[s].conv]
           /\ ReadRow(s) => /\ job'[s].pc = "emit" /\ job[s].kind # "httpRead"
                           /\ job'[s].to = job[s].to /\ job'[s].at = job[s].at /\ job[s].pc = "row"
                           /\ job'[s].n = IF job[s].conv \in active THEN unread[job[s].conv] ELSE 0
<1> DEFINE j == job[s]
           l == job'[s]
<1>1. JobsOK /\ JobOK(j) /\ ServerOK
  BY DEF ShapeOK, JobsOK
<1>2. j \in Job /\ DOMAIN job = Slots
  BY <1>1 DEF JobOK, JobsOK
<1>3. j.pc # "idle" => j.conv \in Convs
  BY <1>1 DEF JobOK, Idle, Handler
<1>4. CASE Touch(s)
  <2>1. j.pc = "touch" /\ job' = [job EXCEPT ![s].pc = "count"]
    BY <1>4 DEF Touch, Step
  <2>2. j.kind \in Sends /\ j.pc # "idle"
    BY <1>1, <2>1 DEF JobOK
  <2>3. l \in Job
    BY <1>2, <2>1 DEF Job
  <2>b. l.pc = "count" /\ l.kind = j.kind /\ l.conv = j.conv /\ l.sent = j.sent
    BY <1>2, <2>1 DEF Job
  <2>4. JobOK(l)
    BY <1>1, <2>2, <2>3, <2>b, JobMoves
  <2>5. JobsOK' /\ \A r \in Slots : r # s => job'[r] = job[r]
    BY <1>1, <2>1, <2>4 DEF JobsOK
  <2>6. ~Count(s) /\ ~Zero(s) /\ ~ReadLatest(s) /\ ~ReadRow(s)
    BY <2>1 DEF Count, Zero, ReadLatest, ReadRow, Step
  <2> QED BY <1>3, <2>2, <2>b, <2>5, <2>6
<1>5. CASE Count(s)
  <2>1. j.pc = "count" /\ job' = [job EXCEPT ![s].pc = "latest"]
    BY <1>5 DEF Count, Step
  <2>2. j.kind \in Sends /\ j.pc # "idle" /\ j.kind # "httpRead"
    BY <1>1, <2>1 DEF JobOK, Sends
  <2>3. l \in Job
    BY <1>2, <2>1 DEF Job
  <2>b. l.pc = "latest" /\ l.kind = j.kind /\ l.conv = j.conv /\ l.sent = j.sent
    BY <1>2, <2>1 DEF Job
  <2>4. JobOK(l)
    BY <1>1, <2>2, <2>3, <2>b, JobMoves
  <2>5. JobsOK' /\ \A r \in Slots : r # s => job'[r] = job[r]
    BY <1>1, <2>1, <2>4 DEF JobsOK
  <2>6. ~Touch(s) /\ ~Zero(s) /\ ~ReadLatest(s) /\ ~ReadRow(s)
    BY <2>1 DEF Touch, Zero, ReadLatest, ReadRow, Step
  <2> QED BY <1>3, <2>2, <2>b, <2>5, <2>6
<1>6. CASE Zero(s)
  <2> DEFINE to == IF j.kind = "httpRead" THEN "answer" ELSE "latest"
  <2>0. to \in {"answer", "latest"}
    OBVIOUS
  <2>1. j.pc = "zero" /\ job' = [job EXCEPT ![s].pc = to]
    BY <1>6 DEF Zero, Step
  <2> HIDE DEF to
  <2>2. j.kind \in {"myRead", "httpRead"} /\ j.pc # "idle"
    BY <1>1, <2>1 DEF JobOK
  <2>3. l \in Job
    BY <1>2, <2>0, <2>1 DEF Job
  <2>b. l.pc = to /\ l.kind = j.kind /\ l.conv = j.conv /\ l.sent = j.sent
    BY <1>2, <2>1 DEF Job
  <2>4. JobOK(l)
    BY <1>1, <2>2, <2>3, <2>b, JobMoves DEF to
  <2>5. JobsOK' /\ \A r \in Slots : r # s => job'[r] = job[r]
    BY <1>1, <2>1, <2>4 DEF JobsOK
  <2>6. ~Touch(s) /\ ~Count(s) /\ ~ReadLatest(s) /\ ~ReadRow(s)
    BY <2>1 DEF Touch, Count, ReadLatest, ReadRow, Step
  <2>7. to # "idle"
    BY DEF to
  <2> QED BY <1>3, <2>2, <2>b, <2>5, <2>6, <2>7 DEF to
<1>7. CASE ReadLatest(s)
  <2> DEFINE b == j.conv \in active
             at == latest[j.conv]
  <2>1. j.pc = "latest" /\ job' = [job EXCEPT ![s].pc = "row", ![s].to = b, ![s].at = at]
    BY <1>7 DEF ReadLatest
  <2>2. j.kind # "httpRead" /\ j.pc # "idle" /\ j.conv \in Convs
    BY <1>1, <1>3, <2>1 DEF JobOK
  <2>a. b \in BOOLEAN /\ at \in Nat
    BY <1>1, <2>2 DEF ServerOK
  <2> HIDE DEF b, at
  <2>3. l \in Job
    <3>1. [job[s] EXCEPT !.pc = "row"] \in Job
      BY <1>2 DEF Job
    <3>2. [[job[s] EXCEPT !.pc = "row"] EXCEPT !.to = b] \in Job
      BY <2>a, <3>1 DEF Job
    <3>3. l = [[[job[s] EXCEPT !.pc = "row"] EXCEPT !.to = b] EXCEPT !.at = at]
      BY <1>2, <2>1
    <3> QED BY <2>a, <3>2, <3>3 DEF Job
  <2>b. l.pc = "row" /\ l.kind = j.kind /\ l.conv = j.conv /\ l.sent = j.sent /\ l.to = b /\ l.at = at
    BY <1>2, <2>1 DEF Job
  <2>4. JobOK(l)
    BY <1>1, <2>2, <2>3, <2>b, JobMoves
  <2>5. JobsOK' /\ \A r \in Slots : r # s => job'[r] = job[r]
    BY <1>1, <2>1, <2>4 DEF JobsOK
  <2>6. ~Touch(s) /\ ~Count(s) /\ ~Zero(s) /\ ~ReadRow(s)
    BY <2>1 DEF Touch, Count, Zero, ReadRow, Step
  <2> QED BY <1>3, <2>2, <2>b, <2>5, <2>6 DEF b, at
<1>8. CASE ReadRow(s)
  <2> DEFINE n == IF j.conv \in active THEN unread[j.conv] ELSE 0
  <2>1. j.pc = "row" /\ job' = [job EXCEPT ![s].pc = "emit", ![s].n = n]
    BY <1>8 DEF ReadRow
  <2>2. j.kind # "httpRead" /\ j.pc # "idle" /\ j.conv \in Convs
    BY <1>1, <1>3, <2>1 DEF JobOK
  <2>a. n \in Nat
    BY <1>1, <2>2 DEF ServerOK
  <2> HIDE DEF n
  <2>3. l \in Job
    BY <1>2, <2>1, <2>a DEF Job
  <2>b. l.pc = "emit" /\ l.kind = j.kind /\ l.conv = j.conv /\ l.sent = j.sent /\ l.n = n /\ l.to = j.to /\ l.at = j.at
    BY <1>2, <2>1 DEF Job
  <2>4. JobOK(l)
    BY <1>1, <2>2, <2>3, <2>b, JobMoves
  <2>5. JobsOK' /\ \A r \in Slots : r # s => job'[r] = job[r]
    BY <1>1, <2>1, <2>4 DEF JobsOK
  <2>6. ~Touch(s) /\ ~Count(s) /\ ~Zero(s) /\ ~ReadLatest(s)
    BY <2>1 DEF Touch, Count, Zero, ReadLatest, Step
  <2> QED BY <1>3, <2>1, <2>2, <2>b, <2>5, <2>6 DEF n
<1> QED BY <1>4, <1>5, <1>6, <1>7, <1>8

\* What a handler tells: first the preview, if Me is a participant.
LEMMA Emitted ==
    ASSUME ShapeOK, NEW s \in Slots, job[s].pc = "emit"
    PROVE  LET j == job[s]
               ev == Events(j)
           IN /\ ev \in Seq(Event) /\ j.conv \in Convs /\ j.kind # "httpRead"
              /\ \A k \in DOMAIN ev : ev[k].conv = j.conv /\ ev[k].sent = j.sent /\ ev[k].at = j.at /\ ev[k].n = j.n
                                        /\ ev[k].kind = j.kind
              /\ \A k \in DOMAIN ev : (ev[k].t = "message" => j.kind \in Sends) /\ (ev[k].t = "preview" => j.to)
              /\ j.to => (ev # <<>> /\ ev[1].t = "preview")
<1> DEFINE j == job[s]
           event(t) == [t |-> t, conv |-> j.conv, sent |-> j.sent, at |-> j.at, n |-> j.n, kind |-> j.kind]
           heard == j.to \/ room = j.conv
           x == IF j.to THEN <<event("preview")>> ELSE <<>>
           y == IF j.kind \in {"peerSend", "mySend"} /\ heard THEN <<event("message")>> ELSE <<>>
           z == IF j.kind = "myRead" \/ (j.kind = "peerRead" /\ room = j.conv) THEN <<event("read")>> ELSE <<>>
           V == {event(t) : t \in {"preview", "message", "read"}}
<1>1. JobOK(j) /\ j \in Job
  BY DEF ShapeOK, JobsOK, JobOK
<1>2. j.conv \in Convs /\ j.kind # "httpRead" /\ j.kind # "idle"
  BY <1>1 DEF JobOK, Idle, Handler
<1>3. event("preview") \in Event /\ event("message") \in Event /\ event("read") \in Event
  <2>1. /\ j.kind \in {"peerSend", "mySend", "peerRead", "myRead", "httpRead"}
        /\ j.sent \in Nat /\ j.at \in Nat /\ j.n \in Nat
    BY <1>1, <1>2 DEF Job
  <2> HIDE DEF j
  <2> QED BY <1>2, <2>1 DEF Event
<1>4. Events(j) = x \o y \o z
  BY DEF Events
<1>5. \A t \in {"preview", "message", "read"} :
        /\ event(t).t = t /\ event(t).conv = j.conv /\ event(t).sent = j.sent /\ event(t).at = j.at /\ event(t).n = j.n
        /\ event(t).kind = j.kind
  OBVIOUS
<1> HIDE DEF j, event
<1>6. /\ x \in Seq(Event) /\ (j.to => Len(x) = 1 /\ x[1] = event("preview")) /\ (~j.to => x = <<>>)
      /\ y \in Seq(Event) /\ (Len(y) = 0 \/ (Len(y) = 1 /\ y[1] = event("message") /\ j.kind \in Sends))
      /\ z \in Seq(Event) /\ (Len(z) = 0 \/ (Len(z) = 1 /\ z[1] = event("read")))
      /\ (Len(x) = 0 \/ Len(x) = 1)
  BY <1>3 DEF Sends
<1> HIDE DEF x, y, z
<1>7. x \o y \in Seq(Event) /\ Len(x \o y) = Len(x) + Len(y)
      /\ \A k \in 1 .. Len(x) + Len(y) : (x \o y)[k] = IF k <= Len(x) THEN x[k] ELSE y[k - Len(x)]
  BY <1>6
<1> DEFINE ev == x \o y \o z
<1>8. /\ ev \in Seq(Event) /\ Len(ev) = Len(x) + Len(y) + Len(z)
      /\ \A k \in 1 .. Len(ev) : ev[k] = IF k <= Len(x) + Len(y) THEN (x \o y)[k] ELSE z[k - (Len(x) + Len(y))]
  BY <1>6, <1>7
<1> HIDE DEF ev
<1>9. ASSUME NEW k \in DOMAIN ev
      PROVE  \/ ev[k] = event("preview") /\ j.to
             \/ ev[k] = event("message") /\ j.kind \in Sends
             \/ ev[k] = event("read")
  <2>1. k \in 1 .. Len(ev) /\ Len(x) \in Nat /\ Len(y) \in Nat /\ Len(z) \in Nat
    BY <1>6, <1>8, SMTT(30)
  <2>2. CASE k <= Len(x)
    <3>1. ev[k] = x[k] /\ k = 1 /\ j.to
      BY <1>6, <1>7, <1>8, <2>1, <2>2
    <3> QED BY <1>6, <3>1
  <2>3. CASE k > Len(x) /\ k <= Len(x) + Len(y)
    <3>1. ev[k] = y[k - Len(x)] /\ k - Len(x) = 1 /\ Len(y) = 1
      BY <1>6, <1>7, <1>8, <2>1, <2>3, SMTT(30)
    <3> QED BY <1>6, <3>1
  <2>4. CASE k > Len(x) + Len(y)
    <3>1. ev[k] = z[k - (Len(x) + Len(y))] /\ k - (Len(x) + Len(y)) = 1 /\ Len(z) = 1
      BY <1>6, <1>8, <2>1, <2>4
    <3> QED BY <1>6, <3>1
  <2> QED BY <2>1, <2>2, <2>3, <2>4
<1>10. j.to => (ev # <<>> /\ ev[1].t = "preview")
  <2> SUFFICES ASSUME j.to PROVE ev # <<>> /\ ev[1].t = "preview"
    OBVIOUS
  <2>1. Len(x) = 1 /\ Len(y) \in Nat /\ Len(z) \in Nat
    BY <1>6
  <2>a. 1 <= Len(x) + Len(y) /\ 1 <= Len(ev) /\ Len(ev) \in Nat /\ Len(x) + Len(y) \in Nat
    BY <1>8, <2>1
  <2>2. 1 \in 1 .. Len(ev) /\ ev[1] = (x \o y)[1] /\ 1 \in 1 .. Len(x) + Len(y)
    BY <1>8, <2>a
  <2>3. ev[1] = event("preview")
    BY <1>6, <1>7, <2>1, <2>2
  <2> QED BY <1>5, <1>8, <2>2, <2>3
<1>11. Events(j) = ev
  BY <1>4 DEF ev
<1>12. \A k \in DOMAIN ev : /\ ev[k].conv = j.conv /\ ev[k].sent = j.sent /\ ev[k].at = j.at /\ ev[k].n = j.n
                            /\ ev[k].kind = j.kind
                            /\ (ev[k].t = "message" => j.kind \in Sends) /\ (ev[k].t = "preview" => j.to)
  BY <1>5, <1>9
<1> QED BY <1>2, <1>8, <1>10, <1>11, <1>12 DEF j

\* The answers of calls of listConversations.
LoadStep(i) == ListRows(i) \/ ListOrder(i) \/ ListLatest(i) \/ ListArrives(i) \/ ListFails(i)

LEMMA LoadMoves ==
    ASSUME ShapeOK, NEW i \in Loads, LoadStep(i)
    PROVE  /\ LoadsOK' /\ \A k \in Loads : k # i => load'[k] = load[k]
           /\ UNCHANGED <<serverVars, job, inbox, link, room, moves>>
           /\ ListRows(i) => /\ load'[i].pc = "order" /\ load'[i].rows = [c \in active |-> unread[c]]
                             /\ load'[i].clean = load[i].clean
           /\ ListOrder(i) => /\ load'[i].pc = "latest" /\ load'[i].items = ByTouched(DOMAIN load[i].rows)
                              /\ load'[i].rows = load[i].rows /\ load'[i].clean = load[i].clean
           /\ ListLatest(i) =>
                /\ load'[i].pc = "arrive" /\ load'[i].clean = load[i].clean
                /\ load'[i].items = [k \in DOMAIN load[i].items |->
                       [id |-> load[i].items[k], at |-> latest[load[i].items[k]], n |-> load[i].rows[load[i].items[k]]]]
           /\ ListArrives(i) \/ ListFails(i) => load'[i] = NoLoad
<1>1. LoadOK(load[i]) /\ LoadOK(NoLoad) /\ LoadsOK /\ DOMAIN load = Loads
  BY DEF ShapeOK, LoadsOK, LoadOK, NoLoad, LoadAt
<1>2. CASE ListRows(i)
  <2>1. load[i].pc = "rows" /\ load' = [load EXCEPT ![i].pc = "order", ![i].rows = [c \in active |-> unread[c]]]
    BY <1>2 DEF ListRows
  <2>2. /\ load'[i].pc = "order" /\ load'[i].rows = [c \in active |-> unread[c]]
        /\ load'[i].clean = load[i].clean /\ LoadOK(load'[i])
    BY <1>1, <2>1 DEF LoadOK
  <2>3. LoadsOK' /\ \A k \in Loads : k # i => load'[k] = load[k]
    BY <1>1, <2>1, <2>2, ZenonT(30) DEF LoadsOK
  <2>4. ~ListOrder(i) /\ ~ListLatest(i) /\ ~ListArrives(i) /\ ~ListFails(i)
    BY <2>1 DEF ListOrder, ListLatest, ListArrives, ListFails
  <2> QED BY <1>2, <2>2, <2>3, <2>4 DEF ListRows, browserVars
<1>3. CASE ListOrder(i)
  <2>1. load[i].pc = "order" /\ load' = [load EXCEPT ![i].pc = "latest", ![i].items = ByTouched(DOMAIN load[i].rows)]
    BY <1>3 DEF ListOrder
  <2>2. /\ load'[i].pc = "latest" /\ load'[i].items = ByTouched(DOMAIN load[i].rows)
        /\ load'[i].rows = load[i].rows /\ load'[i].clean = load[i].clean /\ LoadOK(load'[i])
    BY <1>1, <2>1 DEF LoadOK
  <2>3. LoadsOK' /\ \A k \in Loads : k # i => load'[k] = load[k]
    BY <1>1, <2>1, <2>2 DEF LoadsOK
  <2>4. ~ListRows(i) /\ ~ListLatest(i) /\ ~ListArrives(i) /\ ~ListFails(i)
    BY <2>1 DEF ListRows, ListLatest, ListArrives, ListFails
  <2> QED BY <1>3, <2>2, <2>3, <2>4 DEF ListOrder, browserVars
<1>4. CASE ListLatest(i)
  <2> DEFINE new == [k \in DOMAIN load[i].items |->
                       [id |-> load[i].items[k], at |-> latest[load[i].items[k]], n |-> load[i].rows[load[i].items[k]]]]
  <2>1. load[i].pc = "latest" /\ load' = [load EXCEPT ![i].pc = "arrive", ![i].items = new]
    BY <1>1, <1>4 DEF ListLatest
  <2> HIDE DEF new
  <2>2. load'[i].pc = "arrive" /\ load'[i].items = new /\ load'[i].clean = load[i].clean /\ LoadOK(load'[i])
    BY <1>1, <2>1 DEF LoadOK
  <2>3. LoadsOK' /\ \A k \in Loads : k # i => load'[k] = load[k]
    BY <1>1, <2>1, <2>2 DEF LoadsOK
  <2>4. ~ListRows(i) /\ ~ListOrder(i) /\ ~ListArrives(i) /\ ~ListFails(i)
    BY <2>1 DEF ListRows, ListOrder, ListArrives, ListFails
  <2>5. UNCHANGED <<serverVars, job, inbox, link, room, moves>>
    BY <1>4 DEF ListLatest, browserVars
  <2> QED BY <2>2, <2>3, <2>4, <2>5 DEF new
<1>5. CASE ListArrives(i) \/ ListFails(i)
  <2>1. load[i].pc = "arrive" /\ load' = [load EXCEPT ![i] = NoLoad]
    BY <1>5 DEF ListArrives, ListFails
  <2>2. LoadsOK' /\ load'[i] = NoLoad /\ \A k \in Loads : k # i => load'[k] = load[k]
    BY <1>1, <2>1 DEF LoadsOK
  <2>3. ~ListRows(i) /\ ~ListOrder(i) /\ ~ListLatest(i)
    BY <2>1 DEF ListRows, ListOrder, ListLatest
  <2>4. UNCHANGED <<serverVars, job, inbox, link, room, moves>>
    BY <1>5 DEF ListArrives, ListFails, browserVars
  <2> QED BY <2>2, <2>3, <2>4
<1> QED BY <1>2, <1>3, <1>4, <1>5 DEF LoadStep

\* A load that starts.
LEMMA LoadStarts ==
    ASSUME ShapeOK, NEW others, NEW drop, StartLoad(others, drop),
           DOMAIN others = Loads, \A i \in Loads : LoadOK(others[i])
    PROVE  /\ LoadsOK' /\ ~NoLoads'
           /\ \A i \in Loads : load'[i] = others[i] \/ (load'[i].pc = "rows" /\ (load'[i].clean => NoJobs))
<1>1. PICK i \in Loads : load[i] = NoLoad /\ load' = [others EXCEPT ![i] = NewLoad(NoJobs, drop)]
  BY DEF StartLoad
<1>2. LoadOK(NewLoad(NoJobs, drop)) /\ NewLoad(NoJobs, drop).pc = "rows" /\ NewLoad(NoJobs, drop).clean = NoJobs
      /\ NewLoad(NoJobs, drop) # NoLoad
  BY DEF LoadOK, NewLoad, NoLoad, LoadAt
<1>3. load'[i] = NewLoad(NoJobs, drop) /\ \A k \in Loads : k # i => load'[k] = others[k]
  BY <1>1
<1>4. LoadsOK'
  BY <1>1, <1>2, <1>3 DEF LoadsOK
<1>5. ~NoLoads'
  BY <1>2, <1>3 DEF NoLoads
<1>6. load'[i].pc = "rows" /\ (load'[i].clean => NoJobs)
  BY <1>2, <1>3, Zenon
<1> QED BY <1>3, <1>4, <1>5, <1>6

\* Every step leaves the state in shape.
LEMMA ShapeStep == ShapeOK /\ Next => ShapeOK'
<1> SUFFICES ASSUME ShapeOK, Next PROVE ShapeOK'
  OBVIOUS
<1>a. ServerOK /\ JobsOK /\ LoadsOK /\ BrowserOK
  BY DEF ShapeOK
<1>b. UNCHANGED job => JobsOK'
  BY <1>a DEF JobsOK
<1>c. UNCHANGED load => LoadsOK'
  BY <1>a DEF LoadsOK
<1>d. UNCHANGED serverVars => ServerOK'
  BY <1>a DEF ServerOK, serverVars
<1>e. UNCHANGED <<selected, inbox, link>> /\ calm' \in BOOLEAN => BrowserOK'
  BY <1>a DEF BrowserOK
<1>f. /\ now \in Nat /\ active \subseteq Convs /\ latest \in [Convs -> Nat] /\ touched \in [Convs -> Nat]
      /\ unread \in [Convs -> Nat]
  BY <1>a DEF ServerOK
<1>g. /\ selected \in Convs \cup {None} /\ inbox \in Seq(Event)
      /\ link \in BOOLEAN /\ calm \in BOOLEAN /\ (~link => inbox = <<>>)
  BY <1>a DEF BrowserOK
<1>h. DOMAIN Overtaken = Loads /\ \A i \in Loads : LoadOK(Overtaken[i])
  BY OvertakenLoads
<1>1. ASSUME NEW s \in Slots, NEW c \in Convs, PeerSends(s, c) PROVE ShapeOK'
  <2>1. now' = now + 1 /\ latest' = [latest EXCEPT ![c] = now'] /\ Begin(s, "peerSend", "touch", c, now')
        /\ active' = active \cup {c} /\ UNCHANGED <<touched, unread, inbox, selected, link>>
    BY <1>1 DEF PeerSends, Store, browserVars
  <2>2. now' \in Nat
    BY <1>f, <2>1
  <2>3. JobsOK' /\ LoadsOK' /\ calm' \in BOOLEAN
    <3>1. "peerSend" \in Sends
      BY DEF Sends
    <3> QED BY <2>1, <2>2, <3>1, Begins
  <2>4. ServerOK'
    BY <1>f, <2>1, <2>2 DEF ServerOK
  <2> QED BY <1>e, <2>1, <2>3, <2>4 DEF ShapeOK
<1>2. ASSUME NEW s \in Slots, ISend(s) PROVE ShapeOK'
  <2>1. now' = now + 1 /\ latest' = [latest EXCEPT ![selected] = now'] /\ Begin(s, "mySend", "touch", selected, now')
        /\ UNCHANGED <<active, touched, unread, inbox, selected, link>> /\ selected \in Convs
    BY <1>2, <1>f DEF ISend, Store, browserVars
  <2>2. now' \in Nat
    BY <1>f, <2>1
  <2>3. JobsOK' /\ LoadsOK' /\ calm' \in BOOLEAN
    <3>1. "mySend" \in Sends
      BY DEF Sends
    <3> QED BY <2>1, <2>2, <3>1, Begins
  <2>4. ServerOK'
    BY <1>f, <2>1, <2>2 DEF ServerOK
  <2> QED BY <1>e, <2>1, <2>3, <2>4 DEF ShapeOK
<1>3. ASSUME NEW s \in Slots, NEW c \in Convs, Open(s, c) PROVE ShapeOK'
  <2>1. selected' = c /\ UNCHANGED <<serverVars, inbox, link>>
    BY <1>3 DEF Open
  <2>2. JobsOK' /\ LoadsOK' /\ calm' \in BOOLEAN
    <3>1. CASE UNCHANGED <<job, calm, load>>
      BY <1>b, <1>c, <1>g, <3>1
    <3>2. CASE Begin(s, IF link THEN "myRead" ELSE "httpRead", "zero", c, 0)
      <4> DEFINE kind == IF link THEN "myRead" ELSE "httpRead"
      <4>1. kind \in {"myRead", "httpRead"} /\ 0 \in Nat
        OBVIOUS
      <4> HIDE DEF kind
      <4>2. Begin(s, kind, "zero", c, 0)
        BY <3>2 DEF kind
      <4> QED BY <4>1, <4>2, Begins
    <3> QED BY <1>3, <3>1, <3>2 DEF Open
  <2>3. BrowserOK'
    BY <1>g, <2>1, <2>2 DEF BrowserOK
  <2> QED BY <1>d, <2>1, <2>2, <2>3 DEF ShapeOK
<1>4. ASSUME NEW s \in Slots, NEW c \in Convs, PeerReads(s, c) PROVE ShapeOK'
  <2>1. Begin(s, "peerRead", "latest", c, 0) /\ UNCHANGED <<serverVars, inbox, link, selected>>
    BY <1>4 DEF PeerReads, browserVars
  <2>2. JobsOK' /\ LoadsOK' /\ calm' \in BOOLEAN
    BY <2>1, Begins
  <2> QED BY <1>d, <1>e, <2>1, <2>2 DEF ShapeOK
<1>5. ASSUME NEW s \in Slots, Touch(s) \/ Count(s) \/ Zero(s) \/ ReadLatest(s) \/ ReadRow(s) PROVE ShapeOK'
  <2>1. JobsOK' /\ job[s].conv \in Convs
    BY <1>5, Moves
  <2>2. UNCHANGED <<now, active, latest, inbox, selected, link, load, calm>>
    BY <1>5 DEF Touch, Count, Zero, ReadLatest, ReadRow, browserVars, serverVars
  <2>3. touched' \in [Convs -> Nat]
    <3>1. job[s].sent \in Nat
      BY <1>a DEF JobsOK, JobOK, Job
    <3> QED BY <1>5, <1>f, <2>1, <3>1 DEF Touch, Count, Zero, ReadLatest, ReadRow, serverVars
  <2>4. unread' \in [Convs -> Nat]
    <3>1. unread[job[s].conv] \in Nat
      BY <1>f, <2>1
    <3> QED BY <1>5, <1>f, <2>1, <3>1 DEF Touch, Count, Zero, ReadLatest, ReadRow, serverVars
  <2>5. ServerOK'
    BY <1>f, <2>2, <2>3, <2>4 DEF ServerOK
  <2>6. BrowserOK'
    BY <1>e, <1>g, <2>2
  <2>7. LoadsOK'
    BY <1>c, <2>2
  <2> QED BY <2>1, <2>5, <2>6, <2>7 DEF ShapeOK
<1>6. ASSUME NEW s \in Slots, Emit(s) PROVE ShapeOK'
  <2>1. job[s].pc = "emit" /\ job' = [job EXCEPT ![s] = Idle] /\ UNCHANGED <<serverVars, link, selected, load>>
        /\ inbox' = (IF link THEN inbox \o Events(job[s]) ELSE inbox) /\ calm' \in BOOLEAN
    BY <1>6 DEF Emit, browserVars
  <2>2. JobsOK'
    BY <1>a, <2>1, IdleOK, JobSet
  <2>3. Events(job[s]) \in Seq(Event)
    BY <2>1, Emitted
  <2>4. inbox' \in Seq(Event) /\ (~link' => inbox' = <<>>)
    BY <1>g, <2>1, <2>3
  <2>5. BrowserOK'
    BY <1>g, <2>1, <2>4 DEF BrowserOK
  <2> QED BY <1>c, <1>d, <2>1, <2>2, <2>5 DEF ShapeOK
<1>7. ASSUME NEW s \in Slots, ReadAnswered(s) PROVE ShapeOK'
  <2>1. job' = [job EXCEPT ![s] = Idle] /\ UNCHANGED <<serverVars, inbox, link, selected, load, calm>>
    BY <1>7 DEF ReadAnswered
  <2>2. JobsOK'
    BY <1>a, <2>1, IdleOK, JobSet
  <2> QED BY <1>c, <1>d, <1>e, <1>g, <2>1, <2>2 DEF ShapeOK
<1>8. ASSUME NEW i \in Loads, LoadStep(i) PROVE ShapeOK'
  <2>1. LoadsOK' /\ UNCHANGED <<serverVars, job, inbox, link, room, moves>>
    BY <1>8, LoadMoves
  <2>2. selected' \in {selected, None} /\ calm' \in BOOLEAN
    <3>1. CASE ListArrives(i)
      BY <3>1 DEF ListArrives
    <3>2. CASE ListFails(i)
      BY <3>2 DEF ListFails, browserVars
    <3>3. CASE ListRows(i) \/ ListOrder(i) \/ ListLatest(i)
      BY <1>g, <3>3 DEF ListRows, ListOrder, ListLatest, browserVars
    <3> QED BY <1>8, <3>1, <3>2, <3>3 DEF LoadStep
  <2>3. BrowserOK'
    BY <1>g, <2>1, <2>2 DEF BrowserOK
  <2> QED BY <1>b, <1>d, <2>1, <2>3 DEF ShapeOK
<1>9. ASSUME NEW c \in Convs, Delete(c) PROVE ShapeOK'
  <2>1. /\ active' = active \ {c} /\ StartLoad(Overtaken, c) /\ calm' \in BOOLEAN
        /\ UNCHANGED <<now, latest, touched, unread, job, inbox, link, selected>>
    BY <1>9 DEF Delete
  <2>2. LoadsOK'
    BY <1>h, <2>1, LoadStarts
  <2>3. ServerOK'
    BY <1>f, <2>1 DEF ServerOK
  <2> QED BY <1>b, <1>e, <2>1, <2>2, <2>3 DEF ShapeOK
<1>10. ASSUME NEW c \in Convs, DeleteFails(c) PROVE ShapeOK'
  <2>1. UNCHANGED <<serverVars, job, inbox, link, selected, list, load, calm>>
    BY <1>10 DEF DeleteFails
  <2> QED BY <1>b, <1>c, <1>d, <1>e, <1>g, <2>1 DEF ShapeOK
<1>11. ASSUME PreviewUpdated \/ MessageDelivered \/ ConversationRead PROVE ShapeOK'
  <2>1. /\ inbox # <<>> /\ inbox' = Tail(inbox) /\ UNCHANGED <<serverVars, job, link, selected>>
        /\ (UNCHANGED load \/ Reload) /\ (calm' = calm \/ calm' \in BOOLEAN)
    BY <1>11 DEF PreviewUpdated, MessageDelivered, ConversationRead, Take
  <2>2. LoadsOK'
    <3>1. DOMAIN load = Loads /\ \A i \in Loads : LoadOK(load[i])
      BY <1>a DEF LoadsOK
    <3> QED BY <1>c, <2>1, <3>1, LoadStarts DEF Reload
  <2>3. inbox' \in Seq(Event)
    BY <1>g, <2>1
  <2>4. BrowserOK'
    BY <1>g, <2>1, <2>3 DEF BrowserOK
  <2> QED BY <1>b, <1>d, <2>1, <2>2, <2>4 DEF ShapeOK
<1>12. ASSUME Disconnect PROVE ShapeOK'
  <2>1. ~link' /\ inbox' = <<>> /\ calm' \in BOOLEAN /\ link' \in BOOLEAN /\ UNCHANGED <<serverVars, job, selected, load>>
    BY <1>12 DEF Disconnect
  <2>2. <<>> \in Seq(Event)
    OBVIOUS
  <2>3. BrowserOK'
    BY <1>g, <2>1, <2>2, Zenon DEF BrowserOK
  <2> QED BY <1>b, <1>c, <1>d, <2>1, <2>3 DEF ShapeOK
<1>13. ASSUME Connect PROVE ShapeOK'
  <2>1. link' = TRUE /\ UNCHANGED <<serverVars, job, inbox, selected, load, calm>>
    BY <1>13 DEF Connect
  <2>2. BrowserOK'
    BY <1>g, <2>1 DEF BrowserOK
  <2> QED BY <1>b, <1>c, <1>d, <2>1, <2>2 DEF ShapeOK
<1>14. ASSUME Reopen PROVE ShapeOK'
  <2>1. /\ link' = TRUE /\ inbox' = <<>> /\ selected' = None /\ calm' = FALSE
        /\ load' = [i \in Loads |-> IF i = 1 THEN NewLoad(NoJobs, None) ELSE NoLoad]
        /\ UNCHANGED <<serverVars, job>>
    BY <1>14 DEF Reopen
  <2>2. <<>> \in Seq(Event)
    OBVIOUS
  <2>3. BrowserOK'
    BY <2>1, <2>2, Zenon DEF BrowserOK
  <2>4. LoadOK(NewLoad(NoJobs, None)) /\ LoadOK(NoLoad)
    BY DEF LoadOK, NewLoad, NoLoad, LoadAt
  <2>5. LoadsOK'
    BY <2>1, <2>4 DEF LoadsOK
  <2> QED BY <1>b, <1>d, <2>1, <2>3, <2>5 DEF ShapeOK
<1> QED BY <1>1, <1>2, <1>3, <1>4, <1>5, <1>6, <1>7, <1>8, <1>9, <1>10, <1>11, <1>12, <1>13, <1>14 DEF Next, LoadStep

\* The first messages were stored at different instants.
LEMMA InitStamps == Init => StampsOK
<1> SUFFICES ASSUME Init PROVE StampsOK
  OBVIOUS
<1>1. ASSUME NEW c \in Convs PROVE Stamps(c) = {First[c]}
  <2>1. \A r \in Slots : job[r].kind \notin Sends
    BY DEF Init, Idle, Handler, Sends
  <2> QED BY <2>1 DEF Stamps, Init
<1>2. Cardinality(Convs) \in Nat
  BY FirstAssumption, FS_CardinalityType
<1>3. now = Cardinality(Convs)
  BY DEF Init
<1>4. ASSUME NEW c \in Convs PROVE First[c] <= now
  BY <1>2, <1>3, FirstAssumption
<1>5. ASSUME NEW c \in Convs, NEW d \in Convs, c # d PROVE First[c] # First[d]
  BY <1>5, FirstAssumption
<1> QED BY <1>1, <1>4, <1>5 DEF StampsOK

\* The stamps of a state in which no message is sent.
LEMMA StampsKept ==
    ASSUME ShapeOK, StampsOK, now' = now, latest' = latest,
           \A c \in Convs : touched'[c] \in Stamps(c),
           \A s \in Slots : job'[s].kind \in Sends =>
               job[s].kind = job'[s].kind /\ job[s].conv = job'[s].conv /\ job[s].sent = job'[s].sent
    PROVE  StampsOK'
<1>1. ASSUME NEW c \in Convs PROVE Stamps(c)' \subseteq Stamps(c)
  <2> SUFFICES ASSUME NEW x \in Stamps(c)' PROVE x \in Stamps(c)
    OBVIOUS
  <2>1. x = latest'[c] \/ x = touched'[c] \/ \E s \in Slots : job'[s].conv = c /\ job'[s].kind \in Sends /\ x = job'[s].sent
    BY DEF Stamps
  <2>2. latest'[c] \in Stamps(c)
    BY DEF Stamps
  <2>3. ASSUME NEW s \in Slots, job'[s].conv = c, job'[s].kind \in Sends PROVE job'[s].sent \in Stamps(c)
    BY <2>3 DEF Stamps
  <2> QED BY <2>1, <2>2, <2>3
<1> QED BY <1>1 DEF StampsOK

\* A message of c is sent.
LEMMA StampsSent ==
    ASSUME ShapeOK, StampsOK, NEW c \in Convs, NEW s \in Slots, now' = now + 1, latest' = [latest EXCEPT ![c] = now'],
           touched' = touched, job'[s].conv = c, job'[s].sent = now',
           \A r \in Slots : r # s => job'[r] = job[r]
    PROVE  StampsOK'
<1>1. ASSUME NEW d \in Convs, NEW x \in Stamps(d)' PROVE x \in Stamps(d) \/ (d = c /\ x = now')
  <2>1. x = latest'[d] \/ x = touched'[d] \/ \E r \in Slots : job'[r].conv = d /\ job'[r].kind \in Sends /\ x = job'[r].sent
    BY DEF Stamps
  <2>2. latest'[d] = IF d = c THEN now' ELSE latest[d]
    BY DEF ShapeOK, ServerOK
  <2>3. latest[d] \in Stamps(d) /\ touched[d] \in Stamps(d)
    BY DEF Stamps
  <2>4. ASSUME NEW r \in Slots, job'[r].conv = d, job'[r].kind \in Sends, r # s PROVE job'[r].sent \in Stamps(d)
    BY <2>4 DEF Stamps
  <2> QED BY <2>1, <2>2, <2>3, <2>4
<1>2. now \in Nat
  BY DEF ShapeOK, ServerOK
<1>3. ASSUME NEW d \in Convs, NEW x \in Stamps(d) PROVE x \in Nat /\ x <= now
  <2>1. x \in Nat
    BY DEF Stamps, ShapeOK, ServerOK, JobsOK, JobOK, Job
  <2> QED BY <2>1 DEF StampsOK
<1>4. ASSUME NEW d \in Convs, NEW x \in Stamps(d)' PROVE x <= now'
  BY <1>1, <1>2, <1>3, <1>4
<1>5. ASSUME NEW d \in Convs, NEW e \in Convs, d # e, NEW x \in Stamps(d)', x \in Stamps(e)' PROVE FALSE
  <2>1. CASE x \in Stamps(d) /\ x \in Stamps(e)
    BY <1>5, <2>1 DEF StampsOK
  <2>2. CASE x \in Stamps(d) /\ x = now'
    BY <1>2, <1>3, <2>2
  <2>3. CASE x \in Stamps(e) /\ x = now'
    BY <1>2, <1>3, <2>3
  <2> QED BY <1>1, <1>5, <2>1, <2>2, <2>3
<1> QED BY <1>4, <1>5 DEF StampsOK

\* No two conversations ever share an instant.
LEMMA StampsStep == ShapeOK /\ StampsOK /\ Next => StampsOK'
<1> SUFFICES ASSUME ShapeOK, StampsOK, Next PROVE StampsOK'
  OBVIOUS
<1>a. \A c \in Convs : touched[c] \in Stamps(c)
  BY DEF Stamps
<1>b. Idle.kind \notin Sends /\ Idle.conv = None
  BY DEF Idle, Handler, Sends
<1>c. ASSUME UNCHANGED <<now, latest, touched>>,
             \A s \in Slots : job'[s] = job[s] \/ job'[s].kind \notin Sends
      PROVE  StampsOK'
  BY <1>a, <1>c, StampsKept
<1>1. ASSUME NEW s \in Slots, NEW c \in Convs, PeerSends(s, c) PROVE StampsOK'
  <2>1. now' = now + 1 /\ latest' = [latest EXCEPT ![c] = now'] /\ Begin(s, "peerSend", "touch", c, now')
        /\ touched' = touched /\ "peerSend" \in Sends
    BY <1>1 DEF PeerSends, Store, Sends
  <2>2. now' \in Nat
    BY <2>1 DEF ShapeOK, ServerOK
  <2>3. job'[s] = Handler("peerSend", "touch", c, now') /\ \A r \in Slots : r # s => job'[r] = job[r]
    BY <2>1, <2>2, Begins
  <2>4. job'[s].conv = c /\ job'[s].sent = now'
    BY <2>3 DEF Handler
  <2> QED BY <2>1, <2>3, <2>4, StampsSent
<1>2. ASSUME NEW s \in Slots, ISend(s) PROVE StampsOK'
  <2>1. now' = now + 1 /\ latest' = [latest EXCEPT ![selected] = now'] /\ Begin(s, "mySend", "touch", selected, now')
        /\ touched' = touched /\ "mySend" \in Sends /\ selected \in Convs
    BY <1>2 DEF ISend, Store, Sends, ShapeOK, ServerOK
  <2>2. now' \in Nat
    BY <2>1 DEF ShapeOK, ServerOK
  <2>3. job'[s] = Handler("mySend", "touch", selected, now') /\ \A r \in Slots : r # s => job'[r] = job[r]
    BY <2>1, <2>2, Begins
  <2>4. job'[s].conv = selected /\ job'[s].sent = now'
    BY <2>3 DEF Handler
  <2> QED BY <2>1, <2>3, <2>4, StampsSent
<1>3. ASSUME NEW s \in Slots, NEW c \in Convs, Open(s, c) PROVE StampsOK'
  <2>1. UNCHANGED <<now, latest, touched>>
    BY <1>3 DEF Open, serverVars
  <2>2. CASE UNCHANGED job
    BY <1>c, <2>1, <2>2
  <2>3. CASE Begin(s, IF link THEN "myRead" ELSE "httpRead", "zero", c, 0)
    <3> DEFINE kind == IF link THEN "myRead" ELSE "httpRead"
    <3>1. kind \in {"myRead", "httpRead"} /\ 0 \in Nat
      OBVIOUS
    <3>a. Begin(s, kind, "zero", c, 0)
      BY <2>3
    <3> HIDE DEF kind
    <3>2. job'[s] = Handler(kind, "zero", c, 0) /\ \A r \in Slots : r # s => job'[r] = job[r]
      BY <3>1, <3>a, Begins
    <3>3. job'[s].kind \notin Sends
      BY <3>1, <3>2 DEF Handler, Sends
    <3> QED BY <1>c, <2>1, <3>2, <3>3
  <2> QED BY <1>3, <2>2, <2>3 DEF Open
<1>4. ASSUME NEW s \in Slots, NEW c \in Convs, PeerReads(s, c) PROVE StampsOK'
  <2>1. Begin(s, "peerRead", "latest", c, 0) /\ UNCHANGED <<now, latest, touched>>
    BY <1>4 DEF PeerReads, serverVars
  <2>2. job'[s] = Handler("peerRead", "latest", c, 0) /\ \A r \in Slots : r # s => job'[r] = job[r]
    BY <2>1, Begins
  <2>3. job'[s].kind \notin Sends
    BY <2>2 DEF Handler, Sends
  <2> QED BY <1>c, <2>1, <2>2, <2>3
<1>5. ASSUME NEW s \in Slots, Touch(s) \/ Count(s) \/ Zero(s) \/ ReadLatest(s) \/ ReadRow(s) PROVE StampsOK'
  <2>1. /\ \A r \in Slots : r # s => job'[r] = job[r]
        /\ job'[s].conv = job[s].conv /\ job'[s].kind = job[s].kind /\ job'[s].sent = job[s].sent
        /\ job[s].conv \in Convs
        /\ Touch(s) => job[s].kind \in Sends
    BY <1>5, Moves
  <2>2. now' = now /\ latest' = latest
    BY <1>5 DEF Touch, Count, Zero, ReadLatest, ReadRow, serverVars
  <2>3. ASSUME NEW c \in Convs PROVE touched'[c] \in Stamps(c)
    <3>1. CASE Touch(s)
      <4>1. touched'[c] = IF c = job[s].conv THEN job[s].sent ELSE touched[c]
        BY <3>1 DEF Touch, ShapeOK, ServerOK
      <4>2. job[s].sent \in Stamps(job[s].conv)
        BY <2>1, <3>1 DEF Stamps
      <4> QED BY <1>a, <4>1, <4>2
    <3>2. CASE ~Touch(s)
      BY <1>5, <1>a, <3>2 DEF Count, Zero, ReadLatest, ReadRow, serverVars
    <3> QED BY <3>1, <3>2
  <2> QED BY <2>1, <2>2, <2>3, StampsKept
<1>6. ASSUME NEW s \in Slots, Emit(s) \/ ReadAnswered(s) PROVE StampsOK'
  <2>1. job' = [job EXCEPT ![s] = Idle] /\ UNCHANGED <<now, latest, touched>>
    BY <1>6 DEF Emit, ReadAnswered, serverVars
  <2>2. job'[s] = Idle /\ \A r \in Slots : r # s => job'[r] = job[r]
    BY <2>1, IdleOK, JobSet DEF ShapeOK
  <2> QED BY <1>b, <1>c, <2>1, <2>2
<1>7. ASSUME NEW i \in Loads, LoadStep(i) PROVE StampsOK'
  BY <1>7, <1>c, LoadMoves DEF serverVars
<1>8. ASSUME NEW c \in Convs, Delete(c) \/ DeleteFails(c) PROVE StampsOK'
  BY <1>8, <1>c DEF Delete, DeleteFails, serverVars
<1>9. ASSUME PreviewUpdated \/ MessageDelivered \/ ConversationRead PROVE StampsOK'
  BY <1>9, <1>c DEF PreviewUpdated, MessageDelivered, ConversationRead, serverVars
<1>10. ASSUME Disconnect \/ Connect \/ Reopen PROVE StampsOK'
  BY <1>10, <1>c DEF Disconnect, Connect, Reopen, serverVars
<1> QED BY <1>1, <1>2, <1>3, <1>4, <1>5, <1>6, <1>7, <1>8, <1>9, <1>10 DEF Next, LoadStep

-----------------------------------------------------------------------------
(* Loads.                                                                  *)

\* Conversations that were touched at different instants have an order.
LEMMA Ordered ==
    ASSUME ShapeOK, StampsOK, NEW convs, convs \subseteq Convs
    PROVE  /\ ByTouched(convs) \in [1 .. Cardinality(convs) -> convs] /\ Cardinality(convs) \in Nat
           /\ \A j, k \in 1 .. Cardinality(convs) : j < k => touched[ByTouched(convs)[j]] > touched[ByTouched(convs)[k]]
           /\ \A j, k \in 1 .. Cardinality(convs) : ByTouched(convs)[j] = ByTouched(convs)[k] => j = k
           /\ \A c \in convs : \E k \in 1 .. Cardinality(convs) : ByTouched(convs)[k] = c
<1> DEFINE n == Cardinality(convs)
           R == {w \in convs \X convs : touched[w[1]] > touched[w[2]]}
           OK(s) == \A j, k \in DOMAIN s : j < k => touched[s[j]] > touched[s[k]]
<1>1. IsFiniteSet(convs) /\ n \in Nat
  BY FirstAssumption, FS_Subset, FS_CardinalityType
<1>2. \A c \in convs : touched[c] \in Nat
  BY DEF ShapeOK, ServerOK
<1>3. \A c, d \in convs : c # d => touched[c] # touched[d]
  BY DEF StampsOK, Stamps
<1>4. StrictOrder(R, convs)
  BY <1>2, <1>3 DEF StrictOrder
<1>5. PICK s : Lists(s, n, convs, R)
  BY <1>1, <1>4, SortExists
<1>6. s \in [1 .. n -> convs] /\ OK(s)
  BY <1>5 DEF Lists
<1>7. ByTouched(convs) \in [1 .. n -> convs] /\ OK(ByTouched(convs))
  <2>1. \E x \in [1 .. n -> convs] : OK(x)
    BY <1>6
  <2>2. ByTouched(convs) = CHOOSE x \in [1 .. n -> convs] : OK(x)
    BY DEF ByTouched
  <2> QED BY <2>1, <2>2
<1> DEFINE q == ByTouched(convs)
<1> HIDE DEF q
<1>8. q \in [1 .. n -> convs] /\ OK(q)
  BY <1>7 DEF q
<1>9. \A j, k \in 1 .. n : j < k => touched[q[j]] > touched[q[k]]
  BY <1>8
<1>10. ASSUME NEW j \in 1 .. n, NEW k \in 1 .. n, q[j] = q[k] PROVE j = k
  <2>1. touched[q[j]] \in Nat
    BY <1>2, <1>8
  <2>2. ~(j < k) /\ ~(k < j)
    BY <1>9, <1>10, <2>1
  <2> QED BY <1>1, <2>2
<1>11. q \in Injection(1 .. n, convs)
  BY <1>8, <1>10 DEF Injection, IsInjective
<1>12. q \in Surjection(1 .. n, convs)
  <2>1. Cardinality(1 .. n) = n
    BY <1>1, FS_Interval
  <2> QED BY <1>1, <1>11, <2>1, FS_Injection
<1>13. \A c \in convs : \E k \in 1 .. n : q[k] = c
  BY <1>12 DEF Surjection
<1> QED BY <1>1, <1>8, <1>9, <1>10, <1>13 DEF q

\* The first load overlaps nothing.
LEMMA InitClean == Init => LoadsClean
<1> SUFFICES ASSUME Init, NEW i \in Loads PROVE CleanOK(load[i])
  BY DEF LoadsClean
<1>1. NoJobs
  BY DEF Init, NoJobs
<1>2. load[i] = NewLoad(TRUE, None) \/ load[i] = NoLoad
  BY DEF Init
<1>3. load[i].pc \notin {"order", "latest", "arrive"}
  BY <1>2 DEF NewLoad, NoLoad, LoadAt
<1> QED BY <1>1, <1>3 DEF CleanOK

\* A load that nothing overtook answers what the server has: what a handler
\* writes meanwhile makes the load unclean, and a load starts clean only while no
\* handler runs.
LEMMA CleanStep == ShapeOK /\ StampsOK /\ LoadsClean /\ Next => LoadsClean'
<1> SUFFICES ASSUME ShapeOK, StampsOK, LoadsClean, Next, NEW i \in Loads PROVE CleanOK(load[i])'
  BY DEF LoadsClean
<1>a. CleanOK(load[i]) /\ LoadOK(load[i])
  BY DEF LoadsClean, ShapeOK, LoadsOK
<1>b. ASSUME load'[i].clean => load'[i] = NoLoad PROVE CleanOK(load[i])'
  BY <1>b DEF CleanOK, NoLoad, LoadAt
<1>c. ASSUME load'[i] = load[i], UNCHANGED <<job, serverVars>> PROVE CleanOK(load[i])'
  BY <1>a, <1>c DEF serverVars, CleanOK, NoJobs, Fresh
<1>d. ASSUME load'[i].pc = "rows", load'[i].clean => NoJobs, job' = job PROVE CleanOK(load[i])'
  BY <1>d DEF CleanOK, NoJobs
<1>e. ASSUME load'[i] = load[i], ~NoJobs PROVE CleanOK(load[i])'
  BY <1>a, <1>e DEF CleanOK, NoLoad, LoadAt
<1>f. DOMAIN Overtaken = Loads /\ \A k \in Loads : LoadOK(Overtaken[k])
  BY OvertakenLoads
<1>1. ASSUME NEW s \in Slots, NEW c \in Convs, PeerSends(s, c) PROVE CleanOK(load[i])'
  <2>1. now' = now + 1 /\ Begin(s, "peerSend", "touch", c, now') /\ "peerSend" \in Sends
    BY <1>1 DEF PeerSends, Store, Sends
  <2>2. now' \in Nat
    BY <2>1 DEF ShapeOK, ServerOK
  <2> QED BY <1>b, <2>1, <2>2, Begins
<1>2. ASSUME NEW s \in Slots, ISend(s) PROVE CleanOK(load[i])'
  <2>1. now' = now + 1 /\ Begin(s, "mySend", "touch", selected, now') /\ "mySend" \in Sends /\ selected \in Convs
    BY <1>2 DEF ISend, Store, Sends, ShapeOK, ServerOK
  <2>2. now' \in Nat
    BY <2>1 DEF ShapeOK, ServerOK
  <2> QED BY <1>b, <2>1, <2>2, Begins
<1>3. ASSUME NEW s \in Slots, NEW c \in Convs, Open(s, c) PROVE CleanOK(load[i])'
  <2>1. CASE UNCHANGED <<job, calm, load>>
    BY <1>3, <1>c, <2>1 DEF Open
  <2>2. CASE Begin(s, IF link THEN "myRead" ELSE "httpRead", "zero", c, 0)
    <3> DEFINE kind == IF link THEN "myRead" ELSE "httpRead"
    <3>1. kind \in {"myRead", "httpRead"} /\ 0 \in Nat
      OBVIOUS
    <3>a. Begin(s, kind, "zero", c, 0)
      BY <2>2
    <3> HIDE DEF kind
    <3> QED BY <1>b, <3>1, <3>a, Begins
  <2> QED BY <1>3, <2>1, <2>2 DEF Open
<1>4. ASSUME NEW s \in Slots, NEW c \in Convs, PeerReads(s, c) PROVE CleanOK(load[i])'
  <2>1. Begin(s, "peerRead", "latest", c, 0)
    BY <1>4 DEF PeerReads
  <2> QED BY <1>b, <2>1, Begins
<1>5. ASSUME NEW s \in Slots, Touch(s) \/ Count(s) \/ Zero(s) \/ ReadLatest(s) \/ ReadRow(s) \/ Emit(s) \/ ReadAnswered(s)
      PROVE  CleanOK(load[i])'
  <2>1. load' = load
    BY <1>5 DEF Touch, Count, Zero, ReadLatest, ReadRow, Emit, ReadAnswered
  <2>2. job[s].pc # "idle"
    BY <1>5 DEF Touch, Count, Zero, ReadLatest, ReadRow, Emit, ReadAnswered, Step
  <2>3. ~NoJobs
    BY <2>2 DEF NoJobs, Idle, Handler
  <2> QED BY <1>e, <2>1, <2>3
<1>6. ASSUME NEW k \in Loads, LoadStep(k) PROVE CleanOK(load[i])'
  <2>1. /\ UNCHANGED <<job, serverVars>> /\ (i # k => load'[i] = load[i])
        /\ (ListArrives(k) \/ ListFails(k) => load'[k] = NoLoad)
    BY <1>6, LoadMoves
  <2>2. CASE i # k
    BY <1>c, <2>1, <2>2
  <2>3. CASE i = k /\ (ListArrives(k) \/ ListFails(k))
    BY <1>b, <2>1, <2>3
  <2>4. CASE i = k /\ (ListRows(k) \/ ListOrder(k) \/ ListLatest(k))
    <3> SUFFICES ASSUME load'[i].clean, load'[i] # NoLoad PROVE CleanOK(load[i])'
      BY DEF CleanOK, NoLoad, LoadAt
    <3>1. load'[i].clean = load[i].clean /\ load[i].pc # "idle"
      BY <1>6, <2>4, LoadMoves, ZenonT(30) DEF ListRows, ListOrder, ListLatest
    <3>2. load[i] # NoLoad /\ load[i].clean
      BY <3>1 DEF NoLoad, LoadAt
    <3>3. NoJobs /\ NoJobs'
      BY <1>a, <2>1, <3>2 DEF CleanOK, NoJobs
    <3>4. active' = active /\ unread' = unread /\ touched' = touched /\ latest' = latest
      BY <2>1 DEF serverVars
    <3>5. CASE ListRows(i)
      <4>1. load'[i].pc = "order" /\ load'[i].rows = [c \in active |-> unread[c]]
        BY <1>6, <2>4, <3>5, LoadMoves
      <4> QED BY <3>3, <3>4, <4>1 DEF CleanOK
    <3>6. CASE ListOrder(i)
      <4>1. /\ load'[i].pc = "latest" /\ load'[i].items = ByTouched(DOMAIN load[i].rows)
            /\ load'[i].rows = load[i].rows
        BY <1>6, <2>4, <3>6, LoadMoves
      <4>2. load[i].pc = "order"
        BY <3>6 DEF ListOrder
      <4>3. load[i].rows = [c \in active |-> unread[c]]
        BY <1>a, <3>2, <4>2 DEF CleanOK
      <4>4. load'[i].items = ByTouched(active)
        BY <4>1, <4>3
      <4>5. active \subseteq Convs
        BY DEF ShapeOK, ServerOK
      <4> DEFINE q == ByTouched(active)
                 n == Cardinality(active)
      <4>6. q \in [1 .. n -> active] /\ \A j, m \in 1 .. n : j < m => touched[q[j]] > touched[q[m]]
        BY <4>5, Ordered
      <4> HIDE DEF q
      <4>7. \A j, m \in DOMAIN q : j < m => touched[q[j]] > touched[q[m]]
        BY <4>6
      <4>8. load'[i].items = q
        BY <4>4 DEF q
      <4> QED BY <3>3, <3>4, <4>1, <4>3, <4>6, <4>7, <4>8 DEF CleanOK
    <3>7. CASE ListLatest(i)
      <4> DEFINE q == load[i].items
                 n == Cardinality(active)
                 m == load'[i].items
      <4>1. load'[i].pc = "arrive" /\ m = [k1 \in DOMAIN q |-> [id |-> q[k1], at |-> latest[q[k1]], n |-> load[i].rows[q[k1]]]]
        BY <1>6, <2>4, <3>7, LoadMoves
      <4>2. load[i].pc = "latest"
        BY <3>7 DEF ListLatest
      <4>3. /\ load[i].rows = [c \in active |-> unread[c]] /\ q \in [1 .. n -> active]
            /\ \A j, k1 \in DOMAIN q : j < k1 => touched[q[j]] > touched[q[k1]]
        BY <1>a, <3>2, <4>2 DEF CleanOK
      <4>a. \A c \in active : load[i].rows[c] = unread[c]
        BY <4>3
      <4> HIDE DEF m, q
      <4>4. IsFiniteSet(active) /\ n \in Nat
        BY FirstAssumption, FS_Subset, FS_CardinalityType DEF ShapeOK, ServerOK
      <4>5. \A c \in active : c \in Convs /\ touched[c] \in Nat /\ latest[c] \in Nat /\ unread[c] \in Nat
        BY DEF ShapeOK, ServerOK
      <4>6. ASSUME NEW j \in 1 .. n, NEW k1 \in 1 .. n, q[j] = q[k1] PROVE j = k1
        <5>1. touched[q[j]] \in Nat
          BY <4>3, <4>5
        <5>2. ~(j < k1) /\ ~(k1 < j)
          BY <4>3, <4>6, <5>1
        <5> QED BY <4>4, <5>2
      <4>7. q \in Injection(1 .. n, active)
        BY <4>3, <4>6 DEF Injection, IsInjective
      <4>8. q \in Surjection(1 .. n, active)
        <5>1. Cardinality(1 .. n) = n
          BY <4>4, FS_Interval
        <5> QED BY <4>4, <4>7, <5>1, FS_Injection
      <4>9. \A c \in active : \E x \in 1 .. n : q[x] = c
        BY <4>8 DEF Surjection
      <4>10. /\ DOMAIN m = 1 .. n
             /\ \A x \in 1 .. n : q[x] \in active /\ m[x].id = q[x] /\ m[x].at = latest[q[x]] /\ m[x].n = unread[q[x]]
             /\ \A x \in 1 .. n : m[x] = [id |-> q[x], at |-> latest[q[x]], n |-> unread[q[x]]]
        BY <4>1, <4>3, <4>a
      <4>11. m \in Seq(Item) /\ Len(m) = n
        <5>1. \A x \in 1 .. n : m[x] \in Item
          BY <4>5, <4>10 DEF Item
        <5>2. m = [x \in 1 .. n |-> m[x]]
          BY <4>1, <4>10
        <5>3. m \in [1 .. n -> Item]
          BY <5>1, <5>2
        <5> QED BY <4>4, <5>3
      <4>12. \A j, x \in 1 .. n : j < x => touched[m[j].id] > touched[m[x].id]
        BY <4>3, <4>10
      <4>13. Fresh(m)
        BY <4>6, <4>9, <4>10, <4>11, <4>12 DEF Fresh
      <4> QED BY <3>3, <3>4, <4>1, <4>13 DEF CleanOK, Fresh, m
    <3> QED BY <2>4, <3>5, <3>6, <3>7
  <2> QED BY <1>6, <2>2, <2>3, <2>4 DEF LoadStep
<1>7. ASSUME NEW c \in Convs, Delete(c) PROVE CleanOK(load[i])'
  <2>1. StartLoad(Overtaken, c) /\ job' = job
    BY <1>7 DEF Delete
  <2>2. load'[i] = Overtaken[i] \/ (load'[i].pc = "rows" /\ (load'[i].clean => NoJobs))
    BY <1>f, <2>1, LoadStarts
  <2>3. Overtaken[i].clean => Overtaken[i] = NoLoad
    BY OvertakenLoads
  <2> QED BY <1>b, <1>d, <2>1, <2>2, <2>3
<1>8. ASSUME NEW c \in Convs, DeleteFails(c) PROVE CleanOK(load[i])'
  BY <1>8, <1>c DEF DeleteFails
<1>9. ASSUME PreviewUpdated \/ MessageDelivered \/ ConversationRead PROVE CleanOK(load[i])'
  <2>1. UNCHANGED <<job, serverVars>> /\ (UNCHANGED load \/ StartLoad(load, None))
    BY <1>9 DEF PreviewUpdated, MessageDelivered, ConversationRead, Reload
  <2>2. DOMAIN load = Loads /\ \A k \in Loads : LoadOK(load[k])
    BY DEF ShapeOK, LoadsOK
  <2>3. load'[i] = load[i] \/ (load'[i].pc = "rows" /\ (load'[i].clean => NoJobs))
    BY <2>1, <2>2, LoadStarts
  <2> QED BY <1>c, <1>d, <2>1, <2>3
<1>10. ASSUME Disconnect \/ Connect PROVE CleanOK(load[i])'
  BY <1>10, <1>c DEF Disconnect, Connect
<1>11. ASSUME Reopen PROVE CleanOK(load[i])'
  <2>1. /\ load' = [k \in Loads |-> IF k = 1 THEN NewLoad(NoJobs, None) ELSE NoLoad]
        /\ UNCHANGED <<serverVars, job>>
    BY <1>11 DEF Reopen
  <2>2. load'[i] = NewLoad(NoJobs, None) \/ load'[i] = NoLoad
    BY <2>1
  <2>3. NewLoad(NoJobs, None).pc = "rows" /\ NewLoad(NoJobs, None).clean = NoJobs
    BY DEF NewLoad, LoadAt
  <2> QED BY <1>b, <1>d, <2>1, <2>2, <2>3
<1> QED BY <1>1, <1>2, <1>3, <1>4, <1>5, <1>6, <1>7, <1>8, <1>9, <1>10, <1>11 DEF Next, LoadStep

-----------------------------------------------------------------------------
(* Calm: what the events say.                                              *)

\* A queue says no less without its first event ...
LEMMA Shifted ==
    ASSUME NEW q \in Seq(Event), q # <<>>, NEW c
    PROVE  /\ Tail(q) \in Seq(Event) /\ Len(Tail(q)) = Len(q) - 1 /\ Len(q) \in Nat \ {0}
           /\ \A k \in DOMAIN Tail(q) : k + 1 \in DOMAIN q /\ Tail(q)[k] = q[k + 1]
           /\ \A k \in DOMAIN q : k = 1 \/ k - 1 \in DOMAIN Tail(q)
           /\ \A k \in DOMAIN Tail(q) : (k \in Counts(Tail(q), c) <=> k + 1 \in Counts(q, c))
                                     /\ (k \in Dates(Tail(q), c) <=> k + 1 \in Dates(q, c))
<1>1. Tail(q) \in Seq(Event) /\ Len(Tail(q)) = Len(q) - 1 /\ Len(q) \in Nat \ {0}
      /\ \A k \in 1 .. Len(q) - 1 : Tail(q)[k] = q[k + 1]
  OBVIOUS
<1>2. DOMAIN q = 1 .. Len(q) /\ DOMAIN Tail(q) = 1 .. Len(q) - 1
  BY <1>1
<1>3. \A k \in DOMAIN Tail(q) : k + 1 \in DOMAIN q /\ Tail(q)[k] = q[k + 1]
  BY <1>1, <1>2
<1>4. \A k \in DOMAIN q : k = 1 \/ k - 1 \in DOMAIN Tail(q)
  BY <1>1, <1>2
<1>5. \A k \in DOMAIN Tail(q) : (k \in Counts(Tail(q), c) <=> k + 1 \in Counts(q, c))
                             /\ (k \in Dates(Tail(q), c) <=> k + 1 \in Dates(q, c))
  BY <1>3 DEF Counts, Dates
<1> QED BY <1>1, <1>3, <1>4, <1>5

LEMMA ShiftedRight ==
    ASSUME NEW q \in Seq(Event), q # <<>>, NEW c
    PROVE  /\ Counts(q, c) = {} => Counts(Tail(q), c) = {}
           /\ Dates(q, c) = {} => Dates(Tail(q), c) = {}
           /\ \A n : CountsRight(q, c, n) => CountsRight(Tail(q), c, n)
           /\ \A n : DatesRight(q, c, n) => DatesRight(Tail(q), c, n)
<1> DEFINE t == Tail(q)
<1>1. /\ t \in Seq(Event) /\ Len(q) \in Nat \ {0} /\ Len(t) = Len(q) - 1
      /\ \A k \in DOMAIN t : k + 1 \in DOMAIN q /\ t[k] = q[k + 1]
      /\ \A k \in DOMAIN q : k = 1 \/ k - 1 \in DOMAIN t
      /\ \A k \in DOMAIN t : (k \in Counts(t, c) <=> k + 1 \in Counts(q, c)) /\ (k \in Dates(t, c) <=> k + 1 \in Dates(q, c))
  BY Shifted
<1>2. DOMAIN t = 1 .. Len(t) /\ DOMAIN q = 1 .. Len(q) /\ Len(t) \in Nat
  BY <1>1
<1> HIDE DEF t
<1>3. Counts(t, c) \subseteq DOMAIN t /\ Dates(t, c) \subseteq DOMAIN t /\ Counts(q, c) \subseteq DOMAIN q /\ Dates(q, c) \subseteq DOMAIN q
  BY DEF Counts, Dates
<1>4. ASSUME NEW n, CountsRight(q, c, n) PROVE CountsRight(t, c, n)
  <2> SUFFICES ASSUME NEW k \in Counts(t, c), \A j \in Counts(t, c) : j <= k
               PROVE  IF t[k].t = "preview" THEN t[k].n = n ELSE n = 0
    BY DEF CountsRight
  <2>1. k \in DOMAIN t /\ k + 1 \in Counts(q, c) /\ t[k] = q[k + 1] /\ k \in Nat
    BY <1>1, <1>2, <1>3
  <2>2. ASSUME NEW j \in Counts(q, c) PROVE j <= k + 1
    <3>1. j \in Nat /\ (j = 1 \/ j - 1 \in DOMAIN t)
      BY <1>1, <1>2, <1>3
    <3>2. CASE j = 1
      BY <2>1, <3>2
    <3>3. CASE j - 1 \in DOMAIN t
      <4>1. j - 1 + 1 = j
        BY <3>1
      <4>2. j - 1 \in Counts(t, c)
        BY <1>1, <3>3, <4>1
      <4>3. j - 1 <= k
        BY <4>2
      <4> QED BY <2>1, <3>1, <4>3
    <3> QED BY <3>1, <3>2, <3>3
  <2> QED BY <1>4, <2>1, <2>2 DEF CountsRight
<1>5. ASSUME NEW n, DatesRight(q, c, n) PROVE DatesRight(t, c, n)
  <2> SUFFICES ASSUME NEW k \in Dates(t, c), \A j \in Dates(t, c) : j <= k
               PROVE  IF t[k].t = "preview" THEN t[k].at = n ELSE t[k].sent = n
    BY DEF DatesRight
  <2>1. k \in DOMAIN t /\ k + 1 \in Dates(q, c) /\ t[k] = q[k + 1] /\ k \in Nat
    BY <1>1, <1>2, <1>3
  <2>2. ASSUME NEW j \in Dates(q, c) PROVE j <= k + 1
    <3>1. j \in Nat /\ (j = 1 \/ j - 1 \in DOMAIN t)
      BY <1>1, <1>2, <1>3
    <3>2. CASE j = 1
      BY <2>1, <3>2
    <3>3. CASE j - 1 \in DOMAIN t
      <4>1. j - 1 + 1 = j
        BY <3>1
      <4>2. j - 1 \in Dates(t, c)
        BY <1>1, <3>3, <4>1
      <4>3. j - 1 <= k
        BY <4>2
      <4> QED BY <2>1, <3>1, <4>3
    <3> QED BY <3>1, <3>2, <3>3
  <2> QED BY <1>5, <2>1, <2>2 DEF DatesRight
<1>6. (Counts(q, c) = {} => Counts(t, c) = {}) /\ (Dates(q, c) = {} => Dates(t, c) = {})
  BY <1>1, <1>3
<1> QED BY <1>4, <1>5, <1>6 DEF t

\* ... events of c are appended.
LEMMA Appended ==
    ASSUME NEW q \in Seq(Event), NEW ev \in Seq(Event), NEW c, \A k \in DOMAIN ev : ev[k].conv = c, NEW d, d # c
    PROVE  /\ Counts(q \o ev, d) = Counts(q, d) /\ Dates(q \o ev, d) = Dates(q, d)
           /\ \A n : CountsRight(q, d, n) => CountsRight(q \o ev, d, n)
           /\ \A n : DatesRight(q, d, n) => DatesRight(q \o ev, d, n)
<1> DEFINE w == q \o ev
<1>1. /\ w \in Seq(Event) /\ Len(w) = Len(q) + Len(ev) /\ Len(q) \in Nat /\ Len(ev) \in Nat
      /\ \A k \in 1 .. Len(w) : w[k] = IF k <= Len(q) THEN q[k] ELSE ev[k - Len(q)]
      /\ DOMAIN w = 1 .. Len(w) /\ DOMAIN q = 1 .. Len(q) /\ DOMAIN ev = 1 .. Len(ev)
  OBVIOUS
<1> HIDE DEF w
<1>2. \A k \in DOMAIN q : k \in DOMAIN w /\ w[k] = q[k]
  BY <1>1
<1>3. ASSUME NEW k \in DOMAIN w, k \notin DOMAIN q PROVE w[k].conv = c
  <2>1. k - Len(q) \in DOMAIN ev /\ w[k] = ev[k - Len(q)]
    BY <1>1, <1>3
  <2> QED BY <2>1
<1>4. Counts(w, d) = Counts(q, d)
  <2>1. Counts(w, d) \subseteq Counts(q, d)
    BY <1>2, <1>3 DEF Counts
  <2>2. Counts(q, d) \subseteq Counts(w, d)
    BY <1>2 DEF Counts
  <2> QED BY <2>1, <2>2
<1>5. Dates(w, d) = Dates(q, d)
  <2>1. Dates(w, d) \subseteq Dates(q, d)
    BY <1>2, <1>3 DEF Dates
  <2>2. Dates(q, d) \subseteq Dates(w, d)
    BY <1>2 DEF Dates
  <2> QED BY <2>1, <2>2
<1>6. Counts(q, d) \subseteq DOMAIN q /\ Dates(q, d) \subseteq DOMAIN q
  BY DEF Counts, Dates
<1>7. \A k \in Counts(q, d) : w[k] = q[k]
  BY <1>2, <1>6
<1>8. \A k \in Dates(q, d) : w[k] = q[k]
  BY <1>2, <1>6
<1>9. \A n : CountsRight(q, d, n) => CountsRight(w, d, n)
  BY <1>4, <1>7 DEF CountsRight
<1>10. \A n : DatesRight(q, d, n) => DatesRight(w, d, n)
  BY <1>5, <1>8 DEF DatesRight
<1> QED BY <1>4, <1>5, <1>9, <1>10 DEF w

\* What is appended is the last that is said of c.
LEMMA AppendedRight ==
    ASSUME NEW q \in Seq(Event), NEW ev \in Seq(Event), NEW c, NEW n, NEW at, Say(ev, c, n, at)
    PROVE  /\ CountsRight(q \o ev, c, n) /\ DatesRight(q \o ev, c, at)
           /\ Counts(q \o ev, c) # {} /\ Dates(q \o ev, c) # {} /\ Previewed(q \o ev, c)
<1> DEFINE w == q \o ev
<1>1. /\ w \in Seq(Event) /\ Len(w) = Len(q) + Len(ev) /\ Len(q) \in Nat /\ Len(ev) \in Nat
      /\ \A k \in 1 .. Len(w) : w[k] = IF k <= Len(q) THEN q[k] ELSE ev[k - Len(q)]
      /\ DOMAIN w = 1 .. Len(w) /\ DOMAIN q = 1 .. Len(q) /\ DOMAIN ev = 1 .. Len(ev)
  OBVIOUS
<1>s. /\ ev # <<>> /\ ev[1].t = "preview"
      /\ \A k \in DOMAIN ev : /\ ev[k].conv = c /\ ev[k].n = n /\ ev[k].at = at
                              /\ (ev[k].t = "message" => ev[k].sent = at)
                              /\ (ev[k].kind = "myRead" => n = 0)
  BY DEF Say
<1>2. 1 \in DOMAIN ev
  BY <1>1, <1>s
<1> HIDE DEF w
<1> DEFINE m == Len(q) + 1
<1>3. m \in DOMAIN w /\ w[m] = ev[1] /\ m \in Nat
  <2>1. m - Len(q) = 1 /\ ~(m <= Len(q)) /\ m \in 1 .. Len(w)
    BY <1>1, <1>2
  <2> QED BY <1>1, <2>1
<1>4. ASSUME NEW k \in DOMAIN w, m <= k PROVE \E x \in DOMAIN ev : w[k] = ev[x]
  <2>1. k - Len(q) \in DOMAIN ev /\ w[k] = ev[k - Len(q)]
    BY <1>1, <1>4
  <2> QED BY <2>1
<1>5. m \in Counts(w, c) /\ m \in Dates(w, c)
  BY <1>s, <1>2, <1>3 DEF Counts, Dates
<1> HIDE DEF m
<1>6. ASSUME NEW k \in Counts(w, c), \A j \in Counts(w, c) : j <= k
      PROVE  IF w[k].t = "preview" THEN w[k].n = n ELSE n = 0
  <2>1. m <= k /\ k \in DOMAIN w
    BY <1>5, <1>6 DEF Counts
  <2>2. PICK x \in DOMAIN ev : w[k] = ev[x]
    BY <1>4, <2>1
  <2>3. w[k].t = "preview" \/ w[k].kind = "myRead"
    BY <1>6 DEF Counts
  <2> QED BY <1>s, <2>2, <2>3
<1>7. ASSUME NEW k \in Dates(w, c), \A j \in Dates(w, c) : j <= k
      PROVE  IF w[k].t = "preview" THEN w[k].at = at ELSE w[k].sent = at
  <2>1. m <= k /\ k \in DOMAIN w
    BY <1>5, <1>7 DEF Dates
  <2>2. PICK x \in DOMAIN ev : w[k] = ev[x]
    BY <1>4, <2>1
  <2>3. w[k].t = "preview" \/ w[k].t = "message"
    BY <1>7 DEF Dates
  <2> QED BY <1>s, <2>2, <2>3
<1>8. w[m].conv = c /\ w[m].t = "preview"
  BY <1>s, <1>2, <1>3
<1> QED BY <1>3, <1>5, <1>6, <1>7, <1>8 DEF CountsRight, DatesRight, Previewed, w

\* What happens in one conversation, to one handler.
LEMMA CalmFrame ==
    ASSUME ShapeOK, CalmOK, NEW c \in Convs, NEW s \in Slots,
           \A r \in Slots : r # s => job'[r] = job[r],
           job[s].conv \in {c, None}, job'[s].conv \in {c, None},
           active' \subseteq Convs,
           \A d \in Convs : d # c =>
               /\ latest'[d] = latest[d] /\ unread'[d] = unread[d] /\ (d \in active' => d \in active)
               /\ (Counts(inbox, d) = {} => Counts(inbox', d) = {})
               /\ (Dates(inbox, d) = {} => Dates(inbox', d) = {})
               /\ \A n : CountsRight(inbox, d, n) => CountsRight(inbox', d, n)
               /\ \A n : DatesRight(inbox, d, n) => DatesRight(inbox', d, n),
           calm' => calm /\ \A r \in Slots : r # s => job[r].conv # c,
           calm' /\ c \in active' /\ job'[s].conv = c => Knows(job'[s], c, latest'[c], unread'[c], inbox'),
           calm' /\ c \in active' /\ job'[s].conv = None =>
               CountsRight(inbox', c, unread'[c]) /\ DatesRight(inbox', c, latest'[c])
    PROVE  CalmOK'
<1> SUFFICES ASSUME calm' PROVE (\A r \in Slots : Alone(r)') /\ (\A r \in Slots : KnowsAll(r)') /\ \A d \in Convs : Told(d)'
  BY DEF CalmOK
<1>1. calm /\ \A r \in Slots : r # s => job[r].conv # c
  OBVIOUS
<1>a. None \notin Convs
  BY FirstAssumption
<1>2. (\A r \in Slots : Alone(r)) /\ (\A r \in Slots : KnowsAll(r)) /\ \A d \in Convs : Told(d)
  BY <1>1 DEF CalmOK
<1>3. ASSUME NEW r \in Slots, NEW t \in Slots, job'[t].conv = job'[r].conv, job'[r].conv # None PROVE t = r
  <2>1. CASE r = s
    BY <1>1, <1>3, <2>1
  <2>2. CASE t = s
    BY <1>1, <1>3, <2>2
  <2>3. CASE r # s /\ t # s
    BY <1>2, <1>3, <2>3 DEF Alone
  <2> QED BY <2>1, <2>2, <2>3
<1>4. ASSUME NEW r \in Slots, job'[r].conv \in active'
      PROVE  Knows(job'[r], job'[r].conv, latest'[job'[r].conv], unread'[job'[r].conv], inbox')
  <2>1. CASE r = s
    BY <1>a, <1>4, <2>1
  <2>2. CASE r # s
    <3> DEFINE d == job[r].conv
    <3>1. job'[r] = job[r] /\ d # c /\ d \in Convs
      BY <1>1, <1>4, <2>2
    <3>2. d \in active
      BY <1>4, <3>1
    <3>3. Knows(job[r], d, latest[d], unread[d], inbox)
      BY <1>2, <3>2 DEF KnowsAll
    <3>4. Knows(job[r], d, latest[d], unread[d], inbox')
      <4>1. (Counts(inbox, d) = {} => Counts(inbox', d) = {}) /\ (Dates(inbox, d) = {} => Dates(inbox', d) = {})
        BY <3>1
      <4> QED BY <3>3, <4>1 DEF Knows
    <3>5. latest'[d] = latest[d] /\ unread'[d] = unread[d]
      BY <3>1
    <3> QED BY <3>1, <3>4, <3>5
  <2> QED BY <2>1, <2>2
<1>5. ASSUME NEW d \in Convs, d \in active', \A r \in Slots : job'[r].conv # d
      PROVE  CountsRight(inbox', d, unread'[d]) /\ DatesRight(inbox', d, latest'[d])
  <2>1. CASE d = c
    BY <1>5, <2>1
  <2>2. CASE d # c
    <3>1. \A r \in Slots : job[r].conv # d
      BY <1>5, <2>2, <1>a
    <3>2. CountsRight(inbox, d, unread[d]) /\ DatesRight(inbox, d, latest[d])
      BY <1>2, <1>5, <2>2, <3>1 DEF Told, Under
    <3> QED BY <2>2, <3>2
  <2> QED BY <2>1, <2>2
<1>6. \A r \in Slots : Alone(r)'
  BY <1>3 DEF Alone
<1>7. \A r \in Slots : KnowsAll(r)'
  BY <1>4 DEF KnowsAll
<1>8. \A d \in Convs : Told(d)'
  BY <1>5 DEF Told, Under
<1> QED BY <1>6, <1>7, <1>8

\* What only takes events from the queue, or conversations from the user.
LEMMA CalmLess ==
    ASSUME CalmOK, calm' => calm, job' = job, latest' = latest, unread' = unread, active' \subseteq active,
           \A d \in Convs :
               /\ (Counts(inbox, d) = {} => Counts(inbox', d) = {})
               /\ (Dates(inbox, d) = {} => Dates(inbox', d) = {})
               /\ \A n : CountsRight(inbox, d, n) => CountsRight(inbox', d, n)
               /\ \A n : DatesRight(inbox, d, n) => DatesRight(inbox', d, n),
           ShapeOK
    PROVE  CalmOK'
<1> SUFFICES ASSUME calm' PROVE (\A r \in Slots : Alone(r)') /\ (\A r \in Slots : KnowsAll(r)') /\ \A d \in Convs : Told(d)'
  BY DEF CalmOK
<1>2. (\A r \in Slots : Alone(r)) /\ (\A r \in Slots : KnowsAll(r)) /\ \A d \in Convs : Told(d)
  BY DEF CalmOK
<1>3. \A r \in Slots : Alone(r)'
  BY <1>2 DEF Alone
<1>4. ASSUME NEW r \in Slots, job[r].conv \in active'
      PROVE  Knows(job[r], job[r].conv, latest[job[r].conv], unread[job[r].conv], inbox')
  <2> DEFINE d == job[r].conv
  <2>1. d \in active /\ d \in Convs
    BY <1>4 DEF ShapeOK, ServerOK
  <2>2. Knows(job[r], d, latest[d], unread[d], inbox)
    BY <1>2, <2>1 DEF KnowsAll
  <2>3. (Counts(inbox, d) = {} => Counts(inbox', d) = {}) /\ (Dates(inbox, d) = {} => Dates(inbox', d) = {})
    BY <2>1
  <2> QED BY <2>2, <2>3 DEF Knows
<1>5. \A r \in Slots : KnowsAll(r)'
  BY <1>4 DEF KnowsAll
<1>6. \A d \in Convs : Told(d)'
  BY <1>2 DEF Told, Under
<1> QED BY <1>3, <1>5, <1>6

\* Nothing is said.
LEMMA Silent ==
    ASSUME NEW q, q = <<>>, NEW c
    PROVE  /\ Counts(q, c) = {} /\ Dates(q, c) = {}
           /\ \A n : CountsRight(q, c, n) /\ DatesRight(q, c, n)
BY DEF Counts, Dates, CountsRight, DatesRight

LEMMA NothingRight ==
    ASSUME NEW q, NEW c, Counts(q, c) = {}, Dates(q, c) = {}
    PROVE  \A n : CountsRight(q, c, n) /\ DatesRight(q, c, n)
BY DEF CountsRight, DatesRight

\* What a handler tells, while calm.
LEMMA EmitSays ==
    ASSUME ShapeOK, CalmOK, NEW s \in Slots, Emit(s), calm'
    PROVE  LET c == job[s].conv
           IN /\ calm /\ c \in Convs /\ job'[s] = Idle /\ job[s].kind # "httpRead"
              /\ \A r \in Slots : r # s => job'[r] = job[r]
              /\ \A k \in DOMAIN inbox : k \in DOMAIN inbox' /\ inbox'[k] = inbox[k]
              /\ \A d \in Convs : d # c =>
                   /\ Counts(inbox', d) = Counts(inbox, d) /\ Dates(inbox', d) = Dates(inbox, d)
                   /\ \A n : CountsRight(inbox, d, n) => CountsRight(inbox', d, n)
                   /\ \A n : DatesRight(inbox, d, n) => DatesRight(inbox', d, n)
              /\ c \in active =>
                   /\ CountsRight(inbox', c, unread[c]) /\ DatesRight(inbox', c, latest[c])
                   /\ Counts(inbox', c) # {} /\ Dates(inbox', c) # {}
                   /\ Previewed(inbox', c)
<1> DEFINE j == job[s]
           c == j.conv
           ev == Events(j)
<1>1. /\ j.pc = "emit" /\ job' = [job EXCEPT ![s] = Idle]
      /\ inbox' = (IF link THEN inbox \o ev ELSE inbox)
      /\ calm' = (calm /\ (link \/ ev = <<>>))
  BY DEF Emit
<1>2. /\ ev \in Seq(Event) /\ c \in Convs /\ j.kind # "httpRead"
      /\ \A k \in DOMAIN ev : /\ ev[k].conv = c /\ ev[k].sent = j.sent /\ ev[k].at = j.at /\ ev[k].n = j.n
                              /\ ev[k].kind = j.kind
      /\ \A k \in DOMAIN ev : (ev[k].t = "message" => j.kind \in Sends) /\ (ev[k].t = "preview" => j.to)
      /\ j.to => (ev # <<>> /\ ev[1].t = "preview")
  BY <1>1, Emitted
<1>3. job'[s] = Idle /\ \A r \in Slots : r # s => job'[r] = job[r]
  BY <1>1, IdleOK, JobSet DEF ShapeOK
<1>4. inbox \in Seq(Event) /\ calm
  BY <1>1 DEF ShapeOK, BrowserOK
<1>q. KnowsAll(s)
  BY <1>4 DEF CalmOK
<1> HIDE DEF ev
<1>5. inbox' = inbox \o ev
  <2>1. inbox \o <<>> = inbox
    BY <1>4
  <2> QED BY <1>1, <2>1
<1>6. \A k \in DOMAIN inbox : k \in DOMAIN inbox' /\ inbox'[k] = inbox[k]
  <2>1. \A k \in DOMAIN inbox : k \in DOMAIN (inbox \o ev) /\ (inbox \o ev)[k] = inbox[k]
    BY <1>2, <1>4
  <2> QED BY <1>5, <2>1
<1>7. ASSUME NEW d \in Convs, d # c
      PROVE  /\ Counts(inbox', d) = Counts(inbox, d) /\ Dates(inbox', d) = Dates(inbox, d)
             /\ \A n : CountsRight(inbox, d, n) => CountsRight(inbox', d, n)
             /\ \A n : DatesRight(inbox, d, n) => DatesRight(inbox', d, n)
  <2>1. ev \in Seq(Event) /\ \A k \in DOMAIN ev : ev[k].conv = c
    BY <1>2
  <2> HIDE DEF j, c
  <2>2. /\ Counts(inbox \o ev, d) = Counts(inbox, d) /\ Dates(inbox \o ev, d) = Dates(inbox, d)
        /\ \A n : CountsRight(inbox, d, n) => CountsRight(inbox \o ev, d, n)
        /\ \A n : DatesRight(inbox, d, n) => DatesRight(inbox \o ev, d, n)
    BY <1>4, <1>7, <2>1, Appended
  <2> QED BY <1>5, <2>2, Zenon
<1>8. ASSUME c \in active
      PROVE  /\ CountsRight(inbox', c, unread[c]) /\ DatesRight(inbox', c, latest[c])
             /\ Counts(inbox', c) # {} /\ Dates(inbox', c) # {}
             /\ Previewed(inbox', c)
  <2>1. Knows(j, c, latest[c], unread[c], inbox)
    BY <1>q, <1>8 DEF KnowsAll
  <2>2. /\ j.to /\ j.at = latest[c] /\ j.n = unread[c] /\ (j.kind \in Sends => j.sent = latest[c])
        /\ (j.kind = "myRead" => unread[c] = 0)
    BY <1>1, <2>1 DEF Knows
  <2> DEFINE n == unread[c]
             at == latest[c]
  <2> HIDE DEF n, at
  <2>3. ev # <<>> /\ ev[1].t = "preview"
    BY <1>2, <2>2
  <2>4. Say(ev, c, n, at)
    BY <1>2, <2>2, <2>3 DEF n, at, Say
  <2> HIDE DEF j, c
  <2>5. /\ CountsRight(inbox \o ev, c, n) /\ DatesRight(inbox \o ev, c, at)
        /\ Counts(inbox \o ev, c) # {} /\ Dates(inbox \o ev, c) # {} /\ Previewed(inbox \o ev, c)
    <3>1. ev \in Seq(Event) /\ inbox \in Seq(Event)
      BY <1>2, <1>4
    <3> QED BY <2>4, <3>1, AppendedRight
  <2> QED BY <1>5, <2>5 DEF n, at
<1> QED BY <1>2, <1>3, <1>4, <1>6, <1>7, <1>8

\* While calm, what handlers know and what events say is right: two handlers of
\* one conversation that overlap, or an event that is lost, end the calm.
LEMMA CalmStep == ShapeOK /\ LoadsClean /\ CalmOK /\ Next => CalmOK'
<1> SUFFICES ASSUME ShapeOK, LoadsClean, CalmOK, Next PROVE CalmOK'
  OBVIOUS
<1>a. None \notin Convs /\ active \subseteq Convs
  BY FirstAssumption DEF ShapeOK, ServerOK
<1>b. Idle.conv = None
  BY DEF Idle, Handler
<1>c. ASSUME calm' => calm, UNCHANGED <<job, latest, unread, inbox>>, active' \subseteq active PROVE CalmOK'
  BY <1>c, CalmLess
<1>d. latest \in [Convs -> Nat] /\ unread \in [Convs -> Nat] /\ inbox \in Seq(Event)
  BY DEF ShapeOK, ServerOK, BrowserOK
<1>1. ASSUME NEW s \in Slots, NEW c \in Convs, PeerSends(s, c) PROVE CalmOK'
  <2>1. /\ now' = now + 1 /\ latest' = [latest EXCEPT ![c] = now'] /\ Begin(s, "peerSend", "touch", c, now')
        /\ active' = active \cup {c} /\ unread' = unread /\ inbox' = inbox /\ "peerSend" \in Sends
    BY <1>1 DEF PeerSends, Store, Sends
  <2>2. now' \in Nat
    BY <2>1 DEF ShapeOK, ServerOK
  <2>3. /\ job'[s] = Handler("peerSend", "touch", c, now') /\ \A r \in Slots : r # s => job'[r] = job[r]
        /\ job[s] = Idle /\ (calm' => calm /\ \A r \in Slots : job[r].conv # c)
    BY <2>1, <2>2, Begins
  <2>4. latest'[c] = now' /\ \A d \in Convs : d # c => latest'[d] = latest[d]
    BY <1>d, <2>1
  <2>5. job'[s].conv = c /\ Knows(job'[s], c, latest'[c], unread'[c], inbox')
    BY <2>3, <2>4 DEF Handler, Knows
  <2>6. active' \subseteq Convs /\ \A d \in Convs : d # c => (d \in active' => d \in active)
    BY <1>a, <2>1
  <2> QED BY <1>a, <1>b, <2>1, <2>3, <2>4, <2>5, <2>6, CalmFrame
<1>2. ASSUME NEW s \in Slots, ISend(s) PROVE CalmOK'
  <2> DEFINE c == selected
  <2>1. /\ now' = now + 1 /\ latest' = [latest EXCEPT ![c] = now'] /\ Begin(s, "mySend", "touch", c, now')
        /\ active' = active /\ unread' = unread /\ inbox' = inbox /\ "mySend" \in Sends /\ c \in Convs
    BY <1>a, <1>2 DEF ISend, Store, Sends
  <2> HIDE DEF c
  <2>2. now' \in Nat
    BY <2>1 DEF ShapeOK, ServerOK
  <2>3. /\ job'[s] = Handler("mySend", "touch", c, now') /\ \A r \in Slots : r # s => job'[r] = job[r]
        /\ job[s] = Idle /\ (calm' => calm /\ \A r \in Slots : job[r].conv # c)
    BY <2>1, <2>2, Begins
  <2>4. latest'[c] = now' /\ \A d \in Convs : d # c => latest'[d] = latest[d]
    BY <1>d, <2>1
  <2>5. job'[s].conv = c /\ Knows(job'[s], c, latest'[c], unread'[c], inbox')
    BY <2>3, <2>4 DEF Handler, Knows
  <2> QED BY <1>a, <1>b, <2>1, <2>3, <2>4, <2>5, CalmFrame
<1>3. ASSUME NEW s \in Slots, NEW c \in Convs, Open(s, c) PROVE CalmOK'
  <2>1. UNCHANGED <<latest, unread, active, inbox>>
    BY <1>3 DEF Open, serverVars
  <2>2. CASE UNCHANGED <<job, calm, load>>
    BY <1>c, <2>1, <2>2
  <2>3. CASE Begin(s, IF link THEN "myRead" ELSE "httpRead", "zero", c, 0)
    <3> DEFINE kind == IF link THEN "myRead" ELSE "httpRead"
    <3>1. kind \in {"myRead", "httpRead"} /\ 0 \in Nat /\ (kind = "httpRead" => ~link)
      OBVIOUS
    <3>2. Begin(s, kind, "zero", c, 0)
      BY <2>3
    <3> HIDE DEF kind
    <3>3. /\ job'[s] = Handler(kind, "zero", c, 0) /\ \A r \in Slots : r # s => job'[r] = job[r]
          /\ job[s] = Idle /\ (calm' => calm /\ \A r \in Slots : job[r].conv # c)
      BY <3>1, <3>2, Begins
    <3>4. kind = "httpRead" => Counts(inbox', c) = {} /\ Dates(inbox', c) = {}
      <4>1. ~link => inbox' = <<>>
        BY <2>1 DEF ShapeOK, BrowserOK
      <4> QED BY <3>1, <4>1, Silent
    <3>5. job'[s].conv = c /\ Knows(job'[s], c, latest'[c], unread'[c], inbox')
      BY <3>1, <3>3, <3>4 DEF Handler, Knows, Sends
    <3> QED BY <1>a, <1>b, <2>1, <3>3, <3>5, CalmFrame
  <2> QED BY <1>3, <2>2, <2>3 DEF Open
<1>4. ASSUME NEW s \in Slots, NEW c \in Convs, PeerReads(s, c) PROVE CalmOK'
  <2>1. Begin(s, "peerRead", "latest", c, 0) /\ UNCHANGED <<latest, unread, active, inbox>>
    BY <1>4 DEF PeerReads, serverVars
  <2>2. /\ job'[s] = Handler("peerRead", "latest", c, 0) /\ \A r \in Slots : r # s => job'[r] = job[r]
        /\ job[s] = Idle /\ (calm' => calm /\ \A r \in Slots : job[r].conv # c)
    BY <2>1, Begins
  <2>3. job'[s].conv = c /\ Knows(job'[s], c, latest'[c], unread'[c], inbox')
    BY <2>2 DEF Handler, Knows, Sends
  <2> QED BY <1>a, <1>b, <2>1, <2>2, <2>3, CalmFrame
<1>5. ASSUME NEW s \in Slots, Touch(s) \/ Count(s) \/ Zero(s) \/ ReadLatest(s) \/ ReadRow(s) PROVE CalmOK'
  <2> DEFINE j == job[s]
             l == job'[s]
             c == j.conv
  <2>1. /\ c \in Convs /\ \A r \in Slots : r # s => job'[r] = job[r]
        /\ l.conv = c /\ l.kind = j.kind /\ l.sent = j.sent
        /\ (Touch(s) => l.pc = "count" /\ j.kind \in Sends)
        /\ (Count(s) => l.pc = "latest" /\ j.kind \in Sends)
        /\ (Zero(s) => /\ j.kind \in {"myRead", "httpRead"}
                       /\ l.pc = IF j.kind = "httpRead" THEN "answer" ELSE "latest")
        /\ (ReadLatest(s) => /\ l.pc = "row" /\ j.kind # "httpRead" /\ l.to = (c \in active) /\ l.at = latest[c])
        /\ (ReadRow(s) => /\ l.pc = "emit" /\ j.kind # "httpRead" /\ l.to = j.to /\ l.at = j.at /\ j.pc = "row"
                          /\ l.n = IF c \in active THEN unread[c] ELSE 0)
    BY <1>5, Moves
  <2>2. UNCHANGED <<latest, active, inbox, calm>>
    BY <1>5 DEF Touch, Count, Zero, ReadLatest, ReadRow, serverVars
  <2>3. \A d \in Convs : d # c => unread'[d] = unread[d]
    BY <1>5, <1>d, <2>1 DEF Touch, Count, Zero, ReadLatest, ReadRow, serverVars
  <2>4. calm' => calm /\ \A r \in Slots : r # s => job[r].conv # c
    BY <1>a, <2>1, <2>2 DEF CalmOK, Alone
  <2>z. Zero(s) => unread'[c] = 0
    BY <1>d, <2>1 DEF Zero
  <2>u. ~Zero(s) /\ ~Count(s) => unread' = unread
    BY <1>5 DEF Touch, ReadLatest, ReadRow, serverVars
  <2>p. ReadLatest(s) => j.pc = "latest"
    BY DEF ReadLatest
  <2>5. ASSUME calm', c \in active PROVE Knows(l, c, latest[c], unread'[c], inbox)
    <3>1. Knows(j, c, latest[c], unread[c], inbox)
      BY <2>4, <2>5 DEF CalmOK, KnowsAll
    <3> HIDE DEF l, j, c
    <3>2. CASE Touch(s)
      BY <2>1, <3>1, <3>2 DEF Knows, Sends
    <3>3. CASE Count(s)
      BY <2>1, <3>1, <3>3 DEF Knows, Sends
    <3>4. CASE Zero(s)
      BY <2>1, <2>z, <3>1, <3>4 DEF Knows, Sends
    <3>5. CASE ReadLatest(s) /\ ~Zero(s) /\ ~Count(s)
      BY <2>1, <2>u, <2>p, <2>5, <3>1, <3>5 DEF Knows
    <3>6. CASE ReadRow(s) /\ ~Zero(s) /\ ~Count(s)
      BY <2>1, <2>u, <2>5, <3>1, <3>6 DEF Knows
    <3> QED BY <1>5, <3>2, <3>3, <3>4, <3>5, <3>6
  <2>6. calm' /\ c \in active' /\ l.conv = c => Knows(l, c, latest'[c], unread'[c], inbox')
    BY <2>2, <2>5
  <2>7. l.conv # None
    BY <1>a, <2>1
  <2> QED BY <1>a, <2>1, <2>2, <2>3, <2>4, <2>6, <2>7, CalmFrame
<1>6. ASSUME NEW s \in Slots, Emit(s) PROVE CalmOK'
  <2> SUFFICES ASSUME calm' PROVE CalmOK'
    BY DEF CalmOK
  <2> DEFINE c == job[s].conv
  <2>1. /\ calm /\ c \in Convs /\ job'[s] = Idle
        /\ \A r \in Slots : r # s => job'[r] = job[r]
        /\ \A d \in Convs : d # c =>
             /\ Counts(inbox', d) = Counts(inbox, d) /\ Dates(inbox', d) = Dates(inbox, d)
             /\ \A n : CountsRight(inbox, d, n) => CountsRight(inbox', d, n)
             /\ \A n : DatesRight(inbox, d, n) => DatesRight(inbox', d, n)
        /\ c \in active => CountsRight(inbox', c, unread[c]) /\ DatesRight(inbox', c, latest[c])
    BY <1>6, EmitSays
  <2>2. UNCHANGED <<latest, active, unread>>
    BY <1>6 DEF Emit, serverVars
  <2>3. \A r \in Slots : r # s => job[r].conv # c
    BY <1>a, <2>1 DEF CalmOK, Alone
  <2>4. job'[s].conv # c
    BY <1>a, <1>b, <2>1
  <2> QED BY <1>a, <1>b, <2>1, <2>2, <2>3, <2>4, CalmFrame
<1>7. ASSUME NEW s \in Slots, ReadAnswered(s) PROVE CalmOK'
  <2> DEFINE c == job[s].conv
  <2>1. job[s].pc = "answer" /\ job' = [job EXCEPT ![s] = Idle] /\ UNCHANGED <<latest, active, unread, inbox, calm>>
    BY <1>7 DEF ReadAnswered, serverVars
  <2>2. job'[s] = Idle /\ \A r \in Slots : r # s => job'[r] = job[r]
    BY <2>1, IdleOK, JobSet DEF ShapeOK
  <2>3. c \in Convs /\ job[s].kind = "httpRead"
    BY <2>1 DEF ShapeOK, JobsOK, JobOK, Idle, Handler
  <2>4. calm' => calm /\ \A r \in Slots : r # s => job[r].conv # c
    BY <1>a, <2>1, <2>3 DEF CalmOK, Alone
  <2>5. ASSUME calm', c \in active PROVE CountsRight(inbox, c, unread[c]) /\ DatesRight(inbox, c, latest[c])
    <3>1. Knows(job[s], c, latest[c], unread[c], inbox)
      BY <2>4, <2>5 DEF CalmOK, KnowsAll
    <3>2. Counts(inbox, c) = {} /\ Dates(inbox, c) = {}
      BY <2>3, <3>1 DEF Knows
    <3> QED BY <3>2, NothingRight
  <2>6. job'[s].conv # c
    BY <1>a, <1>b, <2>2, <2>3
  <2> QED BY <1>a, <1>b, <2>1, <2>2, <2>3, <2>4, <2>5, <2>6, CalmFrame
<1>8. ASSUME NEW i \in Loads, LoadStep(i) PROVE CalmOK'
  <2>1. UNCHANGED <<job, latest, unread, active, inbox>>
    BY <1>8, LoadMoves DEF serverVars
  <2>2. CASE calm' => calm
    BY <1>c, <2>1, <2>2
  <2>3. CASE calm' /\ ~calm
    <3>1. ListArrives(i)
      BY <1>8, <2>3 DEF LoadStep, ListRows, ListOrder, ListLatest, ListFails
    <3>2. load[i].clean /\ inbox = <<>> /\ load[i].pc = "arrive"
      BY <2>3, <3>1 DEF ListArrives
    <3>3. load[i] # NoLoad
      BY <3>2 DEF NoLoad, LoadAt
    <3>4. NoJobs
      BY <3>2, <3>3 DEF LoadsClean, CleanOK
    <3>5. \A r \in Slots : job'[r].conv = None
      BY <1>b, <2>1, <3>4 DEF NoJobs
    <3>6. inbox' = <<>>
      BY <2>1, <3>2
    <3>7. \A r \in Slots : Alone(r)'
      BY <3>5 DEF Alone
    <3>8. \A r \in Slots : KnowsAll(r)'
      BY <1>a, <2>1, <3>5 DEF KnowsAll
    <3>9. \A d \in Convs : Told(d)'
      BY <3>6, Silent DEF Told
    <3> QED BY <3>7, <3>8, <3>9 DEF CalmOK
  <2> QED BY <2>2, <2>3
<1>9. ASSUME NEW c \in Convs, Delete(c) \/ DeleteFails(c) PROVE CalmOK'
  <2>1. UNCHANGED <<job, latest, unread, inbox>> /\ active' \subseteq active /\ (calm' => calm)
    <3>1. CASE Delete(c)
      BY <3>1 DEF Delete
    <3>2. CASE DeleteFails(c)
      BY <3>2 DEF DeleteFails, serverVars
    <3> QED BY <1>9, <3>1, <3>2
  <2> QED BY <1>c, <2>1
<1>10. ASSUME PreviewUpdated \/ MessageDelivered \/ ConversationRead PROVE CalmOK'
  <2>1. UNCHANGED <<job, latest, unread, active>> /\ (calm' => calm) /\ inbox # <<>> /\ inbox' = Tail(inbox)
    <3>1. UNCHANGED <<job, latest, unread, active>> /\ inbox # <<>> /\ inbox' = Tail(inbox)
      BY <1>10 DEF PreviewUpdated, MessageDelivered, ConversationRead, Take, serverVars
    <3>2. calm' => calm
      <4>1. CASE PreviewUpdated \/ MessageDelivered
        BY <4>1 DEF PreviewUpdated, MessageDelivered
      <4>2. CASE ConversationRead
        BY <4>2 DEF ConversationRead
      <4> QED BY <1>10, <4>1, <4>2
    <3> QED BY <3>1, <3>2
  <2>2. \A d \in Convs :
               /\ (Counts(inbox, d) = {} => Counts(inbox', d) = {})
               /\ (Dates(inbox, d) = {} => Dates(inbox', d) = {})
               /\ \A n : CountsRight(inbox, d, n) => CountsRight(inbox', d, n)
               /\ \A n : DatesRight(inbox, d, n) => DatesRight(inbox', d, n)
    BY <1>d, <2>1, ShiftedRight
  <2> QED BY <2>1, <2>2, CalmLess
<1>11. ASSUME Disconnect PROVE CalmOK'
  <2>1. UNCHANGED <<job, latest, unread, active>> /\ (calm' => calm) /\ inbox' = <<>>
    BY <1>11 DEF Disconnect, serverVars
  <2>2. \A d \in Convs :
               /\ (Counts(inbox, d) = {} => Counts(inbox', d) = {})
               /\ (Dates(inbox, d) = {} => Dates(inbox', d) = {})
               /\ \A n : CountsRight(inbox, d, n) => CountsRight(inbox', d, n)
               /\ \A n : DatesRight(inbox, d, n) => DatesRight(inbox', d, n)
    BY <2>1, Silent
  <2> QED BY <2>1, <2>2, CalmLess
<1>12. ASSUME Connect PROVE CalmOK'
  BY <1>12, <1>c DEF Connect, serverVars
<1>13. ASSUME Reopen PROVE CalmOK'
  BY <1>13 DEF Reopen, CalmOK
<1> QED BY <1>1, <1>2, <1>3, <1>4, <1>5, <1>6, <1>7, <1>8, <1>9, <1>10, <1>11, <1>12, <1>13 DEF Next, LoadStep

-----------------------------------------------------------------------------
(* The list.                                                               *)

\* The list stays; what happens is in one conversation, to one handler.
LEMMA ListFrame ==
    ASSUME ShapeOK, ListOK, NEW c \in Convs, NEW s \in Slots, list' = list,
           \A r \in Slots : r # s => job'[r] = job[r],
           \A r \in Slots : r # s => job[r].conv # c,
           job[s].conv \in {c, None}, job'[s].conv \in {c, None},
           active \subseteq active', active' \subseteq Convs,
           \A d \in Convs : d # c =>
               /\ latest'[d] = latest[d] /\ unread'[d] = unread[d] /\ touched'[d] = touched[d]
               /\ (d \in active' => d \in active)
               /\ Counts(inbox', d) = Counts(inbox, d) /\ Dates(inbox', d) = Dates(inbox, d)
               /\ (Previewed(inbox, d) => Previewed(inbox', d)),
           c \in active' /\ job'[s].conv = None =>
               Previewed(inbox', c) /\ Counts(inbox', c) # {} /\ Dates(inbox', c) # {},
           job'[s].kind = "httpRead" /\ c \in active' =>
               Listed(c) /\ \A k \in DOMAIN list : list[k].id = c => list[k].at = latest'[c],
           job'[s].kind = "httpRead" => job'[s].conv = c,
           c \in active /\ (touched[c] # latest[c] \/ (job[s].conv = c /\ job[s].kind # "httpRead") \/ Dates(inbox, c) # {}) =>
              (touched'[c] # latest'[c] \/ (job'[s].conv = c /\ job'[s].kind # "httpRead") \/ Dates(inbox', c) # {})
    PROVE  ListOK'
<1>a. None \notin Convs
  BY FirstAssumption
<1>1. RowsOK'
  BY DEF ListOK, RowsOK
<1>2. ASSUME NEW d \in Convs, d \in active', \A r \in Slots : job'[r].conv # d
      PROVE  /\ (\E k \in DOMAIN list' : list'[k].id = d) \/ Previewed(inbox', d)
             /\ Counts(inbox', d) = {} => \A k \in DOMAIN list' : list'[k].id = d => list'[k].n = unread'[d]
             /\ Dates(inbox', d) = {} => \A k \in DOMAIN list' : list'[k].id = d => list'[k].at = latest'[d]
  <2>1. CASE d = c
    BY <1>2, <2>1
  <2>2. CASE d # c
    <3>1. \A r \in Slots : job[r].conv # d
      BY <1>a, <1>2, <2>2
    <3>2. /\ Expected(inbox, d) /\ (Counts(inbox, d) = {} => CountShown(d))
          /\ (Dates(inbox, d) = {} => DateShown(d))
      BY <1>2, <2>2, <3>1 DEF ListOK, Shown, Under
    <3>3. /\ latest'[d] = latest[d] /\ unread'[d] = unread[d]
          /\ Counts(inbox', d) = Counts(inbox, d) /\ Dates(inbox', d) = Dates(inbox, d)
          /\ (Previewed(inbox, d) => Previewed(inbox', d))
      BY <2>2
    <3>4. (\E k \in DOMAIN list' : list'[k].id = d) \/ Previewed(inbox', d)
      BY <3>2, <3>3 DEF Expected, Listed
    <3>5. Counts(inbox', d) = {} => \A k \in DOMAIN list' : list'[k].id = d => list'[k].n = unread'[d]
      BY <3>2, <3>3 DEF CountShown
    <3>6. Dates(inbox', d) = {} => \A k \in DOMAIN list' : list'[k].id = d => list'[k].at = latest'[d]
      BY <3>2, <3>3 DEF DateShown
    <3> QED BY <3>4, <3>5, <3>6
  <2> QED BY <2>1, <2>2
<1>3. \A d \in Convs : Shown(d)'
  BY <1>2 DEF Shown, Under, Expected, Listed, CountShown, DateShown
<1>4. ASSUME NEW r \in Slots, job'[r].kind = "httpRead", job'[r].conv \in active'
      PROVE  /\ \E k \in DOMAIN list' : list'[k].id = job'[r].conv
             /\ \A k \in DOMAIN list' : list'[k].id = job'[r].conv => list'[k].at = latest'[job'[r].conv]
  <2>1. CASE r = s
    BY <1>4, <2>1 DEF Listed
  <2>2. CASE r # s
    <3>1. job'[r] = job[r] /\ job[r].conv # c /\ job[r].conv \in Convs
      BY <1>4, <2>2
    <3>2. job[r].conv \in active /\ latest'[job[r].conv] = latest[job[r].conv]
      BY <1>4, <3>1
    <3>3. Listed(job[r].conv) /\ DateShown(job[r].conv)
      BY <1>4, <3>1, <3>2 DEF ListOK, ReadShown
    <3> QED BY <3>1, <3>2, <3>3 DEF Listed, DateShown
  <2> QED BY <2>1, <2>2
<1>5. \A r \in Slots : ReadShown(r)'
  BY <1>4 DEF ReadShown, Listed, DateShown
<1>6. Descends' \/ \E d \in active' : Misplaced(d)'
  <2>1. CASE Descends
    BY <2>1 DEF Descends
  <2>2. ASSUME NEW d \in active, Misplaced(d)
        PROVE  \/ touched'[d] # latest'[d]
               \/ \E r \in Slots : job'[r].conv = d /\ job'[r].kind # "httpRead"
               \/ Dates(inbox', d) # {}
    <3>0. d \in Convs
      OBVIOUS
    <3>1. CASE d = c
      <4>1. touched[c] # latest[c] \/ (job[s].conv = c /\ job[s].kind # "httpRead") \/ Dates(inbox, c) # {}
        BY <2>2, <3>1 DEF Misplaced
      <4> QED BY <3>1, <4>1
    <3>2. CASE d # c
      <4>1. latest'[d] = latest[d] /\ touched'[d] = touched[d] /\ Dates(inbox', d) = Dates(inbox, d)
        BY <3>0, <3>2
      <4>2. ASSUME NEW r \in Slots, job[r].conv = d, job[r].kind # "httpRead"
            PROVE  job'[r].conv = d /\ job'[r].kind # "httpRead"
        BY <1>a, <3>0, <3>2, <4>2
      <4> QED BY <2>2, <4>1, <4>2 DEF Misplaced
    <3> QED BY <3>1, <3>2
  <2>3. ASSUME NEW d \in active, Misplaced(d) PROVE \E x \in active' : Misplaced(x)'
    <3>1. d \in active'
      OBVIOUS
    <3> QED BY <2>2, <2>3, <3>1 DEF Misplaced
  <2> QED BY <2>1, <2>3 DEF ListOK
<1> QED BY <1>1, <1>3, <1>5, <1>6 DEF ListOK

\* Nothing changes that the list depends on.
LEMMA ListSame ==
    ASSUME ListOK, UNCHANGED <<list, job, active, latest, unread, touched, inbox>>
    PROVE  ListOK'
<1>1. RowsOK'
  BY DEF ListOK, RowsOK
<1>2. \A d \in Convs : Shown(d)'
  BY DEF ListOK, Shown, Under, Expected, Listed, CountShown, DateShown
<1>3. \A r \in Slots : ReadShown(r)'
  BY DEF ListOK, ReadShown, Listed, DateShown
<1>4. Descends' \/ \E d \in active' : Misplaced(d)'
  BY DEF ListOK, Descends, Misplaced
<1> QED BY <1>1, <1>2, <1>3, <1>4 DEF ListOK

\* Array.prototype.sort rearranges the list, the latest message first.
LEMMA LatestFirstSorts ==
    ASSUME NEW t \in Seq(Item)
    PROVE  /\ LatestFirst(t) \in Seq(Item) /\ Len(LatestFirst(t)) = Len(t)
           /\ \A i, j \in 1 .. Len(t) : i < j => LatestFirst(t)[i].at >= LatestFirst(t)[j].at
           /\ \E p \in [1 .. Len(t) -> 1 .. Len(t)] :
                /\ \A i, j \in 1 .. Len(t) : p[i] = p[j] => i = j
                /\ \A k \in 1 .. Len(t) : \E i \in 1 .. Len(t) : p[i] = k
                /\ \A i \in 1 .. Len(t) : LatestFirst(t)[i] = t[p[i]]
<1> DEFINE n == Len(t)
           D == 1 .. n
           before(i, j) == t[i].at > t[j].at \/ (t[i].at = t[j].at /\ i < j)
           R == {w \in D \X D : before(w[1], w[2])}
           OK(p) == \A i, j \in D : i < j => before(p[i], p[j])
           order == CHOOSE p \in [D -> D] : OK(p)
<1>1. n \in Nat /\ DOMAIN t = D /\ \A i \in D : t[i] \in Item /\ t[i].at \in Nat
  <2>1. n \in Nat /\ DOMAIN t = D /\ \A i \in D : t[i] \in Item
    OBVIOUS
  <2> QED BY <2>1 DEF Item
<1>2. LatestFirst(t) = [k \in D |-> t[order[k]]]
  BY <1>1 DEF LatestFirst
<1>3. StrictOrder(R, D)
  <2>1. \A x \in D : ~before(x, x)
    BY <1>1
  <2>2. \A x, y \in D : x # y => before(x, y) \/ before(y, x)
    BY <1>1
  <2>3. \A x, y, z \in D : before(x, y) /\ before(y, z) => before(x, z)
    BY <1>1
  <2>4. \A x, y \in D : <<x, y>> \in R <=> before(x, y)
    OBVIOUS
  <2> HIDE DEF R, before, D
  <2> QED BY <2>1, <2>2, <2>3, <2>4 DEF StrictOrder
<1>4. IsFiniteSet(D) /\ Cardinality(D) = n
  <2>1. IsFiniteSet(1 .. n) /\ Cardinality(1 .. n) = IF 1 > n THEN 0 ELSE n - 1 + 1
    BY <1>1, FS_Interval, SMTT(30)
  <2> QED BY <1>1, <2>1
<1>5. PICK s : Lists(s, n, D, R)
  BY <1>3, <1>4, SortExists
<1>6. s \in [D -> D] /\ OK(s)
  <2>1. s \in [D -> D] /\ \A i, j \in D : i < j => <<s[i], s[j]>> \in R
    BY <1>5 DEF Lists
  <2> QED BY <2>1
<1>7. order \in [D -> D] /\ OK(order)
  <2>1. \E p \in [D -> D] : OK(p)
    BY <1>6
  <2> HIDE DEF OK
  <2> QED BY <2>1
<1> HIDE DEF order
<1>8. ASSUME NEW i \in D, NEW j \in D, i < j
      PROVE  t[order[i]].at >= t[order[j]].at /\ order[i] # order[j]
  <2>1. order[i] \in D /\ order[j] \in D /\ before(order[i], order[j])
    BY <1>7, <1>8
  <2> QED BY <1>1, <2>1, SMTT(30)
<1>9. \A i, j \in D : order[i] = order[j] => i = j
  BY <1>1, <1>8
<1>10. order \in Surjection(D, D)
  <2>1. order \in Injection(D, D)
    BY <1>7, <1>9 DEF Injection, IsInjective
  <2> QED BY <1>4, <2>1, FS_Injection
<1>11. \A k \in D : \E i \in D : order[i] = k
  BY <1>10 DEF Surjection
<1> DEFINE m == LatestFirst(t)
<1>12. m = [k \in D |-> t[order[k]]]
  BY <1>2
<1> HIDE DEF m, before, R, OK
<1>13. m \in Seq(Item) /\ Len(m) = n /\ \A i \in D : m[i] = t[order[i]]
  <2>1. \A k \in D : t[order[k]] \in Item
    BY <1>1, <1>7
  <2>2. m \in [1 .. n -> Item]
    BY <1>12, <2>1
  <2> QED BY <1>1, <1>12, <2>2
<1>14. \A i, j \in D : i < j => m[i].at >= m[j].at
  BY <1>8, <1>13
<1>15. order \in [D -> D]
  BY <1>7
<1> QED BY <1>9, <1>11, <1>13, <1>14, <1>15 DEF m

\* updateConversationPreview: one entry is replaced, and the list is sorted.
LEMMA Updated ==
    ASSUME RowsOK, NEW c \in Convs, NEW at \in Nat, NEW n \in Nat
    PROVE  Replaced(UpdatePreview(c, at, n), c, at, n)
<1> DEFINE t == [k \in DOMAIN list |-> IF list[k].id = c THEN [id |-> c, at |-> at, n |-> n] ELSE list[k]]
           m == LatestFirst(t)
           N == Len(list)
<1>1. /\ list \in Seq(Item) /\ DOMAIN list = 1 .. N /\ N \in Nat /\ \A k \in 1 .. N : list[k] \in Item
      /\ \A j, k \in 1 .. N : list[j].id = list[k].id => j = k
  BY DEF RowsOK
<1>2. /\ DOMAIN t = 1 .. N
      /\ \A k \in 1 .. N : /\ t[k].id = list[k].id /\ (list[k].id # c => t[k] = list[k])
                           /\ (list[k].id = c => t[k].at = at /\ t[k].n = n)
  BY <1>1
<1>3. \A k \in 1 .. N : t[k] \in Item
  BY <1>1 DEF Item
<1>4. t \in Seq(Item) /\ Len(t) = N
  <2>1. t \in [1 .. N -> Item]
    BY <1>1, <1>3
  <2> QED BY <1>1, <2>1
<1>5. UpdatePreview(c, at, n) = m
  BY DEF UpdatePreview
<1> HIDE DEF t
<1>6. /\ m \in Seq(Item) /\ Len(m) = N
      /\ \A i, j \in 1 .. N : i < j => m[i].at >= m[j].at
      /\ \E p \in [1 .. N -> 1 .. N] :
           /\ \A i, j \in 1 .. N : p[i] = p[j] => i = j
           /\ \A k \in 1 .. N : \E i \in 1 .. N : p[i] = k
           /\ \A i \in 1 .. N : m[i] = t[p[i]]
  <2> DEFINE InOrder(x) ==
        /\ m \in Seq(Item) /\ Len(m) = x
        /\ \A i, j \in 1 .. x : i < j => m[i].at >= m[j].at
        /\ \E p \in [1 .. x -> 1 .. x] :
             /\ \A i, j \in 1 .. x : p[i] = p[j] => i = j
             /\ \A k \in 1 .. x : \E i \in 1 .. x : p[i] = k
             /\ \A i \in 1 .. x : m[i] = t[p[i]]
  <2>1. InOrder(Len(t))
    BY <1>4, LatestFirstSorts
  <2> HIDE DEF InOrder
  <2>2. InOrder(N)
    BY <1>4, <2>1
  <2> QED BY <2>2 DEF InOrder
<1>7. PICK p \in [1 .. N -> 1 .. N] :
           /\ \A i, j \in 1 .. N : p[i] = p[j] => i = j
           /\ \A k \in 1 .. N : \E i \in 1 .. N : p[i] = k
           /\ \A i \in 1 .. N : m[i] = t[p[i]]
  BY <1>6
<1> HIDE DEF m, N
<1>8. DOMAIN m = 1 .. N
  BY <1>6
<1>9. \A k \in 1 .. N : p[k] \in 1 .. N /\ m[k] = t[p[k]] /\ m[k].id = list[p[k]].id
  BY <1>2, <1>7
<1>10. ASSUME NEW k \in 1 .. N
       PROVE  \E j \in 1 .. N : /\ m[k].id = list[j].id
                                /\ (list[j].id # c => m[k] = list[j])
                                /\ (list[j].id = c => m[k].at = at /\ m[k].n = n)
  BY <1>2, <1>9
<1>11. ASSUME NEW j \in 1 .. N PROVE \E k \in 1 .. N : m[k].id = list[j].id
  BY <1>7, <1>9
<1>12. ASSUME NEW j \in 1 .. N, NEW k \in 1 .. N, m[j].id = m[k].id PROVE j = k
  <2>1. p[j] = p[k]
    BY <1>1, <1>9, <1>12, SMTT(30)
  <2> QED BY <1>7, <2>1
<1>13. DOMAIN list = 1 .. N
  BY <1>1
<1>14. /\ m \in Seq(Item)
       /\ \A k \in DOMAIN m : \E j \in DOMAIN list :
            /\ m[k].id = list[j].id
            /\ (list[j].id # c => m[k] = list[j])
            /\ (list[j].id = c => m[k].at = at /\ m[k].n = n)
       /\ \A j \in DOMAIN list : \E k \in DOMAIN m : m[k].id = list[j].id
  BY <1>6, <1>8, <1>10, <1>11, <1>13, ZenonT(30)
<1>15. \A j, k \in DOMAIN m : m[j].id = m[k].id => j = k
  BY <1>8, <1>12
<1>16. \A j, k \in DOMAIN m : j < k => m[j].at >= m[k].at
  BY <1>6, <1>8
<1>17. Replaced(m, c, at, n)
  BY <1>14, <1>15, <1>16 DEF Replaced
<1> QED BY <1>5, <1>17

\* handleConversationRead: the badges of one conversation.
LEMMA ClearedRows ==
    ASSUME RowsOK, NEW c
    PROVE  /\ Cleared(c) \in Seq(Item) /\ DOMAIN Cleared(c) = DOMAIN list
           /\ \A k \in DOMAIN list :
                /\ Cleared(c)[k].id = list[k].id /\ Cleared(c)[k].at = list[k].at
                /\ Cleared(c)[k].n = IF list[k].id = c THEN 0 ELSE list[k].n
<1> DEFINE t == Cleared(c)
           N == Len(list)
<1>1. list \in Seq(Item) /\ DOMAIN list = 1 .. N /\ N \in Nat /\ \A k \in 1 .. N : list[k] \in Item
  BY DEF RowsOK
<1>2. t = [k \in 1 .. N |-> IF list[k].id = c THEN [list[k] EXCEPT !.n = 0] ELSE list[k]]
  BY <1>1 DEF Cleared
<1> HIDE DEF t
<1>3. \A k \in 1 .. N : /\ t[k] \in Item /\ t[k].id = list[k].id /\ t[k].at = list[k].at
                        /\ t[k].n = IF list[k].id = c THEN 0 ELSE list[k].n
  BY <1>1, <1>2 DEF Item
<1>4. t \in [1 .. N -> Item]
  BY <1>2, <1>3
<1>5. t \in Seq(Item) /\ DOMAIN t = 1 .. N
  BY <1>1, <1>4
<1> QED BY <1>1, <1>3, <1>5 DEF t

\* A load of one instant repairs the list.
LEMMA ArrivesOK ==
    ASSUME ShapeOK, StampsOK, LoadsClean, NEW i \in Loads, ListArrives(i), calm'
    PROVE  ListOK'
<1>1. /\ load[i].pc = "arrive" /\ load[i].clean /\ list' = load[i].items
      /\ UNCHANGED <<now, active, latest, touched, unread, job, inbox>>
  BY DEF ListArrives, serverVars
<1>2. load[i] # NoLoad
  BY <1>1 DEF NoLoad, LoadAt
<1>3. NoJobs /\ Fresh(list')
  BY <1>1, <1>2 DEF LoadsClean, CleanOK
<1>a. None \notin Convs /\ active \subseteq Convs /\ \A c \in active : latest[c] \in Nat /\ touched[c] \in Nat
  BY FirstAssumption DEF ShapeOK, ServerOK
<1>4. /\ list' \in Seq(Item) /\ \A k \in DOMAIN list' : list'[k].id \in active
      /\ \A j, k \in DOMAIN list' : list'[j].id = list'[k].id => j = k
      /\ \A c \in active : \E k \in DOMAIN list' : list'[k].id = c
      /\ \A k \in DOMAIN list' : list'[k].n = unread[list'[k].id] /\ list'[k].at = latest[list'[k].id]
      /\ \A j, k \in DOMAIN list' : j < k => touched[list'[j].id] > touched[list'[k].id]
  BY <1>3 DEF Fresh
<1>5. RowsOK'
  BY <1>1, <1>4 DEF RowsOK
<1>6. \A c \in Convs : Shown(c)'
  BY <1>1, <1>4 DEF Shown, Expected, Listed, CountShown, DateShown
<1>7. \A s \in Slots : ReadShown(s)'
  BY <1>1, <1>3 DEF NoJobs, ReadShown, Idle, Handler
<1>8. Descends' \/ \E c \in active' : Misplaced(c)'
  <2>1. CASE \E c \in active : touched[c] # latest[c]
    BY <1>1, <2>1 DEF Misplaced
  <2>2. CASE \A c \in active : touched[c] = latest[c]
    <3>1. ASSUME NEW j \in DOMAIN list', NEW k \in DOMAIN list', j < k PROVE list'[j].at >= list'[k].at
      <4>1. list'[j].at = touched[list'[j].id] /\ list'[k].at = touched[list'[k].id]
        BY <1>4, <2>2
      <4>2. touched[list'[j].id] \in Nat /\ touched[list'[k].id] \in Nat
        BY <1>a, <1>4
      <4>3. touched[list'[j].id] > touched[list'[k].id]
        BY <1>4, <3>1
      <4> QED BY <4>1, <4>2, <4>3
    <3> QED BY <3>1 DEF Descends
  <2> QED BY <2>1, <2>2
<1> QED BY <1>5, <1>6, <1>7, <1>8 DEF ListOK

\* The first event of the queue is taken: one that is the last of its kind
\* for its conversation tells what the server has.
LEMMA HeadTaken ==
    ASSUME NEW q \in Seq(Event), q # <<>>, NEW c
    PROVE  /\ Head(q) = q[1] /\ Head(q) \in Event /\ 1 \in DOMAIN q
           /\ 1 \notin Counts(q, c) => (Counts(Tail(q), c) = {} <=> Counts(q, c) = {})
           /\ 1 \notin Dates(q, c) => (Dates(Tail(q), c) = {} <=> Dates(q, c) = {})
           /\ Previewed(q, c) => (Previewed(Tail(q), c) \/ (Head(q).conv = c /\ Head(q).t = "preview"))
           /\ \A n : 1 \in Counts(q, c) /\ Counts(Tail(q), c) = {} /\ CountsRight(q, c, n) =>
                       IF Head(q).t = "preview" THEN Head(q).n = n ELSE n = 0
           /\ \A n : 1 \in Dates(q, c) /\ Dates(Tail(q), c) = {} /\ DatesRight(q, c, n) =>
                       IF Head(q).t = "preview" THEN Head(q).at = n ELSE Head(q).sent = n
<1> DEFINE t == Tail(q)
<1>1. /\ t \in Seq(Event) /\ Len(q) \in Nat \ {0} /\ Len(t) = Len(q) - 1
      /\ \A k \in DOMAIN t : k + 1 \in DOMAIN q /\ t[k] = q[k + 1]
      /\ \A k \in DOMAIN q : k = 1 \/ k - 1 \in DOMAIN t
      /\ \A k \in DOMAIN t : (k \in Counts(t, c) <=> k + 1 \in Counts(q, c)) /\ (k \in Dates(t, c) <=> k + 1 \in Dates(q, c))
  BY Shifted
<1>2. Head(q) = q[1] /\ Head(q) \in Event /\ DOMAIN q = 1 .. Len(q) /\ 1 \in DOMAIN q
  BY <1>1
<1>3. DOMAIN t = 1 .. Len(t) /\ Len(t) \in Nat
  BY <1>1
<1> HIDE DEF t
<1>4. Counts(t, c) \subseteq DOMAIN t /\ Dates(t, c) \subseteq DOMAIN t /\ Counts(q, c) \subseteq DOMAIN q /\ Dates(q, c) \subseteq DOMAIN q
  BY DEF Counts, Dates
<1>5. \A k \in DOMAIN q : k \in Nat /\ k - 1 + 1 = k /\ k + 1 # 1
  BY <1>1, <1>2
<1>6. \A k \in Counts(q, c) : k = 1 \/ k - 1 \in Counts(t, c)
  BY <1>1, <1>4, <1>5
<1>7. \A k \in Dates(q, c) : k = 1 \/ k - 1 \in Dates(t, c)
  BY <1>1, <1>4, <1>5
<1>8. \A k \in DOMAIN t : k + 1 # 1
  BY <1>3
<1>9. 1 \notin Counts(q, c) => (Counts(t, c) = {} <=> Counts(q, c) = {})
  BY <1>1, <1>4, <1>6
<1>10. 1 \notin Dates(q, c) => (Dates(t, c) = {} <=> Dates(q, c) = {})
  BY <1>1, <1>4, <1>7
<1>11. Previewed(q, c) => (Previewed(t, c) \/ (q[1].conv = c /\ q[1].t = "preview"))
  <2> SUFFICES ASSUME NEW k \in DOMAIN q, q[k].conv = c, q[k].t = "preview", k # 1 PROVE Previewed(t, c)
    BY DEF Previewed
  <2>1. k - 1 \in DOMAIN t /\ t[k - 1] = q[k]
    BY <1>1, <1>5
  <2> QED BY <2>1 DEF Previewed
<1>12. ASSUME NEW n, 1 \in Counts(q, c), Counts(t, c) = {}, CountsRight(q, c, n)
       PROVE  IF q[1].t = "preview" THEN q[1].n = n ELSE n = 0
  <2>1. \A j \in Counts(q, c) : j <= 1
    BY <1>6, <1>12
  <2> QED BY <1>12, <2>1 DEF CountsRight
<1>13. ASSUME NEW n, 1 \in Dates(q, c), Dates(t, c) = {}, DatesRight(q, c, n)
       PROVE  IF q[1].t = "preview" THEN q[1].at = n ELSE q[1].sent = n
  <2>1. \A j \in Dates(q, c) : j <= 1
    BY <1>7, <1>13
  <2> QED BY <1>13, <2>1 DEF DatesRight
<1> QED BY <1>2, <1>9, <1>10, <1>11, <1>12, <1>13 DEF t

\* handlePreviewUpdate and handleIncomingMessage of a listed conversation: at is the instant and n
\* the counter that the entry is given.
LEMMA EventShown ==
    ASSUME ShapeOK, CalmOK, ListOK, calm, inbox # <<>>, inbox' = Tail(inbox),
           UNCHANGED <<job, active, latest, unread, touched>>,
           NEW c \in Convs, NEW at \in Nat, NEW n \in Nat, Head(inbox).conv = c, Head(inbox).t # "read",
           Listed(c), list' = UpdatePreview(c, at, n),
           Head(inbox).t = "preview" => at = Head(inbox).at /\ n = Head(inbox).n,
           Head(inbox).t = "message" => at = Head(inbox).sent /\ \A k \in DOMAIN list : list[k].id = c => list[k].n = n
    PROVE  ListOK'
<1> DEFINE e == Head(inbox)
<1>a. inbox \in Seq(Event) /\ active \subseteq Convs
  BY DEF ShapeOK, BrowserOK, ServerOK
<1>b. \A d : /\ e = inbox[1] /\ e \in Event /\ 1 \in DOMAIN inbox
             /\ 1 \notin Counts(inbox, d) => (Counts(inbox', d) = {} <=> Counts(inbox, d) = {})
             /\ 1 \notin Dates(inbox, d) => (Dates(inbox', d) = {} <=> Dates(inbox, d) = {})
             /\ Previewed(inbox, d) => (Previewed(inbox', d) \/ (e.conv = d /\ e.t = "preview"))
             /\ \A x : 1 \in Counts(inbox, d) /\ Counts(inbox', d) = {} /\ CountsRight(inbox, d, x) =>
                         IF e.t = "preview" THEN e.n = x ELSE x = 0
             /\ \A x : 1 \in Dates(inbox, d) /\ Dates(inbox', d) = {} /\ DatesRight(inbox, d, x) =>
                         IF e.t = "preview" THEN e.at = x ELSE e.sent = x
  BY <1>a, HeadTaken
<1>c. e.t \in {"preview", "message"}
  BY <1>b DEF Event
<1>d. RowsOK
  BY DEF ListOK
<1> HIDE DEF e
<1>e. \A d : (1 \in Counts(inbox, d) <=> d = c /\ e.t = "preview") /\ (1 \in Dates(inbox, d) <=> d = c)
  BY <1>b, <1>c DEF Counts, Dates, e
<1> DEFINE m == list'
<1>1. Replaced(m, c, at, n)
  <2>1. Replaced(UpdatePreview(c, at, n), c, at, n)
    BY <1>d, Updated
  <2> QED BY <2>1
<1> HIDE DEF m
<1>2. \A d : (\E k \in DOMAIN m : m[k].id = d) <=> Listed(d)
  BY <1>1 DEF Listed, Replaced
<1>k. \A d : d # c =>
           \A k \in DOMAIN m : m[k].id = d => \E j \in DOMAIN list : list[j].id = d /\ m[k] = list[j]
  BY <1>1 DEF Replaced
<1>3. \A k \in DOMAIN m : m[k].id = c => m[k].at = at /\ m[k].n = n
  BY <1>1 DEF Replaced
<1>r. RowsOK'
  BY <1>1, <1>d DEF RowsOK, Replaced, m
<1>4. ASSUME NEW d \in Convs, d \in active, ~Under(d)
      PROVE  /\ (\E k \in DOMAIN m : m[k].id = d) \/ Previewed(inbox', d)
             /\ Counts(inbox', d) = {} => \A k \in DOMAIN m : m[k].id = d => m[k].n = unread[d]
             /\ Dates(inbox', d) = {} => \A k \in DOMAIN m : m[k].id = d => m[k].at = latest[d]
  <2>1. /\ Listed(d) \/ Previewed(inbox, d)
        /\ (Counts(inbox, d) = {} => \A k \in DOMAIN list : list[k].id = d => list[k].n = unread[d])
        /\ (Dates(inbox, d) = {} => \A k \in DOMAIN list : list[k].id = d => list[k].at = latest[d])
    BY <1>4 DEF ListOK, Shown, Expected, CountShown, DateShown
  <2>2. CountsRight(inbox, d, unread[d]) /\ DatesRight(inbox, d, latest[d])
    BY <1>4 DEF CalmOK, Told
  <2>3. CASE d # c
    <3>1. 1 \notin Counts(inbox, d) /\ 1 \notin Dates(inbox, d)
      BY <1>e, <2>3
    <3>2. Previewed(inbox, d) => Previewed(inbox', d)
      BY <1>b, <2>3 DEF e
    <3>3. Counts(inbox', d) = {} => Counts(inbox, d) = {}
      BY <1>b, <3>1
    <3>4. Dates(inbox', d) = {} => Dates(inbox, d) = {}
      BY <1>b, <3>1
    <3>5. \A k \in DOMAIN m : m[k].id = d => \E j \in DOMAIN list : list[j].id = d /\ m[k] = list[j]
      BY <1>k, <2>3
    <3>6. (\E k \in DOMAIN m : m[k].id = d) \/ Previewed(inbox', d)
      BY <1>2, <2>1, <3>2
    <3> QED BY <2>1, <3>3, <3>4, <3>5, <3>6
  <2>4. CASE d = c
    <3>1. \E k \in DOMAIN m : m[k].id = d
      BY <1>2, <2>4
    <3>2. ASSUME Counts(inbox', d) = {} PROVE n = unread[d]
      <4>1. CASE e.t = "preview"
        <5>1. 1 \in Counts(inbox, d)
          BY <1>e, <2>4, <4>1
        <5>2. e.n = unread[d]
          BY <1>b, <2>2, <3>2, <4>1, <5>1
        <5> QED BY <4>1, <5>2 DEF e
      <4>2. CASE e.t = "message"
        <5>1. 1 \notin Counts(inbox, d)
          BY <1>e, <4>2
        <5>2. Counts(inbox, d) = {}
          BY <1>b, <3>2, <5>1
        <5>3. \A k \in DOMAIN list : list[k].id = c => list[k].n = unread[d] /\ list[k].n = n
          BY <2>1, <2>4, <4>2, <5>2 DEF e
        <5> QED BY <5>3 DEF Listed
      <4> QED BY <1>c, <4>1, <4>2
    <3>3. ASSUME Dates(inbox', d) = {} PROVE at = latest[d]
      <4>1. 1 \in Dates(inbox, d)
        BY <1>e, <2>4
      <4>2. IF e.t = "preview" THEN e.at = latest[d] ELSE e.sent = latest[d]
        BY <1>b, <2>2, <3>3, <4>1
      <4> QED BY <1>c, <4>2 DEF e
    <3> QED BY <1>3, <2>4, <3>1, <3>2, <3>3
  <2> QED BY <2>3, <2>4
<1>5. \A d \in Convs : Shown(d)'
  BY <1>4 DEF Shown, Under, Expected, Listed, CountShown, DateShown, m
<1>6. ASSUME NEW r \in Slots, job[r].kind = "httpRead", job[r].conv \in active
      PROVE  /\ \E k \in DOMAIN m : m[k].id = job[r].conv
             /\ \A k \in DOMAIN m : m[k].id = job[r].conv => m[k].at = latest[job[r].conv]
  <2> DEFINE d == job[r].conv
  <2>1. Knows(job[r], d, latest[d], unread[d], inbox)
    BY <1>6 DEF CalmOK, KnowsAll
  <2>2. Dates(inbox, d) = {}
    BY <1>6, <2>1 DEF Knows
  <2>3. d # c
    BY <1>e, <2>2
  <2>4. Listed(d) /\ \A k \in DOMAIN list : list[k].id = d => list[k].at = latest[d]
    BY <1>6 DEF ListOK, ReadShown, DateShown
  <2>5. \A k \in DOMAIN m : m[k].id = d => \E j \in DOMAIN list : list[j].id = d /\ m[k] = list[j]
    BY <1>k, <2>3
  <2>6. \E k \in DOMAIN m : m[k].id = d
    BY <1>2, <2>4
  <2> QED BY <2>4, <2>5, <2>6
<1>7. \A r \in Slots : ReadShown(r)'
  BY <1>6 DEF ReadShown, Listed, DateShown, m
<1>8. Descends'
  BY <1>1 DEF Descends, Replaced, m
<1> QED BY <1>r, <1>5, <1>7, <1>8 DEF ListOK

\* handleConversationRead.
LEMMA ReadTakenOK ==
    ASSUME ShapeOK, CalmOK, ListOK, calm, calm', ConversationRead
    PROVE  ListOK'
<1> DEFINE e == Head(inbox)
           c == e.conv
<1>a. /\ inbox # <<>> /\ e.t = "read" /\ inbox' = Tail(inbox) /\ list' = Cleared(c)
      /\ UNCHANGED <<job, active, latest, unread, touched>>
      /\ (e.kind = "myRead" \/ ~Listed(c) \/ Badge(c) = 0)
  BY DEF ConversationRead, Take, serverVars
<1>s. inbox \in Seq(Event) /\ active \subseteq Convs
  BY DEF ShapeOK, BrowserOK, ServerOK
<1>b. \A d : /\ e = inbox[1] /\ e \in Event /\ 1 \in DOMAIN inbox
             /\ 1 \notin Counts(inbox, d) => (Counts(inbox', d) = {} <=> Counts(inbox, d) = {})
             /\ 1 \notin Dates(inbox, d) => (Dates(inbox', d) = {} <=> Dates(inbox, d) = {})
             /\ Previewed(inbox, d) => (Previewed(inbox', d) \/ (e.conv = d /\ e.t = "preview"))
             /\ \A x : 1 \in Counts(inbox, d) /\ Counts(inbox', d) = {} /\ CountsRight(inbox, d, x) =>
                         IF e.t = "preview" THEN e.n = x ELSE x = 0
  BY <1>a, <1>s, HeadTaken
<1>d. RowsOK
  BY DEF ListOK
<1>e. \A d : (1 \in Counts(inbox, d) <=> d = c /\ e.kind = "myRead") /\ (1 \notin Dates(inbox, d))
  BY <1>a, <1>b DEF Counts, Dates
<1> HIDE DEF e, c
<1> DEFINE m == list'
<1>1. /\ m \in Seq(Item) /\ DOMAIN m = DOMAIN list
      /\ \A k \in DOMAIN list : /\ m[k].id = list[k].id /\ m[k].at = list[k].at
                                /\ m[k].n = IF list[k].id = c THEN 0 ELSE list[k].n
  BY <1>a, <1>d, ClearedRows
<1> HIDE DEF m
<1>2. RowsOK'
  BY <1>1, <1>a, <1>d DEF RowsOK, m
<1>3. \A d : (Dates(inbox', d) = {} <=> Dates(inbox, d) = {}) /\ (Previewed(inbox, d) => Previewed(inbox', d))
  BY <1>a, <1>b, <1>e
<1>4. ASSUME NEW d \in Convs, d \in active, ~Under(d)
      PROVE  /\ (\E k \in DOMAIN m : m[k].id = d) \/ Previewed(inbox', d)
             /\ Counts(inbox', d) = {} => \A k \in DOMAIN m : m[k].id = d => m[k].n = unread[d]
             /\ Dates(inbox', d) = {} => \A k \in DOMAIN m : m[k].id = d => m[k].at = latest[d]
  <2>1. /\ Listed(d) \/ Previewed(inbox, d)
        /\ (Counts(inbox, d) = {} => \A k \in DOMAIN list : list[k].id = d => list[k].n = unread[d])
        /\ (Dates(inbox, d) = {} => \A k \in DOMAIN list : list[k].id = d => list[k].at = latest[d])
    BY <1>4 DEF ListOK, Shown, Expected, CountShown, DateShown
  <2>2. CountsRight(inbox, d, unread[d])
    BY <1>4 DEF CalmOK, Told
  <2>3. (\E k \in DOMAIN m : m[k].id = d) \/ Previewed(inbox', d)
    BY <1>1, <1>3, <2>1 DEF Listed
  <2>4. Dates(inbox', d) = {} => \A k \in DOMAIN m : m[k].id = d => m[k].at = latest[d]
    BY <1>1, <1>3, <2>1
  <2>5. ASSUME Counts(inbox', d) = {}, NEW k \in DOMAIN m, m[k].id = d PROVE m[k].n = unread[d]
    <3>0. list[k].id = d /\ k \in DOMAIN list
      BY <1>1, <2>5
    <3>1. CASE d # c
      <4>1. Counts(inbox, d) = {}
        BY <1>b, <1>e, <2>5, <3>1
      <4> QED BY <1>1, <2>1, <3>0, <3>1, <4>1
    <3>2. CASE d = c /\ e.kind = "myRead"
      <4>1. 1 \in Counts(inbox, d) /\ e.t # "preview"
        BY <1>a, <1>e, <3>2 DEF e
      <4>2. unread[d] = 0
        BY <1>b, <2>2, <2>5, <4>1
      <4> QED BY <1>1, <3>0, <3>2, <4>2
    <3>3. CASE d = c /\ e.kind # "myRead"
      <4>1. Counts(inbox, d) = {}
        BY <1>b, <1>e, <2>5, <3>3
      <4>2. list[k].n = unread[d]
        BY <2>1, <3>0, <4>1
      <4>3. Listed(c)
        BY <3>0, <3>3 DEF Listed
      <4>4. Badge(c) = 0
        BY <1>a, <3>3, <4>3 DEF e, c
      <4>5. Badge(c) = list[k].n
        <5> DEFINE x == CHOOSE y \in DOMAIN list : list[y].id = c
        <5>1. x \in DOMAIN list /\ list[x].id = c
          BY <4>3 DEF Listed
        <5>2. x = k
          BY <1>d, <3>0, <3>3, <5>1 DEF RowsOK
        <5> QED BY <5>2 DEF Badge
      <4> QED BY <1>1, <3>0, <3>3, <4>2, <4>4, <4>5
    <3> QED BY <3>1, <3>2, <3>3
  <2> QED BY <2>3, <2>4, <2>5
<1>5. \A d \in Convs : Shown(d)'
  BY <1>a, <1>4 DEF Shown, Under, Expected, Listed, CountShown, DateShown, m
<1>6. ASSUME NEW r \in Slots, job[r].kind = "httpRead", job[r].conv \in active
      PROVE  /\ \E k \in DOMAIN m : m[k].id = job[r].conv
             /\ \A k \in DOMAIN m : m[k].id = job[r].conv => m[k].at = latest[job[r].conv]
  <2>1. Listed(job[r].conv) /\ \A k \in DOMAIN list : list[k].id = job[r].conv => list[k].at = latest[job[r].conv]
    BY <1>6 DEF ListOK, ReadShown, DateShown
  <2> QED BY <1>1, <2>1 DEF Listed
<1>7. \A r \in Slots : ReadShown(r)'
  BY <1>a, <1>6 DEF ReadShown, Listed, DateShown, m
<1>8. Descends' \/ \E d \in active' : Misplaced(d)'
  <2>1. CASE Descends
    BY <1>1, <2>1 DEF Descends, m
  <2>2. ASSUME NEW d \in active, Misplaced(d) PROVE \E x \in active' : Misplaced(x)'
    <3>1. /\ touched'[d] = touched[d] /\ latest'[d] = latest[d] /\ job' = job /\ d \in active'
          /\ (Dates(inbox', d) = {} <=> Dates(inbox, d) = {})
      BY <1>3, <1>a
    <3> QED BY <2>2, <3>1 DEF Misplaced
  <2> QED BY <2>1, <2>2 DEF ListOK
<1> QED BY <1>2, <1>5, <1>7, <1>8 DEF ListOK

\* The answer of the HTTP route.
LEMMA AnsweredOK ==
    ASSUME ShapeOK, CalmOK, ListOK, calm, NEW s \in Slots, ReadAnswered(s)
    PROVE  ListOK'
<1> DEFINE c == job[s].conv
<1>a. /\ job[s].pc = "answer" /\ job' = [job EXCEPT ![s] = Idle] /\ list' = Cleared(c)
      /\ UNCHANGED <<active, latest, unread, touched, inbox>>
  BY DEF ReadAnswered, serverVars
<1>b. job'[s] = Idle /\ \A r \in Slots : r # s => job'[r] = job[r]
  BY <1>a, IdleOK, JobSet DEF ShapeOK
<1>c. c \in Convs /\ job[s].kind = "httpRead" /\ None \notin Convs /\ Idle.conv = None /\ Idle.kind = "idle"
      /\ active \subseteq Convs
  BY <1>a, FirstAssumption DEF ShapeOK, JobsOK, JobOK, Idle, Handler, ServerOK
<1>d. RowsOK
  BY DEF ListOK
<1>e. ASSUME c \in active
      PROVE  /\ unread[c] = 0 /\ Counts(inbox, c) = {} /\ Dates(inbox, c) = {}
             /\ Listed(c) /\ \A k \in DOMAIN list : list[k].id = c => list[k].at = latest[c]
  <2>1. Knows(job[s], c, latest[c], unread[c], inbox)
    BY <1>e DEF CalmOK, KnowsAll
  <2>2. Listed(c) /\ DateShown(c)
    BY <1>c, <1>e DEF ListOK, ReadShown
  <2> QED BY <1>a, <1>c, <2>1, <2>2 DEF Knows, DateShown
<1> DEFINE m == list'
<1>1. /\ m \in Seq(Item) /\ DOMAIN m = DOMAIN list
      /\ \A k \in DOMAIN list : /\ m[k].id = list[k].id /\ m[k].at = list[k].at
                                /\ m[k].n = IF list[k].id = c THEN 0 ELSE list[k].n
  BY <1>a, <1>d, ClearedRows
<1> HIDE DEF m
<1>2. RowsOK'
  BY <1>1, <1>a, <1>d DEF RowsOK, m
<1>4. ASSUME NEW d \in Convs, d \in active, \A r \in Slots : job'[r].conv # d
      PROVE  /\ (\E k \in DOMAIN m : m[k].id = d) \/ Previewed(inbox, d)
             /\ Counts(inbox, d) = {} => \A k \in DOMAIN m : m[k].id = d => m[k].n = unread[d]
             /\ Dates(inbox, d) = {} => \A k \in DOMAIN m : m[k].id = d => m[k].at = latest[d]
  <2>1. CASE d = c
    BY <1>1, <1>4, <1>e, <2>1 DEF Listed
  <2>2. CASE d # c
    <3>1. ~Under(d)
      BY <1>b, <1>4, <2>2 DEF Under
    <3>2. /\ Listed(d) \/ Previewed(inbox, d)
          /\ (Counts(inbox, d) = {} => \A k \in DOMAIN list : list[k].id = d => list[k].n = unread[d])
          /\ (Dates(inbox, d) = {} => \A k \in DOMAIN list : list[k].id = d => list[k].at = latest[d])
      BY <1>4, <3>1 DEF ListOK, Shown, Expected, CountShown, DateShown
    <3> QED BY <1>1, <2>2, <3>2 DEF Listed
  <2> QED BY <2>1, <2>2
<1>5. \A d \in Convs : Shown(d)'
  BY <1>a, <1>4 DEF Shown, Under, Expected, Listed, CountShown, DateShown, m
<1>6. ASSUME NEW r \in Slots, job'[r].kind = "httpRead", job'[r].conv \in active
      PROVE  /\ \E k \in DOMAIN m : m[k].id = job'[r].conv
             /\ \A k \in DOMAIN m : m[k].id = job'[r].conv => m[k].at = latest[job'[r].conv]
  <2>0. r # s /\ job'[r] = job[r]
    BY <1>b, <1>c, <1>6
  <2>1. Listed(job[r].conv) /\ \A k \in DOMAIN list : list[k].id = job[r].conv => list[k].at = latest[job[r].conv]
    BY <1>6, <2>0 DEF ListOK, ReadShown, DateShown
  <2> QED BY <1>1, <2>0, <2>1 DEF Listed
<1>7. \A r \in Slots : ReadShown(r)'
  BY <1>a, <1>6 DEF ReadShown, Listed, DateShown, m
<1>8. Descends' \/ \E d \in active' : Misplaced(d)'
  <2>1. CASE Descends
    BY <1>1, <2>1 DEF Descends, m
  <2>2. ASSUME NEW d \in active, Misplaced(d) PROVE \E x \in active' : Misplaced(x)'
    <3>1. /\ touched'[d] = touched[d] /\ latest'[d] = latest[d] /\ inbox' = inbox /\ d \in active'
      BY <1>a
    <3>2. \A r \in Slots : job[r].conv = d /\ job[r].kind # "httpRead" => job'[r].conv = d /\ job'[r].kind # "httpRead"
      BY <1>b, <1>c
    <3> QED BY <2>2, <3>1, <3>2 DEF Misplaced
  <2> QED BY <2>1, <2>2 DEF ListOK
<1> QED BY <1>2, <1>5, <1>7, <1>8 DEF ListOK

\* While calm, and once the loads have arrived, the page's list is what the
\* events on their way still make of it.
LEMMA ListStep ==
    ShapeOK /\ StampsOK /\ LoadsClean /\ CalmOK /\ (calm /\ NoLoads => ListOK) /\ Next => (calm /\ NoLoads => ListOK)'
<1> SUFFICES ASSUME ShapeOK, StampsOK, LoadsClean, CalmOK, calm /\ NoLoads => ListOK, Next, calm', NoLoads' PROVE ListOK'
  OBVIOUS
<1>a. None \notin Convs /\ active \subseteq Convs
  BY FirstAssumption DEF ShapeOK, ServerOK
<1>b. Idle.conv = None /\ Idle.kind = "idle"
  BY DEF Idle, Handler
<1>d. latest \in [Convs -> Nat] /\ unread \in [Convs -> Nat] /\ touched \in [Convs -> Nat] /\ inbox \in Seq(Event)
  BY DEF ShapeOK, ServerOK, BrowserOK
<1>e. ASSUME load' = load, calm PROVE ListOK
  BY <1>e DEF NoLoads
<1>f. ASSUME \A i \in Loads : load'[i] = NoLoad <=> load[i] = NoLoad, calm PROVE ListOK
  BY <1>f DEF NoLoads
<1>1. ASSUME NEW s \in Slots, NEW c \in Convs, PeerSends(s, c) PROVE ListOK'
  <2>1. /\ now' = now + 1 /\ latest' = [latest EXCEPT ![c] = now'] /\ Begin(s, "peerSend", "touch", c, now')
        /\ active' = active \cup {c} /\ unread' = unread /\ touched' = touched /\ inbox' = inbox /\ list' = list
        /\ "peerSend" \in Sends
    BY <1>1 DEF PeerSends, Store, Sends, browserVars
  <2>2. now' \in Nat
    BY <2>1 DEF ShapeOK, ServerOK
  <2>3. /\ job'[s] = Handler("peerSend", "touch", c, now') /\ \A r \in Slots : r # s => job'[r] = job[r]
        /\ job[s] = Idle /\ calm /\ (\A r \in Slots : job[r].conv # c)
        /\ \A i \in Loads : load'[i] = NoLoad <=> load[i] = NoLoad
    BY <2>1, <2>2, Begins
  <2>4. \A d \in Convs : d # c => latest'[d] = latest[d] /\ (d \in active' => d \in active)
    BY <1>d, <2>1
  <2>5. job'[s].conv = c /\ job'[s].kind # "httpRead"
    BY <2>3 DEF Handler
  <2>6. active \subseteq active' /\ active' \subseteq Convs /\ ListOK
    BY <1>a, <1>f, <2>1, <2>3
  <2> QED BY <1>a, <1>b, <2>1, <2>3, <2>4, <2>5, <2>6, ListFrame
<1>2. ASSUME NEW s \in Slots, ISend(s) PROVE ListOK'
  <2> DEFINE c == selected
  <2>1. /\ now' = now + 1 /\ latest' = [latest EXCEPT ![c] = now'] /\ Begin(s, "mySend", "touch", c, now')
        /\ active' = active /\ unread' = unread /\ touched' = touched /\ inbox' = inbox /\ list' = list
        /\ "mySend" \in Sends /\ c \in Convs
    BY <1>a, <1>2 DEF ISend, Store, Sends, browserVars
  <2> HIDE DEF c
  <2>2. now' \in Nat
    BY <2>1 DEF ShapeOK, ServerOK
  <2>3. /\ job'[s] = Handler("mySend", "touch", c, now') /\ \A r \in Slots : r # s => job'[r] = job[r]
        /\ job[s] = Idle /\ calm /\ (\A r \in Slots : job[r].conv # c)
        /\ \A i \in Loads : load'[i] = NoLoad <=> load[i] = NoLoad
    BY <2>1, <2>2, Begins
  <2>4. \A d \in Convs : d # c => latest'[d] = latest[d]
    BY <1>d, <2>1
  <2>5. job'[s].conv = c /\ job'[s].kind # "httpRead"
    BY <2>3 DEF Handler
  <2>6. ListOK
    BY <1>f, <2>3
  <2> QED BY <1>a, <1>b, <2>1, <2>3, <2>4, <2>5, <2>6, ListFrame
<1>3. ASSUME NEW s \in Slots, NEW c \in Convs, Open(s, c) PROVE ListOK'
  <2>1. UNCHANGED <<latest, unread, touched, active, inbox, list>> /\ Listed(c)
    BY <1>3 DEF Open, serverVars, Listed
  <2>2. CASE UNCHANGED <<job, calm, load>>
    BY <1>e, <2>1, <2>2, ListSame
  <2>3. CASE c \in active /\ Begin(s, IF link THEN "myRead" ELSE "httpRead", "zero", c, 0)
    <3> DEFINE kind == IF link THEN "myRead" ELSE "httpRead"
    <3>1. kind \in {"myRead", "httpRead"} /\ 0 \in Nat /\ (kind = "httpRead" => ~link)
      OBVIOUS
    <3>2. Begin(s, kind, "zero", c, 0)
      BY <2>3
    <3> HIDE DEF kind
    <3>3. /\ job'[s] = Handler(kind, "zero", c, 0) /\ \A r \in Slots : r # s => job'[r] = job[r]
          /\ job[s] = Idle /\ calm /\ (\A r \in Slots : job[r].conv # c)
          /\ \A i \in Loads : load'[i] = NoLoad <=> load[i] = NoLoad
      BY <3>1, <3>2, Begins
    <3>4. ListOK
      BY <1>f, <3>3
    <3>5. job'[s].conv = c /\ job'[s].kind = kind
      BY <3>3 DEF Handler
    <3>6. kind = "httpRead" => \A k \in DOMAIN list : list[k].id = c => list[k].at = latest[c]
      <4>1. ~link => inbox = <<>>
        BY DEF ShapeOK, BrowserOK
      <4>2. ~link => Dates(inbox, c) = {}
        BY <4>1, Silent
      <4>3. ~Under(c)
        BY <3>3 DEF Under
      <4> QED BY <2>3, <3>1, <3>4, <4>2, <4>3 DEF ListOK, Shown, DateShown
    <3> QED BY <1>a, <1>b, <2>1, <3>3, <3>4, <3>5, <3>6, ListFrame
  <2> QED BY <1>3, <2>2, <2>3 DEF Open
<1>4. ASSUME NEW s \in Slots, NEW c \in Convs, PeerReads(s, c) PROVE ListOK'
  <2>1. Begin(s, "peerRead", "latest", c, 0) /\ UNCHANGED <<latest, unread, touched, active, inbox, list>>
    BY <1>4 DEF PeerReads, serverVars, browserVars
  <2>2. /\ job'[s] = Handler("peerRead", "latest", c, 0) /\ \A r \in Slots : r # s => job'[r] = job[r]
        /\ job[s] = Idle /\ calm /\ (\A r \in Slots : job[r].conv # c)
        /\ \A i \in Loads : load'[i] = NoLoad <=> load[i] = NoLoad
    BY <2>1, Begins
  <2>3. job'[s].conv = c /\ job'[s].kind # "httpRead"
    BY <2>2 DEF Handler
  <2>4. ListOK
    BY <1>f, <2>2
  <2> QED BY <1>a, <1>b, <2>1, <2>2, <2>3, <2>4, ListFrame
<1>5. ASSUME NEW s \in Slots, Touch(s) \/ Count(s) \/ Zero(s) \/ ReadLatest(s) \/ ReadRow(s) PROVE ListOK'
  <2> DEFINE c == job[s].conv
  <2>1. /\ c \in Convs /\ \A r \in Slots : r # s => job'[r] = job[r]
        /\ job'[s].conv = c /\ job'[s].kind = job[s].kind
        /\ Touch(s) => job[s].kind \in Sends
    BY <1>5, Moves
  <2>2. UNCHANGED <<latest, active, inbox, calm, load, list>>
    BY <1>5 DEF Touch, Count, Zero, ReadLatest, ReadRow, serverVars, browserVars
  <2>3. \A d \in Convs : d # c => unread'[d] = unread[d]
    BY <1>5, <1>d, <2>1 DEF Touch, Count, Zero, ReadLatest, ReadRow, serverVars
  <2>4. \A d \in Convs : d # c => touched'[d] = touched[d]
    BY <1>5, <1>d, <2>1 DEF Touch, Count, Zero, ReadLatest, ReadRow, serverVars
  <2>5. calm /\ \A r \in Slots : r # s => job[r].conv # c
    BY <1>a, <2>1, <2>2 DEF CalmOK, Alone
  <2>6. ListOK
    BY <1>e, <2>2, <2>5
  <2>7. ASSUME job'[s].kind = "httpRead", c \in active
        PROVE  Listed(c) /\ \A k \in DOMAIN list : list[k].id = c => list[k].at = latest'[c]
    BY <2>1, <2>2, <2>6, <2>7 DEF ListOK, ReadShown, DateShown
  <2>8. ~Touch(s) => touched' = touched
    BY <1>5 DEF Count, Zero, ReadLatest, ReadRow, serverVars
  <2>9. ASSUME touched[c] # latest[c] \/ (job[s].conv = c /\ job[s].kind # "httpRead") \/ Dates(inbox, c) # {}
        PROVE  touched'[c] # latest'[c] \/ (job'[s].conv = c /\ job'[s].kind # "httpRead") \/ Dates(inbox', c) # {}
    <3>1. CASE Touch(s)
      BY <2>1, <3>1 DEF Sends
    <3>2. CASE ~Touch(s)
      BY <2>1, <2>2, <2>8, <2>9, <3>2
    <3> QED BY <3>1, <3>2
  <2>10. job'[s].conv # None
    BY <1>a, <2>1
  <2> QED BY <1>a, <2>1, <2>2, <2>3, <2>4, <2>5, <2>6, <2>7, <2>9, <2>10, ListFrame
<1>6. ASSUME NEW s \in Slots, Emit(s) PROVE ListOK'
  <2> DEFINE c == job[s].conv
  <2>1. /\ calm /\ c \in Convs /\ job'[s] = Idle
        /\ \A r \in Slots : r # s => job'[r] = job[r]
        /\ \A k \in DOMAIN inbox : k \in DOMAIN inbox' /\ inbox'[k] = inbox[k]
        /\ \A d \in Convs : d # c => Counts(inbox', d) = Counts(inbox, d) /\ Dates(inbox', d) = Dates(inbox, d)
        /\ c \in active => Counts(inbox', c) # {} /\ Dates(inbox', c) # {} /\ Previewed(inbox', c)
    BY <1>6, EmitSays
  <2>2. UNCHANGED <<latest, active, unread, touched, list, load>>
    BY <1>6 DEF Emit, serverVars, browserVars
  <2>3. \A r \in Slots : r # s => job[r].conv # c
    BY <1>a, <2>1 DEF CalmOK, Alone
  <2>4. job'[s].conv = None /\ job'[s].kind # "httpRead"
    BY <1>b, <2>1
  <2>5. ListOK
    BY <1>e, <2>1, <2>2
  <2>6. \A d \in Convs : Previewed(inbox, d) => Previewed(inbox', d)
    BY <2>1 DEF Previewed
  <2> QED BY <1>a, <2>1, <2>2, <2>3, <2>4, <2>5, <2>6, ListFrame
<1>7. ASSUME NEW s \in Slots, ReadAnswered(s) PROVE ListOK'
  <2>1. calm /\ load' = load
    BY <1>7 DEF ReadAnswered
  <2>2. ListOK
    BY <1>e, <2>1
  <2> QED BY <1>7, <2>1, <2>2, AnsweredOK
<1>8. ASSUME NEW i \in Loads, LoadStep(i) PROVE ListOK'
  <2>1. CASE ListArrives(i)
    BY <2>1, ArrivesOK
  <2>2. CASE ListFails(i)
    BY <2>2 DEF ListFails
  <2>3. CASE ListRows(i) \/ ListOrder(i) \/ ListLatest(i)
    <3>1. load'[i].pc \in {"order", "latest", "arrive"}
      BY <1>8, <2>3, LoadMoves
    <3> QED BY <3>1 DEF NoLoads, NoLoad, LoadAt
  <2> QED BY <1>8, <2>1, <2>2, <2>3 DEF LoadStep
<1>9. ASSUME NEW c \in Convs, Delete(c) PROVE ListOK'
  <2>1. StartLoad(Overtaken, c)
    BY <1>9 DEF Delete
  <2>2. DOMAIN Overtaken = Loads /\ \A k \in Loads : LoadOK(Overtaken[k])
    BY OvertakenLoads
  <2> QED BY <2>1, <2>2, LoadStarts
<1>10. ASSUME NEW c \in Convs, DeleteFails(c) PROVE ListOK'
  <2>1. UNCHANGED <<list, job, active, latest, unread, touched, inbox, load, calm>>
    BY <1>10 DEF DeleteFails, serverVars
  <2> QED BY <1>e, <2>1, ListSame
<1>h. DOMAIN load = Loads /\ \A k \in Loads : LoadOK(load[k])
  BY DEF ShapeOK, LoadsOK
<1>11. ASSUME PreviewUpdated PROVE ListOK'
  <2> DEFINE e == Head(inbox)
  <2>1. /\ inbox # <<>> /\ e.t = "preview" /\ inbox' = Tail(inbox)
        /\ UNCHANGED <<job, active, latest, unread, touched, calm>>
    BY <1>11 DEF PreviewUpdated, Take, serverVars
  <2>2. CASE Listed(e.conv)
    <3>1. list' = UpdatePreview(e.conv, e.at, e.n) /\ load' = load
      BY <1>11, <2>2 DEF PreviewUpdated
    <3>2. e \in Event
      BY <1>d, <2>1, HeadTaken
    <3>3. e.conv \in Convs /\ e.at \in Nat /\ e.n \in Nat
      BY <3>2 DEF Event
    <3>4. Listed(e.conv) /\ calm /\ ListOK
      BY <1>e, <2>1, <2>2, <3>1 DEF Listed
    <3>5. e.t # "read" /\ e.t # "message"
      BY <2>1
    <3> QED BY <2>1, <3>1, <3>3, <3>4, <3>5, EventShown
  <2>3. CASE ~Listed(e.conv)
    <3>1. StartLoad(load, None)
      BY <1>11, <2>3 DEF PreviewUpdated, Reload
    <3> QED BY <1>h, <3>1, LoadStarts
  <2> QED BY <2>2, <2>3
<1>12. ASSUME MessageDelivered PROVE ListOK'
  <2> DEFINE e == Head(inbox)
  <2>1. /\ inbox # <<>> /\ e.t = "message" /\ inbox' = Tail(inbox)
        /\ UNCHANGED <<job, active, latest, unread, touched, calm>>
    BY <1>12 DEF MessageDelivered, Take, serverVars
  <2>2. CASE Listed(e.conv)
    <3>1. list' = UpdatePreview(e.conv, e.sent, Badge(e.conv)) /\ load' = load
      BY <1>12, <2>2 DEF MessageDelivered
    <3>2. e \in Event
      BY <1>d, <2>1, HeadTaken
    <3>3. e.conv \in Convs /\ e.sent \in Nat
      BY <3>2 DEF Event
    <3>4. Listed(e.conv) /\ calm /\ ListOK
      BY <1>e, <2>1, <2>2, <3>1 DEF Listed
    <3>5. e.t # "read" /\ e.t # "preview"
      BY <2>1
    <3>6. Badge(e.conv) \in Nat /\ \A k \in DOMAIN list : list[k].id = e.conv => list[k].n = Badge(e.conv)
      <4> DEFINE x == CHOOSE y \in DOMAIN list : list[y].id = e.conv
      <4>1. x \in DOMAIN list /\ list[x].id = e.conv
        BY <2>2 DEF Listed
      <4>2. RowsOK
        BY <3>4 DEF ListOK
      <4>3. Badge(e.conv) = list[x].n
        BY DEF Badge
      <4> HIDE DEF x
      <4>4. list[x] \in Item
        BY <4>1, <4>2 DEF RowsOK
      <4>5. \A k \in DOMAIN list : list[k].id = e.conv => k = x
        BY <4>1, <4>2 DEF RowsOK
      <4> QED BY <4>3, <4>4, <4>5 DEF Item
    <3> DEFINE n == Badge(e.conv)
    <3> HIDE DEF n
    <3>7. n \in Nat /\ (\A k \in DOMAIN list : list[k].id = e.conv => list[k].n = n)
          /\ list' = UpdatePreview(e.conv, e.sent, n)
      BY <3>1, <3>6 DEF n
    <3> QED BY <2>1, <3>3, <3>4, <3>5, <3>7, EventShown
  <2>3. CASE ~Listed(e.conv)
    <3>1. StartLoad(load, None)
      BY <1>12, <2>3 DEF MessageDelivered, Reload
    <3> QED BY <1>h, <3>1, LoadStarts
  <2> QED BY <2>2, <2>3
<1>13. ASSUME ConversationRead PROVE ListOK'
  <2>1. calm /\ load' = load
    BY <1>13 DEF ConversationRead
  <2>2. ListOK
    BY <1>e, <2>1
  <2> QED BY <1>13, <2>1, <2>2, ReadTakenOK
<1>14. ASSUME Disconnect PROVE ListOK'
  <2>1. UNCHANGED <<list, job, active, latest, unread, touched, load>> /\ calm /\ inbox = <<>> /\ inbox' = <<>>
    BY <1>14 DEF Disconnect, serverVars
  <2> QED BY <1>e, <2>1, ListSame
<1>15. ASSUME Connect PROVE ListOK'
  <2>1. UNCHANGED <<list, job, active, latest, unread, touched, inbox, load, calm>>
    BY <1>15, ZenonT(30) DEF Connect, serverVars
  <2> QED BY <1>e, <2>1, ListSame
<1>16. ASSUME Reopen PROVE ListOK'
  BY <1>16 DEF Reopen
<1> QED BY <1>1, <1>2, <1>3, <1>4, <1>5, <1>6, <1>7, <1>8, <1>9, <1>10, <1>11, <1>12, <1>13, <1>14, <1>15, <1>16
         DEF Next, LoadStep

\* What the list shows once everything has arrived.
LEMMA ListHolds == ShapeOK /\ StampsOK /\ (calm /\ NoLoads => ListOK) => ListTrue
<1> SUFFICES ASSUME ShapeOK, StampsOK, calm /\ NoLoads => ListOK, calm, Quiet
             PROVE  /\ {list[k].id : k \in DOMAIN list} = active /\ Len(list) = Cardinality(active)
                    /\ \A k \in DOMAIN list : list[k].n = unread[list[k].id] /\ list[k].at = latest[list[k].id]
                    /\ touched = latest => Descending(list)
  BY DEF ListTrue
<1>1. ListOK /\ NoJobs /\ inbox = <<>>
  BY DEF Quiet, NoLoads
<1>a. None \notin Convs /\ active \subseteq Convs /\ (\A c \in active : latest[c] \in Nat) /\ IsFiniteSet(active)
  BY FirstAssumption, FS_Subset DEF ShapeOK, ServerOK
<1>2. \A c : ~Under(c) \/ c = None
  BY <1>1 DEF NoJobs, Under, Idle, Handler
<1>3. \A c : Counts(inbox, c) = {} /\ Dates(inbox, c) = {} /\ ~Previewed(inbox, c)
  BY <1>1 DEF Counts, Dates, Previewed
<1>4. \A c \in active : Listed(c) /\ CountShown(c) /\ DateShown(c)
  BY <1>1, <1>a, <1>2, <1>3 DEF ListOK, Shown, Expected
<1> DEFINE N == Len(list)
<1>5. /\ list \in Seq(Item) /\ DOMAIN list = 1 .. N /\ N \in Nat
      /\ \A k \in 1 .. N : list[k].id \in active
      /\ \A j, k \in 1 .. N : list[j].id = list[k].id => j = k
  BY <1>1 DEF ListOK, RowsOK
<1>6. \A c \in active : \E k \in 1 .. N : list[k].id = c
  BY <1>4, <1>5 DEF Listed
<1>7. \A k \in 1 .. N : list[k].n = unread[list[k].id] /\ list[k].at = latest[list[k].id]
  BY <1>4, <1>5 DEF CountShown, DateShown
<1> HIDE DEF N
<1>8. {list[k].id : k \in 1 .. N} = active
  BY <1>5, <1>6
<1>9. N = Cardinality(active)
  <2> DEFINE f == [k \in 1 .. N |-> list[k].id]
  <2>1. f \in [1 .. N -> active] /\ \A k \in 1 .. N : f[k] = list[k].id
    BY <1>5
  <2> HIDE DEF f
  <2>2. f \in Injection(1 .. N, active)
    BY <1>5, <2>1 DEF Injection, IsInjective
  <2>3. f \in Surjection(1 .. N, active)
    BY <1>6, <2>1 DEF Surjection
  <2>4. Cardinality(1 .. N) = N
    BY <1>5, FS_Interval
  <2> QED BY <1>a, <2>2, <2>3, <2>4, FS_Injection
<1>10. ASSUME touched = latest PROVE Descending(list)
  <2>1. \A c \in active : ~Misplaced(c)
    <3>1. \A s \in Slots : job[s].conv = None
      BY <1>1 DEF NoJobs, Idle, Handler
    <3> QED BY <1>3, <1>10, <1>a, <3>1 DEF Misplaced
  <2>2. Descends
    BY <1>1, <2>1 DEF ListOK
  <2>3. ASSUME NEW k \in 1 .. N - 1 PROVE list[k].at > list[k + 1].at
    <3>1. k \in 1 .. N /\ k + 1 \in 1 .. N /\ k # k + 1 /\ k < k + 1
      BY <1>5
    <3>2. list[k].at >= list[k + 1].at
      BY <1>5, <2>2, <3>1 DEF Descends
    <3>3. list[k].id # list[k + 1].id /\ list[k].id \in active /\ list[k + 1].id \in active
      BY <1>5, <3>1
    <3>4. latest[list[k].id] # latest[list[k + 1].id]
      BY <1>a, <3>3 DEF StampsOK, Stamps
    <3>5. list[k].at = latest[list[k].id] /\ list[k + 1].at = latest[list[k + 1].id]
      BY <1>7, <3>1
    <3>6. list[k].at \in Nat /\ list[k + 1].at \in Nat
      BY <1>a, <3>3, <3>5
    <3> QED BY <3>2, <3>4, <3>5, <3>6
  <2> QED BY <2>3 DEF Descending, N
<1> QED BY <1>5, <1>7, <1>8, <1>9, <1>10 DEF N

\* The invariant holds at first, ...
LEMMA InitList == Init => ListInv
<1>1. Init => CalmOK /\ (calm /\ NoLoads => ListOK)
  BY DEF Init, CalmOK
<1> QED BY <1>1, InitShape, InitStamps, InitClean DEF ListInv

\* ... and every step keeps it.
LEMMA NextList == ListInv /\ [Next]_vars => ListInv'
<1> SUFFICES ASSUME ListInv, [Next]_vars PROVE ListInv'
  OBVIOUS
<1>1. ShapeOK /\ StampsOK /\ LoadsClean /\ CalmOK /\ (calm /\ NoLoads => ListOK)
  BY DEF ListInv
<1>2. CASE Next
  <2>1. ShapeOK'
    BY <1>1, <1>2, ShapeStep
  <2>2. StampsOK'
    BY <1>1, <1>2, StampsStep
  <2>3. LoadsClean'
    BY <1>1, <1>2, CleanStep
  <2>4. CalmOK'
    BY <1>1, <1>2, CalmStep
  <2>5. (calm /\ NoLoads => ListOK)'
    BY <1>1, <1>2, ListStep
  <2> QED BY <2>1, <2>2, <2>3, <2>4, <2>5 DEF ListInv
<1>3. CASE UNCHANGED vars
  <2>1. UNCHANGED <<now, active, latest, touched, unread, job, inbox, link, room, selected, list, load, moves, calm>>
    BY <1>3 DEF vars, serverVars, browserVars
  <2>2. ShapeOK'
    BY <1>1, <2>1 DEF ShapeOK, ServerOK, JobsOK, LoadsOK, BrowserOK
  <2>3. StampsOK'
    BY <1>1, <2>1, StampsKept DEF Stamps
  <2>4. LoadsClean'
    BY <1>1, <2>1 DEF LoadsClean, CleanOK, NoJobs, Fresh
  <2>5. CalmOK'
    BY <1>1, <2>1 DEF CalmOK, Alone, KnowsAll, Told, Under
  <2>6. (calm /\ NoLoads => ListOK)'
    BY <1>1, <2>1, ListSame DEF NoLoads
  <2> QED BY <2>2, <2>3, <2>4, <2>5, <2>6 DEF ListInv
<1> QED BY <1>2, <1>3

\* Once everything has arrived, and while nothing that the page shows was
\* overtaken or lost, state.conversations lists exactly the conversations of the
\* user, with the server's counters and latest messages, the latest one first.
THEOREM ListIsTrue == Spec => []ListTrue
<1>1. ListInv => ListTrue
  BY ListHolds DEF ListInv
<1> QED BY <1>1, InitList, NextList, PTL DEF Spec
=============================================================================

----------------------------- MODULE NativeProofs -----------------------------
(***************************************************************************)
(* Proofs about the chat relay, the terminal client and the processor, for *)
(* any number of connections, users and slots of the table of online       *)
(* users, and of inputs, deliveries and calls.                             *)
(***************************************************************************)
EXTENDS MCNative, FiniteSetTheorems, TLAPS

-----------------------------------------------------------------------------
(* The relay.                                                              *)

\* A name has at most one slot, and a slot without a name is free.
TableInv ==
    /\ \A i, j \in Slots : table[i].user # None /\ table[i].user = table[j].user => i = j
    /\ \A i \in Slots : table[i].user = None => table[i] = Free

\* The kernel hands out a descriptor to one open connection at a time.
FdInv == \A s, t \in Conns : Open(s) /\ Open(t) /\ session[s].fd = session[t].fd => s = t

\* A session with a name has the slot of that name.
Registered ==
    \A t \in Conns : Serving(t) /\ session[t].user # None =>
        \E i \in Slots : table[i] = [user |-> session[t].user, fd |-> session[t].fd]

\* An authenticated session has a name, and so has the login in progress.
NameInv ==
    \A t \in Conns : /\ session[t].auth => session[t].user # None
                     /\ session[t].pc = "register" => session[t].name # None

RelayInv == TypeOK /\ TableInv /\ FdInv /\ Registered /\ NameInv /\ EntriesOwned

\* A closed connection is a Session.
LEMMA GoneTyped == Gone \in Session
  BY DEF Gone, Session

\* A free slot is an Entry without a name.
LEMMA FreeTyped == Free \in Entry /\ Free.user = None
  BY DEF Free, Entry

\* The server starts with an empty table and no connection.
LEMMA InitIInv == Init => RelayInv
<1> SUFFICES ASSUME Init PROVE RelayInv
  OBVIOUS
<1>1. TypeOK
  BY GoneTyped, FreeTyped DEF Init, TypeOK
<1>2. \A t \in Conns : session[t] = Gone /\ ~Open(t) /\ ~Serving(t)
  BY DEF Init, Gone, Open, Serving
<1>3. \A i \in Slots : table[i] = Free
  BY DEF Init
<1>4. TableInv
  BY <1>3, FreeTyped DEF TableInv
<1>5. NameInv
  BY <1>2 DEF NameInv, Gone
<1>6. FdInv /\ Registered /\ EntriesOwned
  BY <1>2, <1>3 DEF FdInv, Registered, EntriesOwned
<1>7. QED BY <1>1, <1>4, <1>5, <1>6 DEF RelayInv

\* The fields of a session have the types Session gives them.
LEMMA SessionTyped ==
    ASSUME TypeOK, NEW t \in Conns
    PROVE  /\ session[t] \in Session
           /\ session[t].pc \in {"gone", "run", "register", "write", "close"}
           /\ session[t].fd \in Nat
           /\ session[t].auth \in BOOLEAN
           /\ session[t].user \in Users \cup {None}
           /\ session[t].name \in Users \cup {None}
           /\ session[t].dest \in Nat
           /\ session[t].hung \in BOOLEAN
<1>1. session[t] \in Session
  BY DEF TypeOK
<1>2. QED BY <1>1 DEF Session

\* Two sessions served under one name are the same: they share the slot of the
\* name, hence the descriptor.
LEMMA NamesAreUnique == RelayInv => OneSessionPerUser
<1> SUFFICES ASSUME RelayInv, NEW s \in Conns, NEW t \in Conns, Serving(s), Serving(t),
                    session[s].user # None, session[s].user = session[t].user
             PROVE  s = t
  BY DEF OneSessionPerUser
<1>1. PICK i \in Slots : table[i] = [user |-> session[s].user, fd |-> session[s].fd]
  BY DEF RelayInv, Registered
<1>2. PICK j \in Slots : table[j] = [user |-> session[t].user, fd |-> session[t].fd]
  BY DEF RelayInv, Registered
<1>3. i = j
  BY <1>1, <1>2 DEF RelayInv, TableInv
<1>4. session[s].fd = session[t].fd
  BY <1>1, <1>2, <1>3
<1>5. Open(s) /\ Open(t)
  BY DEF Serving, Open
<1>6. QED BY <1>4, <1>5 DEF RelayInv, FdInv

\* A step that leaves the table and what the other threads can see of the
\* sessions alone.
LEMMA InternalStep ==
    ASSUME RelayInv, TypeOK', NameInv', table' = table, switched' = switched,
           \A t \in Conns : /\ session'[t].fd = session[t].fd
                            /\ session'[t].user = session[t].user
                            /\ (session'[t].pc = "gone") <=> (session[t].pc = "gone")
                            /\ (session'[t].pc = "close") <=> (session[t].pc = "close")
    PROVE  RelayInv'
<1>1. \A t \in Conns : (Open(t) <=> Open(t)') /\ (Serving(t) <=> Serving(t)')
  <2> TAKE t \in Conns
  <2>1. /\ session[t].pc \in {"gone", "run", "register", "write", "close"}
        /\ session'[t].pc \in {"gone", "run", "register", "write", "close"}
    <3>1. session[t] \in Session /\ session'[t] \in Session
      BY DEF RelayInv, TypeOK
    <3>2. QED BY <3>1 DEF Session
  <2>2. QED BY <2>1 DEF Open, Serving
<1>2. TableInv'
  BY DEF RelayInv, TableInv
<1>3. FdInv'
  BY <1>1 DEF RelayInv, FdInv
<1>4. Registered'
  BY <1>1 DEF RelayInv, Registered
<1>5. EntriesOwned'
  BY <1>1 DEF RelayInv, EntriesOwned
<1>6. QED BY <1>2, <1>3, <1>4, <1>5 DEF RelayInv

\* A step of t that leaves the table alone keeps the entries owned, if t was
\* not being served or had no name.
LEMMA EntriesKept ==
    ASSUME RelayInv, NEW t \in Conns, table' = table, ~switched' => ~switched,
           \A x \in Conns : x # t => session'[x] = session[x],
           ~switched' => ~Serving(t) \/ session[t].user = None
    PROVE  EntriesOwned'
<1> SUFFICES ASSUME ~switched', NEW j \in Slots, table'[j] # Free
             PROVE  \E x \in Conns : /\ Serving(x)'
                                     /\ table'[j] = [user |-> session'[x].user,
                                                     fd |-> session'[x].fd]
  BY DEF EntriesOwned
<1>1. PICK x \in Conns : /\ Serving(x)
                         /\ table[j] = [user |-> session[x].user, fd |-> session[x].fd]
  BY DEF RelayInv, EntriesOwned
<1>2. table[j].user = session[x].user /\ table[j].user # None
  BY <1>1 DEF RelayInv, TableInv
<1>3. x # t
  BY <1>1, <1>2
<1>4. QED BY <1>1, <1>3 DEF Serving

\* The steps of one thread.
LEMMA ThreadKeepsIInv ==
    ASSUME RelayInv, NEW t \in Conns,
           \/ Accept(t) \/ HangUp(t) \/ HandleRegister(t)
           \/ LoginRefused(t) \/ LoginAccepted(t) \/ LoginRegister(t)
           \/ ChatLookup(t) \/ ChatWrite(t)
           \/ Unregister(t) \/ Close(t) \/ Killed(t)
    PROVE  RelayInv'
<1> DEFINE s == session[t]
<1>0. TypeOK /\ s \in Session /\ session \in [Conns -> Session]
  BY DEF RelayInv, TypeOK
<1>1. CASE Accept(t)
  <2>1. PICK fd \in Fds \ OpenFds :
            ~Open(t) /\ session' = [session EXCEPT ![t] = [Gone EXCEPT !.pc = "run", !.fd = fd]]
    BY <1>1 DEF Accept, Put
  <2>2. /\ session'[t].pc = "run" /\ session'[t].fd = fd /\ session'[t].user = None
        /\ session'[t].auth = FALSE /\ session'[t] \in Session
    <3>1. fd \in Nat
      BY ConnsAssumption, FS_CardinalityType DEF Fds
    <3>2. QED BY <1>0, <2>1, <3>1 DEF Gone, Session
  <2>3. \A x \in Conns : x # t => session'[x] = session[x]
    BY <1>0, <2>1
  <2>4. UNCHANGED <<accounts, table, switched>>
    BY <1>1 DEF Accept
  <2>5. TypeOK'
    BY <1>0, <2>1, <2>2, <2>4 DEF TypeOK
  <2>6. FdInv'
    BY <2>1, <2>2, <2>3 DEF RelayInv, FdInv, Open, OpenFds
  <2>7. Registered'
    BY <2>2, <2>3, <2>4 DEF RelayInv, Registered, Serving
  <2>8. EntriesOwned'
    BY <2>1, <2>3, <2>4, EntriesKept DEF Serving, Open
  <2>9. NameInv'
    BY <2>2, <2>3 DEF RelayInv, NameInv
  <2>10. QED BY <2>4, <2>5, <2>6, <2>7, <2>8, <2>9 DEF RelayInv, TableInv
<1>2. CASE HangUp(t)
  <2>1. TypeOK'
    BY <1>0, <1>2, SessionTyped DEF HangUp, TypeOK, Session
  <2>2. \A x \in Conns : /\ session'[x].fd = session[x].fd
                         /\ session'[x].user = session[x].user
                         /\ session'[x].auth = session[x].auth
                         /\ session'[x].name = session[x].name
                         /\ session'[x].pc = session[x].pc
    BY <1>0, <1>2 DEF HangUp, Session
  <2>3. NameInv'
    BY <2>2 DEF RelayInv, NameInv
  <2>4. QED BY <1>2, <2>1, <2>2, <2>3, InternalStep DEF HangUp
<1>3. CASE HandleRegister(t)
  <2>1. TypeOK' /\ NameInv'
    BY <1>0, <1>3 DEF HandleRegister, TypeOK, RelayInv, NameInv
  <2>2. QED BY <1>3, <2>1, InternalStep DEF HandleRegister
<1>4. CASE LoginRefused(t)
  <2>1. /\ session'[t].pc = "run" /\ session'[t].fd = s.fd /\ session'[t].user = None
        /\ session'[t].auth = FALSE /\ session'[t] \in Session
        /\ s.pc = "run"
    BY <1>0, <1>4 DEF LoginRefused, Ready, Session
  <2>2. \A x \in Conns : x # t => session'[x] = session[x]
    BY <1>0, <1>4 DEF LoginRefused
  <2>3. UNCHANGED <<accounts, table>>
    BY <1>4 DEF LoginRefused
  <2>4. switched' = (switched \/ s.user # None)
    BY <1>4 DEF LoginRefused
  <2>5. TypeOK'
    BY <1>0, <1>4, <2>1, <2>3, <2>4 DEF LoginRefused, TypeOK
  <2>6. FdInv'
    BY <2>1, <2>2 DEF RelayInv, FdInv, Open
  <2>7. Registered'
    BY <2>1, <2>2, <2>3 DEF RelayInv, Registered, Serving
  <2>8. EntriesOwned'
    BY <2>2, <2>3, <2>4, EntriesKept
  <2>9. NameInv'
    BY <2>1, <2>2 DEF RelayInv, NameInv
  <2>10. QED BY <2>3, <2>5, <2>6, <2>7, <2>8, <2>9 DEF RelayInv, TableInv
<1>5. CASE LoginAccepted(t)
  <2>1. PICK u \in accounts : session' = [session EXCEPT ![t].pc = "register", ![t].name = u]
    BY <1>5 DEF LoginAccepted
  <2>2. u \in Users /\ u # None
    BY <1>0, NoneAssumption DEF TypeOK
  <2>3. /\ session'[t].pc = "register" /\ session'[t].name = u /\ session'[t].fd = s.fd
        /\ session'[t].user = s.user /\ session'[t].auth = s.auth /\ session'[t] \in Session
    BY <1>0, <2>1, <2>2 DEF Session
  <2>4. \A x \in Conns : x # t => session'[x] = session[x]
    BY <1>0, <2>1
  <2>5. TypeOK'
    BY <1>0, <1>5, <2>1, <2>3 DEF LoginAccepted, TypeOK
  <2>6. NameInv'
    BY <2>2, <2>3, <2>4 DEF RelayInv, NameInv
  <2>7. s.pc = "run"
    BY <1>5 DEF LoginAccepted, Ready
  <2>8. QED BY <1>5, <2>3, <2>4, <2>5, <2>6, <2>7, InternalStep DEF LoginAccepted
<1>6. CASE LoginRegister(t)
  <2>1. s.pc = "register" /\ s.name # None /\ s.name \in Users
    BY <1>0, <1>6, SessionTyped DEF LoginRegister, RelayInv, NameInv
  <2>2. CASE Online(s.name) \/ FirstFree = {}
    <3>1. /\ session' = [session EXCEPT ![t] = [s EXCEPT !.pc = "run", !.name = None]]
          /\ UNCHANGED <<accounts, table, switched>>
      BY <1>6, <2>2 DEF LoginRegister, Put
    <3>2. /\ session'[t].pc = "run" /\ session'[t].fd = s.fd /\ session'[t].user = s.user
          /\ session'[t].auth = s.auth /\ session'[t] \in Session
      BY <1>0, <3>1 DEF Session
    <3>3. \A x \in Conns : x # t => session'[x] = session[x]
      BY <1>0, <3>1
    <3>4. TypeOK'
      BY <1>0, <3>1, <3>2 DEF TypeOK
    <3>5. NameInv'
      BY <3>2, <3>3 DEF RelayInv, NameInv
    <3>6. QED BY <2>1, <3>1, <3>2, <3>3, <3>4, <3>5, InternalStep
  <2>3. CASE ~(Online(s.name) \/ FirstFree = {})
    <3> DEFINE e == [user |-> s.name, fd |-> s.fd]
    <3>1. PICK i \in FirstFree : table' = [table EXCEPT ![i] = e]
      BY <1>6, <2>3 DEF LoginRegister
    <3>2. /\ session' = [session EXCEPT ![t] = [s EXCEPT !.pc = "run", !.name = None,
                                                          !.auth = TRUE, !.user = s.name]]
          /\ switched' = (switched \/ s.user # None)
          /\ accounts' = accounts
      BY <1>6, <2>3 DEF LoginRegister, Put
    <3>3. /\ session'[t].pc = "run" /\ session'[t].fd = s.fd /\ session'[t].user = s.name
          /\ session'[t] \in Session
      BY <1>0, <2>1, <3>2 DEF Session
    <3>4. \A x \in Conns : x # t => session'[x] = session[x]
      BY <1>0, <3>2
    <3>5. i \in Slots /\ table[i] = Free /\ e \in Entry /\ e.user = s.name /\ e.fd = s.fd
      BY <1>0, <2>1, SessionTyped DEF FirstFree, Entry
    <3>6. table'[i] = e /\ \A j \in Slots : j # i => table'[j] = table[j]
      BY <1>0, <3>1, <3>5 DEF TypeOK
    <3>7. \A j \in Slots : table[j].user # s.name
      BY <2>1, <2>3 DEF Online, SlotsOf
    <3> HIDE DEF e
    <3>8. TypeOK'
      BY <1>0, <3>1, <3>2, <3>3, <3>5 DEF TypeOK
    <3>9. TableInv'
      BY <2>1, <3>5, <3>6, <3>7 DEF RelayInv, TableInv
    <3>10. FdInv'
      BY <2>1, <3>3, <3>4 DEF RelayInv, FdInv, Open
    <3>11. Registered'
      <4> SUFFICES ASSUME NEW x \in Conns, Serving(x)', session'[x].user # None
                   PROVE  \E j \in Slots :
                             table'[j] = [user |-> session'[x].user, fd |-> session'[x].fd]
        BY DEF Registered
      <4>1. CASE x = t
        BY <4>1, <3>3, <3>5, <3>6 DEF e
      <4>2. CASE x # t
        <5>1. Serving(x) /\ session[x].user # None
          BY <4>2, <3>4 DEF Serving
        <5>2. PICK j \in Slots : table[j] = [user |-> session[x].user, fd |-> session[x].fd]
          BY <5>1 DEF RelayInv, Registered
        <5>3. j # i
          BY <5>1, <5>2, <3>5, FreeTyped
        <5>4. QED BY <4>2, <5>2, <5>3, <3>4, <3>6
      <4>3. QED BY <4>1, <4>2
    <3>12. EntriesOwned'
      <4> SUFFICES ASSUME ~switched', NEW j \in Slots, table'[j] # Free
                   PROVE  \E x \in Conns : /\ Serving(x)'
                                           /\ table'[j] = [user |-> session'[x].user,
                                                           fd |-> session'[x].fd]
        BY DEF EntriesOwned
      <4>1. ~switched /\ s.user = None
        BY <3>2
      <4>2. CASE j = i
        BY <4>2, <3>3, <3>5, <3>6 DEF Serving, e
      <4>3. CASE j # i
        <5>1. table'[j] = table[j] /\ table[j] # Free
          BY <4>3, <3>6
        <5>2. PICK x \in Conns : /\ Serving(x)
                                 /\ table[j] = [user |-> session[x].user, fd |-> session[x].fd]
          BY <4>1, <5>1 DEF RelayInv, EntriesOwned
        <5>3. table[j].user # None
          BY <5>1 DEF RelayInv, TableInv
        <5>4. x # t
          BY <4>1, <5>2, <5>3
        <5>5. QED BY <5>1, <5>2, <5>4, <3>4 DEF Serving
      <4>4. QED BY <4>2, <4>3
    <3>13. NameInv'
      BY <2>1, <3>3, <3>4 DEF RelayInv, NameInv
    <3>14. QED BY <3>8, <3>9, <3>10, <3>11, <3>12, <3>13 DEF RelayInv
  <2>4. QED BY <2>2, <2>3
<1>7. CASE ChatLookup(t)
  <2>1. PICK u \in Users, i \in Slots :
            session' = [session EXCEPT ![t].pc = "write", ![t].name = u, ![t].dest = table[i].fd]
    BY <1>7 DEF ChatLookup, SlotsOf
  <2>2. table[i].fd \in Nat
    BY <1>0 DEF TypeOK, Entry
  <2>3. /\ session'[t].pc = "write" /\ session'[t].fd = s.fd /\ session'[t].user = s.user
        /\ session'[t].auth = s.auth /\ session'[t] \in Session
    BY <1>0, <2>1, <2>2 DEF Session
  <2>4. \A x \in Conns : x # t => session'[x] = session[x]
    BY <1>0, <2>1
  <2>5. TypeOK'
    BY <1>0, <1>7, <2>1, <2>3 DEF ChatLookup, TypeOK
  <2>6. NameInv'
    BY <2>3, <2>4 DEF RelayInv, NameInv
  <2>7. s.pc = "run"
    BY <1>7 DEF ChatLookup, Ready
  <2>8. QED BY <1>7, <2>3, <2>4, <2>5, <2>6, <2>7, InternalStep DEF ChatLookup
<1>8. CASE ChatWrite(t)
  <2>1. /\ session'[t].pc = "run" /\ session'[t].fd = s.fd /\ session'[t].user = s.user
        /\ session'[t].auth = s.auth /\ session'[t] \in Session
    BY <1>0, <1>8 DEF ChatWrite, Session
  <2>2. \A x \in Conns : x # t => session'[x] = session[x]
    BY <1>0, <1>8 DEF ChatWrite
  <2>3. TypeOK'
    BY <1>0, <1>8, <2>1 DEF ChatWrite, TypeOK
  <2>4. NameInv'
    BY <2>1, <2>2 DEF RelayInv, NameInv
  <2>5. s.pc = "write"
    BY <1>8 DEF ChatWrite
  <2>6. QED BY <1>8, <2>1, <2>2, <2>3, <2>4, <2>5, InternalStep DEF ChatWrite
<1>9. CASE Unregister(t)
  <2>1. session' = [session EXCEPT ![t].pc = "close"] /\ s.pc = "run"
    BY <1>9 DEF Unregister, Ready
  <2>2. UNCHANGED <<accounts, switched>>
    BY <1>9 DEF Unregister
  <2>3. /\ session'[t].pc = "close" /\ session'[t].fd = s.fd /\ session'[t].user = s.user
        /\ session'[t].auth = s.auth /\ session'[t] \in Session
    BY <1>0, <2>1 DEF Session
  <2>4. \A x \in Conns : x # t => session'[x] = session[x]
    BY <1>0, <2>1
  <2>5. FdInv'
    BY <2>1, <2>3, <2>4 DEF RelayInv, FdInv, Open
  <2>6. NameInv'
    BY <2>3, <2>4 DEF RelayInv, NameInv
  <2>7. Serving(t)
    BY <2>1 DEF Serving
  \* Only the slot of the session's own name is freed.
  <2>8. \A j \in Slots : \/ table'[j] = table[j]
                         \/ table'[j] = Free /\ table[j].user = s.user /\ s.user # None
    BY <1>0, <1>9 DEF Unregister, SlotsOf, Online, TypeOK
  <2>9. s.user # None => \A j \in Slots : table'[j].user # s.user
    <3> SUFFICES ASSUME s.user # None, NEW j \in Slots PROVE table'[j].user # s.user
      OBVIOUS
    <3>1. CASE Online(s.user)
      <4>1. PICK i \in SlotsOf(s.user) : table' = [table EXCEPT ![i] = Free]
        BY <1>9, <3>1 DEF Unregister
      <4>2. CASE j = i
        BY <1>0, <4>1, <4>2, FreeTyped DEF TypeOK
      <4>3. CASE j # i
        BY <1>0, <4>1, <4>3 DEF RelayInv, TableInv, TypeOK, SlotsOf
      <4>4. QED BY <4>2, <4>3
    <3>2. CASE ~Online(s.user)
      BY <1>9, <3>2 DEF Unregister, Online, SlotsOf
    <3>3. QED BY <3>1, <3>2
  <2>10. TypeOK'
    <3>1. table' \in [Slots -> Entry]
      BY <1>0, <1>9, FreeTyped DEF Unregister, SlotsOf, TypeOK
    <3>2. QED BY <1>0, <2>1, <2>2, <2>3, <3>1 DEF TypeOK
  <2>11. TableInv'
    BY <2>8, FreeTyped DEF RelayInv, TableInv
  <2>12. Registered'
    <3> SUFFICES ASSUME NEW x \in Conns, Serving(x)', session'[x].user # None
                 PROVE  \E j \in Slots :
                           table'[j] = [user |-> session'[x].user, fd |-> session'[x].fd]
      BY DEF Registered
    <3>1. x # t
      BY <2>3 DEF Serving
    <3>2. session'[x] = session[x] /\ Serving(x)
      BY <3>1, <2>4 DEF Serving
    <3>3. PICK j \in Slots : table[j] = [user |-> session[x].user, fd |-> session[x].fd]
      BY <3>2 DEF RelayInv, Registered
    <3>4. session[x].user # s.user
      BY <3>1, <3>2, <2>7, NamesAreUnique DEF OneSessionPerUser
    <3>5. table[j].user = session[x].user
      BY <3>3
    <3>6. QED BY <3>2, <3>3, <3>4, <3>5, <2>8
  <2>13. EntriesOwned'
    <3> SUFFICES ASSUME ~switched', NEW j \in Slots, table'[j] # Free
                 PROVE  \E x \in Conns : /\ Serving(x)'
                                         /\ table'[j] = [user |-> session'[x].user,
                                                         fd |-> session'[x].fd]
      BY DEF EntriesOwned
    <3>1. table'[j] = table[j]
      BY <2>8
    <3>2. PICK x \in Conns : /\ Serving(x)
                             /\ table[j] = [user |-> session[x].user, fd |-> session[x].fd]
      BY <2>2, <3>1 DEF RelayInv, EntriesOwned
    <3>3. table[j].user = session[x].user /\ table[j].user # None
      BY <3>1, <3>2 DEF RelayInv, TableInv
    <3>4. x # t
      BY <3>1, <3>3, <2>9
    <3>5. QED BY <3>1, <3>2, <3>4, <2>4 DEF Serving
  <2>14. QED BY <2>5, <2>6, <2>10, <2>11, <2>12, <2>13 DEF RelayInv
<1>10. CASE Close(t)
  <2>1. session' = [session EXCEPT ![t] = Gone] /\ s.pc = "close"
    BY <1>10 DEF Close, Put
  <2>2. UNCHANGED <<accounts, table, switched>>
    BY <1>10 DEF Close
  <2>3. session'[t] = Gone
    BY <1>0, <2>1
  <2>4. \A x \in Conns : x # t => session'[x] = session[x]
    BY <1>0, <2>1
  <2>5. TypeOK'
    BY <1>0, <2>1, <2>2, GoneTyped DEF TypeOK
  <2>6. FdInv'
    BY <2>3, <2>4 DEF RelayInv, FdInv, Open, Gone
  <2>7. Registered'
    BY <2>2, <2>3, <2>4 DEF RelayInv, Registered, Serving, Gone
  <2>8. EntriesOwned'
    BY <2>1, <2>2, <2>4, EntriesKept DEF Serving
  <2>9. NameInv'
    BY <2>3, <2>4 DEF RelayInv, NameInv, Gone
  <2>10. QED BY <2>2, <2>5, <2>6, <2>7, <2>8, <2>9 DEF RelayInv, TableInv
<1>11. CASE Killed(t)
  <2>1. /\ \A i \in Slots : table'[i] = Free
        /\ \A x \in Conns : session'[x] = Gone
    BY <1>11 DEF Killed
  <2>2. TypeOK'
    BY <1>0, <1>11, GoneTyped, FreeTyped DEF Killed, TypeOK
  <2>3. TableInv' /\ EntriesOwned'
    BY <2>1, FreeTyped DEF TableInv, EntriesOwned
  <2>4. FdInv' /\ Registered' /\ NameInv'
    BY <2>1 DEF FdInv, Registered, NameInv, Open, Serving, Gone
  <2>5. QED BY <2>2, <2>3, <2>4 DEF RelayInv
<1>12. QED
  BY <1>1, <1>2, <1>3, <1>4, <1>5, <1>6, <1>7, <1>8, <1>9, <1>10, <1>11

\* Every step keeps the invariant.
LEMMA StepIInv == RelayInv /\ [Next]_vars => RelayInv'
<1> SUFFICES ASSUME RelayInv, [Next]_vars PROVE RelayInv'
  OBVIOUS
<1>1. CASE Next
  BY <1>1, ThreadKeepsIInv DEF Next
<1>2. CASE UNCHANGED vars
  BY <1>2 DEF vars, RelayInv, TypeOK, TableInv, FdInv, Registered, NameInv, EntriesOwned, Open,
              Serving
<1>3. QED BY <1>1, <1>2

\* The invariant always holds.
LEMMA Invariance == Spec => []RelayInv
  BY InitIInv, StepIInv, PTL DEF Spec

\* Type correctness of the relay.
THEOREM RelayTypeCorrect == Spec => []TypeOK
  BY Invariance, PTL DEF RelayInv

\* register_online_user never lets two connections be logged in under one name.
THEOREM NamesStayUnique == Spec => []OneSessionPerUser
  BY Invariance, NamesAreUnique, PTL

\* A session that client_thread_main holds as authenticated is found under its
\* own name, with its own descriptor, in the table of online users.
THEOREM ReachableWhileAuthenticated == Spec => []AuthenticatedReachable
<1>1. RelayInv => AuthenticatedReachable
  BY DEF RelayInv, Registered, NameInv, AuthenticatedReachable
<1>2. QED BY Invariance, <1>1, PTL

\* unregister_online_user frees the entry of every client that leaves, as long
\* as no connection gives up its name for another.
THEOREM NoOrphanEntries == Spec => []EntriesOwned
  BY Invariance, PTL DEF RelayInv

-----------------------------------------------------------------------------
(* The terminal client.                                                    *)

USE InputsAssumption

Statuses == {"registered", "refused", "ok", "already-online", "auth-required", "offline", "delivered"}
Types == {"register", "login", "select", "chat", "logout"}
RequestType == [type : Types \cup {"none"}, id : Nat]
Response == [type : {"none", "ack", "delivery"}, id : Nat, status : Statuses \cup {"none"}]
MainPcs == {"menu", "menuPrompt", "peers", "peerPrompt", "chat", "chatPrompt",
            "check", "asleep", "stop", "join", "exit", "killed"}

ClientTypeOK ==
    /\ requests \in Seq(RequestType) /\ responses \in Seq(Response)
    /\ server \in [pc : {"read", "answer", "closed"}, auth : BOOLEAN, req : RequestType,
                   status : Statuses \cup {"none"}]
    /\ main \in [pc : MainPcs, req : RequestType, answer : Response]
    /\ running \in BOOLEAN /\ ack \in Response /\ ackReady \in BOOLEAN
    /\ nextId \in Nat /\ inputs \in 0 .. MaxInputs
    /\ served \in [Client!Ids -> Statuses \cup {"none"}]

\* The request of the main thread is with the server, or on its way there.
Outstanding == requests # <<>> \/ server.pc = "answer"

\* One request at a time is under way, the main thread's last one, and only while
\* the main thread waits or has given up.
OneRequest ==
    /\ requests \in {<<>>, <<main.req>>}
    /\ requests # <<>> => server.pc = "read"
    /\ server.pc = "answer" => requests = <<>> /\ server.req = main.req
    /\ Outstanding => main.pc \in {"check", "asleep", "stop", "join", "exit", "killed"}

\* Numbers grow from request to request, and what is acknowledged was served.
IdsGrow ==
    /\ main.req.id < nextId /\ nextId <= 2 * inputs + 1
    /\ Outstanding => main.req.id \in Client!Ids
    /\ \A i \in Client!Ids : i > main.req.id => served[i] = "none"
    /\ requests # <<>> => served[main.req.id] = "none"
    /\ server.pc = "answer" => served[main.req.id] = server.status

\* The acknowledgements that are on their way, wait for the main thread, or were
\* taken by it.
AckTrue(a) ==
    /\ a.id \in Client!Ids /\ a.id <= main.req.id
    /\ Outstanding => a.id < main.req.id
    /\ served[a.id] = a.status

AcksTrue ==
    /\ \A k \in DOMAIN responses : responses[k].type = "ack" => AckTrue(responses[k])
    /\ ackReady => AckTrue(ack)
    /\ main.answer # Client!NoResponse => AckTrue(main.answer)

\* The connection is signed in only by a login that succeeded, and then the main
\* thread has left the menu, or will only find there that it has to stop.
SignedOutAtMenu ==
    /\ main.req.type \in Client!AuthTypes /\ ~(main.req.type = "login" /\ served[main.req.id] = "ok")
         => ~server.auth
    /\ main.pc = "menuPrompt" => ~server.auth
    /\ main.pc = "menu" /\ running => ~server.auth
    /\ main.req.type \in Client!AuthTypes => main.req.id \in Client!Ids

ClientInv == ClientTypeOK /\ OneRequest /\ IdsGrow /\ AcksTrue /\ SignedOutAtMenu
\* No request was made yet.
LEMMA ClientInit == Client!Init => ClientInv
<1> SUFFICES ASSUME Client!Init PROVE ClientInv
  OBVIOUS
<1>1. ClientTypeOK
  <2>1. Client!NoRequest \in RequestType /\ Client!NoResponse \in Response
    BY DEF RequestType, Response, Client!NoRequest, Client!NoResponse
  <2>2. requests \in Seq(RequestType) /\ responses \in Seq(Response)
    BY DEF Client!Init
  <2>3. server \in [pc : {"read", "answer", "closed"}, auth : BOOLEAN, req : RequestType,
                   status : Statuses \cup {"none"}]
    BY <2>1 DEF Client!Init
  <2>4. main \in [pc : MainPcs, req : RequestType, answer : Response]
    BY <2>1 DEF Client!Init, MainPcs
  <2>5. running \in BOOLEAN /\ ack \in Response /\ ackReady \in BOOLEAN
    BY <2>1 DEF Client!Init
  <2>6. nextId \in Nat /\ inputs \in 0 .. MaxInputs
    BY DEF Client!Init
  <2>7. served \in [Client!Ids -> Statuses \cup {"none"}]
    BY DEF Client!Init
  <2> QED BY <2>2, <2>3, <2>4, <2>5, <2>6, <2>7 DEF ClientTypeOK
<1> USE DEF Client!Init, Client!NoRequest, Client!NoResponse
<1>2. OneRequest /\ AcksTrue
  BY DEF OneRequest, AcksTrue, Outstanding
<1>3. IdsGrow /\ SignedOutAtMenu
  BY DEF IdsGrow, SignedOutAtMenu, Outstanding, Client!Ids, Client!AuthTypes
<1> QED BY <1>1, <1>2, <1>3 DEF ClientInv

\* The main thread moves between loops and prompts, or gives up.
LEMMA MainMoves ==
    ASSUME ClientInv,
           \/ Client!Menu \/ Client!Peers \/ Client!Chat \/ Client!WokenForNothing
           \/ Client!WriteFails \/ Client!Killed \/ Client!Stop \/ Client!Join
    PROVE  ClientInv'
<1> USE DEF ClientInv, Client!Menu, Client!Peers, Client!Chat, Client!WokenForNothing,
            Client!WriteFails, Client!Killed, Client!Stop, Client!Join, Client!Goto, Client!shared
<1>1. ClientTypeOK'
  BY DEF ClientTypeOK, MainPcs
<1>2. OneRequest'
  BY DEF OneRequest, Outstanding, ClientTypeOK, Client!Prompting
<1>3. /\ main'.req = main.req /\ main'.answer = main.answer
      /\ UNCHANGED <<requests, responses, server, ack, ackReady, nextId, inputs, served>>
  BY DEF ClientTypeOK
<1>4. IdsGrow' /\ AcksTrue'
  BY <1>3 DEF IdsGrow, AcksTrue, AckTrue, Outstanding
<1>5. SignedOutAtMenu'
  BY DEF SignedOutAtMenu, ClientTypeOK
<1> QED BY <1>1, <1>2, <1>4, <1>5

\* The user's next request has a new number; a login or registration comes from the
\* menu, where the connection is not signed in.
LEMMA ClientSubmit == ASSUME ClientInv, Client!Submit PROVE ClientInv'
<1> USE DEF ClientInv, Client!shared
<1>1. PICK type \in Types : /\ Client!Request(type)
                            /\ main.pc \in {"menuPrompt", "peerPrompt", "chatPrompt"}
                            /\ type \in Client!AuthTypes <=> main.pc = "menuPrompt"
  BY DEF Client!Submit, Client!AuthTypes, Types
<1> DEFINE id == IF type \in Client!AuthTypes THEN nextId + 1 ELSE nextId
           req == [type |-> type, id |-> id]
<1>2. requests = <<>> /\ server.pc # "answer"
  <2>1. main.pc \in {"menuPrompt", "peerPrompt", "chatPrompt"}
    BY <1>1
  <2>2. ~Outstanding
    BY <2>1 DEF OneRequest
  <2> QED BY <2>2 DEF Outstanding
<1>3. /\ inputs \in Nat /\ inputs < MaxInputs /\ inputs' = inputs + 1
      /\ nextId' = nextId + IF type \in Client!AuthTypes THEN 2 ELSE 1
      /\ requests' = IF server.pc = "closed" THEN requests ELSE Append(requests, req)
      /\ main' = [main EXCEPT !.pc = "check", !.req = req]
      /\ UNCHANGED <<responses, server, receiver, running, ack, ackReady, served>>
  BY <1>1 DEF Client!Request, Client!IdsUsed, ClientTypeOK
<1>4. /\ id \in Nat /\ id >= nextId /\ id < nextId' /\ nextId' \in Nat /\ nextId \in Nat
      /\ nextId' <= 2 * inputs' + 1 /\ inputs' \in 0 .. MaxInputs
  BY <1>3, SMTT(30) DEF IdsGrow, ClientTypeOK
<1>5. main.req \in RequestType /\ main.req.id \in Nat /\ main.req.id < nextId
  BY DEF IdsGrow, ClientTypeOK, RequestType
<1>6. id \in Client!Ids
  BY <1>3, <1>4, <1>5, SMTT(30) DEF Client!Ids, IdsGrow
<1>7. req \in RequestType /\ req.id = id /\ req.type = type
  BY <1>4 DEF RequestType
<1>8. requests' = <<>> \/ (requests' = <<req>> /\ server.pc = "read")
  BY <1>2, <1>3 DEF ClientTypeOK
<1> HIDE DEF id, req
<1>9. main'.pc = "check" /\ main'.req = req /\ main'.answer = main.answer
  BY <1>3 DEF ClientTypeOK
<1>10. ClientTypeOK'
  <2>1. requests' \in Seq(RequestType)
    BY <1>3, <1>7 DEF ClientTypeOK
  <2>2. main' \in [pc : MainPcs, req : RequestType, answer : Response]
    BY <1>3, <1>7 DEF ClientTypeOK, MainPcs
  <2> QED BY <2>1, <2>2, <1>3, <1>4 DEF ClientTypeOK
<1>11. OneRequest'
  BY <1>2, <1>3, <1>8, <1>9 DEF OneRequest, Outstanding
<1>12. \A i \in Client!Ids : i \in Nat
  BY DEF Client!Ids
<1>13. IdsGrow'
  <2>1. main'.req.id < nextId' /\ nextId' <= 2 * inputs' + 1 /\ main'.req.id \in Client!Ids
    BY <1>4, <1>6, <1>7, <1>9
  <2>2. \A i \in Client!Ids : i > main'.req.id => served'[i] = "none"
    BY <1>3, <1>4, <1>5, <1>7, <1>9, <1>12, SMTT(30) DEF IdsGrow
  <2>3. served'[main'.req.id] = "none"
    BY <1>3, <1>4, <1>5, <1>6, <1>7, <1>9, <1>12, SMTT(30) DEF IdsGrow
  <2>4. server'.pc # "answer"
    BY <1>2, <1>3
  <2> QED BY <2>1, <2>2, <2>3, <2>4 DEF IdsGrow, Client!Ids
<1>14. AcksTrue'
  <2>1. \A a : AckTrue(a) => AckTrue(a)'
    BY <1>3, <1>4, <1>5, <1>7, <1>9, <1>12, SMTT(30) DEF AckTrue
  <2> QED BY <1>3, <1>9, <2>1 DEF AcksTrue
<1>15. SignedOutAtMenu'
  BY <1>1, <1>3, <1>6, <1>7, <1>9 DEF SignedOutAtMenu
<1> QED BY <1>10, <1>11, <1>13, <1>14, <1>15

\* Other inputs of the user change at most the place of the main thread and use up
\* at most one number.
LEMMA ClientElsewise == ASSUME ClientInv, Client!Elsewise PROVE ClientInv'
<1> USE DEF ClientInv, Client!Elsewise, Client!Goto, Client!shared
<1>1. /\ main'.req = main.req /\ main'.answer = main.answer /\ main' \in [pc : MainPcs, req : RequestType, answer : Response]
      /\ main.pc \in {"menuPrompt", "peerPrompt", "chatPrompt"}
      /\ main'.pc \in {"stop", "menu", "peerPrompt", "chat", "peers"}
      /\ main'.pc = "menu" => main.pc = "menuPrompt"
  BY DEF ClientTypeOK, MainPcs
<1>2. /\ inputs \in Nat /\ inputs < MaxInputs /\ inputs' = inputs + 1 /\ nextId \in Nat
      /\ nextId' \in {nextId, nextId + 1}
      /\ UNCHANGED <<requests, responses, server, running, ack, ackReady, served>>
  BY DEF ClientTypeOK
<1>3. ~Outstanding
  BY <1>1 DEF OneRequest
<1>4. ClientTypeOK'
  BY <1>1, <1>2 DEF ClientTypeOK
<1>5. OneRequest'
  BY <1>1, <1>2, <1>3 DEF OneRequest, Outstanding
<1>6. main.req.id \in Nat
  BY DEF ClientTypeOK, RequestType
<1>7. IdsGrow'
  BY <1>1, <1>2, <1>3, <1>6 DEF IdsGrow, Outstanding, Client!Ids
<1>8. AcksTrue'
  BY <1>1, <1>2 DEF AcksTrue, AckTrue, Outstanding
<1>9. SignedOutAtMenu'
  BY <1>1, <1>2 DEF SignedOutAtMenu
<1> QED BY <1>4, <1>5, <1>7, <1>8, <1>9

\* The main thread takes the acknowledgement of its own request, which is then no
\* longer outstanding, and goes back to the menu only if that request did not sign in.
LEMMA ClientCheck == ASSUME ClientInv, Client!Check PROVE ClientInv'
<1> USE DEF ClientInv, Client!Check, Client!shared
<1>1. UNCHANGED <<requests, responses, server, running, nextId, inputs, served>> /\ main.pc = "check"
  OBVIOUS
<1>2. CASE main' = [main EXCEPT !.pc = "stop"] /\ UNCHANGED <<ack, ackReady>>
  <2>1. /\ main'.pc = "stop" /\ main'.req = main.req /\ main'.answer = main.answer
        /\ main' \in [pc : MainPcs, req : RequestType, answer : Response]
    BY <1>2 DEF ClientTypeOK, MainPcs
  <2> QED BY <1>1, <1>2, <2>1 DEF ClientTypeOK, OneRequest, Outstanding, IdsGrow, AcksTrue, AckTrue, SignedOutAtMenu
<1>3. CASE main' = [main EXCEPT !.pc = "asleep"] /\ UNCHANGED <<ack, ackReady>>
  <2>1. /\ main'.pc = "asleep" /\ main'.req = main.req /\ main'.answer = main.answer
        /\ main' \in [pc : MainPcs, req : RequestType, answer : Response]
    BY <1>3 DEF ClientTypeOK, MainPcs
  <2> QED BY <1>1, <1>3, <2>1 DEF ClientTypeOK, OneRequest, Outstanding, IdsGrow, AcksTrue, AckTrue, SignedOutAtMenu
<1>4. CASE /\ running /\ Client!Answered
           /\ main' = [main EXCEPT !.pc = Client!Continue(main.req.type, ack.status), !.answer = ack]
           /\ ackReady' = FALSE /\ ack' = Client!NoResponse
  <2> DEFINE pc == Client!Continue(main.req.type, ack.status)
  <2>1. AckTrue(ack) /\ ack.id = main.req.id
    BY <1>4 DEF AcksTrue, Client!Answered
  <2>2. ~Outstanding
    BY <2>1 DEF AckTrue, ClientTypeOK, RequestType
  <2>3. /\ pc \in MainPcs /\ (pc = "menu" => ~server.auth) /\ pc # "menuPrompt"
    BY <2>1 DEF Client!Continue, MainPcs, AckTrue, SignedOutAtMenu, Client!AuthTypes
  <2> HIDE DEF pc
  <2>4. /\ main'.pc = pc /\ main'.req = main.req /\ main'.answer = ack
        /\ main' \in [pc : MainPcs, req : RequestType, answer : Response]
    BY <1>4, <2>3 DEF ClientTypeOK, pc
  <2>5. Client!NoResponse \in Response
    BY DEF Client!NoResponse, Response
  <2>6. ClientTypeOK'
    BY <1>1, <1>4, <2>4, <2>5 DEF ClientTypeOK
  <2>7. OneRequest' /\ IdsGrow'
    BY <1>1, <2>2, <2>4 DEF OneRequest, IdsGrow, Outstanding
  <2>8. AcksTrue'
    <3>1. \A a : AckTrue(a) => AckTrue(a)'
      BY <1>1, <2>4 DEF AckTrue, Outstanding
    <3> QED BY <1>1, <1>4, <2>1, <2>4, <3>1 DEF AcksTrue
  <2>9. SignedOutAtMenu'
    BY <1>1, <2>3, <2>4 DEF SignedOutAtMenu
  <2> QED BY <2>6, <2>7, <2>8, <2>9
<1> QED BY <1>2, <1>3, <1>4

\* A flag that is kept or cleared.
LEMMA FalseOrSame ==
    ASSUME NEW x \in BOOLEAN, NEW y, y = x \/ y = FALSE
    PROVE  y \in BOOLEAN /\ (y => x)
<1>1. CASE y = x
  BY <1>1
<1>2. CASE y = FALSE
  BY <1>2
<1> QED BY <1>1, <1>2

\* What a sequence and its tail have in common.
LEMMA SeqParts ==
    ASSUME NEW T, NEW s \in Seq(T), s # <<>>
    PROVE  /\ Tail(s) \in Seq(T)
           /\ \A k \in DOMAIN Tail(s) : k + 1 \in DOMAIN s /\ Tail(s)[k] = s[k + 1]
           /\ 1 \in DOMAIN s /\ Head(s) = s[1] /\ Head(s) \in T
  OBVIOUS

\* The receiver thread puts an acknowledgement into the slot and wakes the main
\* thread, or ends.
LEMMA ReceiverMoves ==
    ASSUME ClientInv, Client!Receive \/ Client!Decrypted \/ Client!ReceiverEnds
    PROVE  ClientInv'
<1> USE DEF ClientInv, Client!Receive, Client!Decrypted, Client!ReceiverEnds, Client!Broadcast, Client!shared
<1>1. /\ UNCHANGED <<requests, server, nextId, inputs, served>>
      /\ main'.req = main.req /\ main'.answer = main.answer
      /\ main' \in [pc : MainPcs, req : RequestType, answer : Response]
      /\ main'.pc = main.pc \/ (main.pc = "asleep" /\ main'.pc = "check")
      /\ running' \in BOOLEAN /\ (running' => running)
  <2>1. main' = main \/ (main.pc = "asleep" /\ main' = [main EXCEPT !.pc = "check"])
    OBVIOUS
  <2>2. UNCHANGED <<requests, server, nextId, inputs, served>> /\ (running' = running \/ running' = FALSE)
    OBVIOUS
  <2>3. running' \in BOOLEAN /\ (running' => running)
    <3>1. running \in BOOLEAN
      BY DEF ClientTypeOK
    <3> QED BY <2>2, <3>1, FalseOrSame
  <2>4. CASE main' = main
    BY <2>2, <2>3, <2>4 DEF ClientTypeOK
  <2>5. CASE main.pc = "asleep" /\ main' = [main EXCEPT !.pc = "check"]
    BY <2>2, <2>3, <2>5 DEF ClientTypeOK, MainPcs
  <2> QED BY <2>1, <2>4, <2>5
<1>2. \/ UNCHANGED <<responses, ack, ackReady>>
      \/ /\ responses # <<>> /\ responses' = Tail(responses)
         /\ \/ UNCHANGED <<ack, ackReady>>
            \/ Head(responses).type = "ack" /\ ack' = Head(responses) /\ ackReady'
  BY DEF Client!IsAck
<1>3. /\ responses' \in Seq(Response)
      /\ \A k \in DOMAIN responses' : \E n \in DOMAIN responses : responses'[k] = responses[n]
      /\ responses # <<>> => /\ 1 \in DOMAIN responses
                            /\ Head(responses) = responses[1] /\ Head(responses) \in Response
  <2>1. responses \in Seq(Response)
    BY DEF ClientTypeOK
  <2>2. CASE responses' = responses
    BY <2>1, <2>2, SeqParts
  <2>3. CASE responses # <<>> /\ responses' = Tail(responses)
    BY <2>1, <2>3, SeqParts
  <2> QED BY <1>2, <2>2, <2>3
<1>4. ackReady' \in BOOLEAN
  BY DEF ClientTypeOK
<1>5. ClientTypeOK'
  BY <1>1, <1>2, <1>3, <1>4 DEF ClientTypeOK
<1>6. OneRequest' /\ IdsGrow'
  BY <1>1 DEF OneRequest, IdsGrow, Outstanding
<1>7. AcksTrue'
  <2>1. \A a : AckTrue(a) => AckTrue(a)'
    BY <1>1 DEF AckTrue, Outstanding
  <2> QED BY <1>1, <1>2, <1>3, <2>1 DEF AcksTrue
<1>8. SignedOutAtMenu'
  BY <1>1 DEF SignedOutAtMenu
<1> QED BY <1>5, <1>6, <1>7, <1>8

\* The server takes the one request there is.
LEMMA ClientServe == ASSUME ClientInv, Client!Serve PROVE ClientInv'
<1> USE DEF ClientInv, Client!shared
<1>1. PICK status \in Client!Statuses(Head(requests).type, server.auth) :
        /\ server' = [pc |-> "answer", req |-> Head(requests), status |-> status,
                      auth |-> IF Head(requests).type # "login" \/ status = "already-online" THEN server.auth
                               ELSE status = "ok"]
        /\ served' = [served EXCEPT ![Head(requests).id] = status]
  BY DEF Client!Serve
<1>2. /\ server.pc = "read" /\ requests # <<>> /\ requests' = Tail(requests)
      /\ UNCHANGED <<responses, main, running, ack, ackReady, nextId, inputs>>
  BY DEF Client!Serve
<1>3. requests = <<main.req>> /\ Head(requests) = main.req /\ requests' = <<>>
  BY <1>2 DEF OneRequest
<1>4. status \in Statuses
  BY DEF Client!Statuses, Statuses
<1>5. /\ main.req.id \in Client!Ids /\ served'[main.req.id] = status
      /\ \A i \in Client!Ids : i # main.req.id => served'[i] = served[i]
      /\ served' \in [Client!Ids -> Statuses \cup {"none"}]
  BY <1>1, <1>2, <1>3, <1>4 DEF IdsGrow, Outstanding, ClientTypeOK
<1>6. main.req \in RequestType /\ main.req.id \in Nat /\ server.auth \in BOOLEAN
  BY DEF ClientTypeOK, RequestType
<1>7. /\ server'.pc = "answer" /\ server'.req = main.req /\ server'.status = status
      /\ server'.auth = IF main.req.type # "login" \/ status = "already-online" THEN server.auth
                        ELSE status = "ok"
  BY <1>1, <1>3
<1>8. ClientTypeOK'
  <2>1. server'.auth \in BOOLEAN
    BY <1>6, <1>7, Zenon
  <2>2. server' \in [pc : {"read", "answer", "closed"}, auth : BOOLEAN, req : RequestType,
                     status : Statuses \cup {"none"}]
    BY <1>1, <1>3, <1>4, <1>6, <2>1
  <2> QED BY <1>2, <1>3, <1>5, <2>2 DEF ClientTypeOK
<1>9. main.pc \in {"check", "asleep", "stop", "join", "exit", "killed"}
  BY <1>2 DEF OneRequest, Outstanding
<1>10. OneRequest'
  BY <1>2, <1>3, <1>7, <1>9 DEF OneRequest, Outstanding
<1>11. \A i \in Client!Ids : i \in Nat
  BY DEF Client!Ids
<1>12. IdsGrow'
  BY <1>2, <1>3, <1>5, <1>6, <1>7, <1>11 DEF IdsGrow, Outstanding, Client!Ids
<1>13. AcksTrue'
  <2>1. \A a : AckTrue(a) => AckTrue(a)'
    BY <1>2, <1>5, <1>6, <1>7, <1>11 DEF AckTrue, Outstanding
  <2> QED BY <1>2, <2>1 DEF AcksTrue
<1>14. SignedOutAtMenu'
  <2>1. main.req.type \in Client!AuthTypes => ~server.auth
    BY <1>2 DEF IdsGrow, SignedOutAtMenu
  <2> QED BY <1>2, <1>5, <1>7, <1>9, <2>1 DEF SignedOutAtMenu, Client!AuthTypes
<1> QED BY <1>8, <1>10, <1>12, <1>13, <1>14

\* The server acknowledges, ends, or relays another user's message; the connection
\* breaks.
LEMMA ServerMoves ==
    ASSUME ClientInv, Client!SendAck \/ Client!EndOfStream \/ Client!Deliver \/ Client!Break
    PROVE  ClientInv'
<1> USE DEF ClientInv, Client!shared
<1>1. /\ UNCHANGED <<main, running, ack, ackReady, nextId, inputs, served>>
      /\ server'.auth = server.auth /\ server'.req = server.req /\ server'.status = server.status
      /\ server' \in [pc : {"read", "answer", "closed"}, auth : BOOLEAN, req : RequestType,
                       status : Statuses \cup {"none"}]
      /\ requests' = requests \/ requests' = <<>>
      /\ server'.pc = server.pc \/ (server'.pc = "closed" /\ requests' = <<>>)
           \/ (server.pc = "answer" /\ server'.pc = "read")
  BY DEF ClientTypeOK, OneRequest, Client!SendAck, Client!EndOfStream, Client!Deliver, Client!Break
<1>2. Outstanding' => Outstanding
  BY <1>1 DEF Outstanding
<1>3. \A a : AckTrue(a) => AckTrue(a)'
  BY <1>1, <1>2 DEF AckTrue
<1>4. /\ responses' \in Seq(Response)
      /\ \A k \in DOMAIN responses' : responses'[k].type = "ack" => AckTrue(responses[k])'
  <2> USE DEF ClientTypeOK
  <2>1. CASE Client!SendAck
    <3>1. PICK new \in Response : new = [type |-> "ack", id |-> server.req.id, status |-> server.status]
      BY DEF Response, RequestType
    <3>2. AckTrue(new)'
      <4>1. ~Outstanding' /\ server.pc = "answer" /\ server.req = main.req
        BY <2>1 DEF Client!SendAck, Outstanding, OneRequest
      <4> QED BY <1>1, <3>1, <4>1 DEF AckTrue, IdsGrow, Outstanding, RequestType, Client!Ids
    <3>3. responses' = Append(responses, new)
      BY <2>1, <3>1 DEF Client!SendAck
    <3> QED BY <1>3, <3>2, <3>3 DEF AcksTrue
  <2>2. CASE Client!Deliver
    <3>1. PICK new \in Response : responses' = Append(responses, new) /\ new.type # "ack"
      <4>1. PICK id \in Client!Ids :
              responses' = Append(responses, [type |-> "delivery", id |-> id, status |-> "ok"])
        BY <2>2 DEF Client!Deliver
      <4>2. [type |-> "delivery", id |-> id, status |-> "ok"] \in Response
        BY DEF Response, Statuses, Client!Ids
      <4> QED BY <4>1, <4>2
    <3> QED BY <1>3, <3>1 DEF AcksTrue
  <2>3. CASE responses' = responses
    BY <1>3, <2>3 DEF AcksTrue
  <2>4. CASE responses' = <<>>
    BY <2>4
  <2> QED BY <2>1, <2>2, <2>3, <2>4 DEF Client!EndOfStream, Client!Break
<1>5. ClientTypeOK'
  <2>1. requests' \in Seq(RequestType)
    <3>1. requests \in Seq(RequestType) /\ <<>> \in Seq(RequestType)
      BY DEF ClientTypeOK
    <3> QED BY <1>1, <3>1
  <2> QED BY <1>1, <1>4, <2>1 DEF ClientTypeOK
<1>6. OneRequest' /\ IdsGrow'
  BY <1>1, <1>2 DEF OneRequest, IdsGrow, Outstanding
<1>7. AcksTrue'
  BY <1>1, <1>3, <1>4 DEF AcksTrue
<1>8. SignedOutAtMenu'
  BY <1>1 DEF SignedOutAtMenu
<1> QED BY <1>5, <1>6, <1>7, <1>8

\* The inductive invariant of the terminal client.
LEMMA ClientInvariant == Client!Spec => []ClientInv
<1>1. ClientInv /\ [Client!Next]_(Client!vars) => ClientInv'
  <2> SUFFICES ASSUME ClientInv, [Client!Next]_(Client!vars) PROVE ClientInv'
    OBVIOUS
  <2>1. CASE UNCHANGED Client!vars
    BY <2>1 DEF ClientInv, ClientTypeOK, OneRequest, IdsGrow, AcksTrue, AckTrue, SignedOutAtMenu, Outstanding,
              Client!vars, Client!shared
  <2>2. CASE Client!Next
    BY <2>1, <2>2, MainMoves, ClientSubmit, ClientElsewise, ClientCheck, ReceiverMoves, ClientServe, ServerMoves
       DEF Client!Next, Client!MainStep, Client!ReceiverStep, Client!ServerStep, Client!Over
  <2> QED BY <2>1, <2>2
<1> QED BY <1>1, ClientInit, PTL DEF Client!Spec

\* What the terminal reports is what the server did with that request, for any number
\* of inputs and deliveries.
THEOREM AnswersAreTrue == Client!Spec => []AnswerIsTrue
<1>1. ClientInv => AnswerIsTrue
  BY DEF ClientInv, AcksTrue, AckTrue, AnswerIsTrue, Client!AnswerIsTrue
<1> QED BY <1>1, ClientInvariant, PTL

\* The terminal client never asks to sign in or register on a connection that is
\* signed in, whatever fails or is refused.
THEOREM OneLoginPerConnection == Client!Spec => []NoSecondLogin
<1>1. ClientInv => NoSecondLogin
  BY DEF ClientInv, OneRequest, IdsGrow, SignedOutAtMenu, NoSecondLogin, Client!NoSecondLogin, Client!AuthTypes,
         ClientTypeOK
<1> QED BY <1>1, ClientInvariant, PTL

-----------------------------------------------------------------------------
(* The processor and its driver.                                           *)

Payload == Calls \cup {NoCall, Blank, Torn}
Pcs == {"idle", "write", "filling", "filled", "readId", "readPayload", "reply", "failed", "lost", "done"}

ProcessorTypeOK ==
    /\ thread \in [Calls -> Pcs]
    /\ response \in [id : Payload, payload : Payload]
    /\ copy \in [Calls -> [id : Payload, payload : Payload]]
    /\ outcome \in [Calls -> [state : {"none", "pending", "error", "ok"}, payload : Payload]]
    /\ overlap \in BOOLEAN

\* While no two threads meet in the device, the one that is there reads what it has
\* written, and carries it to its caller.
Alone ==
    ~overlap =>
      /\ \A j, k \in Calls : Processor!InDevice(j) /\ Processor!InDevice(k) => j = k
      /\ \A j \in Calls :
           /\ thread[j] \in {"readId", "readPayload"} => response.payload = j
           /\ thread[j] = "reply" => copy[j].payload = j
           /\ outcome[j].state = "ok" => outcome[j].payload = j

ProcessorInv == ProcessorTypeOK /\ Alone

\* No call was made yet.
LEMMA ProcessorInit == Processor!Init => ProcessorInv
<1> SUFFICES ASSUME Processor!Init PROVE ProcessorInv
  OBVIOUS
<1> USE DEF Processor!Init
<1>1. Processor!Cleared \in [id : Payload, payload : Payload]
  BY DEF Processor!Cleared, Payload
<1>2. Processor!NotCalled \in [state : {"none", "pending", "error", "ok"}, payload : Payload]
  BY DEF Processor!NotCalled, Payload
<1>3. ProcessorTypeOK
  BY <1>1, <1>2 DEF ProcessorTypeOK, Pcs
<1>4. \A j \in Calls : thread[j] = "idle" /\ outcome[j].state = "none"
  BY DEF Processor!NotCalled
<1>5. Alone
  BY <1>4 DEF Alone, Processor!InDevice
<1> QED BY <1>3, <1>5 DEF ProcessorInv

\* A call is submitted: if it finds another one in the device, they overlap.
LEMMA SubmitAlone ==
    ASSUME ProcessorInv, NEW j \in Calls, Processor!Submit(j)
    PROVE  ProcessorInv'
<1> USE DEF ProcessorInv, ProcessorTypeOK, Processor!Submit, Processor!Move
<1>1. ProcessorTypeOK'
  BY DEF Processor!Pending, Payload, Pcs
<1>2. Alone'
  <2>1. \A k \in Calls : k # j => thread'[k] = thread[k] /\ outcome'[k] = outcome[k]
    OBVIOUS
  <2>2. thread'[j] \in {"failed", "lost", "write"} /\ outcome'[j].state = "pending"
    BY DEF Processor!Pending
  <2>3. response' = response /\ copy' = copy
    OBVIOUS
  <2>4. /\ ~overlap' => ~overlap
        /\ ~overlap' /\ thread'[j] = "write" => \A k \in Calls : ~Processor!InDevice(k)
    OBVIOUS
  <2> QED BY ONLY <2>1, <2>2, <2>3, <2>4, ProcessorInv DEF ProcessorInv, Alone, Processor!InDevice
<1> QED BY <1>1, <1>2

\* The steps in the device.
LEMMA DeviceAlone ==
    ASSUME ProcessorInv, NEW j \in Calls,
           \/ Processor!WriteLock(j) \/ Processor!WriteFault(j) \/ Processor!WriteHeader(j)
           \/ Processor!WritePayload(j) \/ Processor!ReadId(j) \/ Processor!ReadPayload(j)
           \/ Processor!Lose(j)
    PROVE  ProcessorInv'
<1> USE DEF ProcessorInv, ProcessorTypeOK, Processor!Move, Processor!WriteLock, Processor!WriteFault,
            Processor!WriteHeader, Processor!WritePayload, Processor!ReadId, Processor!ReadPayload,
            Processor!Lose, Processor!Cleared
<1>1. ProcessorTypeOK'
  BY DEF Payload, Pcs
<1>2. Alone'
  <2> SUFFICES ASSUME ~overlap PROVE Alone'
    BY DEF Alone
  <2> USE DEF Alone, Processor!InDevice
  <2>1. CASE Processor!WriteLock(j)
    BY <2>1
  <2>2. CASE Processor!WriteFault(j)
    BY <2>2
  <2>3. CASE Processor!WriteHeader(j)
    BY <2>3
  <2>4. CASE Processor!WritePayload(j)
    BY <2>4
  <2>5. CASE Processor!ReadId(j)
    BY <2>5
  <2>6. CASE Processor!ReadPayload(j)
    <3>1. \A k \in Calls : thread[k] \notin {"filling", "filled"}
      BY <2>6
    <3>2. copy' = [copy EXCEPT ![j].payload = j]
      BY <2>6, <3>1
    <3> QED BY <2>6, <3>2
  <2>7. CASE Processor!Lose(j)
    BY <2>7
  <2> QED BY <2>1, <2>2, <2>3, <2>4, <2>5, <2>6, <2>7
<1> QED BY <1>1, <1>2

\* The steps that settle a promise.
LEMMA SettleAlone ==
    ASSUME ProcessorInv, NEW j \in Calls,
           Processor!Receive(j) \/ Processor!ReceiveError(j) \/ Processor!Timeout(j)
    PROVE  ProcessorInv'
<1> USE DEF ProcessorInv, ProcessorTypeOK, Processor!Move, Processor!Receive, Processor!ReceiveError,
            Processor!Timeout, Processor!Settle, Processor!Resolved, Processor!Rejected
<1>1. ProcessorTypeOK'
  BY DEF Payload, Pcs
<1>2. Alone'
  <2> SUFFICES ASSUME ~overlap PROVE Alone'
    BY DEF Alone
  <2>1. \A k \in Calls : thread'[k] = IF k = j THEN thread'[j] ELSE thread[k]
    OBVIOUS
  <2>2. thread'[j] \in {thread[j], "done"}
    OBVIOUS
  <2>3. response' = response /\ copy' = copy
    OBVIOUS
  <2>4. outcome'[j].state = "ok" => outcome'[j].payload = j
    BY DEF Alone
  <2>5. \A k \in Calls : k # j => outcome'[k] = outcome[k]
    OBVIOUS
  <2> QED BY <2>1, <2>2, <2>3, <2>4, <2>5 DEF Alone, Processor!InDevice
<1> QED BY <1>1, <1>2

\* The inductive invariant of the processor.
LEMMA ProcessorInvariant == Processor!Spec => []ProcessorInv
<1>1. ProcessorInv /\ [Processor!Next]_(Processor!vars) => ProcessorInv'
  <2> SUFFICES ASSUME ProcessorInv, [Processor!Next]_(Processor!vars) PROVE ProcessorInv'
    OBVIOUS
  <2>1. CASE UNCHANGED Processor!vars
    BY <2>1 DEF ProcessorInv, ProcessorTypeOK, Alone, Processor!InDevice, Processor!vars
  <2>2. CASE Processor!Next
    BY <2>1, <2>2, SubmitAlone, DeviceAlone, SettleAlone DEF Processor!Next, Processor!ThreadStep, Processor!Over
  <2> QED BY <2>1, <2>2
<1> QED BY <1>1, ProcessorInit, PTL DEF Processor!Spec

\* As long as no two threads use the device at the same time, every call gets its own
\* result, for any number of calls.
THEOREM UncontendedCallsMatch == Processor!Spec => []SoloAnswersMatch
<1>1. ProcessorInv => SoloAnswersMatch
  BY DEF ProcessorInv, Alone, SoloAnswersMatch, Processor!SoloAnswersMatch, Processor!AnswersMatch
<1> QED BY <1>1, ProcessorInvariant, PTL
===============================================================================

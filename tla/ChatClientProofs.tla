-------------------------- MODULE ChatClientProofs --------------------------
(***************************************************************************)
(* Who hears a conversation's room, when the composer is given back, and   *)
(* what the thread shows, for any number of conversations, messages, calls *)
(* and moves, and any page size.                                           *)
(***************************************************************************)
EXTENDS ChatClient, SortingProofs, SequenceTheorems

\* RoomsEarned is not inductive: a join must find the active conversations among
\* those of this connection, and a closed connection must be in no room.
Earned ==
    /\ rooms \subseteq tenure
    /\ link => active \subseteq tenure
    /\ ~link => rooms = {}

\* The page starts without a connection.
LEMMA InitEarned == Init => Earned
BY DEF Init, Earned

\* Steps that change neither the connection nor who is in a room, and take no
\* conversation away from those of this connection.
LEMMA RoomsUntouched ==
    ASSUME Earned, UNCHANGED <<rooms, link, tenure>>, active' \subseteq active
    PROVE Earned'
BY DEF Earned

\* No step admits to a room a connection during which the user was never an
\* active participant.
LEMMA NextEarned == Earned /\ [Next]_vars => Earned'
<1> SUFFICES ASSUME Earned, [Next]_vars PROVE Earned'
    OBVIOUS
<1>1. ASSUME NEW c \in Convs, SelectConversation(c) PROVE Earned'
    BY <1>1, RoomsUntouched DEF SelectConversation, gatewayVars
<1>2. ASSUME NEW c \in Convs, Others(c) PROVE Earned'
    <2>1. CASE AddMe(c)
        BY <2>1 DEF AddMe, Earned
    <2>2. CASE RemoveMe(c)
        BY <2>2, RoomsUntouched DEF RemoveMe
    <2>3. CASE OtherReads(c)
        BY <2>3, RoomsUntouched DEF OtherReads
    <2>4. CASE OtherSends(c)
        BY <2>4, RoomsUntouched DEF OtherSends
    <2>5. QED BY <1>2, <2>1, <2>2, <2>3, <2>4 DEF Others
<1>3. ASSUME NEW s \in Calls, Send(s) \/ CallTimeout(s) PROVE Earned'
    BY <1>3, RoomsUntouched DEF Send, CallTimeout
<1>4. CASE LoadMore
    BY <1>4, RoomsUntouched DEF LoadMore, gatewayVars
<1>5. CASE Leave \/ LeaveFailed
    BY <1>5 DEF Leave, LeaveFailed, Earned
<1>6. CASE Connect
    BY <1>6 DEF Connect, Accept, Earned
<1>7. CASE ConnectRefused
    BY <1>7, RoomsUntouched DEF ConnectRefused, gatewayVars
<1>8. CASE Disconnect
    BY <1>8 DEF Disconnect, Drop, Earned
<1>9. ASSUME NEW j \in jobs, Published(j) PROVE Earned'
    BY <1>9, RoomsUntouched DEF Published, Publish
<1>10. ASSUME NEW y \in syncs, SyncRooms(y) PROVE Earned'
    BY <1>10 DEF SyncRooms, MayJoin, Earned
<1>11. ASSUME NEW y \in syncs, SyncTimeout(y) PROVE Earned'
    BY <1>11, RoomsUntouched DEF SyncTimeout, gatewayVars
<1>12. ASSUME NEW f \in fetches, Arrive(f) \/ FetchFailed(f) PROVE Earned'
    BY <1>12, RoomsUntouched DEF Arrive, FetchFailed, gatewayVars
<1>13. CASE MessageDelivered \/ ConversationRead \/ SendAnswered \/ LateAck
    BY <1>13, RoomsUntouched DEF MessageDelivered, ConversationRead, SendAnswered, LateAck
<1>14. CASE UNCHANGED vars
    BY <1>14, RoomsUntouched DEF vars, gatewayVars
<1>15. QED
    BY <1>1, <1>2, <1>3, <1>4, <1>5, <1>6, <1>7, <1>8, <1>9, <1>10, <1>11, <1>12, <1>13, <1>14
    DEF Next

\* A connection is in a conversation's room only if its user was an active
\* participant while it was open.
THEOREM RoomsAreEarned == Spec => []RoomsEarned
<1>1. Earned => RoomsEarned
    BY DEF Earned, RoomsEarned
<1>2. QED BY <1>1, InitEarned, NextEarned, PTL DEF Spec
-----------------------------------------------------------------------------
(* The sorts.                                                              *)

\* A page is sorted: every message of it once, in the order of storing.
LEMMA SortedPage ==
    ASSUME NEW page, page \subseteq Nat, IsFiniteSet(page)
    PROVE  /\ Sorted(page) \in Seq(page)
           /\ Len(Sorted(page)) = Cardinality(page)
           /\ \A i, j \in 1 .. Cardinality(page) : i < j => Sorted(page)[i] < Sorted(page)[j]
           /\ ToSet(Sorted(page)) = page
<1> DEFINE n == Cardinality(page)
           R == {w \in page \X page : w[1] < w[2]}
           OK(s) == \A i, j \in DOMAIN s : i < j => s[i] < s[j]
<1>1. n \in Nat
    BY FS_CardinalityType
<1>2. StrictOrder(R, page)
    BY DEF StrictOrder
<1>3. PICK s : Lists(s, n, page, R)
    BY <1>2, SortExists
<1>4. s \in [1 .. n -> page] /\ OK(s)
    BY <1>3 DEF Lists
<1>5. Sorted(page) \in [1 .. n -> page] /\ OK(Sorted(page))
    <2>1. \E x \in [1 .. n -> page] : OK(x)
        BY <1>4
    <2>2. Sorted(page) = CHOOSE x \in [1 .. n -> page] : OK(x)
        BY DEF Sorted
    <2>3. QED BY <2>1, <2>2
<1> DEFINE q == Sorted(page)
<1> HIDE DEF q
<1>6. q \in [1 .. n -> page] /\ OK(q)
    BY <1>5 DEF q
<1>7. q \in Seq(page) /\ Len(q) = n /\ DOMAIN q = 1 .. n
    BY <1>1, <1>6
<1>8. \A i, j \in 1 .. n : i < j => q[i] < q[j]
    BY <1>6, <1>7
<1>9. ASSUME NEW i \in 1 .. n, NEW j \in 1 .. n, q[i] = q[j] PROVE i = j
    <2>1. q[i] \in Nat /\ q[j] \in Nat
        BY <1>6
    <2>2. ~(i < j) /\ ~(j < i)
        BY <1>8, <1>9, <2>1
    <2>3. i \in Int /\ j \in Int
        BY <1>1
    <2>4. QED BY <2>2, <2>3
<1>10. q \in Injection(1 .. n, page)
    BY <1>6, <1>9 DEF Injection, IsInjective
<1>11. q \in Surjection(1 .. n, page)
    <2>1. Cardinality(1 .. n) = n
        BY <1>1, FS_Interval
    <2>2. QED BY <1>10, <2>1, FS_Injection
<1>12. ToSet(q) = page
    BY <1>6, <1>7, <1>11 DEF ToSet, Surjection
<1>13. QED BY <1>7, <1>8, <1>12 DEF q

\* Array.prototype.sort rearranges the thread by time.
LEMMA ChronologicalSorts ==
    ASSUME NEW S, NEW t \in Seq(S), \A x \in S : At(x) \in Nat
    PROVE  /\ Chronological(t) \in Seq(S) /\ Len(Chronological(t)) = Len(t)
           /\ \A i, j \in 1 .. Len(t) : i < j => At(Chronological(t)[i]) <= At(Chronological(t)[j])
           /\ \E p \in [1 .. Len(t) -> 1 .. Len(t)] :
                /\ \A i, j \in 1 .. Len(t) : p[i] = p[j] => i = j
                /\ \A k \in 1 .. Len(t) : \E i \in 1 .. Len(t) : p[i] = k
                /\ \A i \in 1 .. Len(t) : Chronological(t)[i] = t[p[i]]
<1> DEFINE n == Len(t)
           D == 1 .. n
           before(i, j) == At(t[i]) < At(t[j]) \/ (At(t[i]) = At(t[j]) /\ i < j)
           R == {w \in D \X D : before(w[1], w[2])}
           OK(p) == \A i, j \in D : i < j => before(p[i], p[j])
           order == CHOOSE p \in [D -> D] : OK(p)
<1>1. n \in Nat /\ DOMAIN t = D /\ \A i \in D : t[i] \in S /\ At(t[i]) \in Nat
    OBVIOUS
<1>2. Chronological(t) = [k \in D |-> t[order[k]]]
    BY <1>1 DEF Chronological
<1>3. StrictOrder(R, D)
    <2>1. \A x \in D : ~before(x, x)
        BY <1>1
    <2>2. \A x, y \in D : x # y => before(x, y) \/ before(y, x)
        BY <1>1
    <2>3. \A x, y, z \in D : before(x, y) /\ before(y, z) => before(x, z)
        BY <1>1
    <2>4. \A x, y \in D : <<x, y>> \in R <=> before(x, y)
        OBVIOUS
    <2> HIDE DEF R, before, D
    <2>5. QED BY <2>1, <2>2, <2>3, <2>4 DEF StrictOrder
<1>4. IsFiniteSet(D) /\ Cardinality(D) = n
    <2>1. IsFiniteSet(1 .. n) /\ Cardinality(1 .. n) = IF 1 > n THEN 0 ELSE n - 1 + 1
        BY <1>1, FS_Interval
    <2>2. QED BY <1>1, <2>1
<1>5. PICK s : Lists(s, n, D, R)
    BY <1>3, <1>4, SortExists
<1>6. s \in [D -> D] /\ OK(s)
    <2>1. s \in [D -> D] /\ \A i, j \in D : i < j => <<s[i], s[j]>> \in R
        BY <1>5 DEF Lists
    <2>2. QED BY <2>1
<1>7. order \in [D -> D] /\ OK(order)
    <2>1. \E p \in [D -> D] : OK(p)
        BY <1>6
    <2> HIDE DEF OK
    <2>2. QED BY <2>1
<1> HIDE DEF order
<1>8. ASSUME NEW i \in D, NEW j \in D, i < j
      PROVE  At(t[order[i]]) <= At(t[order[j]]) /\ order[i] # order[j]
    <2>1. order[i] \in D /\ order[j] \in D /\ before(order[i], order[j])
        BY <1>7, <1>8
    <2>2. QED BY <1>1, <2>1
<1>9. \A i, j \in D : order[i] = order[j] => i = j
    BY <1>1, <1>8
<1>10. order \in Surjection(D, D)
    <2>1. order \in Injection(D, D)
        BY <1>7, <1>9 DEF Injection, IsInjective
    <2>2. QED BY <1>4, <2>1, FS_Injection
<1>11. \A k \in D : \E i \in D : order[i] = k
    BY <1>10 DEF Surjection
<1> DEFINE c == Chronological(t)
<1>12. c = [k \in D |-> t[order[k]]]
    BY <1>2
<1> HIDE DEF c, before, R, OK
<1>13. c \in Seq(S) /\ Len(c) = n /\ \A i \in D : c[i] = t[order[i]]
    <2>1. \A k \in D : t[order[k]] \in S
        BY <1>1, <1>7
    <2>2. c \in [1 .. n -> S]
        BY <1>12, <2>1
    <2>3. QED BY <1>1, <1>12, <2>2
<1>14. \A i, j \in D : i < j => At(c[i]) <= At(c[j])
    BY <1>8, <1>13
<1>15. QED BY <1>7, <1>9, <1>11, <1>13, <1>14 DEF c

-----------------------------------------------------------------------------
(* Types.                                                                  *)

Message == [conv : Convs, at : Nat, own : BOOLEAN]
Event == [t : {"message_delivered", "conversation_read_updated", "ack"}, id : Nat, conv : Convs,
          call : Calls \cup {NoCall}, ok : BOOLEAN]
Page == [kind : {"load", "more", "refetch"}, conv : Convs, page : SUBSET Nat]

\* Messages are in the order of time.
MsgsOK ==
    /\ msgs \in Seq(Message) /\ Len(msgs) <= MaxMsgs
    /\ \A i \in Ids : At(i) <= i /\ \A j \in 1 .. i : At(j) <= At(i)

\* Events that deliver a message name it and its conversation; the others name none.
EventsOK(events) ==
    /\ events \in Seq(Event)
    /\ \A k \in 1 .. Len(events) :
         IF events[k].t = "message_delivered"
           THEN events[k].id \in Ids /\ events[k].conv = msgs[events[k].id].conv
                /\ events[k].call = NoCall
           ELSE events[k].id = 0

TypeOK ==
    /\ MsgsOK /\ EventsOK(inbox)
    /\ jobs \subseteq [call : Calls \cup {NoCall}, id : Nat] /\ \A j \in jobs : j.id \in Ids
    /\ active \subseteq Convs /\ selected \in Convs \cup {None}
    /\ thread \in Seq(Nat) /\ \A k \in 1 .. Len(thread) : thread[k] \in Ids
    /\ fetches \subseteq Page /\ \A f \in fetches : f.page = Refused \/ f.page \subseteq Ids
    /\ call \in [Calls -> [pc : {"idle", "sent"}, conv : Convs \cup {None}]]
    /\ link \in BOOLEAN /\ sending \in BOOLEAN /\ loading \in BOOLEAN /\ calm \in BOOLEAN

\* A message is added at the end, no earlier than the ones there are.
LEMMA CreateStep ==
    ASSUME TypeOK, NEW c \in Convs, NEW own \in BOOLEAN, NEW s \in Calls \cup {NoCall},
           Create(c, own, s)
    PROVE  /\ MsgsOK'
           /\ Len(msgs') = Len(msgs) + 1 /\ Len(msgs) \in Nat
           /\ \A i \in Ids : i \in Ids' /\ msgs'[i] = msgs[i]
           /\ Len(msgs) + 1 \in Ids'
           /\ msgs'[Len(msgs) + 1].conv = c /\ msgs'[Len(msgs) + 1].own = own
           /\ jobs' = jobs \cup {[call |-> s, id |-> Len(msgs) + 1]}
<1>1. msgs \in Seq(Message) /\ Len(msgs) \in Nat /\ Len(msgs) < MaxMsgs
    BY DEF TypeOK, MsgsOK, Create
<1>2. PICK at \in Instants : msgs' = Append(msgs, [conv |-> c, at |-> at, own |-> own])
    BY DEF Create
<1>3. at \in Nat /\ at <= Len(msgs) + 1 /\ \A i \in Ids : At(i) <= at
    <2>1. CASE msgs = <<>>
        BY <1>1, <1>2, <2>1 DEF Instants, Ids
    <2>2. CASE msgs # <<>>
        <3>1. Len(msgs) \in Ids /\ msgs[Len(msgs)] \in Message
            BY <1>1, <2>2 DEF Ids
        <3>2. At(Len(msgs)) \in Nat
            BY <3>1 DEF At, Message
        <3>3. at = At(Len(msgs)) \/ at = At(Len(msgs)) + 1
            BY <1>2, <2>2 DEF Instants
        <3>4. At(Len(msgs)) <= Len(msgs) /\ \A i \in 1 .. Len(msgs) : At(i) <= At(Len(msgs))
            BY <3>1 DEF TypeOK, MsgsOK
        <3>5. \A i \in Ids : At(i) \in Nat
            <4>1. \A i \in Ids : msgs[i] \in Message
                BY <1>1 DEF Ids
            <4>2. QED BY <4>1 DEF At, Message
        <3>6. QED BY <1>1, <3>2, <3>3, <3>4, <3>5 DEF Ids
    <2>3. QED BY <2>1, <2>2
<1> DEFINE m == [conv |-> c, at |-> at, own |-> own]
<1>4. m \in Message /\ m.at = at /\ m.conv = c /\ m.own = own
    BY <1>3 DEF Message
<1> HIDE DEF m
<1>5. /\ msgs' \in Seq(Message) /\ Len(msgs') = Len(msgs) + 1
      /\ msgs'[Len(msgs) + 1] = m /\ \A i \in 1 .. Len(msgs) : msgs'[i] = msgs[i]
    <2>1. msgs' = Append(msgs, m)
        BY <1>2 DEF m
    <2>2. QED BY <1>1, <1>4, <2>1, AppendProperties
<1>6. \A i \in Ids : i \in Ids' /\ msgs'[i] = msgs[i]
    BY <1>1, <1>5 DEF Ids
<1>7. MsgsOK'
    <2>1. Len(msgs') <= MaxMsgs
        BY <1>1, <1>5, HistoryAssumption
    <2>2. ASSUME NEW i \in Ids' PROVE (At(i)' <= i /\ \A j \in 1 .. i : At(j)' <= At(i)')
        <3>1. CASE i \in Ids
            <4>1. At(i)' = At(i) /\ \A j \in 1 .. i : j \in Ids /\ At(j)' = At(j)
                BY <1>1, <1>5, <3>1 DEF Ids, At
            <4>2. QED BY <3>1, <4>1 DEF TypeOK, MsgsOK
        <3>2. CASE i = Len(msgs) + 1
            <4>1. At(i)' = at
                BY <1>4, <1>5, <3>2 DEF At
            <4>2. \A j \in Ids : At(j)' = At(j)
                BY <1>6 DEF At
            <4>3. \A j \in 1 .. i : j \in Ids \/ j = i
                BY <1>1, <3>2 DEF Ids
            <4>4. QED BY <1>3, <3>2, <4>1, <4>2, <4>3
        <3>3. QED BY <1>1, <1>5, <3>1, <3>2 DEF Ids
    <2>3. QED BY <1>5, <2>1, <2>2 DEF MsgsOK
<1>8. Len(msgs) + 1 \in Ids' /\ jobs' = jobs \cup {[call |-> s, id |-> Len(msgs) + 1]}
    BY <1>1, <1>5 DEF Ids, Create
<1>9. QED BY <1>1, <1>4, <1>5, <1>6, <1>7, <1>8

\* What is emitted comes after what is on its way, or is lost.
LEMMA EmitStep ==
    ASSUME TypeOK, NEW events, EventsOK(events), Emit(events), UNCHANGED msgs
    PROVE  /\ EventsOK(inbox)'
           /\ inbox' = IF link THEN inbox \o events ELSE inbox
           /\ Len(inbox) \in Nat /\ Len(events) \in Nat
           /\ Len(inbox \o events) = Len(inbox) + Len(events)
           /\ \A k \in 1 .. Len(inbox) : (inbox \o events)[k] = inbox[k]
           /\ \A k \in 1 .. Len(events) : (inbox \o events)[Len(inbox) + k] = events[k]
           /\ \A k \in 1 .. Len(inbox) + Len(events) :
                k \in 1 .. Len(inbox) \/ (k > Len(inbox) /\ k - Len(inbox) \in 1 .. Len(events)
                                          /\ (inbox \o events)[k] = events[k - Len(inbox)])
<1> DEFINE q == inbox \o events
<1>1. inbox \in Seq(Event) /\ events \in Seq(Event)
    BY DEF TypeOK, EventsOK
<1>2. Len(inbox) \in Nat /\ Len(events) \in Nat
    BY <1>1
<1>3. /\ q \in Seq(Event) /\ Len(q) = Len(inbox) + Len(events)
      /\ \A i \in 1 .. Len(inbox) + Len(events) :
           q[i] = IF i <= Len(inbox) THEN inbox[i] ELSE events[i - Len(inbox)]
    BY <1>1, ConcatProperties
<1>4. inbox' = IF link THEN q ELSE inbox
    BY DEF Emit
<1> HIDE DEF q
<1>5. \A k \in 1 .. Len(inbox) : q[k] = inbox[k]
    BY <1>2, <1>3
<1>6. ASSUME NEW k \in 1 .. Len(events) PROVE q[Len(inbox) + k] = events[k]
    <2>1. Len(inbox) + k \in 1 .. Len(inbox) + Len(events) /\ ~(Len(inbox) + k <= Len(inbox))
          /\ (Len(inbox) + k) - Len(inbox) = k
        BY <1>2
    <2>2. QED BY <1>3, <2>1
<1>7. ASSUME NEW k \in 1 .. Len(inbox) + Len(events)
      PROVE  k \in 1 .. Len(inbox) \/ (k > Len(inbox) /\ k - Len(inbox) \in 1 .. Len(events)
                                       /\ q[k] = events[k - Len(inbox)])
    BY <1>2, <1>3
<1>8. EventsOK(inbox)'
    <2>1. CASE inbox' = q
        <3>1. ASSUME NEW k \in 1 .. Len(q)
              PROVE  IF q[k].t = "message_delivered"
                       THEN q[k].id \in Ids /\ q[k].conv = msgs[q[k].id].conv /\ q[k].call = NoCall
                       ELSE q[k].id = 0
            <4>1. CASE k \in 1 .. Len(inbox)
                BY <1>5, <4>1 DEF TypeOK, EventsOK
            <4>2. CASE k - Len(inbox) \in 1 .. Len(events) /\ q[k] = events[k - Len(inbox)]
                <5>1. PICK i \in 1 .. Len(events) : q[k] = events[i]
                    BY <4>2
                <5>2. QED BY <5>1 DEF EventsOK
            <4>3. QED BY <1>3, <1>7, <4>1, <4>2
        <3>2. QED BY <1>3, <2>1, <3>1 DEF EventsOK, Ids
    <2>2. CASE inbox' = inbox
        BY <2>2 DEF TypeOK, EventsOK, Ids
    <2>3. QED BY <1>4, <2>1, <2>2
<1>9. QED BY <1>2, <1>3, <1>4, <1>5, <1>6, <1>7, <1>8 DEF q

\* Neither does a longer history change what is on its way.
LEMMA EventsKept ==
    ASSUME TypeOK, \A i \in Ids : i \in Ids' /\ msgs'[i] = msgs[i], UNCHANGED inbox
    PROVE  EventsOK(inbox)'
BY DEF TypeOK, EventsOK

\* The first event is received.
LEMMA TakeStep ==
    ASSUME TypeOK, NEW t, Take(t), UNCHANGED msgs
    PROVE  /\ EventsOK(inbox)' /\ inbox # <<>> /\ Head(inbox) = inbox[1] /\ inbox[1] \in Event
           /\ inbox[1].t = t /\ Len(inbox) \in Nat \ {0} /\ Len(inbox') = Len(inbox) - 1
           /\ \A k \in 1 .. Len(inbox) - 1 : inbox'[k] = inbox[k + 1] /\ k + 1 \in 1 .. Len(inbox)
<1>1. inbox \in Seq(Event) /\ inbox # <<>> /\ inbox' = Tail(inbox)
    BY DEF TypeOK, EventsOK, Take
<1>2. /\ Head(inbox) = inbox[1] /\ inbox' \in Seq(Event) /\ Len(inbox) \in Nat \ {0}
      /\ Len(inbox') = Len(inbox) - 1 /\ \A k \in 1 .. Len(inbox) - 1 : inbox'[k] = inbox[k + 1]
    BY <1>1, HeadTailProperties
<1>3. \A k \in 1 .. Len(inbox) - 1 : k + 1 \in 1 .. Len(inbox)
    BY <1>2
<1>4. EventsOK(inbox)'
    <2>1. ASSUME NEW k \in 1 .. Len(inbox')
          PROVE  IF inbox'[k].t = "message_delivered"
                   THEN /\ inbox'[k].id \in Ids /\ inbox'[k].conv = msgs[inbox'[k].id].conv
                        /\ inbox'[k].call = NoCall
                   ELSE inbox'[k].id = 0
        <3>1. PICK i \in 1 .. Len(inbox) : inbox'[k] = inbox[i]
            BY <1>2, <1>3
        <3>2. QED BY <3>1 DEF TypeOK, EventsOK
    <2>2. QED BY <1>2, <2>1 DEF EventsOK, Ids
<1>5. inbox[1] \in Event
    BY <1>1, <1>2
<1>6. QED BY <1>1, <1>2, <1>3, <1>4, <1>5 DEF Take

\* The events that the gateway emits.
LEMMA EmittedOK ==
    ASSUME TypeOK
    PROVE  /\ EventsOK(<<>>)
           /\ \A c \in Convs : EventsOK(<<Read(c)>>) /\ EventsOK(ReadCopies(c))
           /\ \A s \in Calls : \A c \in Convs : \A ok \in BOOLEAN : EventsOK(<<Ack(s, c, ok)>>)
           /\ \A id \in Ids : \A s \in Calls \cup {NoCall} :
                EventsOK(Copies(id) \o Acks(s, msgs[id].conv, TRUE))
<1>1. EventsOK(<<>>)
    BY DEF EventsOK
<1>2. ASSUME NEW e \in Event,
             IF e.t = "message_delivered"
               THEN e.id \in Ids /\ e.conv = msgs[e.id].conv /\ e.call = NoCall
               ELSE e.id = 0
      PROVE  EventsOK(<<e>>)
    <2>1. <<e>> \in Seq(Event) /\ Len(<<e>>) = 1 /\ <<e>>[1] = e
        OBVIOUS
    <2>2. \A k \in 1 .. 1 : k = 1
        OBVIOUS
    <2> DEFINE q == <<e>>
    <2>3. q \in Seq(Event) /\ Len(q) = 1 /\ \A k \in 1 .. Len(q) : q[k] = e
        BY <2>1, <2>2
    <2> HIDE DEF q
    <2>4. EventsOK(q)
        BY <1>2, <2>3 DEF EventsOK
    <2>5. QED BY <2>4 DEF q
<1>3. ASSUME NEW p, NEW q, EventsOK(p), EventsOK(q) PROVE EventsOK(p \o q)
    <2>1. p \in Seq(Event) /\ q \in Seq(Event) /\ Len(p) \in Nat /\ Len(q) \in Nat
        BY <1>3 DEF EventsOK
    <2> DEFINE r == p \o q
    <2>2. /\ r \in Seq(Event) /\ Len(r) = Len(p) + Len(q)
          /\ \A i \in 1 .. Len(p) + Len(q) : r[i] = IF i <= Len(p) THEN p[i] ELSE q[i - Len(p)]
        BY <2>1, ConcatProperties
    <2> HIDE DEF r
    <2>3. ASSUME NEW k \in 1 .. Len(r)
          PROVE  IF r[k].t = "message_delivered"
                   THEN r[k].id \in Ids /\ r[k].conv = msgs[r[k].id].conv /\ r[k].call = NoCall
                   ELSE r[k].id = 0
        <3>1. CASE k <= Len(p)
            <4>1. k \in 1 .. Len(p) /\ r[k] = p[k]
                BY <2>1, <2>2, <3>1
            <4>2. QED BY <1>3, <4>1 DEF EventsOK
        <3>2. CASE ~(k <= Len(p))
            <4>1. k - Len(p) \in 1 .. Len(q) /\ r[k] = q[k - Len(p)]
                BY <2>1, <2>2, <3>2
            <4>2. PICK i \in 1 .. Len(q) : r[k] = q[i]
                BY <4>1
            <4>3. QED BY <1>3, <4>2 DEF EventsOK
        <3>3. QED BY <3>1, <3>2
    <2>4. QED BY <2>2, <2>3 DEF EventsOK, r
<1>4. ASSUME NEW c \in Convs PROVE EventsOK(<<Read(c)>>)
    <2>1. Read(c) \in Event /\ Read(c).t = "conversation_read_updated" /\ Read(c).id = 0
        BY DEF Read, Event
    <2>2. QED BY <1>2, <2>1
<1>5. ASSUME NEW c \in Convs PROVE EventsOK(ReadCopies(c))
    BY <1>1, <1>3, <1>4 DEF ReadCopies
<1>6. ASSUME NEW s \in Calls, NEW c \in Convs, NEW ok \in BOOLEAN PROVE EventsOK(<<Ack(s, c, ok)>>)
    <2>1. Ack(s, c, ok) \in Event /\ Ack(s, c, ok).t = "ack" /\ Ack(s, c, ok).id = 0
        BY DEF Ack, Event
    <2>2. QED BY <1>2, <2>1
<1>7. ASSUME NEW id \in Ids PROVE EventsOK(<<Delivered(id)>>) /\ msgs[id].conv \in Convs
    <2>1. msgs[id] \in Message /\ id \in Nat
        BY DEF TypeOK, MsgsOK, Ids
    <2>2. msgs[id].conv \in Convs
        BY <2>1 DEF Message
    <2>3. /\ Delivered(id) \in Event /\ Delivered(id).t = "message_delivered" /\ Delivered(id).id = id
          /\ Delivered(id).conv = msgs[id].conv /\ Delivered(id).call = NoCall
        BY <2>1, <2>2 DEF Delivered, Event
    <2>4. QED BY <1>2, <2>2, <2>3
<1>8. ASSUME NEW id \in Ids, NEW s \in Calls \cup {NoCall}
      PROVE  EventsOK(Copies(id) \o Acks(s, msgs[id].conv, TRUE))
    <2>1. EventsOK(Copies(id))
        BY <1>1, <1>3, <1>7 DEF Copies
    <2>2. EventsOK(Acks(s, msgs[id].conv, TRUE))
        BY <1>1, <1>6, <1>7 DEF Acks
    <2>3. QED BY <1>3, <2>1, <2>2
<1>9. QED BY <1>1, <1>4, <1>5, <1>6, <1>8

\* A request for a page.
LEMMA FetchStep ==
    ASSUME TypeOK, NEW kind \in {"load", "more", "refetch"}, NEW c \in Convs, NEW before,
           Fetch(kind, c, before)
    PROVE  \E page : /\ page = Refused \/ page \in Pages(c, before)
                     /\ page \in SUBSET Nat /\ (page = Refused \/ page \subseteq Ids)
                     /\ fetches' = fetches \cup {[kind |-> kind, conv |-> c, page |-> page]}
                     /\ [kind |-> kind, conv |-> c, page |-> page] \in Page
<1>1. PICK page : /\ page = Refused \/ page \in Pages(c, before)
                  /\ fetches' = fetches \cup {[kind |-> kind, conv |-> c, page |-> page]}
    BY DEF Fetch
<1>2. Ids \subseteq Nat /\ Refused \subseteq Nat
    BY HistoryAssumption DEF Ids, Refused, Always
<1>3. page = Refused \/ page \subseteq Ids
    BY <1>1 DEF Pages, Matching
<1>4. [kind |-> kind, conv |-> c, page |-> page] \in Page
    BY <1>2, <1>3 DEF Page
<1>5. QED BY <1>1, <1>2, <1>3, <1>4

\* What the page and its calls consist of is not disturbed by a longer history.
LEMMA PageKept ==
    ASSUME TypeOK, \A i \in Ids : i \in Ids', UNCHANGED <<thread, fetches>>
    PROVE  /\ thread' \in Seq(Nat) /\ \A k \in 1 .. Len(thread') : thread'[k] \in Ids'
           /\ fetches' \subseteq Page /\ \A f \in fetches' : f.page = Refused \/ f.page \subseteq Ids'
BY DEF TypeOK

\* A message is inserted into the thread at its time, unless it is there.
LEMMA UpsertStep ==
    ASSUME TypeOK, NEW id \in Ids
    PROVE  /\ Upsert(thread, id) \in Seq(Nat)
           /\ \A k \in 1 .. Len(Upsert(thread, id)) : Upsert(thread, id)[k] \in Ids
           /\ id \in ToSet(thread) => Upsert(thread, id) = thread
           /\ id \notin ToSet(thread) =>
                /\ Len(Upsert(thread, id)) = Len(thread) + 1
                /\ \A i, j \in 1 .. Len(thread) + 1 :
                     i < j => At(Upsert(thread, id)[i]) <= At(Upsert(thread, id)[j])
                /\ \E p \in [1 .. Len(thread) + 1 -> 1 .. Len(thread) + 1] :
                     /\ \A i, j \in 1 .. Len(thread) + 1 : p[i] = p[j] => i = j
                     /\ \A k \in 1 .. Len(thread) + 1 : \E i \in 1 .. Len(thread) + 1 : p[i] = k
                     /\ \A i \in 1 .. Len(thread) + 1 :
                          Upsert(thread, id)[i] = IF p[i] = Len(thread) + 1 THEN id ELSE thread[p[i]]
<1>1. CASE id \in ToSet(thread)
    BY <1>1 DEF Upsert, TypeOK
<1>2. CASE id \notin ToSet(thread)
    <2> DEFINE t == Append(thread, id)
    <2>1. thread \in Seq(Ids)
        <3>1. thread \in [1 .. Len(thread) -> Ids] /\ Len(thread) \in Nat
            BY DEF TypeOK
        <3>2. QED BY <3>1
    <2>2. t \in Seq(Ids) /\ Len(t) = Len(thread) + 1 /\ Len(thread) \in Nat
          /\ \A i \in 1 .. Len(thread) + 1 : t[i] = IF i = Len(thread) + 1 THEN id ELSE thread[i]
        BY <2>1
    <2>3. \A x \in Ids : At(x) \in Nat
        <3>1. \A x \in Ids : msgs[x] \in Message
            BY DEF TypeOK, MsgsOK, Ids
        <3>2. QED BY <3>1 DEF At, Message
    <2>4. Upsert(thread, id) = Chronological(t)
        BY <1>2 DEF Upsert
    <2> HIDE DEF t
    <2> DEFINE u == Chronological(t)
               n == Len(thread) + 1
    <2>5. /\ u \in Seq(Ids) /\ Len(u) = n
          /\ \A i, j \in 1 .. n : i < j => At(u[i]) <= At(u[j])
          /\ \E p \in [1 .. n -> 1 .. n] :
               /\ \A i, j \in 1 .. n : p[i] = p[j] => i = j
               /\ \A k \in 1 .. n : \E i \in 1 .. n : p[i] = k
               /\ \A i \in 1 .. n : u[i] = t[p[i]]
        <3>1. /\ u \in Seq(Ids) /\ Len(u) = Len(t)
              /\ \A i, j \in 1 .. Len(t) : i < j => At(u[i]) <= At(u[j])
              /\ \E p \in [1 .. Len(t) -> 1 .. Len(t)] :
                   /\ \A i, j \in 1 .. Len(t) : p[i] = p[j] => i = j
                   /\ \A k \in 1 .. Len(t) : \E i \in 1 .. Len(t) : p[i] = k
                   /\ \A i \in 1 .. Len(t) : u[i] = t[p[i]]
            <4>1. t \in Seq(Ids)
                BY <2>2
            <4> HIDE DEF n
            <4>2. QED BY <2>3, <4>1, ChronologicalSorts
        <3>2. Len(t) = n
            BY <2>2
        <3> HIDE DEF u, n
        <3>3. QED BY <3>1, <3>2
    <2> HIDE DEF u
    <2>6. PICK p \in [1 .. n -> 1 .. n] :
               /\ \A i, j \in 1 .. n : p[i] = p[j] => i = j
               /\ \A k \in 1 .. n : \E i \in 1 .. n : p[i] = k
               /\ \A i \in 1 .. n : u[i] = t[p[i]]
        BY <2>5
    <2>7. \A i \in 1 .. n : u[i] = IF p[i] = n THEN id ELSE thread[p[i]]
        BY <2>2, <2>6
    <2>8. u \in Seq(Nat) /\ \A k \in 1 .. Len(u) : u[k] \in Ids
        <3>1. u \in Seq(Ids) /\ Ids \subseteq Nat
            BY <2>5 DEF Ids
        <3>2. QED BY <3>1, SeqMonotonic, ElementOfSeq
    <2>9. Upsert(thread, id) = u
        BY <2>4 DEF u
    <2>10. QED BY <1>2, <2>5, <2>6, <2>7, <2>8, <2>9, ZenonT(40)
<1>3. QED BY <1>1, <1>2

\* Nothing has happened yet.
LEMMA InitType == Init => TypeOK
<1> SUFFICES ASSUME Init PROVE TypeOK
    OBVIOUS
<1>1. MsgsOK
    <2>1. /\ msgs \in Seq(Message) /\ Len(msgs) <= MaxMsgs
          /\ \A i \in 1 .. Len(msgs) : msgs[i].at <= i /\ \A j \in 1 .. i : msgs[j].at <= msgs[i].at
        BY HistoryAssumption DEF Init, Message
    <2>2. QED BY <2>1 DEF MsgsOK, Ids, At
<1>2. EventsOK(inbox)
    BY DEF Init, EventsOK
<1>3. call \in [Calls -> [pc : {"idle", "sent"}, conv : Convs \cup {None}]]
    BY DEF Init
<1>4. thread \in Seq(Nat) /\ \A k \in 1 .. Len(thread) : thread[k] \in Ids
    BY DEF Init
<1>5. QED BY <1>1, <1>2, <1>3, <1>4 DEF Init, TypeOK

\* What the server and the connection do.
LEMMA GatewayType ==
    ASSUME TypeOK,
           \/ \E c \in Convs : Others(c)
           \/ Connect \/ ConnectRefused \/ Disconnect
           \/ \E j \in jobs : Published(j)
           \/ \E y \in syncs : SyncRooms(y) \/ SyncTimeout(y)
    PROVE  TypeOK'
<1> DEFINE J == [call : Calls \cup {NoCall}, id : Nat]
<1>1. ASSUME UNCHANGED <<msgs, selected, thread, fetches, call, loading>>, active' \subseteq Convs,
             EventsOK(inbox)', jobs' \subseteq J, \A j \in jobs' : j.id \in Ids,
             link' \in BOOLEAN, sending' \in BOOLEAN, calm' \in BOOLEAN
      PROVE  TypeOK'
    <2>1. MsgsOK'
        BY <1>1 DEF TypeOK, MsgsOK, Ids, At
    <2>2. QED BY <1>1, <2>1 DEF TypeOK, Ids
<1>2. ASSUME NEW c \in Convs, Others(c) PROVE TypeOK'
    <2>0. UNCHANGED <<selected, thread, fetches, call, loading, sending, calm>>
        BY <1>2 DEF Others, pageVars, sendVars
    <2>1. CASE AddMe(c) \/ RemoveMe(c)
        <3>1. EventsOK(inbox)'
            BY <2>1, EventsKept DEF AddMe, RemoveMe, Ids
        <3>2. QED BY <1>1, <2>0, <2>1, <3>1 DEF AddMe, RemoveMe, TypeOK
    <2>2. CASE OtherReads(c)
        <3>1. EventsOK(inbox)'
            BY <2>2, EmitStep, EmittedOK DEF OtherReads
        <3>2. QED BY <1>1, <2>0, <2>2, <3>1 DEF OtherReads, TypeOK
    <2>3. CASE OtherSends(c)
        <3>1. /\ MsgsOK' /\ \A i \in Ids : i \in Ids' /\ msgs'[i] = msgs[i]
              /\ Len(msgs) + 1 \in Ids' /\ Len(msgs) + 1 \in Nat
              /\ jobs' = jobs \cup {[call |-> NoCall, id |-> Len(msgs) + 1]}
            <4>1. Create(c, FALSE, NoCall)
                BY <2>3 DEF OtherSends
            <4>2. FALSE \in BOOLEAN /\ NoCall \in Calls \cup {NoCall}
                OBVIOUS
            <4>3. Len(msgs) + 1 \in Nat
                BY DEF TypeOK, MsgsOK
            <4>4. QED BY <4>1, <4>2, <4>3, CreateStep
        <3>2. EventsOK(inbox)'
            BY <2>3, <3>1, EventsKept DEF OtherSends
        <3>3. jobs' \subseteq J /\ \A j \in jobs' : j.id \in Ids'
            BY <3>1 DEF TypeOK
        <3>4. QED BY <2>0, <2>3, <3>1, <3>2, <3>3, PageKept DEF OtherSends, TypeOK
    <2>4. QED BY <1>2, <2>1, <2>2, <2>3 DEF Others
<1>3. CASE Connect \/ ConnectRefused
    <2>1. EventsOK(inbox)'
        BY <1>3, EventsKept DEF Connect, ConnectRefused, Accept, gatewayVars, Ids
    <2>2. QED BY <1>1, <1>3, <2>1 DEF Connect, ConnectRefused, Accept, gatewayVars, pageVars, sendVars, TypeOK
<1>4. CASE Disconnect
    <2>1. inbox' = <<>> /\ jobs' = {[j EXCEPT !.call = NoCall] : j \in jobs} /\ link' = FALSE
          /\ UNCHANGED <<msgs, active, selected, thread, fetches, call, loading, sending>>
          /\ calm' \in BOOLEAN
        BY <1>4 DEF Disconnect, Drop, pageVars, sendVars
    <2>2. jobs' \subseteq J /\ \A j \in jobs' : j.id \in Ids
        BY <2>1 DEF TypeOK
    <2>3. EventsOK(inbox)'
        BY <2>1 DEF EventsOK
    <2>4. QED BY <1>1, <2>1, <2>2, <2>3 DEF TypeOK
<1>5. ASSUME NEW j \in jobs, Published(j) PROVE TypeOK'
    <2>1. j.id \in Ids /\ j.call \in Calls \cup {NoCall}
        BY DEF TypeOK
    <2>2. /\ Emit(Copies(j.id) \o Acks(j.call, msgs[j.id].conv, TRUE)) /\ jobs' = jobs \ {j}
          /\ UNCHANGED <<msgs, active, link, selected, thread, fetches, call, loading, sending>>
          /\ calm' \in BOOLEAN
        BY <1>5 DEF Published, Publish, pageVars, sendVars, TypeOK
    <2>3. EventsOK(Copies(j.id) \o Acks(j.call, msgs[j.id].conv, TRUE))
        BY <2>1, EmittedOK
    <2>4. EventsOK(inbox)'
        BY <2>2, <2>3, EmitStep
    <2>5. QED BY <1>1, <2>2, <2>4 DEF TypeOK
<1>6. ASSUME NEW y \in syncs, SyncRooms(y) \/ SyncTimeout(y) PROVE TypeOK'
    <2>1. UNCHANGED <<msgs, active, link, inbox, jobs, selected, thread, fetches, call, loading, calm>>
          /\ sending' \in BOOLEAN
        BY <1>6 DEF SyncRooms, SyncTimeout, gatewayVars, pageVars, sendVars, TypeOK
    <2>2. EventsOK(inbox)'
        BY <2>1, EventsKept DEF Ids
    <2>3. QED BY <1>1, <2>1, <2>2 DEF TypeOK
<1>7. QED BY <1>2, <1>3, <1>4, <1>5, <1>6

\* What the user does.
LEMMA UserType ==
    ASSUME TypeOK,
           \/ \E c \in Convs : SelectConversation(c)
           \/ \E s \in Calls : Send(s) \/ CallTimeout(s)
           \/ LoadMore \/ Leave \/ LeaveFailed
    PROVE  TypeOK'
<1> DEFINE J == [call : Calls \cup {NoCall}, id : Nat]
           C == [Calls -> [pc : {"idle", "sent"}, conv : Convs \cup {None}]]
<1>1. ASSUME UNCHANGED gatewayVars, UNCHANGED <<call, sending>>, selected' \in Convs \cup {None},
             thread' \in Seq(Nat), \A k \in 1 .. Len(thread') : thread'[k] \in Ids,
             fetches' \subseteq Page, \A f \in fetches' : f.page = Refused \/ f.page \subseteq Ids,
             loading' \in BOOLEAN, calm' \in BOOLEAN
      PROVE  TypeOK'
    <2>1. EventsOK(inbox)' /\ MsgsOK'
        BY <1>1, EventsKept DEF TypeOK, MsgsOK, Ids, At, gatewayVars
    <2>2. QED BY <1>1, <2>1 DEF TypeOK, Ids, gatewayVars
<1>2. ASSUME NEW c \in Convs, SelectConversation(c) PROVE TypeOK'
    <2>1. PICK page : /\ page = Refused \/ page \subseteq Ids
                      /\ fetches' = fetches \cup {[kind |-> "load", conv |-> c, page |-> page]}
                      /\ [kind |-> "load", conv |-> c, page |-> page] \in Page
        BY <1>2, FetchStep DEF SelectConversation
    <2>2. fetches' \subseteq Page /\ \A f \in fetches' : f.page = Refused \/ f.page \subseteq Ids
        BY <2>1 DEF TypeOK
    <2>3. QED BY <1>1, <1>2, <2>2 DEF SelectConversation, sendVars
<1>3. CASE LoadMore
    <2>1. PICK page : /\ page = Refused \/ page \subseteq Ids
                      /\ fetches' = fetches \cup {[kind |-> "more", conv |-> selected, page |-> page]}
                      /\ [kind |-> "more", conv |-> selected, page |-> page] \in Page
        <3>1. selected \in Convs
            BY <1>3 DEF LoadMore, TypeOK
        <3>2. QED BY <1>3, <3>1, FetchStep DEF LoadMore
    <2>2. fetches' \subseteq Page /\ \A f \in fetches' : f.page = Refused \/ f.page \subseteq Ids
        BY <2>1 DEF TypeOK
    <2>3. QED BY <1>1, <1>3, <2>2 DEF LoadMore, sendVars, TypeOK
<1>4. CASE Leave \/ LeaveFailed
    <2>1. /\ UNCHANGED <<msgs, link, inbox, jobs, fetches, loading, call, sending, calm>>
          /\ active' \subseteq active
          /\ \/ selected' = None /\ thread' = <<>>
             \/ UNCHANGED <<selected, thread>>
        BY <1>4 DEF Leave, LeaveFailed, pageVars, sendVars
    <2>2. EventsOK(inbox)' /\ MsgsOK'
        BY <2>1, EventsKept DEF TypeOK, MsgsOK, Ids, At
    <2>3. thread' \in Seq(Nat) /\ \A k \in 1 .. Len(thread') : thread'[k] \in Ids
        <3>1. CASE thread' = <<>>
            BY <3>1
        <3>2. CASE thread' = thread
            BY <3>2 DEF TypeOK
        <3>3. QED BY <2>1, <3>1, <3>2
    <2>4. QED BY <2>1, <2>2, <2>3 DEF TypeOK, Ids
<1>5. ASSUME NEW s \in Calls, Send(s) PROVE TypeOK'
    <2>1. selected \in Convs
        BY <1>5, HistoryAssumption DEF Send
    <2>2. /\ call' \in C /\ sending' = TRUE
          /\ UNCHANGED <<active, link, selected, thread, fetches, loading, calm>>
        BY <1>5, <2>1 DEF Send, pageVars, TypeOK
    <2>3. /\ MsgsOK' /\ \A i \in Ids : i \in Ids' /\ msgs'[i] = msgs[i]
          /\ EventsOK(inbox)' /\ jobs' \subseteq J /\ \A j \in jobs' : j.id \in Ids'
        <3>1. CASE StoreMessage(selected, s)
            <4>1. /\ MsgsOK' /\ \A i \in Ids : i \in Ids' /\ msgs'[i] = msgs[i]
                  /\ Len(msgs) + 1 \in Ids' /\ Len(msgs) + 1 \in Nat
                  /\ jobs' = jobs \cup {[call |-> s, id |-> Len(msgs) + 1]}
                <5>1. Create(selected, TRUE, s)
                    BY <3>1 DEF StoreMessage
                <5>2. TRUE \in BOOLEAN /\ s \in Calls \cup {NoCall}
                    OBVIOUS
                <5>3. Len(msgs) + 1 \in Nat
                    BY DEF TypeOK, MsgsOK
                <5>4. QED BY <2>1, <5>1, <5>2, <5>3, CreateStep
            <4>2. EventsOK(inbox)'
                BY <3>1, <4>1, EventsKept DEF StoreMessage
            <4>3. QED BY <4>1, <4>2 DEF TypeOK
        <3>2. CASE RefuseMessage(selected, s)
            <4>1. FALSE \in BOOLEAN
                OBVIOUS
            <4>2. EventsOK(inbox)'
                BY <2>1, <3>2, <4>1, EmitStep, EmittedOK DEF RefuseMessage
            <4>3. QED BY <3>2, <4>2 DEF RefuseMessage, TypeOK, MsgsOK, Ids, At
        <3>3. CASE UNCHANGED <<msgs, jobs, inbox>>
            <4>1. EventsOK(inbox)'
                BY <3>3, EventsKept DEF Ids
            <4>2. QED BY <3>3, <4>1 DEF TypeOK, MsgsOK, Ids, At
        <3>4. QED BY <1>5, <3>1, <3>2, <3>3 DEF Send
    <2>4. QED BY <2>2, <2>3, PageKept DEF TypeOK
<1>6. ASSUME NEW s \in Calls, CallTimeout(s) PROVE TypeOK'
    <2> DEFINE forget(x) == IF x.call = s THEN [x EXCEPT !.call = NoCall] ELSE x
    <2>1. /\ call' = [call EXCEPT ![s].pc = "idle"] /\ sending' = FALSE
          /\ jobs' = {forget(j) : j \in jobs} /\ inbox' = [k \in DOMAIN inbox |-> forget(inbox[k])]
          /\ UNCHANGED <<msgs, active, link, selected, thread, fetches, loading, calm>>
        BY <1>6 DEF CallTimeout, End, pageVars
    <2>2. call' \in C
        BY <2>1 DEF TypeOK
    <2>3. jobs' \subseteq J /\ \A j \in jobs' : j.id \in Ids
        <3>1. ASSUME NEW j \in jobs PROVE forget(j) \in J /\ forget(j).id \in Ids
            <4>1. j \in J /\ j.id \in Ids
                BY DEF TypeOK
            <4>2. QED BY <4>1
        <3>2. QED BY <2>1, <3>1
    <2>4. EventsOK(inbox)'
        <3>1. ASSUME NEW e \in Event
              PROVE  forget(e) \in Event /\ forget(e).t = e.t /\ forget(e).id = e.id
                     /\ forget(e).conv = e.conv /\ (e.call = NoCall => forget(e).call = NoCall)
            BY DEF Event
        <3>2. inbox \in Seq(Event) /\ Len(inbox) \in Nat /\ DOMAIN inbox = 1 .. Len(inbox)
              /\ \A k \in 1 .. Len(inbox) : inbox[k] \in Event
            BY DEF TypeOK, EventsOK
        <3> HIDE DEF forget
        <3>3. inbox' \in [1 .. Len(inbox) -> Event]
            BY <2>1, <3>1, <3>2
        <3>4. inbox' \in Seq(Event) /\ Len(inbox') = Len(inbox)
            BY <3>2, <3>3
        <3>5. \A k \in 1 .. Len(inbox) : inbox'[k] = forget(inbox[k])
            BY <2>1, <3>2
        <3>6. ASSUME NEW k \in 1 .. Len(inbox)
              PROVE  IF inbox'[k].t = "message_delivered"
                       THEN /\ inbox'[k].id \in Ids /\ inbox'[k].conv = msgs[inbox'[k].id].conv
                            /\ inbox'[k].call = NoCall
                       ELSE inbox'[k].id = 0
            BY <3>1, <3>2, <3>5 DEF TypeOK, EventsOK
        <3>7. QED BY <2>1, <3>4, <3>6 DEF EventsOK, Ids
    <2>5. MsgsOK'
        BY <2>1 DEF TypeOK, MsgsOK, Ids, At
    <2>6. QED BY <2>1, <2>2, <2>3, <2>4, <2>5 DEF TypeOK, Ids
<1>7. QED BY <1>2, <1>3, <1>4, <1>5, <1>6

\* A page that arrives, as a sequence of the thread.
LEMMA ArrivedPage ==
    ASSUME TypeOK, NEW f \in fetches, f.page # Refused
    PROVE  /\ f.page \subseteq Ids /\ IsFiniteSet(f.page) /\ Cardinality(f.page) \in Nat
           /\ Sorted(f.page) \in Seq(Nat) /\ Len(Sorted(f.page)) = Cardinality(f.page)
           /\ \A k \in 1 .. Cardinality(f.page) : Sorted(f.page)[k] \in f.page
           /\ \A i, j \in 1 .. Cardinality(f.page) : i < j => Sorted(f.page)[i] < Sorted(f.page)[j]
           /\ \A x \in f.page : \E k \in 1 .. Cardinality(f.page) : Sorted(f.page)[k] = x
<1>1. f.page \subseteq Ids /\ Ids \subseteq Nat /\ Len(msgs) \in Nat
    BY DEF TypeOK, MsgsOK, Ids
<1>2. IsFiniteSet(f.page)
    <2>1. IsFiniteSet(1 .. Len(msgs))
        BY <1>1, FS_Interval
    <2>2. QED BY <1>1, <2>1, FS_Subset DEF Ids
<1> DEFINE q == Sorted(f.page)
           n == Cardinality(f.page)
<1>3. q \in Seq(f.page) /\ Len(q) = n /\ (\A i, j \in 1 .. n : i < j => q[i] < q[j])
      /\ ToSet(q) = f.page
    BY <1>1, <1>2, SortedPage
<1>4. n \in Nat
    BY <1>2, FS_CardinalityType
<1> HIDE DEF q, n
<1>5. q \in Seq(Nat)
    BY <1>1, <1>3, SeqMonotonic
<1>6. \A k \in 1 .. n : q[k] \in f.page
    BY <1>3, ElementOfSeq
<1>7. \A x \in f.page : \E k \in 1 .. n : q[k] = x
    BY <1>3 DEF ToSet
<1>8. QED BY <1>1, <1>2, <1>3, <1>4, <1>5, <1>6, <1>7 DEF q, n

\* What the page receives.
LEMMA ReceiptType ==
    ASSUME TypeOK,
           \/ \E f \in fetches : Arrive(f) \/ FetchFailed(f)
           \/ MessageDelivered \/ ConversationRead \/ SendAnswered \/ LateAck
    PROVE  TypeOK'
<1>1. ASSUME UNCHANGED <<msgs, active, link, jobs, selected>>, EventsOK(inbox)',
             thread' \in Seq(Nat), \A k \in 1 .. Len(thread') : thread'[k] \in Ids,
             fetches' \subseteq Page, \A f \in fetches' : f.page = Refused \/ f.page \subseteq Ids,
             call' \in [Calls -> [pc : {"idle", "sent"}, conv : Convs \cup {None}]],
             sending' \in BOOLEAN, loading' \in BOOLEAN, calm' \in BOOLEAN
      PROVE  TypeOK'
    <2>1. MsgsOK'
        BY <1>1 DEF TypeOK, MsgsOK, Ids, At
    <2>2. QED BY <1>1, <2>1 DEF TypeOK, Ids
<1>2. ASSUME NEW f \in fetches, Arrive(f) PROVE TypeOK'
    <2>1. /\ f.page # Refused /\ fetches' = fetches \ {f} /\ f \in Page
          /\ thread' = IF f.kind = "more" THEN Sorted(f.page) \o thread ELSE Sorted(f.page)
          /\ Emit(IF f.kind = "load" THEN ReadCopies(f.conv) ELSE <<>>)
          /\ sending' \in BOOLEAN /\ loading' \in BOOLEAN
          /\ UNCHANGED <<msgs, active, link, jobs, selected, call, calm>>
        BY <1>2 DEF Arrive, TypeOK
    <2>2. f.conv \in Convs
        BY <2>1 DEF Page
    <2>3. EventsOK(inbox)'
        BY <2>1, <2>2, EmitStep, EmittedOK
    <2>4. thread' \in Seq(Nat) /\ \A k \in 1 .. Len(thread') : thread'[k] \in Ids
        <3> DEFINE q == Sorted(f.page)
        <3>1. q \in Seq(Nat) /\ \A k \in 1 .. Len(q) : q[k] \in Ids
            BY <2>1, ArrivedPage
        <3>2. thread \in Seq(Nat) /\ \A k \in 1 .. Len(thread) : thread[k] \in Ids
            BY DEF TypeOK
        <3> HIDE DEF q
        <3>3. CASE f.kind = "more"
            <4>1. thread' = q \o thread
                BY <2>1, <3>3 DEF q
            <4>2. QED BY <3>1, <3>2, <4>1
        <3>4. CASE f.kind # "more"
            BY <2>1, <3>1, <3>4 DEF q
        <3>5. QED BY <3>3, <3>4
    <2>5. QED BY <1>1, <2>1, <2>3, <2>4 DEF TypeOK
<1>3. ASSUME NEW f \in fetches, FetchFailed(f) PROVE TypeOK'
    <2>1. EventsOK(inbox)'
        BY <1>3, EventsKept DEF FetchFailed, gatewayVars, Ids
    <2>2. QED BY <1>1, <1>3, <2>1 DEF FetchFailed, gatewayVars, sendVars, TypeOK
<1>4. CASE MessageDelivered
    <2>1. EventsOK(inbox)' /\ Head(inbox).id \in Ids
        <3>1. Take("message_delivered") /\ UNCHANGED msgs
            BY <1>4 DEF MessageDelivered
        <3>2. EventsOK(inbox)' /\ Head(inbox) = inbox[1] /\ inbox[1].t = "message_delivered"
              /\ 1 \in 1 .. Len(inbox)
            BY <3>1, TakeStep
        <3>3. QED BY <3>2 DEF TypeOK, EventsOK
    <2>2. thread' \in Seq(Nat) /\ \A k \in 1 .. Len(thread') : thread'[k] \in Ids
        <3> DEFINE u == Upsert(thread, Head(inbox).id)
        <3>1. u \in Seq(Nat) /\ \A k \in 1 .. Len(u) : u[k] \in Ids
            BY <2>1, UpsertStep
        <3>2. thread' = u \/ thread' = thread
            BY <1>4 DEF MessageDelivered
        <3> HIDE DEF u
        <3>3. QED BY <3>1, <3>2 DEF TypeOK
    <2>3. QED BY <1>1, <1>4, <2>1, <2>2 DEF MessageDelivered, TypeOK
<1>5. CASE ConversationRead
    <2>1. EventsOK(inbox)'
        BY <1>5, TakeStep DEF ConversationRead
    <2>2. fetches' \subseteq Page /\ (\A f \in fetches' : f.page = Refused \/ f.page \subseteq Ids)
          /\ calm' \in BOOLEAN
        <3>1. CASE Head(inbox).conv = selected
            <4>1. selected \in Convs
                BY <1>5, <3>1, TakeStep DEF ConversationRead, Event
            <4>2. Fetch("refetch", selected, Always) /\ calm' \in BOOLEAN
                BY <1>5, <3>1 DEF ConversationRead
            <4>3. PICK page : /\ page = Refused \/ page \subseteq Ids
                              /\ fetches' = fetches \cup {[kind |-> "refetch", conv |-> selected, page |-> page]}
                              /\ [kind |-> "refetch", conv |-> selected, page |-> page] \in Page
                BY <4>1, <4>2, FetchStep
            <4>4. QED BY <4>2, <4>3 DEF TypeOK
        <3>2. CASE Head(inbox).conv # selected
            BY <1>5, <3>2 DEF ConversationRead, TypeOK
        <3>3. QED BY <3>1, <3>2
    <2>3. QED BY <1>1, <1>5, <2>1, <2>2 DEF ConversationRead, sendVars, TypeOK
<1>6. CASE SendAnswered
    <2>1. EventsOK(inbox)'
        BY <1>6, TakeStep DEF SendAnswered
    <2>2. call' = [call EXCEPT ![Head(inbox).call].pc = "idle"] /\ sending' \in BOOLEAN
        BY <1>6 DEF SendAnswered, End, TypeOK
    <2>3. call' \in [Calls -> [pc : {"idle", "sent"}, conv : Convs \cup {None}]]
        BY <2>2 DEF TypeOK
    <2>4. QED BY <1>1, <1>6, <2>1, <2>2, <2>3 DEF SendAnswered, pageVars, TypeOK
<1>7. CASE LateAck
    <2>1. EventsOK(inbox)'
        BY <1>7, TakeStep DEF LateAck
    <2>2. QED BY <1>1, <1>7, <2>1 DEF LateAck, pageVars, sendVars, TypeOK
<1>8. QED BY <1>2, <1>3, <1>4, <1>5, <1>6, <1>7

\* Every step keeps the types.
LEMMA NextType == TypeOK /\ [Next]_vars => TypeOK'
<1> SUFFICES ASSUME TypeOK, [Next]_vars PROVE TypeOK'
    OBVIOUS
<1>1. CASE Next
    BY <1>1, GatewayType, UserType, ReceiptType DEF Next
<1>2. CASE UNCHANGED vars
    <2>1. EventsOK(inbox)' /\ MsgsOK'
        BY <1>2, EventsKept DEF TypeOK, MsgsOK, Ids, At, vars, gatewayVars
    <2>2. QED BY <1>2, <2>1 DEF TypeOK, Ids, vars, gatewayVars, pageVars, sendVars
<1>3. QED BY <1>1, <1>2

\* Pages, threads and events are made of stored messages, messages are stored in
\* the order of time, and an event names the message that it delivers.
THEOREM TypeCorrect == Spec => []TypeOK
BY InitType, NextType, PTL DEF Spec

-----------------------------------------------------------------------------
(* The composer.                                                           *)

\* A call has one answer at most, stored and not yet emitted, or emitted and not
\* yet received, and none when it has ended.
OneAnswer ==
    /\ \A j \in jobs : j.call # NoCall =>
         /\ call[j.call].pc = "sent"
         /\ \A k \in 1 .. Len(inbox) : inbox[k].call # j.call
         /\ \A i \in jobs : i.call = j.call => i = j
    /\ \A k \in 1 .. Len(inbox) : inbox[k].call # NoCall =>
         /\ call[inbox[k].call].pc = "sent"
         /\ \A i \in 1 .. Len(inbox) : inbox[i].call = inbox[k].call => i = k

\* The message behind a call is Me's, of the call's conversation; Me is in it, or
\* stopped being.
JobsOwn ==
    \A j \in jobs : j.call # NoCall =>
      /\ msgs[j.id].own
      /\ msgs[j.id].conv = call[j.call].conv
      /\ msgs[j.id].conv \in active \cup gone

\* Me's message comes before a good answer.
MessageFirst(s) ==
    \A i \in 1 .. Len(inbox) : inbox[i].t = "ack" /\ inbox[i].call = s /\ inbox[i].ok =>
      \E j \in 1 .. i - 1 : inbox[j].t = "message_delivered" /\ msgs[inbox[j].id].own

\* The call that will unlock the composer, or that cannot.
Holder(s) ==
    \/ call[s].conv \in gone
    \/ call[s].pc = "sent" /\ MessageFirst(s)

ComposerInv == TypeOK /\ OneAnswer /\ JobsOwn /\ (sending => \E s \in Calls : Holder(s))

\* No call is under way.
LEMMA InitComposer == Init => ComposerInv
<1> SUFFICES ASSUME Init PROVE ComposerInv
    OBVIOUS
<1>1. TypeOK
    BY InitType
<1>2. jobs = {} /\ Len(inbox) = 0 /\ sending = FALSE
    BY DEF Init
<1>3. QED BY <1>1, <1>2 DEF ComposerInv, OneAnswer, JobsOwn

\* No call has the number of none.
LEMMA CallNumbers == \A s \in Calls : s # NoCall
BY HistoryAssumption DEF Calls, NoCall

\* Steps that leave the calls and what answers them alone.
LEMMA CallsUntouched ==
    ASSUME ComposerInv, TypeOK', UNCHANGED <<msgs, jobs, inbox, call>>,
           active \subseteq active' \cup gone', gone \subseteq gone', sending' => sending
    PROVE  ComposerInv'
<1>1. OneAnswer'
    BY DEF ComposerInv, OneAnswer
<1>2. JobsOwn'
    BY DEF ComposerInv, JobsOwn
<1>3. ASSUME NEW s \in Calls, Holder(s) PROVE Holder(s)'
    BY <1>3 DEF Holder, MessageFirst
<1>4. QED BY <1>1, <1>2, <1>3 DEF ComposerInv

\* Something is emitted, the answer to call s perhaps.
LEMMA AnswerEmitted ==
    ASSUME ComposerInv, TypeOK', NEW events, EventsOK(events), Emit(events),
           UNCHANGED <<msgs, call, active, gone>>, jobs' \subseteq jobs, sending' => sending,
           NEW s \in Calls \cup {NoCall},
           \A k \in 1 .. Len(events) : events[k].call # NoCall => events[k].call = s /\ k = Len(events),
           s # NoCall => /\ call[s].pc = "sent"
                         /\ \A k \in 1 .. Len(inbox) : inbox[k].call # s
                         /\ \A j \in jobs' : j.call # s
                         /\ \/ call[s].conv \in gone
                            \/ \E i \in 1 .. Len(events) - 1 :
                                 events[i].t = "message_delivered" /\ msgs[events[i].id].own
    PROVE  ComposerInv'
<1>1. TypeOK
    BY DEF ComposerInv
<1>2. CASE ~link
    <2>1. inbox' = inbox
        BY <1>1, <1>2, EmitStep
    <2>2. OneAnswer'
        BY <2>1 DEF ComposerInv, OneAnswer
    <2>3. JobsOwn'
        BY DEF ComposerInv, JobsOwn
    <2>4. ASSUME NEW w \in Calls, Holder(w) PROVE Holder(w)'
        BY <2>1, <2>4 DEF Holder, MessageFirst
    <2>5. QED BY <2>2, <2>3, <2>4 DEF ComposerInv
<1>3. CASE link
    <2> DEFINE n == Len(inbox)
               m == Len(events)
    <2>1. /\ n \in Nat /\ m \in Nat /\ Len(inbox') = n + m
          /\ \A k \in 1 .. n : inbox'[k] = inbox[k]
          /\ \A k \in 1 .. m : inbox'[n + k] = events[k]
          /\ \A k \in 1 .. n + m :
               k \in 1 .. n \/ (k > n /\ k - n \in 1 .. m /\ inbox'[k] = events[k - n])
        BY <1>1, <1>3, EmitStep
    <2> HIDE DEF n, m
    <2>2. ASSUME NEW k \in 1 .. n + m, inbox'[k].call # NoCall
          PROVE  \/ k \in 1 .. n /\ inbox'[k] = inbox[k] /\ inbox'[k].call # s
                 \/ k = n + m /\ inbox'[k].call = s /\ s # NoCall /\ inbox'[k] = events[m] /\ m \in 1 .. m
        <3>1. CASE k \in 1 .. n
            BY <2>1, <2>2, <3>1 DEF n
        <3>2. CASE k - n \in 1 .. m /\ inbox'[k] = events[k - n]
            <4>1. k - n = m /\ events[k - n].call = s
                BY <2>2, <3>2 DEF m
            <4>2. QED BY <2>1, <2>2, <3>2, <4>1
        <3>3. QED BY <2>1, <3>1, <3>2
    <2>3. OneAnswer'
        <3>1. ASSUME NEW j \in jobs', j.call # NoCall
              PROVE  /\ call'[j.call].pc = "sent"
                     /\ \A k \in 1 .. Len(inbox') : inbox'[k].call # j.call
                     /\ \A i \in jobs' : i.call = j.call => i = j
            <4>1. j \in jobs /\ \A i \in jobs' : i \in jobs
                OBVIOUS
            <4>2. /\ call[j.call].pc = "sent" /\ \A k \in 1 .. n : inbox[k].call # j.call
                  /\ \A i \in jobs : i.call = j.call => i = j
                BY <3>1, <4>1 DEF ComposerInv, OneAnswer, n
            <4>3. ASSUME NEW k \in 1 .. n + m PROVE inbox'[k].call # j.call
                BY <2>2, <3>1, <4>2
            <4>4. QED BY <2>1, <4>1, <4>2, <4>3
        <3>2. ASSUME NEW k \in 1 .. n + m, inbox'[k].call # NoCall
              PROVE  /\ call'[inbox'[k].call].pc = "sent"
                     /\ \A i \in 1 .. n + m : inbox'[i].call = inbox'[k].call => i = k
            <4>1. CASE k \in 1 .. n /\ inbox'[k] = inbox[k] /\ inbox'[k].call # s
                <5>1. /\ call[inbox[k].call].pc = "sent"
                      /\ \A i \in 1 .. n : inbox[i].call = inbox[k].call => i = k
                    BY <3>2, <4>1 DEF ComposerInv, OneAnswer, n
                <5>2. ASSUME NEW i \in 1 .. n + m, inbox'[i].call = inbox'[k].call PROVE i = k
                    BY <2>2, <3>2, <4>1, <5>1, <5>2
                <5>3. QED BY <4>1, <5>1, <5>2
            <4>2. CASE k = n + m /\ inbox'[k].call = s /\ s # NoCall
                <5>1. ASSUME NEW i \in 1 .. n + m, inbox'[i].call = inbox'[k].call PROVE i = k
                    BY <2>2, <3>2, <4>2, <5>1
                <5>2. QED BY <4>2, <5>1
            <4>3. QED BY <2>2, <3>2, <4>1, <4>2
        <3>3. QED BY <2>1, <3>1, <3>2 DEF OneAnswer
    <2>4. JobsOwn'
        BY DEF ComposerInv, JobsOwn
    <2>5. ASSUME NEW w \in Calls, Holder(w) PROVE Holder(w)'
        <3>1. CASE call[w].conv \in gone
            BY <3>1 DEF Holder
        <3>2. CASE call[w].conv \notin gone
            <4>1. call[w].pc = "sent" /\ MessageFirst(w)
                BY <2>5, <3>2 DEF Holder
            <4>2. ASSUME NEW i \in 1 .. n + m,
                         inbox'[i].t = "ack" /\ inbox'[i].call = w /\ inbox'[i].ok
                  PROVE  \E j \in 1 .. i - 1 :
                           inbox'[j].t = "message_delivered" /\ msgs'[inbox'[j].id].own
                <5>1. CASE i \in 1 .. n /\ inbox'[i] = inbox[i]
                    <6>1. PICK j \in 1 .. i - 1 :
                             inbox[j].t = "message_delivered" /\ msgs[inbox[j].id].own
                        BY <4>1, <4>2, <5>1 DEF MessageFirst, n
                    <6>2. j \in 1 .. n
                        BY <2>1, <5>1
                    <6>3. QED BY <2>1, <6>1, <6>2
                <5>2. CASE i = n + m /\ inbox'[i].call = s /\ s # NoCall
                    <6>1. w = s
                        BY <4>2, <5>2
                    <6>2. PICK j \in 1 .. m - 1 :
                             events[j].t = "message_delivered" /\ msgs[events[j].id].own
                        BY <3>2, <5>2, <6>1 DEF m
                    <6>3. j \in 1 .. m /\ n + j \in 1 .. i - 1
                        BY <2>1, <5>2
                    <6>4. inbox'[n + j] = events[j]
                        BY <2>1, <6>3
                    <6>5. QED BY <6>2, <6>3, <6>4
                <5>3. QED BY <2>2, <4>2, <5>1, <5>2, CallNumbers
            <4>3. QED BY <2>1, <4>1, <4>2 DEF Holder, MessageFirst
        <3>3. QED BY <3>1, <3>2
    <2>6. QED BY <2>3, <2>4, <2>5 DEF ComposerInv
<1>4. QED BY <1>1, <1>2, <1>3 DEF TypeOK

\* emitRealtimeMessage sends copies of one event, one at least to a participant.
LEMMA CopiesAre ==
    ASSUME TypeOK, NEW id \in Ids
    PROVE  /\ Copies(id) \in Seq(Event) /\ Len(Copies(id)) \in Nat
           /\ \A k \in 1 .. Len(Copies(id)) : Copies(id)[k] = Delivered(id)
           /\ msgs[id].conv \in active => Len(Copies(id)) > 0
           /\ Delivered(id).t = "message_delivered" /\ Delivered(id).id = id
           /\ Delivered(id).call = NoCall
<1>1. Delivered(id) \in Event
    <2>1. msgs[id] \in Message /\ id \in Nat
        BY DEF TypeOK, MsgsOK, Ids
    <2>2. QED BY <2>1 DEF Delivered, Event, Message
<1> DEFINE d == <<Delivered(id)>>
<1>2. d \in Seq(Event) /\ Len(d) = 1 /\ d[1] = Delivered(id)
    BY <1>1
<1> HIDE DEF d
<1>3. /\ d \o d \in Seq(Event) /\ Len(d \o d) = 2 /\ \A k \in 1 .. 2 : (d \o d)[k] = Delivered(id)
      /\ d \o <<>> = d /\ <<>> \o d = d /\ <<>> \o <<>> = <<>>
    <2>1. /\ d \o d \in Seq(Event) /\ Len(d \o d) = Len(d) + Len(d)
          /\ \A k \in 1 .. Len(d) + Len(d) : (d \o d)[k] = IF k <= Len(d) THEN d[k] ELSE d[k - Len(d)]
        BY <1>2, ConcatProperties
    <2>2. \A k \in 1 .. 2 : IF k <= 1 THEN k = 1 ELSE k - 1 = 1
        OBVIOUS
    <2>3. Len(d) + Len(d) = 2
        BY <1>2
    <2>4. \A k \in 1 .. 2 : (d \o d)[k] = IF k <= 1 THEN d[k] ELSE d[k - 1]
        BY <1>2, <2>1, <2>3
    <2>5. \A k \in 1 .. 2 : (d \o d)[k] = Delivered(id)
        BY <1>2, <2>2, <2>4
    <2>6. d \o <<>> = d /\ <<>> \o d = d /\ <<>> \o <<>> = <<>>
        <3>1. <<>> \in Seq(Event)
            OBVIOUS
        <3>2. QED BY <1>2, <3>1, ConcatEmptySeq
    <2>7. QED BY <2>1, <2>3, <2>5, <2>6
<1>4. Copies(id) \in {d \o d, d, <<>>} /\ (msgs[id].conv \in active => Copies(id) \in {d \o d, d})
    BY <1>3 DEF Copies, d
<1>5. Len(d) > 0 /\ Len(d \o d) > 0 /\ Len(<<>>) = 0 /\ <<>> \in Seq(Event)
      /\ Len(d) \in Nat /\ Len(d \o d) \in Nat
    BY <1>2, <1>3
<1>6. /\ \A k \in 1 .. Len(d) : d[k] = Delivered(id)
      /\ \A k \in 1 .. Len(d \o d) : (d \o d)[k] = Delivered(id)
    <2>1. \A k \in 1 .. 1 : k = 1
        OBVIOUS
    <2>2. QED BY <1>2, <1>3, <2>1
<1>7. Delivered(id).t = "message_delivered" /\ Delivered(id).id = id /\ Delivered(id).call = NoCall
    BY DEF Delivered
<1> DEFINE c == Copies(id)
<1>8. /\ c \in Seq(Event) /\ Len(c) \in Nat /\ \A k \in 1 .. Len(c) : c[k] = Delivered(id)
      /\ msgs[id].conv \in active => Len(c) > 0
    <2>1. CASE c = d \o d
        BY <1>3, <1>5, <1>6, <2>1
    <2>2. CASE c = d
        BY <1>2, <1>5, <1>6, <2>2
    <2>3. CASE c = <<>> /\ msgs[id].conv \notin active
        <3> HIDE DEF c
        <3>1. QED BY <1>5, <2>3
    <2>4. QED BY <1>4, <2>1, <2>2, <2>3
<1>9. QED BY <1>7, <1>8

\* A message is emitted and its call answered: to somebody who is a participant,
\* the message first.
LEMMA PublishedComposer ==
    ASSUME ComposerInv, TypeOK', NEW j \in jobs, Published(j)
    PROVE  ComposerInv'
<1> DEFINE es == Copies(j.id) \o Acks(j.call, msgs[j.id].conv, TRUE)
           n == Len(Copies(j.id))
<1>1. TypeOK /\ j.id \in Ids /\ j.call \in Calls \cup {NoCall}
    BY DEF ComposerInv, TypeOK
<1>2. EventsOK(es)
    BY <1>1, EmittedOK
<1>3. /\ Emit(es) /\ jobs' = jobs \ {j}
      /\ UNCHANGED <<msgs, call, active, gone, sending>>
    BY DEF Published, Publish, sendVars
<1>4. n \in Nat /\ Copies(j.id) \in Seq(Event) /\ \A k \in 1 .. n : Copies(j.id)[k] = Delivered(j.id)
    BY <1>1, CopiesAre
<1>5. CASE j.call = NoCall
    <2>1. es = Copies(j.id)
        BY <1>4, <1>5 DEF Acks
    <2>2. \A k \in 1 .. Len(es) : es[k].call = NoCall
        <3>1. \A k \in 1 .. Len(es) : es[k] = Delivered(j.id)
            BY <1>4, <2>1
        <3>2. Delivered(j.id).call = NoCall
            BY DEF Delivered
        <3>3. QED BY <3>1, <3>2
    <2> HIDE DEF es
    <2>3. QED BY <1>1, <1>2, <1>3, <1>5, <2>2, AnswerEmitted
<1>6. CASE j.call # NoCall
    <2> DEFINE a == Ack(j.call, msgs[j.id].conv, TRUE)
    <2>1. a \in Event
        <3>1. msgs[j.id] \in Message /\ j.call \in Calls
            BY <1>1, <1>6 DEF TypeOK, MsgsOK, Ids
        <3>2. QED BY <3>1 DEF Ack, Event, Message
    <2>2. es = Copies(j.id) \o <<a>>
        BY <1>6 DEF Acks
    <2> HIDE DEF a
    <2>3. /\ Len(es) = n + 1
          /\ \A k \in 1 .. n + 1 : es[k] = IF k <= n THEN Copies(j.id)[k] ELSE a
        <3> DEFINE b == <<a>>
        <3>1. b \in Seq(Event) /\ Len(b) = 1 /\ b[1] = a
            BY <2>1
        <3>2. es = Copies(j.id) \o b
            BY <2>2
        <3> HIDE DEF b, es
        <3>3. /\ Len(es) = Len(Copies(j.id)) + Len(b)
              /\ \A k \in 1 .. Len(Copies(j.id)) + Len(b) :
                   es[k] = IF k <= Len(Copies(j.id)) THEN Copies(j.id)[k] ELSE b[k - Len(Copies(j.id))]
            BY <1>4, <3>1, <3>2, ConcatProperties
        <3>4. \A k \in 1 .. n + 1 : es[k] = IF k <= n THEN Copies(j.id)[k] ELSE b[k - n]
            BY <3>1, <3>3
        <3> HIDE DEF n
        <3>5. \A k \in 1 .. n + 1 : ~(k <= n) => k - n = 1
            BY <1>4
        <3>6. \A k \in 1 .. n + 1 : es[k] = IF k <= n THEN Copies(j.id)[k] ELSE a
            BY <3>1, <3>4, <3>5
        <3>7. QED BY <3>1, <3>3, <3>6 DEF n
    <2>4. a.call = j.call
        BY DEF a, Ack
    <2>5. ASSUME NEW k \in 1 .. Len(es), es[k].call # NoCall
          PROVE  es[k].call = j.call /\ k = Len(es)
        <3> HIDE DEF n, es
        <3>1. CASE k <= n
            <4>0. k \in 1 .. n
                BY <1>4, <2>3, <3>1
            <4>1. es[k] = Delivered(j.id)
                BY <1>4, <2>3, <3>1, <4>0
            <4>2. QED BY <1>1, <2>5, <4>1, CopiesAre
        <3>2. CASE ~(k <= n)
            BY <1>4, <2>3, <2>4, <3>2
        <3>3. QED BY <3>1, <3>2
    <2>6. /\ call[j.call].pc = "sent"
          /\ \A k \in 1 .. Len(inbox) : inbox[k].call # j.call
          /\ \A i \in jobs' : i.call # j.call
        BY <1>3, <1>6 DEF ComposerInv, OneAnswer
    <2>7. \/ call[j.call].conv \in gone
          \/ \E i \in 1 .. Len(es) - 1 : es[i].t = "message_delivered" /\ msgs[es[i].id].own
        <3>1. /\ msgs[j.id].own /\ msgs[j.id].conv = call[j.call].conv
              /\ msgs[j.id].conv \in active \cup gone
            BY <1>6 DEF ComposerInv, JobsOwn
        <3>2. CASE msgs[j.id].conv \in active
            <4>1. n > 0 /\ Delivered(j.id).t = "message_delivered" /\ Delivered(j.id).id = j.id
                BY <1>1, <3>2, CopiesAre
            <4> HIDE DEF n, es
            <4>2. 1 \in 1 .. n /\ 1 \in 1 .. n + 1 /\ 1 \in 1 .. Len(es) - 1 /\ 1 <= n
                BY <1>4, <2>3, <4>1
            <4>4. es[1] = Delivered(j.id)
                BY <1>4, <2>3, <4>2
            <4>3. QED BY <3>1, <4>1, <4>2, <4>4
        <3>3. QED BY <3>1, <3>2
    <2> HIDE DEF es
    <2>8. QED BY <1>1, <1>2, <1>3, <1>6, <2>5, <2>6, <2>7, AnswerEmitted
<1>7. QED BY <1>5, <1>6

\* Events without an answer.
LEMMA ReadsComposer ==
    ASSUME ComposerInv, TypeOK',
           \/ \E c \in Convs : Others(c) /\ OtherReads(c)
           \/ \E f \in fetches : Arrive(f)
    PROVE  ComposerInv'
<1>1. TypeOK
    BY DEF ComposerInv
<1>2. ASSUME NEW events, EventsOK(events), Emit(events), \A k \in 1 .. Len(events) : events[k].call = NoCall,
             UNCHANGED <<msgs, call, active, gone, jobs>>, sending' => sending
      PROVE  ComposerInv'
    <2>1. NoCall \in Calls \cup {NoCall}
        OBVIOUS
    <2>2. QED BY <1>2, <2>1, AnswerEmitted
<1>3. ASSUME NEW c \in Convs
      PROVE  /\ \A k \in 1 .. Len(<<Read(c)>>) : <<Read(c)>>[k].call = NoCall
             /\ \A k \in 1 .. Len(ReadCopies(c)) : ReadCopies(c)[k].call = NoCall
    <2>1. Read(c).call = NoCall
        BY DEF Read
    <2> DEFINE r == Read(c)
    <2>2. r.call = NoCall
        BY <2>1
    <2> HIDE DEF r
    <2>3. /\ \A k \in 1 .. Len(<<r>>) : <<r>>[k].call = NoCall
          /\ \A k \in 1 .. Len(<<r>> \o <<r>>) : (<<r>> \o <<r>>)[k].call = NoCall
          /\ <<r>> \o <<>> = <<r>>
        BY <2>2
    <2>4. ReadCopies(c) \in {<<r>> \o <<r>>, <<r>>, <<>>}
        BY <2>3 DEF ReadCopies, r
    <2>5. QED BY <2>3, <2>4 DEF r
<1>4. ASSUME NEW c \in Convs, Others(c), OtherReads(c) PROVE ComposerInv'
    <2>1. EventsOK(<<Read(c)>>) /\ Emit(<<Read(c)>>)
        BY <1>1, <1>4, EmittedOK DEF OtherReads
    <2>2. UNCHANGED <<msgs, call, active, gone, jobs, sending>>
        BY <1>4 DEF OtherReads, Others, sendVars
    <2>3. QED BY <1>2, <1>3, <2>1, <2>2
<1>5. ASSUME NEW f \in fetches, Arrive(f) PROVE ComposerInv'
    <2> DEFINE es == IF f.kind = "load" THEN ReadCopies(f.conv) ELSE <<>>
    <2>1. f.conv \in Convs
        BY <1>1 DEF TypeOK, Page
    <2>2. EventsOK(es) /\ \A k \in 1 .. Len(es) : es[k].call = NoCall
        <3>1. CASE f.kind = "load"
            BY <1>1, <1>3, <2>1, <3>1, EmittedOK
        <3>2. CASE f.kind # "load"
            <4>1. es = <<>> /\ Len(<<>>) = 0
                BY <3>2
            <4> HIDE DEF es
            <4>2. QED BY <1>1, <4>1, EmittedOK
        <3>3. QED BY <3>1, <3>2
    <2>3. Emit(es) /\ UNCHANGED <<msgs, call, active, gone, jobs>> /\ (sending' => sending)
        BY <1>5 DEF Arrive
    <2> HIDE DEF es
    <2>4. QED BY <1>2, <2>2, <2>3
<1>6. QED BY <1>4, <1>5

\* A message of somebody else is stored.
LEMMA OtherSendsComposer ==
    ASSUME ComposerInv, TypeOK', NEW c \in Convs, Others(c), OtherSends(c)
    PROVE  ComposerInv'
<1>1. /\ \A i \in Ids : msgs'[i] = msgs[i]
      /\ jobs' = jobs \cup {[call |-> NoCall, id |-> Len(msgs) + 1]}
      /\ UNCHANGED <<inbox, call, active, gone, sending>>
    <2>1. Create(c, FALSE, NoCall) /\ UNCHANGED <<inbox, call, active, gone, sending>>
        BY DEF OtherSends, Others, sendVars
    <2>2. FALSE \in BOOLEAN /\ NoCall \in Calls \cup {NoCall} /\ TypeOK
        BY DEF ComposerInv
    <2>3. QED BY <2>1, <2>2, CreateStep
<1>2. \A j \in jobs' : j.call # NoCall => j \in jobs
    BY <1>1
<1>3. OneAnswer'
    BY <1>1, <1>2 DEF ComposerInv, OneAnswer
<1>4. JobsOwn'
    <2>1. \A j \in jobs : j.id \in Ids
        BY DEF ComposerInv, TypeOK
    <2>2. QED BY <1>1, <1>2, <2>1 DEF ComposerInv, JobsOwn
<1>5. ASSUME NEW s \in Calls, Holder(s) PROVE Holder(s)'
    <2>1. \A k \in 1 .. Len(inbox) : inbox[k].t = "message_delivered" => inbox[k].id \in Ids
        BY DEF ComposerInv, TypeOK, EventsOK
    <2>2. \A i \in 1 .. Len(inbox) : \A j \in 1 .. i - 1 : j \in 1 .. Len(inbox)
        <3>1. Len(inbox) \in Nat
            BY DEF ComposerInv, TypeOK, EventsOK
        <3>2. QED BY <3>1
    <2>3. MessageFirst(s) => MessageFirst(s)'
        BY <1>1, <2>1, <2>2 DEF MessageFirst
    <2>4. QED BY <1>1, <1>5, <2>3 DEF Holder
<1>6. QED BY <1>1, <1>3, <1>4, <1>5 DEF ComposerInv

\* Me sends: the call that is made holds the composer.
LEMMA SendComposer ==
    ASSUME ComposerInv, TypeOK', NEW s \in Calls, Send(s)
    PROVE  ComposerInv'
<1>1. /\ TypeOK /\ s # NoCall /\ selected \in Convs /\ link /\ call[s].pc = "idle"
      /\ UNCHANGED active
    BY CallNumbers, HistoryAssumption DEF ComposerInv, Send
<1>2. /\ call'[s].pc = "sent" /\ call'[s].conv = selected
      /\ \A w \in Calls : w # s => call'[w] = call[w]
    BY <1>1 DEF Send, TypeOK
<1>3. (\A j \in jobs : j.call # s) /\ (\A k \in 1 .. Len(inbox) : inbox[k].call # s)
    BY <1>1 DEF ComposerInv, OneAnswer
<1>4. active \cup gone \subseteq active' \cup gone'
    BY DEF Send
<1>5. \A j \in jobs : j.call # NoCall => j.call \in Calls
    BY <1>1 DEF TypeOK
<1>6. \A k \in 1 .. Len(inbox) : inbox[k].call # NoCall => inbox[k].call \in Calls
    <2>1. \A k \in 1 .. Len(inbox) : inbox[k] \in Event
        BY <1>1 DEF TypeOK, EventsOK
    <2>2. QED BY <2>1 DEF Event
<1>7. CASE StoreMessage(selected, s)
    <2>1. /\ \A i \in Ids : msgs'[i] = msgs[i]
          /\ msgs'[Len(msgs) + 1].own /\ msgs'[Len(msgs) + 1].conv = selected
          /\ jobs' = jobs \cup {[call |-> s, id |-> Len(msgs) + 1]}
          /\ selected \in active /\ UNCHANGED inbox
        <3>1. Create(selected, TRUE, s) /\ selected \in active /\ UNCHANGED inbox
            BY <1>7 DEF StoreMessage
        <3>2. TRUE \in BOOLEAN /\ s \in Calls \cup {NoCall}
            OBVIOUS
        <3>3. PICK at \in Instants : msgs' = Append(msgs, [conv |-> selected, at |-> at, own |-> TRUE])
            BY <3>1 DEF Create
        <3>4. msgs \in Seq(Message)
            BY <1>1 DEF TypeOK, MsgsOK
        <3>5. msgs'[Len(msgs) + 1] = [conv |-> selected, at |-> at, own |-> TRUE]
            BY <3>3, <3>4
        <3>6. QED BY <1>1, <3>1, <3>2, <3>5, CreateStep
    <2>2. OneAnswer'
        <3>1. ASSUME NEW j \in jobs', j.call # NoCall
              PROVE  /\ call'[j.call].pc = "sent"
                     /\ \A k \in 1 .. Len(inbox) : inbox[k].call # j.call
                     /\ \A i \in jobs' : i.call = j.call => i = j
            <4>1. CASE j \in jobs
                <5>1. j.call # s /\ j.call \in Calls
                    BY <1>3, <1>5, <3>1, <4>1
                <5>2. QED BY <1>2, <2>1, <3>1, <4>1, <5>1 DEF ComposerInv, OneAnswer
            <4>2. CASE j = [call |-> s, id |-> Len(msgs) + 1]
                BY <1>2, <1>3, <2>1, <4>2
            <4>3. QED BY <2>1, <4>1, <4>2
        <3>2. ASSUME NEW k \in 1 .. Len(inbox), inbox[k].call # NoCall
              PROVE  /\ call'[inbox[k].call].pc = "sent"
                     /\ \A i \in 1 .. Len(inbox) : inbox[i].call = inbox[k].call => i = k
            BY <1>2, <1>3, <1>6, <3>2 DEF ComposerInv, OneAnswer
        <3>3. QED BY <2>1, <3>1, <3>2 DEF OneAnswer
    <2>3. JobsOwn'
        <3>1. ASSUME NEW j \in jobs', j.call # NoCall
              PROVE  /\ msgs'[j.id].own /\ msgs'[j.id].conv = call'[j.call].conv
                     /\ msgs'[j.id].conv \in active' \cup gone'
            <4>1. CASE j \in jobs
                <5>1. j.call # s /\ j.call \in Calls /\ j.id \in Ids
                    BY <1>1, <1>3, <1>5, <3>1, <4>1 DEF TypeOK
                <5>2. QED BY <1>2, <1>4, <2>1, <3>1, <4>1, <5>1 DEF ComposerInv, JobsOwn
            <4>2. CASE j = [call |-> s, id |-> Len(msgs) + 1]
                BY <1>1, <1>2, <2>1, <4>2
            <4>3. QED BY <2>1, <4>1, <4>2
        <3>2. QED BY <3>1 DEF JobsOwn
    <2>4. Holder(s)'
        <3>1. \A k \in 1 .. Len(inbox') : inbox'[k].call # s
            BY <1>3, <2>1
        <3>2. QED BY <1>2, <3>1 DEF Holder, MessageFirst
    <2>5. QED BY <2>2, <2>3, <2>4 DEF ComposerInv
<1>8. ASSUME UNCHANGED <<msgs, jobs>> PROVE JobsOwn'
    <2>1. ASSUME NEW j \in jobs, j.call # NoCall
          PROVE  /\ msgs[j.id].own /\ msgs[j.id].conv = call'[j.call].conv
                 /\ msgs[j.id].conv \in active' \cup gone'
        <3>1. j.call # s /\ j.call \in Calls
            BY <1>3, <1>5, <2>1
        <3>2. QED BY <1>2, <1>4, <2>1, <3>1 DEF ComposerInv, JobsOwn
    <2>2. QED BY <1>8, <2>1 DEF JobsOwn
<1>9. CASE RefuseMessage(selected, s)
    <2> DEFINE a == Ack(s, selected, FALSE)
               n == Len(inbox)
    <2>1. EventsOK(<<a>>) /\ Emit(<<a>>) /\ UNCHANGED <<msgs, jobs>>
        BY <1>1, <1>9, EmittedOK DEF RefuseMessage
    <2>2. a.call = s /\ a.ok = FALSE
        BY DEF Ack
    <2> HIDE DEF a
    <2>3. Len(<<a>>) = 1 /\ <<a>>[1] = a
        OBVIOUS
    <2>4. /\ n \in Nat /\ Len(inbox') = n + 1 /\ inbox'[n + 1] = a
          /\ \A k \in 1 .. n : inbox'[k] = inbox[k]
        <3> DEFINE es == <<a>>
        <3>1. EventsOK(es) /\ Emit(es) /\ Len(es) = 1 /\ es[1] = a
            BY <2>1, <2>3
        <3> HIDE DEF es
        <3>2. /\ n \in Nat /\ Len(inbox') = n + Len(es)
              /\ \A k \in 1 .. n : inbox'[k] = inbox[k]
              /\ \A k \in 1 .. Len(es) : inbox'[n + k] = es[k]
            BY <1>1, <2>1, <3>1, EmitStep
        <3> HIDE DEF n
        <3>3. QED BY <3>1, <3>2
    <2> HIDE DEF n
    <2>5. ASSUME NEW k \in 1 .. n + 1
          PROVE  (k = n + 1 /\ inbox'[k] = a) \/ (k \in 1 .. n /\ inbox'[k] = inbox[k] /\ inbox'[k].call # s)
        BY <1>3, <2>4 DEF n
    <2>6. OneAnswer'
        <3>1. ASSUME NEW j \in jobs, j.call # NoCall
              PROVE  /\ call'[j.call].pc = "sent"
                     /\ \A k \in 1 .. n + 1 : inbox'[k].call # j.call
                     /\ \A i \in jobs : i.call = j.call => i = j
            <4>1. j.call # s /\ j.call \in Calls
                BY <1>3, <1>5, <3>1
            <4>2. /\ call[j.call].pc = "sent" /\ \A k \in 1 .. n : inbox[k].call # j.call
                  /\ \A i \in jobs : i.call = j.call => i = j
                BY <3>1 DEF ComposerInv, OneAnswer, n
            <4>3. QED BY <1>2, <2>2, <2>5, <4>1, <4>2
        <3>2. ASSUME NEW k \in 1 .. n + 1, inbox'[k].call # NoCall
              PROVE  /\ call'[inbox'[k].call].pc = "sent"
                     /\ \A i \in 1 .. n + 1 : inbox'[i].call = inbox'[k].call => i = k
            <4>1. CASE k = n + 1 /\ inbox'[k] = a
                BY <1>2, <2>2, <2>5, <4>1
            <4>2. CASE k \in 1 .. n /\ inbox'[k] = inbox[k] /\ inbox'[k].call # s
                <5>1. /\ call[inbox[k].call].pc = "sent"
                      /\ \A i \in 1 .. n : inbox[i].call = inbox[k].call => i = k
                    BY <3>2, <4>2 DEF ComposerInv, OneAnswer, n
                <5>2. inbox[k].call \in Calls
                    BY <1>6, <3>2, <4>2 DEF n
                <5>3. QED BY <1>2, <2>2, <2>5, <4>2, <5>1, <5>2
            <4>3. QED BY <2>5, <4>1, <4>2
        <3>3. QED BY <2>1, <2>4, <3>1, <3>2 DEF OneAnswer
    <2>7. Holder(s)'
        <3>1. \A k \in 1 .. Len(inbox') : ~(inbox'[k].call = s /\ inbox'[k].ok)
            BY <2>2, <2>4, <2>5
        <3>2. QED BY <1>2, <3>1 DEF Holder, MessageFirst
    <2>8. QED BY <1>8, <2>1, <2>6, <2>7 DEF ComposerInv
<1>10. CASE UNCHANGED <<msgs, jobs, inbox>>
    <2>1. OneAnswer'
        <3>1. ASSUME NEW j \in jobs, j.call # NoCall
              PROVE  call'[j.call].pc = "sent"
            BY <1>2, <1>3, <1>5, <3>1 DEF ComposerInv, OneAnswer
        <3>2. ASSUME NEW k \in 1 .. Len(inbox), inbox[k].call # NoCall
              PROVE  call'[inbox[k].call].pc = "sent"
            BY <1>2, <1>3, <1>6, <3>2 DEF ComposerInv, OneAnswer
        <3>3. QED BY <1>10, <3>1, <3>2 DEF ComposerInv, OneAnswer
    <2>2. Holder(s)'
        <3>1. \A k \in 1 .. Len(inbox') : inbox'[k].call # s
            BY <1>3, <1>10
        <3>2. QED BY <1>2, <3>1 DEF Holder, MessageFirst
    <2>3. QED BY <1>8, <1>10, <2>1, <2>2 DEF ComposerInv
<1>11. QED BY <1>7, <1>9, <1>10 DEF Send

\* The first event is received; if it answers a call, that call ends.
LEMMA TakenComposer ==
    ASSUME ComposerInv, TypeOK', NEW t, Take(t), UNCHANGED <<msgs, jobs, active, gone>>,
           \A w \in Calls : w # inbox[1].call => call'[w] = call[w],
           \A w \in Calls : call'[w].conv = call[w].conv,
           sending' => \E s \in Calls :
                         /\ Holder(s)
                         /\ \/ call[s].conv \in gone
                            \/ /\ call'[s] = call[s]
                               /\ ~(inbox[1].t = "message_delivered" /\ msgs[inbox[1].id].own)
    PROVE  ComposerInv'
<1> DEFINE n == Len(inbox)
<1>1. /\ TypeOK /\ n \in Nat \ {0} /\ Len(inbox') = n - 1
      /\ \A k \in 1 .. n - 1 : inbox'[k] = inbox[k + 1] /\ k + 1 \in 1 .. n
    BY TakeStep DEF ComposerInv
<1>2. \A k \in 1 .. n : inbox[k].call # NoCall => inbox[k].call \in Calls
    <2>1. \A k \in 1 .. Len(inbox) : inbox[k] \in Event
        BY <1>1 DEF TypeOK, EventsOK
    <2>2. QED BY <2>1 DEF Event
<1>3. /\ \A j \in jobs : j.call # NoCall =>
           /\ call[j.call].pc = "sent" /\ j.call \in Calls
           /\ \A k \in 1 .. n : inbox[k].call # j.call
           /\ \A i \in jobs : i.call = j.call => i = j
      /\ \A k \in 1 .. n : inbox[k].call # NoCall =>
           /\ call[inbox[k].call].pc = "sent"
           /\ \A i \in 1 .. n : inbox[i].call = inbox[k].call => i = k
    BY <1>1 DEF ComposerInv, OneAnswer, TypeOK
<1> HIDE DEF n
<1>4. 1 \in 1 .. n
    BY <1>1
<1>5. OneAnswer'
    <2>1. ASSUME NEW j \in jobs, j.call # NoCall
          PROVE  /\ call'[j.call].pc = "sent" /\ \A k \in 1 .. n - 1 : inbox'[k].call # j.call
                 /\ \A i \in jobs : i.call = j.call => i = j
        BY <1>1, <1>3, <1>4, <2>1
    <2>2. ASSUME NEW k \in 1 .. n - 1, inbox'[k].call # NoCall
          PROVE  /\ call'[inbox'[k].call].pc = "sent"
                 /\ \A i \in 1 .. n - 1 : inbox'[i].call = inbox'[k].call => i = k
        <3>1. inbox'[k] = inbox[k + 1] /\ k + 1 \in 1 .. n /\ k + 1 # 1
            BY <1>1
        <3>2. inbox[k + 1].call \in Calls /\ inbox[k + 1].call # inbox[1].call
            BY <1>2, <1>3, <1>4, <2>2, <3>1
        <3>3. ASSUME NEW i \in 1 .. n - 1, inbox'[i].call = inbox'[k].call PROVE i = k
            <4>1. inbox'[i] = inbox[i + 1] /\ i + 1 \in 1 .. n
                BY <1>1
            <4>2. i + 1 = k + 1
                BY <1>3, <2>2, <3>1, <3>3, <4>1
            <4>3. QED BY <1>1, <4>2
        <3>4. call[inbox[k + 1].call].pc = "sent"
            BY <1>3, <2>2, <3>1
        <3>5. QED BY <3>1, <3>2, <3>3, <3>4
    <2>3. QED BY <1>1, <2>1, <2>2 DEF OneAnswer
<1>6. JobsOwn'
    BY <1>3 DEF ComposerInv, JobsOwn
<1>7. ASSUME NEW s \in Calls, Holder(s),
             \/ call[s].conv \in gone
             \/ /\ call'[s] = call[s]
                /\ ~(inbox[1].t = "message_delivered" /\ msgs[inbox[1].id].own)
      PROVE  Holder(s)'
    <2>1. CASE call[s].conv \in gone
        BY <2>1 DEF Holder
    <2>2. CASE call[s].conv \notin gone
        <3>1. call'[s].pc = "sent" /\ MessageFirst(s)
              /\ ~(inbox[1].t = "message_delivered" /\ msgs[inbox[1].id].own)
            BY <1>7, <2>2 DEF Holder
        <3>2. ASSUME NEW i \in 1 .. n - 1, inbox'[i].t = "ack" /\ inbox'[i].call = s /\ inbox'[i].ok
              PROVE  \E j \in 1 .. i - 1 : inbox'[j].t = "message_delivered" /\ msgs[inbox'[j].id].own
            <4>1. inbox'[i] = inbox[i + 1] /\ i + 1 \in 1 .. n
                BY <1>1
            <4>2. PICK j \in 1 .. (i + 1) - 1 :
                         inbox[j].t = "message_delivered" /\ msgs[inbox[j].id].own
                BY <3>1, <3>2, <4>1 DEF MessageFirst, n
            <4>3. j # 1 /\ j - 1 \in 1 .. i - 1 /\ j - 1 \in 1 .. n - 1 /\ (j - 1) + 1 = j
                BY <1>1, <3>1, <4>2
            <4>4. inbox'[j - 1] = inbox[j]
                BY <1>1, <4>3
            <4>5. QED BY <4>2, <4>3, <4>4
        <3>3. QED BY <1>1, <3>1, <3>2 DEF Holder, MessageFirst
    <2>3. QED BY <2>1, <2>2
<1>8. QED BY <1>5, <1>6, <1>7 DEF ComposerInv

\* What the browser receives: Me's own message unlocks the composer before the
\* good answer to the call that holds it is in.
LEMMA ReceivedComposer ==
    ASSUME ComposerInv, TypeOK', MessageDelivered \/ ConversationRead \/ SendAnswered \/ LateAck
    PROVE  ComposerInv'
<1>1. TypeOK /\ (sending => \E s \in Calls : Holder(s)) /\ sending \in BOOLEAN
    BY DEF ComposerInv, TypeOK
<1>2. /\ UNCHANGED <<msgs, jobs, active, gone>>
      /\ Take("message_delivered") \/ Take("conversation_read_updated") \/ Take("ack")
    BY DEF MessageDelivered, ConversationRead, SendAnswered, LateAck
<1>3. Head(inbox) = inbox[1] /\ inbox[1] \in Event /\ Len(inbox) \in Nat \ {0} /\ 1 \in 1 .. Len(inbox)
    BY <1>1, <1>2, TakeStep
<1>4. CASE MessageDelivered
    <2>1. Take("message_delivered") /\ UNCHANGED call /\ inbox[1].t = "message_delivered"
          /\ (sending' => sending /\ ~msgs[inbox[1].id].own)
        BY <1>1, <1>3, <1>4 DEF MessageDelivered, Take
    <2>2. QED BY <1>1, <1>2, <2>1, TakenComposer
<1>5. CASE ConversationRead
    <2>1. Take("conversation_read_updated") /\ UNCHANGED <<call, sending>>
          /\ inbox[1].t # "message_delivered"
        BY <1>3, <1>5 DEF ConversationRead, Take, sendVars
    <2>2. QED BY <1>1, <1>2, <2>1, TakenComposer
<1>6. CASE SendAnswered
    <2> DEFINE a == inbox[1].call
    <2>1. /\ Take("ack") /\ inbox[1].t = "ack" /\ a \in Calls
          /\ call' = [call EXCEPT ![a].pc = "idle"]
          /\ sending' => sending /\ inbox[1].ok
        BY <1>1, <1>3, <1>6 DEF SendAnswered, Take, End, Event
    <2>2. /\ \A w \in Calls : w # a => call'[w] = call[w]
          /\ \A w \in Calls : call'[w].conv = call[w].conv
        BY <1>1, <2>1 DEF TypeOK
    <2>3. ASSUME sending'
          PROVE  \E s \in Calls : /\ Holder(s)
                                  /\ \/ call[s].conv \in gone
                                     \/ call'[s] = call[s]
        <3>1. PICK s \in Calls : Holder(s)
            BY <1>1, <2>1, <2>3
        <3>2. CASE s = a /\ call[s].conv \notin gone
            <4>1. \E j \in 1 .. 1 - 1 : inbox[j].t = "message_delivered"
                BY <1>3, <2>1, <2>3, <3>1, <3>2 DEF Holder, MessageFirst
            <4>2. QED BY <4>1
        <3>3. QED BY <2>2, <3>1, <3>2
    <2>4. inbox[1].t # "message_delivered"
        BY <2>1
    <2>5. sending' => \E s \in Calls :
                        /\ Holder(s)
                        /\ \/ call[s].conv \in gone
                           \/ /\ call'[s] = call[s]
                              /\ ~(inbox[1].t = "message_delivered" /\ msgs[inbox[1].id].own)
        BY <2>3, <2>4
    <2>6. QED BY <1>2, <2>1, <2>2, <2>5, TakenComposer
<1>7. CASE LateAck
    <2>1. Take("ack") /\ UNCHANGED <<call, sending>> /\ inbox[1].t # "message_delivered"
        BY <1>3, <1>7 DEF LateAck, Take, sendVars
    <2>2. QED BY <1>1, <1>2, <2>1, TakenComposer
<1>8. QED BY <1>4, <1>5, <1>6, <1>7

\* The call is given up: its answer, if there will be one, answers nothing.
LEMMA TimeoutComposer ==
    ASSUME ComposerInv, TypeOK', NEW s \in Calls, CallTimeout(s)
    PROVE  ComposerInv'
<1> DEFINE forget(x) == IF x.call = s THEN [x EXCEPT !.call = NoCall] ELSE x
<1>1. /\ TypeOK /\ s # NoCall /\ sending' = FALSE
      /\ jobs' = {forget(j) : j \in jobs}
      /\ inbox' = [k \in DOMAIN inbox |-> forget(inbox[k])]
      /\ UNCHANGED <<msgs, active, gone>>
    BY CallNumbers DEF ComposerInv, CallTimeout
<1>2. \A w \in Calls : (w # s => call'[w] = call[w]) /\ call'[w].conv = call[w].conv
    BY <1>1 DEF CallTimeout, End, TypeOK
<1>3. ASSUME NEW j \in jobs', j.call # NoCall PROVE j \in jobs /\ j.call # s /\ j.call \in Calls
    <2>1. PICK i \in jobs : j = forget(i)
        BY <1>1
    <2>2. i \in [call : Calls \cup {NoCall}, id : Nat]
        BY <1>1 DEF TypeOK
    <2>3. i.call # s
        BY <1>3, <2>1, <2>2
    <2>4. QED BY <1>3, <2>1, <2>2, <2>3
<1>4. /\ Len(inbox') = Len(inbox)
      /\ \A k \in 1 .. Len(inbox) : inbox'[k].call # NoCall =>
           inbox'[k] = inbox[k] /\ inbox[k].call # s /\ inbox[k].call \in Calls
    <2>1. inbox \in Seq(Event) /\ DOMAIN inbox = 1 .. Len(inbox) /\ Len(inbox) \in Nat
        BY <1>1 DEF TypeOK, EventsOK
    <2>2. inbox' \in Seq(Event) /\ DOMAIN inbox' = 1 .. Len(inbox) /\ DOMAIN inbox' = 1 .. Len(inbox')
          /\ Len(inbox') \in Nat
        BY <1>1, <2>1 DEF TypeOK, EventsOK
    <2>3. Len(inbox') = Len(inbox)
        BY <2>1, <2>2
    <2>4. ASSUME NEW k \in 1 .. Len(inbox), inbox'[k].call # NoCall
          PROVE  inbox'[k] = inbox[k] /\ inbox[k].call # s /\ inbox[k].call \in Calls
        <3>1. inbox[k] \in Event /\ inbox'[k] = forget(inbox[k])
            BY <1>1, <2>1
        <3>2. inbox[k].call # s
            BY <2>4, <3>1 DEF Event
        <3>3. QED BY <2>4, <3>1, <3>2 DEF Event
    <2>5. QED BY <2>3, <2>4
<1> HIDE DEF forget
<1>5. OneAnswer'
    <2>1. ASSUME NEW j \in jobs', j.call # NoCall
          PROVE  /\ call'[j.call].pc = "sent"
                 /\ \A k \in 1 .. Len(inbox) : inbox'[k].call # j.call
                 /\ \A i \in jobs' : i.call = j.call => i = j
        <3>1. /\ call[j.call].pc = "sent" /\ \A k \in 1 .. Len(inbox) : inbox[k].call # j.call
              /\ \A i \in jobs : i.call = j.call => i = j
            BY <1>3, <2>1 DEF ComposerInv, OneAnswer
        <3>2. QED BY <1>2, <1>3, <1>4, <2>1, <3>1
    <2>2. ASSUME NEW k \in 1 .. Len(inbox), inbox'[k].call # NoCall
          PROVE  /\ call'[inbox'[k].call].pc = "sent"
                 /\ \A i \in 1 .. Len(inbox) : inbox'[i].call = inbox'[k].call => i = k
        <3>1. /\ call[inbox[k].call].pc = "sent" /\ inbox[k].call # NoCall
              /\ \A i \in 1 .. Len(inbox) : inbox[i].call = inbox[k].call => i = k
            BY <1>4, <2>2 DEF ComposerInv, OneAnswer
        <3>2. QED BY <1>2, <1>4, <2>2, <3>1
    <2>3. QED BY <1>4, <2>1, <2>2 DEF OneAnswer
<1>6. JobsOwn'
    BY <1>1, <1>2, <1>3 DEF ComposerInv, JobsOwn
<1>7. QED BY <1>1, <1>5, <1>6 DEF ComposerInv

\* The answers that were due go nowhere.
LEMMA DisconnectComposer ==
    ASSUME ComposerInv, TypeOK', Disconnect
    PROVE  ComposerInv'
<1>1. /\ Len(inbox') = 0 /\ jobs' = {[j EXCEPT !.call = NoCall] : j \in jobs}
      /\ UNCHANGED <<msgs, active, gone, call, sending>>
    BY DEF Disconnect, Drop, sendVars
<1>2. ASSUME NEW j \in jobs' PROVE j.call = NoCall
    <2>1. PICK i \in jobs : j = [i EXCEPT !.call = NoCall]
        BY <1>1
    <2>2. i \in [call : Calls \cup {NoCall}, id : Nat]
        BY DEF ComposerInv, TypeOK
    <2>3. QED BY <2>1, <2>2
<1>3. OneAnswer' /\ JobsOwn'
    BY <1>1, <1>2 DEF OneAnswer, JobsOwn
<1>4. ASSUME NEW s \in Calls, Holder(s) PROVE Holder(s)'
    BY <1>1, <1>4 DEF Holder, MessageFirst
<1>5. QED BY <1>1, <1>3, <1>4 DEF ComposerInv

\* Every step keeps the composer's invariant.
LEMMA NextComposer == ComposerInv /\ [Next]_vars => ComposerInv'
<1> SUFFICES ASSUME ComposerInv, [Next]_vars PROVE ComposerInv'
    OBVIOUS
<1>1. TypeOK' /\ TypeOK
    BY NextType DEF ComposerInv
<1>2. ASSUME NEW c \in Convs, SelectConversation(c) \/ Others(c) PROVE ComposerInv'
    <2>1. CASE SelectConversation(c)
        BY <1>1, <2>1, CallsUntouched DEF SelectConversation, gatewayVars, sendVars
    <2>2. CASE Others(c)
        <3>1. UNCHANGED <<call, sending>>
            BY <2>2 DEF Others, sendVars
        <3>2. CASE AddMe(c) \/ RemoveMe(c)
            BY <1>1, <3>1, <3>2, CallsUntouched DEF AddMe, RemoveMe
        <3>3. CASE OtherReads(c)
            BY <1>1, <2>2, <3>3, ReadsComposer
        <3>4. CASE OtherSends(c)
            BY <1>1, <2>2, <3>4, OtherSendsComposer
        <3>5. QED BY <2>2, <3>2, <3>3, <3>4 DEF Others
    <2>3. QED BY <1>2, <2>1, <2>2
<1>3. CASE LoadMore \/ Leave \/ LeaveFailed \/ Connect \/ ConnectRefused
    <2>1. /\ UNCHANGED <<msgs, jobs, inbox, call>> /\ (sending' => sending)
          /\ active \subseteq active' \cup gone' /\ gone \subseteq gone'
        <3>1. CASE LoadMore
            BY <3>1 DEF LoadMore, gatewayVars, sendVars
        <3>2. CASE Leave
            BY <3>2 DEF Leave, sendVars
        <3>3. CASE LeaveFailed
            BY <3>3 DEF LeaveFailed, sendVars
        <3>4. CASE Connect
            BY <3>4 DEF Connect, Accept, sendVars
        <3>5. CASE ConnectRefused
            BY <3>5 DEF ConnectRefused, gatewayVars
        <3>6. QED BY <1>3, <3>1, <3>2, <3>3, <3>4, <3>5
    <2>2. QED BY <1>1, <2>1, CallsUntouched
<1>4. ASSUME NEW y \in syncs, SyncRooms(y) \/ SyncTimeout(y) PROVE ComposerInv'
    BY <1>1, <1>4, CallsUntouched DEF SyncRooms, SyncTimeout, gatewayVars, sendVars
<1>5. ASSUME NEW f \in fetches, FetchFailed(f) PROVE ComposerInv'
    BY <1>1, <1>5, CallsUntouched DEF FetchFailed, gatewayVars, sendVars
<1>6. CASE UNCHANGED vars
    BY <1>1, <1>6, CallsUntouched DEF vars, gatewayVars, sendVars
<1>7. QED
    BY <1>1, <1>2, <1>3, <1>4, <1>5, <1>6, SendComposer, TimeoutComposer, DisconnectComposer,
       PublishedComposer, ReadsComposer, ReceivedComposer DEF Next

\* A composer that stays locked with no call under way belongs to somebody who
\* left or was removed since: sendMessage emits to a participant before it
\* acknowledges, so the composer is unlocked before its call ends.
THEOREM ComposerIsReleased == Spec => []ComposerReleased
<1>1. ComposerInv => ComposerReleased
    <2> SUFFICES ASSUME ComposerInv, sending, \A s \in Calls : call[s].pc = "idle"
                 PROVE  \E s \in Calls : call[s].conv \in gone
        BY DEF ComposerReleased
    <2>1. PICK s \in Calls : Holder(s)
        BY DEF ComposerInv
    <2>2. QED BY <2>1 DEF Holder
<1>2. QED BY <1>1, InitComposer, NextComposer, PTL DEF Spec

-----------------------------------------------------------------------------
(* The thread.                                                             *)

Mine == {id \in Ids : msgs[id].conv = selected}
Outstanding == {j.id : j \in jobs} \cup {inbox[k].id : k \in 1 .. Len(inbox)}
Shown == {thread[k] : k \in 1 .. Len(thread)}

\* What a page lacks is no younger than any of it.
PageOK(page) ==
    /\ page \subseteq Mine
    /\ \A id \in Mine \ (page \cup Outstanding) : page # {} /\ \A x \in page : At(id) <= At(x)

\* What a page of older messages and the thread lack together.
OlderOK(page) ==
    /\ thread # <<>> /\ page \subseteq Mine
    /\ \A x \in page : At(x) < At(Head(thread))
    /\ \A id \in Mine \ (page \cup Shown \cup Outstanding) :
         \/ \E x \in Shown : At(x) = At(id)
         \/ page # {} /\ \A x \in page : At(id) <= At(x)

ThreadOK ==
    /\ \A i, j \in 1 .. Len(thread) : i < j => thread[i] # thread[j] /\ At(thread[i]) <= At(thread[j])
    /\ Shown \subseteq Mine
    /\ \A id \in Mine \ (Shown \cup Outstanding) :
         \/ thread # <<>> /\ At(id) < At(Head(thread))
         \/ \E x \in Shown : At(x) = At(id)

\* Older messages are asked for one page at a time, and never together with a
\* page that replaces the thread.
FetchOK(f) ==
    /\ f.conv = selected
    /\ f.kind # "more" /\ f.page # Refused => PageOK(f.page)
    /\ f.kind = "more" /\ f.page # Refused => OlderOK(f.page)
    /\ f.kind = "more" => loading /\ \A g \in fetches : g = f
    /\ f.kind = "load" => loading /\ \A g \in fetches : g.kind = "load" => g = f

\* ThreadSound is about the thread alone; what replaces or extends it is on its
\* way as an answer to getMessages, and must be sound before it arrives.
Sound ==
    calm /\ selected # None =>
      /\ \A f \in fetches : FetchOK(f)
      /\ ~Fetching({"load"}) => ThreadOK

ThreadInv == TypeOK /\ Sound

\* The instants of the messages.
LEMMA Times ==
    ASSUME TypeOK
    PROVE  \A x \in Ids : /\ At(x) \in Nat /\ At(x) < Always
                          /\ \A y \in Ids : y <= x => At(y) <= At(x)
<1> SUFFICES ASSUME NEW x \in Ids
             PROVE  /\ At(x) \in Nat /\ At(x) < Always
                    /\ \A y \in Ids : y <= x => At(y) <= At(x)
    OBVIOUS
<1>1. msgs \in Seq(Message) /\ Len(msgs) \in Nat /\ Len(msgs) <= MaxMsgs /\ x \in 1 .. Len(msgs)
    BY DEF TypeOK, MsgsOK, Ids
<1>2. At(x) \in Nat
    <2>1. msgs[x] \in Message
        BY <1>1
    <2>2. QED BY <2>1 DEF At, Message
<1>3. At(x) <= x /\ \A y \in 1 .. x : At(y) <= At(x)
    BY DEF TypeOK, MsgsOK
<1>4. At(x) < Always
    BY <1>1, <1>2, <1>3, HistoryAssumption DEF Always
<1>5. \A y \in Ids : y <= x => y \in 1 .. x
    BY <1>1 DEF Ids
<1>6. QED BY <1>2, <1>3, <1>4, <1>5

\* A page that lacks something found is not empty, and what it lacks is no
\* younger than any of it.
LEMMA FreshPage ==
    ASSUME TypeOK, NEW c, NEW before, NEW page \in Pages(c, before)
    PROVE  /\ page \subseteq Matching(c, before)
           /\ \A id \in Matching(c, before) \ page :
                page # {} /\ \A x \in page : At(id) <= At(x)
<1> DEFINE found == Matching(c, before)
<1>1. /\ page \subseteq found /\ \A x \in page : \A y \in found \ page : At(y) <= At(x)
      /\ Cardinality(page) = IF Cardinality(found) < PageSize THEN Cardinality(found) ELSE PageSize
    BY DEF Pages
<1>2. IsFiniteSet(found)
    <2>1. Len(msgs) \in Nat
        BY DEF TypeOK, MsgsOK
    <2>2. IsFiniteSet(1 .. Len(msgs))
        BY <2>1, FS_Interval
    <2>3. found \subseteq 1 .. Len(msgs)
        BY DEF Matching, Ids
    <2>4. QED BY <2>2, <2>3, FS_Subset
<1>3. ASSUME NEW id \in found \ page PROVE page # {}
    <2>1. found # {} /\ Cardinality(found) \in Nat /\ (Cardinality(found) = 0 <=> found = {})
        BY <1>2, FS_CardinalityType, FS_EmptySet
    <2>2. Cardinality({}) = 0
        BY FS_EmptySet
    <2> HIDE DEF found
    <2>3. Cardinality(page) # 0
        BY <1>1, <2>1, PageAssumption
    <2>4. QED BY <2>2, <2>3
<1>4. QED BY <1>1, <1>3

\* Steps that leave the page alone and lose no message of the selected
\* conversation that is still to be delivered.
LEMMA QuietStep ==
    ASSUME ThreadInv, TypeOK', UNCHANGED <<thread, fetches, selected, loading>>, calm' => calm,
           \A i \in Ids : i \in Ids' /\ msgs'[i] = msgs[i],
           \A i \in Ids' : i \in Ids \/ i \in Outstanding',
           calm' => \A i \in Outstanding \cap Mine : i \in Outstanding'
    PROVE  ThreadInv'
<1> SUFFICES ASSUME calm', selected' # None
             PROVE  (\A f \in fetches' : FetchOK(f)') /\ (~Fetching({"load"})' => ThreadOK')
    BY DEF ThreadInv, Sound
<1>1. TypeOK /\ (\A f \in fetches : FetchOK(f)) /\ (~Fetching({"load"}) => ThreadOK)
    BY DEF ThreadInv, Sound
<1>2. \A i \in Ids : At(i)' = At(i)
    BY DEF At
<1>3. /\ \A i \in Mine : i \in Mine' /\ i \in Ids
      /\ \A i \in Mine' : i \in Outstanding' \/ (i \in Mine /\ i \notin Outstanding)
    BY DEF Mine
<1>4. Shown' = Shown /\ Shown \subseteq Ids /\ (thread # <<>> => Head(thread) \in Ids)
    <2>1. thread \in Seq(Nat) /\ \A k \in 1 .. Len(thread) : thread[k] \in Ids
        BY <1>1 DEF TypeOK
    <2>2. thread # <<>> => Head(thread) = thread[1] /\ 1 \in 1 .. Len(thread)
        BY <2>1
    <2>3. QED BY <2>1, <2>2 DEF Shown
<1>5. ASSUME NEW page, PageOK(page) PROVE PageOK(page)'
    BY <1>2, <1>3, <1>5 DEF PageOK
<1>6. ASSUME NEW page, OlderOK(page) PROVE OlderOK(page)'
    <2>1. (thread # <<>>)' /\ page \subseteq Mine /\ page \subseteq Mine'
        BY <1>3, <1>6 DEF OlderOK
    <2>2. ASSUME NEW x \in page PROVE (At(x) < At(Head(thread)))'
        BY <1>2, <1>3, <1>4, <1>6, <2>1 DEF OlderOK
    <2>3. ASSUME NEW id \in Mine' \ (page \cup Shown' \cup Outstanding')
          PROVE  \/ \E x \in Shown' : At(x)' = At(id)'
                 \/ page # {} /\ \A x \in page : At(id)' <= At(x)'
        <3>1. id \in Mine \ (page \cup Shown \cup Outstanding) /\ id \in Ids
            BY <1>3, <1>4, <2>3
        <3>2. \/ \E x \in Shown : At(x) = At(id)
              \/ page # {} /\ \A x \in page : At(id) <= At(x)
            BY <1>6, <3>1 DEF OlderOK
        <3>3. QED BY <1>2, <1>3, <1>4, <2>1, <3>1, <3>2
    <2>4. QED BY <2>1, <2>2, <2>3 DEF OlderOK
<1>7. ASSUME ThreadOK PROVE ThreadOK'
    <2>1. ASSUME NEW i \in 1 .. Len(thread'), NEW j \in 1 .. Len(thread'), i < j
          PROVE  (thread[i] # thread[j] /\ At(thread[i]) <= At(thread[j]))'
        <3>1. thread[i] \in Ids /\ thread[j] \in Ids
            BY <1>4 DEF Shown
        <3>2. msgs'[thread[i]] = msgs[thread[i]] /\ msgs'[thread[j]] = msgs[thread[j]]
            BY <3>1
        <3>3. thread[i] # thread[j] /\ At(thread[i]) <= At(thread[j])
            BY <1>7, <2>1 DEF ThreadOK
        <3>4. QED BY <3>2, <3>3 DEF At
    <2>2. Shown' \subseteq Mine'
        BY <1>3, <1>4, <1>7 DEF ThreadOK
    <2>3. ASSUME NEW id \in Mine' \ (Shown' \cup Outstanding')
          PROVE  \/ (thread # <<>> /\ At(id) < At(Head(thread)))'
                 \/ \E x \in Shown' : At(x)' = At(id)'
        <3>1. id \in Mine \ (Shown \cup Outstanding) /\ id \in Ids
            BY <1>3, <1>4, <2>3
        <3>2. \/ thread # <<>> /\ At(id) < At(Head(thread))
              \/ \E x \in Shown : At(x) = At(id)
            BY <1>7, <3>1 DEF ThreadOK
        <3>3. QED BY <1>2, <1>4, <3>1, <3>2
    <2>4. QED BY <2>1, <2>2, <2>3 DEF ThreadOK
<1>8. ASSUME NEW f \in fetches PROVE FetchOK(f)'
    <2>1. FetchOK(f)
        BY <1>1
    <2>2. QED BY <1>5, <1>6, <2>1 DEF FetchOK
<1>9. QED BY <1>1, <1>7, <1>8 DEF Fetching

\* What was on its way stays when more is emitted.
LEMMA EmittedOutstanding ==
    ASSUME TypeOK, NEW events, EventsOK(events), Emit(events), UNCHANGED msgs, jobs \subseteq jobs'
    PROVE  Outstanding \subseteq Outstanding'
<1>1. ASSUME NEW k \in 1 .. Len(inbox) PROVE k \in 1 .. Len(inbox') /\ inbox'[k] = inbox[k]
    <2>1. CASE link
        BY <2>1, EmitStep
    <2>2. CASE ~link
        BY <2>2, EmitStep
    <2>3. QED BY <2>1, <2>2
<1>2. QED BY <1>1 DEF Outstanding

\* Only the message that the first event delivers ceases to be on its way.
LEMMA TakenOutstanding ==
    ASSUME TypeOK, NEW t, Take(t), UNCHANGED <<msgs, jobs>>
    PROVE  /\ \A i \in Outstanding : i = inbox[1].id \/ i \in Outstanding'
           /\ Outstanding' \subseteq Outstanding
           /\ t # "message_delivered" => inbox[1].id \notin Ids
<1> DEFINE n == Len(inbox)
<1>1. /\ n \in Nat \ {0} /\ Len(inbox') = n - 1 /\ inbox[1].t = t
      /\ \A k \in 1 .. n - 1 : inbox'[k] = inbox[k + 1] /\ k + 1 \in 1 .. n
    BY TakeStep
<1>2. t # "message_delivered" => inbox[1].id \notin Ids
    <2>1. 1 \in 1 .. Len(inbox) /\ 0 \notin Ids
        BY <1>1 DEF Ids
    <2>2. QED BY <1>1, <2>1 DEF TypeOK, EventsOK
<1>3. Outstanding = {j.id : j \in jobs} \cup {inbox[k].id : k \in 1 .. n}
      /\ Outstanding' = {j.id : j \in jobs} \cup {inbox'[k].id : k \in 1 .. n - 1}
    BY <1>1 DEF Outstanding
<1> HIDE DEF n
<1>4. ASSUME NEW k \in 1 .. n PROVE k = 1 \/ (k - 1 \in 1 .. n - 1 /\ inbox'[k - 1] = inbox[k])
    <2>1. k # 1 => k - 1 \in 1 .. n - 1 /\ (k - 1) + 1 = k
        BY <1>1
    <2>2. QED BY <1>1, <2>1
<1>5. ASSUME NEW i \in Outstanding PROVE i = inbox[1].id \/ i \in Outstanding'
    <2>1. CASE \E k \in 1 .. n : i = inbox[k].id
        <3>1. PICK k \in 1 .. n : i = inbox[k].id
            BY <2>1
        <3>2. CASE k - 1 \in 1 .. n - 1 /\ inbox'[k - 1] = inbox[k]
            BY <1>3, <3>1, <3>2
        <3>3. QED BY <1>4, <3>1, <3>2
    <2>2. QED BY <1>3, <2>1
<1>6. ASSUME NEW k \in 1 .. n - 1 PROVE inbox'[k].id \in Outstanding
    BY <1>1, <1>3
<1>7. Outstanding' \subseteq Outstanding
    BY <1>3, <1>6
<1>8. QED BY <1>2, <1>5, <1>7

\* Steps that only add to what is on its way, and those of the connection: what a
\* disconnection or an event without receivers loses of the selected conversation
\* ends the calm.
LEMMA QuietSteps ==
    ASSUME ThreadInv, TypeOK',
           \/ \E c \in Convs : Others(c)
           \/ \E s \in Calls : Send(s) \/ CallTimeout(s)
           \/ Connect \/ ConnectRefused \/ Disconnect \/ LeaveFailed
           \/ \E j \in jobs : Published(j)
           \/ \E y \in syncs : SyncRooms(y) \/ SyncTimeout(y)
           \/ SendAnswered \/ LateAck \/ UNCHANGED vars
    PROVE  ThreadInv'
<1>1. TypeOK
    BY DEF ThreadInv
<1>2. ASSUME UNCHANGED <<msgs, thread, fetches, selected, loading>>, calm' => calm,
             calm' => \A i \in Outstanding \cap Mine : i \in Outstanding'
      PROVE  ThreadInv'
    <2>1. \A i \in Ids : i \in Ids' /\ msgs'[i] = msgs[i]
        BY <1>2 DEF Ids
    <2>2. \A i \in Ids' : i \in Ids \/ i \in Outstanding'
        BY <1>2 DEF Ids
    <2>3. QED BY <1>2, <2>1, <2>2, QuietStep
<1>3. ASSUME UNCHANGED <<msgs, jobs, inbox, thread, fetches, selected, loading, calm>> PROVE ThreadInv'
    <2>1. Outstanding' = Outstanding
        BY <1>3 DEF Outstanding
    <2>2. QED BY <1>2, <1>3, <2>1
<1>4. ASSUME NEW c \in Convs, NEW own \in BOOLEAN, NEW s \in Calls \cup {NoCall}, Create(c, own, s),
             UNCHANGED <<inbox, thread, fetches, selected, loading, calm>>
      PROVE  ThreadInv'
    <2>1. /\ Len(msgs') = Len(msgs) + 1 /\ Len(msgs) \in Nat
          /\ \A i \in Ids : i \in Ids' /\ msgs'[i] = msgs[i]
          /\ jobs' = jobs \cup {[call |-> s, id |-> Len(msgs) + 1]}
        BY <1>1, <1>4, CreateStep
    <2>2. Outstanding \subseteq Outstanding' /\ Len(msgs) + 1 \in Outstanding'
        <3> DEFINE j == [call |-> s, id |-> Len(msgs) + 1]
        <3>1. j \in jobs' /\ j.id = Len(msgs) + 1 /\ jobs \subseteq jobs'
            BY <2>1
        <3> HIDE DEF j
        <3>2. QED BY <1>4, <3>1 DEF Outstanding
    <2>3. \A i \in Ids' : i \in Ids \/ i = Len(msgs) + 1
        BY <2>1 DEF Ids
    <2>4. QED BY <1>4, <2>1, <2>2, <2>3, QuietStep
<1>5. ASSUME NEW c \in Convs, Others(c) PROVE ThreadInv'
    <2>1. UNCHANGED <<thread, fetches, selected, loading, calm>>
        BY <1>5 DEF Others, pageVars
    <2>2. CASE AddMe(c) \/ RemoveMe(c)
        BY <1>3, <2>1, <2>2 DEF AddMe, RemoveMe
    <2>3. CASE OtherReads(c)
        <3>1. EventsOK(<<Read(c)>>) /\ Emit(<<Read(c)>>) /\ UNCHANGED <<msgs, jobs>>
            BY <1>1, <2>3, EmittedOK DEF OtherReads
        <3>2. Outstanding \subseteq Outstanding'
            BY <1>1, <3>1, EmittedOutstanding
        <3>3. QED BY <1>2, <2>1, <3>1, <3>2
    <2>4. CASE OtherSends(c)
        <3>1. FALSE \in BOOLEAN /\ NoCall \in Calls \cup {NoCall}
            OBVIOUS
        <3>2. QED BY <1>4, <2>1, <2>4, <3>1 DEF OtherSends
    <2>5. QED BY <1>5, <2>2, <2>3, <2>4 DEF Others
<1>6. ASSUME NEW s \in Calls, Send(s) PROVE ThreadInv'
    <2>1. UNCHANGED <<thread, fetches, selected, loading, calm>> /\ selected \in Convs
        BY <1>6, HistoryAssumption DEF Send, pageVars
    <2>2. CASE StoreMessage(selected, s)
        <3>1. TRUE \in BOOLEAN /\ s \in Calls \cup {NoCall}
            OBVIOUS
        <3>2. QED BY <1>4, <2>1, <2>2, <3>1 DEF StoreMessage
    <2>3. CASE RefuseMessage(selected, s)
        <3> DEFINE es == <<Ack(s, selected, FALSE)>>
        <3>1. EventsOK(es) /\ Emit(es) /\ UNCHANGED <<msgs, jobs>>
            BY <1>1, <2>1, <2>3, EmittedOK DEF RefuseMessage
        <3> HIDE DEF es
        <3>2. Outstanding \subseteq Outstanding'
            BY <1>1, <3>1, EmittedOutstanding
        <3>3. QED BY <1>2, <2>1, <3>1, <3>2
    <2>4. CASE UNCHANGED <<msgs, jobs, inbox>>
        BY <1>3, <2>1, <2>4
    <2>5. QED BY <1>6, <2>2, <2>3, <2>4 DEF Send
<1>7. ASSUME NEW s \in Calls, CallTimeout(s) PROVE ThreadInv'
    <2> DEFINE forget(x) == IF x.call = s THEN [x EXCEPT !.call = NoCall] ELSE x
    <2>1. /\ jobs' = {forget(j) : j \in jobs}
          /\ inbox' = [k \in DOMAIN inbox |-> forget(inbox[k])]
          /\ UNCHANGED <<msgs, thread, fetches, selected, loading, calm>>
        BY <1>7 DEF CallTimeout, pageVars
    <2>2. ASSUME NEW j \in jobs PROVE forget(j) \in jobs' /\ forget(j).id = j.id
        <3>1. j \in [call : Calls \cup {NoCall}, id : Nat]
            BY <1>1 DEF TypeOK
        <3>2. QED BY <2>1, <3>1
    <2>3. ASSUME NEW k \in 1 .. Len(inbox) PROVE k \in 1 .. Len(inbox') /\ inbox'[k].id = inbox[k].id
        <3>1. inbox \in Seq(Event) /\ inbox' \in Seq(Event)
            BY <1>1 DEF TypeOK, EventsOK
        <3>2. /\ DOMAIN inbox = 1 .. Len(inbox) /\ DOMAIN inbox' = 1 .. Len(inbox')
              /\ inbox[k] \in Event
            BY <3>1
        <3>3. inbox'[k] = forget(inbox[k]) /\ k \in DOMAIN inbox'
            BY <2>1, <3>2
        <3>4. forget(inbox[k]).id = inbox[k].id
            BY <3>2 DEF Event
        <3>5. QED BY <3>2, <3>3, <3>4
    <2> HIDE DEF forget
    <2>4. Outstanding \subseteq Outstanding'
        <3>1. ASSUME NEW j \in jobs PROVE j.id \in Outstanding'
            <4>1. PICK i \in jobs' : i.id = j.id
                BY <2>2
            <4>2. QED BY <4>1 DEF Outstanding
        <3>2. ASSUME NEW k \in 1 .. Len(inbox) PROVE inbox[k].id \in Outstanding'
            BY <2>3 DEF Outstanding
        <3>3. QED BY <3>1, <3>2 DEF Outstanding
    <2>5. QED BY <1>2, <2>1, <2>4
<1>8. CASE Connect \/ ConnectRefused \/ LeaveFailed \/ UNCHANGED vars
    <2>1. UNCHANGED <<msgs, jobs, inbox, thread, fetches, selected, loading, calm>>
        BY <1>8 DEF Connect, Accept, ConnectRefused, LeaveFailed, vars, gatewayVars, pageVars
    <2>2. QED BY <1>3, <2>1
<1>9. CASE Disconnect
    <2>1. /\ jobs' = {[j EXCEPT !.call = NoCall] : j \in jobs}
          /\ calm' => calm /\ \A e \in ToSet(inbox) : e.t = "message_delivered" => e.conv # selected
          /\ UNCHANGED <<msgs, thread, fetches, selected, loading>>
        BY <1>1, <1>9 DEF Disconnect, Drop, pageVars, TypeOK
    <2>2. ASSUME calm', NEW i \in Outstanding \cap Mine PROVE i \in Outstanding'
        <3>1. CASE \E k \in 1 .. Len(inbox) : i = inbox[k].id
            <4>1. PICK k \in 1 .. Len(inbox) : i = inbox[k].id
                BY <3>1
            <4>2. inbox \in Seq(Event) /\ i \in Ids /\ 0 \notin Ids
                BY <1>1 DEF TypeOK, EventsOK, Mine, Ids
            <4>3. inbox[k].t = "message_delivered" /\ inbox[k].conv = msgs[i].conv
                BY <1>1, <4>1, <4>2 DEF TypeOK, EventsOK
            <4>4. inbox[k] \in ToSet(inbox)
                BY <4>2 DEF ToSet
            <4>5. QED BY <2>1, <2>2, <4>3, <4>4 DEF Mine
        <3>2. CASE \E j \in jobs : i = j.id
            <4>1. PICK j \in jobs : i = j.id
                BY <3>2
            <4>2. j \in [call : Calls \cup {NoCall}, id : Nat]
                BY <1>1 DEF TypeOK
            <4>3. [j EXCEPT !.call = NoCall] \in jobs' /\ [j EXCEPT !.call = NoCall].id = i
                BY <2>1, <4>1, <4>2
            <4>4. QED BY <4>3 DEF Outstanding
        <3>3. QED BY <3>1, <3>2 DEF Outstanding
    <2>3. QED BY <1>2, <2>1, <2>2
<1>10. ASSUME NEW j \in jobs, Published(j) PROVE ThreadInv'
    <2> DEFINE es == Copies(j.id) \o Acks(j.call, msgs[j.id].conv, TRUE)
    <2>1. j.id \in Ids /\ j.call \in Calls \cup {NoCall}
        BY <1>1 DEF TypeOK
    <2>2. /\ Emit(es) /\ jobs' = jobs \ {j}
          /\ calm' => calm /\ (msgs[j.id].conv # selected \/ (link /\ Copies(j.id) # <<>>))
          /\ UNCHANGED <<msgs, thread, fetches, selected, loading>>
        BY <1>1, <1>10 DEF Published, Publish, pageVars, TypeOK
    <2>3. EventsOK(es)
        BY <1>1, <2>1, EmittedOK
    <2>4. ASSUME NEW k \in 1 .. Len(inbox) PROVE k \in 1 .. Len(inbox') /\ inbox'[k] = inbox[k]
        <3> HIDE DEF es
        <3>1. CASE link
            BY <1>1, <2>2, <2>3, <3>1, EmitStep
        <3>2. CASE ~link
            BY <1>1, <2>2, <2>3, <3>2, EmitStep
        <3>3. QED BY <3>1, <3>2
    <2>5. ASSUME calm', msgs[j.id].conv = selected PROVE j.id \in Outstanding'
        <3>1. link /\ Copies(j.id) # <<>>
            BY <2>2, <2>5
        <3>2. /\ Copies(j.id) \in Seq(Event) /\ Delivered(j.id).id = j.id
              /\ \A k \in 1 .. Len(Copies(j.id)) : Copies(j.id)[k] = Delivered(j.id)
            BY <1>1, <2>1, CopiesAre
        <3>3. 1 \in 1 .. Len(Copies(j.id))
            BY <3>1, <3>2
        <3>4. Acks(j.call, msgs[j.id].conv, TRUE) \in Seq(Event)
            <4>1. msgs[j.id] \in Message
                BY <1>1, <2>1 DEF TypeOK, MsgsOK, Ids
            <4>2. j.call # NoCall => Ack(j.call, msgs[j.id].conv, TRUE) \in Event
                BY <2>1, <4>1 DEF Ack, Event, Message
            <4>3. CASE j.call = NoCall
                BY <4>3 DEF Acks
            <4>4. CASE j.call # NoCall
                <5> DEFINE a == Ack(j.call, msgs[j.id].conv, TRUE)
                <5>1. Acks(j.call, msgs[j.id].conv, TRUE) = <<a>> /\ a \in Event
                    BY <4>2, <4>4 DEF Acks
                <5> HIDE DEF a
                <5>2. <<a>> \in Seq(Event)
                    <6>1. a \in Event
                        BY <5>1
                    <6>2. QED BY ONLY <6>1
                <5>3. QED BY <5>1, <5>2, Zenon
            <4>5. QED BY <4>3, <4>4
        <3>5. 1 \in 1 .. Len(es) /\ es[1] = Delivered(j.id)
            <4> DEFINE p == Copies(j.id)
                       q == Acks(j.call, msgs[j.id].conv, TRUE)
            <4>1. p \in Seq(Event) /\ q \in Seq(Event) /\ p[1] = Delivered(j.id) /\ 1 \in 1 .. Len(p)
                BY <3>2, <3>3, <3>4
            <4>2. es = p \o q
                OBVIOUS
            <4> HIDE DEF p, q, es
            <4>3. QED BY <4>1, <4>2
        <3> HIDE DEF es
        <3>6. /\ Len(inbox) + 1 \in 1 .. Len(inbox') /\ inbox'[Len(inbox) + 1] = es[1]
            BY <1>1, <2>2, <2>3, <3>1, <3>5, EmitStep
        <3>7. QED BY <3>2, <3>5, <3>6 DEF Outstanding
    <2> HIDE DEF es
    <2>6. ASSUME calm', NEW i \in Outstanding \cap Mine PROVE i \in Outstanding'
        <3>1. CASE \E k \in 1 .. Len(inbox) : i = inbox[k].id
            BY <2>4, <3>1 DEF Outstanding
        <3>2. CASE \E x \in jobs : i = x.id
            <4>1. PICK x \in jobs : i = x.id
                BY <3>2
            <4>2. CASE x = j
                BY <2>5, <2>6, <4>1, <4>2 DEF Mine
            <4>3. CASE x # j
                BY <2>2, <4>1, <4>3 DEF Outstanding
            <4>4. QED BY <4>2, <4>3
        <3>3. QED BY <3>1, <3>2 DEF Outstanding
    <2>7. QED BY <1>2, <2>2, <2>6
<1>11. ASSUME NEW y \in syncs, SyncRooms(y) \/ SyncTimeout(y) PROVE ThreadInv'
    <2>1. UNCHANGED <<msgs, jobs, inbox, thread, fetches, selected, loading, calm>>
        BY <1>11 DEF SyncRooms, SyncTimeout, gatewayVars, pageVars
    <2>2. QED BY <1>3, <2>1
<1>12. CASE SendAnswered \/ LateAck
    <2>1. Take("ack") /\ UNCHANGED <<msgs, jobs, thread, fetches, selected, loading, calm>>
        BY <1>12 DEF SendAnswered, LateAck, pageVars
    <2>2. \A i \in Outstanding \cap Mine : i \in Outstanding'
        BY <1>1, <2>1, TakenOutstanding DEF Mine
    <2>3. QED BY <1>2, <2>1, <2>2
<1>13. QED BY <1>5, <1>6, <1>7, <1>8, <1>9, <1>10, <1>11, <1>12

\* The newest page of the selected conversation is sound when it is taken.
LEMMA NewestPage ==
    ASSUME TypeOK, NEW page \in Pages(selected, Always)
    PROVE  PageOK(page)
<1>1. Matching(selected, Always) = Mine
    BY Times DEF Matching, Mine
<1>2. QED BY <1>1, FreshPage DEF PageOK

\* A conversation is selected: its page alone is under way, if it is calm.
LEMMA SelectThread ==
    ASSUME ThreadInv, TypeOK', NEW c \in Convs, SelectConversation(c)
    PROVE  ThreadInv'
<1> SUFFICES ASSUME calm'
             PROVE  (\A f \in fetches' : FetchOK(f)') /\ (~Fetching({"load"})' => ThreadOK')
    BY DEF ThreadInv, Sound
<1>1. /\ TypeOK /\ fetches = {} /\ selected' = c /\ loading' = TRUE /\ Fetch("load", c, Always)
      /\ UNCHANGED <<msgs, inbox, jobs>>
    BY DEF ThreadInv, SelectConversation, gatewayVars
<1>2. PICK page : /\ page = Refused \/ page \in Pages(c, Always)
                  /\ fetches' = fetches \cup {[kind |-> "load", conv |-> c, page |-> page]}
    BY <1>1, FetchStep
<1> DEFINE f == [kind |-> "load", conv |-> c, page |-> page]
<1>3. f \in fetches' /\ f.kind = "load" /\ f.conv = c /\ f.page = page /\ \A g \in fetches' : g = f
    BY <1>1, <1>2
<1> HIDE DEF f
<1>4. ASSUME page \in Pages(c, Always) PROVE PageOK(page)'
    <2>1. Mine' = Matching(c, Always)
        BY <1>1, Times DEF Mine, Matching, Ids
    <2>2. /\ page \subseteq Matching(c, Always)
          /\ \A id \in Matching(c, Always) \ page : page # {} /\ \A x \in page : At(id) <= At(x)
        BY <1>1, <1>4, FreshPage
    <2>3. \A x : At(x)' = At(x)
        BY <1>1 DEF At
    <2>4. QED BY <2>1, <2>2, <2>3 DEF PageOK
<1>5. FetchOK(f)'
    BY <1>1, <1>2, <1>3, <1>4 DEF FetchOK
<1>6. Fetching({"load"})'
    BY <1>3 DEF Fetching
<1>7. QED BY <1>3, <1>5, <1>6

\* Older messages are asked for: nothing else is under way, if it is calm.
LEMMA LoadMoreThread ==
    ASSUME ThreadInv, TypeOK', LoadMore
    PROVE  ThreadInv'
<1> SUFFICES ASSUME calm'
             PROVE  (\A f \in fetches' : FetchOK(f)') /\ (~Fetching({"load"})' => ThreadOK')
    BY DEF ThreadInv, Sound
<1>1. /\ TypeOK /\ calm /\ selected # None /\ ~loading /\ thread # <<>> /\ loading' = TRUE
      /\ Fetch("more", selected, At(Head(thread))) /\ ~Fetching({"refetch"})
      /\ UNCHANGED <<msgs, inbox, jobs, selected, thread>>
    BY DEF ThreadInv, LoadMore, gatewayVars, TypeOK
<1>2. (\A f \in fetches : FetchOK(f)) /\ (~Fetching({"load"}) => ThreadOK) /\ selected \in Convs
    BY <1>1 DEF ThreadInv, Sound, TypeOK
<1>3. fetches = {}
    <2>1. \A f \in fetches : f.kind \in {"load", "more", "refetch"}
        BY <1>1 DEF TypeOK, Page
    <2>2. \A f \in fetches : f.kind \notin {"load", "more"}
        BY <1>1, <1>2 DEF FetchOK
    <2>3. QED BY <1>1, <2>1, <2>2 DEF Fetching
<1>4. ThreadOK
    BY <1>2, <1>3 DEF Fetching
<1>5. PICK page : /\ page = Refused \/ page \in Pages(selected, At(Head(thread)))
                  /\ fetches' = fetches \cup {[kind |-> "more", conv |-> selected, page |-> page]}
    BY <1>1, <1>2, FetchStep
<1>6. PICK f \in fetches' : /\ f.kind = "more" /\ f.conv = selected /\ f.page = page
                            /\ \A g \in fetches' : g = f
    BY <1>3, <1>5
<1>7. Mine' = Mine /\ Outstanding' = Outstanding /\ Shown' = Shown /\ \A x : At(x)' = At(x)
    BY <1>1 DEF Mine, Ids, Outstanding, Shown, At
<1>8. ASSUME page \in Pages(selected, At(Head(thread))) PROVE OlderOK(page)
    <2> DEFINE found == Matching(selected, At(Head(thread)))
    <2>1. /\ page \subseteq found
          /\ \A id \in found \ page : page # {} /\ \A x \in page : At(id) <= At(x)
        BY <1>1, <1>8, FreshPage
    <2>2. \A id \in Mine : At(id) < At(Head(thread)) <=> id \in found
        BY DEF Mine, Matching
    <2>3. found \subseteq Mine /\ \A x \in found : At(x) < At(Head(thread))
        BY DEF Mine, Matching
    <2> HIDE DEF found
    <2>4. QED BY <1>1, <1>4, <2>1, <2>2, <2>3 DEF OlderOK, ThreadOK
<1>9. ASSUME page \in Pages(selected, At(Head(thread))) PROVE OlderOK(page)'
    BY <1>1, <1>7, <1>8, <1>9 DEF OlderOK, At
<1>10. FetchOK(f)'
    BY <1>1, <1>5, <1>6, <1>9 DEF FetchOK
<1>11. ThreadOK'
    BY <1>1, <1>4, <1>7 DEF ThreadOK, At
<1>12. QED BY <1>6, <1>10, <1>11

\* A participant has read the conversation: the newest page is asked for.
LEMMA ReadThread ==
    ASSUME ThreadInv, TypeOK', ConversationRead
    PROVE  ThreadInv'
<1>1. /\ TypeOK /\ Take("conversation_read_updated")
      /\ UNCHANGED <<msgs, jobs, selected, thread, loading>>
    BY DEF ThreadInv, ConversationRead
<1>2. \A i \in Outstanding \cap Mine : i \in Outstanding'
    BY <1>1, TakenOutstanding DEF Mine
<1>3. Ids' = Ids /\ Mine' = Mine /\ Shown' = Shown /\ \A x : At(x)' = At(x)
    BY <1>1 DEF Mine, Ids, Shown, At
<1>4. CASE UNCHANGED <<fetches, calm>>
    <2>1. \A i \in Ids : i \in Ids' /\ msgs'[i] = msgs[i]
        BY <1>1, <1>3
    <2>2. QED BY <1>1, <1>2, <1>3, <1>4, <2>1, QuietStep
<1>5. CASE Head(inbox).conv = selected
    <2> SUFFICES ASSUME calm', selected # None
                 PROVE  (\A f \in fetches' : FetchOK(f)') /\ (~Fetching({"load"})' => ThreadOK')
        BY <1>1 DEF ThreadInv, Sound
    <2>1. Fetch("refetch", selected, Always) /\ calm /\ ~Fetching({"more"}) /\ selected \in Convs
        BY <1>1, <1>5 DEF ConversationRead, TypeOK
    <2>2. (\A f \in fetches : FetchOK(f)) /\ (~Fetching({"load"}) => ThreadOK)
        BY <2>1 DEF ThreadInv, Sound
    <2>3. PICK page : /\ page = Refused \/ page \in Pages(selected, Always)
                      /\ fetches' = fetches \cup {[kind |-> "refetch", conv |-> selected, page |-> page]}
        BY <1>1, <2>1, FetchStep
    <2>4. PICK f \in fetches' : /\ f.kind = "refetch" /\ f.conv = selected /\ f.page = page
                                /\ \A g \in fetches' : g \in fetches \/ g = f
        BY <2>3
    <2>5. ASSUME NEW p, PageOK(p) PROVE PageOK(p)'
        BY <1>2, <1>3, <2>5 DEF PageOK
    <2>6. FetchOK(f)'
        BY <1>1, <2>3, <2>4, <2>5, NewestPage DEF FetchOK
    <2>7. ASSUME NEW g \in fetches PROVE FetchOK(g)'
        <3>1. FetchOK(g) /\ g.kind # "more"
            BY <2>1, <2>2 DEF Fetching
        <3>2. QED BY <1>1, <2>4, <2>5, <3>1 DEF FetchOK
    <2>8. ASSUME ThreadOK PROVE ThreadOK'
        BY <1>1, <1>2, <1>3, <2>8 DEF ThreadOK, At
    <2>9. ~Fetching({"load"})' => ~Fetching({"load"})
        BY <2>3 DEF Fetching
    <2>10. QED BY <2>2, <2>4, <2>6, <2>7, <2>8, <2>9
<1>6. QED BY <1>4, <1>5 DEF ConversationRead

\* What the next thread has to satisfy, in terms of the messages of this state.
LEMMA NewThread ==
    ASSUME NEW t \in Seq(Nat), thread' = t, UNCHANGED <<msgs, selected>>,
           \A i, j \in 1 .. Len(t) : i < j => t[i] # t[j] /\ At(t[i]) <= At(t[j]),
           \A k \in 1 .. Len(t) : t[k] \in Mine,
           \A id \in Mine \ Outstanding' :
             \/ \E k \in 1 .. Len(t) : At(t[k]) = At(id)
             \/ t # <<>> /\ At(id) < At(t[1])
    PROVE  ThreadOK'
<1>1. Mine' = Mine /\ \A x : At(x)' = At(x)
    BY DEF Mine, Ids, At
<1>2. Shown' = {t[k] : k \in 1 .. Len(t)}
    BY DEF Shown
<1>3. (\A i, j \in 1 .. Len(thread) : i < j => thread[i] # thread[j] /\ At(thread[i]) <= At(thread[j]))'
    BY DEF At
<1>4. Shown' \subseteq Mine'
    BY <1>1, <1>2
<1>5. t # <<>> => Head(t) = t[1]
    OBVIOUS
<1>6. ASSUME NEW id \in Mine' \ (Shown' \cup Outstanding')
      PROVE  \/ (thread # <<>> /\ At(id) < At(Head(thread)))'
             \/ \E x \in Shown' : At(x)' = At(id)'
    <2>1. CASE \E k \in 1 .. Len(t) : At(t[k]) = At(id)
        BY <1>1, <1>2, <2>1
    <2>2. CASE t # <<>> /\ At(id) < At(t[1])
        BY <1>5, <2>2 DEF At
    <2>3. QED BY <1>1, <1>6, <2>1, <2>2
<1>7. QED BY <1>3, <1>4, <1>6 DEF ThreadOK

\* A page arrives: it replaces the thread, or goes before it.
LEMMA ArriveThread ==
    ASSUME ThreadInv, TypeOK', NEW f \in fetches, Arrive(f)
    PROVE  ThreadInv'
<1> SUFFICES ASSUME calm', selected' # None
             PROVE  (\A g \in fetches' : FetchOK(g)') /\ ThreadOK'
    BY DEF ThreadInv, Sound
<1> DEFINE es == IF f.kind = "load" THEN ReadCopies(f.conv) ELSE <<>>
           q == Sorted(f.page)
           m == Cardinality(f.page)
           n == Len(thread)
<1>1. /\ TypeOK /\ calm /\ selected # None /\ f.page # Refused /\ fetches' = fetches \ {f}
      /\ thread' = IF f.kind = "more" THEN q \o thread ELSE q
      /\ loading' = (loading /\ f.kind = "refetch") /\ Emit(es)
      /\ UNCHANGED <<msgs, jobs, selected>>
    BY DEF ThreadInv, Arrive
<1>2. (\A g \in fetches : FetchOK(g)) /\ (~Fetching({"load"}) => ThreadOK)
    BY <1>1 DEF ThreadInv, Sound
<1>3. EventsOK(es)
    <2>1. f.conv \in Convs
        BY <1>1 DEF TypeOK, Page
    <2>2. QED BY <1>1, <2>1, EmittedOK
<1> HIDE DEF es
<1>4. Outstanding \subseteq Outstanding'
    BY <1>1, <1>3, EmittedOutstanding
<1>5. Mine' = Mine /\ \A x : At(x)' = At(x)
    BY <1>1 DEF Mine, Ids, At
<1>6. ASSUME NEW g \in fetches' PROVE FetchOK(g)'
    <2>1. g \in fetches /\ g # f /\ FetchOK(g) /\ FetchOK(f)
        BY <1>1, <1>2
    <2>2. g.kind # "more" /\ f.kind # "more"
        BY <2>1 DEF FetchOK
    <2>3. PageOK(g.page) => PageOK(g.page)'
        BY <1>4, <1>5 DEF PageOK
    <2>4. g.kind = "load" => f.kind # "load" /\ loading
        BY <2>1 DEF FetchOK
    <2>5. f.kind \in {"load", "more", "refetch"}
        BY <1>1 DEF TypeOK, Page
    <2>6. QED BY <1>1, <2>1, <2>2, <2>3, <2>4, <2>5 DEF FetchOK
<1>7. /\ f.page \subseteq Ids /\ m \in Nat /\ q \in Seq(Nat) /\ Len(q) = m
      /\ \A k \in 1 .. m : q[k] \in f.page
      /\ \A i, j \in 1 .. m : i < j => q[i] < q[j]
      /\ \A x \in f.page : \E k \in 1 .. m : q[k] = x
    BY <1>1, ArrivedPage
<1> HIDE DEF q, m
<1>8. \A x \in Ids : At(x) \in Nat /\ x \in Nat /\ \A y \in Ids : y <= x => At(y) <= At(x)
    BY <1>1, Times DEF Ids
<1>9. \A i, j \in 1 .. m : i < j => q[i] # q[j] /\ At(q[i]) <= At(q[j])
    <2> SUFFICES ASSUME NEW i \in 1 .. m, NEW j \in 1 .. m, i < j
                 PROVE  q[i] # q[j] /\ At(q[i]) <= At(q[j])
        OBVIOUS
    <2>1. q[i] \in Ids /\ q[j] \in Ids /\ q[i] < q[j] /\ q[i] \in Nat /\ q[j] \in Nat
        BY <1>7, <1>8
    <2>2. q[i] <= q[j] /\ q[i] # q[j]
        BY <2>1
    <2>3. QED BY <1>8, <2>1, <2>2
<1>10. ASSUME f.page # {}, NEW id \in Ids, \A x \in f.page : At(id) <= At(x)
       PROVE  1 \in 1 .. m /\ (At(id) < At(q[1]) \/ At(q[1]) = At(id))
    <2>1. 1 \in 1 .. m
        BY <1>7, <1>10
    <2>2. At(id) <= At(q[1]) /\ q[1] \in Ids
        BY <1>7, <1>10, <2>1
    <2>3. QED BY <1>8, <2>1, <2>2
<1>11. CASE f.kind # "more"
    <2>1. PageOK(f.page) /\ thread' = q
        BY <1>1, <1>2, <1>11 DEF FetchOK
    <2>2. ASSUME NEW id \in Mine \ Outstanding'
          PROVE  \/ \E k \in 1 .. m : At(q[k]) = At(id)
                 \/ q # <<>> /\ At(id) < At(q[1])
        <3>1. CASE id \in f.page
            BY <1>7, <3>1
        <3>2. CASE id \notin f.page
            <4>1. f.page # {} /\ \A x \in f.page : At(id) <= At(x)
                BY <1>4, <2>1, <2>2, <3>2 DEF PageOK
            <4>2. 1 \in 1 .. m /\ (At(id) < At(q[1]) \/ At(q[1]) = At(id))
                BY <1>10, <4>1 DEF Mine
            <4>3. q # <<>>
                BY <1>7, <4>2
            <4>4. QED BY <4>2, <4>3
        <3>3. QED BY <3>1, <3>2
    <2>3. \A k \in 1 .. m : q[k] \in Mine
        BY <1>7, <2>1 DEF PageOK
    <2>4. ThreadOK'
        BY <1>1, <1>7, <1>9, <2>1, <2>2, <2>3, NewThread
    <2>5. QED BY <1>6, <2>4
<1>12. CASE f.kind = "more"
    <2>1. OlderOK(f.page) /\ \A g \in fetches : g = f
        BY <1>1, <1>2, <1>12 DEF FetchOK
    <2>2. ThreadOK
        BY <1>2, <1>12, <2>1 DEF Fetching
    <2>3. thread \in Seq(Nat) /\ n \in Nat /\ thread # <<>> /\ Head(thread) = thread[1] /\ 1 \in 1 .. n
        BY <1>1, <2>1 DEF TypeOK, OlderOK
    <2>4. \A k \in 1 .. n : thread[k] \in Ids
        BY <1>1 DEF TypeOK
    <2>5. /\ \A i, j \in 1 .. n : i < j => thread[i] # thread[j] /\ At(thread[i]) <= At(thread[j])
          /\ \A k \in 1 .. n : thread[k] \in Mine
        BY <2>2 DEF ThreadOK, Shown
    <2> DEFINE t == q \o thread
    <2>6. /\ t \in Seq(Nat) /\ Len(t) = m + n
          /\ \A k \in 1 .. m + n : t[k] = IF k <= m THEN q[k] ELSE thread[k - m]
        <3>1. /\ t \in Seq(Nat) /\ Len(t) = Len(q) + Len(thread)
              /\ \A k \in 1 .. Len(q) + Len(thread) :
                   t[k] = IF k <= Len(q) THEN q[k] ELSE thread[k - Len(q)]
            <4>1. q \in Seq(Nat) /\ thread \in Seq(Nat)
                BY <1>7, <2>3
            <4>2. QED BY ONLY <4>1, ConcatProperties
        <3>2. Len(q) = m
            BY <1>7
        <3> HIDE DEF t
        <3>3. QED BY <3>1, <3>2
    <2>7. thread' = t
        BY <1>1, <1>12
    <2> HIDE DEF t, n
    <2>8. ASSUME NEW k \in 1 .. m + n
          PROVE  \/ k \in 1 .. m /\ t[k] = q[k]
                 \/ k > m /\ k - m \in 1 .. n /\ t[k] = thread[k - m]
        BY <1>7, <2>3, <2>6
    <2>9. \A i \in 1 .. n : At(thread[1]) <= At(thread[i])
        <3> SUFFICES ASSUME NEW i \in 1 .. n PROVE At(thread[1]) <= At(thread[i])
            OBVIOUS
        <3>1. CASE i = 1
            <4>1. At(thread[1]) \in Nat
                BY <1>8, <2>3, <2>4
            <4>2. QED BY <3>1, <4>1
        <3>2. CASE i # 1
            <4>1. 1 < i
                BY <2>3, <3>2
            <4>2. QED BY <2>3, <2>5, <4>1
        <3>3. QED BY <3>1, <3>2
    <2>10. ASSUME NEW k \in 1 .. m, NEW i \in 1 .. n PROVE At(q[k]) < At(thread[i])
        <3>1. At(q[k]) < At(thread[1])
            BY <1>7, <2>1, <2>3 DEF OlderOK
        <3>2. At(thread[1]) <= At(thread[i])
            BY <2>9
        <3>3. At(q[k]) \in Nat /\ At(thread[1]) \in Nat /\ At(thread[i]) \in Nat
            BY <1>7, <1>8, <2>3, <2>4
        <3>4. QED BY <3>1, <3>2, <3>3
    <2>11. ASSUME NEW i \in 1 .. m + n, NEW j \in 1 .. m + n, i < j
           PROVE  t[i] # t[j] /\ At(t[i]) <= At(t[j])
        <3>1. CASE j \in 1 .. m
            <4>1. i \in 1 .. m /\ t[i] = q[i] /\ t[j] = q[j]
                BY <1>7, <2>6, <2>11, <3>1
            <4>2. QED BY <1>9, <2>11, <3>1, <4>1
        <3>2. CASE i \in 1 .. m /\ j \notin 1 .. m
            <4>1. t[i] = q[i] /\ j - m \in 1 .. n /\ t[j] = thread[j - m]
                BY <1>7, <2>8, <3>2
            <4>2. PICK k \in 1 .. n : t[j] = thread[k]
                BY <4>1
            <4>3. At(t[i]) < At(t[j]) /\ At(t[i]) \in Nat /\ At(t[j]) \in Nat
                BY <1>7, <1>8, <2>4, <2>10, <3>2, <4>1, <4>2
            <4>4. QED BY <4>3
        <3>3. CASE i \notin 1 .. m /\ j \notin 1 .. m
            <4>1. /\ i - m \in 1 .. n /\ t[i] = thread[i - m] /\ j - m \in 1 .. n /\ t[j] = thread[j - m]
                  /\ i - m < j - m
                BY <1>7, <2>3, <2>8, <2>11, <3>3
            <4>2. QED BY <2>5, <4>1
        <3>4. QED
            <4>1. j \notin 1 .. m \/ j \in 1 .. m
                OBVIOUS
            <4>2. QED BY <3>1, <3>2, <3>3, <4>1
    <2>12. ASSUME NEW k \in 1 .. m + n PROVE t[k] \in Mine
        BY <1>7, <2>1, <2>5, <2>8 DEF OlderOK
    <2>13. (\A k \in 1 .. m : k \in 1 .. m + n /\ t[k] = q[k])
           /\ (\A k \in 1 .. n : m + k \in 1 .. m + n /\ t[m + k] = thread[k])
        <3>1. \A k \in 1 .. m : k \in 1 .. m + n /\ t[k] = q[k]
            BY <1>7, <2>3, <2>6, SMTT(30)
        <3>2. ASSUME NEW k \in 1 .. n PROVE m + k \in 1 .. m + n /\ t[m + k] = thread[k]
            <4>1. m + k \in 1 .. m + n /\ ~(m + k <= m) /\ (m + k) - m = k
                BY <1>7, <2>3
            <4>2. QED BY <2>6, <4>1
        <3>3. QED BY <3>1, <3>2
    <2>14. ASSUME NEW id \in Mine \ Outstanding'
           PROVE  \/ \E k \in 1 .. m + n : At(t[k]) = At(id)
                  \/ t # <<>> /\ At(id) < At(t[1])
        <3>1. CASE id \in f.page
            <4>1. PICK k \in 1 .. m : q[k] = id
                BY <1>7, <3>1
            <4>2. QED BY <2>13, <4>1
        <3>2. CASE \E x \in Shown : At(x) = At(id)
            <4>1. PICK k \in 1 .. n : At(thread[k]) = At(id)
                BY <3>2 DEF Shown, n
            <4>2. QED BY <2>13, <4>1
        <3>3. CASE f.page # {} /\ \A x \in f.page : At(id) <= At(x)
            <4>1. 1 \in 1 .. m /\ (At(id) < At(q[1]) \/ At(q[1]) = At(id))
                BY <1>10, <3>3 DEF Mine
            <4>2. t # <<>> /\ t[1] = q[1] /\ 1 \in 1 .. m + n
                BY <2>6, <2>13, <4>1
            <4>3. QED BY <4>1, <4>2
        <3>4. CASE id \in Shown
            BY <3>2, <3>4
        <3>5. QED BY <1>4, <2>1, <2>14, <3>1, <3>2, <3>3, <3>4 DEF OlderOK
    <2>15. ThreadOK'
        <3>1. \A i, j \in 1 .. Len(t) : i < j => t[i] # t[j] /\ At(t[i]) <= At(t[j])
            BY <2>6, <2>11
        <3>2. \A k \in 1 .. Len(t) : t[k] \in Mine
            BY <2>6, <2>12
        <3>3. \A id \in Mine \ Outstanding' :
                \/ \E k \in 1 .. Len(t) : At(t[k]) = At(id)
                \/ t # <<>> /\ At(id) < At(t[1])
            BY <2>6, <2>14
        <3>4. PICK u \in Seq(Nat) : u = t
            BY <2>6
        <3>5. QED BY <1>1, <2>7, <3>1, <3>2, <3>3, <3>4, NewThread
    <2>16. QED BY <1>6, <2>15
<1>13. QED BY <1>11, <1>12

\* A page does not arrive.
LEMMA FailedThread ==
    ASSUME ThreadInv, TypeOK', NEW f \in fetches, FetchFailed(f)
    PROVE  ThreadInv'
<1> SUFFICES ASSUME calm', selected' # None
             PROVE  (\A g \in fetches' : FetchOK(g)') /\ (~Fetching({"load"})' => ThreadOK')
    BY DEF ThreadInv, Sound
<1>1. /\ TypeOK /\ calm /\ selected # None /\ fetches' = fetches \ {f} /\ f.kind # "load"
      /\ loading' = (loading /\ f.kind = "refetch")
      /\ UNCHANGED <<msgs, inbox, jobs, selected, thread>>
    BY DEF ThreadInv, FetchFailed, gatewayVars, TypeOK
<1>2. (\A g \in fetches : FetchOK(g)) /\ (~Fetching({"load"}) => ThreadOK)
    BY <1>1 DEF ThreadInv, Sound
<1>3. Mine' = Mine /\ Outstanding' = Outstanding /\ Shown' = Shown /\ \A x : At(x)' = At(x)
    BY <1>1 DEF Mine, Ids, Outstanding, Shown, At
<1>4. ASSUME NEW g \in fetches' PROVE FetchOK(g)'
    <2>1. g \in fetches /\ g # f /\ FetchOK(g) /\ FetchOK(f)
        BY <1>1, <1>2
    <2>2. g.kind # "more" /\ f.kind # "more"
        BY <2>1 DEF FetchOK
    <2>3. PageOK(g.page) => PageOK(g.page)'
        BY <1>3 DEF PageOK
    <2>4. f.kind = "refetch"
        BY <1>1, <2>2 DEF TypeOK, Page
    <2>5. QED BY <1>1, <2>1, <2>2, <2>3, <2>4 DEF FetchOK
<1>5. ~Fetching({"load"})' => ~Fetching({"load"})
    BY <1>1 DEF Fetching
<1>6. ThreadOK => ThreadOK'
    BY <1>1, <1>3 DEF ThreadOK, At
<1>7. QED BY <1>2, <1>4, <1>5, <1>6

\* A message is delivered: a thread that shows it changes no more, another gets it
\* at its time; a page that was taken before it ends the calm.
LEMMA DeliveredThread ==
    ASSUME ThreadInv, TypeOK', MessageDelivered
    PROVE  ThreadInv'
<1> SUFFICES ASSUME calm', selected' # None
             PROVE  (\A g \in fetches' : FetchOK(g)') /\ (~Fetching({"load"})' => ThreadOK')
    BY DEF ThreadInv, Sound
<1>1. TypeOK /\ Take("message_delivered") /\ UNCHANGED <<msgs, jobs, selected, loading, fetches>>
    BY DEF ThreadInv, MessageDelivered
<1>2. PICK id \in Ids : id = inbox[1].id /\ id = Head(inbox).id
    <2>1. Head(inbox) = inbox[1] /\ inbox[1].t = "message_delivered" /\ 1 \in 1 .. Len(inbox)
        BY <1>1, TakeStep
    <2>2. QED BY <1>1, <2>1 DEF TypeOK, EventsOK
<1>3. /\ thread' = IF msgs[id].conv = selected THEN Upsert(thread, id) ELSE thread
      /\ calm /\ ~Overwritten(id) /\ ~Belated(id) /\ selected # None
    BY <1>1, <1>2 DEF MessageDelivered, TypeOK
<1>4. (\A f \in fetches : FetchOK(f)) /\ (~Fetching({"load"}) => ThreadOK)
    BY <1>3 DEF ThreadInv, Sound
<1>5. \A i \in Outstanding : i = id \/ i \in Outstanding'
    BY <1>1, <1>2, TakenOutstanding
<1>6. Mine' = Mine /\ Mine \subseteq Ids /\ \A x : At(x)' = At(x)
    BY <1>1 DEF Mine, Ids, At
<1>7. \A x \in Ids : At(x) \in Nat
    BY <1>1, Times
<1>8. thread \in Seq(Nat) /\ Len(thread) \in Nat /\ \A k \in 1 .. Len(thread) : thread[k] \in Ids
    BY <1>1 DEF TypeOK
<1>9. Shown = ToSet(thread)
    BY <1>8 DEF Shown, ToSet
<1>10. ASSUME NEW f \in fetches, f.kind # "more", f.page # Refused PROVE PageOK(f.page)'
    <2>1. PageOK(f.page) /\ id \in f.page
        BY <1>3, <1>4, <1>10 DEF FetchOK, Overwritten
    <2>2. QED BY <1>5, <1>6, <2>1 DEF PageOK
<1>11. ASSUME \A page : OlderOK(page) /\ ~Fetching({"load"}) => OlderOK(page)'
       PROVE  \A f \in fetches' : FetchOK(f)'
    <2> SUFFICES ASSUME NEW f \in fetches PROVE FetchOK(f)'
        BY <1>1
    <2>1. FetchOK(f)
        BY <1>4
    <2>2. f.kind = "more" => ~Fetching({"load"})
        BY <2>1 DEF FetchOK, Fetching
    <2>3. QED BY <1>1, <1>10, <1>11, <2>1, <2>2 DEF FetchOK
<1>12. CASE msgs[id].conv # selected \/ id \in Shown
    <2>1. thread' = thread /\ Shown' = Shown /\ (id \in Mine => id \in Shown)
        <3>1. id \in ToSet(thread) => Upsert(thread, id) = thread
            BY <1>1, UpsertStep
        <3>2. thread' = thread
            BY <1>3, <1>9, <1>12, <3>1
        <3>3. QED BY <1>12, <3>2 DEF Shown, Mine
    <2>2. ASSUME NEW page, OlderOK(page) PROVE OlderOK(page)'
        <3>1. /\ thread # <<>> /\ page \subseteq Mine /\ \A x \in page : At(x) < At(Head(thread))
              /\ \A i \in Mine \ (page \cup Shown \cup Outstanding) :
                   \/ \E x \in Shown : At(x) = At(i)
                   \/ page # {} /\ \A x \in page : At(i) <= At(x)
            BY <2>2 DEF OlderOK
        <3>2. Mine' \ (page \cup Shown' \cup Outstanding') \subseteq Mine \ (page \cup Shown \cup Outstanding)
            BY <1>5, <1>6, <2>1
        <3>3. (\A x \in page : At(x) < At(Head(thread)))'
            BY <1>1, <2>1, <3>1 DEF At
        <3>4. QED BY <1>6, <2>1, <3>1, <3>2, <3>3 DEF OlderOK
    <2>3. ASSUME ThreadOK PROVE ThreadOK'
        <3>1. Mine' \ (Shown' \cup Outstanding') \subseteq Mine \ (Shown \cup Outstanding)
            BY <1>5, <1>6, <2>1
        <3>2. (\A i, j \in 1 .. Len(thread) : i < j => thread[i] # thread[j] /\ At(thread[i]) <= At(thread[j]))'
            BY <1>1, <2>1, <2>3 DEF ThreadOK, At
        <3>3. \A i \in Mine \ (Shown \cup Outstanding) :
                \/ (thread # <<>> /\ At(i) < At(Head(thread)))'
                \/ \E x \in Shown : At(x) = At(i)
            BY <1>1, <2>1, <2>3 DEF ThreadOK, At
        <3>4. QED BY <1>6, <2>1, <2>3, <3>1, <3>2, <3>3 DEF ThreadOK
    <2>4. QED BY <1>1, <1>4, <1>11, <2>2, <2>3 DEF Fetching
<1>13. CASE msgs[id].conv = selected /\ id \notin Shown
    <2> DEFINE n == Len(thread)
    <2>1. PICK t \in Seq(Nat) : t = Upsert(thread, id)
        BY <1>1, UpsertStep
    <2>2. /\ \A k \in 1 .. Len(t) : t[k] \in Ids
          /\ Len(t) = n + 1
          /\ \A i, j \in 1 .. n + 1 : i < j => At(t[i]) <= At(t[j])
        BY <1>1, <1>9, <1>13, <2>1, UpsertStep
    <2>3. PICK p \in [1 .. n + 1 -> 1 .. n + 1] :
            /\ \A i, j \in 1 .. n + 1 : p[i] = p[j] => i = j
            /\ \A k \in 1 .. n + 1 : \E i \in 1 .. n + 1 : p[i] = k
            /\ \A i \in 1 .. n + 1 : t[i] = IF p[i] = n + 1 THEN id ELSE thread[p[i]]
        <3> DEFINE u == Upsert(thread, id)
        <3>1. \E p \in [1 .. Len(thread) + 1 -> 1 .. Len(thread) + 1] :
                /\ \A i, j \in 1 .. Len(thread) + 1 : p[i] = p[j] => i = j
                /\ \A k \in 1 .. Len(thread) + 1 : \E i \in 1 .. Len(thread) + 1 : p[i] = k
                /\ \A i \in 1 .. Len(thread) + 1 :
                     u[i] = IF p[i] = Len(thread) + 1 THEN id ELSE thread[p[i]]
            BY <1>1, <1>9, <1>13, UpsertStep
        <3>2. u = t
            BY <2>1
        <3> HIDE DEF u
        <3>3. QED BY <3>1, <3>2
    <2>4. thread' = t /\ id \in Mine
        BY <1>3, <1>13, <2>1 DEF Mine
    <2>5. n \in Nat
        BY <1>8
    <2>6. Shown = {thread[k] : k \in 1 .. n}
        BY DEF Shown
    <2>7. \A k \in 1 .. n : thread[k] \in Ids
        BY <1>8
    <2>8. thread # <<>> => 1 \in 1 .. n /\ Head(thread) = thread[1]
        BY <1>8
    <2> HIDE DEF n
    <2>9. ASSUME NEW i \in 1 .. n + 1
          PROVE  (p[i] = n + 1 /\ t[i] = id) \/ (p[i] \in 1 .. n /\ t[i] = thread[p[i]])
        <3>0. p[i] \in 1 .. n + 1
            OBVIOUS
        <3>1. p[i] # n + 1 => p[i] \in 1 .. n
            <4>1. \A k \in 1 .. n + 1 : k # n + 1 => k \in 1 .. n
                BY ONLY <2>5
            <4>2. QED BY <3>0, <4>1
        <3>2. QED BY <2>3, <3>1
    <2>10. ASSUME NEW i \in 1 .. n + 1 PROVE t[i] \in Shown \cup {id}
        BY <2>6, <2>9
    <2>11. \A x \in Shown \cup {id} : \E i \in 1 .. n + 1 : t[i] = x
        <3>1. ASSUME NEW k \in 1 .. n PROVE \E i \in 1 .. n + 1 : t[i] = thread[k]
            <4>1. k \in 1 .. n + 1 /\ k # n + 1
                BY <2>5
            <4>2. PICK i \in 1 .. n + 1 : p[i] = k
                BY <2>3, <4>1
            <4>3. QED BY <2>3, <4>1, <4>2
        <3>2. \E i \in 1 .. n + 1 : t[i] = id
            <4>1. n + 1 \in 1 .. n + 1
                BY <2>5
            <4>2. PICK i \in 1 .. n + 1 : p[i] = n + 1
                BY <2>3, <4>1
            <4>3. QED BY <2>3, <4>2
        <3>3. QED BY <2>6, <3>1, <3>2
    <2>12. Shown' = Shown \cup {id} /\ 1 \in 1 .. n + 1 /\ t # <<>> /\ Head(t) = t[1]
        <3>1. Shown' = {t[k] : k \in 1 .. n + 1}
            BY <2>2, <2>4 DEF Shown
        <3>2. 1 \in 1 .. n + 1 /\ t # <<>>
            BY <2>2, <2>5
        <3>3. Head(t) = t[1]
            BY <3>2
        <3>4. QED BY <2>10, <2>11, <3>1, <3>2, <3>3
    <2>13. ASSUME ThreadOK, thread # <<>> PROVE At(thread[1]) <= At(t[1])
        <3>1. At(thread[1]) \in Nat /\ At(id) \in Nat
            BY <1>7, <2>7, <2>8, <2>13
        <3>2. CASE t[1] = id
            <4>1. ~(At(id) < At(thread[1]))
                BY <1>3, <1>9, <1>13, <2>8, <2>13 DEF Belated
            <4>2. QED BY <3>1, <3>2, <4>1
        <3>3. CASE p[1] \in 1 .. n /\ t[1] = thread[p[1]]
            <4>1. CASE p[1] = 1
                BY <3>1, <3>3, <4>1
            <4>2. CASE p[1] # 1
                <5>1. 1 < p[1]
                    BY <2>5, <3>3, <4>2
                <5>2. QED BY <2>8, <2>13, <3>3, <5>1 DEF ThreadOK, n
            <4>3. QED BY <4>1, <4>2
        <3>4. QED BY <2>9, <2>12, <3>2, <3>3
    <2>14. ASSUME ThreadOK PROVE ThreadOK'
        <3>1. \A i, j \in 1 .. n : i # j => thread[i] # thread[j]
            <4> SUFFICES ASSUME NEW i \in 1 .. n, NEW j \in 1 .. n, i # j PROVE thread[i] # thread[j]
                OBVIOUS
            <4>1. i < j \/ j < i
                BY <2>5
            <4>2. QED BY <2>14, <4>1 DEF ThreadOK, n
        <3>2. ASSUME NEW i \in 1 .. n + 1, NEW j \in 1 .. n + 1, i < j
              PROVE  t[i] # t[j] /\ At(t[i]) <= At(t[j])
            <4>1. p[i] # p[j]
                <5>1. i # j
                    BY <2>5, <3>2
                <5>2. QED BY <2>3, <5>1
            <4>2. \A k \in 1 .. n : thread[k] # id
                BY <1>13, <2>6
            <4>3. t[i] # t[j]
                BY <2>9, <3>1, <4>1, <4>2
            <4>4. QED BY <2>2, <3>2, <4>3
        <3>3. ASSUME NEW k \in 1 .. n + 1 PROVE t[k] \in Mine
            BY <2>4, <2>10, <2>14 DEF ThreadOK
        <3>4. ASSUME NEW i \in Mine \ Outstanding'
              PROVE  \/ \E k \in 1 .. n + 1 : At(t[k]) = At(i)
                     \/ t # <<>> /\ At(i) < At(t[1])
            <4>1. CASE i \in Shown \cup {id}
                BY <2>11, <4>1
            <4>2. CASE \E x \in Shown : At(x) = At(i)
                BY <2>11, <4>2
            <4>3. CASE thread # <<>> /\ At(i) < At(Head(thread))
                <5>1. At(thread[1]) <= At(t[1]) /\ At(i) < At(thread[1])
                    BY <2>8, <2>13, <2>14, <4>3
                <5>2. At(i) \in Nat /\ At(thread[1]) \in Nat /\ At(t[1]) \in Nat
                    BY <1>6, <1>7, <2>2, <2>7, <2>8, <2>12, <4>3
                <5>3. QED BY <2>12, <5>1, <5>2
            <4>4. QED BY <1>5, <2>14, <3>4, <4>1, <4>2, <4>3 DEF ThreadOK
        <3>5. /\ \A i, j \in 1 .. Len(t) : i < j => t[i] # t[j] /\ At(t[i]) <= At(t[j])
              /\ \A k \in 1 .. Len(t) : t[k] \in Mine
              /\ \A i \in Mine \ Outstanding' :
                   \/ \E k \in 1 .. Len(t) : At(t[k]) = At(i)
                   \/ t # <<>> /\ At(i) < At(t[1])
            BY <2>2, <3>2, <3>3, <3>4
        <3>6. QED BY <1>1, <2>4, <3>5, NewThread
    <2>15. ASSUME NEW page, OlderOK(page), ThreadOK PROVE OlderOK(page)'
        <3>1. /\ thread # <<>> /\ page \subseteq Mine /\ \A x \in page : At(x) < At(Head(thread))
              /\ \A i \in Mine \ (page \cup Shown \cup Outstanding) :
                   \/ \E x \in Shown : At(x) = At(i)
                   \/ page # {} /\ \A x \in page : At(i) <= At(x)
            BY <2>15 DEF OlderOK
        <3>2. Mine' \ (page \cup Shown' \cup Outstanding') \subseteq Mine \ (page \cup Shown \cup Outstanding)
            BY <1>5, <1>6, <2>12
        <3>3. ASSUME NEW x \in page PROVE At(x) < At(t[1])
            <4>1. At(x) < At(thread[1]) /\ At(thread[1]) <= At(t[1])
                BY <2>8, <2>13, <2>15, <3>1
            <4>2. At(x) \in Nat /\ At(thread[1]) \in Nat /\ At(t[1]) \in Nat
                BY <1>6, <1>7, <2>2, <2>7, <2>8, <2>12, <3>1
            <4>3. QED BY <4>1, <4>2
        <3>4. (\A x \in page : At(x) < At(Head(thread)))'
            BY <1>1, <2>4, <2>12, <3>3 DEF At
        <3>5. QED BY <1>6, <2>4, <2>12, <3>1, <3>2, <3>4 DEF OlderOK
    <2>16. QED BY <1>1, <1>4, <1>11, <2>14, <2>15 DEF Fetching
<1>14. QED BY <1>12, <1>13

\* Every step keeps the thread's invariant.
LEMMA NextThread == ThreadInv /\ [Next]_vars => ThreadInv'
<1> SUFFICES ASSUME ThreadInv, [Next]_vars PROVE ThreadInv'
    OBVIOUS
<1>1. TypeOK'
    BY NextType DEF ThreadInv
<1>2. CASE Leave
    BY <1>1, <1>2 DEF Leave, ThreadInv, Sound
<1>3. QED
    BY <1>1, <1>2, QuietSteps, SelectThread, LoadMoreThread, ReadThread, ArriveThread, FailedThread,
       DeliveredThread DEF Next

\* While no page was overtaken and no event lost, the thread is that of the
\* selected conversation, in order, each message once, and lacks of what was
\* delivered only what is older than all of it or was cut at a page's edge,
\* however pages, copies of events and selections interleave.
THEOREM ThreadIsSound == Spec => []ThreadSound
<1>1. Init => ThreadInv
    BY InitType DEF ThreadInv, Sound, Init
<1>2. ThreadInv => ThreadSound
    <2> SUFFICES ASSUME ThreadInv, calm, selected # None, ~Fetching({"load"})
                 PROVE  /\ IsInjective(thread)
                        /\ \A id \in ToSet(thread) : msgs[id].conv = selected
                        /\ \A k \in 1 .. Len(thread) - 1 : At(thread[k]) <= At(thread[k + 1])
                        /\ \A id \in {id \in Ids : msgs[id].conv = selected}
                                     \ (ToSet(thread) \cup ({j.id : j \in jobs} \cup {e.id : e \in ToSet(inbox)})) :
                             \/ thread # <<>> /\ At(id) < At(Head(thread))
                             \/ \E x \in ToSet(thread) : At(x) = At(id)
        BY DEF ThreadSound
    <2>1. ThreadOK /\ TypeOK
        BY DEF ThreadInv, Sound
    <2>2. thread \in Seq(Nat) /\ Len(thread) \in Nat /\ DOMAIN thread = 1 .. Len(thread)
          /\ DOMAIN inbox = 1 .. Len(inbox)
        BY <2>1 DEF TypeOK, EventsOK
    <2>3. ToSet(thread) = Shown
        BY <2>2 DEF ToSet, Shown
    <2>4. {j.id : j \in jobs} \cup {e.id : e \in ToSet(inbox)} = Outstanding
        BY <2>2 DEF ToSet, Outstanding
    <2>5. IsInjective(thread)
        <3> SUFFICES ASSUME NEW i \in 1 .. Len(thread), NEW j \in 1 .. Len(thread), i # j
                     PROVE  thread[i] # thread[j]
            BY <2>2 DEF IsInjective
        <3>1. i < j \/ j < i
            BY <2>2
        <3>2. QED BY <2>1, <3>1 DEF ThreadOK
    <2>6. ASSUME NEW k \in 1 .. Len(thread) - 1 PROVE At(thread[k]) <= At(thread[k + 1])
        <3>1. k \in 1 .. Len(thread) /\ k + 1 \in 1 .. Len(thread) /\ k < k + 1
            BY <2>2
        <3>2. QED BY <2>1, <3>1 DEF ThreadOK
    <2>7. QED BY <2>1, <2>3, <2>4, <2>5, <2>6 DEF ThreadOK, Mine
<1>3. QED BY <1>1, <1>2, NextThread, PTL DEF Spec
=============================================================================

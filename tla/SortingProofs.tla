---------------------------- MODULE SortingProofs ----------------------------
(***************************************************************************)
(* Finite sets can be put in order: the lemmas behind every sort of the    *)
(* models.  An order is a set of pairs.  What would be an induction is a   *)
(* choice of the least counterexample.                                     *)
(***************************************************************************)
EXTENDS Naturals, FiniteSets, FiniteSetTheorems, TLAPS

StrictOrder(R, X) ==
    /\ \A x \in X : <<x, x>> \notin R
    /\ \A x, y \in X : x # y => <<x, y>> \in R \/ <<y, x>> \in R
    /\ \A x, y, z \in X : <<x, y>> \in R /\ <<y, z>> \in R => <<x, z>> \in R

\* s lists X, of n elements, in the order R.
Lists(s, n, X, R) ==
    /\ s \in [1 .. n -> X]
    /\ \A i, j \in 1 .. n : i < j => <<s[i], s[j]>> \in R
    /\ \A x \in X : \E i \in 1 .. n : s[i] = x

Less == OpToRel(<, Nat)

\* Every set of natural numbers has a least one.
LEMMA LeastNat ==
    ASSUME NEW T, T \subseteq Nat, T # {}
    PROVE  \E x \in T : \A y \in T : x <= y
<1>1. IsWellFoundedOn(Less, Nat)
    BY NatLessThanWellFounded DEF Less, OpToRel
<1>2. PICK x \in T : \A y \in T : ~(<<y, x>> \in Less)
    BY <1>1, WFMin
<1>3. \A y, z \in Nat : <<y, z>> \in Less <=> y < z
    BY DEF Less, OpToRel
<1>4. \A y \in T : ~(y < x)
    BY <1>2, <1>3
<1>5. QED BY <1>4

\* One more element has a place in a sequence that is in order.
LEMMA InsertOne ==
    ASSUME NEW R, NEW Y, StrictOrder(R, Y), NEW y \in Y,
           NEW n \in Nat \ {0}, NEW s, Lists(s, n - 1, Y \ {y}, R)
    PROVE  \E t : Lists(t, n, Y, R)
<1> DEFINE K == {k \in 1 .. n - 1 : <<y, s[k]>> \in R} \cup {n}
<1>1. PICK m \in K : \A k \in K : m <= k
    <2>1. K \subseteq Nat /\ K # {}
        OBVIOUS
    <2>2. QED BY <2>1, LeastNat
<1>2. m \in 1 .. n
    BY <1>1
<1> DEFINE t == [i \in 1 .. n |-> IF i < m THEN s[i] ELSE IF i = m THEN y ELSE s[i - 1]]
<1>3. ASSUME NEW i \in 1 .. n - 1 PROVE s[i] \in Y \ {y}
    BY DEF Lists
<1>4. ASSUME NEW i \in 1 .. n PROVE t[i] \in Y
    BY <1>2, <1>3
<1>5. ASSUME NEW i \in 1 .. n - 1, i < m PROVE <<s[i], y>> \in R
    <2>1. i \notin K
        BY <1>1, <1>2, <1>5
    <2>2. <<y, s[i]>> \notin R
        BY <2>1
    <2>3. QED BY <1>3, <2>2 DEF StrictOrder
<1>6. ASSUME NEW i \in 1 .. n - 1, m <= i PROVE <<y, s[i]>> \in R
    <2>1. m \in 1 .. n - 1 /\ <<y, s[m]>> \in R
        BY <1>1, <1>2, <1>6
    <2>2. m = i \/ <<s[m], s[i]>> \in R
        BY <1>6, <2>1 DEF Lists
    <2>3. s[m] \in Y /\ s[i] \in Y
        BY <1>3, <2>1
    <2>4. QED BY <2>1, <2>2, <2>3 DEF StrictOrder
<1>7. ASSUME NEW i \in 1 .. n, NEW j \in 1 .. n, i < j PROVE <<t[i], t[j]>> \in R
    <2>1. CASE j < m
        BY <1>2, <1>7, <2>1 DEF Lists
    <2>2. CASE j = m
        BY <1>2, <1>5, <1>7, <2>2
    <2>3. CASE i = m
        BY <1>2, <1>6, <1>7, <2>3
    <2>4. CASE i < m /\ m < j
        <3>1. <<s[i], y>> \in R /\ <<y, s[j - 1]>> \in R /\ t[i] = s[i] /\ t[j] = s[j - 1]
            BY <1>2, <1>5, <1>6, <1>7, <2>4
        <3>2. s[i] \in Y /\ s[j - 1] \in Y
            BY <1>2, <1>3, <1>7, <2>4
        <3>3. QED BY <3>1, <3>2 DEF StrictOrder
    <2>5. CASE m < i
        BY <1>2, <1>7, <2>5 DEF Lists
    <2>6. QED BY <1>2, <2>1, <2>2, <2>3, <2>4, <2>5
<1>8. ASSUME NEW x \in Y PROVE \E i \in 1 .. n : t[i] = x
    <2>1. CASE x = y
        BY <1>2, <2>1
    <2>2. CASE x # y
        <3>1. PICK i \in 1 .. n - 1 : s[i] = x
            BY <2>2 DEF Lists
        <3>2. CASE i < m
            BY <1>2, <3>1, <3>2
        <3>3. CASE m <= i
            <4>1. i + 1 \in 1 .. n /\ t[i + 1] = x
                BY <1>2, <3>1, <3>3
            <4>2. QED BY <4>1
        <3>4. QED BY <1>2, <3>2, <3>3
    <2>3. QED BY <2>1, <2>2
<1>9. QED BY <1>4, <1>7, <1>8 DEF Lists

\* Every finite set can be sorted.
LEMMA SortExists ==
    ASSUME NEW X, IsFiniteSet(X), NEW R, StrictOrder(R, X)
    PROVE  \E s : Lists(s, Cardinality(X), X, R)
<1> DEFINE Fails(n) == \E Y \in SUBSET X : /\ Cardinality(Y) = n
                                           /\ ~ \E s : Lists(s, n, Y, R)
           T == {n \in Nat : Fails(n)}
<1>1. ASSUME T # {} PROVE FALSE
    <2>1. PICK n \in T : \A k \in T : n <= k
        BY <1>1, LeastNat
    <2>2. PICK Y \in SUBSET X : Cardinality(Y) = n /\ ~ \E s : Lists(s, n, Y, R)
        BY <2>1
    <2>3. IsFiniteSet(Y) /\ StrictOrder(R, Y)
        BY FS_Subset DEF StrictOrder
    <2>4. CASE n = 0
        <3>1. Y = {}
            BY <2>2, <2>3, <2>4, FS_EmptySet
        <3>2. Lists([i \in 1 .. 0 |-> i], 0, {}, R)
            BY DEF Lists
        <3>3. QED BY <2>2, <2>4, <3>1, <3>2
    <2>5. CASE n # 0
        <3>1. n \in Nat \ {0}
            BY <2>1, <2>5
        <3>2. PICK y \in Y : TRUE
            BY <2>2, <2>3, <3>1, FS_EmptySet
        <3>3. Y \ {y} \in SUBSET X /\ Cardinality(Y \ {y}) = n - 1
            BY <2>2, <2>3, FS_RemoveElement
        <3>4. n - 1 \notin T /\ n - 1 \in Nat
            BY <2>1, <3>1
        <3>5. PICK s : Lists(s, n - 1, Y \ {y}, R)
            BY <3>3, <3>4
        <3>6. \E t : Lists(t, n, Y, R)
            BY <2>3, <3>1, <3>5, InsertOne
        <3>7. QED BY <2>2, <3>6
    <2>6. QED BY <2>4, <2>5
<1>2. Cardinality(X) \in Nat
    BY FS_CardinalityType
<1>3. QED BY <1>1, <1>2
=============================================================================

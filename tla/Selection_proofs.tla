-------------------------- MODULE Selection_proofs --------------------------
(***************************************************************************)
(* What the list operators of the models return, for lists of any length:  *)
(* the numbers of a set in order, a part of a list, and lists put one      *)
(* behind the other.  Induction is by the least counterexample.            *)
(***************************************************************************)
EXTENDS Selection, FiniteSetTheorems, SequenceTheorems, WellFoundedInduction, TLAPS

LEMMA LeastNumber ==
    ASSUME NEW T \in SUBSET Nat, T # {}
    PROVE  \E m \in T : \A n \in T : m <= n
<1> DEFINE Below == {p \in Nat \X Nat : p[1] < p[2]}
<1>1. \E m \in T : \A n \in T : <<n, m>> \notin OpToRel(<, Nat)
    BY NatLessThanWellFounded, WFMin
<1>2. OpToRel(<, Nat) = Below
    BY DEF OpToRel
<1>3. PICK m \in T : \A n \in T : <<n, m>> \notin Below
    BY <1>1, <1>2
<1>4. ASSUME NEW n \in T
      PROVE  m <= n
    <2>1. m \in Nat /\ n \in Nat
        OBVIOUS
    <2>2. <<n, m>> \in Nat \X Nat /\ ~ (n < m)
        BY <1>3, <2>1
    <2> QED
        BY <2>1, <2>2
<1> QED
    BY <1>4

\* What holds at 0 and goes on from each number below n to the next holds at n.
LEMMA UpTo ==
    ASSUME NEW n \in Nat, NEW Good, 0 \in Good,
           \A m \in Nat : m < n /\ m \in Good => m + 1 \in Good
    PROVE  n \in Good
<1> DEFINE Bad == {m \in 0 .. n : m \notin Good}
<1> SUFFICES ASSUME n \notin Good PROVE FALSE
    OBVIOUS
<1>1. Bad \in SUBSET Nat /\ Bad # {}
    OBVIOUS
<1>2. PICK m \in Bad : \A k \in Bad : m <= k
    BY <1>1, LeastNumber
<1>3. m \in Nat /\ m <= n /\ m \notin Good /\ m # 0
    BY <1>2
<1>4. m - 1 \in Nat /\ m - 1 \in 0 .. n /\ m - 1 \notin Bad
    BY <1>2, <1>3
<1>5. m - 1 \in Good /\ m - 1 < n
    BY <1>3, <1>4
<1>6. (m - 1) + 1 \in Good
    BY <1>4, <1>5
<1> QED
    BY <1>3, <1>6

-----------------------------------------------------------------------------
(* Numbers in order *)

LEMMA Positions ==
    ASSUME NEW n \in Nat, NEW P \in SUBSET (1 .. n)
    PROVE  /\ IsFiniteSet(P) /\ Cardinality(P) \in Nat /\ Cardinality(P) <= n
           /\ \A p \in P : p \in Nat /\ 1 <= p /\ p <= n
<1>1. IsFiniteSet(1 .. n) /\ Cardinality(1 .. n) = n
    BY FS_Interval
<1>2. IsFiniteSet(P) /\ Cardinality(P) <= n
    BY <1>1, FS_Subset
<1>3. Cardinality(P) \in Nat
    BY <1>2, FS_CardinalityType
<1>4. \A p \in P : p \in 1 .. n
    OBVIOUS
<1>5. \A p \in P : p \in Nat /\ 1 <= p /\ p <= n
    BY <1>4
<1> QED
    BY <1>2, <1>3, <1>5

LEMMA RisingExtends ==
    ASSUME NEW c \in Nat, NEW m \in Nat, NEW R,
           \A r \in R : r \in Nat /\ r <= m,
           NEW s \in [1 .. c -> R], Rising(s)
    PROVE  \E t \in [1 .. c + 1 -> R \cup {m + 1}] : Rising(t)
<1> DEFINE t == [k \in 1 .. c + 1 |-> IF k \in 1 .. c THEN s[k] ELSE m + 1]
<1>1. \A k \in 1 .. c : t[k] = s[k] /\ s[k] \in Nat /\ s[k] <= m
    OBVIOUS
<1>2. t[c + 1] = m + 1
    OBVIOUS
<1>3. t \in [1 .. c + 1 -> R \cup {m + 1}]
    OBVIOUS
<1> HIDE DEF t
<1>4. ASSUME NEW i \in 1 .. c + 1, NEW j \in 1 .. c + 1, i < j
      PROVE  t[i] < t[j]
    <2>1. i \in 1 .. c /\ (j \in 1 .. c \/ j = c + 1)
        BY <1>4
    <2> QED
        BY <1>1, <1>2, <1>4, <2>1 DEF Rising
<1>5. DOMAIN t = 1 .. c + 1
    BY <1>3
<1>6. Rising(t)
    BY <1>4, <1>5 DEF Rising
<1> QED
    BY <1>3, <1>6

LEMMA RisingExists ==
    ASSUME NEW n \in Nat, NEW P \in SUBSET (1 .. n)
    PROVE  \E s \in [1 .. Cardinality(P) -> P] : Rising(s)
<1> DEFINE Good == {m \in Nat : \A Q \in SUBSET (1 .. m) :
                       \E s \in [1 .. Cardinality(Q) -> Q] : Rising(s)}
<1>1. 0 \in Good
    <2>1. SUFFICES ASSUME NEW Q \in SUBSET (1 .. 0)
                   PROVE  \E s \in [1 .. Cardinality(Q) -> Q] : Rising(s)
        OBVIOUS
    <2>2. Q = {}
        OBVIOUS
    <2>3. Cardinality(Q) = 0
        BY <2>2, FS_EmptySet
    <2>4. <<>> \in [1 .. 0 -> {}] /\ Rising(<<>>)
        BY DEF Rising
    <2> QED
        BY <2>2, <2>3, <2>4
<1>2. ASSUME NEW m \in Nat, m \in Good
      PROVE  m + 1 \in Good
    <2>1. SUFFICES ASSUME NEW Q \in SUBSET (1 .. m + 1)
                   PROVE  \E s \in [1 .. Cardinality(Q) -> Q] : Rising(s)
        OBVIOUS
    <2>2. CASE m + 1 \notin Q
        BY <1>2, <2>2
    <2>3. CASE m + 1 \in Q
        <3> DEFINE R == Q \ {m + 1}
        <3>1. R \in SUBSET (1 .. m)
            OBVIOUS
        <3>2. PICK s \in [1 .. Cardinality(R) -> R] : Rising(s)
            BY <1>2, <3>1
        <3>3. Cardinality(R) \in Nat /\ Cardinality(Q) = Cardinality(R) + 1
            BY <2>3, <3>1, Positions, FS_RemoveElement
        <3>4. R \cup {m + 1} = Q /\ \A r \in R : r \in Nat /\ r <= m
            BY <2>3, <3>1, Positions
        <3> HIDE DEF R
        <3>5. \E t \in [1 .. Cardinality(R) + 1 -> R \cup {m + 1}] : Rising(t)
            BY <3>2, <3>3, <3>4, RisingExtends
        <3> QED
            BY <3>3, <3>4, <3>5
    <2> QED
        BY <2>2, <2>3
<1> HIDE DEF Good
<1>3. n \in Good
    BY <1>1, <1>2, UpTo
<1> QED
    BY <1>3 DEF Good

LEMMA InOrderRises ==
    ASSUME NEW n \in Nat, NEW P \in SUBSET (1 .. n)
    PROVE  /\ InOrder(P) \in [1 .. Cardinality(P) -> P]
           /\ Rising(InOrder(P))
           /\ \A i, j \in 1 .. Cardinality(P) : i # j => InOrder(P)[i] # InOrder(P)[j]
           /\ \A p \in P : \E k \in 1 .. Cardinality(P) : InOrder(P)[k] = p
<1> DEFINE s == InOrder(P)
           c == Cardinality(P)
<1>1. s \in [1 .. c -> P] /\ Rising(s)
    BY RisingExists, Zenon DEF InOrder
<1> HIDE DEF s
<1>2. IsFiniteSet(P) /\ c \in Nat
    BY Positions
<1>3. IsFiniteSet(1 .. c) /\ Cardinality(1 .. c) = c
    BY <1>2, FS_Interval
<1>4. ASSUME NEW i \in 1 .. c, NEW j \in 1 .. c, i # j
      PROVE  s[i] # s[j]
    <2>1. s[i] \in P /\ s[j] \in P
        BY <1>1
    <2>2. s[i] \in Nat /\ s[j] \in Nat
        BY <2>1, Positions
    <2>3. i < j \/ j < i
        BY <1>2, <1>4
    <2> QED
        BY <1>1, <2>2, <2>3 DEF Rising
<1>5. s \in Injection(1 .. c, P)
    BY <1>1, <1>4 DEF Injection, IsInjective
<1>6. s \in Surjection(1 .. c, P)
    BY <1>2, <1>3, <1>5, FS_Injection
<1> QED
    BY <1>1, <1>4, <1>6 DEF Surjection, s

\* There is only one way to put numbers in order.
LEMMA InOrderIs ==
    ASSUME NEW n \in Nat, NEW P \in SUBSET (1 .. n),
           NEW t \in [1 .. Cardinality(P) -> P], Rising(t),
           \A p \in P : \E k \in 1 .. Cardinality(P) : t[k] = p
    PROVE  InOrder(P) = t
<1> DEFINE c == Cardinality(P)
<1> SUFFICES ASSUME NEW s \in [1 .. c -> P], Rising(s),
                    \A p \in P : \E k \in 1 .. c : s[k] = p
             PROVE  s = t
    BY InOrderRises
<1> DEFINE Differ == {k \in 1 .. c : s[k] # t[k]}
<1>1. c \in Nat
    BY Positions
<1>2. ASSUME Differ # {}
      PROVE  FALSE
    <2>1. Differ \in SUBSET Nat
        OBVIOUS
    <2>2. PICK k \in Differ : \A l \in Differ : k <= l
        BY <1>2, <2>1, LeastNumber
    <2>3. /\ k \in 1 .. c /\ s[k] # t[k]
          /\ \A i \in 1 .. c : s[i] \in Nat /\ t[i] \in Nat
        BY <2>2, Positions
    <2>4. \A l \in 1 .. c : l < k => s[l] = t[l]
        BY <2>2, <2>3
    <2>5. CASE s[k] < t[k]
        <3>1. PICK l \in 1 .. c : t[l] = s[k]
            BY <2>3
        <3>2. l < k \/ l = k \/ k < l
            BY <2>3
        <3> QED
            BY <2>3, <2>4, <2>5, <3>1, <3>2 DEF Rising
    <2>6. CASE t[k] < s[k]
        <3>1. PICK l \in 1 .. c : s[l] = t[k]
            BY <2>3
        <3>2. l < k \/ l = k \/ k < l
            BY <2>3
        <3> QED
            BY <2>3, <2>4, <2>6, <3>1, <3>2 DEF Rising
    <2> QED
        BY <2>3, <2>5, <2>6
<1>3. \A k \in 1 .. c : s[k] = t[k]
    BY <1>2
<1> QED
    BY <1>1, <1>3

LEMMA InOrderOfInterval ==
    ASSUME NEW a \in Nat \ {0}, NEW b \in Nat, a <= b + 1
    PROVE  InOrder(a .. b) = [k \in 1 .. (b - a + 1) |-> a + k - 1]
<1> DEFINE t == [k \in 1 .. (b - a + 1) |-> a + k - 1]
<1>1. a .. b \in SUBSET (1 .. b)
    OBVIOUS
<1>2. Cardinality(a .. b) = b - a + 1
    <2>1. Cardinality(a .. b) = IF a > b THEN 0 ELSE b - a + 1
        BY FS_Interval
    <2> QED
        BY <2>1
<1>3. t \in [1 .. (b - a + 1) -> a .. b] /\ Rising(t)
    BY DEF Rising
<1>4. ASSUME NEW p \in a .. b
      PROVE  \E k \in 1 .. (b - a + 1) : t[k] = p
    <2>1. p - a + 1 \in 1 .. (b - a + 1) /\ t[p - a + 1] = p
        OBVIOUS
    <2> QED
        BY <2>1
<1> HIDE DEF t
<1>5. InOrder(a .. b) = t
    BY <1>1, <1>2, <1>3, <1>4, InOrderIs
<1> QED
    BY <1>5 DEF t

-----------------------------------------------------------------------------
(* A part of a list *)

LEMMA SublistProperties ==
    ASSUME NEW S, NEW s \in Seq(S), NEW P \in SUBSET (1 .. Len(s))
    PROVE  /\ Sublist(s, P) \in Seq(S)
           /\ Len(Sublist(s, P)) = Cardinality(P)
           /\ Cardinality(P) \in Nat
           /\ \A k \in 1 .. Cardinality(P) : /\ InOrder(P)[k] \in P
                                              /\ Sublist(s, P)[k] = s[InOrder(P)[k]]
           /\ \A p \in P : \E k \in 1 .. Cardinality(P) : Sublist(s, P)[k] = s[p]
<1>1. Len(s) \in Nat
    OBVIOUS
<1>2. /\ InOrder(P) \in [1 .. Cardinality(P) -> P]
      /\ \A p \in P : \E k \in 1 .. Cardinality(P) : InOrder(P)[k] = p
    BY <1>1, InOrderRises
<1>3. Cardinality(P) \in Nat
    BY <1>1, Positions
<1>4. Sublist(s, P) \in [1 .. Cardinality(P) -> S]
    <2>1. \A k \in 1 .. Cardinality(P) : InOrder(P)[k] \in 1 .. Len(s)
        BY <1>2
    <2>2. \A k \in 1 .. Cardinality(P) : s[InOrder(P)[k]] \in S
        BY <2>1
    <2> QED
        BY <2>2 DEF Sublist
<1>5. Sublist(s, P) \in Seq(S) /\ Len(Sublist(s, P)) = Cardinality(P)
    BY <1>3, <1>4
<1>6. \A k \in 1 .. Cardinality(P) : Sublist(s, P)[k] = s[InOrder(P)[k]]
    BY DEF Sublist
<1>7. ASSUME NEW p \in P
      PROVE  \E k \in 1 .. Cardinality(P) : Sublist(s, P)[k] = s[p]
    <2>1. PICK k \in 1 .. Cardinality(P) : InOrder(P)[k] = p
        BY <1>2
    <2> QED
        BY <1>6, <2>1
<1> QED
    BY <1>2, <1>3, <1>5, <1>6, <1>7

\* The first of every value: each value of the list is there, and once.
FirstOnes(s) == {i \in 1 .. Len(s) : \A j \in 1 .. (i - 1) : s[j] # s[i]}

LEMMA FirstOnesProperties ==
    ASSUME NEW S, NEW s \in Seq(S)
    PROVE  /\ Sublist(s, FirstOnes(s)) \in Seq(S)
           /\ \A k \in 1 .. Len(Sublist(s, FirstOnes(s))) :
                 \E i \in 1 .. Len(s) : Sublist(s, FirstOnes(s))[k] = s[i]
           /\ \A i \in 1 .. Len(s) : \E k \in 1 .. Len(Sublist(s, FirstOnes(s))) :
                 Sublist(s, FirstOnes(s))[k] = s[i]
           /\ \A k, l \in 1 .. Len(Sublist(s, FirstOnes(s))) :
                 Sublist(s, FirstOnes(s))[k] = Sublist(s, FirstOnes(s))[l] => k = l
<1> DEFINE P == FirstOnes(s)
           t == Sublist(s, P)
<1>1. Len(s) \in Nat /\ P \in SUBSET (1 .. Len(s))
    BY DEF FirstOnes
<1>2. \A p \in P : p \in Nat /\ 1 <= p /\ p <= Len(s) /\ \A j \in 1 .. (p - 1) : s[j] # s[p]
    BY DEF FirstOnes
<1>3. ASSUME NEW i \in 1 .. Len(s)
      PROVE  \E p \in P : s[p] = s[i]
    <2> DEFINE Same == {j \in 1 .. Len(s) : s[j] = s[i]}
    <2>1. Same \in SUBSET Nat /\ Same # {}
        OBVIOUS
    <2>2. PICK p \in Same : \A j \in Same : p <= j
        BY <2>1, LeastNumber
    <2>3. p \in 1 .. Len(s) /\ s[p] = s[i] /\ p \in Nat
        BY <2>2
    <2>4. \A j \in 1 .. (p - 1) : j \in 1 .. Len(s) /\ j \in Nat /\ ~ (p <= j)
        BY <1>1, <2>3
    <2>5. \A j \in 1 .. (p - 1) : s[j] # s[i]
        BY <2>2, <2>4
    <2>6. p \in P
        BY <2>3, <2>5 DEF FirstOnes
    <2> QED
        BY <2>3, <2>6
<1> HIDE DEF P
<1>4. /\ t \in Seq(S) /\ Len(t) = Cardinality(P)
      /\ \A k \in 1 .. Cardinality(P) : InOrder(P)[k] \in P /\ t[k] = s[InOrder(P)[k]]
      /\ \A p \in P : \E k \in 1 .. Cardinality(P) : t[k] = s[p]
    BY <1>1, SublistProperties
<1>5. \A i, j \in 1 .. Cardinality(P) : i # j => InOrder(P)[i] # InOrder(P)[j]
    BY <1>1, InOrderRises
<1> HIDE DEF t
<1>6. ASSUME NEW k \in 1 .. Len(t), NEW l \in 1 .. Len(t), t[k] = t[l]
      PROVE  k = l
    <2> DEFINE p == InOrder(P)[k]
               q == InOrder(P)[l]
    <2>1. p \in P /\ q \in P /\ s[p] = s[q]
        BY <1>4, <1>6
    <2>2. k # l => p # q
        BY <1>4, <1>5
    <2> HIDE DEF p, q
    <2>3. p < q => p \in 1 .. (q - 1)
        BY <1>2, <2>1
    <2>4. q < p => q \in 1 .. (p - 1)
        BY <1>2, <2>1
    <2>5. p = q
        BY <1>2, <2>1, <2>3, <2>4
    <2> QED
        BY <2>2, <2>5
<1>7. \A k \in 1 .. Len(t) : \E i \in 1 .. Len(s) : t[k] = s[i]
    BY <1>2, <1>4
<1>8. \A i \in 1 .. Len(s) : \E k \in 1 .. Len(t) : t[k] = s[i]
    BY <1>3, <1>4
<1> QED
    BY <1>4, <1>6, <1>7, <1>8 DEF t, P

-----------------------------------------------------------------------------
(* Elements in order *)

StrictOrder(S, before) ==
    /\ \A a, b \in S : <<a, b>> \in before => <<b, a>> \notin before
    /\ \A a, b, c \in S : <<a, b>> \in before /\ <<b, c>> \in before => <<a, c>> \in before

OrderedBy(s, n, before) ==
    \A i, j \in 1 .. n : i < j => s[i] # s[j] /\ <<s[j], s[i]>> \notin before

LEMMA OrderExtends ==
    ASSUME NEW n \in Nat, NEW R, NEW x, x \notin R, NEW before, StrictOrder(R \cup {x}, before),
           NEW s \in [1 .. n -> R], OrderedBy(s, n, before)
    PROVE  \E t \in [1 .. n + 1 -> R \cup {x}] : OrderedBy(t, n + 1, before)
<1> DEFINE Later == {k \in 1 .. n + 1 : k = n + 1 \/ <<x, s[k]>> \in before}
<1>1. Later \in SUBSET Nat /\ n + 1 \in Later
    OBVIOUS
<1>2. PICK p \in Later : \A k \in Later : p <= k
    BY <1>1, LeastNumber
<1>3. /\ p \in 1 .. n + 1 /\ p \in Nat
      /\ p \in 1 .. n => <<x, s[p]>> \in before
      /\ \A k \in 1 .. n : k < p => <<x, s[k]>> \notin before
    BY <1>2
<1> HIDE DEF Later
<1> DEFINE t == [k \in 1 .. n + 1 |-> IF k < p THEN s[k] ELSE IF k = p THEN x ELSE s[k - 1]]
<1>4. /\ \A k \in 1 .. n + 1 : k < p => k \in 1 .. n /\ t[k] = s[k]
      /\ t[p] = x
      /\ \A k \in 1 .. n + 1 : p < k => k - 1 \in 1 .. n /\ p <= k - 1 /\ t[k] = s[k - 1]
    BY <1>3
<1>5. t \in [1 .. n + 1 -> R \cup {x}]
    <2>1. \A k \in 1 .. n + 1 : t[k] \in R \cup {x}
        BY <1>3, <1>4
    <2> QED
        BY <2>1
<1> HIDE DEF t
<1>6. ASSUME NEW k \in 1 .. n, p <= k
      PROVE  <<s[k], x>> \notin before
    <2>1. p \in 1 .. n /\ <<x, s[p]>> \in before /\ s[k] \in R /\ s[p] \in R
        BY <1>3, <1>6
    <2>2. k # p => <<s[k], s[p]>> \notin before
        BY <1>3, <1>6, <2>1 DEF OrderedBy
    <2> QED
        BY <2>1, <2>2 DEF StrictOrder
<1>7. ASSUME NEW i \in 1 .. n + 1, NEW j \in 1 .. n + 1, i < j
      PROVE  t[i] # t[j] /\ <<t[j], t[i]>> \notin before
    <2>1. CASE j < p
        <3>1. i < p
            BY <1>3, <1>7, <2>1
        <3> QED
            BY <1>4, <1>7, <2>1, <3>1 DEF OrderedBy
    <2>2. CASE j = p
        <3>1. i < p /\ i \in 1 .. n /\ s[i] \in R
            BY <1>4, <1>7, <2>2
        <3> QED
            BY <1>3, <1>4, <2>2, <3>1
    <2>3. CASE i < p /\ p < j
        <3>1. i \in 1 .. n /\ j - 1 \in 1 .. n /\ i < j - 1 /\ t[i] = s[i] /\ t[j] = s[j - 1]
            BY <1>3, <1>4, <2>3
        <3> QED
            BY <3>1 DEF OrderedBy
    <2>4. CASE i = p
        <3>1. j - 1 \in 1 .. n /\ p <= j - 1 /\ t[j] = s[j - 1] /\ s[j - 1] \in R
            BY <1>4, <1>7, <2>4
        <3> QED
            BY <1>4, <1>6, <2>4, <3>1
    <2>5. CASE p < i
        <3>1. p < j
            BY <1>3, <1>7, <2>5
        <3>2. i - 1 \in 1 .. n /\ j - 1 \in 1 .. n /\ i - 1 < j - 1 /\ t[i] = s[i - 1] /\ t[j] = s[j - 1]
            BY <1>4, <1>7, <2>5, <3>1
        <3> QED
            BY <3>2 DEF OrderedBy
    <2> QED
        BY <1>3, <2>1, <2>2, <2>3, <2>4, <2>5
<1>8. OrderedBy(t, n + 1, before)
    BY <1>7 DEF OrderedBy
<1> QED
    BY <1>5, <1>8

LEMMA OrderExists ==
    ASSUME NEW S, IsFiniteSet(S), NEW before, StrictOrder(S, before)
    PROVE  \E s \in [1 .. Cardinality(S) -> S] : OrderedBy(s, Cardinality(S), before)
<1> DEFINE Good == {m \in Nat : \A Q \in SUBSET S : Cardinality(Q) = m =>
                       \E s \in [1 .. m -> Q] : OrderedBy(s, m, before)}
<1>1. \A Q \in SUBSET S : IsFiniteSet(Q) /\ Cardinality(Q) \in Nat
    BY FS_Subset, FS_CardinalityType
<1>2. 0 \in Good
    <2>1. SUFFICES ASSUME NEW Q \in SUBSET S, Cardinality(Q) = 0
                   PROVE  \E s \in [1 .. 0 -> Q] : OrderedBy(s, 0, before)
        OBVIOUS
    <2>2. Q = {}
        BY <1>1, <2>1, FS_EmptySet
    <2>3. <<>> \in [1 .. 0 -> {}] /\ OrderedBy(<<>>, 0, before)
        BY DEF OrderedBy
    <2> QED
        BY <2>2, <2>3
<1>3. ASSUME NEW m \in Nat, m \in Good
      PROVE  m + 1 \in Good
    <2>1. SUFFICES ASSUME NEW Q \in SUBSET S, Cardinality(Q) = m + 1
                   PROVE  \E s \in [1 .. m + 1 -> Q] : OrderedBy(s, m + 1, before)
        OBVIOUS
    <2>2. PICK x : x \in Q
        BY <2>1, FS_EmptySet
    <2> DEFINE R == Q \ {x}
    <2>3. R \in SUBSET S /\ Cardinality(R) = m
        <3>1. IsFiniteSet(Q)
            BY <1>1
        <3>2. Cardinality(R) = Cardinality(Q) - 1
            BY <2>2, <3>1, FS_RemoveElement
        <3> QED
            BY <2>1, <3>2
    <2>4. PICK s \in [1 .. m -> R] : OrderedBy(s, m, before)
        BY <1>3, <2>3
    <2>5. R \cup {x} = Q /\ x \notin R
        BY <2>2
    <2>6. StrictOrder(Q, before)
        BY <2>1 DEF StrictOrder
    <2> HIDE DEF R
    <2> QED
        BY <2>4, <2>5, <2>6, OrderExtends
<1> HIDE DEF Good
<1>4. Cardinality(S) \in Nat /\ Cardinality(S) \in Good
    BY <1>1, <1>2, <1>3, UpTo
<1> QED
    BY <1>4 DEF Good

LEMMA SortedProperties ==
    ASSUME NEW S, IsFiniteSet(S), NEW before, StrictOrder(S, before)
    PROVE  /\ Cardinality(S) \in Nat
           /\ Sorted(S, before) \in [1 .. Cardinality(S) -> S]
           /\ \A i, j \in 1 .. Cardinality(S) :
                 i < j => <<Sorted(S, before)[j], Sorted(S, before)[i]>> \notin before
           /\ \A x \in S : \E k \in 1 .. Cardinality(S) : Sorted(S, before)[k] = x
<1> DEFINE s == Sorted(S, before)
           n == Cardinality(S)
<1>1. n \in Nat
    BY FS_CardinalityType
<1>2. s \in [1 .. n -> S] /\ OrderedBy(s, n, before)
    BY OrderExists, Zenon DEF Sorted, OrderedBy
<1> HIDE DEF s
<1>3. ASSUME NEW i \in 1 .. n, NEW j \in 1 .. n, i # j
      PROVE  s[i] # s[j]
    <2>1. i < j \/ j < i
        BY <1>1, <1>3
    <2> QED
        BY <1>2, <2>1 DEF OrderedBy
<1>4. s \in Injection(1 .. n, S)
    BY <1>2, <1>3 DEF Injection, IsInjective
<1>5. IsFiniteSet(1 .. n) /\ Cardinality(1 .. n) = n
    BY <1>1, FS_Interval
<1>6. s \in Surjection(1 .. n, S)
    BY <1>4, <1>5, FS_Injection
<1> QED
    BY <1>1, <1>2, <1>6 DEF OrderedBy, Surjection, s

-----------------------------------------------------------------------------
(* Lists put one behind the other *)

\* List u is s, m long, and t, n long, behind it.
Joins(u, s, m, t, n) ==
    /\ Len(u) = m + n
    /\ \A i \in 1 .. m + n : u[i] = IF i <= m THEN s[i] ELSE t[i - m]

LEMMA JoinedLists ==
    ASSUME NEW S, NEW s \in Seq(S), NEW t \in Seq(S), NEW m \in Nat, NEW n \in Nat,
           Len(s) = m, Len(t) = n
    PROVE  s \o t \in Seq(S) /\ Joins(s \o t, s, m, t, n)
    BY ConcatProperties DEF Joins

\* The lists that each append one more.
Appends(f, seqs) ==
    \A i \in DOMAIN seqs : f[i] = IF i = 1 THEN seqs[i] ELSE f[i - 1] \o seqs[i]

LEMMA OneMoreList ==
    ASSUME NEW S, NEW m \in Nat, NEW seqs \in [1 .. m + 1 -> Seq(S)], NEW f \in [1 .. m -> Seq(S)],
           \A i \in 1 .. m : f[i] = IF i = 1 THEN seqs[i] ELSE f[i - 1] \o seqs[i]
    PROVE  \E g \in [1 .. m + 1 -> Seq(S)] : Appends(g, seqs)
<1> DEFINE last == IF m = 0 THEN seqs[1] ELSE f[m] \o seqs[m + 1]
<1>1. last \in Seq(S)
    <2>1. CASE m = 0
        BY <2>1
    <2>2. CASE m # 0
        <3>1. f[m] \in Seq(S) /\ seqs[m + 1] \in Seq(S)
            BY <2>2
        <3>2. f[m] \o seqs[m + 1] \in Seq(S)
            BY <3>1, ConcatProperties
        <3> QED
            BY <2>2, <3>2
    <2> QED
        BY <2>1, <2>2
<1> HIDE DEF last
<1> DEFINE g == [i \in 1 .. m + 1 |-> IF i \in 1 .. m THEN f[i] ELSE last]
<1>2. g \in [1 .. m + 1 -> Seq(S)]
    BY <1>1
<1>3. \A i \in 1 .. m : g[i] = f[i]
    OBVIOUS
<1>4. g[m + 1] = last
    OBVIOUS
<1> HIDE DEF g
<1>5. ASSUME NEW i \in 1 .. m + 1
      PROVE  g[i] = IF i = 1 THEN seqs[i] ELSE g[i - 1] \o seqs[i]
    <2>1. CASE i \in 1 .. m
        <3>1. i # 1 => i - 1 \in 1 .. m
            BY <2>1
        <3> QED
            BY <1>3, <2>1, <3>1
    <2>2. CASE i = m + 1
        <3>1. m # 0 => m \in 1 .. m
            OBVIOUS
        <3> QED
            BY <1>3, <1>4, <2>2, <3>1 DEF last
    <2> QED
        BY <2>1, <2>2
<1>6. Appends(g, seqs)
    BY <1>5 DEF Appends
<1> QED
    BY <1>2, <1>6

LEMMA AppendsExists ==
    ASSUME NEW S, NEW n \in Nat, NEW seqs \in [1 .. n -> Seq(S)]
    PROVE  \E f \in [1 .. n -> Seq(S)] : Appends(f, seqs)
<1> DEFINE Good == {m \in Nat : \A q \in [1 .. m -> Seq(S)] :
                       \E f \in [1 .. m -> Seq(S)] : Appends(f, q)}
<1>1. 0 \in Good
    <2>1. \A q \in [1 .. 0 -> Seq(S)] : <<>> \in [1 .. 0 -> Seq(S)] /\ Appends(<<>>, q)
        BY DEF Appends
    <2> QED
        BY <2>1
<1>2. ASSUME NEW m \in Nat, m \in Good
      PROVE  m + 1 \in Good
    <2>1. SUFFICES ASSUME NEW q \in [1 .. m + 1 -> Seq(S)]
                   PROVE  \E f \in [1 .. m + 1 -> Seq(S)] : Appends(f, q)
        OBVIOUS
    <2> DEFINE r == [i \in 1 .. m |-> q[i]]
    <2>2. r \in [1 .. m -> Seq(S)] /\ \A i \in 1 .. m : r[i] = q[i]
        OBVIOUS
    <2> HIDE DEF r
    <2>3. PICK f \in [1 .. m -> Seq(S)] : Appends(f, r)
        BY <1>2, <2>2
    <2>4. \A i \in 1 .. m : f[i] = IF i = 1 THEN q[i] ELSE f[i - 1] \o q[i]
        BY <2>2, <2>3 DEF Appends
    <2> QED
        BY <2>4, OneMoreList
<1> HIDE DEF Good
<1>3. n \in Good
    BY <1>1, <1>2, UpTo
<1> QED
    BY <1>3 DEF Good

\* FlattenSeq is the last of them.
LEMMA FlattenIs ==
    ASSUME NEW S, NEW n \in Nat, NEW seqs \in [1 .. n -> Seq(S)],
           NEW f \in [1 .. n -> Seq(S)], Appends(f, seqs)
    PROVE  FlattenSeq(seqs) = IF n = 0 THEN <<>> ELSE f[n]
<1>1. Len(seqs) = n /\ DOMAIN seqs = 1 .. n
    OBVIOUS
<1>2. CASE n = 0
    <2>1. FlattenSeq(seqs) = seqs
        BY <1>1, <1>2, Zenon DEF FlattenSeq
    <2>2. seqs = <<>>
        BY <1>1, <1>2
    <2> QED
        BY <1>2, <2>1, <2>2
<1>3. CASE n # 0
    <2> DEFINE Step(g) == [i \in 1 .. Len(seqs) |-> IF i = 1 THEN seqs[i] ELSE g[i - 1] \o seqs[i]]
               flatten == CHOOSE g : g = Step(g)
    <2>1. FlattenSeq(seqs) = flatten[Len(seqs)]
        BY <1>1, <1>3, Zenon DEF FlattenSeq
    <2>2. f = Step(f)
        BY <1>1 DEF Appends
    <2>3. flatten = Step(flatten)
        BY <2>2, Zenon
    <2> HIDE DEF flatten
    <2> DEFINE Good == {m \in Nat : m \in 1 .. n => flatten[m] = f[m]}
    <2>4. 0 \in Good
        OBVIOUS
    <2>5. ASSUME NEW m \in Nat, m \in Good
          PROVE  m + 1 \in Good
        <3>1. SUFFICES ASSUME m + 1 \in 1 .. n
                       PROVE  flatten[m + 1] = f[m + 1]
            OBVIOUS
        <3>2. /\ flatten[m + 1] = IF m + 1 = 1 THEN seqs[m + 1] ELSE flatten[m] \o seqs[m + 1]
              /\ f[m + 1] = IF m + 1 = 1 THEN seqs[m + 1] ELSE f[m] \o seqs[m + 1]
            <4>1. (m + 1) - 1 = m
                OBVIOUS
            <4> QED
                BY <1>1, <2>2, <2>3, <3>1, <4>1
        <3>3. m # 0 => flatten[m] = f[m]
            BY <2>5, <3>1
        <3> QED
            BY <3>2, <3>3
    <2> HIDE DEF Good
    <2>6. n \in Good
        BY <2>4, <2>5, UpTo
    <2>7. flatten[n] = f[n]
        BY <1>3, <2>6 DEF Good
    <2> QED
        BY <1>1, <1>3, <2>1, <2>7
<1> QED
    BY <1>2, <1>3

LEMMA FlattenProperties ==
    ASSUME NEW S, NEW n \in Nat, NEW seqs \in [1 .. n -> Seq(S)]
    PROVE  \E f \in [1 .. n -> Seq(S)] :
              /\ Appends(f, seqs)
              /\ FlattenSeq(seqs) = IF n = 0 THEN <<>> ELSE f[n]
<1>1. PICK f \in [1 .. n -> Seq(S)] : Appends(f, seqs)
    BY AppendsExists
<1>2. FlattenSeq(seqs) = IF n = 0 THEN <<>> ELSE f[n]
    BY <1>1, FlattenIs
<1> QED
    BY <1>1, <1>2

-----------------------------------------------------------------------------
(* Where a list is in the lists it was appended to *)

\* How much of them the first i lists are.
LenOf(f, i) == IF i = 0 THEN 0 ELSE Len(f[i])

\* With the list after the first i, the j-th result is the one before and that list.
Grows(f, seqs, i, j) ==
    /\ LenOf(f, i) \in Nat /\ LenOf(f, j) \in Nat /\ Len(seqs[j]) \in Nat
    /\ LenOf(f, j) = LenOf(f, i) + Len(seqs[j]) /\ LenOf(f, j) = Len(f[j])
    /\ \A k \in 1 .. Len(seqs[j]) : f[j][LenOf(f, i) + k] = seqs[j][k]
    /\ i # 0 => \A k \in 1 .. LenOf(f, i) : f[j][k] = f[i][k]

\* The list after the first i, which is the h-th, is in the j-th result.
Holds(f, seqs, i, h, j) ==
    /\ LenOf(f, h) <= LenOf(f, j)
    /\ \A k \in 1 .. Len(seqs[h]) : f[j][LenOf(f, i) + k] = seqs[h][k]

Appended(f, seqs, n, S) ==
    seqs \in [1 .. n -> Seq(S)] /\ f \in [1 .. n -> Seq(S)] /\ Appends(f, seqs)

LEMMA OneMoreIs ==
    ASSUME NEW S, NEW n \in Nat, NEW seqs, NEW f, Appended(f, seqs, n, S),
           NEW i \in Nat, NEW j \in 1 .. n, j = i + 1
    PROVE  Grows(f, seqs, i, j)
<1>1. /\ f[j] = IF j = 1 THEN seqs[j] ELSE f[i] \o seqs[j]
      /\ f[j] \in Seq(S) /\ seqs[j] \in Seq(S) /\ (i # 0 => i \in 1 .. n /\ f[i] \in Seq(S))
    <2>1. j - 1 = i /\ (i # 0 => i \in 1 .. n) /\ DOMAIN seqs = 1 .. n
        BY DEF Appended
    <2> QED
        BY <2>1 DEF Appended, Appends
<1>2. CASE i = 0
    <2>1. f[j] = seqs[j] /\ LenOf(f, i) = 0 /\ LenOf(f, j) = Len(f[j])
        BY <1>1, <1>2 DEF LenOf
    <2> QED
        BY <1>1, <1>2, <2>1 DEF Grows
<1>3. CASE i # 0
    <2> DEFINE s == f[i]
               t == seqs[j]
               m == LenOf(f, i)
               l == Len(t)
    <2>1. s \in Seq(S) /\ t \in Seq(S) /\ f[j] = s \o t
        <3>1. j # 1
            BY <1>3
        <3> QED
            BY <1>1, <1>3, <3>1
    <2>2. m = Len(s) /\ LenOf(f, j) = Len(f[j])
        BY <1>3 DEF LenOf
    <2>3. l = Len(t)
        OBVIOUS
    <2> HIDE DEF s, m, t, l
    <2>4. m \in Nat /\ l \in Nat
        BY <2>1, <2>2, <2>3
    <2>5. Joins(s \o t, s, m, t, l)
        BY <2>1, <2>2, <2>4, <2>3, JoinedLists
    <2>6. Len(f[j]) = m + l /\ \A k \in 1 .. m + l : f[j][k] = IF k <= m THEN s[k] ELSE t[k - m]
        BY <2>1, <2>5 DEF Joins
    <2>7. \A k \in 1 .. l : f[j][m + k] = t[k]
        <3>1. \A k \in 1 .. l : m + k \in 1 .. m + l /\ ~ (m + k <= m) /\ (m + k) - m = k
            BY <2>4
        <3> QED
            BY <2>6, <3>1
    <2>8. \A k \in 1 .. m : f[j][k] = s[k]
        BY <2>4, <2>6
    <2>9. LenOf(f, j) = m + l /\ LenOf(f, j) \in Nat
        BY <2>2, <2>4, <2>6
    <2> QED
        BY <2>2, <2>4, <2>7, <2>8, <2>9 DEF Grows, s, m, t, l
<1> QED
    BY <1>2, <1>3

LEMMA OneMoreHolds ==
    ASSUME NEW f, NEW seqs, NEW m \in Nat \ {0}, NEW p, Grows(f, seqs, m, p),
           NEW i \in Nat, NEW h, Grows(f, seqs, i, h), Holds(f, seqs, i, h, m)
    PROVE  Holds(f, seqs, i, h, p)
<1> DEFINE a == LenOf(f, i)
           b == LenOf(f, h)
           c == LenOf(f, m)
           d == LenOf(f, p)
           l == Len(seqs[h])
<1>1. a \in Nat /\ l \in Nat /\ b = a + l /\ b <= c /\ c \in Nat /\ d \in Nat
    BY DEF Grows, Holds
<1>2. c <= d /\ \A k \in 1 .. c : f[p][k] = f[m][k]
    <2>1. d = c + Len(seqs[p]) /\ Len(seqs[p]) \in Nat /\ \A k \in 1 .. c : f[p][k] = f[m][k]
        BY DEF Grows
    <2> HIDE DEF c, d
    <2> QED
        BY <1>1, <2>1
<1>3. \A k \in 1 .. l : f[m][a + k] = seqs[h][k]
    BY DEF Holds
<1> HIDE DEF a, b, c, d, l
<1>4. b <= d /\ \A k \in 1 .. l : a + k \in 1 .. c
    BY <1>1, <1>2
<1>5. \A k \in 1 .. l : f[p][a + k] = seqs[h][k]
    BY <1>2, <1>3, <1>4
<1> QED
    BY <1>4, <1>5 DEF Holds, a, b, c, d, l

LEMMA EarlierListsStay ==
    ASSUME NEW S, NEW n \in Nat, NEW seqs, NEW f, Appended(f, seqs, n, S),
           NEW j \in 1 .. n, NEW i \in Nat, NEW h \in 1 .. j, h = i + 1
    PROVE  Holds(f, seqs, i, h, j)
<1> DEFINE Good == {m \in Nat : m \in h .. j => Holds(f, seqs, i, h, m)}
<1>1. Grows(f, seqs, i, h)
    <2>1. h \in 1 .. n
        OBVIOUS
    <2> QED
        BY <2>1, OneMoreIs
<1>2. 0 \in Good
    OBVIOUS
<1>3. ASSUME NEW m \in Nat, m \in Good
      PROVE  m + 1 \in Good
    <2> DEFINE p == m + 1
    <2>1. SUFFICES ASSUME p \in h .. j
                   PROVE  Holds(f, seqs, i, h, p)
        OBVIOUS
    <2>2. p \in 1 .. n /\ p = m + 1
        BY <2>1
    <2> HIDE DEF p
    <2>3. CASE p = h
        BY <1>1, <2>3 DEF Grows, Holds
    <2>4. CASE p # h
        <3>1. m \in h .. j /\ m \in Nat \ {0}
            BY <2>1, <2>2, <2>4
        <3>2. Holds(f, seqs, i, h, m)
            BY <1>3, <3>1
        <3>3. Grows(f, seqs, m, p)
            BY <2>2, OneMoreIs
        <3> QED
            BY <1>1, <3>1, <3>2, <3>3, OneMoreHolds
    <2> QED
        BY <2>3, <2>4
<1> HIDE DEF Good
<1>4. j \in Nat
    OBVIOUS
<1>5. j \in Good
    BY <1>2, <1>3, <1>4, UpTo
<1> QED
    BY <1>5 DEF Good
=============================================================================

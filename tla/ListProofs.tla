----------------------------- MODULE ListProofs -----------------------------
(***************************************************************************)
(* Lemmas about lists: what the operators of module Lists and the          *)
(* community's FlattenSeq return, for lists of any length.                 *)
(*                                                                         *)
(* Induction over the naturals comes from the library's minimal elements   *)
(* of a well-founded relation, whose statement needs no operator.          *)
(***************************************************************************)
EXTENDS Lists, Integers, SequencesExt, FiniteSetTheorems, SequenceTheorems,
        WellFoundedInduction, TLAPS

-----------------------------------------------------------------------------
(* Induction. *)

\* A set of numbers that is not empty has a least element.
LEMMA LeastOf ==
    ASSUME NEW T \in SUBSET Nat, T # {} PROVE \E n \in T : \A m \in T : n <= m
<1>1. PICK n \in T : \A m \in T : ~(<<m, n>> \in OpToRel(<, Nat))
  BY NatLessThanWellFounded, WFMin, Zenon
<1>2. n \in Nat /\ \A m \in T : m \in Nat
  OBVIOUS
<1>3. \A m \in T : ~(m < n)
  BY <1>1, <1>2 DEF OpToRel
<1>4. \A m \in T : n <= m
  BY <1>2, <1>3
<1>5. QED
  BY <1>4

\* What holds of 0, and of n if of n - 1, holds up to N.
LEMMA Induction ==
    ASSUME NEW N \in Nat, NEW T, 0 \in T, \A n \in 1..N : n - 1 \in T => n \in T
    PROVE  \A n \in 0..N : n \in T
<1> SUFFICES ASSUME NEW k \in 0..N, k \notin T PROVE FALSE
  OBVIOUS
<1> DEFINE B == {m \in 0..N : m \notin T}
<1>1. PICK n \in B : \A m \in B : n <= m
  <2>1. B \in SUBSET Nat /\ B # {}
    OBVIOUS
  <2> HIDE DEF B
  <2>2. QED
    BY <2>1, LeastOf
<1>2. CASE n = 0
  BY <1>1, <1>2
<1>3. CASE n # 0
  <2>1. n - 1 \in 0..N /\ n - 1 \notin B
    BY <1>1, <1>3
  <2>2. QED
    BY <1>1, <1>3, <2>1
<1>4. QED
  BY <1>2, <1>3

\* A set of positions that is not empty has a greatest element.
LEMMA GreatestOf ==
    ASSUME NEW N \in Nat, NEW T \in SUBSET (1..N), T # {}
    PROVE  \E n \in T : \A m \in T : m <= n
<1> DEFINE B == {N - n : n \in T}
<1>1. B \in SUBSET Nat /\ B # {}
  <2>1. \A n \in T : N - n \in Nat
    OBVIOUS
  <2>2. QED
    BY <2>1
<1>2. PICK b \in B : \A m \in B : b <= m
  <2> HIDE DEF B
  <2>1. QED
    BY <1>1, LeastOf
<1>3. PICK n \in T : b = N - n
  BY <1>2
<1>4. \A m \in T : N - m \in B
  OBVIOUS
<1>5. ASSUME NEW m \in T PROVE m <= n
  <2>1. N - n <= N - m
    BY <1>2, <1>3, <1>4
  <2>2. QED
    BY <2>1
<1>6. QED
  BY <1>5

-----------------------------------------------------------------------------
(* Ranks. *)

\* R is a strict total order of the elements of P.
StrictOrder(R, P) ==
    /\ \A a \in P : <<a, a>> \notin R
    /\ \A a, b \in P : a # b => <<a, b>> \in R \/ <<b, a>> \in R
    /\ \A a, b, c \in P : <<a, b>> \in R /\ <<b, c>> \in R => <<a, c>> \in R

\* How many elements of P come before e.
Rank(P, R, e) == Cardinality({f \in P : <<f, e>> \in R})

LEMMA RankType ==
    ASSUME NEW P, IsFiniteSet(P), NEW R, StrictOrder(R, P), NEW e \in P
    PROVE  Cardinality(P) \in Nat \ {0} /\ Rank(P, R, e) \in 0..(Cardinality(P) - 1)
<1> DEFINE below == {f \in P : <<f, e>> \in R}
<1>1. below \in SUBSET (P \ {e})
  BY DEF StrictOrder
<1>2. IsFiniteSet(P \ {e}) /\ Cardinality(P \ {e}) = Cardinality(P) - 1
  BY FS_RemoveElement
<1>3. IsFiniteSet(below) /\ Cardinality(below) <= Cardinality(P \ {e})
  BY <1>1, <1>2, FS_Subset
<1>4. Cardinality(below) \in Nat /\ Cardinality(P) \in Nat /\ Cardinality(P \ {e}) \in Nat
  BY <1>2, <1>3, FS_CardinalityType
<1>5. QED
  BY <1>2, <1>3, <1>4 DEF Rank

\* Ranks are in the order of the elements.
LEMMA RankMonotone ==
    ASSUME NEW P, IsFiniteSet(P), NEW R, StrictOrder(R, P), NEW a \in P, NEW b \in P,
           <<a, b>> \in R
    PROVE  Rank(P, R, a) < Rank(P, R, b)
<1> DEFINE A == {f \in P : <<f, a>> \in R}
           B == {f \in P : <<f, b>> \in R}
<1>1. A \cup {a} \in SUBSET B /\ a \notin A
  BY DEF StrictOrder
<1>2. IsFiniteSet(A) /\ IsFiniteSet(B)
  <2>1. A \in SUBSET P /\ B \in SUBSET P
    OBVIOUS
  <2>2. QED
    BY <2>1, FS_Subset
<1> HIDE DEF A, B
<1>3. Cardinality(A \cup {a}) = Cardinality(A) + 1
  BY <1>1, <1>2, FS_AddElement
<1>4. Cardinality(A \cup {a}) <= Cardinality(B)
  BY <1>1, <1>2, FS_Subset
<1>5. Cardinality(A) \in Nat /\ Cardinality(B) \in Nat
  BY <1>2, FS_CardinalityType
<1>6. Cardinality(A) < Cardinality(B)
  BY <1>3, <1>4, <1>5
<1>7. QED
  BY <1>6 DEF Rank, A, B

LEMMA RankInjective ==
    ASSUME NEW P, IsFiniteSet(P), NEW R, StrictOrder(R, P), NEW a \in P, NEW b \in P,
           Rank(P, R, a) = Rank(P, R, b)
    PROVE  a = b
<1>1. Rank(P, R, a) \in Nat /\ Rank(P, R, b) \in Nat
  BY RankType
<1>2. ~(<<a, b>> \in R) /\ ~(<<b, a>> \in R)
  BY <1>1, RankMonotone
<1>3. QED
  BY <1>2 DEF StrictOrder

\* Every rank is taken.
LEMMA RankTaken ==
    ASSUME NEW P, IsFiniteSet(P), NEW R, StrictOrder(R, P), NEW k \in 1..Cardinality(P)
    PROVE  \E e \in P : Rank(P, R, e) = k - 1
<1> DEFINE T == 0..(Cardinality(P) - 1)
           f == [e \in P |-> Rank(P, R, e)]
<1>1. Cardinality(P) \in Nat
  BY FS_CardinalityType
<1>2. IsFiniteSet(T) /\ Cardinality(T) = Cardinality(P)
  <2>1. 0 \in Int /\ Cardinality(P) - 1 \in Int
    BY <1>1
  <2>2. IsFiniteSet(T) /\ Cardinality(T) = IF 0 > Cardinality(P) - 1 THEN 0 ELSE Cardinality(P) - 1 - 0 + 1
    BY <2>1, FS_Interval
  <2> HIDE DEF T
  <2>3. QED
    BY <1>1, <2>2
<1>3. f \in Injection(P, T)
  <2>1. f \in [P -> T]
    BY RankType
  <2>2. \A a, b \in P : f[a] = f[b] => a = b
    BY RankInjective
  <2> HIDE DEF f, T
  <2>3. QED
    BY <2>1, <2>2 DEF Injection, IsInjective
<1>4. f \in Surjection(P, T)
  <2> HIDE DEF f, T
  <2>1. QED
    BY <1>2, <1>3, FS_Injection
<1>5. k - 1 \in T
  BY <1>1
<1>6. \E e \in P : f[e] = k - 1
  <2> HIDE DEF f, T
  <2>1. QED
    BY <1>4, <1>5 DEF Surjection
<1>7. QED
  BY <1>6

-----------------------------------------------------------------------------
(* Positions in their order. *)

\* Ascending lists all of a finite set of numbers, in their order.
LEMMA AscendingFacts ==
    ASSUME NEW P \in SUBSET Int, IsFiniteSet(P)
    PROVE  /\ Cardinality(P) \in Nat
           /\ Ascending(P) \in [1..Cardinality(P) -> P]
           /\ \A j, k \in 1..Cardinality(P) : j < k => Ascending(P)[j] < Ascending(P)[k]
           /\ \A i \in P : \E k \in 1..Cardinality(P) : Ascending(P)[k] = i
<1> DEFINE N == Cardinality(P)
           R == {q \in P \X P : q[1] < q[2]}
<1>1. StrictOrder(R, P) /\ \A a, b \in P : <<a, b>> \in R <=> a < b
  BY DEF StrictOrder
<1>2. \A i \in P : Cardinality({j \in P : j < i}) = Rank(P, R, i)
  <2>1. TAKE i \in P
  <2>2. {j \in P : j < i} = {j \in P : <<j, i>> \in R}
    BY <1>1
  <2>3. QED
    BY <2>2 DEF Rank
<1> HIDE DEF R
<1>3. N \in Nat
  BY FS_CardinalityType
<1>4. ASSUME NEW k \in 1..N PROVE Ascending(P)[k] \in P /\ Rank(P, R, Ascending(P)[k]) = k - 1
  <2>1. \E i \in P : Cardinality({j \in P : j < i}) = k - 1
    BY <1>1, <1>2, RankTaken
  <2>2. Ascending(P)[k] = CHOOSE i \in P : Cardinality({j \in P : j < i}) = k - 1
    BY DEF Ascending
  <2>3. Ascending(P)[k] \in P /\ Cardinality({j \in P : j < Ascending(P)[k]}) = k - 1
    BY <2>1, <2>2
  <2>4. QED
    BY <1>2, <2>3
<1>5. Ascending(P) \in [1..N -> P]
  <2>1. Ascending(P) = [k \in 1..N |-> Ascending(P)[k]]
    BY DEF Ascending
  <2> HIDE DEF N
  <2>2. QED
    BY <1>4, <2>1
<1>6. ASSUME NEW j \in 1..N, NEW k \in 1..N, j < k PROVE Ascending(P)[j] < Ascending(P)[k]
  <2> DEFINE a == Ascending(P)[j]
             b == Ascending(P)[k]
  <2>1. a \in P /\ b \in P /\ Rank(P, R, a) = j - 1 /\ Rank(P, R, b) = k - 1
    BY <1>4
  <2> HIDE DEF a, b
  <2>2. a # b
    BY <1>3, <1>6, <2>1
  <2>3. ~(<<b, a>> \in R)
    <3>1. SUFFICES ASSUME <<b, a>> \in R PROVE FALSE
      OBVIOUS
    <3>2. k - 1 < j - 1
      BY <1>1, <2>1, <3>1, RankMonotone
    <3>3. QED
      BY <1>3, <1>6, <3>2
  <2>4. a < b
    BY <1>1, <2>1, <2>2, <2>3
  <2>5. QED
    BY <2>4 DEF a, b
<1>7. ASSUME NEW i \in P PROVE \E k \in 1..N : Ascending(P)[k] = i
  <2>1. Rank(P, R, i) \in 0..(N - 1)
    BY <1>1, RankType
  <2>2. PICK k \in 1..N : Rank(P, R, i) = k - 1
    <3>1. Rank(P, R, i) + 1 \in 1..N
      BY <1>3, <2>1
    <3>2. Rank(P, R, i) = (Rank(P, R, i) + 1) - 1
      BY <2>1
    <3>3. QED
      BY <3>1, <3>2
  <2>3. Ascending(P)[k] = i
    BY <1>1, <1>4, <2>2, RankInjective
  <2>4. QED
    BY <2>3
<1>8. QED
  BY <1>3, <1>5, <1>6, <1>7

\* The set of the positions of a list, and its sets of positions.
LEMMA PositionsFinite ==
    ASSUME NEW n \in Nat, NEW P \in SUBSET (1..n)
    PROVE  IsFiniteSet(P) /\ Cardinality(P) \in Nat /\ Cardinality(P) <= n
<1>1. IsFiniteSet(1..n) /\ Cardinality(1..n) = n
  <2>1. IsFiniteSet(1..n) /\ Cardinality(1..n) = IF 1 > n THEN 0 ELSE n - 1 + 1
    BY FS_Interval
  <2>2. QED
    BY <2>1
<1>2. QED
  BY <1>1, FS_Subset, FS_CardinalityType

-----------------------------------------------------------------------------
(* Parts of a list. *)

LEMMA SeqFacts ==
    ASSUME NEW S, NEW s \in Seq(S)
    PROVE  /\ Len(s) \in Nat /\ DOMAIN s = 1..Len(s)
           /\ ToSet(s) = {s[i] : i \in 1..Len(s)} /\ ToSet(s) \subseteq S
           /\ \A x \in ToSet(s) : \E i \in 1..Len(s) : s[i] = x
           /\ \A i \in 1..Len(s) : s[i] \in S /\ s[i] \in ToSet(s)
           /\ s \in Seq(ToSet(s))
  BY DEF ToSet

\* A list is one of whatever all of its elements are.
LEMMA ListOf ==
    ASSUME NEW S, NEW T, NEW s \in Seq(S), \A i \in 1..Len(s) : s[i] \in T
    PROVE  s \in Seq(T)
  OBVIOUS

\* A function on the first n numbers is a list of n elements.
LEMMA SeqFromFunction ==
    ASSUME NEW S, NEW n \in Nat, NEW f \in [1..n -> S] PROVE f \in Seq(S) /\ Len(f) = n
  OBVIOUS

\* Lists are equal element by element.
LEMMA SeqsEqual ==
    ASSUME NEW S, NEW s \in Seq(S), NEW t \in Seq(S), Len(s) = Len(t),
           \A i \in 1..Len(s) : s[i] = t[i]
    PROVE  s = t
  OBVIOUS

\* Take keeps the elements at the given positions, in their order.
LEMMA TakeFacts ==
    ASSUME NEW S, NEW s \in Seq(S), NEW P \in SUBSET (1..Len(s))
    PROVE  /\ Take(s, P) \in Seq(S)
           /\ Len(Take(s, P)) = Cardinality(P) /\ Cardinality(P) <= Len(s)
           /\ Ascending(P) \in [1..Cardinality(P) -> P]
           /\ \A k \in 1..Cardinality(P) : Take(s, P)[k] = s[Ascending(P)[k]]
           /\ ToSet(Take(s, P)) = {s[i] : i \in P}
<1> DEFINE A == Ascending(P)
           N == Cardinality(P)
<1>1. Len(s) \in Nat /\ \A i \in 1..Len(s) : s[i] \in S
  OBVIOUS
<1>2. P \in SUBSET Int /\ IsFiniteSet(P) /\ N \in Nat /\ N <= Len(s)
  BY <1>1, PositionsFinite
<1>3. A \in [1..N -> P] /\ \A i \in P : \E k \in 1..N : A[k] = i
  BY <1>2, AscendingFacts
<1> HIDE DEF A, N
<1>4. Take(s, P) = [k \in 1..N |-> s[A[k]]]
  BY DEF Take, A, N
<1>5. \A k \in 1..N : s[A[k]] \in S
  BY <1>1, <1>3
<1>6. Take(s, P) \in Seq(S) /\ Len(Take(s, P)) = N /\ DOMAIN Take(s, P) = 1..N
  BY <1>2, <1>4, <1>5
<1>7. ToSet(Take(s, P)) = {s[i] : i \in P}
  <2>1. ToSet(Take(s, P)) = {s[A[k]] : k \in 1..N}
    BY <1>4, <1>6 DEF ToSet
  <2>2. QED
    BY <1>3, <2>1
<1>8. QED
  BY <1>2, <1>3, <1>4, <1>6, <1>7 DEF A, N

\* Keep drops the elements that are not in T, and no other ones.
LEMMA KeepFacts ==
    ASSUME NEW S, NEW s \in Seq(S), NEW T
    PROVE  /\ Keep(s, T) \in Seq(S)
           /\ Len(Keep(s, T)) <= Len(s)
           /\ ToSet(Keep(s, T)) = ToSet(s) \cap T
<1> DEFINE P == {i \in Positions(s) : s[i] \in T}
<1>1. P \in SUBSET (1..Len(s)) /\ Keep(s, T) = Take(s, P)
  BY DEF Positions, Keep
<1>2. {s[i] : i \in P} = ToSet(s) \cap T
  <2>1. ToSet(s) = {s[i] : i \in 1..Len(s)}
    BY SeqFacts
  <2>2. QED
    BY <2>1 DEF Positions
<1> HIDE DEF P
<1>3. QED
  BY <1>1, <1>2, TakeFacts

\* A slice from the start.
LEMMA FirstFacts ==
    ASSUME NEW S, NEW s \in Seq(S), NEW k \in Nat
    PROVE  /\ First(s, k) \in Seq(S)
           /\ Len(First(s, k)) = Least(k, Len(s))
           /\ Len(First(s, k)) <= k /\ Len(First(s, k)) <= Len(s)
           /\ \A i \in 1..Len(First(s, k)) : First(s, k)[i] = s[i]
           /\ ToSet(First(s, k)) \subseteq ToSet(s)
           /\ Len(s) <= k => First(s, k) = s
<1> DEFINE n == Least(k, Len(s))
<1>1. /\ Len(s) \in Nat /\ n \in Nat /\ n <= k /\ n <= Len(s)
      /\ Len(s) <= k => n = Len(s)
  BY DEF Least
<1> HIDE DEF n
<1>2. First(s, k) = SubSeq(s, 1, n)
  BY DEF First, n
<1>3. \A i \in 1..n : s[i] \in S
  BY <1>1
<1>4. /\ SubSeq(s, 1, n) \in Seq(S)
      /\ Len(SubSeq(s, 1, n)) = IF 1 <= n THEN n - 1 + 1 ELSE 0
      /\ \A i \in 1..(n - 1 + 1) : SubSeq(s, 1, n)[i] = s[1 + i - 1]
  BY <1>1, <1>3, SubSeqProperties
<1>5. Len(First(s, k)) = n /\ \A i \in 1..n : First(s, k)[i] = s[i]
  BY <1>1, <1>2, <1>4
<1>6. ASSUME NEW x \in ToSet(First(s, k)) PROVE x \in ToSet(s)
  <2>1. First(s, k) \in Seq(S)
    BY <1>2, <1>4
  <2>2. PICK i \in 1..n : First(s, k)[i] = x
    BY <1>5, <2>1, SeqFacts
  <2>3. i \in 1..Len(s) /\ s[i] = x
    BY <1>1, <1>5, <2>2
  <2>4. QED
    BY <2>3, SeqFacts
<1>7. Len(s) <= k => First(s, k) = s
  BY <1>1, <1>2, SubSeqFull
<1>8. QED
  BY <1>1, <1>2, <1>4, <1>5, <1>6, <1>7 DEF n

\* A part of a list, without a gap.
LEMMA SliceFacts ==
    ASSUME NEW S, NEW s \in Seq(S), NEW a \in Nat, NEW b \in Nat,
           1 <= a, a <= b + 1, b <= Len(s)
    PROVE  /\ SubSeq(s, a, b) \in Seq(S)
           /\ Len(SubSeq(s, a, b)) = b + 1 - a
           /\ \A i \in a..b : SubSeq(s, a, b)[i + 1 - a] = s[i]
           /\ ToSet(SubSeq(s, a, b)) = {s[i] : i \in a..b}
<1> DEFINE q == SubSeq(s, a, b)
<1>1. /\ q \in Seq(S) /\ Len(q) = b + 1 - a
      /\ \A k \in 1..(b + 1 - a) : q[k] = s[a + k - 1]
  OBVIOUS
<1> HIDE DEF q
<1>2. \A i \in a..b : i + 1 - a \in 1..(b + 1 - a) /\ a + (i + 1 - a) - 1 = i
  OBVIOUS
<1>3. \A i \in a..b : q[i + 1 - a] = s[i]
  BY <1>1, <1>2
<1>4. ToSet(q) = {s[i] : i \in a..b}
  <2>1. ASSUME NEW x \in ToSet(q) PROVE x \in {s[i] : i \in a..b}
    <3>1. PICK k \in 1..Len(q) : q[k] = x
      BY <1>1, SeqFacts
    <3>2. a + k - 1 \in a..b /\ x = s[a + k - 1]
      BY <1>1, <3>1
    <3>3. QED
      BY <3>2
  <2>2. ASSUME NEW i \in a..b PROVE s[i] \in ToSet(q)
    <3>1. i + 1 - a \in 1..Len(q) /\ q[i + 1 - a] = s[i]
      BY <1>1, <1>2, <1>3
    <3>2. QED
      BY <1>1, <3>1, SeqFacts
  <2>3. QED
    BY <2>1, <2>2
<1>5. QED
  BY <1>1, <1>3, <1>4 DEF q

LEMMA TailFacts ==
    ASSUME NEW S, NEW g \in Seq(S), NEW i \in 2..Len(g) PROVE g[i] \in ToSet(Tail(g))
<1>1. /\ Tail(g) \in Seq(S) /\ i - 1 \in 1..Len(Tail(g))
      /\ Tail(g)[i - 1] = g[i]
  OBVIOUS
<1>2. QED
  BY <1>1, SeqFacts

LEMMA ConcatFacts ==
    ASSUME NEW S, NEW s \in Seq(S), NEW t \in Seq(S)
    PROVE  /\ s \o t \in Seq(S)
           /\ Len(s \o t) = Len(s) + Len(t)
           /\ \A i \in 1..Len(s) : (s \o t)[i] = s[i]
           /\ \A i \in 1..Len(t) : (s \o t)[Len(s) + i] = t[i]
           /\ ToSet(s \o t) = ToSet(s) \cup ToSet(t)
<1>1. /\ s \o t \in Seq(S) /\ Len(s \o t) = Len(s) + Len(t)
      /\ Len(s) \in Nat /\ Len(t) \in Nat
      /\ \A i \in 1..Len(s) : (s \o t)[i] = s[i]
      /\ \A i \in 1..Len(t) : (s \o t)[Len(s) + i] = t[i]
      /\ \A i \in 1..(Len(s) + Len(t)) :
            (s \o t)[i] = IF i <= Len(s) THEN s[i] ELSE t[i - Len(s)]
  OBVIOUS
<1> DEFINE u == s \o t
<1>2. ASSUME NEW x \in ToSet(u) PROVE x \in ToSet(s) \cup ToSet(t)
  <2>1. PICK i \in 1..Len(u) : u[i] = x
    BY <1>1, SeqFacts
  <2>2. CASE i <= Len(s)
    <3>1. i \in 1..Len(s) /\ u[i] = s[i]
      BY <1>1, <2>2
    <3>2. QED
      BY <2>1, <3>1, SeqFacts
  <2>3. CASE i > Len(s)
    <3>1. i - Len(s) \in 1..Len(t) /\ u[i] = t[i - Len(s)]
      BY <1>1, <2>3
    <3>2. QED
      BY <2>1, <3>1, SeqFacts
  <2>4. QED
    BY <1>1, <2>2, <2>3
<1>3. ASSUME NEW x \in ToSet(s) \cup ToSet(t) PROVE x \in ToSet(u)
  <2>1. CASE x \in ToSet(s)
    <3>1. PICK i \in 1..Len(s) : s[i] = x
      BY <2>1, SeqFacts
    <3>2. i \in 1..Len(u) /\ u[i] = x
      BY <1>1, <3>1
    <3>3. QED
      BY <1>1, <3>2, SeqFacts
  <2>2. CASE x \in ToSet(t)
    <3>1. PICK i \in 1..Len(t) : t[i] = x
      BY <2>2, SeqFacts
    <3>2. Len(s) + i \in 1..Len(u) /\ u[Len(s) + i] = x
      BY <1>1, <3>1
    <3>3. QED
      BY <1>1, <3>2, SeqFacts
  <2>3. QED
    BY <2>1, <2>2
<1>4. QED
  BY <1>1, <1>2, <1>3

LEMMA AppendFacts ==
    ASSUME NEW S, NEW s \in Seq(S), NEW x \in S
    PROVE  Append(s, x) \in Seq(S) /\ ToSet(Append(s, x)) = ToSet(s) \cup {x}
<1>1. <<x>> \in Seq(S) /\ ToSet(<<x>>) = {x}
  BY DEF ToSet
<1>2. s \o <<x>> \in Seq(S) /\ ToSet(s \o <<x>>) = ToSet(s) \cup ToSet(<<x>>)
  BY <1>1, ConcatFacts
<1>3. Append(s, x) = s \o <<x>>
  OBVIOUS
<1>4. QED
  BY <1>1, <1>2, <1>3

-----------------------------------------------------------------------------
(* A list of lists, one after the other. *)

\* g is the recursive function FlattenSeq computes with, for the first n lists.
Flattens(s, n, g) ==
    g = [i \in 1..n |-> IF i = 1 THEN s[i] ELSE g[i - 1] \o s[i]]

LEMMA FlattensExists ==
    ASSUME NEW s, NEW N \in Nat PROVE \E g : Flattens(s, N, g)
<1> DEFINE T == {m \in Nat : \E g : Flattens(s, m, g)}
<1>1. 0 \in T
  <2>1. Flattens(s, 0, [i \in 1..0 |-> s])
    BY DEF Flattens
  <2>2. QED
    BY <2>1
<1>2. ASSUME NEW n \in 1..N, n - 1 \in T PROVE n \in T
  <2>1. PICK g : Flattens(s, n - 1, g)
    BY <1>2
  <2> DEFINE h == [i \in 1..n |-> IF i = n THEN (IF i = 1 THEN s[i] ELSE g[i - 1] \o s[i])
                                 ELSE g[i]]
  <2>2. ASSUME NEW i \in 1..n PROVE h[i] = IF i = 1 THEN s[i] ELSE h[i - 1] \o s[i]
    <3>1. i - 1 # n /\ (i # 1 => i - 1 \in 1..n)
      OBVIOUS
    <3>2. i # 1 => h[i - 1] = g[i - 1]
      BY <3>1
    <3>3. i # n => i \in 1..(n - 1)
      OBVIOUS
    <3>4. i # n => g[i] = IF i = 1 THEN s[i] ELSE g[i - 1] \o s[i]
      BY <2>1, <3>3 DEF Flattens
    <3>5. h[i] = IF i = n THEN (IF i = 1 THEN s[i] ELSE g[i - 1] \o s[i]) ELSE g[i]
      OBVIOUS
    <3> HIDE DEF h
    <3>6. QED
      BY <3>2, <3>4, <3>5
  <2>3. h = [i \in 1..n |-> h[i]]
    OBVIOUS
  <2> HIDE DEF h
  <2>4. Flattens(s, n, h)
    BY <2>2, <2>3 DEF Flattens
  <2>5. QED
    BY <2>4
<1>3. N \in T
  <2> HIDE DEF T
  <2>1. QED
    BY <1>1, <1>2, Induction
<1>4. QED
  BY <1>3

\* Nothing is lost, and nothing comes from elsewhere.
LEMMA FlattenFacts ==
    ASSUME NEW S, NEW s \in Seq(Seq(S))
    PROVE  /\ FlattenSeq(s) \in Seq(S)
           /\ ToSet(FlattenSeq(s)) = UNION {ToSet(s[i]) : i \in 1..Len(s)}
<1> DEFINE N == Len(s)
           f == CHOOSE g : Flattens(s, N, g)
           Q == Seq(S)
           U(n) == UNION {ToSet(s[i]) : i \in 1..n}
           T == {n \in 0..N : n = 0 \/ (f[n] \in Seq(S) /\ ToSet(f[n]) = U(n))}
<1>1. N \in Nat /\ \A i \in 1..N : s[i] \in Seq(S)
  <2>1. s \in Seq(Q)
    OBVIOUS
  <2> HIDE DEF Q
  <2>2. N \in Nat /\ \A i \in 1..N : s[i] \in Q
    BY <2>1
  <2>3. QED
    BY <2>2 DEF Q
<1>2. Flattens(s, N, f)
  BY <1>1, FlattensExists
<1>3. N # 0 => FlattenSeq(s) = f[N]
  BY <1>1 DEF FlattenSeq, Flattens
<1> HIDE DEF f
<1>4. 0 \in T
  BY <1>1
<1>5. ASSUME NEW n \in 1..N, n - 1 \in T PROVE n \in T
  <2>1. f[n] = IF n = 1 THEN s[n] ELSE f[n - 1] \o s[n]
    BY <1>1, <1>2 DEF Flattens
  <2>2. n \in 0..N /\ n # 0
    BY <1>1
  <2>3. CASE n = 1
    <3>1. U(n) = ToSet(s[n])
      <4>1. 1..n = {n}
        BY <2>3
      <4>2. {ToSet(s[i]) : i \in 1..n} = {ToSet(s[n])}
        BY <4>1
      <4>3. QED
        BY <4>2
    <3> HIDE DEF U
    <3>2. QED
      BY <1>1, <2>1, <2>2, <2>3, <3>1
  <2>4. CASE n # 1
    <3>1. U(n) = U(n - 1) \cup ToSet(s[n])
      <4>1. 1..n = (1..(n - 1)) \cup {n}
        BY <1>1
      <4>2. QED
        BY <4>1
    <3> HIDE DEF U
    <3>2. f[n - 1] \in Seq(S) /\ ToSet(f[n - 1]) = U(n - 1)
      <4>1. n - 1 # 0
        BY <1>1, <2>4
      <4>2. QED
        BY <1>5, <4>1
    <3>3. f[n] = f[n - 1] \o s[n] /\ s[n] \in Seq(S)
      BY <1>1, <2>1, <2>4
    <3>4. f[n] \in Seq(S) /\ ToSet(f[n]) = ToSet(f[n - 1]) \cup ToSet(s[n])
      BY <3>2, <3>3, ConcatFacts
    <3>5. QED
      BY <2>2, <3>1, <3>2, <3>4
  <2>5. QED
    BY <2>3, <2>4
<1>6. N \in T
  <2>1. N \in Nat /\ \A n \in 1..N : n - 1 \in T => n \in T
    BY <1>1, <1>5
  <2> HIDE DEF N, T
  <2>2. \A n \in 0..N : n \in T
    BY <1>4, <2>1, Induction
  <2>3. QED
    BY <2>1, <2>2
<1>7. CASE N = 0
  <2>1. FlattenSeq(s) = s /\ s = <<>>
    BY <1>7 DEF FlattenSeq
  <2>2. 1..N = {}
    BY <1>7
  <2>3. QED
    BY <2>1, <2>2, EmptySeq DEF ToSet
<1>8. CASE N # 0
  BY <1>3, <1>6, <1>8
<1>9. QED
  BY <1>7, <1>8
=============================================================================

----------------------------- MODULE FoldProofs -----------------------------
(***************************************************************************)
(* A rule for loops.  A loop of the code over a list is a FoldLeft in the  *)
(* models; what it computes is shown like the invariant of a loop: it      *)
(* holds of the base and an empty prefix, and every turn carries it over   *)
(* to the next element.                                                    *)
(*                                                                         *)
(* A loop is an instance of this module, with its turn for Op and its      *)
(* invariant for Inv; p is what both may depend on besides.                *)
(***************************************************************************)
EXTENDS ListProofs

CONSTANTS
    Op(_, _, _),     \* Op(p, v, x): a turn with the value v so far and element x
    Inv(_, _, _, _)  \* Inv(p, s, i, v): v is right after the first i elements of s

Folded(p, base, s) == FoldLeft(LAMBDA v, x : Op(p, v, x), base, s)

-----------------------------------------------------------------------------
(* The recursive function of the community's FoldLeft. *)

LEMMA MaxIs == ASSUME NEW n \in Nat, NEW t \in SUBSET (1..n), n \in t PROVE Max(t) = n
<1>1. \A y \in t : n >= y
  OBVIOUS
<1>2. \A x \in t : (\A y \in t : x >= y) => x = n
  OBVIOUS
<1>3. QED
  BY <1>1, <1>2 DEF Max

\* g is the recursive function FoldLeft computes with, for the first n elements.
Iterates(p, base, s, n, g) ==
    g = [t \in SUBSET (1..n) |->
            IF t = {} THEN base ELSE Op(p, g[t \ {Max(t)}], s[Max(t)])]

\* From the function for n - 1 elements to the one for n.
Extended(p, base, s, n, g) ==
    [t \in SUBSET (1..n) |-> IF n \in t THEN Op(p, g[t \ {n}], s[n]) ELSE g[t]]

LEMMA OneMore ==
    ASSUME NEW p, NEW base, NEW s, NEW n \in Nat \ {0}, NEW g, Iterates(p, base, s, n - 1, g)
    PROVE  Iterates(p, base, s, n, Extended(p, base, s, n, g))
<1> DEFINE h == Extended(p, base, s, n, g)
<1>1. ASSUME NEW t \in SUBSET (1..n)
      PROVE  /\ n \notin t => t \in SUBSET (1..(n - 1))
             /\ t \ {n} \in SUBSET (1..(n - 1)) /\ t \ {n} \in SUBSET (1..n)
  OBVIOUS
<1>2. ASSUME NEW t \in SUBSET (1..n), n \in t
      PROVE  h[t] = Op(p, h[t \ {Max(t)}], s[Max(t)])
  <2>1. Max(t) = n
    BY <1>2, MaxIs
  <2>2. h[t] = Op(p, g[t \ {n}], s[n]) /\ h[t \ {n}] = g[t \ {n}]
    BY <1>1, <1>2 DEF Extended
  <2> HIDE DEF h
  <2>3. QED
    BY <2>1, <2>2
<1>3. ASSUME NEW t \in SUBSET (1..n), n \notin t, t # {}
      PROVE  h[t] = Op(p, h[t \ {Max(t)}], s[Max(t)])
  <2>1. g[t] = Op(p, g[t \ {Max(t)}], s[Max(t)])
    BY <1>1, <1>3 DEF Iterates
  <2>2. h[t] = g[t]
    BY <1>3 DEF Extended
  <2>3. t \ {Max(t)} \in SUBSET (1..n) /\ n \notin t \ {Max(t)}
    BY <1>3
  <2>4. h[t \ {Max(t)}] = g[t \ {Max(t)}]
    BY <2>3 DEF Extended
  <2> HIDE DEF h
  <2>5. QED
    BY <2>1, <2>2, <2>4
<1>4. h[{}] = base
  BY DEF Iterates, Extended
<1>5. h = [t \in SUBSET (1..n) |-> h[t]]
  BY DEF Extended
<1> HIDE DEF h
<1>6. \A t \in SUBSET (1..n) :
         h[t] = IF t = {} THEN base ELSE Op(p, h[t \ {Max(t)}], s[Max(t)])
  BY <1>2, <1>3, <1>4
<1>7. h = [t \in SUBSET (1..n) |->
             IF t = {} THEN base ELSE Op(p, h[t \ {Max(t)}], s[Max(t)])]
  BY <1>5, <1>6
<1>8. Iterates(p, base, s, n, h)
  BY <1>7 DEF Iterates
<1>9. QED
  BY <1>8 DEF h

\* The function exists, whatever Op is.
LEMMA IteratesExists ==
    ASSUME NEW p, NEW base, NEW s, NEW N \in Nat PROVE \E g : Iterates(p, base, s, N, g)
<1> DEFINE T == {m \in Nat : \E g : Iterates(p, base, s, m, g)}
<1>1. 0 \in T
  <2>1. Iterates(p, base, s, 0, [t \in SUBSET (1..0) |-> base])
    BY DEF Iterates
  <2>2. QED
    BY <2>1
<1>2. ASSUME NEW n \in 1..N, n - 1 \in T PROVE n \in T
  <2>1. PICK g : Iterates(p, base, s, n - 1, g)
    BY <1>2
  <2>2. Iterates(p, base, s, n, Extended(p, base, s, n, g))
    BY <2>1, OneMore
  <2>3. QED
    BY <2>2
<1>3. N \in T
  <2> HIDE DEF T
  <2>1. QED
    BY <1>1, <1>2, Induction
<1>4. QED
  BY <1>3

\* The loop rule.
LEMMA LoopRule ==
    ASSUME NEW p, NEW base, NEW s, Len(s) \in Nat, DOMAIN s = 1..Len(s),
           Inv(p, s, 0, base),
           \A i \in 1..Len(s) : \A v : Inv(p, s, i - 1, v) => Inv(p, s, i, Op(p, v, s[i]))
    PROVE  Inv(p, s, Len(s), Folded(p, base, s))
<1> DEFINE N == Len(s)
           f == CHOOSE g : Iterates(p, base, s, N, g)
           T == {i \in 0..N : Inv(p, s, i, f[1..i])}
<1>1. Iterates(p, base, s, N, f)
  BY IteratesExists
<1>2. Folded(p, base, s) = f[DOMAIN s]
  BY DEF Folded, FoldLeft, MapThenFoldSet, Iterates
<1> HIDE DEF f
<1>3. 0 \in T
  <2>1. 1..0 = {} /\ f[{}] = base
    BY <1>1 DEF Iterates
  <2>2. QED
    BY <2>1
<1>4. ASSUME NEW i \in 1..N, i - 1 \in T PROVE i \in T
  <2>1. 1..i \in SUBSET (1..N) /\ 1..i # {} /\ (1..i) \ {i} = 1..(i - 1)
    OBVIOUS
  <2>2. Max(1..i) = i
    BY MaxIs
  <2>3. f[1..i] = Op(p, f[1..(i - 1)], s[i])
    BY <1>1, <2>1, <2>2 DEF Iterates
  <2>4. QED
    BY <1>4, <2>3
<1>5. N \in T
  <2> HIDE DEF T
  <2>1. QED
    BY <1>3, <1>4, Induction, SMTT(30)
<1>6. QED
  BY <1>2, <1>5
=============================================================================

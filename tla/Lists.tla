------------------------------- MODULE Lists -------------------------------
(***************************************************************************)
(* The parts of a list that comprehensions, slices and sorted() of the     *)
(* code make of it, by the rank of each element that stays.                *)
(***************************************************************************)
EXTENDS Naturals, Sequences, FiniteSets

Positions(s) == 1..Len(s)

Least(a, b) == IF a < b THEN a ELSE b

\* s[:k]
First(s, k) == SubSeq(s, 1, Least(k, Len(s)))

\* A finite set of numbers, as a list.
Ascending(P) ==
    [k \in 1..Cardinality(P) |-> CHOOSE i \in P : Cardinality({j \in P : j < i}) = k - 1]

\* The elements of s at the positions in P, in their order in s.
Take(s, P) == [k \in 1..Cardinality(P) |-> s[Ascending(P)[k]]]

\* [x for x in s if x in T]
Keep(s, T) == Take(s, {i \in Positions(s) : s[i] \in T})
=============================================================================

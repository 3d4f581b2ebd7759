------------------------------ MODULE MCIntake ------------------------------
(* Intake on a small instance: any submission may name a page, an uploaded   *)
(* file or a text, so that they meet at one URL or do not.                   *)
EXTENDS Intake, TLC

\* Requests, groups and acceptable contents are interchangeable.
Interchangeable ==
    Permutations(Requests) \cup Permutations(Groups) \cup Permutations(Contents \ Refused)
=============================================================================

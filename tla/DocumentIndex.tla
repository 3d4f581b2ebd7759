--------------------------- MODULE DocumentIndex ---------------------------
(***************************************************************************)
(* What the storage layer promises the query side, as a specification of   *)
(* its own: which chunks a search can find while stores of their documents *)
(* run, fail and finish.  A search looks at Qdrant alone, so what counts   *)
(* is the points, whatever the status of their rows.                       *)
(*                                                                         *)
(*   - A store adds chunks of its own, in parts; while it runs it does so  *)
(*     only when no finished version of the document is searchable.        *)
(*   - A finished version gains nothing.  It is removed, like any other,   *)
(*     as a whole and at once, by a later store.                           *)
(*   - A store finishes when all of it is searchable.                      *)
(*   - A store that failed leaves what it has added, and one request that  *)
(*     was outstanding may still be carried out.                           *)
(*                                                                         *)
(* The promises end for a document whose stores overlap: nothing locks it, *)
(* and it is blurred from then on.                                         *)
(*                                                                         *)
(* StorageWriter implements this specification (the points in Qdrant are   *)
(* the refinement mapping); QueryEngine takes it as its environment.       *)
(***************************************************************************)
CONSTANTS
    Docs,       \* documents
    Versions,   \* versions of documents: one store each
    DocOf,      \* the document of a version
    ChunksOf    \* the chunks of a version

VARIABLES
    searchable, \* the chunks a search can find
    progress,   \* how far the store of a version is
    blurred     \* documents whose stores overlapped

indexVars == <<searchable, progress, blurred>>

\* "landed": failed, and the request it left outstanding was carried out.
Progress == {"new", "storing", "failed", "landed", "finished"}

Failed(v) == progress[v] \in {"failed", "landed"}

Siblings(v) == {w \in Versions \ {v} : DocOf[w] = DocOf[v]}
FinishedSiblings(v) == {w \in Siblings(v) : progress[w] = "finished"}
ChunksOfAll(vs) == UNION {ChunksOf[w] : w \in vs}

\* A running store of a document that has always had one at a time.
InOrder(v) == progress[v] = "storing" /\ DocOf[v] \notin blurred

Init ==
    /\ searchable = {}
    /\ progress = [v \in Versions |-> "new"]
    /\ blurred = {}

\* A store begins, perhaps while another one of the document is running.
Start(v) ==
    /\ progress[v] = "new"
    /\ progress' = [progress EXCEPT ![v] = "storing"]
    /\ \/ blurred' = blurred \cup {DocOf[v]}
       \/ (\A w \in Siblings(v) : progress[w] # "storing") /\ UNCHANGED blurred
    /\ UNCHANGED searchable

\* Qdrant carries out a request of a store, or of one that has failed.
CarriedOut(v) ==
    /\ progress[v] \in {"storing", "failed"}
    /\ progress' = [progress EXCEPT ![v] = IF @ = "failed" THEN "landed" ELSE @]
    /\ UNCHANGED blurred

\* A batch of points is upserted.
Add(v, batch) ==
    /\ CarriedOut(v)
    /\ InOrder(v) => searchable \cap ChunksOfAll(FinishedSiblings(v)) = {}
    /\ searchable' = searchable \cup batch

\* Points of other versions are deleted: all there are, unless the request comes
\* late or stores overlap.
Remove(v, old) ==
    /\ CarriedOut(v)
    /\ InOrder(v) => old = Siblings(v)
    /\ searchable' = searchable \ ChunksOfAll(old)

\* The chunks are marked 'indexed'.
Finish(v) ==
    /\ progress[v] = "storing"
    /\ InOrder(v) => ChunksOf[v] \subseteq searchable
    /\ progress' = [progress EXCEPT ![v] = "finished"]
    /\ UNCHANGED <<searchable, blurred>>

Abandon(v) ==
    /\ progress[v] = "storing"
    /\ progress' = [progress EXCEPT ![v] = "failed"]
    /\ UNCHANGED <<searchable, blurred>>

StoreStep(v) ==
    \/ Start(v) \/ Finish(v) \/ Abandon(v)
    \/ \E batch \in SUBSET (ChunksOf[v] \ searchable) : Add(v, batch)
    \/ \E old \in SUBSET Siblings(v) : Remove(v, old)

Next == \E v \in Versions : StoreStep(v)

Spec == Init /\ [][Next]_indexVars

-----------------------------------------------------------------------------
(* What follows from the promises, and QueryEngine builds on. *)

\* Nothing of a version is searchable before its store begins.
NewIsHidden == \A v \in Versions : progress[v] = "new" => ChunksOf[v] \cap searchable = {}

\* One store of a document at a time.
OneStore ==
    \A v \in Versions : InOrder(v) => \A w \in Siblings(v) : progress[w] # "storing"

\* Two versions of a document are searchable side by side only if one of them is
\* what a failed store left.
SideBySideAfterFailure ==
    \A v \in Versions : \A w \in Siblings(v) :
        /\ DocOf[v] \notin blurred
        /\ ChunksOf[v] \cap searchable # {}
        /\ ChunksOf[w] \cap searchable # {}
        => Failed(v) \/ Failed(w)

Orderly == NewIsHidden /\ OneStore /\ SideBySideAfterFailure
=============================================================================

---------------------------- MODULE MCWorkerLoop ----------------------------
(* WorkerLoop on small instances: two workers of one group that take over    *)
(* from each other, and two groups that read the same topic.                 *)
EXTENDS WorkerLoop, TLC

CONSTANTS d1, d2, pdf, html, w1, w2

\* Two workers of one group.
OneGroup == [w \in {w1, w2} |-> pdf]

\* One worker, restarted by its manager.
OneWorker == w1 :> pdf

\* One worker of each type, as WorkerManager starts them.
TwoGroups == (w1 :> pdf) @@ (w2 :> html)
=============================================================================

--------------------------- MODULE MCWorkerActions ---------------------------
(***************************************************************************)
(* Instances of WorkerActions for TLC: model values and the symmetry of      *)
(* Tasks, budget digests and threads.                                       *)
(***************************************************************************)
EXTENDS WorkerActions, TLC

CONSTANTS r0, r1, k1, k2, t1, t2

Symmetry ==
    Permutations(Tasks) \cup Permutations(Revisions) \cup Permutations(Threads)
=============================================================================

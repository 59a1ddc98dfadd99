----------------------- MODULE MCFrostOrchestrator -----------------------
(* Model values for the witnesses and the runs of FrostOrchestrator. *)
EXTENDS FrostOrchestrator, TLC

CONSTANTS k1, k2, run1, run2, run3

MCKey == {k1, k2}
TwoRuns == {run1, run2}
ThreeRuns == {run1, run2, run3}

(* Runs and witnesses are only compared for equality. *)
Symmetry == Permutations(Key) \cup Permutations(Run)
==========================================================================

----------------------------- MODULE TaskQueueMC -----------------------------
(* TaskQueue for TLC: the symmetry of the safety runs.  Task ids and the    *)
(* workers are interchangeable; the keys are not, one of them is global.    *)
EXTENDS TaskQueueRefinement, TLC

Symmetry == Permutations(Tasks) \cup Permutations(Workers)
=============================================================================

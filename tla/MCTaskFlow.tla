----------------------------- MODULE MCTaskFlow -----------------------------
(***************************************************************************)
(* TLC instance of TaskFlow.  Task numbers are not symmetric, but the      *)
(* host's task ids, the workers and the readings of the clocks, which only *)
(* have to differ, are interchangeable.                                    *)
(***************************************************************************)
EXTENDS TaskFlow, TLC

Symmetry == Permutations(Worker) \cup Permutations(HostTask) \cup Permutations(Reading)
=============================================================================

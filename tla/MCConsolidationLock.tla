------------------------ MODULE MCConsolidationLock ------------------------
(* TLC instance of ConsolidationLock. *)
EXTENDS ConsolidationLock, TLC

Symmetry == Permutations(Procs)
=============================================================================

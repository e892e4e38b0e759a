---------------------------- MODULE MCWorkerPool ----------------------------
(***************************************************************************)
(* Instances of WorkerPool for TLC.  Workers and sessions are               *)
(* interchangeable: nothing orders them, so both are symmetry sets where    *)
(* only safety is checked.                                                  *)
(***************************************************************************)
EXTENDS WorkerPoolInvariant, TLC

Symmetry == Permutations(Workers) \cup Permutations(Sessions)
=============================================================================

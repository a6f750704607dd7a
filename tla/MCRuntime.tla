------------------------------ MODULE MCRuntime ------------------------------
(* The runtime's handlers on a few interchangeable requests.                 *)
EXTENDS ExperimentRuntime, TLC

Symmetry == Permutations(Requests)
=============================================================================

-------------------------- MODULE MCSessionRuntime --------------------------
(***************************************************************************)
(* SessionRuntime on small pools: session objects and session ids are      *)
(* model values, interchangeable with one another.                         *)
(***************************************************************************)
EXTENDS SessionRuntime, TLC

Symmetry == Permutations(Sessions) \cup Permutations(Files)
=============================================================================

----------------------------- MODULE MCGraphLock -----------------------------
(***************************************************************************)
(* GraphLock with two requests of each kind.                               *)
(***************************************************************************)
EXTENDS GraphLock
=============================================================================

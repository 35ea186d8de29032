--------------------------- MODULE MCWorkspacePool ---------------------------
(***************************************************************************)
(* WorkspacePool on small pools: graphs and directories are model values,  *)
(* interchangeable with one another.                                       *)
(***************************************************************************)
EXTENDS WorkspacePool, TLC

Symmetry == Permutations(Graphs) \union Permutations(Dirs)
=============================================================================

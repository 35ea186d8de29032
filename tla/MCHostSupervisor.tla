-------------------------- MODULE MCHostSupervisor --------------------------
(***************************************************************************)
(* HostSupervisor with the automatic restart switched on and two restarts  *)
(* asked for by the user.                                                  *)
(***************************************************************************)
EXTENDS HostSupervisor
=============================================================================

--------------------------- MODULE MCEventStream ---------------------------
(***************************************************************************)
(* EventStream with limits of a few bytes and a handful of events.         *)
(***************************************************************************)
EXTENDS EventStream

\* Every kind of event but "closed", which only a recovery emits.
AllEmitted == {"delta", "snap", "queue", "widget", "attention", "frame"}
=============================================================================

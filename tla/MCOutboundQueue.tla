-------------------------- MODULE MCOutboundQueue --------------------------
(***************************************************************************)
(* OutboundQueue with limits of a few bytes: entries are one byte long, so *)
(* a handful of them reaches the watermark, the cap and the frame limit.   *)
(***************************************************************************)
EXTENDS OutboundQueue
=============================================================================

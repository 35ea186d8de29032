-------------------------- MODULE MCProviderJournal --------------------------
(***************************************************************************)
(* ProviderJournal with a few mutations, deaths and faults.                *)
(***************************************************************************)
EXTENDS ProviderJournal

\* Two directories may be on disk together, in either order of their names.
TwoNames == 1..2
=============================================================================

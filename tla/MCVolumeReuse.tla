---------------------------- MODULE MCVolumeReuse -----------------------------
(***************************************************************************)
(* A window that packs once, packs again and fails, then edits: two handle *)
(* values, so that a closed one is given out again.                        *)
(***************************************************************************)
EXTENDS VolumeReuse

MCLimits == {0}
MCCalls  == {2}
=============================================================================

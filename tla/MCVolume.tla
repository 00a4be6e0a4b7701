------------------------------ MODULE MCVolume --------------------------------
(***************************************************************************)
(* Two names, two runs, sets of up to three parts: an older set under the  *)
(* same name, a crash between any two steps, and two users of the set that *)
(* is assembled.                                                           *)
(***************************************************************************)
EXTENDS VolumeReaders

MCLimits == {0, 2}
MCCalls  == {1, 3}

\* no step prefers a name or a handle value to another
MCSymmetry == Permutations(Bases) \cup Permutations(Handles)
=============================================================================

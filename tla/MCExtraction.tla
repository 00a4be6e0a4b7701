---------------------------- MODULE MCExtraction ----------------------------
(* Extraction checked with two entries of up to two chunks, two possible     *)
(* temporaries each, two runs into one folder and one crash.                 *)
EXTENDS Extraction

MCOrder == <<"x", "y">>
MCChunks == 0..2
=============================================================================

---------------------------- MODULE MCEntryStream -----------------------------
(***************************************************************************)
(* A small writer and its reader.  Segments of 4 and 8 bytes against a     *)
(* buffer of 8 put a segment boundary inside the buffer (the debug sizes)  *)
(* and at its end (the shipped ones); 0 is the unsegmented container.      *)
(***************************************************************************)
EXTENDS EntryStream

MCSegSizes == {0, 4, 8}
MCRooms    == {40, 200}
MCWrites   == {4, 5}
=============================================================================

----------------------------- MODULE PeNormalise -----------------------------
(***************************************************************************)
(* tools/pe_normalise.py on one image.  Of an image the code, the stamps,  *)
(* the export directory and the debug directory are kept; fault names what *)
(* the parser meets that it does not accept.                               *)
(***************************************************************************)
EXTENDS Naturals, Sequences

EX_DLLCHARACTERISTICS == 20
CODEVIEW == 2
REPRO    == 16

\* A debug entry is its type, its stamp and its payload; a payload is what it says
\* and how many bytes it takes.
Zeros(n) == [says |-> "zeros", size |-> n]

\* mutant: every payload is cleared
Kept_none(e) == FALSE

\* the payload that is left alone: its bytes are the flags the loader reads
Kept(e) == e.type = EX_DLLCHARACTERISTICS

Faults == {"none", "no MZ", "no PE signature", "magic", "debug RVA in no section",
           "directory past the end", "payload past the end"}

\* the parser stops before anything is changed, at the debug directory, or in it
\* behind its first entry: in every case before the file is saved
Raises(image) ==
  \/ image.fault \in {"no MZ", "no PE signature", "magic"}
  \/ /\ image.debug # <<>>
     /\ image.fault \in {"debug RVA in no section", "directory past the end"}
  \/ /\ image.fault = "payload past the end"
     /\ \E i \in DOMAIN image.debug : ~Kept(image.debug[i]) /\ image.debug[i].payload.size > 0

\* mutant: only the CodeView payload is cleared
ClearEntry_codeview(e) ==
  [e EXCEPT !.stamp = 0,
            !.payload = IF e.type # CODEVIEW THEN @ ELSE Zeros(@.size)]

\* the loop over the directory: every stamp, and every payload but one type's
ClearEntry(e) ==
  [e EXCEPT !.stamp = 0,
            !.payload = IF Kept(e) THEN @ ELSE Zeros(@.size)]

\* a dll exports; an exe has no export directory, and one in no section is left alone
ClearExport(x) == IF x.rva = "mapped" THEN [x EXCEPT !.stamp = 0] ELSE x

\* the file afterwards
Normalised(image) ==
  IF Raises(image) THEN image
  ELSE [image EXCEPT !.stamp = 0, !.export = ClearExport(@),
                     !.debug = [i \in DOMAIN @ |-> ClearEntry(@[i])]]

\* main: every image is tried, and one failure is enough for exit code 1
MainCode(images) == IF \E i \in images : Raises(i) THEN 1 ELSE 0
=============================================================================

------------------------------ MODULE MCFrames -------------------------------
(* Instances of FrameCheck: frames of 40 and 64 bytes with and without locals, *)
(* prologues found and not found, calls of 3, 5 and 6 arguments.               *)
EXTENDS FrameCheck

MCProcs == [shape : {"raw", "framed"}, size : {40, 64}, loc : {0, 8, 24},
            at : {2, 6}, known : BOOLEAN]
MCStores == {<<32, 8>>, <<40, 16>>}
=============================================================================

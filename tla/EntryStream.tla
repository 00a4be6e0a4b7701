----------------------------- MODULE EntryStream ------------------------------
(***************************************************************************)
(* The reader of one entry, over a container the writer has finished:      *)
(* es_bind and es_raw_refill of src/src/estream.asm, which extraction,     *)
(* drag-out and the rewriting edits all decode through, and the acceptance *)
(* of the inventory's counters by idx_auth (src/src/pack.asm).             *)
(*                                                                         *)
(* The reader is told an extent and an ordinal.  How many streams the      *)
(* extent holds, and where each ends, it works out alone; that it finds    *)
(* exactly what seg_roll and entry_end sealed is what is checked here.     *)
(***************************************************************************)
EXTENDS SealedSink

CONSTANTS RawBytes    \* ES_RAW_BYTES: ciphertext read at a time

ASSUME RawBytesAssumption == RawBytes \in Nat \ {0}

VARIABLES es          \* the stream context, or NoStream

NoStream == [state |-> "none"]

esVars == <<vars, es>>

\* A container that do_pack has reported as written.
Finished == pc = "ended" /\ code = EXIT_OK

-----------------------------------------------------------------------------
(* The inventory's counters, as idx_auth accepts them. *)

\* idx_next_floor: ordinals strictly increase; the result is one past the
\* last, and NoFloor is the -1 no counter can meet.
NoFloor == NonceBase + 1
IdxNextFloor ==
    IF \E i, j \in 1..Len(idx) : i < j /\ idx[i].ordinal >= idx[j].ordinal
    THEN NoFloor
    ELSE IF idx = <<>> THEN 0 ELSE idx[Len(idx)].ordinal + 1

\* idx_auth's last check of an authenticated inventory.
CounterAccepted == entnext >= IdxNextFloor

-----------------------------------------------------------------------------
(* es_bind and es_raw_refill. *)

CeilDiv(a, b) == (a + b - 1) \div b

\* How many streams an extent holds: ceil(stored / (SEG_BYTES + 16)).
Streams_floor(stored) ==
    IF segbytes = 0 THEN 1 ELSE 1 + stored \div (segbytes + TagBytes)
Streams(stored) ==
    IF segbytes = 0 THEN 1 ELSE CeilDiv(stored, segbytes + TagBytes)

\* A segment's share of what is left.
Share(total) == IF segbytes = 0 THEN total ELSE Least(total, segbytes)

\* es_bind: refuse an extent that has no room for its tags, or take the first
\* segment and open its stream.
EsBind(r) ==
    /\ Finished /\ es = NoStream
    /\ LET total == r.stored - TagBytes * Streams(r.stored) IN
       IF r.stored < TagBytes \/ total < 0
       THEN es' = [state |-> "refused"]
       ELSE es' = [state |-> "reading", ordinal |-> r.ordinal, segidx |-> 0,
                   at |-> r.offset, ctoff |-> r.offset, ctleft |-> Share(total),
                   ctremain |-> total - Share(total), left |-> total]
    /\ UNCHANGED vars

\* es_raw_refill with ciphertext left: decrypt up to RawBytes of it.
EsRefill ==
    /\ es.state = "reading" /\ es.ctleft > 0
    /\ LET n == Least(es.ctleft, RawBytes) IN
       es' = [es EXCEPT !.ctoff = @ + n, !.ctleft = @ - n, !.left = @ - n]
    /\ UNCHANGED vars

\* The tag at ctoff matches when the writer sealed this very segment here.
TagMatches ==
    \E i \in 1..Len(sealed) :
        sealed[i] = [ordinal |-> es.ordinal, segment |-> es.segidx,
                     at |-> es.at, len |-> es.ctoff - es.at]

\* Where the next segment starts: past the tag just verified.
AfterTag_forgotten == es.ctoff
AfterTag == es.ctoff + TagBytes

\* The tag: a mismatch is sticky, the last one ends the entry, and any other
\* opens the next segment.
EsTag ==
    /\ es.state = "reading" /\ es.ctleft = 0
    /\ \/ ~TagMatches /\ es' = [es EXCEPT !.state = "auth_failed"]
       \/ TagMatches /\ es.ctremain = 0 /\ es' = [es EXCEPT !.state = "done"]
       \/ /\ TagMatches /\ es.ctremain > 0
          /\ es' = [es EXCEPT !.segidx = @ + 1, !.ctoff = AfterTag, !.at = AfterTag,
                              !.ctleft = Share(es.ctremain),
                              !.ctremain = @ - Share(es.ctremain)]
    /\ UNCHANGED vars

\* The caller releases the stream.
EsRelease ==
    /\ es.state \notin {"none", "reading"}
    /\ es' = NoStream
    /\ UNCHANGED vars

ReaderNext ==
    \/ \E i \in 1..Len(idx) : EsBind(idx[i])
    \/ EsRefill \/ EsTag \/ EsRelease

ReadInit == Init /\ es = NoStream
ReadNext == (Next /\ UNCHANGED es) \/ ReaderNext
ReadSpec == ReadInit /\ [][ReadNext]_esVars

-----------------------------------------------------------------------------
(* Properties. *)

\* Every listed entry of a finished container reads back: idx_auth does not
\* refuse its counters, the extent is never refused, no tag fails, and the entry
\* ends exactly when its last byte has been handed over.
ListedReadsBack ==
    /\ Finished => CounterAccepted
    /\ es.state \notin {"refused", "auth_failed"}
    /\ es.state = "done" => es.left = 0

\* The reader and the writer agree on what an extent is: from the inventory's
\* record alone the reader derives the segments that were sealed under that
\* ordinal, all of them, in order, back to back, and ends at the last tag.
ExtentIsItsSegments ==
    Finished =>
      \A i \in 1..Len(idx) :
        LET r == idx[i]
            n == Streams(r.stored)
        IN \E b \in 0..(Len(sealed) - n) :
            /\ \A j \in 1..Len(sealed) :
                 sealed[j].ordinal = r.ordinal <=> j \in (b + 1)..(b + n)
            /\ \A k \in 1..n :
                 /\ sealed[b + k].segment = k - 1
                 /\ sealed[b + k].at = r.offset + (k - 1) * (segbytes + TagBytes)
                 /\ segbytes > 0 => sealed[b + k].len <= segbytes
            /\ sealed[b + n].at + sealed[b + n].len + TagBytes = r.offset + r.stored
=============================================================================

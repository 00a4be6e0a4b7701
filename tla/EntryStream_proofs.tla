-------------------------- MODULE EntryStream_proofs --------------------------
(***************************************************************************)
(* For every segment size, buffer, block and size of entry: the extent the *)
(* inventory records for an entry holds the segments that were sealed for  *)
(* it and nothing else, and the reader, from that extent alone, finds each *)
(* where it is.                                                            *)
(*                                                                         *)
(* The invariant counts: how many full segments the open entry has behind  *)
(* it, where they lie in the payload, and that the segment which is open   *)
(* holds something or is about to.  The last is why an entry that ends at  *)
(* a boundary has no empty last segment, and so why a rounding division of *)
(* the extent gives their number back.                                     *)
(***************************************************************************)
EXTENDS EntryStream, SealedSink_proofs

\* A full segment and its tag.
Stride == segbytes + TagBytes

Seg(o, k, at, len) == [ordinal |-> o, segment |-> k, at |-> at, len |-> len]

\* The sealed segments after the b'th are the n of the ordinal o, and all it has:
\* full ones, back to back, and a last one of last bytes.
Laid(o, off, b, n, last) ==
    /\ b + n <= Len(sealed)
    /\ \A k \in 1..(n - 1) : sealed[b + k] = Seg(o, k - 1, off + (k - 1) * Stride, segbytes)
    /\ sealed[b + n] = Seg(o, n - 1, off + (n - 1) * Stride, last)
    /\ \A j \in 1..Len(sealed) : sealed[j].ordinal = o <=> j \in (b + 1)..(b + n)

\* What an extent of stored bytes is cut into.
Cut(stored, n, last) ==
    /\ stored = (n - 1) * Stride + last + TagBytes
    /\ segbytes = 0 => n = 1
    /\ segbytes > 0 => last <= segbytes
    /\ n > 1 => last >= 1

\* The extent of an entry that is sealed.
Written(o, off, stored) ==
    \E b \in Nat, n \in Nat \ {0}, last \in Nat : Laid(o, off, b, n, last) /\ Cut(stored, n, last)

\* The open entry: its full segments are the last ones sealed, and the payload
\* goes on from there.
OpenEntry ==
    /\ segidx <= Len(sealed)
    /\ \A k \in 1..segidx :
          sealed[Len(sealed) - segidx + k] = Seg(entnext, k - 1, entoff + (k - 1) * Stride, segbytes)
    /\ \A j \in 1..(Len(sealed) - segidx) : sealed[j].ordinal < entnext
    /\ payoff = entoff + segidx * Stride + segfill
    /\ segbytes = 0 => segidx = 0
    /\ segbytes > 0 => segfill <= segbytes
    /\ segidx > 0 => segfill >= 1 \/ (pc = "flush" /\ MoreToFeed)

\* Between entries every ordinal sealed is behind the next one.
Closed == \A j \in 1..Len(sealed) : sealed[j].ordinal < entnext

\* The ordinal of the entry about to be listed, or of the next.
Unlisted == IF pc = "list" THEN entnext - 1 ELSE entnext

\* Each record is the extent of its entry, and their ordinals increase.
Listed ==
    /\ \A i \in 1..Len(idx) : /\ idx[i].ordinal \in Nat /\ idx[i].ordinal < Unlisted
                              /\ Written(idx[i].ordinal, idx[i].offset, idx[i].stored)
    /\ \A i, j \in 1..Len(idx) : i < j => idx[i].ordinal < idx[j].ordinal

\* An error stops all this from mattering.
LayoutInv == packerr = EXIT_OK =>
    /\ InEntry => OpenEntry
    /\ ~InEntry => Closed
    /\ pc = "list" => entnext >= 1 /\ Written(entnext - 1, entoff, payoff - entoff)
    /\ Listed

-----------------------------------------------------------------------------
(* Arithmetic. *)

\* A rounding division gives back the number of strides an extent was cut into.
LEMMA CeilOf ==
    ASSUME NEW n \in Nat \ {0}, NEW w \in Nat \ {0}, NEW m \in 1..w
    PROVE  CeilDiv((n - 1) * w + m, w) = n
<1> DEFINE x == (n - 1) * w + m + w - 1
           d == x \div w
<1>1. (n - 1) * w \in Nat /\ x \in Nat /\ d \in Int
  OBVIOUS
<1>2. x = n * w + (m - 1)
  OBVIOUS
<1>3. w * d <= x /\ x < w * (d + 1)
  OBVIOUS
<1> HIDE DEF x, d
<1>4. d >= n
  <2> SUFFICES ASSUME d + 1 <= n PROVE FALSE
    BY <1>1
  <2>1. w * (d + 1) <= w * n
    BY <1>1
  <2> QED
    BY <2>1, <1>1, <1>2, <1>3
<1>5. d <= n
  <2> SUFFICES ASSUME d >= n + 1 PROVE FALSE
    BY <1>1
  <2>1. w * d >= w * (n + 1)
    BY <1>1
  <2> QED
    BY <2>1, <1>1, <1>2, <1>3
<1>6. d = n
  BY <1>1, <1>4, <1>5
<1> QED
  BY <1>6 DEF CeilDiv, d, x


-----------------------------------------------------------------------------
(* The writer. *)

\* What the steps below need of the types.
LEMMA Counts ==
    ASSUME IInv
    PROVE  /\ entnext \in Nat /\ segidx \in Nat /\ segfill \in Nat /\ payoff \in Nat
           /\ entoff \in Nat /\ segbytes \in Nat /\ Stride \in Nat /\ TagBytes \in Nat \ {0}
           /\ fed \in Nat /\ sinkfill \in Nat
           /\ segfill <= payoff /\ entoff <= payoff
           /\ sealed \in Seq(Segments) /\ Len(sealed) \in Nat
           /\ idx \in Seq(Records) /\ Len(idx) \in Nat
           /\ \A j \in 1..Len(sealed) : sealed[j] \in Segments /\ sealed[j].ordinal \in Nat
           /\ \A j \in 1..Len(idx) : /\ idx[j].ordinal \in Int /\ idx[j].offset \in Nat
                                     /\ idx[j].stored \in Nat
<1>1. /\ entnext \in Nat /\ segidx \in Nat /\ segfill \in Nat /\ payoff \in Nat
      /\ entoff \in Nat /\ fed \in Nat /\ sinkfill \in Nat
      /\ segfill <= payoff /\ entoff <= payoff
      /\ segbytes \in Nat /\ TagBytes \in Nat \ {0}
      /\ sealed \in Seq(Segments) /\ idx \in Seq(Records)
  BY ConstantsAssumption DEF IInv, TypeOK, CountType, ControlType, LogType, PlaceInv
<1>2. \A j \in 1..Len(sealed) : sealed[j] \in Segments
  BY <1>1
<1>3. \A j \in 1..Len(idx) : idx[j] \in Records
  BY <1>1
<1> QED
  BY <1>1, <1>2, <1>3 DEF Stride, Segments, Records

\* Sealing a segment of another ordinal leaves an entry as it is.
LEMMA WrittenGrows ==
    ASSUME sealed \in Seq(Segments), NEW s \in Segments, sealed' = Append(sealed, s),
           segbytes' = segbytes, NEW o, s.ordinal # o, NEW off, NEW stored, Written(o, off, stored)
    PROVE  Written(o, off, stored)'
<1>1. PICK b \in Nat, n \in Nat \ {0}, last \in Nat : Laid(o, off, b, n, last) /\ Cut(stored, n, last)
  BY DEF Written
<1>2. /\ Len(sealed') = Len(sealed) + 1 /\ Len(sealed) \in Nat
      /\ \A j \in 1..Len(sealed) : sealed'[j] = sealed[j]
      /\ sealed'[Len(sealed) + 1] = s
  OBVIOUS
<1>3. Cut(stored, n, last)'
  BY <1>1 DEF Cut, Stride
<1>4. Laid(o, off, b, n, last)'
  <2>1. b + n <= Len(sealed')
    BY <1>1, <1>2 DEF Laid
  <2>2. ASSUME NEW k \in 1..(n - 1)
        PROVE  sealed'[b + k] = Seg(o, k - 1, off + (k - 1) * Stride', segbytes')
    <3>1. sealed[b + k] = Seg(o, k - 1, off + (k - 1) * Stride, segbytes)
      BY <1>1 DEF Laid
    <3>2. b + k \in 1..Len(sealed)
      BY <1>1, <1>2 DEF Laid
    <3> QED
      BY <3>1, <3>2, <1>2 DEF Stride
  <2>3. sealed'[b + n] = Seg(o, n - 1, off + (n - 1) * Stride', last)
    <3>1. sealed[b + n] = Seg(o, n - 1, off + (n - 1) * Stride, last)
      BY <1>1 DEF Laid
    <3>2. b + n \in 1..Len(sealed)
      BY <1>1, <1>2 DEF Laid
    <3> QED
      BY <3>1, <3>2, <1>2 DEF Stride
  <2>4. ASSUME NEW j \in 1..Len(sealed')
        PROVE  sealed'[j].ordinal = o <=> j \in (b + 1)..(b + n)
    <3>1. CASE j \in 1..Len(sealed)
      BY <3>1, <1>1, <1>2 DEF Laid
    <3>2. CASE j = Len(sealed) + 1
      BY <3>2, <1>1, <1>2 DEF Laid
    <3> QED
      BY <3>1, <3>2, <1>2
  <2> QED
    BY <2>1, <2>2, <2>3, <2>4 DEF Laid
<1> QED
  BY <1>1, <1>3, <1>4 DEF Written

LEMMA WrittenSame ==
    ASSUME sealed' = sealed, segbytes' = segbytes, NEW o, NEW off, NEW stored,
           Written(o, off, stored)
    PROVE  Written(o, off, stored)'
BY DEF Written, Laid, Cut, Stride

\* The records stay right while nothing is sealed and nothing is listed.
LEMMA ListedSame ==
    ASSUME IInv, Listed, sealed' = sealed, segbytes' = segbytes, idx' = idx,
           Unlisted' \in Nat, Unlisted <= Unlisted'
    PROVE  Listed'
<1>1. ASSUME NEW i \in 1..Len(idx)
      PROVE  /\ idx'[i].ordinal \in Nat /\ idx'[i].ordinal < Unlisted'
             /\ Written(idx[i].ordinal, idx[i].offset, idx[i].stored)'
  <2>1. PICK r : r = idx[i] /\ r = idx'[i]
    OBVIOUS
  <2>2. r.ordinal \in Nat /\ r.ordinal < Unlisted /\ Written(r.ordinal, r.offset, r.stored)
    BY <2>1 DEF Listed
  <2>3. Written(r.ordinal, r.offset, r.stored)'
    BY <2>2, WrittenSame
  <2>4. Unlisted \in Int
    BY Counts DEF Unlisted
  <2> QED
    BY <2>1, <2>2, <2>3, <2>4
<1> QED
  BY <1>1 DEF Listed

\* They stay right when a segment of the open entry is sealed.
LEMMA ListedGrows ==
    ASSUME IInv, Listed, InEntry, NEW s \in Segments, s.ordinal = entnext,
           sealed' = Append(sealed, s), segbytes' = segbytes, idx' = idx,
           Unlisted' \in Nat, Unlisted <= Unlisted'
    PROVE  Listed'
<1>0. sealed \in Seq(Segments) /\ entnext \in Nat /\ Unlisted = entnext
  BY Counts DEF Unlisted, InEntry
<1>1. ASSUME NEW i \in 1..Len(idx)
      PROVE  /\ idx'[i].ordinal \in Nat /\ idx'[i].ordinal < Unlisted'
             /\ Written(idx[i].ordinal, idx[i].offset, idx[i].stored)'
  <2>1. PICK r : r = idx[i] /\ r = idx'[i]
    OBVIOUS
  <2>2. r.ordinal \in Nat /\ r.ordinal < Unlisted /\ Written(r.ordinal, r.offset, r.stored)
    BY <2>1 DEF Listed
  <2>3. s.ordinal # r.ordinal
    BY <2>2, <1>0
  <2>4. Written(r.ordinal, r.offset, r.stored)'
    BY <2>2, <2>3, <1>0, WrittenGrows
  <2> QED
    BY <2>1, <2>2, <2>4, <1>0
<1> QED
  BY <1>1 DEF Listed

\* A step inside an entry that moves neither the payload nor the logs.
LEMMA EntryStands ==
    ASSUME IInv, LayoutInv, packerr = EXIT_OK, InEntry, InEntry',
           UNCHANGED <<cfgVars, placeVars, sealed, idx>>,
           pc # "flush" \/ ~MoreToFeed
    PROVE  LayoutInv'
<1>1. OpenEntry /\ Listed
  BY DEF LayoutInv
<1>2. /\ segbytes' = segbytes /\ entnext' = entnext /\ segidx' = segidx /\ segfill' = segfill
      /\ payoff' = payoff /\ entoff' = entoff /\ sealed' = sealed /\ idx' = idx
  BY DEF cfgVars, placeVars
<1>3. segidx > 0 => segfill >= 1
  BY <1>1 DEF OpenEntry
<1>4. OpenEntry'
  BY <1>1, <1>2, <1>3 DEF OpenEntry, Stride
<1>5. Unlisted = entnext /\ Unlisted' = entnext
  BY <1>2 DEF Unlisted, InEntry
<1>6. Listed'
  BY <1>1, <1>2, <1>5, Counts, ListedSame
<1> QED
  BY <1>4, <1>6 DEF LayoutInv, InEntry

\* A step between entries that does the same.
LEMMA PassStands ==
    ASSUME IInv, LayoutInv, packerr = EXIT_OK, ~InEntry, ~InEntry', pc # "list", pc' # "list",
           UNCHANGED <<cfgVars, placeVars, sealed, idx>>
    PROVE  LayoutInv'
<1>1. Closed /\ Listed
  BY DEF LayoutInv
<1>2. /\ segbytes' = segbytes /\ entnext' = entnext /\ sealed' = sealed /\ idx' = idx
  BY DEF cfgVars, placeVars
<1>4. Closed'
  BY <1>1, <1>2 DEF Closed
<1>5. Unlisted = entnext /\ Unlisted' = entnext
  BY <1>2 DEF Unlisted
<1>6. Listed'
  BY <1>1, <1>2, <1>5, Counts, ListedSame
<1> QED
  BY <1>4, <1>6 DEF LayoutInv

\* entry_begin: the entry starts where the payload has come to.
LEMMA EntryBeginLaid ==
    ASSUME IInv, LayoutInv, EntryBegin
    PROVE  LayoutInv'
<1>1. /\ packerr = EXIT_OK /\ pc = "ready" /\ pc' = "body"
      /\ entoff' = payoff /\ segfill' = 0 /\ segidx' = 0 /\ payoff' = payoff /\ entnext' = entnext
      /\ segbytes' = segbytes /\ sealed' = sealed /\ idx' = idx
  BY DEF EntryBegin, cfgVars
<1>2. Closed /\ Listed
  BY <1>1 DEF LayoutInv, InEntry
<1>3. OpenEntry'
  <2>1. 0 * Stride' = 0 /\ Len(sealed) - 0 = Len(sealed)
    BY <1>1, Counts DEF Stride
  <2> QED
    BY <1>1, <1>2, <2>1, Counts DEF OpenEntry, Closed
<1>4. Unlisted = entnext /\ Unlisted' = entnext
  BY <1>1 DEF Unlisted
<1>5. Listed'
  BY <1>1, <1>2, <1>4, Counts, ListedSame
<1> QED
  BY <1>1, <1>3, <1>5 DEF LayoutInv, InEntry

\* sink_flush_block's next piece goes into the open segment and fits it.
LEMMA FlushPieceLaid ==
    ASSUME IInv, LayoutInv, FlushPiece
    PROVE  LayoutInv'
<1> SUFFICES ASSUME packerr' = EXIT_OK PROVE LayoutInv'
  BY DEF LayoutInv
<1>1. /\ packerr = EXIT_OK /\ pc = "flush" /\ pc' = "flush" /\ fed < sinkfill
      /\ ~(segbytes > 0 /\ segfill >= segbytes)
      /\ segidx' = segidx /\ entoff' = entoff /\ entnext' = entnext /\ segbytes' = segbytes
      /\ sealed' = sealed /\ idx' = idx
      /\ payoff' = payoff + Piece /\ segfill' = segfill + Piece
  BY DEF FlushPiece, RollDue, MoreToFeed, PutFails, EXIT_OK, EXIT_IO, EXIT_UNSUPPORTED, cfgVars, logVars
<1>2. OpenEntry /\ Listed
  BY <1>1 DEF LayoutInv, InEntry
<1>3. /\ Piece \in Nat /\ Piece >= 1
      /\ segbytes > 0 => segfill + Piece <= segbytes
  <2>1. /\ fed \in Nat /\ sinkfill \in Nat /\ segbytes \in Nat /\ segfill \in Nat
    BY Counts
  <2>2. CASE segbytes = 0
    BY <2>1, <2>2, <1>1 DEF Piece
  <2>3. CASE segbytes > 0
    <3>1. Piece = Least(sinkfill - fed, segbytes - segfill)
      BY <2>1, <2>3 DEF Piece
    <3> QED
      BY <3>1, <2>1, <2>3, <1>1 DEF Least
  <2> QED
    BY <2>1, <2>2, <2>3
<1>4. OpenEntry'
  <2>1. payoff' = entoff' + segidx' * Stride' + segfill'
    <3>1. PICK q \in Nat : q = segidx * Stride /\ q = segidx' * Stride'
      BY <1>1, Counts DEF Stride
    <3>2. payoff = entoff + q + segfill
      BY <3>1, <1>2 DEF OpenEntry
    <3>3. entoff \in Nat /\ segfill \in Nat
      BY Counts
    <3>4. payoff' = entoff' + q + segfill'
      BY <3>2, <3>3, <1>1, <1>3
    <3> QED
      BY <3>1, <3>4
  <2>2. /\ segidx' > 0 => segfill' >= 1
        /\ segbytes' > 0 => segfill' <= segbytes'
    BY <1>1, <1>3, Counts
  <2> QED
    BY <1>1, <1>2, <2>1, <2>2 DEF OpenEntry, Stride
<1>5. Unlisted = entnext /\ Unlisted' = entnext
  BY <1>1 DEF Unlisted
<1>6. Listed'
  BY <1>1, <1>2, <1>5, Counts, ListedSame
<1> QED
  BY <1>1, <1>4, <1>6 DEF LayoutInv, InEntry

\* The segment that is sealed is the next of the open entry.
LEMMA OpenSegmentIs ==
    ASSUME IInv, OpenEntry
    PROVE  /\ OpenSegment = Seg(entnext, segidx, entoff + segidx * Stride, segfill)
           /\ OpenSegment \in Segments /\ OpenSegment.ordinal = entnext
<1>1. payoff - segfill = entoff + segidx * Stride
  <2>1. segidx * Stride \in Nat /\ payoff = entoff + segidx * Stride + segfill
    BY Counts DEF OpenEntry
  <2> QED
    BY <2>1, Counts
<1>2. payoff - segfill \in Nat
  BY Counts
<1> QED
  BY <1>1, <1>2, Counts DEF OpenSegment, Seg, Segments

\* seg_roll seals a full segment, and bytes are waiting for the next.
LEMMA SegRollLaid ==
    ASSUME IInv, LayoutInv, SegRoll
    PROVE  LayoutInv'
<1> SUFFICES ASSUME packerr' = EXIT_OK PROVE LayoutInv'
  BY DEF LayoutInv
<1>1. /\ packerr = EXIT_OK /\ pc = "flush" /\ pc' = "flush" /\ fed < sinkfill
      /\ segbytes > 0 /\ segfill >= segbytes
      /\ entoff' = entoff /\ entnext' = entnext /\ segbytes' = segbytes /\ idx' = idx
      /\ sealed' = Append(sealed, OpenSegment) /\ segidx' = segidx + 1 /\ segfill' = 0
      /\ payoff' = payoff + TagBytes /\ fed' = fed /\ sinkfill' = sinkfill
  BY DEF SegRoll, RollDue, MoreToFeed, NextSegment, PutFails, EXIT_OK, EXIT_IO, EXIT_UNSUPPORTED,
         cfgVars
<1>2. OpenEntry /\ Listed
  BY <1>1 DEF LayoutInv, InEntry
<1>3. segfill = segbytes
  BY <1>1, <1>2, Counts DEF OpenEntry
<1>4. PICK s \in Segments : /\ s = Seg(entnext, segidx, entoff + segidx * Stride, segbytes)
                            /\ s.ordinal = entnext /\ sealed' = Append(sealed, s)
  BY <1>1, <1>2, <1>3, OpenSegmentIs
<1>5. /\ Len(sealed') = Len(sealed) + 1 /\ sealed'[Len(sealed) + 1] = s
      /\ \A j \in 1..Len(sealed) : sealed'[j] = sealed[j]
  BY <1>4, Counts
<1>6. OpenEntry'
  <2> DEFINE b == Len(sealed) - segidx
  <2>1. b \in Nat /\ Len(sealed') - segidx' = b
    <3>1. segidx <= Len(sealed) /\ segidx \in Nat /\ Len(sealed) \in Nat
      BY <1>2, Counts DEF OpenEntry
    <3> QED
      BY <3>1, <1>1, <1>5
  <2>2. ASSUME NEW k \in 1..segidx'
        PROVE  sealed'[b + k] = Seg(entnext, k - 1, entoff + (k - 1) * Stride, segbytes)
    <3>1. CASE k = segidx + 1
      <4>1. k - 1 = segidx /\ b + k = Len(sealed) + 1
        BY <3>1, Counts
      <4> QED
        BY <4>1, <1>4, <1>5
    <3>2. CASE k # segidx + 1
      <4>1. k \in 1..segidx
        BY <3>2, <1>1, Counts
      <4>3. b + k \in 1..Len(sealed)
        BY <4>1, <2>1, Counts
      <4> QED
        BY <4>1, <4>3, <1>2, <1>5 DEF OpenEntry
    <3> QED
      BY <3>1, <3>2
  <2>3. ASSUME NEW j \in 1..b
        PROVE  sealed'[j].ordinal < entnext
    <3>1. j \in 1..Len(sealed)
      BY <2>1, Counts
    <3> QED
      BY <3>1, <1>2, <1>5 DEF OpenEntry
  <2>4. payoff' = entoff + (segidx + 1) * Stride + 0
    <3>1. PICK q \in Nat : q = segidx * Stride /\ (segidx + 1) * Stride = q + Stride
      BY Counts
    <3>2. payoff = entoff + q + segfill
      BY <3>1, <1>2 DEF OpenEntry
    <3>3. Stride = segfill + TagBytes
      BY <1>3 DEF Stride
    <3>4. payoff' = payoff + TagBytes
      BY <1>1
    <3>5. entoff \in Nat /\ segfill \in Nat /\ TagBytes \in Nat
      BY Counts
    <3>6. payoff' = entoff + (q + Stride) + 0
      BY <3>2, <3>3, <3>4, <3>5
    <3> QED
      BY <3>1, <3>6
  <2>5. (pc = "flush" /\ MoreToFeed)'
    BY <1>1 DEF MoreToFeed
  <2> HIDE DEF b
  <2>6. Stride' = Stride
    BY <1>1 DEF Stride
  <2>7. segidx' <= Len(sealed') /\ segbytes' # 0 /\ segfill' <= segbytes'
    <3>1. segbytes' # 0 /\ segfill' <= segbytes'
      BY <1>1, Counts
    <3>2. segidx' <= Len(sealed')
      BY <2>1, <1>1, <1>5, Counts
    <3> QED
      BY <3>1, <3>2
  <2> QED
    BY <1>1, <2>1, <2>2, <2>3, <2>4, <2>5, <2>6, <2>7 DEF OpenEntry
<1>7. Unlisted = entnext /\ Unlisted' = entnext
  BY <1>1 DEF Unlisted
<1>8. Listed'
  BY <1>1, <1>2, <1>4, <1>7, Counts, ListedGrows DEF InEntry
<1> QED
  BY <1>1, <1>6, <1>8 DEF LayoutInv, InEntry


\* entry_end seals the last segment, and what lies behind the entry's place is
\* its extent.
LEMMA EntryTagLaid ==
    ASSUME IInv, LayoutInv, EntryTag
    PROVE  LayoutInv'
<1> SUFFICES ASSUME packerr' = EXIT_OK PROVE LayoutInv'
  BY DEF LayoutInv
<1>1. /\ packerr = EXIT_OK /\ pc = "tag" /\ pc' = "list"
      /\ entoff' = entoff /\ entnext' = entnext + 1 /\ segbytes' = segbytes /\ idx' = idx
      /\ sealed' = Append(sealed, OpenSegment) /\ payoff' = payoff + TagBytes
  BY DEF EntryTag, IInv, ErrorInv, EXIT_OK, EXIT_IO, cfgVars
<1>2. OpenEntry /\ Listed
  BY <1>1 DEF LayoutInv, InEntry
<1>3. segidx > 0 => segfill >= 1
  BY <1>1, <1>2 DEF OpenEntry
<1>4. PICK s \in Segments, o \in Nat : /\ s = Seg(o, segidx, entoff + segidx * Stride, segfill)
                            /\ s.ordinal = o /\ sealed' = Append(sealed, s) /\ o = entnext
  BY <1>1, <1>2, OpenSegmentIs, Counts
<1>5. /\ Len(sealed') = Len(sealed) + 1 /\ sealed'[Len(sealed) + 1] = s
      /\ \A j \in 1..Len(sealed) : sealed'[j] = sealed[j]
  BY <1>4, Counts
<1>6. PICK b, n, e, q, x : /\ b = Len(sealed) - segidx /\ n = segidx + 1 /\ e = entoff
                           /\ q = payoff' - entoff /\ x = segfill
  OBVIOUS
<1>7. /\ b \in Nat /\ n \in Nat \ {0} /\ x \in Nat /\ b + n = Len(sealed')
      /\ n - 1 = segidx /\ b + n = Len(sealed) + 1
  <2>1. segidx <= Len(sealed) /\ segidx \in Nat /\ Len(sealed) \in Nat /\ segfill \in Nat
    BY <1>2, Counts DEF OpenEntry
  <2> QED
    BY <2>1, <1>5, <1>6
<1>8. Cut(q, n, x)'
  <2>1. q = (n - 1) * Stride + x + TagBytes
    <3>1. PICK p \in Nat : p = segidx * Stride /\ p = (n - 1) * Stride
      BY <1>7, Counts
    <3>2. payoff = entoff + p + segfill
      BY <3>1, <1>2 DEF OpenEntry
    <3>3. payoff' = payoff + TagBytes
      BY <1>1
    <3>4. entoff \in Nat /\ segfill \in Nat /\ TagBytes \in Nat
      BY Counts
    <3>5. q = p + x + TagBytes
      BY <1>6, <3>2, <3>3, <3>4
    <3> QED
      BY <3>1, <3>5
  <2>2. /\ segbytes = 0 => n = 1
        /\ segbytes > 0 => x <= segbytes
        /\ n > 1 => x >= 1
    <3>1. /\ segbytes = 0 => segidx = 0
          /\ segbytes > 0 => segfill <= segbytes
          /\ segidx \in Nat /\ segfill \in Nat /\ segbytes \in Nat
      BY <1>2, Counts DEF OpenEntry
    <3> QED
      BY <3>1, <1>3, <1>6
  <2> QED
    BY <1>1, <2>1, <2>2 DEF Cut, Stride
<1>9. Laid(o, e, b, n, x)'
  <2>1. ASSUME NEW k \in 1..(n - 1)
        PROVE  sealed'[b + k] = Seg(o, k - 1, e + (k - 1) * Stride, segbytes)
    <3>1. k \in 1..segidx /\ b + k \in 1..Len(sealed)
      <4>1. n - 1 = segidx /\ b + n = Len(sealed) + 1 /\ b \in Nat /\ n \in Nat
        BY <1>7
      <4> QED
        BY <4>1
    <3>2. sealed[b + k] = Seg(entnext, k - 1, entoff + (k - 1) * Stride, segbytes)
      BY <3>1, <1>2, <1>6 DEF OpenEntry
    <3> QED
      BY <3>1, <3>2, <1>4, <1>5, <1>6
  <2>2. sealed'[b + n] = Seg(o, n - 1, e + (n - 1) * Stride, x)
    BY <1>4, <1>5, <1>6, <1>7
  <2>3. ASSUME NEW j \in 1..Len(sealed')
        PROVE  sealed'[j].ordinal = o <=> j \in (b + 1)..(b + n)
    <3>1. CASE j \in 1..b
      <4>3. j \in 1..(Len(sealed) - segidx)
        BY <3>1, <1>6
      <4>4. sealed[j].ordinal < o
        BY <4>3, <1>2, <1>4 DEF OpenEntry
      <4>1. j \in 1..Len(sealed) /\ sealed[j].ordinal < o
        BY <4>3, <4>4, Counts
      <4>2. sealed'[j].ordinal \in Nat /\ sealed'[j].ordinal < o
        BY <4>1, <1>5, Counts
      <4> QED
        BY <4>2, <3>1, <1>7
    <3>2. CASE j = b + n
      BY <3>2, <1>4, <1>5, <1>7
    <3>3. CASE j \in (b + 1)..(b + n - 1)
      <4>1. PICK k \in 1..(n - 1) : j = b + k
        <5>1. j - b \in 1..(n - 1) /\ j = b + (j - b)
          BY <3>3, <1>7
        <5> QED
          BY <5>1
      <4>2. sealed'[j] = Seg(o, k - 1, e + (k - 1) * Stride, segbytes)
        BY <2>1, <4>1
      <4>3. sealed'[j].ordinal = o
        BY <4>2 DEF Seg
      <4> QED
        BY <4>3, <3>3, <1>7
    <3> QED
      BY <3>1, <3>2, <3>3, <1>7
  <2>4. Stride' = Stride
    BY <1>1 DEF Stride
  <2>5. b + n <= Len(sealed')
    BY <1>7, <1>5, Counts
  <2> QED
    BY <2>1, <2>2, <2>3, <2>4, <2>5, <1>1 DEF Laid
<1>10. Written(o, e, q)'
  BY <1>7, <1>8, <1>9 DEF Written
<1>11. /\ o = entnext' - 1 /\ e = entoff' /\ q = payoff' - entoff' /\ entnext' >= 1
  BY <1>1, <1>4, <1>6, Counts
<1>12. Closed'
  <2> SUFFICES ASSUME NEW j \in 1..Len(sealed') PROVE sealed'[j].ordinal < entnext'
    BY DEF Closed
  <2>1. CASE j = Len(sealed) + 1
    BY <2>1, <1>1, <1>4, <1>5
  <2>2. CASE j \in 1..Len(sealed)
    <3>1. sealed[j].ordinal \in Nat /\ sealed[j].ordinal <= o
      <4>1. CASE j \in 1..b
        <5>1. j \in 1..(Len(sealed) - segidx) /\ sealed[j].ordinal \in Nat
          BY <4>1, <2>2, <1>6, Counts
        <5>2. sealed[j].ordinal < entnext
          BY <5>1, <1>2 DEF OpenEntry
        <5> QED
          BY <5>1, <5>2, <1>4, Counts
      <4>2. CASE j \notin 1..b
        <5>1. j \in (b + 1)..(b + n) /\ j \in 1..Len(sealed')
          BY <4>2, <2>2, <1>5, <1>7, Counts
        <5>2. sealed'[j].ordinal = o
          BY <5>1, <1>9 DEF Laid
        <5> QED
          BY <5>2, <2>2, <1>4, <1>5
      <4> QED
        BY <4>1, <4>2
    <3> QED
      BY <3>1, <2>2, <1>1, <1>4, <1>5
  <2> QED
    BY <2>1, <2>2, <1>5, Counts
<1>13. Listed'
  <2>1. Unlisted = entnext /\ Unlisted' = entnext
    BY <1>1, Counts DEF Unlisted
  <2> QED
    BY <1>1, <1>2, <1>4, <2>1, Counts, ListedGrows DEF InEntry
<1> QED
  BY <1>1, <1>10, <1>11, <1>12, <1>13 DEF LayoutInv, InEntry

\* idx_add records the extent of the entry just sealed.
LEMMA IdxAddLaid ==
    ASSUME IInv, LayoutInv, IdxAdd
    PROVE  LayoutInv'
<1> SUFFICES ASSUME packerr' = EXIT_OK PROVE LayoutInv'
  BY DEF LayoutInv
<1>1. /\ packerr = EXIT_OK /\ pc = "list" /\ pc' = "ready"
      /\ entoff' = entoff /\ entnext' = entnext /\ segbytes' = segbytes /\ sealed' = sealed
      /\ idx' = idx \/ idx' = Append(idx, Record)
  BY DEF IdxAdd, IdxFull, EXIT_OK, EXIT_OOM, EXIT_UNSUPPORTED, cfgVars, placeVars
<1>2. Closed /\ Listed /\ entnext >= 1 /\ Written(entnext - 1, entoff, payoff - entoff)
  BY <1>1 DEF LayoutInv, InEntry
<1>3. Closed'
  BY <1>1, <1>2 DEF Closed
<1>4. entnext \in Nat /\ Unlisted = entnext - 1 /\ Unlisted' = entnext
  BY <1>1, Counts DEF Unlisted
<1>5. CASE idx' = idx
  <2>1. Listed'
    BY <1>1, <1>2, <1>4, <1>5, ListedSame
  <2> QED
    BY <2>1, <1>1, <1>3 DEF LayoutInv, InEntry
<1>6. CASE idx' = Append(idx, Record)
  <2>1. /\ Len(idx') = Len(idx) + 1 /\ idx'[Len(idx) + 1] = Record /\ Len(idx) \in Nat
        /\ \A i \in 1..Len(idx) : idx'[i] = idx[i]
    BY <1>6, Counts
  <2>2. PICK r : /\ r = Record /\ r.ordinal = entnext - 1 /\ r.offset = entoff
                 /\ r.stored = payoff - entoff
    <3>1. /\ Record.ordinal = entnext - 1 /\ Record.offset = entoff
          /\ Record.stored = payoff - entoff
      BY DEF Record
    <3> QED
      BY <3>1
  <2>3. Written(r.ordinal, r.offset, r.stored)'
    <3>1. Written(r.ordinal, r.offset, r.stored)
      BY <2>2, <1>2
    <3> QED
      BY <3>1, <1>1, WrittenSame
  <2>4. ASSUME NEW i \in 1..Len(idx')
        PROVE  /\ idx'[i].ordinal \in Nat /\ idx'[i].ordinal < Unlisted'
               /\ Written(idx[i].ordinal, idx[i].offset, idx[i].stored)'
    <3>1. CASE i = Len(idx) + 1
      <4>1. r = idx'[i]
        BY <3>1, <2>1, <2>2
      <4> QED
        BY <4>1, <2>2, <2>3, <1>2, <1>4
    <3>2. CASE i \in 1..Len(idx)
      <4>1. PICK t : t = idx[i] /\ t = idx'[i]
        BY <3>2, <2>1
      <4>2. t.ordinal \in Nat /\ t.ordinal < Unlisted /\ Written(t.ordinal, t.offset, t.stored)
        BY <3>2, <4>1, <1>2 DEF Listed
      <4>3. Written(t.ordinal, t.offset, t.stored)'
        BY <4>2, <1>1, WrittenSame
      <4> QED
        BY <4>1, <4>2, <4>3, <1>4
    <3> QED
      BY <3>1, <3>2, <2>1
  <2>5. ASSUME NEW i \in 1..Len(idx'), NEW j \in 1..Len(idx'), i < j
        PROVE  idx'[i].ordinal < idx'[j].ordinal
    <3>1. i \in 1..Len(idx) /\ idx'[i] = idx[i] /\ idx[i].ordinal < entnext - 1
      BY <2>1, <2>5, <1>2, <1>4 DEF Listed
    <3>2. CASE j = Len(idx) + 1
      BY <3>1, <3>2, <2>1, <2>2
    <3>3. CASE j \in 1..Len(idx)
      BY <3>1, <3>3, <2>1, <2>5, <1>2 DEF Listed
    <3> QED
      BY <3>2, <3>3, <2>1
  <2>6. Listed'
    BY <2>4, <2>5 DEF Listed
  <2> QED
    BY <2>6, <1>1, <1>3 DEF LayoutInv, InEntry
<1> QED
  BY <1>1, <1>5, <1>6

LEMMA InitLayout == Init => LayoutInv
  BY DEF Init, LayoutInv, InEntry, Closed, Listed

LEMMA StepLayout == IInv /\ LayoutInv /\ [Next]_vars => LayoutInv'
<1> SUFFICES ASSUME IInv, LayoutInv, [Next]_vars, packerr' = EXIT_OK PROVE LayoutInv'
  BY DEF LayoutInv
<1> USE DEF EXIT_OK, EXIT_IO, EXIT_CORRUPT, EXIT_OOM, EXIT_UNSUPPORTED, errVars, logVars
<1>1. CASE WriteHeader
  BY <1>1, PassStands DEF WriteHeader, End, InEntry
<1>2. CASE RefuseEntry \/ BodyFails
  BY <1>2 DEF RefuseEntry, BodyFails
<1>3. CASE EntryBegin
  BY <1>3, EntryBeginLaid
<1>4. CASE Unwind
  BY <1>4 DEF Unwind, End
<1>5. ASSUME NEW n \in Writes, TarOut(n) PROVE LayoutInv'
  BY <1>5, EntryStands DEF TarOut, InEntry
<1>6. CASE EntryEnd
  BY <1>6, EntryStands DEF EntryEnd, InEntry
<1>7. CASE SinkCopy
  BY <1>7, EntryStands DEF SinkCopy, InEntry
<1>8. CASE SinkReturn
  BY <1>8, EntryStands DEF SinkReturn, InEntry
<1>9. CASE FlushPiece
  BY <1>9, FlushPieceLaid
<1>10. CASE SegRoll
  BY <1>10, SegRollLaid
<1>11. CASE FlushDone
  BY <1>11, EntryStands DEF FlushDone, InEntry
<1>12. CASE EntryTag
  BY <1>12, EntryTagLaid
<1>13. CASE IdxAdd
  BY <1>13, IdxAddLaid
<1>14. CASE IdxWrite
  BY <1>14, PassStands DEF IdxWrite, End, InEntry
<1>15. CASE Finish
  BY <1>15, PassStands DEF Finish, End, InEntry
<1>16. CASE Ended \/ UNCHANGED vars
  <2>1. /\ pc' = pc /\ packerr' = packerr /\ segbytes' = segbytes /\ fed' = fed
        /\ sinkfill' = sinkfill /\ payoff' = payoff /\ entoff' = entoff /\ segfill' = segfill
        /\ segidx' = segidx /\ entnext' = entnext /\ sealed' = sealed /\ idx' = idx
    BY <1>16 DEF Ended, vars, cfgVars, placeVars, bufVars
  <2>2. OpenEntry => OpenEntry'
    BY <2>1 DEF OpenEntry, Stride, MoreToFeed
  <2>3. (Closed => Closed') /\ (InEntry' <=> InEntry)
    BY <2>1 DEF Closed, InEntry
  <2>4. packerr = EXIT_OK /\ Listed
    BY <2>1 DEF LayoutInv
  <2>5. Unlisted' = Unlisted /\ Unlisted' <= Unlisted /\ Unlisted' \in Nat
    <3>1. pc = "list" => entnext >= 1
      BY <2>4 DEF LayoutInv
    <3> QED
      BY <2>1, <3>1, Counts DEF Unlisted
  <2>6. Listed'
    BY <2>1, <2>4, <2>5, ListedSame
  <2>7. pc = "list" => Written(entnext - 1, entoff, payoff - entoff)'
    <3>1. PICK o, e, q : o = entnext - 1 /\ e = entoff /\ q = payoff - entoff
      OBVIOUS
    <3>2. Written(o, e, q) => Written(o, e, q)'
      BY <2>1, WrittenSame
    <3>3. o = entnext' - 1 /\ e = entoff' /\ q = payoff' - entoff'
      BY <2>1, <3>1
    <3> QED
      BY <2>4, <3>1, <3>2, <3>3 DEF LayoutInv
  <2> QED
    BY <2>1, <2>2, <2>3, <2>4, <2>6, <2>7 DEF LayoutInv
<1> QED
  BY <1>1, <1>2, <1>3, <1>4, <1>5, <1>6, <1>7, <1>8, <1>9, <1>10, <1>11,
     <1>12, <1>13, <1>14, <1>15, <1>16 DEF Next

-----------------------------------------------------------------------------
(* The reader. *)

StreamStates == [state : {"reading", "done"}, ordinal : Nat, segidx : Nat, at : Nat,
                 ctoff : Nat, ctleft : Nat, ctremain : Nat, left : Nat]

\* How long segment k of an entry is, and how much ciphertext lies behind it.
Size(n, last, k) == IF k = n - 1 THEN last ELSE segbytes
Behind(n, last, k) == IF k = n - 1 THEN 0 ELSE (n - 2 - k) * segbytes + last

\* The open stream stands in a segment that was sealed, at its place, and what
\* it has left ends where the segment does.
InSegment ==
    \E i \in 1..Len(idx), b \in Nat, n \in Nat \ {0}, last \in Nat, k \in Nat :
        /\ Laid(idx[i].ordinal, idx[i].offset, b, n, last)
        /\ Cut(idx[i].stored, n, last) /\ k < n
        /\ es.ordinal = idx[i].ordinal /\ es.segidx = k
        /\ es.at = idx[i].offset + k * Stride
        /\ es.at <= es.ctoff /\ es.ctoff + es.ctleft = es.at + Size(n, last, k)
        /\ es.ctremain = Behind(n, last, k)

ReaderInv ==
    es = NoStream \/ /\ Finished /\ es \in StreamStates
                     /\ es.left = es.ctleft + es.ctremain
                     /\ es.state = "reading" => InSegment
                     /\ es.state = "done" => es.left = 0

ReadIInv == IInv /\ LayoutInv /\ ReaderInv

\* A container that was reported as written has no error behind it.
LEMMA FinishedListed ==
    ASSUME IInv, LayoutInv, Finished
    PROVE  Listed /\ packerr = EXIT_OK /\ pc = "ended"
BY DEF Finished, IInv, ErrorInv, LayoutInv

\* es_bind's division: the number of streams is the number of segments.
LEMMA StreamsAre ==
    ASSUME IInv, NEW stored, NEW n \in Nat \ {0}, NEW last \in Nat, Cut(stored, n, last)
    PROVE  /\ Streams(stored) = n /\ stored \in Nat /\ stored >= TagBytes
           /\ stored - TagBytes * n = (n - 1) * segbytes + last
<1>1. /\ segbytes \in Nat /\ TagBytes \in Nat \ {0} /\ Stride = segbytes + TagBytes
      /\ stored = (n - 1) * Stride + last + TagBytes
  BY Counts DEF Cut, Stride
<1>2. PICK p \in Nat, q \in Nat : /\ p = (n - 1) * segbytes /\ q = (n - 1) * TagBytes
                                  /\ (n - 1) * Stride = p + q /\ TagBytes * n = q + TagBytes
  BY <1>1
<1>3. stored \in Nat /\ stored >= TagBytes /\ stored - TagBytes * n = p + last
  BY <1>1, <1>2
<1>4. Streams(stored) = n
  <2>1. CASE segbytes = 0
    BY <2>1 DEF Streams, Cut
  <2>2. CASE segbytes > 0
    <3>1. last + TagBytes \in 1..Stride /\ Stride \in Nat \ {0}
      BY <1>1, <2>2 DEF Cut
    <3>2. PICK m \in 1..Stride : m = last + TagBytes
      BY <3>1
    <3>3. stored = (n - 1) * Stride + m
      <4>1. PICK t \in Nat : t = (n - 1) * Stride
        BY <1>2
      <4> QED
        BY <4>1, <3>2, <1>1
    <3>4. CeilDiv(stored, Stride) = n
      BY <3>1, <3>3, CeilOf
    <3> QED
      BY <3>4, <2>2, <1>1 DEF Streams
  <2> QED
    BY <1>1, <2>1, <2>2
<1> QED
  BY <1>2, <1>3, <1>4

\* The share of what is left is the next segment, and the rest is behind it.
LEMMA ShareIs ==
    ASSUME IInv, NEW n \in Nat \ {0}, NEW last \in Nat, NEW k \in 0..(n - 1),
           segbytes = 0 => n = 1, segbytes > 0 => last <= segbytes,
           NEW total, total = (n - 1 - k) * segbytes + last
    PROVE  /\ Share(total) = Size(n, last, k) /\ total - Share(total) = Behind(n, last, k)
           /\ total \in Nat /\ Size(n, last, k) \in Nat /\ Behind(n, last, k) \in Nat
<1>1. segbytes \in Nat
  BY Counts
<1>2. CASE k = n - 1
  <2>1. total = last
    BY <1>1, <1>2
  <2> QED
    BY <1>1, <1>2, <2>1 DEF Share, Size, Behind, Least
<1>3. CASE k # n - 1
  <2>1. n - 2 - k \in Nat /\ segbytes > 0
    BY <1>1, <1>3
  <2>2. PICK p \in Nat : p = (n - 2 - k) * segbytes /\ total = p + segbytes + last
    BY <1>1, <2>1
  <2> QED
    BY <1>1, <1>3, <2>1, <2>2 DEF Share, Size, Behind, Least
<1> QED
  BY <1>2, <1>3

LEMMA EsBindReads ==
    ASSUME ReadIInv, NEW i \in 1..Len(idx), EsBind(idx[i])
    PROVE  ReaderInv'
<1>1. /\ Finished /\ UNCHANGED vars /\ IInv /\ Listed
  BY FinishedListed DEF EsBind, ReadIInv
<1>2. PICK r : r = idx[i]
  OBVIOUS
<1>3. PICK b \in Nat, n \in Nat \ {0}, last \in Nat :
        Laid(r.ordinal, r.offset, b, n, last) /\ Cut(r.stored, n, last)
  BY <1>1, <1>2 DEF Listed, Written
<1>4. r.ordinal \in Nat /\ r.offset \in Nat
  BY <1>1, <1>2, Counts DEF Listed
<1>5. PICK total : total = r.stored - TagBytes * Streams(r.stored)
  OBVIOUS
<1>6. /\ r.stored \in Nat /\ r.stored >= TagBytes /\ total = (n - 1) * segbytes + last
  BY <1>1, <1>3, <1>5, StreamsAre
<1>7. /\ Share(total) = Size(n, last, 0) /\ total - Share(total) = Behind(n, last, 0)
      /\ total \in Nat /\ Size(n, last, 0) \in Nat /\ Behind(n, last, 0) \in Nat
  <2>1. 0 \in 0..(n - 1) /\ n - 1 - 0 = n - 1
    OBVIOUS
  <2> QED
    BY <1>1, <1>3, <1>6, <2>1, ShareIs DEF Cut
<1>8. PICK c \in Nat, d \in Nat : /\ c = Share(total) /\ d = total - Share(total)
                                  /\ c = Size(n, last, 0) /\ d = Behind(n, last, 0) /\ total = c + d
  BY <1>7
<1>9. es' = [state |-> "reading", ordinal |-> r.ordinal, segidx |-> 0,
             at |-> r.offset, ctoff |-> r.offset, ctleft |-> c, ctremain |-> d, left |-> total]
  <2>1. ~(r.stored < TagBytes \/ total < 0)
    <3>1. TagBytes \in Nat
      BY <1>1, Counts
    <3> QED
      BY <3>1, <1>6, <1>7
  <2> QED
    BY <1>2, <1>5, <1>8, <2>1 DEF EsBind
<1>10. /\ es' \in StreamStates /\ es'.left = es'.ctleft + es'.ctremain /\ es'.state = "reading"
       /\ es'.ordinal = r.ordinal /\ es'.segidx = 0 /\ es'.at = r.offset
       /\ es'.ctoff = r.offset /\ es'.ctleft = c /\ es'.ctremain = d
  BY <1>4, <1>7, <1>8, <1>9 DEF StreamStates
<1>11. /\ idx' = idx /\ sealed' = sealed /\ segbytes' = segbytes /\ pc' = pc /\ code' = code
  BY <1>1 DEF vars, cfgVars, logVars, errVars
<1>12. InSegment'
  <2>1. /\ Laid(r.ordinal, r.offset, b, n, last)' /\ Cut(r.stored, n, last)'
    BY <1>3, <1>11 DEF Laid, Cut, Stride
  <2>2. 0 < n /\ r.offset = r.offset + 0 * Stride' /\ r.offset + c = r.offset + Size(n, last, 0)'
    <3>1. 0 * Stride' = 0
      BY <1>1, <1>11, Counts DEF Stride
    <3> QED
      BY <3>1, <1>4, <1>8, <1>11 DEF Size
  <2>3. d = Behind(n, last, 0)'
    BY <1>8, <1>11 DEF Behind
  <2>4. r = idx'[i] /\ i \in 1..Len(idx') /\ r.offset <= r.offset /\ 0 \in Nat
    BY <1>2, <1>4, <1>11
  <2> QED
    BY <2>1, <2>2, <2>3, <2>4, <1>10 DEF InSegment
<1> QED
  BY <1>1, <1>10, <1>11, <1>12 DEF ReaderInv, Finished

\* Where the reader stands, in constants.
LEMMA Stands ==
    ASSUME ReadIInv, es.state = "reading"
    PROVE  \E i \in 1..Len(idx), b \in Nat, n \in Nat \ {0}, last \in Nat, k \in Nat,
              r \in Records, v \in StreamStates :
              /\ r = idx[i] /\ v = es /\ v \in StreamStates /\ Finished
              /\ v.left = v.ctleft + v.ctremain
              /\ Laid(r.ordinal, r.offset, b, n, last)
              /\ Cut(r.stored, n, last) /\ k < n
              /\ v.ordinal = r.ordinal /\ v.segidx = k /\ v.at = r.offset + k * Stride
              /\ v.at <= v.ctoff /\ v.ctoff + v.ctleft = v.at + Size(n, last, k)
              /\ v.ctremain = Behind(n, last, k)
              /\ r.ordinal \in Nat /\ r.offset \in Nat
              /\ Size(n, last, k) \in Nat /\ Behind(n, last, k) \in Nat
<1>1. es \in StreamStates /\ Finished /\ InSegment /\ es.left = es.ctleft + es.ctremain /\ IInv /\ Listed
  BY FinishedListed DEF ReadIInv, ReaderInv, NoStream
<1>2. PICK i \in 1..Len(idx), b \in Nat, n \in Nat \ {0}, last \in Nat, k \in Nat :
        /\ Laid(idx[i].ordinal, idx[i].offset, b, n, last)
        /\ Cut(idx[i].stored, n, last) /\ k < n
        /\ es.ordinal = idx[i].ordinal /\ es.segidx = k
        /\ es.at = idx[i].offset + k * Stride
        /\ es.at <= es.ctoff /\ es.ctoff + es.ctleft = es.at + Size(n, last, k)
        /\ es.ctremain = Behind(n, last, k)
  BY <1>1 DEF InSegment
<1>3. idx[i] \in Records /\ idx[i].ordinal \in Nat /\ idx[i].offset \in Nat
  BY <1>1, Counts DEF Listed
<1>4. Size(n, last, k) \in Nat /\ Behind(n, last, k) \in Nat
  <2>1. k \in 0..(n - 1)
    BY <1>2
  <2> QED
    BY <1>1, <1>2, <2>1, ShareIs DEF Cut
<1> QED
  BY <1>1, <1>2, <1>3, <1>4

LEMMA EsRefillReads ==
    ASSUME ReadIInv, EsRefill
    PROVE  ReaderInv'
<1>1. UNCHANGED vars /\ es.state = "reading" /\ es.ctleft > 0
  BY DEF EsRefill
<1>2. PICK i \in 1..Len(idx), b \in Nat, n \in Nat \ {0}, last \in Nat, k \in Nat,
              r \in Records, v \in StreamStates :
              /\ r = idx[i] /\ v = es /\ v \in StreamStates /\ Finished
              /\ v.left = v.ctleft + v.ctremain
              /\ Laid(r.ordinal, r.offset, b, n, last)
              /\ Cut(r.stored, n, last) /\ k < n
              /\ v.ordinal = r.ordinal /\ v.segidx = k /\ v.at = r.offset + k * Stride
              /\ v.at <= v.ctoff /\ v.ctoff + v.ctleft = v.at + Size(n, last, k)
              /\ v.ctremain = Behind(n, last, k)
              /\ r.ordinal \in Nat /\ r.offset \in Nat
              /\ Size(n, last, k) \in Nat /\ Behind(n, last, k) \in Nat
  BY <1>1, Stands
<1>3. PICK m : m = Least(es.ctleft, RawBytes)
  OBVIOUS
<1>4. /\ v.ordinal \in Nat /\ v.segidx \in Nat /\ v.at \in Nat /\ v.ctoff \in Nat
      /\ v.ctleft \in Nat /\ v.ctremain \in Nat /\ v.left \in Nat
  BY <1>2 DEF StreamStates
<1>5. m \in Nat /\ m <= v.ctleft
  BY <1>1, <1>2, <1>3, <1>4, RawBytesAssumption DEF Least
<1>6. es' = [v EXCEPT !.ctoff = @ + m, !.ctleft = @ - m, !.left = @ - m]
  BY <1>2, <1>3 DEF EsRefill
<1>7. /\ es' \in StreamStates /\ es'.state = "reading" /\ es'.ordinal = v.ordinal
      /\ es'.segidx = v.segidx /\ es'.at = v.at /\ es'.ctremain = v.ctremain
      /\ es'.ctoff = v.ctoff + m /\ es'.ctleft = v.ctleft - m /\ es'.left = v.left - m
  <2>1. v \in StreamStates /\ v.state = "reading"
    BY <1>1, <1>2
  <2>2. v.ctoff + m \in Nat /\ v.ctleft - m \in Nat /\ v.left - m \in Nat
    <3>1. v.left = v.ctleft + v.ctremain
      BY <1>2
    <3>2. /\ v.ctoff \in Nat /\ v.ctleft \in Nat /\ v.ctremain \in Nat
          /\ m \in Nat /\ m <= v.ctleft
      BY <1>4, <1>5
    <3> QED
      BY <3>1, <3>2
  <2> QED
    BY <2>1, <2>2, <1>6 DEF StreamStates
<1>8. /\ idx' = idx /\ sealed' = sealed /\ segbytes' = segbytes /\ pc' = pc /\ code' = code
  BY <1>1 DEF vars, cfgVars, logVars, errVars
<1>9. InSegment'
  <2>1. /\ Laid(r.ordinal, r.offset, b, n, last)' /\ Cut(r.stored, n, last)'
    BY <1>2, <1>8 DEF Laid, Cut, Stride
  <2>2. PICK x \in Nat, y \in Nat : /\ x = Size(n, last, k) /\ x = Size(n, last, k)'
                                   /\ y = Behind(n, last, k) /\ y = Behind(n, last, k)'
    BY <1>2, <1>8 DEF Size, Behind, Stride
  <2>5. PICK z : z = Stride /\ z = Stride'
    BY <1>8 DEF Stride
  <2>3. /\ es'.at <= es'.ctoff /\ es'.ctoff + es'.ctleft = es'.at + x /\ es'.ctremain = y
        /\ es'.at = r.offset + k * z
    <3>1. /\ v.at <= v.ctoff /\ v.ctoff + v.ctleft = v.at + x /\ v.ctremain = y
          /\ v.at = r.offset + k * z
      BY <1>2, <2>2, <2>5
    <3>2. v.at <= v.ctoff + m /\ (v.ctoff + m) + (v.ctleft - m) = v.at + x
      <4>1. v.at <= v.ctoff /\ v.ctoff + v.ctleft = v.at + x
        BY <3>1
      <4>2. v.at \in Nat /\ v.ctoff \in Nat /\ v.ctleft \in Nat /\ m \in Nat /\ x \in Nat
        BY <1>4, <1>5
      <4> QED
        BY <4>1, <4>2
    <3> QED
      BY <3>1, <3>2, <1>7
  <2>4. r = idx'[i] /\ i \in 1..Len(idx') /\ es'.ordinal = r.ordinal /\ es'.segidx = k
    BY <1>2, <1>7, <1>8
  <2>6. /\ k < n /\ es'.ordinal = r.ordinal /\ es'.segidx = k
        /\ es'.at = r.offset + k * Stride'
        /\ es'.at <= es'.ctoff /\ es'.ctoff + es'.ctleft = es'.at + Size(n, last, k)'
        /\ es'.ctremain = Behind(n, last, k)'
    BY <2>2, <2>3, <2>4, <2>5, <1>2
  <2> QED
    BY <2>1, <2>4, <2>6, Zenon DEF InSegment
<1>10. Finished' /\ es'.left = es'.ctleft + es'.ctremain
  <2>1. Finished'
    BY <1>2, <1>8 DEF Finished
  <2>2. v.left = v.ctleft + v.ctremain
    BY <1>2
  <2>3. v.left - m = (v.ctleft - m) + v.ctremain
    BY <2>2, <1>4, <1>5
  <2> QED
    BY <2>1, <2>3, <1>7
<1> QED
  BY <1>7, <1>9, <1>10 DEF ReaderInv

LEMMA EsTagReads ==
    ASSUME ReadIInv, EsTag
    PROVE  ReaderInv'
<1>1. UNCHANGED vars /\ es.state = "reading" /\ es.ctleft = 0
  BY DEF EsTag
<1>2. PICK i \in 1..Len(idx), b \in Nat, n \in Nat \ {0}, last \in Nat, k \in Nat,
              r \in Records, v \in StreamStates :
              /\ r = idx[i] /\ v = es /\ v \in StreamStates /\ Finished
              /\ v.left = v.ctleft + v.ctremain
              /\ Laid(r.ordinal, r.offset, b, n, last)
              /\ Cut(r.stored, n, last) /\ k < n
              /\ v.ordinal = r.ordinal /\ v.segidx = k /\ v.at = r.offset + k * Stride
              /\ v.at <= v.ctoff /\ v.ctoff + v.ctleft = v.at + Size(n, last, k)
              /\ v.ctremain = Behind(n, last, k)
              /\ r.ordinal \in Nat /\ r.offset \in Nat
              /\ Size(n, last, k) \in Nat /\ Behind(n, last, k) \in Nat
  BY <1>1, Stands
<1>3. /\ v.ordinal \in Nat /\ v.segidx \in Nat /\ v.at \in Nat /\ v.ctoff \in Nat
      /\ v.ctleft = 0 /\ v.ctremain \in Nat /\ v.left \in Nat
  BY <1>1, <1>2 DEF StreamStates
<1>4. /\ IInv /\ segbytes \in Nat /\ TagBytes \in Nat \ {0} /\ Stride = segbytes + TagBytes
  BY Counts DEF ReadIInv, Stride
<1>5. v.ctoff - v.at = Size(n, last, k)
  BY <1>2, <1>3
<1>6. TagMatches
  <2>1. sealed[b + k + 1] = Seg(r.ordinal, k, r.offset + k * Stride, Size(n, last, k))
    <3>1. CASE k = n - 1
      <4>1. b + k + 1 = b + n
        BY <3>1
      <4>2. sealed[b + n] = Seg(r.ordinal, n - 1, r.offset + (n - 1) * Stride, last)
        BY <1>2 DEF Laid
      <4> QED
        BY <3>1, <4>1, <4>2 DEF Size
    <3>2. CASE k # n - 1
      <4>1. PICK j \in 1..(n - 1) : j = k + 1 /\ j - 1 = k /\ b + j = b + k + 1
        BY <3>2, <1>2
      <4>2. sealed[b + j] = Seg(r.ordinal, j - 1, r.offset + (j - 1) * Stride, segbytes)
        BY <1>2 DEF Laid
      <4> QED
        BY <3>2, <4>1, <4>2 DEF Size
    <3> QED
      BY <3>1, <3>2
  <2>2. b + k + 1 \in 1..Len(sealed)
    <3>1. b + n <= Len(sealed) /\ Len(sealed) \in Nat
      BY <1>2, <1>4, Counts DEF Laid
    <3> QED
      BY <3>1, <1>2
  <2>3. sealed[b + k + 1] = [ordinal |-> v.ordinal, segment |-> v.segidx,
                             at |-> v.at, len |-> v.ctoff - v.at]
    BY <2>1, <1>2, <1>5 DEF Seg
  <2> QED
    BY <2>2, <2>3, <1>2 DEF TagMatches
<1>7. /\ idx' = idx /\ sealed' = sealed /\ segbytes' = segbytes /\ Finished'
  BY <1>1, <1>2 DEF vars, cfgVars, logVars, errVars, Finished
<1>8. CASE v.ctremain = 0 /\ es' = [v EXCEPT !.state = "done"]
  <2>1. es' \in StreamStates /\ es'.state = "done" /\ es'.left = 0 /\ es'.ctleft = 0 /\ es'.ctremain = 0
    <3>1. v.left = 0 /\ v.ctleft = 0 /\ v.ctremain = 0
      BY <1>2, <1>3, <1>8
    <3>2. v \in StreamStates
      BY <1>2
    <3> QED
      BY <3>1, <3>2, <1>8 DEF StreamStates
  <2> QED
    BY <2>1, <1>7 DEF ReaderInv
<1>9. CASE /\ v.ctremain > 0
           /\ es' = [v EXCEPT !.segidx = @ + 1, !.ctoff = v.ctoff + TagBytes, !.at = v.ctoff + TagBytes,
                              !.ctleft = Share(v.ctremain), !.ctremain = @ - Share(v.ctremain)]
  <2>1. k # n - 1
    BY <1>2, <1>9 DEF Behind
  <2>2. /\ k + 1 \in 0..(n - 1) /\ k + 1 \in Nat /\ k + 1 < n
        /\ v.ctremain = (n - 1 - (k + 1)) * segbytes + last
    <3>1. n - 2 - k = n - 1 - (k + 1)
      BY <1>2
    <3>2. v.ctremain = (n - 2 - k) * segbytes + last
      BY <1>2, <2>1 DEF Behind
    <3>3. k + 1 \in 0..(n - 1) /\ k + 1 \in Nat /\ k + 1 < n
      BY <1>2, <2>1
    <3> QED
      BY <3>1, <3>2, <3>3
  <2>3. /\ Share(v.ctremain) = Size(n, last, k + 1)
        /\ v.ctremain - Share(v.ctremain) = Behind(n, last, k + 1)
        /\ Size(n, last, k + 1) \in Nat /\ Behind(n, last, k + 1) \in Nat
    <3>1. PICK t : t = v.ctremain
      OBVIOUS
    <3>2. /\ segbytes = 0 => n = 1
          /\ segbytes > 0 => last <= segbytes
      BY <1>2 DEF Cut
    <3>3. PICK j \in 0..(n - 1) : j = k + 1 /\ t = (n - 1 - j) * segbytes + last
      BY <2>2, <3>1
    <3>4. /\ Share(t) = Size(n, last, j) /\ t - Share(t) = Behind(n, last, j)
          /\ Size(n, last, j) \in Nat /\ Behind(n, last, j) \in Nat
      BY <3>2, <3>3, <1>4, ShareIs
    <3> QED
      BY <3>1, <3>3, <3>4
  <2>4. PICK c \in Nat, d \in Nat : /\ c = Share(v.ctremain) /\ d = v.ctremain - c
                                    /\ c = Size(n, last, k + 1) /\ d = Behind(n, last, k + 1)
    BY <2>3
  <2>5. /\ es' \in StreamStates /\ es'.state = "reading" /\ es'.ordinal = v.ordinal
        /\ es'.segidx = k + 1 /\ es'.at = v.ctoff + TagBytes /\ es'.ctoff = v.ctoff + TagBytes
        /\ es'.ctleft = c /\ es'.ctremain = d /\ es'.left = v.left
    <3>1. v \in StreamStates /\ v.state = "reading" /\ v.segidx = k
      BY <1>1, <1>2
    <3>2. v.ctoff + TagBytes \in Nat /\ k + 1 \in Nat
      BY <1>3, <1>4
    <3>3. es' = [v EXCEPT !.segidx = @ + 1, !.ctoff = v.ctoff + TagBytes, !.at = v.ctoff + TagBytes,
                          !.ctleft = c, !.ctremain = d]
      BY <1>9, <2>4
    <3> QED
      BY <3>1, <3>2, <3>3, <2>4 DEF StreamStates
  <2>6. es'.at = r.offset + (k + 1) * Stride
    <3>1. Size(n, last, k) = segbytes
      BY <2>1 DEF Size
    <3>2. PICK p \in Nat : p = k * Stride /\ (k + 1) * Stride = p + Stride
      BY <1>4
    <3>3. v.at = r.offset + p /\ v.ctoff - v.at = segbytes
      BY <3>1, <3>2, <1>2, <1>5
    <3>4. v.ctoff + TagBytes = r.offset + (p + Stride)
      <4>1. r.offset \in Nat /\ p \in Nat
        BY <1>2
      <4>2. v.ctoff \in Nat /\ v.at \in Nat /\ segbytes \in Nat /\ TagBytes \in Nat
        BY <1>3, <1>4
      <4>3. v.ctoff = r.offset + p + segbytes
        BY <3>3, <4>1, <4>2
      <4>4. Stride = segbytes + TagBytes
        BY <1>4
      <4> QED
        BY <4>1, <4>2, <4>3, <4>4
    <3> QED
      BY <3>2, <3>4, <2>5
  <2>7. InSegment'
    <3>1. /\ Laid(r.ordinal, r.offset, b, n, last)' /\ Cut(r.stored, n, last)'
      BY <1>2, <1>7 DEF Laid, Cut, Stride
    <3>2. /\ c = Size(n, last, k + 1)' /\ d = Behind(n, last, k + 1)' /\ Stride' = Stride
      BY <2>4, <1>7 DEF Size, Behind, Stride
    <3>3. es'.at <= es'.ctoff /\ es'.ctoff + es'.ctleft = es'.at + c
      BY <2>5, <1>3, <1>4
    <3>4. r = idx'[i] /\ i \in 1..Len(idx')
      BY <1>2, <1>7
    <3>5. PICK j \in Nat : /\ j = k + 1 /\ j < n /\ es'.segidx = j /\ es'.at = r.offset + j * Stride'
                           /\ c = Size(n, last, j)' /\ d = Behind(n, last, j)'
      BY <2>2, <2>5, <2>6, <3>2
    <3>6. es'.ordinal = r.ordinal /\ es'.ctremain = d
      BY <2>5, <1>2
    <3> QED
      BY <3>1, <3>3, <3>4, <3>5, <3>6 DEF InSegment
  <2>8. es'.left = es'.ctleft + es'.ctremain
    BY <2>4, <2>5, <1>2, <1>3
  <2> QED
    BY <2>5, <2>7, <2>8, <1>7 DEF ReaderInv
<1> QED
  BY <1>2, <1>6, <1>8, <1>9 DEF EsTag, AfterTag

\* The writer is done before the reader begins.
LEMMA WriterReads ==
    ASSUME ReadIInv, [Next]_vars, es' = es
    PROVE  ReaderInv'
<1>1. CASE es = NoStream
  BY <1>1 DEF ReaderInv
<1>2. CASE es # NoStream
  <2>1. Finished
    BY <1>2 DEF ReadIInv, ReaderInv
  <2>2. UNCHANGED vars
    BY <2>1 DEF Finished, Next, WriteHeader, RefuseEntry, EntryBegin, Unwind, TarOut, BodyFails,
                EntryEnd, SinkCopy, SinkReturn, FlushPiece, SegRoll, FlushDone, EntryTag,
                IdxAdd, IdxWrite, Finish, Ended
  <2>3. idx' = idx /\ sealed' = sealed /\ segbytes' = segbytes /\ pc' = pc /\ code' = code
    BY <2>2 DEF vars, cfgVars, logVars, errVars
  <2>4. Finished'
    BY <2>1, <2>3 DEF Finished
  <2>5. ASSUME InSegment PROVE InSegment'
    <3>1. PICK i \in 1..Len(idx), b \in Nat, n \in Nat \ {0}, last \in Nat, k \in Nat :
            /\ Laid(idx[i].ordinal, idx[i].offset, b, n, last)
            /\ Cut(idx[i].stored, n, last) /\ k < n
            /\ es.ordinal = idx[i].ordinal /\ es.segidx = k
            /\ es.at = idx[i].offset + k * Stride
            /\ es.at <= es.ctoff /\ es.ctoff + es.ctleft = es.at + Size(n, last, k)
            /\ es.ctremain = Behind(n, last, k)
      BY <2>5 DEF InSegment
    <3>2. PICK r : r = idx[i] /\ r = idx'[i]
      BY <2>3
    <3>3. /\ Laid(r.ordinal, r.offset, b, n, last)' /\ Cut(r.stored, n, last)'
      BY <3>1, <3>2, <2>3 DEF Laid, Cut, Stride
    <3>4. /\ Size(n, last, k)' = Size(n, last, k) /\ Behind(n, last, k)' = Behind(n, last, k)
          /\ Stride' = Stride
      BY <2>3 DEF Size, Behind, Stride
    <3> QED
      BY <3>1, <3>2, <3>3, <3>4, <2>3 DEF InSegment
  <2> QED
    BY <1>2, <2>4, <2>5 DEF ReadIInv, ReaderInv
<1> QED
  BY <1>1, <1>2

LEMMA ReadInitHolds == ReadInit => ReadIInv
  BY InitIInv, InitLayout DEF ReadInit, ReadIInv, ReaderInv

LEMMA ReadNextKeeps == ReadIInv /\ [ReadNext]_esVars => ReadIInv'
<1> SUFFICES ASSUME ReadIInv, [ReadNext]_esVars PROVE ReadIInv'
  OBVIOUS
<1>1. [Next]_vars
  BY DEF ReadNext, ReaderNext, EsBind, EsRefill, EsTag, EsRelease, esVars
<1>2. IInv' /\ LayoutInv'
  BY <1>1, StepIInv, StepLayout DEF ReadIInv
<1>3. CASE es' = es
  BY <1>1, <1>2, <1>3, WriterReads DEF ReadIInv
<1>4. CASE ReaderNext
  <2>1. CASE EsRelease
    BY <2>1, <1>2 DEF EsRelease, ReadIInv, ReaderInv
  <2> QED
    BY <1>2, <1>4, <2>1, EsBindReads, EsRefillReads, EsTagReads DEF ReaderNext, ReadIInv
<1> QED
  BY <1>3, <1>4 DEF ReadNext, esVars

\* What is sealed, what the inventory says and where the reader stands agree in
\* every state.
THEOREM ReadInvariant == ReadSpec => []ReadIInv
  BY ReadInitHolds, ReadNextKeeps, PTL DEF ReadSpec

\* Every listed entry of a container that was reported as written reads back:
\* idx_auth accepts its counters, es_bind never refuses the extent, no tag fails,
\* and the entry ends with its last byte, for every segment size and every
\* length.
THEOREM EntriesReadBack == ReadSpec => []ListedReadsBack
<1>1. ReadIInv => ListedReadsBack
  <2> SUFFICES ASSUME ReadIInv PROVE ListedReadsBack
    OBVIOUS
  <2>1. ASSUME Finished PROVE CounterAccepted
    <3>1. Listed /\ pc = "ended" /\ IInv
      BY <2>1, FinishedListed DEF ReadIInv
    <3>2. ~\E i, j \in 1..Len(idx) : i < j /\ idx[i].ordinal >= idx[j].ordinal
      BY <3>1, Counts DEF Listed
    <3>3. CASE idx = <<>>
      BY <3>1, <3>2, <3>3, Counts DEF CounterAccepted, IdxNextFloor
    <3>4. CASE idx # <<>>
      <4>1. Len(idx) \in 1..Len(idx)
        BY <3>1, <3>4, Counts
      <4>2. idx[Len(idx)].ordinal \in Nat /\ idx[Len(idx)].ordinal < entnext
        BY <3>1, <4>1 DEF Listed, Unlisted
      <4>3. IdxNextFloor = idx[Len(idx)].ordinal + 1
        BY <3>2, <3>4 DEF IdxNextFloor
      <4> QED
        BY <4>2, <4>3, <3>1, Counts DEF CounterAccepted
    <3> QED
      BY <3>3, <3>4
  <2>2. /\ es.state \notin {"refused", "auth_failed"}
        /\ es.state = "done" => es.left = 0
    BY DEF ReadIInv, ReaderInv, NoStream, StreamStates
  <2> QED
    BY <2>1, <2>2 DEF ListedReadsBack
<1> QED
  BY <1>1, ReadInvariant, PTL

\* The segments the reader derives from an extent are the ones that were sealed
\* for that entry: as many, in order, back to back, and no others.
THEOREM ExtentsAreSegments == ReadSpec => []ExtentIsItsSegments
<1>1. ReadIInv => ExtentIsItsSegments
  <2> SUFFICES ASSUME ReadIInv, Finished, NEW i \in 1..Len(idx)
               PROVE  \E b \in 0..(Len(sealed) - Streams(idx[i].stored)) :
                        /\ \A j \in 1..Len(sealed) : sealed[j].ordinal = idx[i].ordinal <=>
                              j \in (b + 1)..(b + Streams(idx[i].stored))
                        /\ \A k \in 1..Streams(idx[i].stored) :
                             /\ sealed[b + k].segment = k - 1
                             /\ sealed[b + k].at = idx[i].offset + (k - 1) * (segbytes + TagBytes)
                             /\ segbytes > 0 => sealed[b + k].len <= segbytes
                        /\ sealed[b + Streams(idx[i].stored)].at
                             + sealed[b + Streams(idx[i].stored)].len + TagBytes
                           = idx[i].offset + idx[i].stored
    BY DEF ExtentIsItsSegments
  <2>1. Listed /\ IInv
    BY FinishedListed DEF ReadIInv
  <2>2. PICK r : r = idx[i] /\ r.offset \in Nat
    BY <2>1, Counts
  <2>3. PICK b \in Nat, n \in Nat \ {0}, last \in Nat :
          Laid(r.ordinal, r.offset, b, n, last) /\ Cut(r.stored, n, last)
    BY <2>1, <2>2 DEF Listed, Written
  <2>4. Streams(r.stored) = n
    BY <2>1, <2>3, StreamsAre
  <2>5. b \in 0..(Len(sealed) - n)
    BY <2>1, <2>3, Counts DEF Laid
  <2>6. \A j \in 1..Len(sealed) : sealed[j].ordinal = r.ordinal <=> j \in (b + 1)..(b + n)
    BY <2>3 DEF Laid
  <2>7. ASSUME NEW k \in 1..n
        PROVE  /\ sealed[b + k].segment = k - 1
               /\ sealed[b + k].at = r.offset + (k - 1) * Stride
               /\ segbytes > 0 => sealed[b + k].len <= segbytes
    <3>1. CASE k = n
      <4>1. sealed[b + k] = Seg(r.ordinal, k - 1, r.offset + (k - 1) * Stride, last)
        BY <3>1, <2>3 DEF Laid
      <4>2. segbytes > 0 => last <= segbytes
        BY <2>3 DEF Cut
      <4> QED
        BY <4>1, <4>2 DEF Seg
    <3>2. CASE k # n
      <4>1. k \in 1..(n - 1)
        BY <3>2
      <4>2. sealed[b + k] = Seg(r.ordinal, k - 1, r.offset + (k - 1) * Stride, segbytes)
        BY <4>1, <2>3 DEF Laid
      <4>3. segbytes <= segbytes
        BY <2>1, Counts
      <4> QED
        BY <4>2, <4>3 DEF Seg
    <3> QED
      BY <3>1, <3>2
  <2>8. sealed[b + n].at + sealed[b + n].len + TagBytes = r.offset + r.stored
    <3>1. PICK p \in Nat : p = (n - 1) * Stride
      BY <2>1, Counts
    <3>2. PICK x, y : /\ x = sealed[b + n].at /\ y = sealed[b + n].len
                      /\ x = r.offset + p /\ y = last
      BY <2>3, <3>1 DEF Laid, Seg
    <3>3. r.stored = p + last + TagBytes
      BY <2>3, <3>1 DEF Cut
    <3>4. TagBytes \in Nat
      BY <2>1, Counts
    <3>5. x + y + TagBytes = r.offset + r.stored
      BY <3>2, <3>3, <3>4, <2>2
    <3> QED
      BY <3>2, <3>5
  <2> QED
    BY <2>2, <2>4, <2>5, <2>6, <2>7, <2>8 DEF Stride
<1> QED
  BY <1>1, ReadInvariant, PTL

=============================================================================

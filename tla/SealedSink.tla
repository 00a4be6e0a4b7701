------------------------------ MODULE SealedSink ------------------------------
(***************************************************************************)
(* The writer of a .mrk container: do_pack's packing pass as the sink in   *)
(* src/src/pack.asm sees it.  Entries are handed over in pieces (tar_out), *)
(* framed when the container is compressed (csink_flush), buffered         *)
(* (sink_write) and sealed in AES-GCM streams, one per segment of an entry *)
(* (sink_flush_block, seg_roll, entry_end).  Each sealed entry is recorded *)
(* in the inventory (idx_add), which is itself sealed last (idx_write).    *)
(*                                                                         *)
(* Bytes are counted and never named: what is written is the sequence of   *)
(* streams opened (their nonces) and of segments sealed (nonce, place and  *)
(* length).  One container has one key, drawn with its salt.               *)
(***************************************************************************)
EXTENDS Integers, Sequences

CONSTANTS
    SegSizes,    \* segment sizes a header may carry; 0 is "not segmented"
    Rooms,       \* container bytes the volume layer takes before its ceiling
    Writes,      \* lengths of the pieces handed to tar_out
    MaxEntry,    \* bound: bytes of one entry, tar framing included
    MaxEntries,  \* bound: entries of a container
    IdxRoom,     \* inventory records that fit under idx_cap
    SinkBytes,   \* CHUNK, the sink's buffer
    BlockBytes,  \* CBLOCK, the compressor's block
    HdrBytes,    \* HDR_BYTES
    TagBytes,    \* GCM_TAG_LEN
    FrameBytes,  \* the frame header csink_flush puts before a block
    IdxeBytes,   \* an inventory record
    TailBytes,   \* IDX_TAIL_FIXED: the inventory's tag and trailer
    NonceBase    \* IDX_NONCE_BASE: where the inventory's counters start

ASSUME ConstantsAssumption ==
    /\ SegSizes \subseteq Nat
    /\ Rooms \subseteq Nat
    /\ Writes \subseteq Nat \ {0}
    /\ MaxEntry \in Nat /\ MaxEntries \in Nat /\ IdxRoom \in Nat
    /\ SinkBytes \in Nat \ {0} /\ BlockBytes \in Nat \ {0}
    /\ HdrBytes \in Nat \ {0} /\ TagBytes \in Nat \ {0} /\ FrameBytes \in Nat
    /\ IdxeBytes \in Nat /\ TailBytes \in Nat
    /\ NonceBase \in Nat
    /\ MaxEntries < NonceBase        \* ordinals never reach the index's range

EXIT_OK          == 0
EXIT_IO          == 2
EXIT_CORRUPT     == 4
EXIT_OOM         == 5
EXIT_UNSUPPORTED == 9
Running          == -1               \* no exit code yet
ExitCodes == {EXIT_OK, EXIT_IO, EXIT_CORRUPT, EXIT_OOM, EXIT_UNSUPPORTED}

VARIABLES
    pc,         \* the procedure the pass is in
    segbytes,   \* g_segbytes, from the header
    comp,       \* g_compress
    room,       \* what the volume layer takes: part size times VOL_MAX_PARTS
    packerr,    \* g_packerr, the sticky error
    code,       \* do_pack's exit code
    wrote,      \* container bytes the volume layer has taken
    todo,       \* bytes of the current sink_write not yet buffered
    closing,    \* TRUE once entry_end has been called
    named,      \* g_rellen # 0 for the open entry
    raw,        \* entry bytes handed to tar_out (bounds the run)
    rawfill,    \* g_rawfill
    sinkfill,   \* g_sinkfill
    fed,        \* bytes of the buffer sink_flush_block has encrypted
    payoff,     \* g_payoff
    entoff,     \* g_entoff
    segfill,    \* g_segfill
    segidx,     \* g_segidx
    entnext,    \* g_entnext
    opened,     \* nonces of the streams opened, in order
    sealed,     \* segments whose tag is written, in order
    nameless,   \* ordinals of the entries that carry no name
    idx         \* the inventory: what idx_add recorded, in order

callVars  == <<todo, closing, named, raw>>
bufVars   == <<rawfill, sinkfill, fed>>
placeVars == <<payoff, entoff, segfill, segidx, entnext>>
cfgVars   == <<segbytes, comp, room>>
errVars   == <<packerr, code>>
logVars   == <<opened, sealed, nameless, idx>>
vars == <<pc, cfgVars, errVars, wrote, callVars, bufVars, placeVars, logVars>>

-----------------------------------------------------------------------------
(* Nonces, segments and what the volume layer answers. *)

\* nonce_set: two disjoint fields, so equal only when both fields are.
Nonce(counter, segment) == <<counter, segment>>
EntryNonce(ordinal, segment) == Nonce(ordinal + 1, segment)
IndexNonce == Nonce(NonceBase, 0)                \* a fresh pack is revision 0

Least(a, b) == IF a <= b THEN a ELSE b

\* The segment the open stream holds, as its tag seals it.
OpenSegment == [ordinal |-> entnext, segment |-> segidx,
                at |-> payoff - segfill, len |-> segfill]

\* vol_put(len): taken whole, refused because the set would outgrow
\* VOL_MAX_PARTS, or failed by the disk.
PutOk(len) == /\ wrote + len <= room
              /\ wrote' = wrote + len
PutFails(len, rc) ==
    /\ UNCHANGED wrote
    /\ rc = EXIT_IO \/ (rc = EXIT_UNSUPPORTED /\ wrote + len > room)

-----------------------------------------------------------------------------
(* do_pack up to the first entry. *)

Init ==
    /\ pc = "header"
    /\ segbytes \in SegSizes /\ comp \in BOOLEAN /\ room \in Rooms
    /\ packerr = EXIT_OK /\ code = Running
    /\ wrote = 0
    /\ todo = 0 /\ closing = FALSE /\ named = TRUE /\ raw = 0
    /\ rawfill = 0 /\ sinkfill = 0 /\ fed = 0
    /\ payoff = 0 /\ entoff = 0 /\ segfill = 0 /\ segidx = 0 /\ entnext = 0
    /\ opened = <<>> /\ sealed = <<>> /\ nameless = {} /\ idx = <<>>

\* do_pack's exit with the given code.
End(rc) == /\ pc' = "ended"
           /\ code' = rc
           /\ UNCHANGED packerr

\* vol_write of the header, then comp_init.  A refusal of either is dp_io or
\* a dp_packerr that holds EXIT_IO.
WriteHeader ==
    /\ pc = "header"
    /\ \/ /\ PutOk(HdrBytes)
          /\ \/ pc' = "ready" /\ UNCHANGED <<packerr, code>>
             \/ comp /\ End(EXIT_IO)
       \/ \E rc \in {EXIT_IO, EXIT_UNSUPPORTED} :
             PutFails(HdrBytes, rc) /\ End(EXIT_IO)
    /\ UNCHANGED <<cfgVars, callVars, bufVars, placeVars, logVars>>

-----------------------------------------------------------------------------
(* The walk: pack_node and pack_bare, between entries. *)

\* Before entry_begin: the source will not open, or its name fits nowhere.
RefuseEntry ==
    /\ pc = "ready" /\ packerr = EXIT_OK /\ entnext < MaxEntries
    /\ packerr' \in {EXIT_IO, EXIT_CORRUPT}
    /\ UNCHANGED <<pc, cfgVars, code, wrote, callVars, bufVars,
                   placeVars, logVars>>

\* entry_begin: segment 0 of the next ordinal.
EntryBegin ==
    /\ pc = "ready" /\ packerr = EXIT_OK /\ entnext < MaxEntries
    /\ pc' = "body"
    /\ entoff' = payoff /\ segfill' = 0 /\ segidx' = 0 /\ UNCHANGED <<payoff, entnext>>
    /\ opened' = Append(opened, EntryNonce(entnext, 0))
    /\ rawfill' = 0 /\ sinkfill' = 0 /\ fed' = 0
    /\ todo' = 0 /\ closing' = FALSE /\ raw' = 0
    /\ named' \in BOOLEAN
    /\ UNCHANGED <<cfgVars, errVars, wrote, sealed, nameless, idx>>

\* The pass unwinds to dp_packerr, which exits with the sticky error.
Unwind ==
    /\ pc = "ready" /\ packerr # EXIT_OK
    /\ End(packerr)
    /\ UNCHANGED <<cfgVars, wrote, callVars, bufVars, placeVars, logVars>>

-----------------------------------------------------------------------------
(* One entry's bytes: tar_out, csink_write, csink_flush, sink_write. *)

\* csink_flush hands the sink a frame header and a payload that is never
\* longer than the block: compressed, or stored when that is no shorter.
FrameBlock(n) == \E payload \in 1..n : todo' = FrameBytes + payload

\* tar_out of n bytes; a compressed container takes them a block at a time.
TarOut(n) ==
    /\ pc = "body" /\ packerr = EXIT_OK /\ raw + n <= MaxEntry
    /\ raw' = raw + n
    /\ \/ ~comp /\ todo' = n /\ pc' = "write" /\ UNCHANGED rawfill
       \/ comp /\ rawfill + n < BlockBytes
               /\ rawfill' = rawfill + n /\ UNCHANGED <<pc, todo>>
       \/ comp /\ rawfill + n = BlockBytes
               /\ FrameBlock(BlockBytes) /\ rawfill' = 0 /\ pc' = "write"
    /\ UNCHANGED <<cfgVars, errVars, wrote, closing, named, sinkfill, fed,
                   placeVars, logVars>>

\* The source cannot be read on, or the user cancelled: pe_err, with no
\* entry_end and no idx_add.
BodyFails ==
    /\ pc = "body"
    /\ packerr' = EXIT_IO /\ pc' = "ready"
    /\ UNCHANGED <<cfgVars, code, wrote, callVars, bufVars, placeVars, logVars>>

\* entry_end's csink_flush; it goes on to sink_flush_block.
EntryEnd ==
    /\ pc = "body"
    /\ closing' = TRUE
    /\ \/ /\ comp /\ rawfill > 0
          /\ FrameBlock(rawfill) /\ rawfill' = 0 /\ pc' = "write"
          /\ UNCHANGED fed
       \/ /\ ~comp \/ rawfill = 0
          /\ fed' = 0 /\ pc' = "flush" /\ UNCHANGED <<todo, rawfill>>
    /\ UNCHANGED <<cfgVars, errVars, wrote, named, raw, sinkfill,
                   placeVars, logVars>>

\* How much of the call the buffer takes, and when it is flushed.
Copied_unbounded == todo
Copied == Least(SinkBytes - sinkfill, todo)
FlushDue(fill) == fill = SinkBytes

\* sink_write's loop: fill the buffer, flush it when it is full.
SinkCopy ==
    /\ pc = "write" /\ packerr = EXIT_OK /\ todo > 0
    /\ sinkfill' = sinkfill + Copied
    /\ todo' = todo - Copied
    /\ IF FlushDue(sinkfill + Copied) THEN pc' = "flush" /\ fed' = 0
                                      ELSE UNCHANGED <<pc, fed>>
    /\ UNCHANGED <<cfgVars, errVars, wrote, closing, named, raw, rawfill,
                   placeVars, logVars>>

\* sink_write returns; the rest of a call is dropped after an error.
SinkReturn ==
    /\ pc = "write" /\ (todo = 0 \/ packerr # EXIT_OK)
    /\ todo' = 0
    /\ IF closing THEN pc' = "flush" /\ fed' = 0
                  ELSE pc' = "body" /\ UNCHANGED fed
    /\ UNCHANGED <<cfgVars, errVars, wrote, closing, named, raw, rawfill,
                   sinkfill, placeVars, logVars>>

-----------------------------------------------------------------------------
(* sink_flush_block: seal the buffer, rolling to a new segment on the way. *)

\* The loop's test: the sticky error stops it, and so does an empty buffer.
MoreToFeed == packerr = EXIT_OK /\ fed < sinkfill

\* A full segment is rolled when more bytes are about to be fed and not
\* before: an entry that ends on a boundary has no empty last segment.
RollDue == MoreToFeed /\ segbytes > 0 /\ segfill >= segbytes

Piece == IF segbytes = 0 THEN sinkfill - fed
                         ELSE Least(sinkfill - fed, segbytes - segfill)

\* gcm_crypt and vol_put of one piece.  A failure keeps vol_put's own code.
FlushPiece ==
    /\ pc = "flush" /\ MoreToFeed /\ ~RollDue
    /\ \/ /\ PutOk(Piece)
          /\ payoff' = payoff + Piece /\ fed' = fed + Piece /\ segfill' = segfill + Piece
          /\ UNCHANGED packerr
       \/ /\ PutFails(Piece, packerr')
          /\ UNCHANGED <<payoff, fed, segfill>>
    /\ UNCHANGED <<pc, cfgVars, code, callVars, rawfill, sinkfill, entoff, segidx,
                   entnext, logVars>>

\* The stream a roll opens: the same ordinal, the next segment.
NextSegment_same == segidx
NextSegment == segidx + 1

\* seg_roll: tag the full segment, open the next under the same ordinal.
SegRoll ==
    /\ pc = "flush" /\ RollDue
    /\ \/ /\ PutOk(TagBytes)
          /\ sealed' = Append(sealed, OpenSegment)
          /\ payoff' = payoff + TagBytes /\ segidx' = NextSegment /\ segfill' = 0
          /\ opened' = Append(opened, EntryNonce(entnext, NextSegment))
          /\ UNCHANGED packerr
       \/ /\ PutFails(TagBytes, packerr')
          /\ UNCHANGED <<sealed, payoff, segidx, segfill, opened>>
    /\ UNCHANGED <<pc, cfgVars, code, callVars, rawfill, sinkfill, fed, entoff,
                   entnext, nameless, idx>>

\* The buffer is empty again; entry_end goes on to the tag unless it failed.
FlushDone ==
    /\ pc = "flush" /\ ~MoreToFeed /\ ~RollDue
    /\ sinkfill' = 0
    /\ \/ ~closing /\ pc' = "write"
       \/ closing /\ packerr = EXIT_OK /\ pc' = "tag"
       \/ closing /\ packerr # EXIT_OK /\ pc' = "list"
    /\ UNCHANGED <<cfgVars, errVars, wrote, callVars, rawfill, fed,
                   placeVars, logVars>>

-----------------------------------------------------------------------------
(* The end of an entry: its last tag, then its inventory record. *)

\* entry_end's tag.  Only a tag that was written uses up the ordinal, and a
\* failure of any kind is recorded as EXIT_IO.
EntryTag ==
    /\ pc = "tag"
    /\ pc' = "list"
    /\ \/ /\ PutOk(TagBytes)
          /\ sealed' = Append(sealed, OpenSegment)
          /\ payoff' = payoff + TagBytes /\ entnext' = entnext + 1
          /\ nameless' = IF named THEN nameless ELSE nameless \cup {entnext}
          /\ UNCHANGED packerr
       \/ /\ \E rc \in {EXIT_IO, EXIT_UNSUPPORTED} : PutFails(TagBytes, rc)
          /\ packerr' = EXIT_IO
          /\ UNCHANGED <<sealed, payoff, entnext, nameless>>
    /\ UNCHANGED <<cfgVars, code, callVars, bufVars, entoff, segfill, segidx,
                   opened, idx>>

\* What idx_add records: the extent since entry_begin and the ordinal that
\* entry_end has already moved past (before the first, 0 - 1 wraps: here -1).
Record == [offset |-> entoff, stored |-> payoff - entoff, ordinal |-> entnext - 1]

\* An inventory at its ceiling fails the pack; it once dropped the record.
IdxFull_dropped == UNCHANGED packerr
IdxFull == packerr' = EXIT_UNSUPPORTED

\* idx_add, reached whether or not entry_end succeeded.
IdxAdd ==
    /\ pc = "list"
    /\ pc' = "ready"
    /\ \/ ~named /\ UNCHANGED <<packerr, idx>>
       \/ named /\ Len(idx) >= IdxRoom /\ IdxFull /\ UNCHANGED idx
       \/ named /\ packerr' = EXIT_OOM /\ UNCHANGED idx
       \/ /\ named /\ Len(idx) < IdxRoom
          /\ idx' = Append(idx, Record) /\ UNCHANGED packerr
    /\ UNCHANGED <<cfgVars, code, wrote, callVars, bufVars, placeVars,
                   opened, sealed, nameless>>

-----------------------------------------------------------------------------
(* The inventory and the end of do_pack. *)

\* idx_write opens the index stream and puts its ciphertext, tag and
\* trailer; any of the three failing is EXIT_IO.
IdxWrite ==
    /\ pc = "ready" /\ packerr = EXIT_OK
    /\ opened' = Append(opened, IndexNonce)
    /\ LET bytes == Len(idx) * IdxeBytes + TailBytes IN
       \/ PutOk(bytes) /\ pc' = "finish" /\ UNCHANGED <<packerr, code>>
       \/ \E rc \in {EXIT_IO, EXIT_UNSUPPORTED} : PutFails(bytes, rc) /\ End(EXIT_IO)
    /\ UNCHANGED <<cfgVars, callVars, bufVars, placeVars, sealed, nameless, idx>>

\* vol_finish and the rename.
Finish ==
    /\ pc = "finish"
    /\ End(EXIT_OK) \/ End(EXIT_IO)
    /\ UNCHANGED <<cfgVars, wrote, callVars, bufVars, placeVars, logVars>>

\* do_pack has returned.
Ended == pc = "ended" /\ UNCHANGED vars

Next ==
    \/ WriteHeader \/ RefuseEntry \/ EntryBegin \/ Unwind
    \/ \E n \in Writes : TarOut(n)
    \/ BodyFails \/ EntryEnd \/ SinkCopy \/ SinkReturn
    \/ FlushPiece \/ SegRoll \/ FlushDone
    \/ EntryTag \/ IdxAdd \/ IdxWrite \/ Finish \/ Ended

Spec == Init /\ [][Next]_vars

-----------------------------------------------------------------------------
(* Properties. *)

PcValues == {"header", "ready", "body", "write", "flush", "tag", "list",
             "finish", "ended"}
Segments == [ordinal : Nat, segment : Nat, at : Nat, len : Nat]
Records  == [offset : Nat, stored : Nat, ordinal : Nat \cup {-1}]
Nonces   == Nat \X Nat

ControlType ==
    /\ pc \in PcValues
    /\ segbytes \in SegSizes /\ comp \in BOOLEAN /\ room \in Rooms
    /\ packerr \in ExitCodes
    /\ code \in ExitCodes \cup {Running}
    /\ closing \in BOOLEAN /\ named \in BOOLEAN

CountType ==
    /\ wrote \in Nat /\ todo \in Nat /\ raw \in Nat
    /\ rawfill \in 0..BlockBytes /\ sinkfill \in 0..SinkBytes
    /\ fed \in 0..SinkBytes
    /\ payoff \in Nat /\ entoff \in Nat /\ segfill \in Nat
    /\ segidx \in Nat /\ entnext \in Nat

LogType ==
    /\ opened \in Seq(Nonces) /\ sealed \in Seq(Segments)
    /\ nameless \subseteq Nat /\ idx \in Seq(Records)

\* The variables have their types; the sink's buffer and the compressor's
\* block are never filled past their ends (sink_write, csink_write).
TypeOK == ControlType /\ CountType /\ LogType

\* No two streams of a container are opened under one nonce: not two entries,
\* not two segments of one entry, not an entry and the inventory, whatever
\* fails on the way.  (nonce_set, seg_roll and entry_end: the ordinal moves
\* once per entry, the segment once per roll.)
NonceOnce ==
    \A i, j \in 1..Len(opened) : i # j => opened[i] # opened[j]

\* A pack that reports success has listed every entry it sealed that has a
\* name.  (idx_add: a full inventory fails the pack; dropping the record
\* once left 59,506 files unreachable under exit code 0.)
SuccessListsAll ==
    code = EXIT_OK =>
        \A o \in 0..(entnext - 1) :
            o \in nameless \/ \E i \in 1..Len(idx) : idx[i].ordinal = o
=============================================================================

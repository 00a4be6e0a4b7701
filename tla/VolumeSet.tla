------------------------------ MODULE VolumeSet -------------------------------
(***************************************************************************)
(* The volume layer, src/src/volume.asm, between do_pack and the disk, and *)
(* the readers of what it leaves there.  A container is written whole to a *)
(* temporary name and renamed, or, under a limit, sliced over parts that   *)
(* are written under their final names; a set that turns out to have one   *)
(* part is put back under the plain name in place (vol_settle); a failed   *)
(* pack deletes what it left (dp_done, vol_discard).  The writer's process *)
(* may be killed at any step.                                              *)
(*                                                                         *)
(* Files are sequences of cells.  The byte k of the container that run s   *)
(* writes is the cell <<s, k>>; a part header is one cell, <<s, part,      *)
(* final>>, s standing for the container's set_id.  File sharing is        *)
(* Windows': a file open for writing is open once, a file held for reading *)
(* is neither written nor deleted nor renamed.                             *)
(***************************************************************************)
EXTENDS Integers, Sequences, SequencesExt

CONSTANTS
    Bases,       \* output names, the ".mrk" trimmed
    Limits,      \* bytes per part (vsplit_bytes); 0 is "do not split"
    Calls,       \* lengths of the buffers handed to vol_write
    MaxStream,   \* bound: bytes of one container
    MaxRuns,     \* bound: runs of do_pack
    MaxParts,    \* VOL_MAX_PARTS
    MaxRefs,     \* bound: streams open on a set at once
    ShiftChunk,  \* VOL_SHIFT_CHUNK
    Handles,     \* handle values the writer's process is given
    Procs, App   \* the processes that read; App is the one that also writes

Invalid == 0                       \* INVALID_HANDLE_VALUE

ASSUME VolumeAssumption ==
    /\ Limits \subseteq Nat /\ Calls \subseteq Nat \ {0}
    /\ MaxStream \in Nat /\ MaxRuns \in Nat /\ MaxRefs \in Nat \ {0}
    /\ MaxParts \in Nat \ {0} /\ ShiftChunk \in Nat \ {0}
    /\ App \in Procs /\ Invalid \notin Handles

VARIABLES
    disk,        \* the files: name -> sequence of cells
    runs,        \* runs of do_pack so far; the last is the current set_id
    whole,       \* run -> its container's length, once vol_finish is called
    \* do_pack, per call
    wpc, out, code,
    est,         \* est_container_bytes, an upper bound on what is written
    sent,        \* container bytes written so far
    todo,        \* bytes of the current vol_write call not yet written
    named,       \* g_temppath is set
    hloc,        \* [rbp-24], do_pack's own copy of the handle
    cursor,      \* vol_settle's cursor, vol_discard's part number
    created,     \* names this run has created
    held,        \* files it could not delete: another process had them open
    \* volume.asm's globals, which outlive a call
    vol_on, vol_split, vol_base, vol_part, vol_limit, vol_fill, vol_hout, vol_toomany,
    fh,          \* the process's handles open for writing -> name
    rd           \* each process's set: g_vs_on, g_vs_refs, how far the table goes, and
                 \* how many of its users asked for which base

diskVars   == <<disk, whole>>
callVars   == <<out, est, named, runs>>
ownVars    == <<created, held>>
globalVars == <<vol_on, vol_split, vol_base, vol_part, vol_limit, vol_fill, vol_hout,
                vol_toomany>>
vars == <<diskVars, callVars, wpc, code, sent, todo, hloc, cursor, ownVars,
          globalVars, fh, rd>>

NoName == <<"none">>
NoBase == "nobase"
Plain(b)   == <<"plain", b>>
Temp(b)    == <<"temp", b>>
Part(b, i) == <<"part", b, i>>
Names == {Plain(b) : b \in Bases} \cup {Temp(b) : b \in Bases}
            \cup {Part(b, i) : b \in Bases, i \in 1..(MaxParts + 1)}

Hdr(s, i, final) == <<s, i, final>>
IsHdr(c)         == Len(c) = 3
Bytes(s, k, n)   == [j \in 1..n |-> <<s, k + j>>]
Container(s)     == Bytes(s, 0, whole[s])

Least(a, b) == IF a <= b THEN a ELSE b

-----------------------------------------------------------------------------
(* The file system. *)

Put(name, cells) == [f \in DOMAIN disk \cup {name} |-> IF f = name THEN cells ELSE disk[f]]
Without(name)    == [f \in DOMAIN disk \ {name} |-> disk[f]]
Renamed(f, g) ==
    [h \in (DOMAIN disk \ {f}) \cup {g} |-> IF h = g THEN disk[f] ELSE disk[h]]

OpenForWrite(name) == \E h \in Handles : fh[h] = name

\* The parts a process has in its table, accepted or being assembled.
Held(p) == {Part(rd[p].base, i) : i \in 1..rd[p].idx}
HeldForRead(name) == \E p \in Procs : name \in Held(p)

CanRead(name) == name \in DOMAIN disk /\ ~OpenForWrite(name)
Free(name)    == ~OpenForWrite(name) /\ ~HeldForRead(name)

-----------------------------------------------------------------------------
NotAssembled == [st |-> "closed", base |-> NoBase, idx |-> 0, sid |-> 0, refs |-> 0,
                 users |-> [b \in Bases |-> 0]]

Init ==
    /\ disk = [f \in {} |-> <<>>] /\ runs = 0 /\ whole = [s \in {} |-> 0]
    /\ wpc = "idle" /\ out \in Bases /\ code = "none"
    /\ est = 0 /\ sent = 0 /\ todo = 0 /\ named = FALSE /\ hloc = Invalid
    /\ cursor = 0 /\ created = {} /\ held = {}
    /\ vol_on = FALSE /\ vol_split = FALSE /\ vol_base = NoBase /\ vol_part = 0
    /\ vol_limit = 0 /\ vol_fill = 0 /\ vol_hout = Invalid /\ vol_toomany = FALSE
    /\ fh = [h \in Handles |-> NoName]
    /\ rd = [p \in Procs |-> NotAssembled]

-----------------------------------------------------------------------------
(* do_pack up to its first byte. *)

\* start_operation and the head of do_pack: g_temppath is cleared, the volume
\* globals are not.  The window does not start a job while a set is open.
StartPack(b, limit) ==
    /\ wpc = "idle" /\ runs < MaxRuns /\ rd[App].st = "closed"
    /\ wpc' = "preflight" /\ out' = b /\ vol_limit' = limit
    /\ runs' = runs + 1 /\ named' = FALSE /\ hloc' = Invalid
    /\ sent' = 0 /\ todo' = 0 /\ code' = "none" /\ created' = {} /\ held' = {} /\ cursor' = 0
    /\ est' \in 1..MaxStream
    /\ UNCHANGED <<diskVars, vol_on, vol_split, vol_base, vol_part, vol_fill, vol_hout,
                   vol_toomany, fh, rd>>

\* Any failure on the way to dp_done.
ToCleanup(c) == wpc' = "cleanup" /\ code' = c

\* A weak password, a name clash, no space, no randomness, no memory.
PreflightRefuses ==
    /\ wpc = "preflight" /\ ToCleanup("failed")
    /\ UNCHANGED <<diskVars, callVars, sent, todo, hloc, cursor, ownVars, globalVars, fh, rd>>

\* make_temp_path, and the limit is dropped when the estimate fits one file.
PreflightPasses ==
    /\ wpc = "preflight"
    /\ wpc' = "begin" /\ named' = TRUE
    /\ vol_limit' = IF vol_limit > 0 /\ est <= vol_limit THEN 0 ELSE vol_limit
    /\ UNCHANGED <<diskVars, out, est, runs, code, sent, todo, hloc, cursor, ownVars,
                   vol_on, vol_split, vol_base, vol_part, vol_fill, vol_hout,
                   vol_toomany, fh, rd>>

\* file_open_write into handle h, then the part header if there is one; either
\* can fail, the header's failure leaving the handle in g_vol_hout.
Create(name, header, h) ==
    /\ Free(name) /\ fh[h] = NoName
    /\ fh' = [fh EXCEPT ![h] = name]
    /\ created' = created \cup {name}
    /\ disk' = Put(name, header)

\* vol_begin.
VolBegin ==
    /\ wpc = "begin"
    /\ LET splitting == vol_limit > 0
           name == IF splitting THEN Part(out, 1) ELSE Temp(out) IN
       /\ vol_part' = 1 /\ vol_fill' = 0 /\ vol_toomany' = FALSE /\ vol_on' = TRUE
       /\ vol_split' = splitting
       /\ vol_base' = IF splitting THEN out ELSE NoBase
       /\ \/ \E h \in Handles :
                /\ Create(name, IF splitting THEN <<Hdr(runs, 1, FALSE)>> ELSE <<>>, h)
                /\ vol_hout' = h /\ hloc' = h /\ wpc' = "writing" /\ UNCHANGED code
          \/ \E h \in Handles :
                /\ splitting /\ Create(name, <<>>, h)
                /\ vol_hout' = h /\ UNCHANGED hloc /\ ToCleanup("failed")
          \/ /\ vol_hout' = Invalid /\ UNCHANGED <<hloc, fh, created, disk>>
             /\ ToCleanup("failed")
    /\ UNCHANGED <<whole, callVars, sent, todo, cursor, held, vol_limit, rd>>

-----------------------------------------------------------------------------
(* The container's bytes. *)

\* One call of vol_write.
VolCall(n) ==
    /\ wpc = "writing" /\ todo = 0 /\ sent + n <= est
    /\ todo' = n
    /\ UNCHANGED <<diskVars, callVars, wpc, code, sent, hloc, cursor, ownVars,
                   globalVars, fh, rd>>

RollDue == vol_limit > 0 /\ vol_fill = vol_limit

\* What one turn of vol_write's loop takes: up to the limit, or all of it.
Chunk_whole == todo
Chunk == IF vol_limit = 0 THEN todo ELSE Least(vol_limit - vol_fill, todo)

\* vol_write's loop, room left.
VolWrite ==
    /\ wpc = "writing" /\ todo > 0 /\ ~RollDue
    /\ \/ LET n == Chunk
              f == fh[vol_hout] IN
          /\ disk' = [disk EXCEPT ![f] = @ \o Bytes(runs, sent, n)]
          /\ sent' = sent + n /\ todo' = todo - n
          /\ vol_fill' = IF vol_limit = 0 THEN vol_fill ELSE vol_fill + n
          /\ UNCHANGED <<wpc, code>>
       \/ ToCleanup("failed") /\ UNCHANGED <<disk, sent, todo, vol_fill>>
    /\ UNCHANGED <<whole, callVars, hloc, cursor, ownVars, vol_on, vol_split,
                   vol_base, vol_part, vol_limit, vol_hout, vol_toomany, fh, rd>>

\* The writer stops where the reader stops.
PastCeiling_late(part) == part > MaxParts + 1
PastCeiling(part) == part > MaxParts

\* A full part: close it, and open the next when there may be one.
VolRoll ==
    /\ wpc = "writing" /\ todo > 0 /\ RollDue
    /\ LET next   == vol_part + 1
           closed == [fh EXCEPT ![vol_hout] = NoName]
           name   == Part(out, next) IN
       /\ vol_part' = next
       /\ \/ /\ PastCeiling(next)
             /\ vol_toomany' = TRUE /\ vol_hout' = Invalid /\ fh' = closed
             /\ ToCleanup("toomany") /\ UNCHANGED <<vol_fill, created, disk>>
          \/ /\ ~PastCeiling(next) /\ UNCHANGED vol_toomany
             /\ \/ \E h \in Handles, ok \in BOOLEAN :
                      /\ closed[h] = NoName /\ Free(name)
                      /\ fh' = [closed EXCEPT ![h] = name] /\ vol_hout' = h
                      /\ created' = created \cup {name}
                      /\ disk' = Put(name, IF ok THEN <<Hdr(runs, next, FALSE)>> ELSE <<>>)
                      /\ IF ok THEN vol_fill' = 0 /\ UNCHANGED <<wpc, code>>
                               ELSE ToCleanup("failed") /\ UNCHANGED vol_fill
                \/ /\ fh' = closed /\ vol_hout' = Invalid
                   /\ ToCleanup("failed") /\ UNCHANGED <<vol_fill, created, disk>>
    /\ UNCHANGED <<whole, callVars, sent, todo, hloc, cursor, held, vol_on, vol_split,
                   vol_base, vol_limit, rd>>

\* A source that cannot be read, or the user's cancel.
PackFails ==
    /\ wpc = "writing" /\ todo = 0 /\ ToCleanup("failed")
    /\ UNCHANGED <<diskVars, callVars, sent, todo, hloc, cursor, ownVars, globalVars, fh, rd>>

-----------------------------------------------------------------------------
(* vol_finish, vol_settle and the rename. *)

\* The header of the last part, as vol_finish rewrites it.
Marked(f) == [disk EXCEPT ![f][1] = Hdr(runs, vol_part, TRUE)]

VolFinish ==
    /\ wpc = "writing" /\ todo = 0 /\ sent > 0
    /\ whole' = [s \in DOMAIN whole \cup {runs} |-> IF s = runs THEN sent ELSE whole[s]]
    /\ vol_on' = FALSE /\ vol_hout' = Invalid
    /\ fh' = [fh EXCEPT ![vol_hout] = NoName]
    /\ \/ /\ disk' = IF vol_split THEN Marked(fh[vol_hout]) ELSE disk
          /\ wpc' = IF ~vol_split THEN "rename"
                    ELSE IF vol_part = 1 THEN "settle" ELSE "done"
          /\ code' = IF vol_split /\ vol_part > 1 THEN "ok" ELSE code
       \/ vol_split /\ ToCleanup("failed") /\ UNCHANGED disk
    /\ UNCHANGED <<callVars, sent, todo, hloc, cursor, ownVars, vol_split, vol_base,
                   vol_part, vol_limit, vol_fill, vol_toomany, rd>>

\* vol_settle opens the one part for reading and writing.
SettleOpen ==
    /\ wpc = "settle"
    /\ \/ \E h \in Handles :
             /\ fh[h] = NoName /\ Free(Part(vol_base, 1))
             /\ fh' = [fh EXCEPT ![h] = Part(vol_base, 1)]
             /\ wpc' = "shift" /\ cursor' = 0 /\ UNCHANGED code
       \/ ToCleanup("failed") /\ UNCHANGED <<fh, cursor>>
    /\ UNCHANGED <<diskVars, callVars, sent, todo, hloc, ownVars, globalVars, rd>>

Settled == Part(vol_base, 1)
SettleHandle == CHOOSE h \in Handles : fh[h] = Settled

\* Its loop: read one header further on, write at the cursor.
SettleShift ==
    /\ wpc = "shift" /\ cursor + 1 < Len(disk[Settled])
    /\ \/ LET n == Least(ShiftChunk, Len(disk[Settled]) - 1 - cursor) IN
          /\ disk' = [disk EXCEPT ![Settled] =
                [k \in DOMAIN @ |-> IF k \in (cursor + 1)..(cursor + n) THEN @[k + 1]
                                                                       ELSE @[k]]]
          /\ cursor' = cursor + n /\ UNCHANGED <<wpc, code, fh>>
       \/ /\ fh' = [fh EXCEPT ![SettleHandle] = NoName]
          /\ ToCleanup("failed") /\ UNCHANGED <<disk, cursor>>
    /\ UNCHANGED <<whole, callVars, sent, todo, hloc, ownVars, globalVars, rd>>

\* What is left of the part once its bytes have moved down.
Truncated_not(cells) == cells
Truncated(cells) == SubSeq(cells, 1, cursor)

SettleTruncate ==
    /\ wpc = "shift" /\ cursor + 1 = Len(disk[Settled])
    /\ fh' = [fh EXCEPT ![SettleHandle] = NoName]
    /\ \/ disk' = [disk EXCEPT ![Settled] = Truncated(@)] /\ wpc' = "promote" /\ UNCHANGED code
       \/ ToCleanup("failed") /\ UNCHANGED disk
    /\ UNCHANGED <<whole, callVars, sent, todo, hloc, cursor, ownVars, globalVars, rd>>

\* file_rename, of the temp or of the settled part, over the plain name.
Promote ==
    /\ wpc \in {"rename", "promote"}
    /\ LET f == IF wpc = "rename" THEN Temp(out) ELSE Settled IN
       \/ /\ Free(f) /\ Free(Plain(out))
          /\ disk' = Renamed(f, Plain(out)) /\ wpc' = "done" /\ code' = "ok"
       \/ ToCleanup("failed") /\ UNCHANGED disk
    /\ UNCHANGED <<whole, callVars, sent, todo, hloc, cursor, ownVars, globalVars, fh, rd>>

-----------------------------------------------------------------------------
(* dp_done on a failure, and vol_discard. *)

\* file_close of do_pack's copy of the handle; file_delete of the temp.
Cleanup ==
    /\ wpc = "cleanup"
    /\ fh' = IF hloc # Invalid THEN [fh EXCEPT ![hloc] = NoName] ELSE fh
    /\ disk' = IF named /\ \A h \in Handles : fh'[h] # Temp(out) THEN Without(Temp(out)) ELSE disk
    /\ IF vol_split THEN wpc' = "discard" /\ cursor' = 1
                    ELSE wpc' = "done" /\ UNCHANGED cursor
    /\ UNCHANGED <<whole, callVars, code, sent, todo, hloc, ownVars, globalVars, rd>>

\* vol_discard closes the part that was being written.
DiscardOpens ==
    /\ wpc = "discard" /\ vol_hout # Invalid
    /\ fh' = [fh EXCEPT ![vol_hout] = NoName] /\ vol_hout' = Invalid
    /\ UNCHANGED <<diskVars, callVars, wpc, code, sent, todo, hloc, cursor, ownVars,
                   vol_on, vol_split, vol_base, vol_part, vol_limit, vol_fill,
                   vol_toomany, rd>>

\* Which parts vol_discard goes through.
ToDiscard_short == cursor < vol_part
ToDiscard == cursor <= vol_part

DiscardPart ==
    /\ wpc = "discard" /\ vol_hout = Invalid /\ ToDiscard
    /\ disk' = IF Free(Part(vol_base, cursor)) THEN Without(Part(vol_base, cursor)) ELSE disk
    /\ held' = IF HeldForRead(Part(vol_base, cursor)) THEN held \cup {Part(vol_base, cursor)}
                                                      ELSE held
    /\ cursor' = cursor + 1
    /\ UNCHANGED <<whole, callVars, wpc, code, sent, todo, hloc, created, globalVars, fh, rd>>

DiscardDone ==
    /\ wpc = "discard" /\ vol_hout = Invalid /\ ~ToDiscard
    /\ wpc' = "done" /\ vol_split' = FALSE /\ vol_on' = FALSE
    /\ UNCHANGED <<diskVars, callVars, code, sent, todo, hloc, cursor, ownVars, vol_base,
                   vol_part, vol_limit, vol_fill, vol_hout, vol_toomany, fh, rd>>

\* do_pack has returned.
PackReturns ==
    /\ wpc = "done" /\ wpc' = "idle"
    /\ UNCHANGED <<diskVars, callVars, code, sent, todo, hloc, cursor, ownVars,
                   globalVars, fh, rd>>

\* The process is killed and started again: its globals are zero, its handles
\* closed, and the files are where they were.
Crash ==
    /\ wpc # "idle"
    /\ wpc' = "idle" /\ code' = "none"
    /\ named' = FALSE /\ sent' = 0 /\ todo' = 0 /\ hloc' = Invalid /\ cursor' = 0
    /\ created' = {} /\ held' = {} /\ est' = 0
    /\ vol_on' = FALSE /\ vol_split' = FALSE /\ vol_base' = NoBase /\ vol_part' = 0
    /\ vol_limit' = 0 /\ vol_fill' = 0 /\ vol_hout' = Invalid /\ vol_toomany' = FALSE
    /\ fh' = [h \in Handles |-> NoName]
    /\ rd' = [rd EXCEPT ![App] = NotAssembled]
    /\ UNCHANGED <<diskVars, out, runs>>

PackNext ==
    \/ \E b \in Bases, limit \in Limits : StartPack(b, limit)
    \/ PreflightRefuses \/ PreflightPasses \/ VolBegin
    \/ \E n \in Calls : VolCall(n)
    \/ VolWrite \/ VolRoll \/ PackFails
    \/ VolFinish \/ SettleOpen \/ SettleShift \/ SettleTruncate \/ Promote
    \/ Cleanup \/ DiscardOpens \/ DiscardPart \/ DiscardDone \/ PackReturns
    \/ Crash
=============================================================================

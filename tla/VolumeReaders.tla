---------------------------- MODULE VolumeReaders -----------------------------
(***************************************************************************)
(* The read side of src/src/volume.asm: vset_open, vs_assemble,            *)
(* vs_hdr_check, vol_get and vset_close, in the process that also writes   *)
(* and in others, while the writer of VolumeSet works on the same names.   *)
(*                                                                         *)
(* A set is assembled one part at a time.  What a reader relies on         *)
(* afterwards, that its table is one container and all of it, rests on     *)
(* the part numbers, the set_id, the final flag and the sharing mode       *)
(* together; none is enough.                                               *)
(***************************************************************************)
EXTENDS VolumeSet

\* vs_hdr_check, of the part that would be the idx'th: its number, and part
\* 1's set_id on every later one.
HdrCheck_anyset(c, idx, sid) == IsHdr(c) /\ c[2] = idx
HdrCheck(c, idx, sid) == IsHdr(c) /\ c[2] = idx /\ (idx > 1 => c[1] = sid)

\* Only the last part carries the flag, and nothing else ends a set.
IsFinal(c, more) == c[3]

-----------------------------------------------------------------------------

\* vset_open of any part of a set, none being open: its magic is read, the
\* base is taken from its name, and assembly starts at part 1.
VsetOpen(p, b) ==
    /\ rd[p].st = "closed" /\ (p = App => wpc = "idle")
    /\ \E i \in 1..MaxParts :
          /\ CanRead(Part(b, i))
          /\ disk[Part(b, i)] # <<>> /\ IsHdr(disk[Part(b, i)][1])
    /\ rd' = [rd EXCEPT ![p] = [NotAssembled EXCEPT !.st = "assembling", !.base = b]]
    /\ vol_base' = IF p = App THEN b ELSE vol_base
    /\ UNCHANGED <<diskVars, callVars, wpc, code, sent, todo, hloc, cursor, ownVars,
                   vol_on, vol_split, vol_part, vol_limit, vol_fill, vol_hout,
                   vol_toomany, fh>>

\* vs_assemble gives back every handle it took.
Refused(p) == rd' = [rd EXCEPT ![p] = NotAssembled]

\* vs_assemble's loop: the next part, or a refusal when it is missing, locked,
\* too short, not this set's, or one too many; a read may fail besides.
Assemble(p) ==
    /\ rd[p].st = "assembling"
    /\ LET i    == rd[p].idx + 1
           name == Part(rd[p].base, i)
           good == /\ i <= MaxParts /\ CanRead(name) /\ disk[name] # <<>>
                   /\ HdrCheck(disk[name][1], i, rd[p].sid)
           more == CanRead(Part(rd[p].base, i + 1))
           next == [rd[p] EXCEPT !.idx = i, !.sid = disk[name][1][1]] IN
       \/ Refused(p)
       \/ /\ good /\ IsFinal(disk[name][1], more)
          /\ rd' = [rd EXCEPT ![p] = [next EXCEPT !.st = "on", !.refs = 1,
                                                  !.users[next.base] = 1]]
       \/ /\ good /\ ~IsFinal(disk[name][1], more)
          /\ rd' = [rd EXCEPT ![p] = next]
    /\ UNCHANGED <<diskVars, callVars, wpc, code, sent, todo, hloc, cursor, ownVars,
                   globalVars, fh>>

\* A second vset_open joins the open set when it names a part of that set.
Joins_any(p, b) == TRUE
Joins(p, b) == b = IF p = App THEN vol_base ELSE rd[p].base

VsetJoin(p, b) ==
    /\ rd[p].st = "on" /\ rd[p].refs < MaxRefs
    /\ Joins(p, b)
    /\ rd' = [rd EXCEPT ![p].refs = @ + 1, ![p].users[b] = @ + 1]
    /\ UNCHANGED <<diskVars, callVars, wpc, code, sent, todo, hloc, cursor, ownVars,
                   globalVars, fh>>

\* vset_close by one of the users: the last release closes the parts.
LastRelease(refs) == refs <= 0

VsetClose(p, b) ==
    /\ rd[p].st = "on" /\ rd[p].users[b] > 0
    /\ LET left == rd[p].refs - 1
           rest == [rd[p].users EXCEPT ![b] = @ - 1] IN
       rd' = [rd EXCEPT ![p] =
                IF LastRelease(left) THEN [NotAssembled EXCEPT !.users = rest]
                                     ELSE [@ EXCEPT !.refs = left, !.users = rest]]
    /\ UNCHANGED <<diskVars, callVars, wpc, code, sent, todo, hloc, cursor, ownVars,
                   globalVars, fh>>

ReadNext == \E p \in Procs :
    \/ Assemble(p)
    \/ \E b \in Bases : VsetOpen(p, b) \/ VsetJoin(p, b) \/ VsetClose(p, b)

Next == PackNext \/ ReadNext
Spec == Init /\ [][Next]_vars

-----------------------------------------------------------------------------
(* vol_get over an assembled table. *)

Slice(p, i) == Tail(disk[Part(rd[p].base, i)])

\* Each part of the table begins where the one before it ends.
Start(p, i) ==
    LET start[k \in 1..i] == IF k = 1 THEN 0 ELSE start[k - 1] + Len(Slice(p, k - 1))
    IN start[i]

\* The parts that hold a logical offset, and the first of them.
Holds_past(p, i, o) == Start(p, i) <= o /\ o <= Start(p, i) + Len(Slice(p, i))
Holds(p, i, o) == Start(p, i) <= o /\ o < Start(p, i) + Len(Slice(p, i))
Holder(p, o) == CHOOSE i \in 1..rd[p].idx :
                    Holds(p, i, o) /\ \A j \in 1..(i - 1) : ~Holds(p, j, o)

\* How much of a request that ends at end part i has, from o on, and its bytes.
Available(p, i, o, end) == Least(Start(p, i) + Len(Slice(p, i)) - o, end - o)
Given(p, i, o, n) == SubSeq(Slice(p, i), o - Start(p, i) + 1, o - Start(p, i) + n)

\* vol_get's loop: the first part that holds the offset gives what it has, and
\* the rest of the request goes round again.  An offset no part holds ends it.
VolGet(p, off, len) ==
    LET end == off + len
        get[o \in 0..end] ==
          LET i == Holder(p, o)
              n == Available(p, i, o, end) IN
          IF o = end \/ (\A j \in 1..rd[p].idx : ~Holds(p, j, o)) \/ n = 0 THEN <<>>
          ELSE Given(p, i, o, n) \o get[o + n]
    IN get[off]

-----------------------------------------------------------------------------
(* Properties. *)

\* The whole set as one file.
Joined(p) == FlattenSeq([i \in 1..rd[p].idx |-> Slice(p, i)])

States == {"idle", "preflight", "begin", "writing", "settle", "shift", "promote",
           "rename", "cleanup", "discard", "done"}
Cells == ((1..MaxRuns) \X (1..MaxStream))
            \cup ((1..MaxRuns) \X (1..(MaxParts + 1)) \X BOOLEAN)

\* The variables have their types; the part being written is not filled past the
\* limit.
TypeOK ==
    /\ DOMAIN disk \subseteq Names
    /\ \A f \in DOMAIN disk : \A k \in 1..Len(disk[f]) : disk[f][k] \in Cells
    /\ runs \in 0..MaxRuns /\ DOMAIN whole \subseteq 1..runs
    /\ wpc \in States /\ out \in Bases
    /\ code \in {"none", "ok", "failed", "toomany"}
    /\ est \in 0..MaxStream /\ sent \in 0..est /\ todo \in 0..(est - sent)
    /\ vol_fill \in Nat /\ (wpc = "writing" /\ vol_limit > 0 => vol_fill <= vol_limit)
    /\ vol_part \in 0..(MaxParts + 1) /\ vol_base \in Bases \cup {NoBase}
    /\ vol_hout \in Handles \cup {Invalid} /\ hloc \in Handles \cup {Invalid}
    /\ \A h \in Handles : fh[h] \in Names \cup {NoName}
    /\ \A p \in Procs : rd[p].st \in {"closed", "assembling", "on"}
                        /\ rd[p].idx \in 0..MaxParts /\ rd[p].refs \in 0..MaxRefs

\* An open set is one container, from its first byte to its last: no part of
\* another run, no hole, no missing tail, whatever crashed, failed or was left
\* behind under the same names, and whatever the writer does meanwhile.
OpenSetIsOneContainer ==
    \A p \in Procs : rd[p].st = "on" =>
        rd[p].sid \in DOMAIN whole /\ Joined(p) = Container(rd[p].sid)

\* Reads of an open set return the container's bytes, across every cut.
VolGetIsTheContainer ==
    \A p \in Procs : rd[p].st = "on" =>
        \A o \in 0..(whole[rd[p].sid] - 1) :
            \A n \in 1..(whole[rd[p].sid] - o) :
                VolGet(p, o, n) = Bytes(rd[p].sid, o, n)

\* The users of a set are the ones counted, all of them asked for it, and none
\* is left with a table that has been closed.
UsersHoldTheirSet ==
    \A p \in Procs :
        /\ rd[p].st # "on" => \A b \in Bases : rd[p].users[b] = 0
        /\ rd[p].st = "on" => \A b \in Bases :
              rd[p].users[b] = IF b = rd[p].base THEN rd[p].refs ELSE 0

\* What vs_assemble makes of the parts on the disk, were it run undisturbed.
Assembles(b) == \E n \in 1..MaxParts :
    /\ \A i \in 1..n : /\ Part(b, i) \in DOMAIN disk /\ disk[Part(b, i)] # <<>>
                       /\ HdrCheck(disk[Part(b, i)][1], i, runs)
                       /\ disk[Part(b, i)][1][1] = runs
                       /\ disk[Part(b, i)][1][3] = (i = n)
    /\ FlattenSeq([i \in 1..n |-> Tail(disk[Part(b, i)])]) = Container(runs)

\* A pack that reports success left a container its readers accept: the plain
\* file, whole, or a set that assembles.
SuccessIsReadable ==
    (wpc = "done" /\ code = "ok") =>
        \/ Assembles(out)
        \/ Plain(out) \in DOMAIN disk /\ disk[Plain(out)] = Container(runs)

\* A pack that failed leaves nothing of its container behind, in any file, save
\* in a part that another process was holding open.
FailureLeavesNothing ==
    (wpc = "done" /\ code # "ok") =>
        \A f \in DOMAIN disk :
            (\E k \in 1..Len(disk[f]) : disk[f][k][1] = runs) => f \in held

\* A file under the plain name only ever changes into a whole container: a
\* partial one never appears there, and a failed pack leaves the old one.
PlainChangesOnlyToWhole ==
    [][\A b \in Bases :
         Plain(b) \in DOMAIN disk' /\ (Plain(b) \in DOMAIN disk => disk'[Plain(b)] # disk[Plain(b)])
            => runs \in DOMAIN whole /\ disk'[Plain(b)] = Container(runs)]_vars

\* vol_discard deletes parts of the set this run was writing and no other:
\* "it cannot touch an unrelated set: the names come from the base path this
\* run was given".
DiscardStaysOnItsBase ==
    [][wpc = "discard" =>
         \A f \in DOMAIN disk \ DOMAIN disk' : \E i \in 1..MaxParts : f = Part(out, i)]_vars
=============================================================================

----------------------------- MODULE Extraction -----------------------------
(***************************************************************************)
(* What an extraction does to the destination folder: do_unpack's loop     *)
(* over the inventory and unpack_entry, from the temporary sibling to the  *)
(* rename (src/src/pack.asm), with file_rename's treatment of a name that  *)
(* already exists (src/src/fileio.asm).  The process may be killed and the *)
(* machine may lose power between any two steps, and another extraction    *)
(* may follow into the same folder.                                        *)
(*                                                                         *)
(* Bytes are abstracted to what they are bytes of: a file the user had,    *)
(* part of an entry, a whole entry whose tag has matched, or the zeros a   *)
(* power cut leaves where data had not reached the disk.  The decoder is   *)
(* abstracted to its verdict: an entry is sound or it is not.              *)
(***************************************************************************)
EXTENDS Naturals, Sequences, FiniteSets

CONSTANTS Order,        \* the inventory's names, in its order
          Suffixes,     \* what the eight random digits of a temporary can be
          Chunks,       \* how many chunks of content an entry may hold
          MaxRuns,      \* bound: extractions in a behaviour
          MaxCrashes    \* bound: kills and power cuts in a behaviour

\* The digits are not one of the two names that are not random.
ASSUME ExtractionAssumption ==
    /\ Order \in Seq(STRING) /\ Order # <<>>
    /\ Suffixes \cap {"itself", "part"} = {}
    /\ Chunks \subseteq Nat /\ 0 \in Chunks
    /\ MaxRuns \in Nat /\ MaxCrashes \in Nat

Names == {Order[i] : i \in 1..Len(Order)}
Real(n) == <<n, "itself">>               \* the name the user asked for
Reals == {Real(n) : n \in Names}
Temps == Names \X Suffixes               \* make_temp_sibling
Part  == <<Order[1], "part">>            \* bare_part_path
Paths == Reals \cup Temps \cup {Part}

Nothing == [is |-> "none", lasting |-> FALSE]
OldFile == [is |-> "old",  lasting |-> TRUE]
Folder  == [is |-> "dir",  lasting |-> TRUE]
Begun   == [is |-> "part", lasting |-> FALSE]
Zeros   == [is |-> "zeros", lasting |-> TRUE]
Entry(lasting) == [is |-> "entry", lasting |-> lasting]
Contents == {Nothing, OldFile, Folder, Begun, Zeros, Entry(TRUE), Entry(FALSE)}

\* record: whether the entry's record in the table can be followed at all.  The
\* table is authentic, but a future version may have written a record that runs
\* off it ("table"), or one whose extent is no part of the payload ("extent").
Entries == [dir : BOOLEAN, chunks : Chunks, sound : BOOLEAN, safe : BOOLEAN,
            record : {"fits", "table", "extent"}]

\* Nothing else is read of an entry whose record does not fit.
Possible(e) == /\ e.dir => e.chunks = 0
               /\ e.record # "fits" => e.chunks = 0 /\ ~e.dir /\ e.sound /\ e.safe

VARIABLES
    disk,       \* what each path names; lasting: the data has reached the disk
    entry,      \* the container: one entry for each name
    held,       \* paths another program keeps open, which no rename replaces
    pc,         \* where do_unpack and unpack_entry are
    mode,       \* archive / bare (a single-file container) / verify
    picked,     \* the entries asked for
    at,         \* the entry being looked at, an index into Order
    left,       \* chunks of it still to come ([rbp-48])
    out,        \* the file being written: a path, or NoOut (hout INVALID)
    written,    \* entries written out ([rbp-104])
    partial,    \* g_unpack_partial
    code,       \* do_unpack's answer
    strays,     \* temporaries that were there before this run
    runs, crashes

run  == <<pc, mode, picked, at, left, out, written, partial, code, strays>>
vars == <<disk, entry, held, run, runs, crashes>>

NoOut == <<>>
Name  == Order[at]
E     == entry[Name]
Last  == IF mode = "bare" THEN 1 ELSE Len(Order)
Exists(path) == disk[path].is # "none"

Init ==
    /\ entry \in [Names -> {e \in Entries : Possible(e)}]
    /\ disk \in {[p \in Paths |-> IF p \in Reals THEN f[p] ELSE Nothing] :
                    f \in [Reals -> {Nothing, OldFile, Folder}]}
    /\ held \in {{}, {p \in Reals : disk[p] = OldFile}}
    /\ pc = "idle" /\ mode = "archive" /\ picked = {}
    /\ at = 1 /\ left = 0 /\ out = NoOut
    /\ written = 0 /\ partial = FALSE /\ code = "none" /\ strays = {}
    /\ runs = 0 /\ crashes = 0

\* do_unpack up to its loop: the globals of the last run are cleared, the
\* container is opened, its inventory authenticated, the disk weighed.  A
\* single-file container holds one entry and has no selection.
Begin(m, some) ==
    /\ pc = "idle" /\ runs < MaxRuns
    /\ m = "bare" => ~entry[Order[1]].dir /\ some = {Order[1]}
    /\ pc' = "entry" /\ mode' = m /\ picked' = some
    /\ at' = 1 /\ left' = 0 /\ out' = NoOut
    /\ written' = 0 /\ partial' = FALSE /\ code' = "none"
    /\ strays' = {p \in Paths \ Reals : Exists(p)}
    /\ runs' = runs + 1
    /\ UNCHANGED <<disk, entry, held, crashes>>

End(c) ==
    /\ pc' = "idle" /\ code' = c
    /\ UNCHANGED <<mode, picked, strays, entry, held, runs, crashes>>

\* du_auth, du_corrupt, du_nospace, du_vsfail, du_io, du_oom: before the loop
Refuse ==
    /\ pc = "entry" /\ at = 1
    /\ \E c \in {"auth", "corrupt", "nospace", "unsupported", "io", "oom"} : End(c)
    /\ UNCHANGED <<disk, at, left, out, written, partial>>

\* ue_fail, then du_entry_err and du_partial: our own file goes - the sibling,
\* or the .part - and what is already on the disk is said
Discarded_part(d) == IF out = Part THEN [d EXCEPT ![out] = Nothing] ELSE d  \* mutant
Says_late         == partial \/ (mode # "verify" /\ written > 1)              \* mutant
Discarded(d) == IF out = NoOut THEN d ELSE [d EXCEPT ![out] = Nothing]
Says         == partial \/ (mode # "verify" /\ written > 0)

Fail(c) ==
    /\ disk' = Discarded(disk)
    /\ out' = NoOut
    /\ partial' = Says
    /\ UNCHANGED <<at, left, written>>
    /\ End(c)

\* du_corrupt from inside the loop: the record runs off the table, which is
\* looked at before the selection is, or the extent of a picked entry is not in
\* the payload.  Entries may be out already; g_unpack_partial stays clear.  (An
\* extent whose end overflows fails fast instead, which is Killed.)
Misfit ==
    /\ pc = "entry" /\ at <= Last
    /\ E.record = "table" \/ (E.record = "extent" /\ Name \in picked)
    /\ End("corrupt")
    /\ UNCHANGED <<disk, at, left, out, written, partial>>

Skip ==
    /\ pc = "entry" /\ at <= Last
    /\ Name \notin picked /\ E.record # "table"
    /\ at' = at + 1
    /\ UNCHANGED <<disk, entry, held, pc, mode, picked, left, out, written,
                   partial, code, strays, runs, crashes>>

\* The next entry was asked for and its record can be followed.
Wanted == pc = "entry" /\ at <= Last /\ Name \in picked /\ E.record = "fits"

\* unpack_entry down to ue_stream, for the three places bytes may go.  The
\* guard on the way in may meet a link, whose refusal has its own code.
Streaming(path) ==
    /\ pc' = "stream" /\ left' = E.chunks /\ out' = path
    /\ UNCHANGED <<entry, held, mode, picked, at, written, partial, code,
                   strays, runs, crashes>>

OpenVerify ==
    /\ Wanted /\ mode = "verify"
    /\ Streaming(NoOut) /\ UNCHANGED disk

OpenBare ==
    /\ Wanted /\ mode = "bare"
    /\ \/ Streaming(Part) /\ disk' = [disk EXCEPT ![Part] = Begun]
       \/ Fail("io")

OpenFolder ==
    /\ Wanted /\ mode = "archive"
    /\ E.dir /\ E.safe
    /\ \/ /\ Streaming(NoOut)
          /\ disk' = IF Exists(Real(Name)) THEN disk
                   ELSE [disk EXCEPT ![Real(Name)] = Folder]
       \/ Fail("unsupported")

\* make_temp_sibling and file_open_new: CREATE_NEW fails when the name is taken
OpenSibling(s) ==
    /\ Wanted /\ mode = "archive"
    /\ ~E.dir /\ E.safe
    /\ \/ /\ ~Exists(<<Name, s>>)
          /\ Streaming(<<Name, s>>)
          /\ disk' = [disk EXCEPT ![<<Name, s>>] = Begun]
       \/ Exists(<<Name, s>>) /\ Fail("io")
       \/ Fail("unsupported")

\* entry_path refuses a name: EXIT_UNSUPPORTED, which becomes EXIT_CORRUPT
OpenUnsafe ==
    /\ Wanted /\ mode = "archive"
    /\ ~E.safe
    /\ Fail("corrupt")

\* One turn of ue_loop: the decoder's bytes, the write, then progress_add, which
\* says whether the user has cancelled - after the last chunk too.  The tag is
\* checked with the last bytes; a frame that does not decode fails before.
Consume ==
    /\ pc = "stream" /\ left > 0
    /\ \/ ~E.sound /\ \E c \in {"auth", "corrupt"} : Fail(c)
       \/ Fail("io")
       \/ Fail("cancelled")
       \/ /\ left > 1 \/ E.sound
          /\ left' = left - 1
          /\ pc' = IF left = 1 THEN "close" ELSE "stream"
          /\ UNCHANGED <<disk, entry, held, mode, picked, at, out, written,
                         partial, code, strays, runs, crashes>>

\* ue_empty: an empty file or a directory is still authenticated
ConsumeEmpty ==
    /\ pc = "stream" /\ left = 0
    /\ \/ ~E.sound /\ Fail("auth")
       \/ Fail("io")
       \/ /\ E.sound
          /\ pc' = "close"
          /\ UNCHANGED <<disk, entry, held, mode, picked, at, left, out,
                         written, partial, code, strays, runs, crashes>>

\* mutant: the cursor moves twice
Counted_twice(d) ==
    /\ disk' = d /\ out' = NoOut
    /\ written' = written + 1 /\ at' = at + 2
    /\ pc' = "entry"
    /\ UNCHANGED <<entry, held, mode, picked, left, partial, code, strays,
                   runs, crashes>>

\* the entry is out: do_unpack counts it and goes to the next
Counted(d) ==
    /\ disk' = d /\ out' = NoOut
    /\ written' = written + 1 /\ at' = at + 1
    /\ pc' = "entry"
    /\ UNCHANGED <<entry, held, mode, picked, left, partial, code, strays,
                   runs, crashes>>

\* ue_close when nothing is to be renamed: verify, a directory, the .part
Close ==
    /\ pc = "close" /\ out \notin Temps
    /\ Counted(IF out = NoOut THEN disk ELSE [disk EXCEPT ![out] = Entry(FALSE)])

\* file_rename: the bytes of `from` take the name `to`.  Where `to` exists they
\* are flushed first.  (Best effort: nobody else is taken to hold `from` open.)
FlushFirst_never(to) == FALSE                       \* mutant
FlushFirst(to)       == Exists(to)

Renamed(from, to, flushed) ==
    [disk EXCEPT ![from] = Nothing, ![to] = Entry(flushed)]

CanRename(to) == to \notin held /\ disk[to] # Folder

\* ue_close, commit_temp: only now does the entry take its real name
Commit ==
    /\ pc = "close" /\ out \in Temps
    /\ \/ CanRename(Real(Name))
          /\ Counted(Renamed(out, Real(Name), FlushFirst(Real(Name))))
       \/ Fail("io")

\* du_entries_done: a single file's .part becomes the file; a failure there
\* takes the .part away and is not a partial extraction
Finish ==
    /\ pc = "entry" /\ at > Last
    /\ UNCHANGED <<at, left, out, written, partial>>
    /\ \/ mode # "bare" /\ End("ok") /\ UNCHANGED disk
       \/ /\ mode = "bare" /\ CanRename(Real(Order[1]))
          /\ disk' = Renamed(Part, Real(Order[1]), FlushFirst(Real(Order[1])))
          /\ End("ok")
       \/ /\ mode = "bare"
          /\ disk' = [disk EXCEPT ![Part] = Nothing]
          /\ End("io")

-----------------------------------------------------------------------------
(* The world: data reaches the disk when the system gets to it; the process *)
(* is killed, or the machine loses power and data not yet written are lost. *)

LazyWrite(p) ==
    /\ disk[p] = Entry(FALSE)
    /\ disk' = [disk EXCEPT ![p] = Entry(TRUE)]
    /\ UNCHANGED <<entry, held, run, runs, crashes>>

Gone ==
    /\ pc # "idle" /\ crashes < MaxCrashes
    /\ crashes' = crashes + 1
    /\ pc' = "idle" /\ out' = NoOut /\ left' = 0 /\ code' = "none"
    /\ written' = 0 /\ partial' = FALSE
    /\ UNCHANGED <<entry, held, mode, picked, at, strays, runs>>

Killed == Gone /\ UNCHANGED disk

PowerCut ==
    /\ Gone
    /\ \E lost \in SUBSET {p \in Paths : disk[p].is \in {"part", "entry"} /\ ~disk[p].lasting} :
          disk' = [p \in Paths |-> IF p \in lost THEN Zeros ELSE disk[p]]

Next ==
    \/ \E m \in {"archive", "bare", "verify"}, some \in SUBSET Names : Begin(m, some)
    \/ Refuse \/ Misfit \/ Skip
    \/ OpenVerify \/ OpenBare \/ OpenFolder \/ OpenUnsafe
    \/ \E s \in Suffixes : OpenSibling(s)
    \/ Consume \/ ConsumeEmpty \/ Close \/ Commit \/ Finish
    \/ \E p \in Paths : LazyWrite(p)
    \/ Killed \/ PowerCut

Spec == Init /\ [][Next]_vars

-----------------------------------------------------------------------------
(* Type correctness: the disk, the container and do_unpack's locals.        *)
TypeOK ==
    /\ disk \in [Paths -> Contents]
    /\ entry \in [Names -> Entries]
    /\ held \subseteq Reals
    /\ pc \in {"idle", "entry", "stream", "close"}
    /\ mode \in {"archive", "bare", "verify"}
    /\ picked \subseteq Names
    /\ at \in 1..(Len(Order) + 1)
    /\ left \in Nat
    /\ out \in Temps \cup {Part, NoOut}
    /\ written \in 0..Len(Order)
    /\ partial \in BOOLEAN
    /\ code \in {"none", "ok", "auth", "corrupt", "nospace", "unsupported",
                 "io", "oom", "cancelled"}
    /\ strays \subseteq Paths \ Reals
    /\ runs \in 0..MaxRuns /\ crashes \in 0..MaxCrashes

-----------------------------------------------------------------------------
(* A name in the destination goes, in one step, from what the user had there *)
(* - or nothing - to a whole entry whose tag has matched, never through a    *)
(* fragment; and a name whose data are on the disk keeps data on the disk,   *)
(* so a power cut loses no file that was there before (unpack_entry,         *)
(* commit_temp, file_rename; docs/SECURITY.md, "only with a verified file"). *)
OldToWhole(n) ==
    LET was == disk[Real(n)]
        is  == disk'[Real(n)] IN
    is # was =>
        /\ was.lasting => is.lasting /\ is.is = "entry" /\ entry[n].sound
        /\ is.is = "entry" => entry[n].sound
        /\ is.is = "zeros" => ~was.lasting /\ crashes' > crashes
        /\ is.is \in {"entry", "zeros", "dir"}
NamesGoFromOldToWhole == [][\A n \in Names : OldToWhole(n)]_vars

(* An extraction that ends by itself - finished, failed, cancelled - leaves  *)
(* no temporary and no .part that it made: only what an earlier, killed run  *)
(* left there may remain (ue_fail, du_partfail).                             *)
NothingOfOursLeft ==
    pc = "idle" /\ code # "none" =>
        \A p \in Paths \ Reals : Exists(p) => p \in strays

(* A run that answers OK has put every file it was asked for under its name, *)
(* and one that failed after the first entry was out says that the set is    *)
(* short (g_unpack_partial, du_partial) - with one exception, which is the   *)
(* code's: a run that stops at a record it cannot follow (du_corrupt at      *)
(* pack.asm 4639, 4645, 4669 and 4676) says that the container is corrupt    *)
(* and not that part of it is already out.                                   *)
ShortSetIsSaid ==
    pc = "idle" /\ mode = "archive" /\ code # "none" =>
        LET files == {n \in picked : ~entry[n].dir}
            there == {n \in files : disk[Real(n)].is = "entry"} IN
        /\ code = "ok" => there = files /\ ~partial
        /\ code # "ok" /\ runs = 1 /\ there # {} =>
              partial \/ (code = "corrupt" /\ at <= Last /\ E.record # "fits")
=============================================================================

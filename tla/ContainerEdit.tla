----------------------------- MODULE ContainerEdit -----------------------------
(***************************************************************************)
(* Adding to and removing from a container: do_add, do_delete and          *)
(* do_remove_marked of src/src/pack.asm, which end in native_rewrite.      *)
(*                                                                         *)
(* The inventory is read and authenticated (idx_read), the file closed,    *)
(* the user asked; then the source is opened again so that nobody writes   *)
(* it, checked to be the container that was read, re-encrypted entry by    *)
(* entry into a random sibling under a fresh key, flushed, and exchanged   *)
(* for the source by ReplaceFileW while the source is still held.  Several *)
(* processes do this to one file, any of which may be cancelled, killed or *)
(* lose the power; packs overwrite the file and users put old copies back. *)
(*                                                                         *)
(* A file is named by the number of its creation, and the names on disk    *)
(* are one container's and the random ones of the temporaries.             *)
(***************************************************************************)
EXTENDS Naturals, Sequences, SequencesExt, FiniteSets

CONSTANTS
    Procs,      \* processes that edit the container
    Entries,    \* names of entries
    Starts,     \* what the container may hold at the start: sequences of names
    Packed,     \* what another pack puts under the name
    Adds,       \* what an add may be asked for: sequences of names
    Removes,    \* what a removal may be asked for: sets of names, a name being the
                \* entries it stands for (a directory takes its contents)
    MaxFiles    \* bound: containers ever written

ASSUME EditAssumption ==
    /\ Starts \subseteq Seq(Entries) /\ Packed \in Seq(Entries)
    /\ Adds \subseteq Seq(Entries) /\ Removes \subseteq SUBSET SUBSET Entries
    /\ MaxFiles \in Nat \ {0}

\* EXIT_IO stands for EXIT_OOM and EXIT_NOSPACE too.
EXIT_OK        == 0
EXIT_USAGE     == 1
EXIT_IO        == 2
EXIT_CORRUPT   == 4
EXIT_PARTIAL   == 10
EXIT_CANCELLED == 11

VARIABLES
    files,   \* the files ever created: key, the entries sealed in order, whether
             \* the inventory is on the end, and whether the data is on the disk
    at,      \* the file under the container's name; 0 is none
    temps,   \* files under temporary names
    used,    \* every stream ever sealed: its key, its ordinal, its file
    edits,   \* edits committed
    kept,    \* files left aside by a failed commit, as they were announced
    pc,      \* per process: where it is, idle between commands
    op,      \* what it was asked
    snap,    \* the file whose inventory idx_read authenticated
    rd,      \* the file it holds for reading, 0 for none
    src,     \* the file it holds as rewrite source, 0 for none
    tmp,     \* g_temppath: its temporary, while it owns it ([rbp-392])
    cur,     \* entries, then inputs, handled so far
    abort,   \* g_prog_abort
    res      \* the exit code of its last command

fileVars == <<files, at, temps, used, edits, kept>>
procVars == <<pc, op, snap, rd, src, tmp, cur, abort, res>>
vars == <<fileVars, procVars>>

Ops == [kind : {"add"}, names : Adds] \cup [kind : {"remove"}, names : Removes]
None == [kind |-> "none", names |-> {}]

-----------------------------------------------------------------------------
(* The file system's sharing rules, for the modes the code opens with. *)

\* GENERIC_READ, sharing reads (file_open_read): not while a source is held.
CanOpenRead(f) == f # 0 /\ \A q \in Procs : src[q] # f

\* GENERIC_READ|GENERIC_WRITE, sharing reads and deletes
\* (file_open_rewrite_source): nobody else may have the file open.
CanOpenSource_shared(f) == f # 0 /\ \A q \in Procs : rd[q] # f
CanOpenSource(f) == f # 0 /\ \A q \in Procs : src[q] # f /\ rd[q] # f

\* A rename over an open file is refused, and so is ReplaceFileW over one whose
\* holder does not share deletes.
Unheld(f)      == \A q \in Procs : src[q] # f /\ rd[q] # f
Replaceable(f) == f # 0 /\ \A q \in Procs : rd[q] # f

-----------------------------------------------------------------------------

NewFile(key, entries) == [key |-> key, entries |-> entries, whole |-> FALSE, flushed |-> FALSE]

\* The streams of a finished container; an empty one has one it does not list.
Sealed(f, entries) == {<<f, n, f>> : n \in 0..(IF entries = <<>> THEN 0 ELSE Len(entries) - 1)}

Init ==
    /\ \E entries \in Starts :
          /\ files = <<[key |-> 1, entries |-> entries, whole |-> TRUE, flushed |-> TRUE]>>
          /\ used = Sealed(1, entries)
    /\ at = 1 /\ temps = {}
    /\ edits = 0 /\ kept = {}
    /\ pc = [p \in Procs |-> "idle"] /\ op = [p \in Procs |-> None]
    /\ snap = [p \in Procs |-> 0] /\ rd = [p \in Procs |-> 0] /\ src = [p \in Procs |-> 0]
    /\ tmp = [p \in Procs |-> 0]
    /\ cur = [p \in Procs |-> 0] /\ abort = [p \in Procs |-> FALSE]
    /\ res = [p \in Procs |-> EXIT_OK]

Goto(p, l) == pc' = [pc EXCEPT ![p] = l]

\* nr_cleanup, or an exit before it: the handles are closed, the temporaries in
\* gone leave the names they had, and the code is reported.
Close(p, code, gone) ==
    /\ Goto(p, "idle")
    /\ res' = [res EXCEPT ![p] = code]
    /\ temps' = temps \ gone
    /\ rd' = [rd EXCEPT ![p] = 0] /\ src' = [src EXCEPT ![p] = 0]
    /\ tmp' = [tmp EXCEPT ![p] = 0] /\ snap' = [snap EXCEPT ![p] = 0]
    /\ op' = [op EXCEPT ![p] = None] /\ cur' = [cur EXCEPT ![p] = 0]
    /\ abort' = [abort EXCEPT ![p] = FALSE]

\* Before the commit the temporary is this operation's, and is deleted.
Leave(p, code) == Close(p, code, {tmp[p]})

\* An error before anything is written, or a cancel in its place.
Fail(p, code) ==
    /\ Leave(p, IF abort[p] THEN EXIT_CANCELLED ELSE code)
    /\ UNCHANGED <<files, at, used, edits, kept>>

-----------------------------------------------------------------------------
(* idx_read, and what its caller does with the inventory.  None of it looks  *)
(* at g_prog_abort.                                                          *)

Refuse(p, code) == Leave(p, code) /\ UNCHANGED <<files, at, used, edits, kept>>

Begin(p, o) ==
    /\ pc[p] = "idle"
    /\ Goto(p, "open") /\ op' = [op EXCEPT ![p] = o]
    /\ abort' = [abort EXCEPT ![p] = FALSE]       \* enter_running
    /\ res' = [res EXCEPT ![p] = EXIT_OK]
    /\ UNCHANGED <<fileVars, snap, rd, src, tmp, cur>>

\* vset_open of a plain container.
IdxOpen(p) ==
    /\ pc[p] = "open"
    /\ \/ /\ CanOpenRead(at)
          /\ rd' = [rd EXCEPT ![p] = at] /\ Goto(p, "read")
          /\ UNCHANGED <<fileVars, op, snap, src, tmp, cur, abort, res>>
       \/ Refuse(p, EXIT_IO)

\* The inventory is authenticated and the file closed.  One name of a removal
\* that stands for no entry refuses the whole of it.
Found(o, names) == o.kind = "remove" => \A n \in o.names : n \cap names # {}

IdxRead(p) ==
    /\ pc[p] = "read"
    /\ LET f == files[rd[p]] IN
       \/ /\ f.whole /\ Found(op[p], ToSet(f.entries))
          /\ snap' = [snap EXCEPT ![p] = rd[p]] /\ rd' = [rd EXCEPT ![p] = 0]
          /\ Goto(p, "lock")
          /\ UNCHANGED <<fileVars, op, src, tmp, cur, abort, res>>
       \/ f.whole /\ ~Found(op[p], ToSet(f.entries)) /\ Refuse(p, EXIT_USAGE)
       \/ Refuse(p, EXIT_CORRUPT)

-----------------------------------------------------------------------------
(* native_rewrite, up to its temporary. *)

\* es_new_edit.
Lock(p) ==
    /\ pc[p] = "lock"
    /\ \/ /\ CanOpenSource(at)
          /\ src' = [src EXCEPT ![p] = at] /\ Goto(p, "verify")
          /\ UNCHANGED <<fileVars, op, snap, rd, tmp, cur, abort, res>>
       \/ Refuse(p, EXIT_IO)

\* The header and the last 48 bytes, against the ones idx_read left behind.
Unchanged_trusted(f, g) == TRUE
Unchanged(f, g) == f = g

\* A name the container has, or two inputs of one name.
NameClash(o, entries) ==
    o.kind = "add" /\ (~IsInjective(o.names) \/ ToSet(o.names) \cap ToSet(entries) # {})

Verify(p) ==
    /\ pc[p] = "verify"
    /\ LET same  == Unchanged(files[src[p]], files[snap[p]])
           clash == NameClash(op[p], files[snap[p]].entries) IN
       \/ /\ same /\ ~clash /\ Goto(p, "create")
          /\ UNCHANGED <<fileVars, op, snap, rd, src, tmp, cur, abort, res>>
       \/ ~same /\ Refuse(p, EXIT_CORRUPT)
       \/ same /\ clash /\ Refuse(p, EXIT_USAGE)
       \/ same /\ Refuse(p, EXIT_IO)               \* sizes, space, randomness

\* The key a rewrite seals under: a salt drawn for this file alone.
FreshKey_kept(p) == files[src[p]].key
FreshKey(p) == Len(files) + 1

\* The last look at g_prog_abort before the salt, then CREATE_NEW and the header.
CreateTemp(p) ==
    /\ pc[p] = "create"
    /\ \/ /\ ~abort[p] /\ Len(files) < MaxFiles
          /\ files' = Append(files, NewFile(FreshKey(p), <<>>))
          /\ temps' = temps \cup {Len(files) + 1}
          /\ tmp' = [tmp EXCEPT ![p] = Len(files) + 1]
          /\ Goto(p, "entries")
          /\ UNCHANGED <<at, used, edits, kept, op, snap, rd, src, cur, abort, res>>
       \/ Fail(p, EXIT_IO)

-----------------------------------------------------------------------------
(* The replacement's entries. *)

\* entry_begin .. idx_add: the next ordinal of the temporary's key.
Stream(p) == <<files[tmp[p]].key, Len(files[tmp[p]].entries), tmp[p]>>

Seal(p, name) ==
    /\ files' = [files EXCEPT ![tmp[p]].entries = Append(@, name)]
    /\ used' = used \cup {Stream(p)}

\* An entry given up half way: its stream was opened, and is not listed.
GiveUp(p, code) ==
    /\ Leave(p, IF abort[p] THEN EXIT_CANCELLED ELSE code)
    /\ used' = used \cup {Stream(p)} /\ UNCHANGED <<files, at, edits, kept>>

Dropped(p, name) == op[p].kind = "remove" /\ name \in UNION op[p].names

\* The source's streams authenticate under the key idx_read derived.
Decodes(p) == files[src[p]].key = files[snap[p]].key

\* One entry of the source is decoded and authenticated; a survivor is sealed
\* again, a removed one goes no further.
CopyEntry(p) ==
    /\ pc[p] = "entries" /\ cur[p] < Len(files[snap[p]].entries)
    /\ LET name == files[snap[p]].entries[cur[p] + 1]
           code == IF Decodes(p) THEN EXIT_IO ELSE EXIT_CORRUPT IN
       \/ /\ ~abort[p] /\ Decodes(p)
          /\ IF Dropped(p, name) THEN UNCHANGED <<files, used>> ELSE Seal(p, name)
          /\ cur' = [cur EXCEPT ![p] = @ + 1]
          /\ UNCHANGED <<at, temps, edits, kept, pc, op, snap, rd, src, tmp, abort, res>>
       \/ (abort[p] \/ Dropped(p, name)) /\ Fail(p, code)
       \/ ~Dropped(p, name) /\ GiveUp(p, code)

\* The inputs are counted from the first.
FirstInput_not(p) == cur[p]
FirstInput(p) == 0

EntriesDone(p) ==
    /\ pc[p] = "entries" /\ cur[p] = Len(files[snap[p]].entries)
    /\ \/ /\ ~abort[p] /\ Goto(p, "inputs")
          /\ cur' = [cur EXCEPT ![p] = FirstInput(p)]
          /\ UNCHANGED <<fileVars, op, snap, rd, src, tmp, abort, res>>
       \/ abort[p] /\ Refuse(p, EXIT_CANCELLED)

Inputs(o) == IF o.kind = "add" THEN o.names ELSE <<>>

\* pack_input_top of one input; a cancel is seen after it, or half way.
AddInput(p) ==
    /\ pc[p] = "inputs" /\ cur[p] < Len(Inputs(op[p]))
    /\ \/ /\ ~abort[p] /\ Seal(p, op[p].names[cur[p] + 1])
          /\ cur' = [cur EXCEPT ![p] = @ + 1]
          /\ UNCHANGED <<at, temps, edits, kept, pc, op, snap, rd, src, tmp, abort, res>>
       \/ GiveUp(p, EXIT_IO)

\* idx_write; an empty container reserves one unlisted stream first.
WriteIndex(p) ==
    /\ pc[p] = "inputs" /\ cur[p] = Len(Inputs(op[p]))
    /\ \/ /\ files' = [files EXCEPT ![tmp[p]].whole = TRUE]
          /\ used' = IF files[tmp[p]].entries = <<>> THEN used \cup {Stream(p)} ELSE used
          /\ Goto(p, "flush")
          /\ UNCHANGED <<at, temps, edits, kept, op, snap, rd, src, tmp, cur, abort, res>>
       \/ Refuse(p, EXIT_IO)

-----------------------------------------------------------------------------
(* FlushFileBuffers, the last look at the cancel, and the exchange. *)

Flush(p) ==
    /\ pc[p] = "flush"
    /\ \/ /\ ~abort[p] /\ files' = [files EXCEPT ![tmp[p]].flushed = TRUE]
          /\ Goto(p, "commit")
          /\ UNCHANGED <<at, temps, used, edits, kept, op, snap, rd, src, tmp, cur, abort, res>>
       \/ Fail(p, EXIT_IO)

\* A replacement that could not be exchanged is not deleted: Windows may have
\* taken the original name away before it failed.
Abandoned_deleted(p) == {tmp[p]}
Abandoned(p) == {}

\* ReplaceFileW.
Commit(p) ==
    /\ pc[p] = "commit"
    /\ \/ /\ Replaceable(at) /\ at' = tmp[p]
          /\ edits' = edits + 1 /\ Close(p, EXIT_OK, {tmp[p]})
          /\ UNCHANGED <<files, used, kept>>
       \/ /\ at' = at \/ (Replaceable(at) /\ at' = 0)
          /\ kept' = kept \cup {tmp[p]} /\ Close(p, EXIT_PARTIAL, Abandoned(p))
          /\ UNCHANGED <<files, used, edits>>

Step(p) ==
    \/ IdxOpen(p) \/ IdxRead(p) \/ Lock(p) \/ Verify(p) \/ CreateTemp(p)
    \/ CopyEntry(p) \/ EntriesDone(p) \/ AddInput(p) \/ WriteIndex(p)
    \/ Flush(p) \/ Commit(p)

-----------------------------------------------------------------------------
(* What happens to a process, and what others do to the file. *)

\* progress_abort, from the window's thread.
Cancel(p) ==
    /\ pc[p] # "idle" /\ ~abort[p]
    /\ abort' = [abort EXCEPT ![p] = TRUE]
    /\ UNCHANGED <<fileVars, pc, op, snap, rd, src, tmp, cur, res>>

\* The processes in D stop where they are; the system closes their handles.
Stop(D) ==
    /\ pc' = [p \in Procs |-> IF p \in D THEN "idle" ELSE pc[p]]
    /\ op' = [p \in Procs |-> IF p \in D THEN None ELSE op[p]]
    /\ snap' = [p \in Procs |-> IF p \in D THEN 0 ELSE snap[p]]
    /\ rd' = [p \in Procs |-> IF p \in D THEN 0 ELSE rd[p]]
    /\ src' = [p \in Procs |-> IF p \in D THEN 0 ELSE src[p]]
    /\ tmp' = [p \in Procs |-> IF p \in D THEN 0 ELSE tmp[p]]
    /\ cur' = [p \in Procs |-> IF p \in D THEN 0 ELSE cur[p]]
    /\ abort' = [p \in Procs |-> IF p \in D THEN FALSE ELSE abort[p]]
    /\ res' = [p \in Procs |-> IF p \in D THEN EXIT_OK ELSE res[p]]

Killed(p) == pc[p] # "idle" /\ Stop({p}) /\ UNCHANGED fileVars

\* Everything stops, and a file whose data was not flushed is not there.
PowerCut ==
    /\ \E p \in Procs : pc[p] # "idle"
    /\ Stop(Procs)
    /\ files' = [f \in DOMAIN files |->
                   IF files[f].flushed THEN files[f] ELSE [files[f] EXCEPT !.whole = FALSE]]
    /\ UNCHANGED <<at, temps, used, edits, kept>>

\* do_pack of another process puts a container of its own under the name.
PackedOver ==
    /\ Len(files) < MaxFiles /\ (at = 0 \/ Unheld(at))
    /\ files' = Append(files, [key |-> Len(files) + 1, entries |-> Packed,
                               whole |-> TRUE, flushed |-> TRUE])
    /\ used' = used \cup Sealed(Len(files) + 1, Packed)
    /\ at' = Len(files) + 1
    /\ UNCHANGED <<temps, edits, kept, procVars>>

\* The user puts a copy of an earlier container back: the same bytes, a new file.
CopyRestored ==
    /\ Len(files) < MaxFiles /\ (at = 0 \/ Unheld(at))
    /\ \E f \in DOMAIN files \ temps :
          files[f].whole /\ files[f].flushed /\ files' = Append(files, files[f])
    /\ at' = Len(files) + 1
    /\ UNCHANGED <<temps, used, edits, kept, procVars>>

Environment ==
    \/ \E p \in Procs : Cancel(p) \/ Killed(p) \/ \E o \in Ops : Begin(p, o)
    \/ PowerCut \/ PackedOver \/ CopyRestored

Next == (\E p \in Procs : Step(p)) \/ Environment

\* A process that is running goes on; nothing else has to happen.
Spec == Init /\ [][Next]_vars /\ \A p \in Procs : WF_vars(Step(p))

-----------------------------------------------------------------------------
(* Properties. *)

Places == {"idle", "open", "read", "lock", "verify", "create", "entries", "inputs",
           "flush", "commit"}
FileIds == DOMAIN files \cup {0}

\* The variables have their types; a source is held from its check to the end,
\* and by one process at a time.
TypeOK ==
    /\ \A f \in DOMAIN files :
          files[f] \in [key : DOMAIN files, entries : Seq(Entries), whole : BOOLEAN, flushed : BOOLEAN]
    /\ at \in FileIds /\ temps \subseteq DOMAIN files /\ kept \subseteq DOMAIN files
    /\ used \subseteq (DOMAIN files) \X Nat \X (DOMAIN files)
    /\ edits \in Nat
    /\ \A p \in Procs :
          /\ pc[p] \in Places /\ op[p] \in Ops \cup {None} /\ cur[p] \in Nat
          /\ {snap[p], rd[p], src[p], tmp[p]} \subseteq FileIds
          /\ abort[p] \in BOOLEAN
          /\ res[p] \in {EXIT_OK, EXIT_USAGE, EXIT_IO, EXIT_CORRUPT, EXIT_PARTIAL, EXIT_CANCELLED}
          /\ \A q \in Procs : p # q /\ src[p] # 0 => src[p] # src[q] /\ src[p] # rd[q]

\* No two containers ever hold streams sealed under one key and one ordinal:
\* not after a cancel or a crash, not when an old copy is put back and edited
\* again.  (native_rewrite: a fresh salt for every rewrite.)
NonceOnce ==
    \A s, t \in used : s[1] = t[1] /\ s[2] = t[2] => s = t

\* What a failed commit leaves aside stays there, whole, whatever happens next:
\* it may be the only copy.  (nr_recovery: it is no longer deleted; its data was flushed.)
KeptSurvives ==
    \A f \in kept : f \in temps /\ files[f].whole

\* A command that was begun ends.
CommandsEnd == \A p \in Procs : pc[p] # "idle" ~> pc[p] = "idle"

\* To whoever looks at the name, edits are atomic: see AtomicContainer.
Torn == [key |-> 0, entries |-> {"torn"}]
Content(f) == IF files[f].whole
              THEN [key |-> files[f].key, entries |-> ToSet(files[f].entries)]
              ELSE Torn
Atomic == INSTANCE AtomicContainer WITH
            Keys    <- 1..MaxFiles,
            Additions <- {ToSet(a) : a \in Adds},
            Removals  <- Removes,
            current <- IF at = 0 THEN [key |-> 0, entries |-> {}] ELSE Content(at),
            edits   <- edits,
            kept    <- {Content(f) : f \in kept}

\* The container's name goes from one whole container to another in one step;
\* an edit commits exactly what it was asked to make of the container it
\* replaces, never of one that has been replaced meanwhile; and a failed commit
\* keeps its result.
EditsAreAtomic == Atomic!Spec
=============================================================================

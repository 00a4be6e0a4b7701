-------------------------- MODULE ContainerEdit_proofs --------------------------
(***************************************************************************)
(* For any number of processes, any containers and any edits: the types,   *)
(* that no stream's nonce is used twice, that what a failed commit keeps   *)
(* survives, and that edits refine AtomicContainer.                        *)
(*                                                                         *)
(* The inductive invariant says what the lock is worth.  A held source is  *)
(* the file under the name, and one process holds it; the file under the   *)
(* name and the snapshot are no temporary, so nobody writes to them; and   *)
(* the temporary contains, at each place of native_rewrite, what has been  *)
(* copied of the snapshot and added so far.                                *)
(***************************************************************************)
EXTENDS ContainerEdit, SequenceTheorems, TLAPS

Files == [key : Nat, entries : Seq(Entries), whole : BOOLEAN, flushed : BOOLEAN]
Codes == {EXIT_OK, EXIT_USAGE, EXIT_IO, EXIT_CORRUPT, EXIT_PARTIAL, EXIT_CANCELLED}
Ids   == 1..Len(files)

Typed ==
    /\ files \in Seq(Files) /\ Len(files) \in 1..MaxFiles
    /\ at \in Ids \cup {0} /\ temps \subseteq Ids /\ kept \subseteq Ids
    /\ used \subseteq Ids \X Nat \X Ids /\ edits \in Nat
    /\ pc \in [Procs -> Places] /\ op \in [Procs -> Ops \cup {None}]
    /\ snap \in [Procs -> Ids \cup {0}] /\ rd \in [Procs -> Ids \cup {0}]
    /\ src \in [Procs -> Ids \cup {0}] /\ tmp \in [Procs -> Ids \cup {0}]
    /\ cur \in [Procs -> Nat] /\ abort \in [Procs -> BOOLEAN] /\ res \in [Procs -> Codes]

\* A key is a file's own, or that of the file it is a copy of, and temporaries
\* are not copied.
KeyInv == \A f \in Ids : /\ files[f].key \in Ids
                         /\ files[f].key = f \/ files[f].key \notin temps

\* What is under the name, and what was kept, is whole and on the disk.
NameInv == at # 0 => at \notin temps /\ files[at].whole /\ files[at].flushed
KeptInv == \A f \in kept : f \in temps /\ files[f].whole /\ files[f].flushed

\* A file's streams are sealed under its own key.
UsedInv == \A s \in used : s[1] = s[3]

\* One process holds a source, and nobody reads it; temporaries are nobody else's.
Exclusive ==
    \A p, q \in Procs : p # q =>
        /\ src[p] # 0 => src[p] # src[q] /\ src[p] # rd[q]
        /\ tmp[p] # 0 => tmp[p] # tmp[q]

Sealing   == {"entries", "inputs"}
Complete  == {"flush", "commit"}
Rewriting == Sealing \cup Complete
Checked   == {"create"} \cup Rewriting
Holding   == {"verify"} \cup Checked
Knowing   == {"lock"} \cup Holding

\* What a process has at each place.
PlaceInv(p) ==
    /\ rd[p] # 0 <=> pc[p] = "read"
    /\ snap[p] # 0 <=> pc[p] \in Knowing
    /\ src[p] # 0 <=> pc[p] \in Holding
    /\ tmp[p] # 0 <=> pc[p] \in Rewriting
    /\ cur[p] # 0 => pc[p] \in Rewriting
    /\ pc[p] # "idle" => op[p] \in Ops

\* A source is the file under the name; what was read of it stays what it is.
HoldInv(p) ==
    /\ src[p] # 0 => src[p] = at
    /\ rd[p] # 0 => rd[p] \notin temps
    /\ snap[p] # 0 => /\ snap[p] \notin temps
                      /\ Found(op[p], ToSet(files[snap[p]].entries))
    /\ pc[p] \in Checked => /\ files[src[p]] = files[snap[p]]
                            /\ ~NameClash(op[p], files[snap[p]].entries)

\* A temporary has a key of its own, is finished when its index is written and
\* on the disk when it is flushed, and its next stream has not been opened.
TempInv(p) ==
    tmp[p] # 0 =>
        /\ tmp[p] \in temps /\ tmp[p] \notin kept
        /\ files[tmp[p]].key = tmp[p]
        /\ files[tmp[p]].whole <=> pc[p] \in Complete
        /\ files[tmp[p]].flushed <=> pc[p] = "commit"
        /\ pc[p] \in Sealing =>
              \A s \in used : s[3] = tmp[p] => s[2] < Len(files[tmp[p]].entries)

\* The first n entries of the snapshot, those that are removed left out.
Survivors(p, n) ==
    {files[snap[p]].entries[i] : i \in {j \in 1..n : ~Dropped(p, files[snap[p]].entries[j])}}

Copied(p) == ToSet(files[tmp[p]].entries)

\* What the temporary lists.
CopyInv(p) ==
    /\ pc[p] = "entries" =>
          /\ cur[p] <= Len(files[snap[p]].entries)
          /\ Copied(p) = Survivors(p, cur[p])
    /\ pc[p] = "inputs" =>
          /\ cur[p] <= Len(Inputs(op[p]))
          /\ Copied(p) = Survivors(p, Len(files[snap[p]].entries))
                           \cup {Inputs(op[p])[i] : i \in 1..cur[p]}
    /\ pc[p] \in Complete =>
          Copied(p) = Survivors(p, Len(files[snap[p]].entries)) \cup ToSet(Inputs(op[p]))

ProcInv(p) == PlaceInv(p) /\ HoldInv(p) /\ TempInv(p) /\ CopyInv(p)

IInv == /\ Typed /\ KeyInv /\ NameInv /\ KeptInv /\ UsedInv /\ Exclusive
        /\ \A p \in Procs : ProcInv(p)

-----------------------------------------------------------------------------
(* Lemmas.                                                                 *)

\* The set of a sequence is what its positions hold.
LEMMA ToSetIs ==
    ASSUME NEW S, NEW s \in Seq(S)
    PROVE  ToSet(s) = {s[i] : i \in 1..Len(s)} /\ ToSet(s) \subseteq S
  BY DEF ToSet

\* Appending adds one element to it.
LEMMA ToSetAppend ==
    ASSUME NEW S, NEW s \in Seq(S), NEW e \in S
    PROVE  ToSet(Append(s, e)) = ToSet(s) \cup {e}
<1>1. /\ Append(s, e) \in Seq(S) /\ Len(Append(s, e)) = Len(s) + 1
      /\ \A i \in 1..Len(s) : Append(s, e)[i] = s[i]
      /\ Append(s, e)[Len(s) + 1] = e
  BY AppendProperties
<1>2. ToSet(Append(s, e)) = {Append(s, e)[i] : i \in 1..(Len(s) + 1)}
  BY <1>1, ToSetIs
<1>3. ToSet(s) = {s[i] : i \in 1..Len(s)}
  BY ToSetIs
<1>4. 1..(Len(s) + 1) = (1..Len(s)) \cup {Len(s) + 1}
  OBVIOUS
<1> QED
  BY <1>1, <1>2, <1>3, <1>4

\* What an operation is, and what it adds.
LEMMA OpType ==
    ASSUME NEW o \in Ops
    PROVE  /\ o.kind \in {"add", "remove"}
           /\ o.kind = "add" => o.names \in Adds /\ o.names \in Seq(Entries) /\ Inputs(o) = o.names
           /\ o.kind = "remove" => o.names \in Removes /\ Inputs(o) = <<>>
           /\ Inputs(o) \in Seq(Entries)
  BY EditAssumption DEF Ops, Inputs

\* A file is what Files says.
LEMMA FileIs ==
    ASSUME Typed, NEW f \in Ids
    PROVE  /\ files[f] \in Files /\ files[f].key \in Nat /\ files[f].entries \in Seq(Entries)
           /\ files[f].whole \in BOOLEAN /\ files[f].flushed \in BOOLEAN
           /\ Len(files[f].entries) \in Nat
<1>1. files[f] \in Files
  BY DEF Typed, Ids
<1> QED
  BY <1>1 DEF Files

\* A process that a step leaves alone: nothing of its own changes, nor do the
\* files it has, the name it holds, or the standing of its temporary.
Undisturbed(q) ==
    /\ pc'[q] = pc[q] /\ op'[q] = op[q] /\ cur'[q] = cur[q]
    /\ snap'[q] = snap[q] /\ rd'[q] = rd[q] /\ src'[q] = src[q] /\ tmp'[q] = tmp[q]
    /\ \A f \in {src[q], snap[q], tmp[q]} : f # 0 => files'[f] = files[f]
    /\ src[q] # 0 => at' = at
    /\ \A f \in Ids : f \in temps' => f \in temps
    /\ tmp[q] # 0 => /\ tmp[q] \in temps' /\ tmp[q] \notin kept'
                     /\ \A s \in used' : s[3] = tmp[q] => s \in used

LEMMA UndisturbedInv ==
    ASSUME IInv, NEW q \in Procs, Undisturbed(q)
    PROVE  ProcInv(q)'
<1>1. /\ PlaceInv(q) /\ HoldInv(q) /\ TempInv(q) /\ CopyInv(q)
      /\ {snap[q], rd[q], src[q], tmp[q]} \subseteq Ids \cup {0}
  BY DEF IInv, ProcInv, Typed
<1>2. PlaceInv(q)'
  BY <1>1 DEF PlaceInv, Undisturbed
<1>3. HoldInv(q)'
  <2>1. pc[q] \in Checked => src[q] # 0 /\ snap[q] # 0
    BY <1>1 DEF PlaceInv, Holding, Knowing
  <2>2. src[q] # 0 => src'[q] = at'
    BY <1>1 DEF HoldInv, Undisturbed
  <2>3. rd[q] # 0 => rd'[q] \notin temps'
    BY <1>1 DEF HoldInv, Undisturbed
  <2>4. snap[q] # 0 => /\ snap'[q] \notin temps'
                       /\ Found(op'[q], ToSet(files'[snap'[q]].entries))
    BY <1>1 DEF HoldInv, Undisturbed
  <2>5. pc[q] \in Checked => /\ files'[src'[q]] = files'[snap'[q]]
                             /\ ~NameClash(op'[q], files'[snap'[q]].entries)
    BY <1>1, <2>1 DEF HoldInv, Undisturbed
  <2> QED
    BY <2>2, <2>3, <2>4, <2>5 DEF HoldInv, Undisturbed
<1>4. TempInv(q)'
  BY <1>1 DEF TempInv, Undisturbed
<1>5. CopyInv(q)'
  <2>1. CASE pc[q] \notin Rewriting
    BY <2>1 DEF CopyInv, Undisturbed, Rewriting, Sealing, Complete
  <2>2. CASE pc[q] \in Rewriting
    <3>1. snap[q] # 0 /\ tmp[q] # 0
      BY <1>1, <2>2 DEF PlaceInv, Holding, Knowing, Checked
    <3>2. /\ files'[snap'[q]] = files[snap[q]] /\ files'[tmp'[q]] = files[tmp[q]]
          /\ op'[q] = op[q] /\ pc'[q] = pc[q] /\ cur'[q] = cur[q]
      BY <3>1 DEF Undisturbed
    <3>3. \A n : Survivors(q, n)' = Survivors(q, n)
      BY <3>2 DEF Survivors, Dropped
    <3>4. Copied(q)' = Copied(q)
      BY <3>2 DEF Copied
    <3> QED
      BY <1>1, <3>2, <3>3, <3>4 DEF CopyInv
  <2> QED
    BY <2>1, <2>2
<1> QED
  BY <1>2, <1>3, <1>4, <1>5 DEF ProcInv

-----------------------------------------------------------------------------
(* The initial states, and the kinds of steps.                             *)

LEMMA InitInv == Init => IInv
<1> SUFFICES ASSUME Init PROVE IInv
  OBVIOUS
<1>1. PICK es \in Starts :
         /\ files = <<[key |-> 1, entries |-> es, whole |-> TRUE, flushed |-> TRUE]>>
         /\ used = Sealed(1, es)
  BY DEF Init
<1>2. es \in Seq(Entries) /\ Len(es) \in Nat
  BY EditAssumption
<1>3. /\ Len(files) = 1 /\ Ids = {1} /\ files \in Seq(Files)
      /\ files[1] = [key |-> 1, entries |-> es, whole |-> TRUE, flushed |-> TRUE]
  BY <1>1, <1>2 DEF Ids, Files
<1>4. \A s \in used : s[1] = 1 /\ s[3] = 1 /\ s \in Ids \X Nat \X Ids
  BY <1>1, <1>2, <1>3 DEF Sealed
<1>5. Typed
  <2>1. /\ at \in Ids \cup {0} /\ temps \subseteq Ids /\ kept \subseteq Ids /\ edits \in Nat
        /\ Len(files) \in 1..MaxFiles /\ used \subseteq Ids \X Nat \X Ids
    BY <1>3, <1>4, EditAssumption DEF Init
  <2>2. /\ pc \in [Procs -> Places] /\ op \in [Procs -> Ops \cup {None}]
        /\ snap \in [Procs -> Ids \cup {0}] /\ rd \in [Procs -> Ids \cup {0}]
        /\ src \in [Procs -> Ids \cup {0}] /\ tmp \in [Procs -> Ids \cup {0}]
        /\ cur \in [Procs -> Nat] /\ abort \in [Procs -> BOOLEAN] /\ res \in [Procs -> Codes]
    BY DEF Init, Places, Codes
  <2> QED
    BY <1>3, <2>1, <2>2 DEF Typed
<1>6. KeyInv /\ NameInv /\ KeptInv /\ UsedInv /\ Exclusive
  BY <1>3, <1>4 DEF Init, KeyInv, NameInv, KeptInv, UsedInv, Exclusive
<1>7. ASSUME NEW p \in Procs PROVE ProcInv(p)
  BY DEF Init, ProcInv, PlaceInv, HoldInv, TempInv, CopyInv, Knowing, Holding, Checked,
         Rewriting, Sealing, Complete
<1> QED
  BY <1>5, <1>6, <1>7 DEF IInv

\* A process that is idle and has nothing.
LEMMA IdleInv ==
    ASSUME NEW q \in Procs,
           pc'[q] = "idle", snap'[q] = 0, rd'[q] = 0, src'[q] = 0, tmp'[q] = 0, cur'[q] = 0
    PROVE  ProcInv(q)'
  BY DEF ProcInv, PlaceInv, HoldInv, TempInv, CopyInv, Knowing, Holding, Checked, Rewriting,
         Sealing, Complete

\* A process whose own variables a step does not change.
Same(q) ==
    /\ pc'[q] = pc[q] /\ op'[q] = op[q] /\ cur'[q] = cur[q]
    /\ snap'[q] = snap[q] /\ rd'[q] = rd[q] /\ src'[q] = src[q] /\ tmp'[q] = tmp[q]

\* Handles that are only given up stay exclusive.
LEMMA ReleaseInv ==
    ASSUME Exclusive,
           \A q \in Procs : src'[q] \in {src[q], 0} /\ rd'[q] \in {rd[q], 0} /\ tmp'[q] \in {tmp[q], 0}
    PROVE  Exclusive'
  BY DEF Exclusive

\* The files stay as they are: only the process that moves has to be looked at.
LEMMA QuietInv ==
    ASSUME IInv, NEW p \in Procs, UNCHANGED fileVars,
           Typed', Exclusive', ProcInv(p)',
           \A q \in Procs : q # p => Same(q)
    PROVE  IInv'
<1>1. KeyInv' /\ NameInv' /\ KeptInv' /\ UsedInv'
  BY DEF IInv, fileVars, KeyInv, NameInv, KeptInv, UsedInv, Ids
<1>2. ASSUME NEW q \in Procs, q # p PROVE ProcInv(q)'
  <2>1. Same(q)
    BY <1>2
  <2>2. TempInv(q)
    BY DEF IInv, ProcInv
  <2>3. Undisturbed(q)
    BY <2>1, <2>2 DEF Same, Undisturbed, TempInv, fileVars
  <2> QED
    BY <2>3, UndisturbedInv
<1> QED
  BY <1>1, <1>2 DEF IInv

\* A process writes to its own temporary.
LEMMA WriteInv ==
    ASSUME IInv, NEW p \in Procs, tmp[p] # 0,
           Len(files') = Len(files),
           \A f \in Ids : f # tmp[p] => files'[f] = files[f],
           files'[tmp[p]].key = files[tmp[p]].key,
           used' = used \/ used' = used \cup {Stream(p)},
           UNCHANGED <<at, temps, edits, kept, rd, src, tmp>>,
           Typed', ProcInv(p)',
           \A q \in Procs : q # p => Same(q)
    PROVE  IInv'
<1>1. /\ tmp[p] \in Ids /\ tmp[p] \in temps /\ tmp[p] \notin kept /\ files[tmp[p]].key = tmp[p]
      /\ Ids' = Ids /\ kept \subseteq Ids /\ at \in Ids \cup {0}
  BY DEF IInv, ProcInv, TempInv, Typed, Ids
<1>2. KeyInv'
  BY <1>1 DEF IInv, KeyInv
<1>3. NameInv' /\ KeptInv'
  BY <1>1 DEF IInv, NameInv, KeptInv
<1>4. UsedInv'
  BY <1>1 DEF IInv, UsedInv, Stream
<1>5. Exclusive'
  BY DEF IInv, Exclusive
<1>6. ASSUME NEW q \in Procs, q # p PROVE ProcInv(q)'
  <2>1. Same(q) /\ tmp[q] # tmp[p]
    BY <1>6 DEF IInv, Exclusive
  <2>2. TempInv(q) /\ HoldInv(q) /\ {snap[q], src[q], tmp[q]} \subseteq Ids \cup {0}
    BY DEF IInv, ProcInv, Typed
  <2>3. NameInv
    BY DEF IInv
  <2>4. \A f \in {src[q], snap[q], tmp[q]} : f # 0 => f # tmp[p] /\ f \in Ids
    BY <1>1, <2>1, <2>2, <2>3 DEF HoldInv, NameInv
  <2>5. \A f \in {src[q], snap[q], tmp[q]} : f # 0 => files'[f] = files[f]
    BY <2>4
  <2>6. \A s \in used' : s[3] = tmp[q] => s \in used
    BY <2>1 DEF Stream
  <2>7. Undisturbed(q)
    BY <2>1, <2>2, <2>5, <2>6 DEF Same, Undisturbed, TempInv
  <2> QED
    BY <2>7, UndisturbedInv
<1> QED
  BY <1>2, <1>3, <1>4, <1>5, <1>6 DEF IInv

\* The stream of a temporary that is being written.
LEMMA StreamType ==
    ASSUME IInv, NEW p \in Procs, tmp[p] # 0
    PROVE  /\ tmp[p] \in Ids /\ Stream(p) \in Ids \X Nat \X Ids
           /\ Stream(p)[1] = tmp[p] /\ Stream(p)[3] = tmp[p]
           /\ Stream(p)[2] = Len(files[tmp[p]].entries)
<1>1. /\ Typed /\ tmp[p] \in Ids /\ files[tmp[p]].key = tmp[p]
  BY DEF IInv, Typed, ProcInv, TempInv
<1>2. Len(files[tmp[p]].entries) \in Nat
  BY <1>1, FileIs
<1> QED
  BY <1>1, <1>2 DEF Stream

\* A process leaves before its commit: its temporary is deleted, its stream
\* may have been opened.
LEMMA LeaveInv ==
    ASSUME IInv, NEW p \in Procs, NEW code \in Codes, Leave(p, code),
           UNCHANGED <<files, at, edits, kept>>,
           used' = used \/ (pc[p] \in Sealing /\ used' = used \cup {Stream(p)})
    PROVE  IInv'
<1>1. /\ Typed /\ ProcInv(p) /\ tmp[p] \notin kept
      /\ pc[p] \in Sealing => tmp[p] # 0
  BY DEF IInv, ProcInv, PlaceInv, TempInv, Rewriting, Typed, Ids
<1>2. temps' = temps \ {tmp[p]}
  BY DEF Leave, Close
<1>3. used' \subseteq Ids \X Nat \X Ids /\ \A s \in used' : s[1] = s[3]
  BY <1>1, StreamType DEF IInv, Typed, UsedInv
<1>4. Typed'
  <2>1. /\ pc' = [pc EXCEPT ![p] = "idle"] /\ op' = [op EXCEPT ![p] = None]
        /\ snap' = [snap EXCEPT ![p] = 0] /\ rd' = [rd EXCEPT ![p] = 0]
        /\ src' = [src EXCEPT ![p] = 0] /\ tmp' = [tmp EXCEPT ![p] = 0]
        /\ cur' = [cur EXCEPT ![p] = 0] /\ abort' = [abort EXCEPT ![p] = FALSE]
        /\ res' = [res EXCEPT ![p] = code]
    BY DEF Leave, Close, Goto
  <2>2. /\ pc' \in [Procs -> Places] /\ op' \in [Procs -> Ops \cup {None}]
        /\ cur' \in [Procs -> Nat] /\ abort' \in [Procs -> BOOLEAN] /\ res' \in [Procs -> Codes]
    BY <1>1, <2>1 DEF Typed, Places
  <2>3. /\ snap' \in [Procs -> Ids \cup {0}] /\ rd' \in [Procs -> Ids \cup {0}]
        /\ src' \in [Procs -> Ids \cup {0}] /\ tmp' \in [Procs -> Ids \cup {0}]
    BY <1>1, <2>1 DEF Typed
  <2> QED
    BY <1>1, <1>2, <1>3, <2>2, <2>3 DEF Typed, Ids
<1>5. KeyInv' /\ NameInv' /\ KeptInv' /\ UsedInv'
  BY <1>1, <1>2, <1>3 DEF IInv, KeyInv, NameInv, KeptInv, UsedInv, Ids
<1>6. \A q \in Procs : q # p => Same(q)
  BY <1>1 DEF Leave, Close, Goto, Same, Typed
<1>7. /\ pc'[p] = "idle" /\ snap'[p] = 0 /\ rd'[p] = 0 /\ src'[p] = 0 /\ tmp'[p] = 0
      /\ cur'[p] = 0
  BY <1>1 DEF Leave, Close, Goto, Typed
<1>8. Exclusive'
  BY <1>6, <1>7, ReleaseInv DEF Same, IInv
<1>9. ASSUME NEW q \in Procs PROVE ProcInv(q)'
  <2>1. CASE q = p
    BY <1>7, <2>1, IdleInv
  <2>2. CASE q # p
    <3>1. /\ Same(q) /\ TempInv(q) /\ (tmp[q] # 0 => tmp[q] # tmp[p])
      BY <1>6, <2>2 DEF IInv, ProcInv, Exclusive
    <3>2. \A s \in used' : s[3] = tmp[q] /\ tmp[q] # 0 => s \in used
      BY <1>1, <3>1, StreamType
    <3>3. Undisturbed(q)
      BY <1>2, <3>1, <3>2 DEF Same, Undisturbed, TempInv
    <3> QED
      BY <3>3, UndisturbedInv
  <2> QED
    BY <2>1, <2>2
<1> QED
  BY <1>4, <1>5, <1>8, <1>9 DEF IInv

\* A new container, of another program or a copy, arrives under the name.
LEMMA ArriveInv ==
    ASSUME IInv, NEW g \in Files, Len(files) < MaxFiles,
           files' = Append(files, g), at' = Len(files) + 1,
           g.whole, g.flushed, g.key \in 1..(Len(files) + 1),
           g.key = Len(files) + 1 \/ g.key \notin temps,
           used \subseteq used',
           \A s \in used' : s \in used \/ s \in {Len(files) + 1} \X Nat \X {Len(files) + 1},
           at = 0 \/ Unheld(at),
           UNCHANGED <<temps, edits, kept, procVars>>
    PROVE  IInv'
<1> DEFINE n == Len(files) + 1
<1>1. /\ Typed /\ Len(files) \in Nat
      /\ files' \in Seq(Files) /\ Len(files') = n /\ files'[n] = g
      /\ \A f \in Ids : files'[f] = files[f]
  BY AppendProperties DEF IInv, Typed, Ids
<1>2. Ids' = Ids \cup {n} /\ n \notin Ids
  BY <1>1 DEF Ids
<1>3. used' \subseteq Ids' \X Nat \X Ids'
  BY <1>1, <1>2 DEF Typed
<1>4. Typed'
  <2>1. Len(files') \in 1..MaxFiles
    BY <1>1, EditAssumption
  <2> QED
    BY <1>1, <1>2, <1>3, <2>1 DEF Typed, procVars
<1>5. KeyInv'
  <2>1. /\ KeyInv /\ temps' = temps /\ Ids \subseteq Ids'
    BY <1>2 DEF IInv
  <2>2. g.key \in Ids' /\ (g.key = n \/ g.key \notin temps')
    BY <1>1 DEF Ids
  <2>3. ASSUME NEW f \in Ids' PROVE files'[f].key \in Ids' /\ (files'[f].key = f \/ files'[f].key \notin temps')
    <3>1. CASE f = n
      BY <1>1, <2>2, <3>1
    <3>2. CASE f \in Ids
      <4>1. files'[f] = files[f] /\ files[f].key \in Ids /\ (files[f].key = f \/ files[f].key \notin temps)
        BY <1>1, <2>1, <3>2 DEF KeyInv
      <4> QED
        BY <2>1, <4>1
    <3> QED
      BY <1>2, <3>1, <3>2
  <2> QED
    BY <2>3 DEF KeyInv
<1>6. NameInv' /\ KeptInv'
  BY <1>1, <1>2 DEF IInv, NameInv, KeptInv, Typed
<1>7. UsedInv'
  BY DEF IInv, UsedInv
<1>8. Exclusive'
  BY DEF IInv, Exclusive, procVars
<1>9. ASSUME NEW q \in Procs PROVE ProcInv(q)'
  <2>1. TempInv(q) /\ HoldInv(q) /\ {snap[q], src[q], tmp[q]} \subseteq Ids \cup {0}
    BY DEF IInv, ProcInv, Typed
  <2>2. src[q] = 0
    BY <2>1 DEF HoldInv, Unheld
  <2>3. \A s \in used' : tmp[q] # 0 /\ s[3] = tmp[q] => s \in used
    BY <1>2, <2>1
  <2>4. Undisturbed(q)
    BY <1>1, <1>2, <2>1, <2>2, <2>3 DEF Undisturbed, TempInv, procVars
  <2> QED
    BY <2>4, UndisturbedInv
<1> QED
  BY <1>4, <1>5, <1>6, <1>7, <1>8, <1>9 DEF IInv

-----------------------------------------------------------------------------
(* The steps that only read: the inventory, the lock, the checks.          *)

LEMMA BeginInv ==
    ASSUME IInv, NEW p \in Procs, NEW o \in Ops, Begin(p, o)
    PROVE  IInv'
<1>1. Typed /\ PlaceInv(p) /\ Exclusive /\ pc[p] = "idle"
  BY DEF IInv, ProcInv, Begin
<1>2. Typed'
  BY <1>1 DEF Typed, Begin, Goto, fileVars, Ids, Places, Codes
<1>3. /\ pc'[p] = "open" /\ op'[p] = o /\ rd'[p] = 0 /\ snap'[p] = 0 /\ src'[p] = 0 /\ tmp'[p] = 0
      /\ cur'[p] = 0 /\ UNCHANGED <<fileVars, rd, src, tmp>>
  BY <1>1 DEF Typed, Begin, Goto, PlaceInv, Knowing, Holding, Checked, Rewriting, Sealing, Complete
<1>4. ProcInv(p)'
  BY <1>3 DEF ProcInv, PlaceInv, HoldInv, TempInv, CopyInv, Knowing, Holding, Checked, Rewriting,
         Sealing, Complete
<1>5. Exclusive'
  BY <1>1, <1>3 DEF Exclusive
<1>6. \A q \in Procs : q # p => Same(q)
  BY <1>1 DEF Typed, Begin, Goto, Same
<1> QED
  BY <1>2, <1>3, <1>4, <1>5, <1>6, QuietInv

\* An operation that is refused leaves.
LEMMA RefuseInv ==
    ASSUME IInv, NEW p \in Procs, NEW code \in Codes, Refuse(p, code)
    PROVE  IInv'
  BY LeaveInv DEF Refuse

LEMMA FailInv ==
    ASSUME IInv, NEW p \in Procs, NEW code \in Codes, Fail(p, code)
    PROVE  IInv'
<1>1. (IF abort[p] THEN EXIT_CANCELLED ELSE code) \in Codes
  BY DEF Codes
<1> QED
  BY <1>1, LeaveInv DEF Fail

LEMMA GiveUpInv ==
    ASSUME IInv, NEW p \in Procs, NEW code \in Codes, GiveUp(p, code), pc[p] \in Sealing
    PROVE  IInv'
<1>1. (IF abort[p] THEN EXIT_CANCELLED ELSE code) \in Codes
  BY DEF Codes
<1> QED
  BY <1>1, LeaveInv DEF GiveUp

LEMMA IdxOpenInv ==
    ASSUME IInv, NEW p \in Procs, IdxOpen(p)
    PROVE  IInv'
<1>1. CASE Refuse(p, EXIT_IO)
  BY <1>1, RefuseInv DEF Codes
<1>2. CASE /\ CanOpenRead(at)
           /\ rd' = [rd EXCEPT ![p] = at] /\ Goto(p, "read")
           /\ UNCHANGED <<fileVars, op, snap, src, tmp, cur, abort, res>>
  <2>1. Typed /\ PlaceInv(p) /\ NameInv /\ Exclusive /\ pc[p] = "open"
    BY DEF IInv, ProcInv, IdxOpen
  <2>2. Typed'
    BY <1>2, <2>1 DEF Typed, Goto, fileVars, Ids, Places
  <2>3. /\ pc'[p] = "read" /\ rd'[p] = at /\ at # 0 /\ op'[p] \in Ops
        /\ snap'[p] = 0 /\ src'[p] = 0 /\ tmp'[p] = 0
        /\ cur'[p] = 0 /\ UNCHANGED <<fileVars, src, tmp>>
    BY <1>2, <2>1 DEF Typed, Goto, CanOpenRead, PlaceInv, Knowing, Holding, Checked, Rewriting,
           Sealing, Complete
  <2>4. ProcInv(p)'
    BY <2>1, <2>3 DEF ProcInv, PlaceInv, HoldInv, TempInv, CopyInv, Knowing, Holding, Checked,
           Rewriting, Sealing, Complete, NameInv, fileVars
  <2>5. Exclusive'
    BY <1>2, <2>1, <2>3 DEF Exclusive, CanOpenRead, Typed
  <2>6. \A q \in Procs : q # p => Same(q)
    BY <1>2, <2>1 DEF Typed, Goto, Same
  <2> QED
    BY <1>2, <2>2, <2>4, <2>5, <2>6, QuietInv
<1> QED
  BY <1>1, <1>2 DEF IdxOpen

LEMMA IdxReadInv ==
    ASSUME IInv, NEW p \in Procs, IdxRead(p)
    PROVE  IInv'
<1> DEFINE f == files[rd[p]]
<1>1. CASE Refuse(p, EXIT_USAGE) \/ Refuse(p, EXIT_CORRUPT)
  BY <1>1, RefuseInv DEF Codes
<1>2. CASE /\ f.whole /\ Found(op[p], ToSet(f.entries))
           /\ snap' = [snap EXCEPT ![p] = rd[p]] /\ rd' = [rd EXCEPT ![p] = 0]
           /\ Goto(p, "lock")
           /\ UNCHANGED <<fileVars, op, src, tmp, cur, abort, res>>
  <2>1. Typed /\ PlaceInv(p) /\ HoldInv(p) /\ Exclusive /\ pc[p] = "read"
    BY DEF IInv, ProcInv, IdxRead
  <2>2. Typed'
    BY <1>2, <2>1 DEF Typed, Goto, fileVars, Ids, Places
  <2>3. /\ pc'[p] = "lock" /\ rd'[p] = 0 /\ snap'[p] = rd[p] /\ rd[p] # 0
        /\ op'[p] = op[p] /\ op[p] \in Ops /\ src'[p] = 0 /\ tmp'[p] = 0
        /\ cur'[p] = 0 /\ UNCHANGED <<fileVars, src, tmp>>
    BY <1>2, <2>1 DEF Typed, Goto, PlaceInv, Knowing, Holding, Checked, Rewriting,
           Sealing, Complete
  <2>4. snap'[p] \notin temps' /\ Found(op'[p], ToSet(files'[snap'[p]].entries))
    BY <1>2, <2>1, <2>3 DEF HoldInv, fileVars
  <2>5. ProcInv(p)'
    BY <2>3, <2>4 DEF ProcInv, PlaceInv, HoldInv, TempInv, CopyInv, Knowing, Holding, Checked,
           Rewriting, Sealing, Complete
  <2>6. \A q \in Procs : q # p => Same(q)
    BY <1>2, <2>1 DEF Typed, Goto, Same
  <2>7. Exclusive'
    BY <2>1, <2>3, <2>6, ReleaseInv DEF Same
  <2> QED
    BY <1>2, <2>2, <2>5, <2>6, <2>7, QuietInv
<1> QED
  BY <1>1, <1>2 DEF IdxRead

LEMMA LockInv ==
    ASSUME IInv, NEW p \in Procs, Lock(p)
    PROVE  IInv'
<1>1. CASE Refuse(p, EXIT_IO)
  BY <1>1, RefuseInv DEF Codes
<1>2. CASE /\ CanOpenSource(at)
           /\ src' = [src EXCEPT ![p] = at] /\ Goto(p, "verify")
           /\ UNCHANGED <<fileVars, op, snap, rd, tmp, cur, abort, res>>
  <2>1. Typed /\ PlaceInv(p) /\ HoldInv(p) /\ Exclusive /\ pc[p] = "lock"
    BY DEF IInv, ProcInv, Lock
  <2>2. Typed'
    BY <1>2, <2>1 DEF Typed, Goto, fileVars, Ids, Places
  <2>3. /\ pc'[p] = "verify" /\ rd'[p] = 0 /\ snap'[p] = snap[p] /\ snap[p] # 0
        /\ op'[p] = op[p] /\ op[p] \in Ops /\ src'[p] = at /\ at # 0 /\ tmp'[p] = 0
        /\ cur'[p] = 0 /\ UNCHANGED <<fileVars, rd, tmp>>
    BY <1>2, <2>1 DEF Typed, Goto, CanOpenSource, PlaceInv, Knowing, Holding, Checked, Rewriting,
           Sealing, Complete
  <2>4. snap'[p] \notin temps' /\ Found(op'[p], ToSet(files'[snap'[p]].entries)) /\ src'[p] = at'
    BY <1>2, <2>1, <2>3 DEF HoldInv, fileVars
  <2>5. ProcInv(p)'
    BY <2>3, <2>4 DEF ProcInv, PlaceInv, HoldInv, TempInv, CopyInv, Knowing, Holding, Checked,
           Rewriting, Sealing, Complete
  <2>6. Exclusive'
    BY <1>2, <2>1, <2>3 DEF Exclusive, CanOpenSource, Typed
  <2>7. \A q \in Procs : q # p => Same(q)
    BY <1>2, <2>1 DEF Typed, Goto, Same
  <2> QED
    BY <1>2, <2>2, <2>5, <2>6, <2>7, QuietInv
<1> QED
  BY <1>1, <1>2 DEF Lock

LEMMA VerifyInv ==
    ASSUME IInv, NEW p \in Procs, Verify(p)
    PROVE  IInv'
<1>1. CASE Refuse(p, EXIT_CORRUPT) \/ Refuse(p, EXIT_USAGE) \/ Refuse(p, EXIT_IO)
  BY <1>1, RefuseInv DEF Codes
<1>2. CASE /\ files[src[p]] = files[snap[p]] /\ ~NameClash(op[p], files[snap[p]].entries)
           /\ Goto(p, "create")
           /\ UNCHANGED <<fileVars, op, snap, rd, src, tmp, cur, abort, res>>
  <2>1. Typed /\ PlaceInv(p) /\ HoldInv(p) /\ Exclusive /\ pc[p] = "verify"
    BY DEF IInv, ProcInv, Verify
  <2>2. Typed'
    BY <1>2, <2>1 DEF Typed, Goto, fileVars, Ids, Places
  <2>3. /\ pc'[p] = "create" /\ rd'[p] = 0 /\ snap'[p] = snap[p] /\ snap[p] # 0
        /\ op'[p] = op[p] /\ op[p] \in Ops /\ src'[p] = src[p] /\ src[p] # 0 /\ tmp'[p] = 0
        /\ cur'[p] = 0 /\ UNCHANGED <<fileVars, rd, src, tmp>>
    BY <1>2, <2>1 DEF Typed, Goto, PlaceInv, Knowing, Holding, Checked, Rewriting,
           Sealing, Complete
  <2>4. /\ snap'[p] \notin temps' /\ Found(op'[p], ToSet(files'[snap'[p]].entries))
        /\ src'[p] = at' /\ files'[src'[p]] = files'[snap'[p]]
        /\ ~NameClash(op'[p], files'[snap'[p]].entries)
    BY <1>2, <2>1, <2>3 DEF HoldInv, fileVars
  <2>5. ProcInv(p)'
    BY <2>3, <2>4 DEF ProcInv, PlaceInv, HoldInv, TempInv, CopyInv, Knowing, Holding, Checked,
           Rewriting, Sealing, Complete
  <2>6. Exclusive'
    BY <2>1, <2>3 DEF Exclusive
  <2>7. \A q \in Procs : q # p => Same(q)
    BY <1>2, <2>1 DEF Typed, Goto, Same
  <2> QED
    BY <1>2, <2>2, <2>5, <2>6, <2>7, QuietInv
<1> QED
  BY <1>1, <1>2 DEF Verify, Unchanged

-----------------------------------------------------------------------------
(* The temporary: its creation, its entries, its index.                    *)

\* CREATE_NEW of a random name: the temporary is a file nobody has.
LEMMA CreateTempInv ==
    ASSUME IInv, NEW p \in Procs, CreateTemp(p)
    PROVE  IInv'
<1> DEFINE n == Len(files) + 1
           g == NewFile(n, <<>>)
<1>1. CASE Fail(p, EXIT_IO)
  BY <1>1, FailInv DEF Codes
<1>2. CASE /\ ~abort[p] /\ Len(files) < MaxFiles
           /\ files' = Append(files, NewFile(FreshKey(p), <<>>))
           /\ temps' = temps \cup {n}
           /\ tmp' = [tmp EXCEPT ![p] = n]
           /\ Goto(p, "entries")
           /\ UNCHANGED <<at, used, edits, kept, op, snap, rd, src, cur, abort, res>>
  <2>1. /\ Typed /\ PlaceInv(p) /\ HoldInv(p) /\ Exclusive /\ KeyInv /\ NameInv /\ KeptInv
        /\ UsedInv /\ pc[p] = "create"
    BY DEF IInv, ProcInv, CreateTemp
  <2>2. /\ g \in Files /\ g.key = n /\ g.entries = <<>> /\ g.whole = FALSE /\ g.flushed = FALSE
        /\ files' = Append(files, g) /\ Len(files) \in Nat
    BY <1>2, <2>1 DEF NewFile, Files, FreshKey, Typed
  <2>3. /\ files' \in Seq(Files) /\ Len(files') = n /\ files'[n] = g
        /\ \A f \in Ids : files'[f] = files[f]
    BY <2>1, <2>2, AppendProperties DEF Typed, Ids
  <2>4. Ids' = Ids \cup {n} /\ n \notin Ids /\ n # 0
    BY <2>2, <2>3 DEF Ids
  <2>5. Typed'
    <3>1. Len(files') \in 1..MaxFiles
      BY <1>2, <2>2, <2>3, EditAssumption
    <3>2. /\ at' \in Ids' \cup {0} /\ temps' \subseteq Ids' /\ kept' \subseteq Ids'
          /\ used' \subseteq Ids' \X Nat \X Ids' /\ edits' \in Nat
      BY <1>2, <2>1, <2>4 DEF Typed
    <3>3. /\ pc' \in [Procs -> Places] /\ op' \in [Procs -> Ops \cup {None}]
          /\ cur' \in [Procs -> Nat] /\ abort' \in [Procs -> BOOLEAN] /\ res' \in [Procs -> Codes]
      BY <1>2, <2>1 DEF Typed, Goto, Places
    <3>4. /\ snap' \in [Procs -> Ids' \cup {0}] /\ rd' \in [Procs -> Ids' \cup {0}]
          /\ src' \in [Procs -> Ids' \cup {0}] /\ tmp' \in [Procs -> Ids' \cup {0}]
      BY <1>2, <2>1, <2>4 DEF Typed
    <3> QED
      BY <2>3, <3>1, <3>2, <3>3, <3>4 DEF Typed
  <2>6. KeyInv'
    <3>1. ASSUME NEW f \in Ids'
          PROVE  files'[f].key \in Ids' /\ (files'[f].key = f \/ files'[f].key \notin temps')
      <4>1. CASE f = n
        BY <2>2, <2>3, <2>4, <4>1
      <4>2. CASE f \in Ids
        <5>1. /\ files'[f] = files[f] /\ files[f].key \in Ids
              /\ files[f].key = f \/ files[f].key \notin temps
          BY <2>1, <2>3, <4>2 DEF KeyInv
        <5> QED
          BY <1>2, <2>4, <5>1
      <4> QED
        BY <2>4, <4>1, <4>2
    <3> QED
      BY <3>1 DEF KeyInv
  <2>7. NameInv'
    BY <1>2, <2>1, <2>3, <2>4 DEF NameInv, Typed
  <2>8. KeptInv' /\ UsedInv'
    BY <1>2, <2>1, <2>3 DEF KeptInv, UsedInv, Typed
  <2>9. \A q \in Procs : tmp[q] # n /\ src[q] # n /\ rd[q] # n /\ snap[q] # n
    BY <2>1, <2>4 DEF Typed
  <2>10. Exclusive'
    BY <1>2, <2>1, <2>9 DEF Exclusive, Typed
  <2>11. /\ pc'[p] = "entries" /\ rd'[p] = 0 /\ snap'[p] = snap[p] /\ snap[p] \in Ids
         /\ op'[p] = op[p] /\ op[p] \in Ops /\ src'[p] = src[p] /\ src[p] \in Ids
         /\ tmp'[p] = n /\ cur'[p] = 0
    BY <1>2, <2>1 DEF Typed, Goto, PlaceInv, Knowing, Holding, Checked,
           Rewriting, Sealing, Complete
  <2>12. ProcInv(p)'
    <3>1. PlaceInv(p)'
      BY <2>4, <2>11 DEF PlaceInv, Knowing, Holding, Checked, Rewriting, Sealing, Ids
    <3>2. files'[snap'[p]] = files[snap[p]] /\ files'[src'[p]] = files[src[p]]
      BY <2>3, <2>11
    <3>3. /\ src'[p] = at' /\ files[src[p]] = files[snap[p]]
          /\ snap[p] \notin temps /\ Found(op[p], ToSet(files[snap[p]].entries))
          /\ ~NameClash(op[p], files[snap[p]].entries)
      BY <1>2, <2>1, <2>4, <2>11 DEF HoldInv, Checked, Ids
    <3>4. snap'[p] \notin temps'
      BY <1>2, <2>4, <2>11, <3>3
    <3>5. HoldInv(p)'
      BY <2>11, <3>2, <3>3, <3>4 DEF HoldInv
    <3>6. tmp'[p] \in temps' /\ tmp'[p] \notin kept' /\ \A s \in used' : s[3] # n
      BY <1>2, <2>1, <2>4, <2>11 DEF Typed
    <3>7. TempInv(p)'
      BY <2>2, <2>3, <2>11, <3>6 DEF TempInv, Sealing, Complete
    <3>8. Copied(p)' = {} /\ \A i : ~(i \in 1..0)
      BY <2>2, <2>3, <2>11 DEF Copied, ToSet
    <3>9. Survivors(p, 0)' = {}
      BY <3>8 DEF Survivors
    <3>10. CopyInv(p)'
      <4>1. Len(files[snap[p]].entries) \in Nat
        BY <2>1, <2>11, FileIs
      <4> QED
        BY <2>11, <3>2, <3>8, <3>9, <4>1 DEF CopyInv, Complete
    <3> QED
      BY <3>1, <3>5, <3>7, <3>10 DEF ProcInv
  <2>13. ASSUME NEW q \in Procs, q # p PROVE ProcInv(q)'
    <3>1. Same(q)
      BY <1>2, <2>1, <2>13 DEF Same, Typed, Goto
    <3>2. TempInv(q) /\ {snap[q], src[q], tmp[q]} \subseteq Ids \cup {0}
      BY <2>1 DEF IInv, ProcInv, Typed
    <3>3. \A f \in {src[q], snap[q], tmp[q]} : f # 0 => files'[f] = files[f]
      BY <2>3, <3>2
    <3>4. at' = at /\ kept' = kept /\ used' = used /\ temps' = temps \cup {n}
      BY <1>2
    <3>5. Undisturbed(q)
      BY <2>4, <3>1, <3>2, <3>3, <3>4 DEF Undisturbed, TempInv, Same
    <3> QED
      BY <3>5, UndisturbedInv
  <2> QED
    BY <2>5, <2>6, <2>7, <2>8, <2>10, <2>12, <2>13 DEF IInv
<1> QED
  BY <1>1, <1>2 DEF CreateTemp

\* The survivors of one entry more.
LEMMA SurvivorsStep ==
    ASSUME NEW p \in Procs, NEW n \in Nat
    PROVE  LET e == files[snap[p]].entries[n + 1] IN
           Survivors(p, n + 1) = IF Dropped(p, e) THEN Survivors(p, n) ELSE Survivors(p, n) \cup {e}
<1> DEFINE e == files[snap[p]].entries[n + 1]
           D(m) == {j \in 1..m : ~Dropped(p, files[snap[p]].entries[j])}
<1>1. 1..(n + 1) = (1..n) \cup {n + 1}
  OBVIOUS
<1>2. D(n + 1) = IF Dropped(p, e) THEN D(n) ELSE D(n) \cup {n + 1}
  BY <1>1
<1>3. /\ Survivors(p, n) = {files[snap[p]].entries[i] : i \in D(n)}
      /\ Survivors(p, n + 1) = {files[snap[p]].entries[i] : i \in D(n + 1)}
  BY DEF Survivors
<1> HIDE DEF D
<1>4. CASE Dropped(p, e)
  BY <1>2, <1>3, <1>4
<1>5. CASE ~Dropped(p, e)
  <2>1. D(n + 1) = D(n) \cup {n + 1}
    BY <1>2, <1>5
  <2>2. Survivors(p, n + 1) = Survivors(p, n) \cup {e}
    BY <1>3, <2>1
  <2> QED
    BY <1>5, <2>2
<1> QED
  BY <1>4, <1>5

\* One more entry in the temporary, under its next stream.
LEMMA SealIs ==
    ASSUME IInv, NEW p \in Procs, tmp[p] # 0, NEW name \in Entries, Seal(p, name)
    PROVE  /\ files' \in Seq(Files) /\ Len(files') = Len(files)
           /\ \A f \in Ids : f # tmp[p] => files'[f] = files[f]
           /\ files'[tmp[p]].key = files[tmp[p]].key
           /\ files'[tmp[p]].whole = files[tmp[p]].whole
           /\ files'[tmp[p]].flushed = files[tmp[p]].flushed
           /\ Len(files'[tmp[p]].entries) = Len(files[tmp[p]].entries) + 1
           /\ ToSet(files'[tmp[p]].entries) = Copied(p) \cup {name}
           /\ used' = used \cup {Stream(p)} /\ used' \subseteq Ids \X Nat \X Ids
<1> DEFINE t == tmp[p]
           g == [files[t] EXCEPT !.entries = Append(@, name)]
<1>1. Typed /\ t \in Ids
  BY StreamType DEF IInv
<1>2. /\ files[t] \in Files /\ files[t].entries \in Seq(Entries) /\ Len(files[t].entries) \in Nat
  BY <1>1, FileIs
<1>3. /\ Append(files[t].entries, name) \in Seq(Entries)
      /\ Len(Append(files[t].entries, name)) = Len(files[t].entries) + 1
  BY <1>2, AppendProperties
<1>4. /\ g \in Files /\ g.key = files[t].key /\ g.whole = files[t].whole
      /\ g.flushed = files[t].flushed /\ g.entries = Append(files[t].entries, name)
  BY <1>2, <1>3 DEF Files
<1>5. files' = [files EXCEPT ![t] = g]
  BY DEF Seal
<1> HIDE DEF g
<1>6. /\ files' \in Seq(Files) /\ Len(files') = Len(files) /\ files'[t] = g
      /\ \A f \in Ids : f # t => files'[f] = files[f]
  BY <1>1, <1>4, <1>5 DEF Typed, Ids
<1>7. ToSet(g.entries) = Copied(p) \cup {name}
  BY <1>2, <1>4, ToSetAppend DEF Copied
<1>8. used' = used \cup {Stream(p)} /\ used' \subseteq Ids \X Nat \X Ids
  BY <1>1, StreamType DEF Seal, Typed
<1> QED
  BY <1>3, <1>4, <1>6, <1>7, <1>8

\* Its stream is then below the next one.
LEMMA SealTemp ==
    ASSUME IInv, NEW p \in Procs, pc[p] \in Sealing, pc'[p] \in Sealing,
           NEW name \in Entries, Seal(p, name), UNCHANGED <<temps, kept, tmp>>
    PROVE  TempInv(p)'
<1>1. /\ tmp[p] # 0 /\ TempInv(p) /\ Typed /\ pc'[p] \notin Complete /\ pc'[p] # "commit"
      /\ pc[p] \notin Complete /\ pc[p] # "commit"
  BY DEF IInv, ProcInv, PlaceInv, Rewriting, Sealing, Complete
<1>2. /\ Len(files'[tmp[p]].entries) = Len(files[tmp[p]].entries) + 1
      /\ files'[tmp[p]].key = files[tmp[p]].key
      /\ files'[tmp[p]].whole = files[tmp[p]].whole
      /\ files'[tmp[p]].flushed = files[tmp[p]].flushed
      /\ used' = used \cup {Stream(p)}
  BY <1>1, SealIs
<1>3. Stream(p)[2] = Len(files[tmp[p]].entries) /\ Len(files[tmp[p]].entries) \in Nat
  BY <1>1, StreamType, FileIs
<1>4. \A s \in used' : s[3] = tmp[p] => s[2] < Len(files'[tmp[p]].entries)
  <2> SUFFICES ASSUME NEW s \in used', s[3] = tmp[p] PROVE s[2] < Len(files'[tmp[p]].entries)
    OBVIOUS
  <2>1. CASE s = Stream(p)
    BY <1>2, <1>3, <2>1
  <2>2. CASE s \in used
    <3>1. s[2] < Len(files[tmp[p]].entries) /\ s[2] \in Nat
      BY <1>1, <2>2 DEF TempInv, Typed
    <3> QED
      BY <1>2, <1>3, <3>1
  <2> QED
    BY <1>2, <2>1, <2>2
<1> QED
  BY <1>1, <1>2, <1>4 DEF TempInv

\* What a process has while it writes.
LEMMA RewriteHas ==
    ASSUME IInv, NEW p \in Procs, pc[p] \in Rewriting
    PROVE  /\ snap[p] \in Ids /\ src[p] \in Ids /\ tmp[p] \in Ids /\ rd[p] = 0 /\ op[p] \in Ops
           /\ tmp[p] # 0 /\ tmp[p] # snap[p] /\ tmp[p] # src[p] /\ src[p] = at
           /\ files[src[p]] = files[snap[p]]
           /\ Found(op[p], ToSet(files[snap[p]].entries))
           /\ ~NameClash(op[p], files[snap[p]].entries)
           /\ files[snap[p]].entries \in Seq(Entries) /\ Len(files[snap[p]].entries) \in Nat
           /\ Inputs(op[p]) \in Seq(Entries) /\ Len(Inputs(op[p])) \in Nat
           /\ cur[p] \in Nat
<1>1. Typed /\ PlaceInv(p) /\ HoldInv(p) /\ TempInv(p) /\ NameInv
  BY DEF IInv, ProcInv
<1>2. /\ snap[p] # 0 /\ src[p] # 0 /\ tmp[p] # 0 /\ rd[p] = 0 /\ op[p] \in Ops /\ pc[p] \in Checked
  BY <1>1 DEF PlaceInv, Knowing, Holding, Checked, Rewriting, Sealing, Complete
<1>3. snap[p] \in Ids /\ src[p] \in Ids /\ tmp[p] \in Ids /\ cur[p] \in Nat
  BY <1>1, <1>2 DEF Typed
<1>4. /\ tmp[p] # snap[p] /\ tmp[p] # src[p] /\ src[p] = at
      /\ files[src[p]] = files[snap[p]]
      /\ Found(op[p], ToSet(files[snap[p]].entries))
      /\ ~NameClash(op[p], files[snap[p]].entries)
  BY <1>1, <1>2 DEF HoldInv, TempInv, NameInv
<1>5. files[snap[p]].entries \in Seq(Entries) /\ Len(files[snap[p]].entries) \in Nat
  BY <1>1, <1>3, FileIs
<1>6. Inputs(op[p]) \in Seq(Entries) /\ Len(Inputs(op[p])) \in Nat
  BY <1>2, OpType
<1> QED
  BY <1>2, <1>3, <1>4, <1>5, <1>6

\* It goes on writing: what it holds and what it read stay as they were.
LEMMA WritesOn ==
    ASSUME IInv, NEW p \in Procs, pc[p] \in Rewriting, pc'[p] \in Rewriting,
           \A f \in Ids : f # tmp[p] => files'[f] = files[f],
           UNCHANGED <<at, temps, op, snap, rd, src, tmp>>
    PROVE  /\ PlaceInv(p)' /\ HoldInv(p)'
           /\ files'[snap'[p]] = files[snap[p]]
           /\ \A n : Survivors(p, n)' = Survivors(p, n)
<1>1. PlaceInv(p) /\ HoldInv(p) /\ pc[p] \in Checked /\ pc'[p] \in Checked
  BY DEF IInv, ProcInv, Checked
<1>2. files'[snap'[p]] = files[snap[p]] /\ files'[src'[p]] = files[src[p]]
  BY RewriteHas
<1>3. PlaceInv(p)'
  BY <1>1, RewriteHas DEF PlaceInv, Knowing, Holding, Checked, Rewriting, Sealing, Complete
<1>4. HoldInv(p)'
  BY <1>1, <1>2, RewriteHas DEF HoldInv
<1>5. \A n : Survivors(p, n)' = Survivors(p, n)
  BY <1>2 DEF Survivors, Dropped
<1> QED
  BY <1>2, <1>3, <1>4, <1>5

LEMMA CopyEntryInv ==
    ASSUME IInv, NEW p \in Procs, CopyEntry(p)
    PROVE  IInv'
<1> DEFINE es   == files[snap[p]].entries
           name == es[cur[p] + 1]
           code == IF Decodes(p) THEN EXIT_IO ELSE EXIT_CORRUPT
<1>1. /\ pc[p] = "entries" /\ pc[p] \in Sealing /\ pc[p] \in Rewriting
      /\ pc[p] \notin Complete /\ code \in Codes /\ cur[p] < Len(es)
  BY DEF CopyEntry, Sealing, Rewriting, Complete, Codes
<1>2. /\ Typed /\ Exclusive /\ TempInv(p) /\ cur[p] \in Nat /\ Len(es) \in Nat
      /\ es \in Seq(Entries) /\ Copied(p) = Survivors(p, cur[p])
  BY <1>1, RewriteHas DEF IInv, ProcInv, CopyInv
<1>3. name \in Entries /\ cur[p] + 1 <= Len(es)
  BY <1>1, <1>2
<1>4. CASE Fail(p, code)
  BY <1>1, <1>4, FailInv
<1>5. CASE GiveUp(p, code)
  BY <1>1, <1>5, GiveUpInv
<1>6. CASE /\ IF Dropped(p, name) THEN UNCHANGED <<files, used>> ELSE Seal(p, name)
           /\ cur' = [cur EXCEPT ![p] = @ + 1]
           /\ UNCHANGED <<at, temps, edits, kept, pc, op, snap, rd, src, tmp, abort, res>>
  <2>1. cur'[p] = cur[p] + 1 /\ cur' \in [Procs -> Nat] /\ \A q \in Procs : q # p => Same(q)
    BY <1>2, <1>6 DEF Typed, Same
  <2>2. Survivors(p, cur[p] + 1) = IF Dropped(p, name) THEN Survivors(p, cur[p])
                                   ELSE Survivors(p, cur[p]) \cup {name}
    BY <1>2, SurvivorsStep
  <2>3. CASE Dropped(p, name)
    <3>1. UNCHANGED fileVars
      BY <1>6, <2>3 DEF fileVars
    <3>2. Typed' /\ Exclusive'
      BY <1>2, <1>6, <2>1, <3>1 DEF Typed, fileVars, Ids, Exclusive
    <3>3. /\ PlaceInv(p)' /\ HoldInv(p)' /\ files'[snap'[p]] = files[snap[p]]
          /\ \A n : Survivors(p, n)' = Survivors(p, n)
      BY <1>1, <1>6, <3>1, WritesOn DEF fileVars
    <3>4. TempInv(p)'
      BY <1>2, <1>6, <3>1 DEF TempInv, fileVars
    <3>5. Copied(p)' = Survivors(p, cur[p] + 1)
      BY <1>2, <1>6, <2>2, <2>3, <3>1 DEF Copied, fileVars
    <3>6. CopyInv(p)'
      BY <1>1, <1>3, <1>6, <2>1, <3>3, <3>5 DEF CopyInv
    <3> QED
      BY <2>1, <3>1, <3>2, <3>3, <3>4, <3>6, QuietInv DEF ProcInv
  <2>4. CASE ~Dropped(p, name)
    <3>1. Seal(p, name) /\ tmp[p] # 0
      BY <1>1, <1>6, <2>4, RewriteHas
    <3>2. /\ files' \in Seq(Files) /\ Len(files') = Len(files)
          /\ \A f \in Ids : f # tmp[p] => files'[f] = files[f]
          /\ files'[tmp[p]].key = files[tmp[p]].key
          /\ ToSet(files'[tmp[p]].entries) = Copied(p) \cup {name}
          /\ used' = used \cup {Stream(p)} /\ used' \subseteq Ids \X Nat \X Ids
      BY <1>3, <3>1, SealIs
    <3>3. Typed'
      BY <1>2, <1>6, <2>1, <3>2 DEF Typed, Ids
    <3>4. /\ PlaceInv(p)' /\ HoldInv(p)' /\ files'[snap'[p]] = files[snap[p]]
          /\ \A n : Survivors(p, n)' = Survivors(p, n)
      BY <1>1, <1>6, <3>2, WritesOn
    <3>5. TempInv(p)'
      BY <1>1, <1>3, <1>6, <3>1, SealTemp
    <3>6. Copied(p)' = Survivors(p, cur[p] + 1)
      BY <1>2, <1>6, <2>2, <2>4, <3>2 DEF Copied
    <3>7. CopyInv(p)'
      BY <1>1, <1>3, <1>6, <2>1, <3>4, <3>6 DEF CopyInv
    <3>8. ProcInv(p)'
      BY <3>4, <3>5, <3>7 DEF ProcInv
    <3> QED
      BY <1>6, <2>1, <3>1, <3>2, <3>3, <3>8, WriteInv
  <2> QED
    BY <2>3, <2>4
<1> QED
  BY <1>4, <1>5, <1>6 DEF CopyEntry

LEMMA EntriesDoneInv ==
    ASSUME IInv, NEW p \in Procs, EntriesDone(p)
    PROVE  IInv'
<1> DEFINE es == files[snap[p]].entries
<1>1. CASE Refuse(p, EXIT_CANCELLED)
  BY <1>1, RefuseInv DEF Codes
<1>2. CASE /\ ~abort[p] /\ Goto(p, "inputs")
           /\ cur' = [cur EXCEPT ![p] = FirstInput(p)]
           /\ UNCHANGED <<fileVars, op, snap, rd, src, tmp, abort, res>>
  <2>1. /\ pc[p] = "entries" /\ pc[p] \in Rewriting /\ cur[p] = Len(es) /\ Typed /\ Exclusive
        /\ TempInv(p) /\ Copied(p) = Survivors(p, cur[p])
    BY DEF EntriesDone, Rewriting, Sealing, IInv, ProcInv, CopyInv
  <2>2. /\ pc'[p] = "inputs" /\ cur'[p] = 0 /\ pc'[p] \in Rewriting
        /\ \A q \in Procs : q # p => Same(q)
    BY <1>2, <2>1 DEF Typed, Goto, FirstInput, Same, Rewriting, Sealing
  <2>3. Typed' /\ Exclusive'
    BY <1>2, <2>1 DEF Typed, Goto, FirstInput, fileVars, Ids, Places, Exclusive
  <2>4. /\ PlaceInv(p)' /\ HoldInv(p)' /\ files'[snap'[p]] = files[snap[p]]
        /\ \A n : Survivors(p, n)' = Survivors(p, n)
    BY <1>2, <2>1, <2>2, WritesOn DEF fileVars
  <2>5. TempInv(p)'
    BY <1>2, <2>1, <2>2 DEF TempInv, fileVars, Sealing, Complete
  <2>6. Copied(p)' = Survivors(p, Len(es)) /\ {Inputs(op[p])[j] : j \in 1..0} = {}
    BY <1>2, <2>1 DEF Copied, fileVars
  <2>7. CopyInv(p)'
    <3>1. Inputs(op'[p]) = Inputs(op[p]) /\ Len(Inputs(op[p])) \in Nat
      BY <1>2, <2>1, RewriteHas
    <3> QED
      BY <2>2, <2>4, <2>6, <3>1 DEF CopyInv, Complete
  <2> QED
    BY <1>2, <2>2, <2>3, <2>4, <2>5, <2>7, QuietInv DEF ProcInv
<1> QED
  BY <1>1, <1>2 DEF EntriesDone

LEMMA AddInputInv ==
    ASSUME IInv, NEW p \in Procs, AddInput(p)
    PROVE  IInv'
<1> DEFINE ins  == Inputs(op[p])
           name == ins[cur[p] + 1]
           all  == Survivors(p, Len(files[snap[p]].entries))
<1>1. /\ pc[p] = "inputs" /\ pc[p] \in Sealing /\ pc[p] \in Rewriting
      /\ pc[p] \notin Complete /\ cur[p] < Len(ins)
  BY DEF AddInput, Sealing, Rewriting, Complete
<1>2. /\ Typed /\ TempInv(p) /\ cur[p] \in Nat /\ ins \in Seq(Entries) /\ Len(ins) \in Nat
      /\ Copied(p) = all \cup {ins[i] : i \in 1..cur[p]} /\ op[p] \in Ops /\ tmp[p] # 0
  BY <1>1, RewriteHas DEF IInv, ProcInv, CopyInv
<1>3. CASE GiveUp(p, EXIT_IO)
  BY <1>1, <1>3, GiveUpInv DEF Codes
<1>4. CASE /\ ~abort[p] /\ Seal(p, op[p].names[cur[p] + 1])
           /\ cur' = [cur EXCEPT ![p] = @ + 1]
           /\ UNCHANGED <<at, temps, edits, kept, pc, op, snap, rd, src, tmp, abort, res>>
  <2>1. ins = op[p].names /\ name \in Entries /\ cur[p] + 1 <= Len(ins)
    <3>1. name \in Entries /\ cur[p] + 1 <= Len(ins)
      BY <1>1, <1>2
    <3>2. op[p].kind = "add"
      BY <1>1, <1>2 DEF Inputs
    <3> QED
      BY <3>1, <3>2 DEF Inputs
  <2>2. Seal(p, name)
    BY <1>4, <2>1
  <2>3. cur'[p] = cur[p] + 1 /\ cur' \in [Procs -> Nat] /\ \A q \in Procs : q # p => Same(q)
    BY <1>2, <1>4 DEF Typed, Same
  <2>4. /\ files' \in Seq(Files) /\ Len(files') = Len(files)
        /\ \A f \in Ids : f # tmp[p] => files'[f] = files[f]
        /\ files'[tmp[p]].key = files[tmp[p]].key
        /\ ToSet(files'[tmp[p]].entries) = Copied(p) \cup {name}
        /\ used' = used \cup {Stream(p)} /\ used' \subseteq Ids \X Nat \X Ids
    BY <1>2, <2>1, <2>2, SealIs
  <2>5. Typed'
    BY <1>2, <1>4, <2>3, <2>4 DEF Typed, Ids
  <2>6. /\ PlaceInv(p)' /\ HoldInv(p)' /\ files'[snap'[p]] = files[snap[p]]
        /\ \A n : Survivors(p, n)' = Survivors(p, n)
    BY <1>1, <1>4, <2>4, WritesOn
  <2>7. TempInv(p)'
    BY <1>1, <1>4, <2>1, <2>2, SealTemp
  <2>8. {ins[i] : i \in 1..(cur[p] + 1)} = {ins[i] : i \in 1..cur[p]} \cup {name}
    <3>1. 1..(cur[p] + 1) = (1..cur[p]) \cup {cur[p] + 1}
      BY <1>2
    <3> QED
      BY <3>1
  <2>9. Copied(p)' = all \cup {ins[i] : i \in 1..(cur[p] + 1)}
    BY <1>2, <1>4, <2>4, <2>8 DEF Copied
  <2>10. CopyInv(p)'
    BY <1>1, <1>4, <2>1, <2>3, <2>6, <2>9 DEF CopyInv
  <2>11. ProcInv(p)'
    BY <2>6, <2>7, <2>10 DEF ProcInv
  <2> QED
    BY <1>2, <1>4, <2>3, <2>4, <2>5, <2>11, WriteInv
<1> QED
  BY <1>3, <1>4 DEF AddInput

\* One field of a temporary set to TRUE.
LEMMA MarkIs ==
    ASSUME Typed, NEW t \in Ids, NEW g \in Files, files' = [files EXCEPT ![t] = g]
    PROVE  /\ files' \in Seq(Files) /\ Len(files') = Len(files) /\ files'[t] = g
           /\ \A f \in Ids : f # t => files'[f] = files[f]
  BY DEF Typed, Ids

LEMMA WriteIndexInv ==
    ASSUME IInv, NEW p \in Procs, WriteIndex(p)
    PROVE  IInv'
<1> DEFINE t == tmp[p]
           g == [files[t] EXCEPT !.whole = TRUE]
<1>1. CASE Refuse(p, EXIT_IO)
  BY <1>1, RefuseInv DEF Codes
<1>2. CASE /\ files' = [files EXCEPT ![t].whole = TRUE]
           /\ used' = IF files[t].entries = <<>> THEN used \cup {Stream(p)} ELSE used
           /\ Goto(p, "flush")
           /\ UNCHANGED <<at, temps, edits, kept, op, snap, rd, src, tmp, cur, abort, res>>
  <2>1. /\ pc[p] = "inputs" /\ pc[p] \in Rewriting /\ pc[p] \notin Complete /\ pc[p] # "commit"
        /\ cur[p] = Len(Inputs(op[p])) /\ Typed /\ TempInv(p) /\ t \in Ids /\ t # 0
        /\ op[p] \in Ops /\ Inputs(op[p]) \in Seq(Entries)
        /\ Copied(p) = Survivors(p, Len(files[snap[p]].entries))
                         \cup {Inputs(op[p])[i] : i \in 1..cur[p]}
    BY RewriteHas DEF WriteIndex, Rewriting, Sealing, Complete, IInv, ProcInv, CopyInv
  <2>2. files[t] \in Files
    BY <2>1, FileIs
  <2>3. /\ g \in Files /\ g.key = files[t].key /\ g.entries = files[t].entries /\ g.whole
        /\ g.flushed = files[t].flushed
    BY <2>2 DEF Files
  <2>4. files' = [files EXCEPT ![t] = g]
    BY <1>2
  <2> HIDE DEF g
  <2>5. /\ files' \in Seq(Files) /\ Len(files') = Len(files) /\ files'[t] = g
        /\ \A f \in Ids : f # t => files'[f] = files[f]
    BY <2>1, <2>3, <2>4, MarkIs
  <2>6. used' \subseteq Ids \X Nat \X Ids
    BY <1>2, <2>1, StreamType DEF Typed
  <2>7. /\ pc'[p] = "flush" /\ pc'[p] \in Rewriting /\ pc'[p] \in Complete
        /\ pc'[p] \notin Sealing /\ pc'[p] # "commit"
        /\ \A q \in Procs : q # p => Same(q)
    BY <1>2, <2>1 DEF Typed, Goto, Same, Rewriting, Sealing, Complete
  <2>8. Typed'
    <3>1. pc' \in [Procs -> Places]
      BY <1>2, <2>1 DEF Typed, Goto, Places
    <3> QED
      BY <1>2, <2>1, <2>5, <2>6, <3>1 DEF Typed, Ids
  <2>9. /\ PlaceInv(p)' /\ HoldInv(p)' /\ files'[snap'[p]] = files[snap[p]]
        /\ \A n : Survivors(p, n)' = Survivors(p, n)
    BY <1>2, <2>1, <2>5, <2>7, WritesOn
  <2>10. TempInv(p)'
    BY <1>2, <2>1, <2>3, <2>5, <2>7 DEF TempInv
  <2>11. Copied(p)' = Survivors(p, Len(files[snap[p]].entries)) \cup ToSet(Inputs(op[p]))
    BY <1>2, <2>1, <2>3, <2>5, ToSetIs DEF Copied
  <2>12. CopyInv(p)'
    BY <1>2, <2>7, <2>9, <2>11 DEF CopyInv
  <2>13. ProcInv(p)'
    BY <2>9, <2>10, <2>12 DEF ProcInv
  <2> QED
    BY <1>2, <2>1, <2>3, <2>5, <2>7, <2>8, <2>13, WriteInv
<1> QED
  BY <1>1, <1>2 DEF WriteIndex

LEMMA FlushInv ==
    ASSUME IInv, NEW p \in Procs, Flush(p)
    PROVE  IInv'
<1> DEFINE t == tmp[p]
           g == [files[t] EXCEPT !.flushed = TRUE]
<1>1. CASE Fail(p, EXIT_IO)
  BY <1>1, FailInv DEF Codes
<1>2. CASE /\ ~abort[p] /\ files' = [files EXCEPT ![t].flushed = TRUE]
           /\ Goto(p, "commit")
           /\ UNCHANGED <<at, temps, used, edits, kept, op, snap, rd, src, tmp, cur, abort, res>>
  <2>1. /\ pc[p] = "flush" /\ pc[p] \in Rewriting /\ pc[p] \in Complete
        /\ Typed /\ TempInv(p) /\ t \in Ids /\ t # 0
        /\ Copied(p) = Survivors(p, Len(files[snap[p]].entries)) \cup ToSet(Inputs(op[p]))
    BY RewriteHas DEF Flush, Rewriting, Complete, IInv, ProcInv, CopyInv
  <2>2. files[t] \in Files
    BY <2>1, FileIs
  <2>3. /\ g \in Files /\ g.key = files[t].key /\ g.entries = files[t].entries
        /\ g.whole = files[t].whole /\ g.flushed
    BY <2>2 DEF Files
  <2>4. files' = [files EXCEPT ![t] = g]
    BY <1>2
  <2> HIDE DEF g
  <2>5. /\ files' \in Seq(Files) /\ Len(files') = Len(files) /\ files'[t] = g
        /\ \A f \in Ids : f # t => files'[f] = files[f]
    BY <2>1, <2>3, <2>4, MarkIs
  <2>6. /\ pc'[p] = "commit" /\ pc'[p] \in Rewriting /\ pc'[p] \in Complete
        /\ pc'[p] \notin Sealing
        /\ \A q \in Procs : q # p => Same(q)
    BY <1>2, <2>1 DEF Typed, Goto, Same, Rewriting, Sealing, Complete
  <2>7. Typed'
    <3>1. pc' \in [Procs -> Places]
      BY <1>2, <2>1 DEF Typed, Goto, Places
    <3> QED
      BY <1>2, <2>1, <2>5, <3>1 DEF Typed, Ids
  <2>8. /\ PlaceInv(p)' /\ HoldInv(p)' /\ files'[snap'[p]] = files[snap[p]]
        /\ \A n : Survivors(p, n)' = Survivors(p, n)
    BY <1>2, <2>1, <2>5, <2>6, WritesOn
  <2>9. TempInv(p)'
    BY <1>2, <2>1, <2>3, <2>5, <2>6 DEF TempInv
  <2>10. Copied(p)' = Survivors(p, Len(files[snap[p]].entries)) \cup ToSet(Inputs(op[p]))
    BY <1>2, <2>1, <2>3, <2>5 DEF Copied
  <2>11. CopyInv(p)'
    BY <1>2, <2>6, <2>8, <2>10 DEF CopyInv
  <2>12. ProcInv(p)'
    BY <2>8, <2>9, <2>11 DEF ProcInv
  <2> QED
    BY <1>2, <2>1, <2>3, <2>5, <2>6, <2>7, <2>12, WriteInv
<1> QED
  BY <1>1, <1>2 DEF Flush

-----------------------------------------------------------------------------
(* The exchange, and what happens to processes and to the name.            *)

\* A process that is done has nothing; the others are where they were.
LEMMA CloseIs ==
    ASSUME Typed, NEW p \in Procs, NEW code \in Codes, NEW gone, Close(p, code, gone)
    PROVE  /\ pc'[p] = "idle" /\ snap'[p] = 0 /\ rd'[p] = 0 /\ src'[p] = 0 /\ tmp'[p] = 0
           /\ cur'[p] = 0 /\ temps' = temps \ gone
           /\ \A q \in Procs : q # p => Same(q)
           /\ pc' \in [Procs -> Places] /\ op' \in [Procs -> Ops \cup {None}]
           /\ snap' \in [Procs -> Ids \cup {0}] /\ rd' \in [Procs -> Ids \cup {0}]
           /\ src' \in [Procs -> Ids \cup {0}] /\ tmp' \in [Procs -> Ids \cup {0}]
           /\ cur' \in [Procs -> Nat] /\ abort' \in [Procs -> BOOLEAN] /\ res' \in [Procs -> Codes]
<1>1. /\ pc' = [pc EXCEPT ![p] = "idle"] /\ op' = [op EXCEPT ![p] = None]
      /\ snap' = [snap EXCEPT ![p] = 0] /\ rd' = [rd EXCEPT ![p] = 0]
      /\ src' = [src EXCEPT ![p] = 0] /\ tmp' = [tmp EXCEPT ![p] = 0]
      /\ cur' = [cur EXCEPT ![p] = 0] /\ abort' = [abort EXCEPT ![p] = FALSE]
      /\ res' = [res EXCEPT ![p] = code] /\ temps' = temps \ gone
  BY DEF Close, Goto
<1>2. /\ pc' \in [Procs -> Places] /\ op' \in [Procs -> Ops \cup {None}]
      /\ cur' \in [Procs -> Nat] /\ abort' \in [Procs -> BOOLEAN] /\ res' \in [Procs -> Codes]
  BY <1>1 DEF Typed, Places
<1>3. /\ snap' \in [Procs -> Ids \cup {0}] /\ rd' \in [Procs -> Ids \cup {0}]
      /\ src' \in [Procs -> Ids \cup {0}] /\ tmp' \in [Procs -> Ids \cup {0}]
  BY <1>1 DEF Typed
<1>4. /\ pc'[p] = "idle" /\ snap'[p] = 0 /\ rd'[p] = 0 /\ src'[p] = 0 /\ tmp'[p] = 0
      /\ cur'[p] = 0 /\ \A q \in Procs : q # p => Same(q)
  BY <1>1 DEF Typed, Same
<1> QED
  BY <1>1, <1>2, <1>3, <1>4

\* What a process has when it is about to commit.
LEMMA CommitHas ==
    ASSUME IInv, NEW p \in Procs, pc[p] = "commit"
    PROVE  /\ tmp[p] \in Ids /\ tmp[p] \in temps /\ tmp[p] \notin kept /\ files[tmp[p]].key = tmp[p]
           /\ files[tmp[p]].whole /\ files[tmp[p]].flushed
           /\ src[p] = at /\ at \in Ids
           /\ \A q \in Procs : q # p => src[q] = 0 /\ tmp[q] # tmp[p]
<1>1. pc[p] \in Rewriting /\ pc[p] \in Complete
  BY DEF Rewriting, Complete
<1>2. /\ tmp[p] \in Ids /\ src[p] \in Ids /\ src[p] = at /\ tmp[p] # 0
  BY <1>1, RewriteHas
<1>3. ASSUME NEW q \in Procs, q # p PROVE src[q] = 0 /\ tmp[q] # tmp[p]
  BY <1>2, <1>3 DEF IInv, Exclusive, ProcInv, HoldInv, Ids
<1>4. TempInv(p)
  BY DEF IInv, ProcInv
<1> QED
  BY <1>1, <1>2, <1>3, <1>4 DEF TempInv

LEMMA CommitInv ==
    ASSUME IInv, NEW p \in Procs, Commit(p)
    PROVE  IInv'
<1> DEFINE t == tmp[p]
<1>1. /\ pc[p] = "commit" /\ Typed /\ KeyInv /\ NameInv /\ KeptInv /\ UsedInv /\ Exclusive
  BY DEF Commit, IInv
<1>2. /\ t \in Ids /\ t \in temps /\ t \notin kept /\ files[t].whole /\ files[t].flushed
      /\ at \in Ids /\ \A q \in Procs : q # p => src[q] = 0 /\ tmp[q] # t
  BY <1>1, CommitHas
<1>3. CASE /\ Replaceable(at) /\ at' = t
           /\ edits' = edits + 1 /\ Close(p, EXIT_OK, {t})
           /\ UNCHANGED <<files, used, kept>>
  <2>1. EXIT_OK \in Codes
    BY DEF Codes
  <2>2. /\ pc'[p] = "idle" /\ snap'[p] = 0 /\ rd'[p] = 0 /\ src'[p] = 0 /\ tmp'[p] = 0
        /\ cur'[p] = 0 /\ temps' = temps \ {t} /\ \A q \in Procs : q # p => Same(q)
    BY <1>1, <1>3, <2>1, CloseIs
  <2>3. Typed'
    <3>1. /\ pc' \in [Procs -> Places] /\ op' \in [Procs -> Ops \cup {None}]
          /\ snap' \in [Procs -> Ids \cup {0}] /\ rd' \in [Procs -> Ids \cup {0}]
          /\ src' \in [Procs -> Ids \cup {0}] /\ tmp' \in [Procs -> Ids \cup {0}]
          /\ cur' \in [Procs -> Nat] /\ abort' \in [Procs -> BOOLEAN] /\ res' \in [Procs -> Codes]
      BY <1>1, <1>3, <2>1, CloseIs
    <3>2. files' = files /\ Ids' = Ids /\ kept' = kept /\ used' = used /\ at' \in Ids
      BY <1>2, <1>3 DEF Ids
    <3>3. temps' \subseteq Ids /\ edits' \in Nat
      BY <1>1, <1>3, <2>2 DEF Typed
    <3> QED
      BY <1>1, <3>1, <3>2, <3>3 DEF Typed
  <2>4. KeyInv' /\ NameInv' /\ KeptInv' /\ UsedInv'
    BY <1>1, <1>2, <1>3, <2>2 DEF KeyInv, NameInv, KeptInv, UsedInv, Ids
  <2>5. Exclusive'
    BY <1>1, <2>2, ReleaseInv DEF Same
  <2>6. ASSUME NEW q \in Procs PROVE ProcInv(q)'
    <3>1. CASE q = p
      BY <2>2, <3>1, IdleInv
    <3>2. CASE q # p
      <4>1. Same(q) /\ TempInv(q) /\ src[q] = 0 /\ tmp[q] # t
        BY <1>2, <2>2, <3>2 DEF IInv, ProcInv
      <4>2. Undisturbed(q)
        BY <1>3, <2>2, <4>1 DEF Same, Undisturbed, TempInv
      <4> QED
        BY <4>2, UndisturbedInv
    <3> QED
      BY <3>1, <3>2
  <2> QED
    BY <2>3, <2>4, <2>5, <2>6 DEF IInv
<1>4. CASE /\ at' = at \/ (Replaceable(at) /\ at' = 0)
           /\ kept' = kept \cup {t} /\ Close(p, EXIT_PARTIAL, Abandoned(p))
           /\ UNCHANGED <<files, used, edits>>
  <2>1. EXIT_PARTIAL \in Codes
    BY DEF Codes
  <2>2. /\ pc'[p] = "idle" /\ snap'[p] = 0 /\ rd'[p] = 0 /\ src'[p] = 0 /\ tmp'[p] = 0
        /\ cur'[p] = 0 /\ temps' = temps /\ \A q \in Procs : q # p => Same(q)
    <3>1. Close(p, EXIT_PARTIAL, {}) /\ temps \ {} = temps
      BY <1>4 DEF Abandoned
    <3> QED
      BY <1>1, <2>1, <3>1, CloseIs
  <2>3. Typed'
    <3>1. /\ pc' \in [Procs -> Places] /\ op' \in [Procs -> Ops \cup {None}]
          /\ snap' \in [Procs -> Ids \cup {0}] /\ rd' \in [Procs -> Ids \cup {0}]
          /\ src' \in [Procs -> Ids \cup {0}] /\ tmp' \in [Procs -> Ids \cup {0}]
          /\ cur' \in [Procs -> Nat] /\ abort' \in [Procs -> BOOLEAN] /\ res' \in [Procs -> Codes]
      BY <1>1, <1>4, <2>1, CloseIs
    <3>2. /\ files' = files /\ Ids' = Ids /\ at' \in Ids \cup {0} /\ temps' \subseteq Ids
          /\ kept' \subseteq Ids /\ used' = used /\ edits' \in Nat
      BY <1>1, <1>2, <1>4, <2>2 DEF Typed, Ids
    <3> QED
      BY <1>1, <3>1, <3>2 DEF Typed
  <2>4. KeyInv' /\ NameInv' /\ KeptInv' /\ UsedInv'
    BY <1>1, <1>2, <1>4, <2>2 DEF KeyInv, NameInv, KeptInv, UsedInv, Ids
  <2>5. Exclusive'
    BY <1>1, <2>2, ReleaseInv DEF Same
  <2>6. ASSUME NEW q \in Procs PROVE ProcInv(q)'
    <3>1. CASE q = p
      BY <2>2, <3>1, IdleInv
    <3>2. CASE q # p
      <4>1. Same(q) /\ TempInv(q) /\ src[q] = 0 /\ tmp[q] # t
        BY <1>2, <2>2, <3>2 DEF IInv, ProcInv
      <4>2. Undisturbed(q)
        BY <1>4, <2>2, <4>1 DEF Same, Undisturbed, TempInv
      <4> QED
        BY <4>2, UndisturbedInv
    <3> QED
      BY <3>1, <3>2
  <2> QED
    BY <2>3, <2>4, <2>5, <2>6 DEF IInv
<1> QED
  BY <1>3, <1>4 DEF Commit

LEMMA CancelInv ==
    ASSUME IInv, NEW p \in Procs, Cancel(p)
    PROVE  IInv'
<1>1. Typed' /\ Exclusive'
  BY DEF IInv, Typed, Exclusive, Cancel, fileVars, Ids
<1>2. \A q \in Procs : Same(q)
  BY DEF Cancel, Same
<1>3. TempInv(p)
  BY DEF IInv, ProcInv
<1>4. Undisturbed(p)
  BY <1>2, <1>3 DEF Same, Undisturbed, TempInv, Cancel, fileVars
<1> QED
  BY <1>1, <1>2, <1>4, UndisturbedInv, QuietInv DEF Cancel

\* Processes that stop are idle; the files are not their concern.
LEMMA StopIs ==
    ASSUME Typed, NEW D \in SUBSET Procs, Stop(D)
    PROVE  /\ \A q \in D : /\ pc'[q] = "idle" /\ snap'[q] = 0 /\ rd'[q] = 0 /\ src'[q] = 0
                           /\ tmp'[q] = 0 /\ cur'[q] = 0
           /\ \A q \in Procs \ D : Same(q)
           /\ pc' \in [Procs -> Places] /\ op' \in [Procs -> Ops \cup {None}]
           /\ snap' \in [Procs -> Ids \cup {0}] /\ rd' \in [Procs -> Ids \cup {0}]
           /\ src' \in [Procs -> Ids \cup {0}] /\ tmp' \in [Procs -> Ids \cup {0}]
           /\ cur' \in [Procs -> Nat] /\ abort' \in [Procs -> BOOLEAN] /\ res' \in [Procs -> Codes]
<1>1. /\ \A q \in D : /\ pc'[q] = "idle" /\ snap'[q] = 0 /\ rd'[q] = 0 /\ src'[q] = 0
                      /\ tmp'[q] = 0 /\ cur'[q] = 0
      /\ \A q \in Procs \ D : Same(q)
  BY DEF Stop, Same
<1>2. pc' \in [Procs -> Places] /\ op' \in [Procs -> Ops \cup {None}]
  BY DEF Stop, Typed, Places
<1>3. /\ snap' \in [Procs -> Ids \cup {0}] /\ rd' \in [Procs -> Ids \cup {0}]
      /\ src' \in [Procs -> Ids \cup {0}] /\ tmp' \in [Procs -> Ids \cup {0}]
  BY DEF Stop, Typed
<1>4. cur' \in [Procs -> Nat] /\ abort' \in [Procs -> BOOLEAN] /\ res' \in [Procs -> Codes]
  BY DEF Stop, Typed, Codes
<1> QED
  BY <1>1, <1>2, <1>3, <1>4

LEMMA KilledInv ==
    ASSUME IInv, NEW p \in Procs, Killed(p)
    PROVE  IInv'
<1>1. Typed /\ Exclusive /\ Stop({p}) /\ UNCHANGED fileVars
  BY DEF IInv, Killed
<1>2. /\ pc'[p] = "idle" /\ snap'[p] = 0 /\ rd'[p] = 0 /\ src'[p] = 0 /\ tmp'[p] = 0 /\ cur'[p] = 0
      /\ \A q \in Procs : q # p => Same(q)
  BY <1>1, StopIs
<1>3. Typed'
  <2>1. /\ pc' \in [Procs -> Places] /\ op' \in [Procs -> Ops \cup {None}]
        /\ snap' \in [Procs -> Ids \cup {0}] /\ rd' \in [Procs -> Ids \cup {0}]
        /\ src' \in [Procs -> Ids \cup {0}] /\ tmp' \in [Procs -> Ids \cup {0}]
        /\ cur' \in [Procs -> Nat] /\ abort' \in [Procs -> BOOLEAN] /\ res' \in [Procs -> Codes]
    BY <1>1, StopIs
  <2> QED
    BY <1>1, <2>1 DEF Typed, fileVars, Ids
<1>4. Exclusive'
  BY <1>1, <1>2, ReleaseInv DEF Same
<1> QED
  BY <1>1, <1>2, <1>3, <1>4, IdleInv, QuietInv

LEMMA PowerCutInv ==
    ASSUME IInv, PowerCut
    PROVE  IInv'
<1>1. Typed /\ KeyInv /\ NameInv /\ KeptInv /\ UsedInv /\ Exclusive /\ Stop(Procs)
  BY DEF IInv, PowerCut
<1>2. \A f \in Ids : files[f] \in Files
  BY <1>1, FileIs
<1>3. /\ \A f \in Ids : files'[f] \in Files /\ files'[f].key = files[f].key
      /\ \A f \in Ids : files[f].flushed => files'[f] = files[f]
      /\ files' \in Seq(Files) /\ Len(files') = Len(files)
  <2> DEFINE h(f) == IF files[f].flushed THEN files[f] ELSE [files[f] EXCEPT !.whole = FALSE]
  <2>1. files' = [f \in 1..Len(files) |-> h(f)] /\ Len(files) \in Nat
    BY <1>1 DEF PowerCut, Typed
  <2>2. \A f \in Ids : h(f) \in Files /\ h(f).key = files[f].key /\ (files[f].flushed => h(f) = files[f])
    BY <1>2 DEF Files
  <2> HIDE DEF h
  <2> QED
    BY <2>1, <2>2 DEF Ids
<1>4. Ids' = Ids /\ UNCHANGED <<at, temps, used, edits, kept>>
  BY <1>3 DEF Ids, PowerCut
<1>5. /\ \A q \in Procs : /\ pc'[q] = "idle" /\ snap'[q] = 0 /\ rd'[q] = 0 /\ src'[q] = 0
                          /\ tmp'[q] = 0 /\ cur'[q] = 0
      /\ pc' \in [Procs -> Places] /\ op' \in [Procs -> Ops \cup {None}]
      /\ snap' \in [Procs -> Ids \cup {0}] /\ rd' \in [Procs -> Ids \cup {0}]
      /\ src' \in [Procs -> Ids \cup {0}] /\ tmp' \in [Procs -> Ids \cup {0}]
      /\ cur' \in [Procs -> Nat] /\ abort' \in [Procs -> BOOLEAN] /\ res' \in [Procs -> Codes]
  BY <1>1, StopIs
<1>6. Typed'
  BY <1>1, <1>3, <1>4, <1>5 DEF Typed
<1>7. KeyInv' /\ NameInv' /\ KeptInv' /\ UsedInv'
  BY <1>1, <1>3, <1>4 DEF KeyInv, NameInv, KeptInv, UsedInv, Typed
<1>8. Exclusive'
  BY <1>5 DEF Exclusive
<1>9. \A q \in Procs : ProcInv(q)'
  BY <1>5, IdleInv
<1> QED
  BY <1>6, <1>7, <1>8, <1>9 DEF IInv

LEMMA PackedOverInv ==
    ASSUME IInv, PackedOver
    PROVE  IInv'
<1> DEFINE n == Len(files) + 1
           g == [key |-> n, entries |-> Packed, whole |-> TRUE, flushed |-> TRUE]
<1>1. Typed /\ Len(files) \in Nat /\ n \notin temps
  BY DEF IInv, Typed, Ids
<1>2. g \in Files /\ g.key = n /\ g.whole /\ g.flushed
  BY <1>1, EditAssumption DEF Files
<1>3. /\ files' = Append(files, g) /\ at' = n /\ Len(files) < MaxFiles
      /\ used' = used \cup Sealed(n, Packed)
      /\ UNCHANGED <<temps, edits, kept, procVars>> /\ (at = 0 \/ Unheld(at))
  BY DEF PackedOver
<1>4. \A s \in Sealed(n, Packed) : s \in {n} \X Nat \X {n}
  BY <1>1, EditAssumption DEF Sealed
<1> HIDE DEF g
<1> QED
  BY <1>1, <1>2, <1>3, <1>4, ArriveInv

LEMMA CopyRestoredInv ==
    ASSUME IInv, CopyRestored
    PROVE  IInv'
<1>1. PICK f \in DOMAIN files \ temps :
         files[f].whole /\ files[f].flushed /\ files' = Append(files, files[f])
  BY DEF CopyRestored
<1>2. /\ Typed /\ KeyInv /\ f \in Ids /\ Len(files) \in Nat
  BY <1>1 DEF IInv, Typed, Ids
<1>3. /\ files[f] \in Files /\ files[f].key \in 1..(Len(files) + 1)
      /\ files[f].key \notin temps
  BY <1>1, <1>2, FileIs DEF KeyInv, Ids
<1>4. /\ at' = Len(files) + 1 /\ Len(files) < MaxFiles /\ used' = used
      /\ UNCHANGED <<temps, edits, kept, procVars>> /\ (at = 0 \/ Unheld(at))
  BY DEF CopyRestored
<1> QED
  BY <1>1, <1>3, <1>4, ArriveInv

LEMMA NextInv == IInv /\ [Next]_vars => IInv'
<1> SUFFICES ASSUME IInv, [Next]_vars PROVE IInv'
  OBVIOUS
<1>1. ASSUME NEW p \in Procs, Step(p) PROVE IInv'
  BY <1>1, IdxOpenInv, IdxReadInv, LockInv, VerifyInv, CreateTempInv, CopyEntryInv,
     EntriesDoneInv, AddInputInv, WriteIndexInv, FlushInv, CommitInv DEF Step
<1>2. CASE Environment
  BY <1>2, CancelInv, KilledInv, BeginInv, PowerCutInv, PackedOverInv, CopyRestoredInv
     DEF Environment
<1>3. CASE UNCHANGED vars
  <2>1. UNCHANGED fileVars /\ Typed' /\ Exclusive' /\ Ids' = Ids
    BY <1>3 DEF vars, fileVars, procVars, IInv, Typed, Ids, Exclusive
  <2>2. ASSUME NEW q \in Procs PROVE ProcInv(q)'
    <3>1. TempInv(q)
      BY DEF IInv, ProcInv
    <3>2. Undisturbed(q)
      BY <1>3, <3>1 DEF vars, fileVars, procVars, Undisturbed, TempInv
    <3> QED
      BY <3>2, UndisturbedInv
  <2>3. KeyInv' /\ NameInv' /\ KeptInv' /\ UsedInv'
    BY <2>1 DEF IInv, fileVars, KeyInv, NameInv, KeptInv, UsedInv
  <2> QED
    BY <2>1, <2>2, <2>3 DEF IInv
<1> QED
  BY <1>1, <1>2, <1>3 DEF Next

\* The inductive invariant holds in every reachable state.
THEOREM Invariant == Spec => []IInv
<1> QED
  BY InitInv, NextInv, PTL DEF Spec

-----------------------------------------------------------------------------
(* What follows of the invariant.                                          *)

\* Every variable keeps its type, and a held source is one process's alone.
THEOREM TypeCorrect == Spec => []TypeOK
<1>1. IInv => TypeOK
  <2> SUFFICES ASSUME IInv PROVE TypeOK
    OBVIOUS
  <2>1. Typed /\ KeyInv /\ Exclusive /\ DOMAIN files = Ids
    BY DEF IInv, Typed, Ids
  <2>2. ASSUME NEW f \in DOMAIN files
        PROVE  files[f] \in [key : DOMAIN files, entries : Seq(Entries), whole : BOOLEAN, flushed : BOOLEAN]
    <3>1. files[f] \in Files /\ files[f].key \in DOMAIN files
      BY <2>1, FileIs DEF KeyInv
    <3> QED
      BY <3>1 DEF Files
  <2>3. /\ at \in FileIds /\ temps \subseteq DOMAIN files /\ kept \subseteq DOMAIN files
        /\ used \subseteq (DOMAIN files) \X Nat \X (DOMAIN files) /\ edits \in Nat
    BY <2>1 DEF Typed, FileIds
  <2>4. ASSUME NEW p \in Procs
        PROVE  /\ pc[p] \in Places /\ op[p] \in Ops \cup {None} /\ cur[p] \in Nat
               /\ {snap[p], rd[p], src[p], tmp[p]} \subseteq FileIds
               /\ abort[p] \in BOOLEAN
               /\ res[p] \in {EXIT_OK, EXIT_USAGE, EXIT_IO, EXIT_CORRUPT, EXIT_PARTIAL, EXIT_CANCELLED}
               /\ \A q \in Procs : p # q /\ src[p] # 0 => src[p] # src[q] /\ src[p] # rd[q]
    <3>1. /\ pc[p] \in Places /\ op[p] \in Ops \cup {None} /\ cur[p] \in Nat
          /\ abort[p] \in BOOLEAN /\ res[p] \in Codes
      BY <2>1 DEF Typed
    <3>2. {snap[p], rd[p], src[p], tmp[p]} \subseteq FileIds
      BY <2>1 DEF Typed, FileIds
    <3> QED
      BY <2>1, <3>1, <3>2 DEF Exclusive, Codes
  <2> QED
    BY <2>2, <2>3, <2>4 DEF TypeOK
<1> QED
  BY <1>1, Invariant, PTL

\* No two containers ever hold streams sealed under one key and one ordinal.
THEOREM NonceUnique == Spec => []NonceOnce
<1>1. IInv => NonceOnce
  <2> SUFFICES ASSUME IInv, NEW s \in used, NEW t \in used, s[1] = t[1], s[2] = t[2]
               PROVE  s = t
    BY DEF NonceOnce
  <2>1. s \in Ids \X Nat \X Ids /\ t \in Ids \X Nat \X Ids /\ s[1] = s[3] /\ t[1] = t[3]
    BY DEF IInv, Typed, UsedInv
  <2>2. \A x \in Ids \X Nat \X Ids : \E a \in Ids, n \in Nat, b \in Ids : x = <<a, n, b>>
    BY Z3
  <2>3. PICK a \in Ids, n \in Nat, b \in Ids : s = <<a, n, b>>
    BY <2>1, <2>2
  <2>4. PICK c \in Ids, m \in Nat, d \in Ids : t = <<c, m, d>>
    BY <2>1, <2>2
  <2> QED
    BY <2>1, <2>3, <2>4
<1> QED
  BY <1>1, Invariant, PTL

\* And the stream that a rewrite is about to seal has never been sealed: not by
\* an entry given up, not by another process, not in a copy of the container.
THEOREM NextStreamIsNew == Spec => [](\A p \in Procs : pc[p] \in Sealing => Stream(p) \notin used)
<1>1. IInv => \A p \in Procs : pc[p] \in Sealing => Stream(p) \notin used
  <2> SUFFICES ASSUME IInv, NEW p \in Procs, pc[p] \in Sealing, Stream(p) \in used
               PROVE  FALSE
    OBVIOUS
  <2>1. TempInv(p) /\ tmp[p] # 0 /\ Typed
    BY DEF IInv, ProcInv, PlaceInv, Rewriting
  <2>2. /\ Stream(p)[3] = tmp[p] /\ Stream(p)[2] = Len(files[tmp[p]].entries)
        /\ Len(files[tmp[p]].entries) \in Nat
    BY <2>1, StreamType, FileIs
  <2>3. Stream(p)[2] < Len(files[tmp[p]].entries)
    BY <2>1, <2>2 DEF TempInv
  <2> QED
    BY <2>2, <2>3
<1> QED
  BY <1>1, Invariant, PTL

\* What a failed commit leaves aside stays there, whole.
THEOREM KeptStays == Spec => []KeptSurvives
<1>1. IInv => KeptSurvives
  BY DEF IInv, KeptInv, KeptSurvives
<1> QED
  BY <1>1, Invariant, PTL

-----------------------------------------------------------------------------
(* Edits are atomic: the refinement of AtomicContainer, step by step.      *)

\* What AtomicContainer sees.
Current == IF at = 0 THEN [key |-> 0, entries |-> {}] ELSE Content(at)
Keeps   == {Content(f) : f \in kept}

\* A container under the name, or set aside, is one of AtomicContainer's.
LEMMA ContentIs ==
    ASSUME Typed, KeyInv, NEW f \in Ids, files[f].whole
    PROVE  /\ Content(f) = [key |-> files[f].key, entries |-> ToSet(files[f].entries)]
           /\ Content(f) \in Atomic!Containers /\ Content(f) # Atomic!Missing
           /\ Content(f).key = files[f].key /\ Content(f).entries = ToSet(files[f].entries)
<1>1. Content(f) = [key |-> files[f].key, entries |-> ToSet(files[f].entries)]
  BY DEF Content
<1>2. files[f].key \in 1..MaxFiles /\ files[f].key # 0
  BY EditAssumption DEF KeyInv, Typed, Ids
<1>3. ToSet(files[f].entries) \in SUBSET Entries
  BY FileIs, ToSetIs
<1>4. /\ Content(f).key = files[f].key /\ Content(f).entries = ToSet(files[f].entries)
  BY <1>1
<1>5. Content(f) \in Atomic!Containers
  BY <1>1, <1>2, <1>3 DEF Atomic!Containers
<1>6. Content(f) # Atomic!Missing
  BY <1>2, <1>4 DEF Atomic!Missing
<1> QED
  BY <1>1, <1>4, <1>5, <1>6

\* What a committing process has made of the container under the name.
LEMMA CommitsAnEdit ==
    ASSUME IInv, NEW p \in Procs, pc[p] = "commit"
    PROVE  Content(tmp[p]) \in Atomic!EditsOf(Content(at))
<1> DEFINE t  == tmp[p]
           es == files[snap[p]].entries
           o  == op[p]
<1>1. /\ Typed /\ KeyInv /\ NameInv
      /\ Copied(p) = Survivors(p, Len(es)) \cup ToSet(Inputs(o))
  BY DEF IInv, ProcInv, CopyInv, Complete
<1>2. /\ t \in Ids /\ t \in temps /\ files[t].key = t /\ files[t].whole /\ at \in Ids
  BY CommitHas
<1>3. pc[p] \in Rewriting
  BY DEF Rewriting, Complete
<1>4. /\ files[at] = files[snap[p]] /\ o \in Ops /\ Found(o, ToSet(es)) /\ ~NameClash(o, es)
      /\ es \in Seq(Entries) /\ Len(es) \in Nat
  BY <1>3, RewriteHas
<1>5. at # 0 /\ at \notin temps /\ files[at].whole
  BY <1>1, <1>2 DEF NameInv, Ids
<1>6. files[at].key # t
  BY <1>1, <1>2, <1>5 DEF KeyInv
<1>7. /\ Content(t) \in Atomic!Containers /\ Content(t).key = t /\ Content(t).entries = Copied(p)
      /\ Content(at).key = files[at].key /\ Content(at).entries = ToSet(es)
  BY <1>1, <1>2, <1>4, <1>5, ContentIs DEF Copied
<1>8. CASE o.kind = "add"
  <2>1. o.names \in Adds /\ Inputs(o) = o.names /\ ToSet(o.names) \cap ToSet(es) = {}
    BY <1>4, <1>8, OpType DEF NameClash
  <2>2. Survivors(p, Len(es)) = ToSet(es)
    <3>1. \A e : ~Dropped(p, e)
      BY <1>8 DEF Dropped
    <3>2. Survivors(p, Len(es)) = {es[i] : i \in {j \in 1..Len(es) : TRUE}}
      BY <3>1 DEF Survivors
    <3> QED
      BY <1>4, <3>2, ToSetIs
  <2>3. Content(t).entries = Content(at).entries \cup ToSet(o.names)
    BY <1>1, <1>7, <2>1, <2>2
  <2>4. ToSet(o.names) \in {ToSet(a) : a \in Adds}
    BY <2>1
  <2> QED
    BY <1>6, <1>7, <2>1, <2>3, <2>4 DEF Atomic!EditsOf
<1>9. CASE o.kind = "remove"
  <2>1. o.names \in Removes /\ Inputs(o) = <<>> /\ (\A n \in o.names : n \cap ToSet(es) # {})
    BY <1>4, <1>9, OpType DEF Found
  <2>2. Survivors(p, Len(es)) = ToSet(es) \ UNION o.names
    <3>1. \A e : Dropped(p, e) <=> e \in UNION o.names
      BY <1>9 DEF Dropped
    <3>2. Survivors(p, Len(es)) = {es[i] : i \in {j \in 1..Len(es) : es[j] \notin UNION o.names}}
      BY <3>1 DEF Survivors
    <3>3. ToSet(es) = {es[i] : i \in 1..Len(es)}
      BY <1>4, ToSetIs
    <3> QED
      BY <3>2, <3>3
  <2>3. ToSet(<<>>) = {}
    BY DEF ToSet
  <2>4. Content(t).entries = Content(at).entries \ UNION o.names
    BY <1>1, <1>7, <2>1, <2>2, <2>3
  <2> QED
    BY <1>6, <1>7, <2>1, <2>4 DEF Atomic!EditsOf
<1> QED
  BY <1>4, <1>8, <1>9, OpType

\* Until its commit an operation shows nothing: it writes to its temporary alone.
LEMMA StepShowsNothing ==
    ASSUME IInv, NEW p \in Procs, Step(p), ~Commit(p)
    PROVE  /\ UNCHANGED <<at, edits, kept>>
           /\ \A f \in Ids : f \notin temps \/ f \in kept => files'[f] = files[f]
<1>1. \A f \in Ids : f \notin temps \/ f \in kept => f # tmp[p]
  <2>1. TempInv(p)
    BY DEF IInv, ProcInv
  <2> QED
    BY <2>1 DEF TempInv, Ids
<1>2. ASSUME NEW g, files' = Append(files, g) PROVE \A f \in Ids : files'[f] = files[f]
  BY <1>2 DEF IInv, Typed, Ids
<1>3. ASSUME NEW g, files' = [files EXCEPT ![tmp[p]] = g]
      PROVE  \A f \in Ids : f # tmp[p] => files'[f] = files[f]
  BY <1>3 DEF IInv, Typed, Ids
<1>4. CASE IdxOpen(p) \/ IdxRead(p) \/ Lock(p) \/ Verify(p) \/ EntriesDone(p)
  BY <1>4 DEF IdxOpen, IdxRead, Lock, Verify, EntriesDone, Refuse, fileVars
<1>5. CASE CreateTemp(p)
  BY <1>2, <1>5 DEF CreateTemp, Fail
<1>6. ASSUME NEW name, Seal(p, name) PROVE \A f \in Ids : f # tmp[p] => files'[f] = files[f]
  BY <1>3, <1>6 DEF Seal
<1>7. CASE CopyEntry(p)
  BY <1>1, <1>6, <1>7 DEF CopyEntry, Fail, GiveUp
<1>8. CASE AddInput(p)
  BY <1>1, <1>6, <1>8 DEF AddInput, GiveUp
<1>9. CASE WriteIndex(p)
  BY <1>1, <1>3, <1>9 DEF WriteIndex, Refuse
<1>10. CASE Flush(p)
  BY <1>1, <1>3, <1>10 DEF Flush, Fail
<1> QED
  BY <1>4, <1>5, <1>7, <1>8, <1>9, <1>10 DEF Step

\* Files that stay as they were look as they did.
LEMMA SameContent ==
    ASSUME NEW f, files'[f] = files[f]
    PROVE  Content(f)' = Content(f)
  BY DEF Content

LEMMA InitAtomic == Init => Atomic!Init
<1> SUFFICES ASSUME Init PROVE Atomic!Init
  OBVIOUS
<1>1. Typed /\ KeyInv /\ NameInv /\ at = 1 /\ 1 \in Ids
  <2>1. Typed /\ KeyInv /\ NameInv /\ at = 1
    BY InitInv DEF Init, IInv
  <2> QED
    BY <2>1 DEF Typed
<1>2. Content(1) \in Atomic!Containers
  BY <1>1, ContentIs DEF NameInv
<1> QED
  BY <1>1, <1>2 DEF Init, Atomic!Init

\* Every step is one of AtomicContainer's, or shows nothing.
LEMMA NextAtomic == IInv /\ IInv' /\ [Next]_vars => [Atomic!Next]_Atomic!vars
<1> SUFFICES ASSUME IInv, IInv', [Next]_vars PROVE [Atomic!Next]_Atomic!vars
  OBVIOUS
<1>1. /\ Typed /\ KeyInv /\ NameInv /\ KeptInv /\ at \in Ids \cup {0} /\ kept \subseteq Ids
      /\ Typed' /\ KeyInv' /\ NameInv'
  BY DEF IInv, Typed
<1>2. ASSUME UNCHANGED <<at, edits, kept>>,
             \A f \in Ids : f \notin temps \/ f \in kept => files'[f] = files[f]
      PROVE  UNCHANGED Atomic!vars
  <2>1. Current' = Current
    BY <1>1, <1>2, SameContent DEF Current, NameInv
  <2>2. Keeps' = Keeps
    BY <1>1, <1>2, SameContent DEF Keeps
  <2> QED
    BY <1>2, <2>1, <2>2 DEF Atomic!vars, Current, Keeps
<1>3. ASSUME NEW p \in Procs, Step(p), ~Commit(p) PROVE UNCHANGED Atomic!vars
  BY <1>2, <1>3, StepShowsNothing
<1>4. ASSUME NEW p \in Procs, Commit(p) PROVE Atomic!Next
  <2>1. pc[p] = "commit"
    BY <1>4 DEF Commit
  <2>2. Content(tmp[p]) \in Atomic!EditsOf(Content(at))
    BY <2>1, CommitsAnEdit
  <2>3. at # 0 /\ tmp[p] # 0 /\ Current = Content(at) /\ Current # Atomic!Missing
    BY <1>1, <2>1, CommitHas, ContentIs DEF Current, NameInv, Ids
  <2>4. \A f : Content(f)' = Content(f)
    BY <1>4, SameContent DEF Commit
  <2>5. CASE at' = tmp[p] /\ edits' = edits + 1 /\ UNCHANGED kept
    <3>1. Current' = Content(tmp[p])
      BY <2>3, <2>4, <2>5 DEF Current
    <3>2. Keeps' = Keeps
      BY <2>4, <2>5 DEF Keeps
    <3> QED
      BY <2>2, <2>3, <2>5, <3>1, <3>2 DEF Atomic!Next, Atomic!Edit, Current, Keeps
  <2>6. CASE at' \in {at, 0} /\ kept' = kept \cup {tmp[p]} /\ UNCHANGED edits
    <3>1. Current' \in {Current, Atomic!Missing}
      BY <2>3, <2>4, <2>6 DEF Current, Atomic!Missing
    <3>2. Keeps' = Keeps \cup {Content(tmp[p])}
      BY <2>4, <2>6 DEF Keeps
    <3> QED
      BY <2>2, <2>3, <2>6, <3>1, <3>2 DEF Atomic!Next, Atomic!KeepAside, Current, Keeps
  <2> QED
    BY <1>4, <2>5, <2>6 DEF Commit
<1>5. ASSUME UNCHANGED fileVars PROVE UNCHANGED Atomic!vars
  BY <1>2, <1>5 DEF fileVars
<1>6. CASE PowerCut
  <2>1. \A f \in Ids : files[f].flushed => files'[f] = files[f]
    BY <1>1, <1>6 DEF PowerCut, Typed, Ids
  <2>2. Current' = Current
    BY <1>1, <1>6, <2>1, SameContent DEF Current, NameInv, PowerCut
  <2>3. Keeps' = Keeps
    <3>1. kept' = kept /\ \A f \in kept : files'[f] = files[f]
      BY <1>1, <1>6, <2>1 DEF KeptInv, PowerCut
    <3>2. \A f \in kept : Content(f)' = Content(f)
      BY <3>1, SameContent
    <3> QED
      BY <3>1, <3>2 DEF Keeps
  <2> QED
    BY <1>6, <2>2, <2>3 DEF PowerCut, Atomic!vars, Current, Keeps
<1>7. CASE PackedOver \/ CopyRestored
  <2>1. /\ at' \in Ids' /\ at' # 0 /\ UNCHANGED <<edits, kept>>
        /\ \A f \in Ids : files'[f] = files[f]
    <3>1. PICK g : files' = Append(files, g) /\ at' = Len(files) + 1 /\ UNCHANGED <<edits, kept>>
      BY <1>7 DEF PackedOver, CopyRestored
    <3>2. Len(files) \in Nat /\ files \in Seq(Files)
      BY <1>1 DEF Typed
    <3> QED
      BY <3>1, <3>2 DEF Ids
  <2>2. Current' \in Atomic!Containers
    <3>1. files'[at'].whole /\ files'[at'].key \in 1..MaxFiles
      BY <1>1, <2>1, EditAssumption DEF NameInv, KeyInv, Typed, Ids
    <3>2. files'[at'].entries \in Seq(Entries)
      <4>1. files'[at'] \in Files
        BY <1>1, <2>1 DEF Typed, Ids
      <4> QED
        BY <4>1 DEF Files
    <3>3. Current' = [key |-> files'[at'].key, entries |-> ToSet(files'[at'].entries)]
      BY <2>1, <3>1 DEF Current, Content
    <3> QED
      BY <3>1, <3>2, <3>3, ToSetIs DEF Atomic!Containers
  <2>3. Keeps' = Keeps
    BY <1>1, <2>1, SameContent DEF Keeps
  <2> QED
    BY <2>1, <2>2, <2>3 DEF Atomic!Next, Atomic!Overwrite, Current, Keeps
<1>8. CASE \E p \in Procs : Cancel(p) \/ Killed(p) \/ \E o \in Ops : Begin(p, o)
  BY <1>5, <1>8 DEF Cancel, Killed, Begin
<1>9. CASE UNCHANGED vars
  BY <1>5, <1>9 DEF vars, fileVars
<1> QED
  BY <1>3, <1>4, <1>6, <1>7, <1>8, <1>9 DEF Next, Environment

\* The container's name goes from one whole container to another in one step,
\* whatever the processes, the crashes and the other writers do: what an edit
\* commits is exactly the edit that was asked for, of the container it replaces.
THEOREM EditsRefineAtomic == Spec => EditsAreAtomic
<1>1. Init => Atomic!Init
  BY InitAtomic
<1>2. IInv /\ IInv' /\ [Next]_vars => [Atomic!Next]_Atomic!vars
  BY NextAtomic
<1> QED
  BY <1>1, <1>2, Invariant, PTL DEF Spec, EditsAreAtomic, Atomic!Spec
=============================================================================

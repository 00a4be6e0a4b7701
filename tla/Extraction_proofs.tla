--------------------------- MODULE Extraction_proofs ---------------------------
(***************************************************************************)
(* For any inventory, any folder and any number of runs and crashes: the   *)
(* types, that an extraction leaves nothing of its own behind, that a      *)
(* short set is announced, and that a name goes from the user's old file   *)
(* to the whole new one in one step.                                       *)
(*                                                                         *)
(* What makes them inductive: while a run goes on, the only file of its    *)
(* own outside the names is the one it is writing (or the .part that waits *)
(* for its name); an entry that has been read to its end is sound; every   *)
(* entry before the one being looked at is out; and in the first run, no   *)
(* name has an entry until one has been counted.                           *)
(***************************************************************************)
EXTENDS Extraction, TLAPS

Modes == {"archive", "bare", "verify"}
Codes == {"none", "ok", "auth", "corrupt", "nospace", "unsupported", "io", "oom", "cancelled"}

\* Where the run is.
RunInv ==
    /\ written < at
    /\ pc # "idle" => ~partial /\ runs > 0
    /\ pc \in {"stream", "close"} => at <= Last /\ Name \in picked
    /\ pc = "entry" => out = NoOut
    /\ pc = "close" => E.sound
    /\ pc # "idle" /\ mode = "bare" => picked = {Order[1]} /\ at <= 2

\* Where the bytes go, in each mode.
OutInv ==
    /\ out \in Temps => mode = "archive" /\ pc \in {"stream", "close"} /\ ~E.dir
    /\ out = Part => mode = "bare"
    /\ pc \in {"stream", "close"} /\ mode = "bare" => out = Part
    /\ pc \in {"stream", "close"} /\ mode = "archive" /\ ~E.dir => out \in Temps

\* What a run that goes on has made outside the names.
OwnInv ==
    pc # "idle" =>
        \A p \in Paths \ Reals :
            Exists(p) => p \in strays \/ p = out \/ (mode = "bare" /\ at = 2 /\ p = Part)

\* What is under the names.
SoundInv == /\ \A n \in Names : disk[Real(n)].is = "entry" => entry[n].sound
            /\ pc # "idle" /\ mode = "bare" /\ at = 2 => entry[Order[1]].sound
DoneInv ==
    pc # "idle" /\ mode = "archive" =>
        \A i \in 1..Len(Order) :
            i < at /\ Order[i] \in picked /\ ~entry[Order[i]].dir => disk[Real(Order[i])].is = "entry"
FirstInv ==
    \/ runs > 1
    \/ pc # "idle" /\ written > 0
    \/ runs = 1 /\ pc = "idle"
    \/ \A n \in Names : disk[Real(n)].is # "entry"

IInv == /\ TypeOK /\ RunInv /\ OutInv /\ OwnInv /\ SoundInv /\ DoneInv /\ FirstInv
        /\ NothingOfOursLeft /\ ShortSetIsSaid

-----------------------------------------------------------------------------
(* Lemmas: paths and what they name.                                       *)

\* The names of the inventory.
LEMMA OrderIs ==
    /\ Len(Order) \in Nat /\ Len(Order) >= 1
    /\ \A i \in 1..Len(Order) : Order[i] \in Names
    /\ Order[1] \in Names /\ Last \in 1..Len(Order)
    /\ mode = "bare" => Last = 1
    /\ mode # "bare" => Last = Len(Order)
<1>1. Len(Order) \in Nat /\ Len(Order) >= 1
  BY ExtractionAssumption
<1> QED
  BY <1>1 DEF Names, Last

\* A name the user sees is neither a temporary's nor the .part's.
LEMMA PathsDiffer ==
    /\ \A n \in Names : Real(n) \in Reals /\ Real(n) \in Paths
    /\ \A n, m \in Names : Real(n) = Real(m) => n = m
    /\ Temps \cap Reals = {} /\ Part \notin Reals /\ Part \notin Temps
    /\ Temps \subseteq Paths /\ Part \in Paths
    /\ NoOut \notin Paths
<1>1. \A n \in Names : Real(n) \in Reals /\ Real(n) \in Paths
  BY DEF Reals, Paths
<1>2. \A n, m \in Names : Real(n) = Real(m) => n = m
  BY DEF Real
<1>3. "itself" \notin Suffixes /\ "part" \notin Suffixes /\ "itself" # "part"
  BY ExtractionAssumption
<1>4. Temps \cap Reals = {} /\ Part \notin Reals /\ Part \notin Temps
  BY <1>3 DEF Temps, Reals, Real, Part
<1>5. Temps \subseteq Paths /\ Part \in Paths
  BY DEF Paths
<1>6. NoOut \notin Paths
  BY DEF NoOut, Paths, Temps, Reals, Real, Part
<1> QED
  BY <1>1, <1>2, <1>4, <1>5, <1>6

\* What can be at a path, and whether it is a file at all.
LEMMA ContentsAre ==
    /\ Nothing \in Contents /\ OldFile \in Contents /\ Folder \in Contents /\ Begun \in Contents
    /\ Zeros \in Contents /\ \A l \in BOOLEAN : Entry(l) \in Contents
    /\ Nothing.is = "none" /\ OldFile.is = "old" /\ Folder.is = "dir" /\ Begun.is = "part"
    /\ Zeros.is = "zeros" /\ \A l \in BOOLEAN : Entry(l).is = "entry" /\ Entry(l).lasting = l
    /\ ~Nothing.lasting /\ OldFile.lasting /\ Folder.lasting /\ ~Begun.lasting /\ Zeros.lasting
    /\ \A c \in Contents : c.is = "none" => c = Nothing
<1>1. ASSUME NEW l \in BOOLEAN PROVE Entry(l) \in Contents /\ Entry(l).is = "entry" /\ Entry(l).lasting = l
  <2>1. CASE l = TRUE
    BY <2>1 DEF Entry, Contents
  <2>2. CASE l = FALSE
    BY <2>2 DEF Entry, Contents
  <2> QED
    BY <2>1, <2>2
<1>2. /\ Nothing.is = "none" /\ OldFile.is = "old" /\ Folder.is = "dir" /\ Begun.is = "part"
      /\ Zeros.is = "zeros"
      /\ ~Nothing.lasting /\ OldFile.lasting /\ Folder.lasting /\ ~Begun.lasting /\ Zeros.lasting
  BY DEF Nothing, OldFile, Folder, Begun, Zeros
<1> QED
  BY <1>1, <1>2 DEF Contents

-----------------------------------------------------------------------------
(* The beginnings and the ends of a run.                                   *)

LEMMA InitInv == Init => IInv
<1> SUFFICES ASSUME Init PROVE IInv
  OBVIOUS
<1>1. PICK f \in [Reals -> {Nothing, OldFile, Folder}] :
         disk = [p \in Paths |-> IF p \in Reals THEN f[p] ELSE Nothing]
  BY DEF Init
<1>2. /\ disk \in [Paths -> Contents]
      /\ \A p \in Paths : disk[p].is # "entry" /\ (p \notin Reals => ~Exists(p))
  BY <1>1, ContentsAre DEF Exists
<1>3. TypeOK
  <2>1. entry \in [Names -> Entries] /\ held \subseteq Reals
    BY DEF Init
  <2>2. /\ at \in 1..(Len(Order) + 1) /\ written \in 0..Len(Order)
        /\ runs \in 0..MaxRuns /\ crashes \in 0..MaxCrashes
    BY OrderIs, ExtractionAssumption DEF Init
  <2> QED
    BY <1>2, <2>1, <2>2 DEF Init, TypeOK
<1>4. \A n \in Names : disk[Real(n)].is # "entry"
  BY <1>2, PathsDiffer
<1> QED
  BY <1>2, <1>3, <1>4, PathsDiffer
  DEF Init, IInv, RunInv, OutInv, OwnInv, SoundInv, DoneInv, FirstInv, NothingOfOursLeft, ShortSetIsSaid

LEMMA BeginInv ==
    ASSUME IInv, NEW m \in Modes, NEW some \in SUBSET Names, Begin(m, some)
    PROVE  IInv'
<1>1. TypeOK /\ SoundInv /\ FirstInv /\ pc = "idle" /\ runs \in Nat
  BY ExtractionAssumption DEF IInv, Begin, TypeOK
<1>2. TypeOK'
  <2>1. strays' \subseteq Paths \ Reals
    BY DEF Begin
  <2>2. /\ at' \in 1..(Len(Order) + 1) /\ written' \in 0..Len(Order) /\ runs' \in 0..MaxRuns
        /\ left' \in Nat
    BY <1>1, OrderIs, ExtractionAssumption DEF Begin
  <2> QED
    BY <1>1, <2>1, <2>2 DEF Begin, TypeOK, Modes
<1>3. RunInv' /\ OutInv' /\ OwnInv'
  BY <1>1, PathsDiffer DEF Begin, RunInv, OutInv, OwnInv, Exists
<1>4. SoundInv' /\ DoneInv'
  BY <1>1 DEF Begin, SoundInv, DoneInv
<1>5. FirstInv'
  BY <1>1 DEF Begin, FirstInv
<1>6. NothingOfOursLeft' /\ ShortSetIsSaid'
  BY DEF Begin, NothingOfOursLeft, ShortSetIsSaid
<1> QED
  BY <1>2, <1>3, <1>4, <1>5, <1>6 DEF IInv

\* A failure takes nothing but the file being written.
LEMMA FailDiscards ==
    ASSUME TypeOK, NEW c, Fail(c)
    PROVE  /\ disk' \in [Paths -> Contents]
           /\ \A n \in Names : disk'[Real(n)] = disk[Real(n)]
           /\ \A p \in Paths : disk'[p].is # "none" => disk'[p] = disk[p] /\ p # out
<1>1. /\ disk \in [Paths -> Contents] /\ out \in Temps \cup {Part, NoOut}
      /\ disk' = Discarded(disk)
  BY DEF TypeOK, Fail
<1>2. CASE out = NoOut
  BY <1>1, <1>2, PathsDiffer DEF Discarded
<1>3. CASE out \in Temps \cup {Part}
  <2>1. out \in Paths /\ out \notin Reals /\ out # NoOut
    BY <1>3, PathsDiffer
  <2> QED
    BY <1>1, <2>1, PathsDiffer, ContentsAre DEF Discarded
<1> QED
  BY <1>1, <1>2, <1>3

\* A run that fails while an entry is looked at.
LEMMA FailInv ==
    ASSUME IInv, pc # "idle", at <= Last, NEW c \in Codes \ {"none", "ok"}, Fail(c)
    PROVE  IInv'
<1>1. /\ TypeOK /\ RunInv /\ OwnInv /\ SoundInv /\ FirstInv
      /\ disk \in [Paths -> Contents]
  BY DEF IInv, TypeOK
<1>2. /\ pc' = "idle" /\ code' = c /\ out' = NoOut /\ partial' = Says /\ disk' = Discarded(disk)
      /\ UNCHANGED <<mode, picked, strays, entry, held, runs, crashes, at, left, written>>
  BY DEF Fail, End
<1>3. /\ disk' \in [Paths -> Contents]
      /\ \A n \in Names : disk'[Real(n)] = disk[Real(n)]
      /\ \A p \in Paths : disk'[p].is # "none" => disk'[p] = disk[p] /\ p # out
  BY <1>1, FailDiscards
<1>4. Says \in BOOLEAN
  BY <1>1 DEF Says, TypeOK
<1>5. TypeOK'
  BY <1>1, <1>2, <1>3, <1>4 DEF TypeOK, Codes
<1>6. RunInv' /\ OutInv' /\ OwnInv' /\ DoneInv'
  BY <1>1, <1>2, PathsDiffer DEF RunInv, OutInv, OwnInv, DoneInv
<1>7. SoundInv' /\ FirstInv'
  BY <1>1, <1>2, <1>3 DEF SoundInv, FirstInv, RunInv, TypeOK
<1>8. NothingOfOursLeft'
  <2>1. ~(mode = "bare" /\ at = 2)
    BY OrderIs
  <2>2. ASSUME NEW p \in Paths \ Reals, Exists(p)' PROVE p \in strays
    BY <1>1, <1>3, <2>1, <2>2 DEF OwnInv, Exists
  <2> QED
    BY <1>2, <2>2 DEF NothingOfOursLeft
<1>9. ShortSetIsSaid'
  <2>1. ASSUME mode = "archive", runs = 1, NEW n \in Names, disk[Real(n)].is = "entry"
        PROVE  partial'
    <3>1. written > 0
      BY <1>1, <2>1 DEF FirstInv
    <3>2. Says
      BY <2>1, <3>1 DEF Says
    <3> QED
      BY <1>2, <3>2
  <2>2. picked \subseteq Names /\ c # "ok"
    BY <1>1 DEF TypeOK
  <2> QED
    BY <1>2, <1>3, <2>1, <2>2 DEF ShortSetIsSaid
<1> QED
  BY <1>5, <1>6, <1>7, <1>8, <1>9 DEF IInv

LEMMA RefuseInv ==
    ASSUME IInv, Refuse
    PROVE  IInv'
<1>1. /\ TypeOK /\ RunInv /\ OwnInv /\ SoundInv /\ FirstInv /\ pc = "entry" /\ at = 1
  BY DEF IInv, Refuse
<1>2. /\ pc' = "idle" /\ code' \in Codes \ {"none", "ok"}
      /\ UNCHANGED <<disk, at, left, out, written, partial, mode, picked, strays, entry, held, runs, crashes>>
  BY DEF Refuse, End, Codes
<1>3. written = 0 /\ out = NoOut
  BY <1>1 DEF RunInv, TypeOK
<1>4. TypeOK'
  BY <1>1, <1>2 DEF TypeOK, Codes
<1>5. RunInv' /\ OutInv' /\ OwnInv' /\ DoneInv' /\ SoundInv'
  BY <1>1, <1>2, <1>3, PathsDiffer DEF RunInv, OutInv, OwnInv, DoneInv, SoundInv
<1>6. FirstInv'
  BY <1>1, <1>2 DEF FirstInv, RunInv, TypeOK
<1>7. NothingOfOursLeft'
  BY <1>1, <1>2, <1>3, PathsDiffer DEF NothingOfOursLeft, OwnInv, Exists
<1>8. ShortSetIsSaid'
  BY <1>1, <1>2, <1>3 DEF ShortSetIsSaid, FirstInv, TypeOK
<1> QED
  BY <1>4, <1>5, <1>6, <1>7, <1>8 DEF IInv

\* A run that stops at a record it cannot follow: the one end with entries out
\* and nothing said of them.
LEMMA MisfitInv ==
    ASSUME IInv, Misfit
    PROVE  IInv'
<1>1. /\ TypeOK /\ RunInv /\ OutInv /\ OwnInv /\ SoundInv /\ FirstInv
      /\ pc = "entry" /\ at <= Last /\ E.record # "fits" /\ out = NoOut
  BY DEF IInv, Misfit, RunInv
<1>2. /\ pc' = "idle" /\ code' = "corrupt"
      /\ UNCHANGED <<disk, at, left, out, written, partial, mode, picked, strays, entry, held, runs, crashes>>
  BY DEF Misfit, End
<1>3. TypeOK'
  BY <1>1, <1>2 DEF TypeOK
<1>4. RunInv' /\ OutInv' /\ OwnInv' /\ DoneInv' /\ SoundInv'
  BY <1>1, <1>2, PathsDiffer DEF RunInv, OutInv, OwnInv, DoneInv, SoundInv
<1>5. FirstInv'
  BY <1>1, <1>2 DEF FirstInv, RunInv, TypeOK
<1>6. NothingOfOursLeft'
  <2>1. ~(mode = "bare" /\ at = 2)
    BY <1>1, OrderIs
  <2> QED
    BY <1>1, <1>2, <2>1, PathsDiffer DEF NothingOfOursLeft, OwnInv, Exists
<1>7. ShortSetIsSaid'
  BY <1>1, <1>2 DEF ShortSetIsSaid, E, Name, Last
<1> QED
  BY <1>3, <1>4, <1>5, <1>6, <1>7 DEF IInv

LEMMA SkipInv ==
    ASSUME IInv, Skip
    PROVE  IInv'
<1>1. /\ TypeOK /\ RunInv /\ OutInv /\ OwnInv /\ SoundInv /\ DoneInv /\ FirstInv
      /\ pc = "entry" /\ at <= Last /\ Name \notin picked /\ at \in Nat /\ out = NoOut
  BY DEF IInv, Skip, TypeOK, RunInv
<1>2. /\ at' = at + 1 /\ pc' = "entry" /\ out' = NoOut
      /\ UNCHANGED <<disk, entry, held, pc, mode, picked, left, out, written,
                     partial, code, strays, runs, crashes>>
  BY <1>1 DEF Skip
<1>3. mode # "bare"
  <2>1. ASSUME mode = "bare" PROVE FALSE
    <3>1. at = 1 /\ picked = {Order[1]}
      BY <1>1, <2>1, OrderIs DEF RunInv, TypeOK
    <3> QED
      BY <1>1, <3>1 DEF Name
  <2> QED
    BY <2>1
<1>4. TypeOK'
  BY <1>1, <1>2, OrderIs DEF TypeOK
<1>5. RunInv' /\ OutInv' /\ OwnInv' /\ SoundInv' /\ FirstInv'
  BY <1>1, <1>2, <1>3, PathsDiffer DEF RunInv, OutInv, OwnInv, SoundInv, FirstInv, Exists, TypeOK
<1>6. DoneInv'
  BY <1>1, <1>2 DEF DoneInv, Name, TypeOK
<1>7. NothingOfOursLeft' /\ ShortSetIsSaid'
  BY <1>2 DEF NothingOfOursLeft, ShortSetIsSaid
<1> QED
  BY <1>4, <1>5, <1>6, <1>7 DEF IInv

-----------------------------------------------------------------------------
(* One entry: opened, read, closed.                                        *)

\* An entry is opened, and a file of ours with it.
LEMMA StreamingInv ==
    ASSUME IInv, pc = "entry", at <= Last, Name \in picked,
           NEW path \in Temps \cup {Part, NoOut}, Streaming(path),
           path \in Temps => mode = "archive" /\ ~E.dir,
           path = Part <=> mode = "bare",
           mode = "archive" /\ ~E.dir => path \in Temps,
           disk' \in [Paths -> Contents],
           \A n \in Names : disk'[Real(n)].is = "entry" <=> disk[Real(n)].is = "entry",
           \A p \in Paths \ Reals : p # path => disk'[p] = disk[p]
    PROVE  IInv'
<1>1. /\ TypeOK /\ RunInv /\ OwnInv /\ SoundInv /\ DoneInv /\ FirstInv /\ out = NoOut
  BY DEF IInv, RunInv
<1>2. /\ pc' = "stream" /\ left' = E.chunks /\ out' = path
      /\ UNCHANGED <<entry, held, mode, picked, at, written, partial, code, strays, runs, crashes>>
  BY DEF Streaming
<1>3. E \in Entries /\ E.chunks \in Nat /\ Name \in Names
  <2>1. Name \in Names
    BY <1>1, OrderIs DEF Name, TypeOK
  <2>2. E \in Entries
    BY <1>1, <2>1 DEF E, TypeOK
  <2> QED
    BY <2>1, <2>2, ExtractionAssumption DEF Entries
<1>4. TypeOK'
  BY <1>1, <1>2, <1>3 DEF TypeOK
<1>5. RunInv'
  BY <1>1, <1>2, OrderIs DEF RunInv, Last, Name
<1>6. OutInv'
  BY <1>2 DEF OutInv, E, Name
<1>7. OwnInv'
  BY <1>1, <1>2, PathsDiffer DEF OwnInv, Exists
<1>8. SoundInv' /\ DoneInv' /\ FirstInv'
  BY <1>1, <1>2, OrderIs DEF SoundInv, DoneInv, FirstInv
<1>9. NothingOfOursLeft' /\ ShortSetIsSaid'
  BY <1>2 DEF NothingOfOursLeft, ShortSetIsSaid
<1> QED
  BY <1>4, <1>5, <1>6, <1>7, <1>8, <1>9 DEF IInv

LEMMA OpenVerifyInv ==
    ASSUME IInv, OpenVerify
    PROVE  IInv'
<1>1. NoOut \notin Temps /\ NoOut # Part /\ disk \in [Paths -> Contents]
  BY PathsDiffer DEF IInv, TypeOK
<1> QED
  BY <1>1, StreamingInv DEF OpenVerify, Wanted

LEMMA OpenBareInv ==
    ASSUME IInv, OpenBare
    PROVE  IInv'
<1>1. CASE Fail("io")
  BY <1>1, FailInv DEF OpenBare, Wanted, Codes
<1>2. CASE Streaming(Part) /\ disk' = [disk EXCEPT ![Part] = Begun]
  <2>1. disk \in [Paths -> Contents]
    BY DEF IInv, TypeOK
  <2>2. /\ disk' \in [Paths -> Contents]
        /\ \A n \in Names : disk'[Real(n)] = disk[Real(n)]
        /\ \A p \in Paths \ Reals : p # Part => disk'[p] = disk[p]
    BY <1>2, <2>1, PathsDiffer, ContentsAre
  <2> QED
    BY <1>2, <2>2, StreamingInv, PathsDiffer DEF OpenBare, Wanted
<1> QED
  BY <1>1, <1>2 DEF OpenBare, Wanted

LEMMA OpenFolderInv ==
    ASSUME IInv, OpenFolder
    PROVE  IInv'
<1>1. CASE Fail("unsupported")
  BY <1>1, FailInv DEF OpenFolder, Wanted, Codes
<1>2. CASE /\ Streaming(NoOut)
           /\ disk' = IF Exists(Real(Name)) THEN disk ELSE [disk EXCEPT ![Real(Name)] = Folder]
  <2>1. disk \in [Paths -> Contents] /\ Name \in Names
    BY OrderIs DEF IInv, TypeOK, OpenFolder, Wanted, Name
  <2>2. /\ disk' \in [Paths -> Contents]
        /\ \A n \in Names : disk'[Real(n)].is = "entry" <=> disk[Real(n)].is = "entry"
        /\ \A p \in Paths \ Reals : disk'[p] = disk[p]
    BY <1>2, <2>1, PathsDiffer, ContentsAre DEF Exists
  <2>3. NoOut \notin Temps /\ NoOut # Part
    BY PathsDiffer
  <2> QED
    BY <1>2, <2>2, <2>3, StreamingInv DEF OpenFolder, Wanted
<1> QED
  BY <1>1, <1>2 DEF OpenFolder, Wanted

LEMMA OpenSiblingInv ==
    ASSUME IInv, NEW s \in Suffixes, OpenSibling(s)
    PROVE  IInv'
<1> DEFINE t == <<Name, s>>
<1>1. CASE Fail("io") \/ Fail("unsupported")
  BY <1>1, FailInv DEF OpenSibling, Wanted, Codes
<1>2. CASE Streaming(t) /\ disk' = [disk EXCEPT ![t] = Begun]
  <2>1. disk \in [Paths -> Contents] /\ Name \in Names
    BY OrderIs DEF IInv, TypeOK, OpenSibling, Wanted, Name
  <2>2. t \in Temps /\ t \in Paths /\ t \notin Reals /\ t # Part
    BY <2>1, PathsDiffer DEF Temps
  <2>3. /\ disk' \in [Paths -> Contents]
        /\ \A n \in Names : disk'[Real(n)] = disk[Real(n)]
        /\ \A p \in Paths \ Reals : p # t => disk'[p] = disk[p]
    BY <1>2, <2>1, <2>2, PathsDiffer, ContentsAre
  <2> QED
    BY <1>2, <2>2, <2>3, StreamingInv DEF OpenSibling, Wanted
<1> QED
  BY <1>1, <1>2 DEF OpenSibling, Wanted

LEMMA OpenUnsafeInv ==
    ASSUME IInv, OpenUnsafe
    PROVE  IInv'
  BY FailInv DEF OpenUnsafe, Wanted, Codes

\* The decoder goes on, or is at the end of a sound entry.
LEMMA ReadOnInv ==
    ASSUME IInv, pc = "stream", pc' \in {"stream", "close"}, left' \in Nat, pc' = "close" => E.sound,
           UNCHANGED <<disk, entry, held, mode, picked, at, out, written, partial, code,
                       strays, runs, crashes>>
    PROVE  IInv'
<1>1. /\ TypeOK /\ RunInv /\ OutInv /\ OwnInv /\ SoundInv /\ DoneInv /\ FirstInv
  BY DEF IInv
<1>2. TypeOK'
  BY <1>1 DEF TypeOK
<1>3. RunInv'
  BY <1>1 DEF RunInv, Last, Name, E
<1>4. OutInv' /\ OwnInv' /\ SoundInv' /\ DoneInv' /\ FirstInv'
  BY <1>1 DEF OutInv, OwnInv, SoundInv, DoneInv, FirstInv, E, Name, Exists
<1>5. NothingOfOursLeft' /\ ShortSetIsSaid'
  BY DEF NothingOfOursLeft, ShortSetIsSaid
<1> QED
  BY <1>2, <1>3, <1>4, <1>5 DEF IInv

LEMMA ConsumeInv ==
    ASSUME IInv, Consume \/ ConsumeEmpty
    PROVE  IInv'
<1>1. pc = "stream" /\ at <= Last /\ left \in Nat
  BY DEF IInv, RunInv, Consume, ConsumeEmpty, TypeOK
<1>2. CASE \E c \in Codes \ {"none", "ok"} : Fail(c)
  BY <1>1, <1>2, FailInv
<1>3. CASE /\ Consume /\ left > 0 /\ (left > 1 \/ E.sound)
           /\ left' = left - 1
           /\ pc' = IF left = 1 THEN "close" ELSE "stream"
           /\ UNCHANGED <<disk, entry, held, mode, picked, at, out, written,
                          partial, code, strays, runs, crashes>>
  <2>1. /\ pc' \in {"stream", "close"} /\ left' \in Nat /\ pc' = "close" => E.sound
    BY <1>1, <1>3
  <2> QED
    BY <1>1, <1>3, <2>1, ReadOnInv
<1>4. CASE /\ E.sound /\ pc' = "close"
           /\ UNCHANGED <<disk, entry, held, mode, picked, at, left, out,
                          written, partial, code, strays, runs, crashes>>
  BY <1>1, <1>4, ReadOnInv
<1> QED
  BY <1>2, <1>3, <1>4 DEF Consume, ConsumeEmpty, Codes

\* The entry is out and counted.
LEMMA CountedInv ==
    ASSUME IInv, pc = "close", NEW d \in [Paths -> Contents], Counted(d),
           \A n \in Names : d[Real(n)].is = "entry" <=> disk[Real(n)].is = "entry" \/ (out \in Temps /\ n = Name),
           \A p \in Paths \ Reals : d[p].is # "none" => (p # out /\ Exists(p)) \/ (p = Part /\ out = Part)
    PROVE  IInv'
<1>1. /\ TypeOK /\ RunInv /\ OutInv /\ OwnInv /\ SoundInv /\ DoneInv /\ FirstInv
      /\ at <= Last /\ at \in 1..Len(Order) /\ E.sound /\ Name \in Names
  <2>1. TypeOK /\ RunInv /\ OutInv /\ OwnInv /\ SoundInv /\ DoneInv /\ FirstInv
    BY DEF IInv
  <2>2. at <= Last /\ at \in 1..Len(Order) /\ E.sound
    BY <2>1, OrderIs DEF RunInv, TypeOK
  <2> QED
    BY <2>1, <2>2, OrderIs DEF Name
<1>2. /\ disk' = d /\ out' = NoOut /\ written' = written + 1 /\ at' = at + 1 /\ pc' = "entry"
      /\ UNCHANGED <<entry, held, mode, picked, left, partial, code, strays, runs, crashes>>
  BY DEF Counted
<1>3. mode = "bare" => at = 1 /\ out = Part /\ Name = Order[1]
  BY <1>1, OrderIs DEF OutInv, Name
<1>4. TypeOK'
  <2>1. at' \in 1..(Len(Order) + 1) /\ written' \in 0..Len(Order)
    BY <1>1, <1>2, OrderIs DEF TypeOK, RunInv
  <2> QED
    BY <1>1, <1>2, <2>1 DEF TypeOK
<1>5. RunInv'
  BY <1>1, <1>2, <1>3 DEF RunInv, TypeOK
<1>6. OutInv'
  BY <1>2, PathsDiffer DEF OutInv
<1>7. OwnInv'
  <2>1. ASSUME NEW p \in Paths \ Reals, d[p].is # "none"
        PROVE  p \in strays \/ (mode = "bare" /\ p = Part)
    BY <1>1, <1>3, <2>1, PathsDiffer DEF OwnInv, OutInv
  <2> QED
    BY <1>2, <1>3, <2>1 DEF OwnInv, Exists
<1>8. SoundInv'
  BY <1>1, <1>2, <1>3 DEF SoundInv, E
<1>9. DoneInv'
  <2>1. ASSUME mode = "archive", NEW i \in 1..Len(Order), i < at + 1, Order[i] \in picked,
               ~entry[Order[i]].dir
        PROVE  d[Real(Order[i])].is = "entry"
    <3>1. CASE i < at
      BY <1>1, <2>1, <3>1, OrderIs DEF DoneInv
    <3>2. CASE i = at
      BY <1>1, <2>1, <3>2, OrderIs DEF OutInv, E, Name
    <3> QED
      BY <1>1, <2>1, <3>1, <3>2
  <2> QED
    BY <1>2, <2>1 DEF DoneInv
<1>10. FirstInv'
  BY <1>1, <1>2 DEF FirstInv, TypeOK
<1>11. NothingOfOursLeft' /\ ShortSetIsSaid'
  BY <1>2 DEF NothingOfOursLeft, ShortSetIsSaid
<1> QED
  BY <1>4, <1>5, <1>6, <1>7, <1>8, <1>9, <1>10, <1>11 DEF IInv

LEMMA CloseInv ==
    ASSUME IInv, Close
    PROVE  IInv'
<1> DEFINE d == IF out = NoOut THEN disk ELSE [disk EXCEPT ![out] = Entry(FALSE)]
<1>1. pc = "close" /\ out \in {Part, NoOut} /\ disk \in [Paths -> Contents] /\ Counted(d)
  BY DEF IInv, TypeOK, Close
<1>2. /\ d \in [Paths -> Contents]
      /\ \A n \in Names : d[Real(n)] = disk[Real(n)]
      /\ \A p \in Paths \ Reals : d[p].is # "none" => (p # out /\ Exists(p)) \/ (p = Part /\ out = Part)
  BY <1>1, PathsDiffer, ContentsAre DEF Exists
<1> QED
  BY <1>1, <1>2, CountedInv, PathsDiffer

\* A rename: one name is free, the other has a whole entry.
LEMMA RenamedIs ==
    ASSUME disk \in [Paths -> Contents], NEW from \in Paths, NEW to \in Paths, from # to,
           NEW flushed \in BOOLEAN
    PROVE  /\ Renamed(from, to, flushed) \in [Paths -> Contents]
           /\ Renamed(from, to, flushed)[from] = Nothing
           /\ Renamed(from, to, flushed)[to] = Entry(flushed)
           /\ \A p \in Paths : p # from /\ p # to => Renamed(from, to, flushed)[p] = disk[p]
  BY ContentsAre DEF Renamed

LEMMA CommitInv ==
    ASSUME IInv, Commit
    PROVE  IInv'
<1>1. /\ pc = "close" /\ out \in Temps /\ disk \in [Paths -> Contents] /\ at <= Last /\ Name \in Names
  BY OrderIs DEF IInv, TypeOK, RunInv, Commit, Name
<1>2. CASE Fail("io")
  BY <1>1, <1>2, FailInv DEF Codes
<1> DEFINE to == Real(Name)
           d  == Renamed(out, to, FlushFirst(to))
<1>3. CASE Counted(d)
  <2>1. /\ out \in Paths /\ to \in Paths /\ out # to /\ FlushFirst(to) \in BOOLEAN
        /\ out \notin Reals /\ to \in Reals /\ out # Part
    BY <1>1, PathsDiffer DEF FlushFirst, Exists
  <2>2. /\ d \in [Paths -> Contents] /\ d[out] = Nothing /\ d[to] = Entry(FlushFirst(to))
        /\ \A p \in Paths : p # out /\ p # to => d[p] = disk[p]
    BY <1>1, <2>1, RenamedIs
  <2> HIDE DEF d
  <2>3. d[out].is = "none" /\ d[to].is = "entry"
    BY <2>1, <2>2, ContentsAre
  <2>4. \A n \in Names : d[Real(n)].is = "entry" <=> disk[Real(n)].is = "entry" \/ (out \in Temps /\ n = Name)
    BY <1>1, <2>1, <2>2, <2>3, PathsDiffer
  <2>5. \A p \in Paths \ Reals :
           d[p].is # "none" => (p # out /\ Exists(p)) \/ (p = Part /\ out = Part)
    BY <2>1, <2>2, <2>3 DEF Exists
  <2> QED
    BY <1>1, <1>3, <2>2, <2>4, <2>5, CountedInv
<1> QED
  BY <1>2, <1>3 DEF Commit

\* The loop is done: the run ends, and nothing of it is left.
LEMMA EndedInv ==
    ASSUME IInv, pc = "entry", at > Last, NEW c \in {"ok", "io"}, End(c),
           UNCHANGED <<at, left, out, written, partial>>,
           c = "io" => mode = "bare",
           disk' \in [Paths -> Contents],
           \A n \in Names : disk'[Real(n)].is = "entry"
                              => disk[Real(n)].is = "entry" \/ (mode = "bare" /\ n = Order[1]),
           mode # "bare" => disk' = disk,
           \A p \in Paths \ Reals : disk'[p].is # "none" => Exists(p) /\ (mode = "bare" => p # Part)
    PROVE  IInv'
<1>1. /\ TypeOK /\ RunInv /\ OutInv /\ OwnInv /\ SoundInv /\ DoneInv /\ FirstInv /\ out = NoOut
      /\ ~partial /\ runs > 0
  BY DEF IInv, RunInv
<1>2. /\ pc' = "idle" /\ code' = c
      /\ UNCHANGED <<mode, picked, strays, entry, held, runs, crashes, at, left, out, written, partial>>
  BY DEF End
<1>3. mode = "bare" => at = 2
  BY <1>1, OrderIs DEF RunInv, TypeOK
<1>4. TypeOK'
  BY <1>1, <1>2 DEF TypeOK
<1>5. RunInv' /\ OutInv' /\ OwnInv' /\ DoneInv'
  BY <1>1, <1>2, PathsDiffer DEF RunInv, OutInv, OwnInv, DoneInv
<1>6. SoundInv'
  BY <1>1, <1>2, <1>3, OrderIs DEF SoundInv
<1>7. FirstInv'
  BY <1>1, <1>2 DEF FirstInv, TypeOK
<1>8. NothingOfOursLeft'
  <2>1. ASSUME NEW p \in Paths \ Reals, disk'[p].is # "none" PROVE p \in strays
    BY <1>1, <2>1, PathsDiffer DEF OwnInv
  <2> QED
    BY <1>2, <2>1 DEF NothingOfOursLeft, Exists
<1>9. ShortSetIsSaid'
  <2>1. ASSUME mode = "archive", NEW n \in picked, ~entry[n].dir PROVE disk[Real(n)].is = "entry"
    <3>1. n \in Names /\ mode # "bare" /\ Last = Len(Order) /\ at \in Nat
      BY <1>1, <2>1, OrderIs DEF TypeOK
    <3>2. PICK i \in 1..Len(Order) : n = Order[i]
      BY <3>1 DEF Names
    <3> QED
      BY <1>1, <2>1, <3>1, <3>2, OrderIs DEF DoneInv
  <2>2. ASSUME mode = "archive" PROVE c = "ok" /\ disk' = disk
    BY <2>2
  <2> QED
    BY <1>1, <1>2, <2>1, <2>2 DEF ShortSetIsSaid
<1> QED
  BY <1>4, <1>5, <1>6, <1>7, <1>8, <1>9 DEF IInv

LEMMA FinishInv ==
    ASSUME IInv, Finish
    PROVE  IInv'
<1>1. /\ pc = "entry" /\ at > Last /\ UNCHANGED <<at, left, out, written, partial>>
      /\ disk \in [Paths -> Contents]
  BY DEF IInv, TypeOK, Finish
<1>2. CASE mode # "bare" /\ End("ok") /\ UNCHANGED disk
  BY <1>1, <1>2, EndedInv DEF Exists
<1> DEFINE to == Real(Order[1])
<1>3. CASE mode = "bare" /\ disk' = Renamed(Part, to, FlushFirst(to)) /\ End("ok")
  <2>1. /\ Part \in Paths /\ to \in Paths /\ Part # to /\ FlushFirst(to) \in BOOLEAN
        /\ Part \notin Reals /\ to \in Reals
    BY OrderIs, PathsDiffer DEF FlushFirst, Exists
  <2>2. /\ disk' \in [Paths -> Contents] /\ disk'[Part] = Nothing
        /\ \A p \in Paths : p # Part /\ p # to => disk'[p] = disk[p]
    BY <1>1, <1>3, <2>1, RenamedIs
  <2>3. \A n \in Names : n # Order[1] => disk'[Real(n)] = disk[Real(n)]
    BY <2>1, <2>2, PathsDiffer, OrderIs
  <2>4. \A p \in Paths \ Reals : disk'[p].is # "none" => Exists(p) /\ p # Part
    BY <2>1, <2>2, ContentsAre DEF Exists
  <2> QED
    BY <1>1, <1>3, <2>2, <2>3, <2>4, EndedInv
<1>4. CASE mode = "bare" /\ disk' = [disk EXCEPT ![Part] = Nothing] /\ End("io")
  <2>1. /\ disk' \in [Paths -> Contents]
        /\ \A n \in Names : disk'[Real(n)] = disk[Real(n)]
        /\ \A p \in Paths \ Reals : disk'[p].is # "none" => Exists(p) /\ p # Part
    BY <1>1, <1>4, PathsDiffer, ContentsAre DEF Exists
  <2> QED
    BY <1>1, <1>4, <2>1, EndedInv
<1> QED
  BY <1>1, <1>2, <1>3, <1>4 DEF Finish

-----------------------------------------------------------------------------
(* The world.                                                              *)

LEMMA LazyWriteInv ==
    ASSUME IInv, NEW p \in Paths, LazyWrite(p)
    PROVE  IInv'
<1>1. /\ TypeOK /\ RunInv /\ OutInv /\ OwnInv /\ SoundInv /\ DoneInv /\ FirstInv
      /\ NothingOfOursLeft /\ ShortSetIsSaid
  BY DEF IInv
<1>2. /\ disk' \in [Paths -> Contents]
      /\ \A x \in Paths : disk'[x].is = disk[x].is
  BY <1>1, ContentsAre DEF LazyWrite, TypeOK
<1>3. UNCHANGED <<entry, held, pc, mode, picked, at, left, out, written, partial, code, strays, runs, crashes>>
  BY DEF LazyWrite, run
<1>4. TypeOK'
  BY <1>1, <1>2, <1>3 DEF TypeOK
<1>5. RunInv' /\ OutInv'
  BY <1>1, <1>3 DEF RunInv, OutInv, Last, Name, E
<1>6. OwnInv' /\ NothingOfOursLeft'
  BY <1>1, <1>2, <1>3 DEF OwnInv, NothingOfOursLeft, Exists
<1>7. SoundInv' /\ FirstInv'
  BY <1>1, <1>2, <1>3, PathsDiffer DEF SoundInv, FirstInv
<1>8. DoneInv'
  BY <1>1, <1>2, <1>3, PathsDiffer, OrderIs DEF DoneInv
<1>9. ShortSetIsSaid'
  <2>1. picked \subseteq Names
    BY <1>1 DEF TypeOK
  <2>2. \A n \in picked : disk'[Real(n)].is = disk[Real(n)].is
    BY <1>2, <2>1, PathsDiffer
  <2> QED
    BY <1>1, <1>3, <2>2 DEF ShortSetIsSaid, E, Name, Last
<1> QED
  BY <1>4, <1>5, <1>6, <1>7, <1>8, <1>9 DEF IInv

LEMMA GoneInv ==
    ASSUME IInv, Gone, disk' \in [Paths -> Contents],
           \A x \in Paths : disk'[x].is = "entry" => disk[x].is = "entry"
    PROVE  IInv'
<1>1. /\ TypeOK /\ RunInv /\ OutInv /\ SoundInv /\ FirstInv
  BY DEF IInv
<1>2. /\ pc' = "idle" /\ out' = NoOut /\ left' = 0 /\ code' = "none" /\ written' = 0 /\ partial' = FALSE
      /\ crashes' \in 0..MaxCrashes
      /\ UNCHANGED <<entry, held, mode, picked, at, strays, runs>>
  BY <1>1, ExtractionAssumption DEF Gone, TypeOK
<1>3. TypeOK'
  <2>1. written' \in 0..Len(Order)
    BY <1>2, OrderIs
  <2> QED
    BY <1>1, <1>2, <2>1 DEF TypeOK
<1>4. RunInv' /\ OutInv' /\ OwnInv' /\ DoneInv'
  <2>1. written' < at'
    BY <1>1, <1>2 DEF TypeOK
  <2> QED
    BY <1>2, <2>1, PathsDiffer DEF RunInv, OutInv, OwnInv, DoneInv
<1>5. SoundInv'
  BY <1>1, <1>2, PathsDiffer DEF SoundInv
<1>6. FirstInv'
  BY <1>1, <1>2 DEF FirstInv, RunInv, TypeOK, Gone
<1>7. NothingOfOursLeft' /\ ShortSetIsSaid'
  BY <1>2 DEF NothingOfOursLeft, ShortSetIsSaid
<1> QED
  BY <1>3, <1>4, <1>5, <1>6, <1>7 DEF IInv

LEMMA KilledInv ==
    ASSUME IInv, Killed \/ PowerCut
    PROVE  IInv'
<1>1. disk \in [Paths -> Contents]
  BY DEF IInv, TypeOK
<1>2. /\ disk' \in [Paths -> Contents]
      /\ \A x \in Paths : disk'[x].is = "entry" => disk[x].is = "entry"
  BY <1>1, ContentsAre DEF Killed, PowerCut
<1> QED
  BY <1>2, GoneInv DEF Killed, PowerCut

LEMMA NextInv == IInv /\ [Next]_vars => IInv'
<1> SUFFICES ASSUME IInv, [Next]_vars PROVE IInv'
  OBVIOUS
<1>1. CASE UNCHANGED vars
  <2>1. /\ TypeOK /\ RunInv /\ OutInv /\ OwnInv /\ SoundInv /\ DoneInv /\ FirstInv
        /\ NothingOfOursLeft /\ ShortSetIsSaid
    BY DEF IInv
  <2>2. TypeOK' /\ RunInv' /\ OutInv'
    BY <1>1, <2>1 DEF vars, run, TypeOK, RunInv, OutInv, Last, Name, E
  <2>3. OwnInv' /\ SoundInv' /\ DoneInv' /\ FirstInv'
    BY <1>1, <2>1 DEF vars, run, OwnInv, SoundInv, DoneInv, FirstInv, Exists
  <2>4. NothingOfOursLeft' /\ ShortSetIsSaid'
    BY <1>1, <2>1 DEF vars, run, NothingOfOursLeft, ShortSetIsSaid, Exists, E, Name, Last
  <2> QED
    BY <2>2, <2>3, <2>4 DEF IInv
<1>2. CASE Next
  BY <1>2, BeginInv, RefuseInv, MisfitInv, SkipInv, OpenVerifyInv, OpenBareInv, OpenFolderInv, OpenSiblingInv,
     OpenUnsafeInv, ConsumeInv, CloseInv, CommitInv, FinishInv, LazyWriteInv, KilledInv
  DEF Next, Modes
<1> QED
  BY <1>1, <1>2

\* The inductive invariant holds in every reachable state.
THEOREM Invariant == Spec => []IInv
<1> QED
  BY InitInv, NextInv, PTL DEF Spec

-----------------------------------------------------------------------------
(* What follows of the invariant.                                          *)

\* The disk, the container and do_unpack's locals keep their types.
THEOREM TypeCorrect == Spec => []TypeOK
<1>1. IInv => TypeOK
  BY DEF IInv
<1> QED
  BY <1>1, Invariant, PTL

\* However it ends by itself, an extraction leaves nothing it made beside the
\* names: no temporary, no .part.
THEOREM LeavesNothing == Spec => []NothingOfOursLeft
<1>1. IInv => NothingOfOursLeft
  BY DEF IInv
<1> QED
  BY <1>1, Invariant, PTL

\* An OK means that every file asked for is there; a failure after the first of
\* them says so, unless it stopped at a record it could not follow.
THEOREM ShortSetsAreSaid == Spec => []ShortSetIsSaid
<1>1. IInv => ShortSetIsSaid
  BY DEF IInv
<1> QED
  BY <1>1, Invariant, PTL

\* A name goes in one step from what the user had there to a whole, verified
\* entry, and what was on the disk under it is not traded for what is not.
THEOREM OldOrWhole == Spec => NamesGoFromOldToWhole
<1>1. ASSUME IInv, [Next]_vars, NEW n \in Names PROVE OldToWhole(n)
  <2> DEFINE was == disk[Real(n)]
             is  == disk'[Real(n)]
  <2>1. TypeOK /\ RunInv /\ OutInv /\ SoundInv
    BY <1>1 DEF IInv
  <2>2. disk \in [Paths -> Contents] /\ was \in Contents /\ Real(n) \in Paths /\ Real(n) \in Reals
    BY <2>1, PathsDiffer DEF TypeOK
  <2>3. ASSUME is = was PROVE OldToWhole(n)
    BY <2>3 DEF OldToWhole
  <2>4. CASE UNCHANGED disk
    BY <2>3, <2>4
  <2>5. ASSUME NEW c, Fail(c) PROVE OldToWhole(n)
    BY <2>1, <2>3, <2>5, FailDiscards
  <2>6. ASSUME NEW from \in Paths \ Reals, NEW m \in Names,
               CanRename(Real(m)), entry[m].sound, UNCHANGED crashes,
               disk' = Renamed(from, Real(m), FlushFirst(Real(m)))
        PROVE  OldToWhole(n)
    <3>1. Real(m) \in Paths /\ from # Real(m) /\ FlushFirst(Real(m)) \in BOOLEAN /\ from # Real(n)
      BY <2>6, <2>2, PathsDiffer DEF FlushFirst, Exists
    <3>2. /\ disk'[Real(m)] = Entry(FlushFirst(Real(m)))
          /\ \A p \in Paths : p # from /\ p # Real(m) => disk'[p] = disk[p]
      BY <2>2, <2>6, <3>1, RenamedIs
    <3>3. CASE n # m
      BY <2>2, <2>3, <3>1, <3>2, <3>3, PathsDiffer
    <3>4. CASE n = m
      <4>1. is.is = "entry" /\ is.lasting = FlushFirst(Real(n))
        BY <3>1, <3>2, <3>4, ContentsAre
      <4>2. was.lasting => FlushFirst(Real(n))
        BY <2>2, ContentsAre DEF FlushFirst, Exists
      <4> QED
        BY <2>6, <3>4, <4>1, <4>2 DEF OldToWhole
    <3> QED
      BY <3>3, <3>4
  <2>7. ASSUME NEW path \in Paths \ Reals, NEW x, disk' = [disk EXCEPT ![path] = x]
        PROVE  OldToWhole(n)
    BY <2>2, <2>3, <2>7
  <2>8. CASE OpenFolder
    <3>1. CASE disk' = IF Exists(Real(Name)) THEN disk ELSE [disk EXCEPT ![Real(Name)] = Folder]
      <4>1. is = was \/ (was = Nothing /\ is = Folder)
        BY <2>2, <3>1, ContentsAre DEF Exists
      <4> QED
        BY <4>1, ContentsAre DEF OldToWhole
    <3> QED
      BY <2>5, <2>8, <3>1 DEF OpenFolder, Wanted
  <2>9. CASE OpenVerify \/ OpenBare \/ OpenUnsafe \/ \E s \in Suffixes : OpenSibling(s)
    <3>1. Part \in Paths \ Reals
      BY PathsDiffer
    <3>2. ASSUME NEW s \in Suffixes, OpenSibling(s) PROVE <<Name, s>> \in Paths \ Reals
      <4>1. Name \in Names
        BY <2>1, <3>2, OrderIs DEF OpenSibling, Wanted, Name, TypeOK
      <4> QED
        BY <4>1, PathsDiffer DEF Temps
    <3> QED
      BY <2>4, <2>5, <2>7, <2>9, <3>1, <3>2 DEF OpenVerify, Wanted, OpenBare, OpenUnsafe, OpenSibling
  <2>10. CASE Consume \/ ConsumeEmpty
    BY <2>4, <2>5, <2>10 DEF Consume, ConsumeEmpty
  <2>11. CASE Close
    <3>1. out \in {Part, NoOut}
      BY <2>1, <2>11 DEF Close, TypeOK
    <3>2. Part \in Paths \ Reals
      BY PathsDiffer
    <3> QED
      BY <2>4, <2>7, <2>11, <3>1, <3>2 DEF Close, Counted
  <2>12. CASE Commit
    <3>1. /\ out \in Paths \ Reals /\ Name \in Names /\ entry[Name].sound
      BY <2>1, <2>12, PathsDiffer, OrderIs DEF Commit, RunInv, TypeOK, Name, E
    <3>2. CASE CanRename(Real(Name)) /\ Counted(Renamed(out, Real(Name), FlushFirst(Real(Name))))
      BY <2>6, <3>1, <3>2 DEF Counted
    <3> QED
      BY <2>5, <2>12, <3>2 DEF Commit
  <2>13. CASE Finish
    <3>1. CASE /\ mode = "bare" /\ CanRename(Real(Order[1]))
               /\ disk' = Renamed(Part, Real(Order[1]), FlushFirst(Real(Order[1]))) /\ End("ok")
      <4>1. Order[1] \in Names /\ Part \in Paths \ Reals /\ entry[Order[1]].sound
        BY <2>1, <2>13, <3>1, OrderIs, PathsDiffer DEF Finish, RunInv, SoundInv, TypeOK
      <4> QED
        BY <2>6, <3>1, <4>1 DEF End
    <3>2. Part \in Paths \ Reals
      BY PathsDiffer
    <3> QED
      BY <2>4, <2>7, <2>13, <3>1, <3>2 DEF Finish
  <2>14. ASSUME NEW p \in Paths, LazyWrite(p) PROVE OldToWhole(n)
    <3>1. is = was \/ (was = Entry(FALSE) /\ is = Entry(TRUE))
      BY <2>2, <2>14 DEF LazyWrite
    <3>2. was.is = "entry" => entry[n].sound
      BY <2>1 DEF SoundInv
    <3> QED
      BY <3>1, <3>2, ContentsAre DEF OldToWhole
  <2>15. CASE PowerCut
    <3>1. is = was \/ (is = Zeros /\ ~was.lasting)
      BY <2>2, <2>15 DEF PowerCut
    <3>2. crashes' > crashes
      BY <2>1, <2>15 DEF PowerCut, Gone, TypeOK
    <3> QED
      BY <3>1, <3>2, ContentsAre DEF OldToWhole
  <2>16. CASE Refuse \/ Misfit \/ Skip \/ Killed \/ UNCHANGED vars
               \/ \E m \in Modes, some \in SUBSET Names : Begin(m, some)
    BY <2>4, <2>16 DEF Refuse, Misfit, Skip, Killed, vars, Begin
  <2> QED
    BY <1>1, <2>8, <2>9, <2>10, <2>11, <2>12, <2>13, <2>14, <2>15, <2>16 DEF Next, Modes
<1>2. IInv /\ [Next]_vars => [\A n \in Names : OldToWhole(n)]_vars
  BY <1>1
<1> QED
  BY <1>2, Invariant, PTL DEF Spec, NamesGoFromOldToWhole
=============================================================================

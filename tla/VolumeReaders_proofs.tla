------------------------- MODULE VolumeReaders_proofs -------------------------
(***************************************************************************)
(* For any names, limits, buffers, handle values and processes, and for a  *)
(* writer that may be killed at any step: what an open set is, what a pack *)
(* that reports success leaves, and what one that fails does not.          *)
(*                                                                         *)
(* What holds it together: whatever was crashed, discarded or overwritten, *)
(* the parts that carry one set_id under one name are slices of the one    *)
(* container of that run, cut at the multiples of one limit; of these only *)
(* the last can be short or final.  The run in progress has its files to   *)
(* itself: no reader holds a file that is open for writing, and no byte of *)
(* the run is anywhere but where dp_done and vol_discard will look for it. *)
(***************************************************************************)
EXTENDS VolumeReaders, SequenceTheorems, WellFoundedInduction, TLAPS

Index  == 1..(MaxParts + 1)

\* The k'th byte of the container of run s, and the bytes that follow one another.
Byte(s, k)  == <<s, k>>
BytesOf(s)  == {s} \X Nat
CellsTo(r) == ((1..r) \X (1..MaxStream)) \cup ((1..r) \X Index \X BOOLEAN)
ReaderStates == [st : {"closed", "assembling", "on"}, base : Bases \cup {NoBase},
                 idx : 0..MaxParts, sid : Nat, refs : 0..MaxRefs, users : [Bases -> Nat]]

\* The files, and how far the runs got.
DiskTypes ==
    /\ DOMAIN disk \subseteq Names /\ disk \in [DOMAIN disk -> Seq(CellsTo(runs))]
    /\ runs \in 0..MaxRuns
    /\ DOMAIN whole \subseteq 1..runs /\ whole \in [DOMAIN whole -> 1..MaxStream]
CallTypes ==
    /\ wpc \in States /\ out \in Bases
    /\ code \in {"none", "ok", "failed", "toomany"}
    /\ est \in 0..MaxStream /\ sent \in 0..est /\ todo \in 0..(est - sent)
    /\ named \in BOOLEAN /\ cursor \in Nat
VolTypes ==
    /\ vol_split \in BOOLEAN /\ vol_limit \in Limits \cup {0} /\ vol_fill \in Nat
    /\ vol_part \in 0..(MaxParts + 1) /\ vol_base \in Bases \cup {NoBase}
    /\ vol_hout \in Handles \cup {Invalid} /\ hloc \in Handles \cup {Invalid}
HandleTypes == fh \in [Handles -> Names \cup {NoName}]
ReaderTypes == rd \in [Procs -> ReaderStates]

Typed == DiskTypes /\ CallTypes /\ VolTypes /\ HandleTypes /\ ReaderTypes

-----------------------------------------------------------------------------
\* Where part i of a container begins.
Offset(i, limit) == (i - 1) * limit

\* A file that begins with a header of the set s, and whether it is the last.
HasHdr(f, s) == f \in DOMAIN disk /\ Len(disk[f]) >= 1 /\ IsHdr(disk[f][1]) /\ disk[f][1][1] = s
Ends(f) == disk[f][1][3]

\* The cells of f from the k0'th on are the bytes of run s that begin at off.
From(f, k0, s, off) == \A k \in k0..Len(disk[f]) : disk[f][k] = Byte(s, off + (k - k0) + 1)

\* The parts of the set s under the name b are cut at the multiples of limit.
Sliced(b, s, limit) ==
    \A i \in Index : HasHdr(Part(b, i), s) =>
        /\ Len(disk[Part(b, i)]) - 1 <= limit
        /\ From(Part(b, i), 2, s, Offset(i, limit))
        /\ Ends(Part(b, i)) => /\ s \in DOMAIN whole
                               /\ whole[s] = Offset(i, limit) + Len(disk[Part(b, i)]) - 1
        /\ \A j \in Index : i < j /\ HasHdr(Part(b, j), s) =>
              ~Ends(Part(b, i)) /\ Len(disk[Part(b, i)]) - 1 = limit

SetsInv == \A b \in Bases, s \in 1..runs : \E limit \in Limits \cup {0} : Sliced(b, s, limit)

\* Part i of the set s under the name b, with n bytes in it.
IsPart(b, s, limit, i, n, final) ==
    /\ Part(b, i) \in DOMAIN disk /\ Len(disk[Part(b, i)]) = n + 1
    /\ disk[Part(b, i)][1] = Hdr(s, i, final)
    /\ From(Part(b, i), 2, s, Offset(i, limit))

\* Part i of the run in progress.
PartIs(i, n, final) == IsPart(out, runs, vol_limit, i, n, final)

\* A file that holds the container of the run, as far as it goes.
Holding(f, n) == f \in DOMAIN disk /\ Len(disk[f]) = n /\ From(f, 1, runs, 0)

Splitting == vol_split /\ vol_limit > 0 /\ vol_base = out

\* What the run in progress has written: before its first byte, while it writes,
\* while the one part is put back, and when it has reported success.
BeforeInv == /\ wpc \in {"preflight", "begin"} => sent = 0
             /\ wpc = "begin" => named
WritingInv == wpc = "writing" =>
    /\ vol_part \in 1..MaxParts
    /\ vol_split <=> vol_limit > 0
    /\ vol_split => /\ vol_base = out /\ vol_fill <= vol_limit
                    /\ sent = Offset(vol_part, vol_limit) + vol_fill
                    /\ \A i \in 1..(vol_part - 1) : PartIs(i, vol_limit, FALSE)
                    /\ PartIs(vol_part, vol_fill, FALSE)
    /\ ~vol_split => Holding(Temp(out), sent) /\ hloc = vol_hout /\ named
FinishedInv ==
    /\ wpc \in {"settle", "shift", "promote", "rename"} =>
          runs \in DOMAIN whole /\ whole[runs] = sent /\ sent > 0
    /\ wpc \in {"settle", "shift", "promote"} => Splitting /\ vol_part = 1
    /\ wpc = "settle" => PartIs(1, sent, TRUE)
    /\ wpc = "promote" => Holding(Settled, sent)
    /\ wpc = "rename" => ~vol_split /\ Holding(Temp(out), sent) /\ named
ShiftInv == wpc = "shift" =>
    /\ Settled \in DOMAIN disk /\ Len(disk[Settled]) = sent + 1 /\ cursor <= sent
    /\ cursor = 0 => PartIs(1, sent, TRUE)
    /\ cursor > 0 => \A k \in 1..Len(disk[Settled]) :
          disk[Settled][k] = Byte(runs, IF k <= cursor THEN k ELSE k - 1)
DoneInv == wpc = "done" /\ code = "ok" =>
    /\ runs \in DOMAIN whole
    /\ \/ Holding(Plain(out), whole[runs])
       \/ /\ vol_part \in 1..MaxParts /\ vol_limit > 0
          /\ \A i \in 1..(vol_part - 1) : PartIs(i, vol_limit, FALSE)
          /\ PartIs(vol_part, whole[runs] - Offset(vol_part, vol_limit), TRUE)
          /\ Offset(vol_part, vol_limit) <= whole[runs]
CodeInv == wpc \notin {"idle", "done"} => code # "ok" /\ runs >= 1

\* Where the bytes and the headers of the run in progress are.
Ours(f) == \E k \in 1..Len(disk[f]) : disk[f][k][1] = runs
Mine(first) == {Part(vol_base, i) : i \in first..vol_part}
PlacedInv == \A f \in DOMAIN disk : Ours(f) =>
    /\ wpc \notin {"preflight", "begin"}
    /\ wpc \in {"writing", "cleanup"} =>
          IF vol_split THEN f \in Mine(1) ELSE f = Temp(out) /\ named
    /\ wpc \in {"settle", "shift", "promote"} => f = Part(out, 1)
    /\ wpc = "rename" => f = Temp(out)
    /\ wpc = "discard" => f \in Mine(cursor) \cup held
    /\ wpc = "done" /\ code # "ok" => f \in held

\* The handles that are open for writing, and on what.
OpenInv ==
    /\ \A h \in Handles : fh[h] # NoName =>
          wpc = "shift" \/ (wpc \in {"writing", "cleanup", "discard"} /\ h = vol_hout)
    /\ wpc = "writing" => /\ vol_hout \in Handles
                          /\ fh[vol_hout] = (IF vol_split THEN Part(out, vol_part) ELSE Temp(out))
    /\ wpc = "shift" => \E h \in Handles : \A g \in Handles :
          fh[g] = IF g = h THEN Settled ELSE NoName
    /\ wpc = "cleanup" /\ ~vol_split => \A h \in Handles : fh[h] # NoName => h = hloc

\* A process that reads: its table is what the disk has, and nobody writes there.
ReaderInv(p) ==
    /\ rd[p].st = "closed" => rd[p].idx = 0
    /\ rd[p].st # "closed" => rd[p].base \in Bases /\ (p = App => wpc = "idle" /\ vol_base = rd[p].base)
    /\ rd[p].st = "on" => rd[p].idx >= 1 /\ rd[p].refs >= 1
    /\ rd[p].idx >= 1 => rd[p].sid \in 1..runs
    /\ \A i \in 1..rd[p].idx :
          /\ HasHdr(Part(rd[p].base, i), rd[p].sid)
          /\ Ends(Part(rd[p].base, i)) <=> rd[p].st = "on" /\ i = rd[p].idx
          /\ ~OpenForWrite(Part(rd[p].base, i))
ReadersInv == \A p \in Procs : ReaderInv(p)

WrittenInv == BeforeInv /\ WritingInv /\ FinishedInv /\ ShiftInv /\ DoneInv /\ CodeInv
IInv == /\ Typed /\ SetsInv /\ WrittenInv /\ PlacedInv /\ OpenInv /\ ReadersInv
        /\ UsersHoldTheirSet

-----------------------------------------------------------------------------
(* Names, cells and bytes. *)

\* No file name of one kind or number is another's.
LEMMA NamesDiffer ==
    ASSUME NEW b, NEW c, NEW i, NEW j
    PROVE  /\ Plain(b) # Temp(c) /\ Plain(b) # Part(c, j) /\ Temp(b) # Part(c, j)
           /\ Plain(b) # NoName /\ Temp(b) # NoName /\ Part(b, i) # NoName
           /\ Plain(b) = Plain(c) <=> b = c
           /\ Temp(b) = Temp(c) <=> b = c
           /\ Part(b, i) = Part(c, j) <=> b = c /\ i = j
BY DEF Plain, Temp, Part, NoName

\* The names of a base are file names.
LEMMA NamesAre ==
    ASSUME NEW b \in Bases
    PROVE  /\ Plain(b) \in Names /\ Temp(b) \in Names
           /\ \A i \in Index : Part(b, i) \in Names
BY DEF Names, Index

\* A part header is recognised, a byte of a container is not taken for one.
LEMMA HdrIs ==
    ASSUME NEW s, NEW i, NEW final
    PROVE  /\ IsHdr(Hdr(s, i, final)) /\ Hdr(s, i, final)[1] = s
           /\ Hdr(s, i, final)[2] = i /\ Hdr(s, i, final)[3] = final
           /\ ~IsHdr(Byte(s, i)) /\ Byte(s, i)[1] = s
BY DEF Hdr, IsHdr, Byte

\* What a cell of one of the first r runs is.
LEMMA CellIs ==
    ASSUME VolumeAssumption, NEW r \in Nat, NEW c \in CellsTo(r)
    PROVE  /\ c[1] \in 1..r
           /\ IsHdr(c) => c[2] \in Index /\ c[3] \in BOOLEAN /\ c = Hdr(c[1], c[2], c[3])
<1>1. CASE c \in (1..r) \X (1..MaxStream)
  <2>1. \E s \in 1..r, k \in 1..MaxStream : c = <<s, k>>
    BY <1>1, Z3
  <2>2. PICK s \in 1..r, k \in 1..MaxStream : c = <<s, k>>
    BY <2>1
  <2>3. c = Byte(s, k)
    BY <2>2 DEF Byte
  <2> QED
    BY <2>2, <2>3, HdrIs
<1>2. CASE c \in (1..r) \X Index \X BOOLEAN
  <2>1. \E s \in 1..r, i \in Index, f \in BOOLEAN : c = <<s, i, f>>
    BY <1>2, Z3
  <2>2. PICK s \in 1..r, i \in Index, f \in BOOLEAN : c = <<s, i, f>>
    BY <2>1
  <2>3. c = Hdr(s, i, f)
    BY <2>2 DEF Hdr
  <2> QED
    BY <2>2, <2>3, HdrIs
<1> QED
  BY <1>1, <1>2 DEF CellsTo

\* A header and a byte are cells.
LEMMA CellsAre ==
    ASSUME NEW r \in Nat, NEW s \in 1..r
    PROVE  /\ \A i \in Index, f \in BOOLEAN : Hdr(s, i, f) \in CellsTo(r)
           /\ \A k \in 1..MaxStream : Byte(s, k) \in CellsTo(r)
BY DEF Hdr, CellsTo, Byte

\* The cells of earlier runs are cells of later ones.
LEMMA CellsGrow ==
    ASSUME NEW r \in Nat, NEW q \in Nat, r <= q, NEW f \in Seq(CellsTo(r))
    PROVE  f \in Seq(CellsTo(q))
<1>1. 1..r \subseteq 1..q
  OBVIOUS
<1>2. (1..r) \X (1..MaxStream) \subseteq (1..q) \X (1..MaxStream)
  BY <1>1
<1>3. (1..r) \X Index \X BOOLEAN \subseteq (1..q) \X Index \X BOOLEAN
  BY <1>1
<1>4. CellsTo(r) \subseteq CellsTo(q)
  BY <1>2, <1>3 DEF CellsTo
<1> QED
  BY <1>4, SeqMonotonic

\* The bytes of a container, as a sequence.
LEMMA BytesAre ==
    ASSUME NEW s \in Nat, NEW k \in Nat, NEW n \in Nat
    PROVE  /\ Bytes(s, k, n) \in Seq(BytesOf(s)) /\ Len(Bytes(s, k, n)) = n
           /\ DOMAIN Bytes(s, k, n) = 1..n
           /\ \A j \in 1..n : Bytes(s, k, n)[j] = Byte(s, k + j)
BY DEF Bytes, BytesOf, Byte

\* Concatenation, under a name that can be left unexpanded.
Cat(u, v) == u \o v

\* Adjacent stretches of a container join.
LEMMA BytesJoin ==
    ASSUME NEW s \in Nat, NEW k \in Nat, NEW m \in Nat, NEW n \in Nat,
           NEW e \in Nat, e = k + m, NEW l \in Nat, l = m + n
    PROVE  Cat(Bytes(s, k, m), Bytes(s, e, n)) = Bytes(s, k, l)
<1> DEFINE C == BytesOf(s)
           a == Bytes(s, k, m)
           b == Bytes(s, e, n)
           c == Bytes(s, k, l)
<1>b. a \in Seq(C) /\ Len(a) = m /\ \A j \in 1..m : a[j] = Byte(s, k + j)
  BY BytesAre
<1>c. b \in Seq(C) /\ Len(b) = n /\ \A j \in 1..n : b[j] = Byte(s, e + j)
  BY BytesAre
<1>d. c \in Seq(C) /\ Len(c) = l /\ \A j \in 1..l : c[j] = Byte(s, k + j)
  BY BytesAre
<1> DEFINE d == Cat(a, b)
<1> HIDE DEF a, b, c, C
<1>2. /\ d \in Seq(C) /\ Len(d) = l
      /\ \A j \in 1..l : d[j] = IF j <= m THEN a[j] ELSE b[j - m]
  BY <1>b, <1>c, ConcatProperties DEF Cat
<1> HIDE DEF d
<1>3. ASSUME NEW j \in 1..l
      PROVE  d[j] = c[j]
  <2>1. CASE j <= m
    <3>1. j \in 1..m
      BY <2>1
    <3> QED
      BY <2>1, <3>1, <1>2, <1>b, <1>d
  <2>2. CASE j > m
    <3>1. j - m \in 1..n /\ e + (j - m) = k + j /\ ~(j <= m)
      BY <2>2
    <3>2. d[j] = Byte(s, k + j)
      BY <3>1, <1>2, <1>c
    <3> QED
      BY <3>2, <1>d
  <2> QED
    BY <2>1, <2>2
<1>4. d = c
  BY <1>d, <1>2, <1>3, SeqEqual
<1> QED
  BY <1>4 DEF a, b, c, d

\* Where the parts begin: at zero, and then each one limit further on.
LEMMA Offsets ==
    ASSUME NEW limit \in Nat, NEW i \in Nat \ {0}
    PROVE  /\ Offset(i, limit) \in Nat /\ Offset(1, limit) = 0
           /\ Offset(i + 1, limit) = Offset(i, limit) + limit
BY DEF Offset

-----------------------------------------------------------------------------
(* Joining the parts of a set.  FlattenSeq is a recursive function: that one *)
(* exists that satisfies the recursion is shown by giving it, and that there *)
(* is no other by the least index at which two of them could differ.         *)

\* A set of naturals that is not empty has a least member.
LEMMA LeastOf ==
    ASSUME NEW T \in SUBSET Nat, T # {}
    PROVE  \E x \in T : \A y \in T : ~(y < x)
<1>1. IsWellFoundedOn(OpToRel(<, Nat), Nat)
  BY NatLessThanWellFounded
<1>2. \E x \in T : \A y \in T : <<y, x>> \notin OpToRel(<, Nat)
  BY <1>1, WFMin
<1>3. \A x, y \in Nat : y < x => <<y, x>> \in OpToRel(<, Nat)
  BY DEF OpToRel
<1> QED
  BY <1>2, <1>3

\* FlattenSeq is the last value of any function that joins from the left.
LEMMA FlattenIs ==
    ASSUME NEW t, Len(t) \in Nat \ {0}, NEW g,
           g = [i \in 1..Len(t) |-> IF i = 1 THEN t[i] ELSE g[i - 1] \o t[i]]
    PROVE  FlattenSeq(t) = g[Len(t)]
<1> DEFINE Def(q) == [i \in 1..Len(t) |-> IF i = 1 THEN t[i] ELSE q[i - 1] \o t[i]]
<1>2. Len(t) # 0
  OBVIOUS
<1>1. PICK f : f = Def(f) /\ FlattenSeq(t) = f[Len(t)]
  <2>1. g = Def(g)
    OBVIOUS
  <2> QED
    BY <1>2, <2>1, Zenon DEF FlattenSeq
<1> DEFINE Apart == {i \in 1..Len(t) : f[i] # g[i]}
<1>4. /\ \A i \in 1..Len(t) : f[i] = IF i = 1 THEN t[i] ELSE f[i - 1] \o t[i]
      /\ \A i \in 1..Len(t) : g[i] = IF i = 1 THEN t[i] ELSE g[i - 1] \o t[i]
  BY <1>1, Zenon
<1>5. Apart = {}
  <2>1. SUFFICES ASSUME Apart # {} PROVE FALSE
    OBVIOUS
  <2>2. Apart \in SUBSET Nat
    OBVIOUS
  <2>3. PICK i \in Apart : \A j \in Apart : ~(j < i)
    BY <2>1, <2>2, LeastOf
  <2>4. i \in 1..Len(t) /\ f[i] # g[i]
    BY <2>3
  <2>5. i # 1
    BY <1>4, <2>4
  <2>6. i - 1 \in 1..Len(t) /\ i - 1 < i
    BY <2>4, <2>5
  <2>7. f[i - 1] = g[i - 1]
    BY <2>3, <2>6
  <2> QED
    BY <1>4, <2>4, <2>5, <2>7
<1>6. \A i \in 1..Len(t) : f[i] = g[i]
  BY <1>5
<1>7. Len(t) \in 1..Len(t)
  OBVIOUS
<1>8. f[Len(t)] = g[Len(t)]
  BY <1>6, <1>7
<1> QED
  BY <1>1, <1>8

\* Adjacent stretches of a container, cut anywhere, join to what they cover.
LEMMA StretchesJoin ==
    ASSUME NEW s \in Nat, NEW t, NEW n \in Nat \ {0}, Len(t) = n, NEW cut \in [0..n -> Nat], cut[0] = 0,
           \A i \in 1..n : /\ cut[i - 1] <= cut[i]
                           /\ t[i] = Bytes(s, cut[i - 1], cut[i] - cut[i - 1])
    PROVE  FlattenSeq(t) = Bytes(s, 0, cut[n])
<1> DEFINE g == [i \in 1..n |-> Bytes(s, 0, cut[i])]
<1>1. ASSUME NEW i \in 1..n
      PROVE  Cat(Bytes(s, 0, cut[i - 1]), t[i]) = Bytes(s, 0, cut[i])
  <2>1. i - 1 \in 0..n /\ i \in 0..n
    OBVIOUS
  <2>2. PICK a \in Nat, u \in Nat : a = cut[i - 1] /\ u = cut[i]
    BY <2>1
  <2>3. a <= u /\ t[i] = Bytes(s, a, u - a)
    BY <2>2
  <2>4. PICK d \in Nat : d = u - a
    BY <2>3
  <2>6. 0 \in Nat /\ a = 0 + a /\ u = a + d
    BY <2>4
  <2>7. Cat(Bytes(s, 0, a), Bytes(s, a, d)) = Bytes(s, 0, u)
    BY <2>6, BytesJoin
  <2>8. Cat(Bytes(s, 0, a), t[i]) = Bytes(s, 0, u)
    BY <2>3, <2>4, <2>7
  <2> QED
    BY <2>2, <2>8
<1>2. \A i \in 1..n : g[i] = Bytes(s, 0, cut[i])
  OBVIOUS
<1>3. g = [i \in 1..n |-> g[i]]
  OBVIOUS
<1> HIDE DEF g
<1>4. \A i \in 1..n : g[i] = IF i = 1 THEN t[i] ELSE Cat(g[i - 1], t[i])
  <2> SUFFICES ASSUME NEW i \in 1..n
               PROVE  g[i] = IF i = 1 THEN t[i] ELSE Cat(g[i - 1], t[i])
    OBVIOUS
  <2>1. CASE i = 1
    <3>1. cut[1] \in Nat /\ cut[1] - 0 = cut[1] /\ i - 1 = 0
      BY <2>1
    <3>2. t[1] = Bytes(s, cut[0], cut[1] - cut[0])
      BY <2>1, <3>1
    <3>3. t[1] = Bytes(s, 0, cut[1])
      BY <3>1, <3>2
    <3> QED
      BY <2>1, <3>3, <1>2
  <2>2. CASE i # 1
    <3>1. i - 1 \in 1..n
      BY <2>2
    <3>2. g[i - 1] = Bytes(s, 0, cut[i - 1])
      BY <3>1, <1>2
    <3>3. Cat(g[i - 1], t[i]) = Bytes(s, 0, cut[i])
      BY <3>2, <1>1
    <3> QED
      BY <2>2, <3>3, <1>2
  <2> QED
    BY <2>1, <2>2
<1>5. g = [i \in 1..Len(t) |-> IF i = 1 THEN t[i] ELSE g[i - 1] \o t[i]]
  BY <1>3, <1>4 DEF Cat
<1>6. FlattenSeq(t) = g[n]
  BY <1>5, FlattenIs
<1> QED
  BY <1>2, <1>6

\* Parts cut at the multiples of a limit, but for the last.
Cuts(t, s, limit, n, total) ==
    /\ Len(t) = n
    /\ \A i \in 1..(n - 1) : t[i] = Bytes(s, Offset(i, limit), limit)
    /\ Offset(n, limit) <= total
    /\ t[n] = Bytes(s, Offset(n, limit), total - Offset(n, limit))

\* They join to the container.
LEMMA CutsJoin ==
    ASSUME NEW s \in Nat, NEW limit \in Nat, NEW total \in Nat, NEW t, NEW n \in Nat \ {0},
           Cuts(t, s, limit, n, total)
    PROVE  FlattenSeq(t) = Bytes(s, 0, total)
<1>o. /\ Len(t) = n /\ Offset(n, limit) <= total
      /\ \A i \in 1..(n - 1) : t[i] = Bytes(s, Offset(i, limit), limit)
      /\ t[n] = Bytes(s, Offset(n, limit), total - Offset(n, limit))
  BY DEF Cuts
<1> DEFINE cut == [i \in 0..n |-> IF i = n THEN total ELSE Offset(i + 1, limit)]
<1>1. \A i \in 0..n : i + 1 \in Nat \ {0}
  OBVIOUS
<1>2. \A i \in 0..n : Offset(i + 1, limit) \in Nat
  BY <1>1, Offsets
<1>3. cut \in [0..n -> Nat] /\ cut[n] = total
  BY <1>2
<1>4. Offset(1, limit) = 0 /\ 0 \in 0..n /\ 0 # n /\ 0 + 1 = 1
  BY Offsets
<1>5. cut[0] = 0
  BY <1>4
<1>6. ASSUME NEW i \in 1..n
      PROVE  cut[i - 1] <= cut[i] /\ t[i] = Bytes(s, cut[i - 1], cut[i] - cut[i - 1])
  <2>1. i - 1 \in 0..n /\ i - 1 # n /\ (i - 1) + 1 = i /\ i \in 0..n
    OBVIOUS
  <2>2. cut[i - 1] = Offset(i, limit)
    BY <2>1
  <2>3. i \in Nat \ {0}
    OBVIOUS
  <2>4. /\ Offset(i, limit) \in Nat
        /\ Offset(i + 1, limit) = Offset(i, limit) + limit
    BY <2>3, Offsets
  <2>5. CASE i = n
    BY <2>2, <2>5, <1>3, <1>o
  <2>6. CASE i # n
    <3>1. cut[i] = Offset(i, limit) + limit
      BY <2>1, <2>4, <2>6
    <3>2. i \in 1..(n - 1)
      BY <2>6
    <3>3. t[i] = Bytes(s, Offset(i, limit), limit)
      BY <3>2, <1>o
    <3>4. cut[i] - cut[i - 1] = limit /\ cut[i - 1] <= cut[i]
      BY <3>1, <2>2, <2>4
    <3> QED
      BY <3>3, <3>4, <2>2
  <2> QED
    BY <2>5, <2>6
<1> HIDE DEF cut
<1>7. FlattenSeq(t) = Bytes(s, 0, cut[n])
  BY <1>o, <1>3, <1>5, <1>6, StretchesJoin
<1> QED
  BY <1>3, <1>7

-----------------------------------------------------------------------------
(* What the inductive invariant says of a state. *)

\* A sequence with the bytes of a stretch is that stretch.
LEMMA IsStretch ==
    ASSUME NEW C, NEW q \in Seq(C), NEW s \in Nat, NEW k \in Nat, NEW n \in Nat,
           Len(q) = n, \A j \in 1..n : q[j] = Byte(s, k + j)
    PROVE  q = Bytes(s, k, n)
<1> DEFINE D == C \cup BytesOf(s)
           t == Bytes(s, k, n)
<1>1. t \in Seq(BytesOf(s)) /\ Len(t) = n /\ \A j \in 1..n : t[j] = Byte(s, k + j)
  BY BytesAre
<1>2. C \subseteq D /\ BytesOf(s) \subseteq D
  OBVIOUS
<1> HIDE DEF D, t
<1>3. q \in Seq(D) /\ t \in Seq(D)
  BY <1>1, <1>2, SeqMonotonic
<1>4. q = t
  BY <1>1, <1>3, SeqEqual
<1> QED
  BY <1>4 DEF t

\* A file on the disk, and its length.
LEMMA FileIs ==
    ASSUME DiskTypes, NEW f \in DOMAIN disk
    PROVE  disk[f] \in Seq(CellsTo(runs)) /\ Len(disk[f]) \in Nat /\ runs \in Nat
BY LenProperties DEF DiskTypes

\* A file that holds a container is the container.
LEMMA HeldWhole ==
    ASSUME DiskTypes, NEW f, NEW n \in Nat, Holding(f, n)
    PROVE  f \in DOMAIN disk /\ disk[f] = Bytes(runs, 0, n)
<1>1. f \in DOMAIN disk /\ Len(disk[f]) = n
  BY DEF Holding
<1>2. disk[f] \in Seq(CellsTo(runs)) /\ runs \in Nat
  BY <1>1, FileIs
<1>3. \A j \in 1..n : disk[f][j] = Byte(runs, 0 + j)
  BY <1>1 DEF Holding, From
<1> QED
  BY <1>1, <1>2, <1>3, IsStretch

\* A part, past its header, is the stretch that begins where it says.
LEMMA PartIsStretch ==
    ASSUME DiskTypes, NEW f \in DOMAIN disk, NEW s \in Nat, NEW off \in Nat, NEW n \in Nat,
           Len(disk[f]) = n + 1, From(f, 2, s, off)
    PROVE  Tail(disk[f]) = Bytes(s, off, n)
<1> DEFINE q == disk[f]
           C == CellsTo(runs)
<1>1. q \in Seq(C) /\ Len(q) = n + 1
  BY FileIs
<1>2. \A k \in 2..(n + 1) : q[k] = Byte(s, off + (k - 2) + 1)
  BY <1>1 DEF From
<1> HIDE DEF q, C
<1>3. q # <<>>
  BY <1>1, EmptySeq
<1>4. /\ Tail(q) \in Seq(C) /\ Len(Tail(q)) = n
      /\ \A i \in 1..n : Tail(q)[i] = q[i + 1]
  BY <1>1, <1>3, HeadTailProperties
<1>5. ASSUME NEW j \in 1..n
      PROVE  Tail(q)[j] = Byte(s, off + j)
  <2>1. j + 1 \in 2..(n + 1) /\ off + ((j + 1) - 2) + 1 = off + j
    OBVIOUS
  <2>2. q[j + 1] = Byte(s, off + j)
    BY <2>1, <1>2
  <2> QED
    BY <2>2, <1>4
<1>6. Tail(q) = Bytes(s, off, n)
  <2>1. PICK t : t = Tail(q)
    OBVIOUS
  <2>2. t \in Seq(C) /\ Len(t) = n /\ \A j \in 1..n : t[j] = Byte(s, off + j)
    BY <2>1, <1>4, <1>5
  <2>3. t = Bytes(s, off, n)
    BY <2>2, IsStretch
  <2> QED
    BY <2>1, <2>3
<1> QED
  BY <1>6 DEF q

\* The parts of one run under one name, numbered without a hole up to one that is
\* final, are its container.
LEMMA SetIsContainer ==
    ASSUME VolumeAssumption, DiskTypes, NEW b, NEW s \in Nat, NEW limit \in Nat,
           Sliced(b, s, limit), NEW n \in 1..MaxParts,
           \A i \in 1..n : HasHdr(Part(b, i), s), Ends(Part(b, n))
    PROVE  /\ s \in DOMAIN whole
           /\ FlattenSeq([i \in 1..n |-> Tail(disk[Part(b, i)])]) = Container(s)
<1> DEFINE t == [i \in 1..n |-> Tail(disk[Part(b, i)])]
           size(i) == Len(disk[Part(b, i)]) - 1
<1>1. \A i \in 1..n : i \in Index /\ i \in Nat \ {0} /\ n \in Nat \ {0}
  BY DEF Index, VolumeAssumption
<1>2. ASSUME NEW i \in 1..n
      PROVE  /\ Part(b, i) \in DOMAIN disk /\ size(i) \in Nat /\ Offset(i, limit) \in Nat
             /\ t[i] = Bytes(s, Offset(i, limit), size(i))
  <2>1. Part(b, i) \in DOMAIN disk /\ Len(disk[Part(b, i)]) >= 1
    BY DEF HasHdr
  <2>2. size(i) \in Nat /\ Len(disk[Part(b, i)]) = size(i) + 1
    BY <2>1, FileIs
  <2>3. From(Part(b, i), 2, s, Offset(i, limit))
    BY <1>1 DEF Sliced
  <2>4. Offset(i, limit) \in Nat
    BY <1>1, Offsets
  <2>5. Tail(disk[Part(b, i)]) = Bytes(s, Offset(i, limit), size(i))
    BY <2>1, <2>2, <2>3, <2>4, PartIsStretch
  <2> QED
    BY <2>1, <2>2, <2>4, <2>5
<1>3. \A i \in 1..(n - 1) : size(i) = limit
  BY <1>1 DEF Sliced
<1>4. n \in 1..n
  OBVIOUS
<1>5. s \in DOMAIN whole /\ whole[s] = Offset(n, limit) + size(n)
  BY <1>1, <1>4 DEF Sliced
<1>6. whole[s] \in Nat /\ whole[s] - Offset(n, limit) = size(n) /\ Offset(n, limit) <= whole[s]
  BY <1>2, <1>4, <1>5
<1>9. Len(t) = n /\ n \in Nat \ {0}
  BY <1>1, <1>4
<1> HIDE DEF t
<1>7. t[n] = Bytes(s, Offset(n, limit), whole[s] - Offset(n, limit))
  BY <1>2, <1>4, <1>6
<1>8. ASSUME NEW i \in 1..(n - 1)
      PROVE  t[i] = Bytes(s, Offset(i, limit), limit)
  <2>1. i \in 1..n
    OBVIOUS
  <2> QED
    BY <2>1, <1>2, <1>3
<1>10. FlattenSeq(t) = Bytes(s, 0, whole[s])
  <2>1. Cuts(t, s, limit, n, whole[s])
    BY <1>6, <1>7, <1>8, <1>9 DEF Cuts
  <2> QED
    BY <2>1, <1>6, <1>9, CutsJoin
<1>11. FlattenSeq(t) = Container(s)
  BY <1>10 DEF Container
<1> QED
  BY <1>5, <1>11 DEF t

\* The record of a process that reads.
LEMMA ReaderIs ==
    ASSUME ReaderTypes, NEW p \in Procs
    PROVE  /\ rd[p] \in ReaderStates /\ rd[p].st \in {"closed", "assembling", "on"}
           /\ rd[p].base \in Bases \cup {NoBase} /\ rd[p].idx \in 0..MaxParts
           /\ rd[p].sid \in Nat /\ rd[p].refs \in 0..MaxRefs /\ rd[p].users \in [Bases -> Nat]
<1>1. rd[p] \in ReaderStates
  BY DEF ReaderTypes
<1> QED
  BY <1>1 DEF ReaderStates

LEMMA TypesHold ==
    ASSUME VolumeAssumption, Typed, WritingInv
    PROVE  TypeOK
<1>1. DOMAIN disk \subseteq Names /\ runs \in 0..MaxRuns /\ DOMAIN whole \subseteq 1..runs
  BY DEF Typed, DiskTypes
<1>2. CellsTo(runs) \subseteq Cells
  <2>1. 1..runs \subseteq 1..MaxRuns
    BY <1>1 DEF VolumeAssumption
  <2>2. (1..runs) \X (1..MaxStream) \subseteq (1..MaxRuns) \X (1..MaxStream)
    BY <2>1
  <2>3. (1..runs) \X Index \X BOOLEAN \subseteq (1..MaxRuns) \X Index \X BOOLEAN
    BY <2>1
  <2> QED
    BY <2>2, <2>3 DEF CellsTo, Cells, Index
<1>3. ASSUME NEW f \in DOMAIN disk, NEW k \in 1..Len(disk[f])
      PROVE  disk[f][k] \in Cells
  <2>1. disk[f] \in Seq(CellsTo(runs))
    BY FileIs DEF Typed
  <2>2. disk[f][k] \in CellsTo(runs)
    BY <2>1, ElementOfSeq
  <2> QED
    BY <2>2, <1>2
<1>4. wpc = "writing" /\ vol_limit > 0 => vol_fill <= vol_limit
  BY DEF WritingInv
<1>5. \A p \in Procs : /\ rd[p].st \in {"closed", "assembling", "on"}
                       /\ rd[p].idx \in 0..MaxParts /\ rd[p].refs \in 0..MaxRefs
  BY ReaderIs DEF Typed
<1>6. \A h \in Handles : fh[h] \in Names \cup {NoName}
  BY DEF Typed, HandleTypes
<1> QED
  BY <1>1, <1>3, <1>4, <1>5, <1>6 DEF TypeOK, Typed, CallTypes, VolTypes

LEMMA OpenHolds ==
    ASSUME VolumeAssumption, Typed, SetsInv, ReadersInv
    PROVE  OpenSetIsOneContainer
<1> SUFFICES ASSUME NEW p \in Procs, rd[p].st = "on"
             PROVE  rd[p].sid \in DOMAIN whole /\ Joined(p) = Container(rd[p].sid)
  BY DEF OpenSetIsOneContainer
<1> DEFINE b == rd[p].base
           s == rd[p].sid
           n == rd[p].idx
<1>1. n \in 0..MaxParts /\ s \in Nat /\ ReaderInv(p)
  BY ReaderIs DEF Typed, ReadersInv
<1>2. n \in 1..MaxParts /\ b \in Bases /\ s \in 1..runs
  BY <1>1 DEF ReaderInv, VolumeAssumption
<1>3. \A i \in 1..n : HasHdr(Part(b, i), s)
  BY <1>1 DEF ReaderInv
<1>4. n \in 1..n
  BY <1>2
<1>5. Ends(Part(b, n))
  BY <1>1, <1>4 DEF ReaderInv
<1>6. PICK limit \in Limits \cup {0} : Sliced(b, s, limit)
  BY <1>2 DEF SetsInv
<1>7. limit \in Nat
  BY DEF VolumeAssumption
<1> HIDE DEF b, s, n
<1>8. /\ s \in DOMAIN whole
      /\ FlattenSeq([i \in 1..n |-> Tail(disk[Part(b, i)])]) = Container(s)
  BY <1>1, <1>2, <1>3, <1>5, <1>6, <1>7, SetIsContainer DEF Typed
<1> QED
  BY <1>8 DEF b, s, n, Joined, Slice

LEMMA SuccessHolds ==
    ASSUME VolumeAssumption, Typed, DoneInv
    PROVE  SuccessIsReadable
<1> SUFFICES ASSUME wpc = "done", code = "ok"
             PROVE  \/ Assembles(out)
                    \/ Plain(out) \in DOMAIN disk /\ disk[Plain(out)] = Container(runs)
  BY DEF SuccessIsReadable
<1>1. runs \in DOMAIN whole /\ whole[runs] \in Nat /\ runs \in Nat
  BY DEF DoneInv, Typed, DiskTypes
<1>2. CASE Holding(Plain(out), whole[runs])
  BY <1>1, <1>2, HeldWhole DEF Typed, Container
<1>3. CASE ~Holding(Plain(out), whole[runs])
  <2> DEFINE n == vol_part
             t == [i \in 1..n |-> Tail(disk[Part(out, i)])]
             size(i) == IF i = n THEN whole[runs] - Offset(n, vol_limit) ELSE vol_limit
  <2>a. /\ n \in 1..MaxParts
        /\ \A i \in 1..(n - 1) : PartIs(i, vol_limit, FALSE)
        /\ PartIs(n, whole[runs] - Offset(n, vol_limit), TRUE)
        /\ Offset(n, vol_limit) <= whole[runs]
    BY <1>3, Zenon DEF DoneInv
  <2>b. vol_limit \in Nat
    BY DEF Typed, VolTypes, VolumeAssumption
  <2>1. /\ n \in 1..MaxParts /\ vol_limit \in Nat
        /\ \A i \in 1..(n - 1) : PartIs(i, vol_limit, FALSE)
        /\ PartIs(n, whole[runs] - Offset(n, vol_limit), TRUE)
        /\ Offset(n, vol_limit) <= whole[runs]
    BY <2>a, <2>b
  <2>2. /\ \A i \in 1..n : i \in Nat \ {0} /\ (i = n \/ i \in 1..(n - 1))
        /\ n \in 1..n /\ \A i \in 1..(n - 1) : i \in 1..n /\ i # n
    BY <2>1 DEF VolumeAssumption
  <2>3. \A i \in 1..n : Offset(i, vol_limit) \in Nat
    BY <2>1, <2>2, Offsets
  <2>4. ASSUME NEW i \in 1..n
        PROVE  PartIs(i, size(i), i = n)
    <3>1. CASE i = n
      <4>1. (i = n) = TRUE /\ size(i) = whole[runs] - Offset(n, vol_limit)
        BY <3>1
      <4>2. PartIs(n, size(i), TRUE)
        BY <4>1, <2>1
      <4> QED
        BY <4>1, <4>2, <3>1
    <3>2. CASE i # n
      <4>1. (i = n) = FALSE /\ size(i) = vol_limit /\ i \in 1..(n - 1)
        BY <3>2, <2>2
      <4>2. PartIs(i, size(i), FALSE)
        BY <4>1, <2>1
      <4> QED
        BY <4>1, <4>2
    <3> QED
      BY <3>1, <3>2
  <2>5. \A i \in 1..n : size(i) \in Nat
    BY <2>1, <2>2, <2>3, <1>1
  <2> HIDE DEF size
  <2>6. ASSUME NEW i \in 1..n
        PROVE  /\ Part(out, i) \in DOMAIN disk /\ disk[Part(out, i)] # <<>>
               /\ disk[Part(out, i)][1] = Hdr(runs, i, i = n)
               /\ Tail(disk[Part(out, i)]) = Bytes(runs, Offset(i, vol_limit), size(i))
    <3>1. /\ Part(out, i) \in DOMAIN disk /\ Len(disk[Part(out, i)]) = size(i) + 1
          /\ disk[Part(out, i)][1] = Hdr(runs, i, i = n)
          /\ From(Part(out, i), 2, runs, Offset(i, vol_limit))
      BY <2>4 DEF PartIs, IsPart
    <3>2. Tail(disk[Part(out, i)]) = Bytes(runs, Offset(i, vol_limit), size(i))
      BY <3>1, <2>3, <2>5, <1>1, PartIsStretch DEF Typed
    <3>3. disk[Part(out, i)] # <<>>
      BY <3>1, <2>5, EmptySeq
    <3> QED
      BY <3>1, <3>2, <3>3
  <2>7. Len(t) = n /\ n \in Nat \ {0}
    BY <2>1
  <2>8. t[n] = Bytes(runs, Offset(n, vol_limit), whole[runs] - Offset(n, vol_limit))
    BY <2>2, <2>6 DEF size
  <2>9. \A i \in 1..(n - 1) : t[i] = Bytes(runs, Offset(i, vol_limit), vol_limit)
    BY <2>2, <2>6 DEF size
  <2>10. FlattenSeq(t) = Container(runs)
    <3> HIDE DEF t
    <3>1. Cuts(t, runs, vol_limit, n, whole[runs])
      BY <2>1, <2>7, <2>8, <2>9 DEF Cuts
    <3>2. FlattenSeq(t) = Bytes(runs, 0, whole[runs])
      BY <3>1, <2>1, <2>7, <1>1, CutsJoin
    <3> QED
      BY <3>2 DEF Container
  <2>11. \A i \in 1..n : /\ Part(out, i) \in DOMAIN disk /\ disk[Part(out, i)] # <<>>
                         /\ HdrCheck(disk[Part(out, i)][1], i, runs)
                         /\ disk[Part(out, i)][1][1] = runs
                         /\ disk[Part(out, i)][1][3] = (i = n)
    <3> SUFFICES ASSUME NEW i \in 1..n
                 PROVE  /\ Part(out, i) \in DOMAIN disk /\ disk[Part(out, i)] # <<>>
                        /\ HdrCheck(disk[Part(out, i)][1], i, runs)
                        /\ disk[Part(out, i)][1][1] = runs
                        /\ disk[Part(out, i)][1][3] = (i = n)
      OBVIOUS
    <3> DEFINE last == i = n
    <3>1. disk[Part(out, i)][1] = Hdr(runs, i, last)
      BY <2>6
    <3> HIDE DEF last
    <3>2. /\ IsHdr(Hdr(runs, i, last)) /\ Hdr(runs, i, last)[1] = runs
          /\ Hdr(runs, i, last)[2] = i /\ Hdr(runs, i, last)[3] = last
      BY HdrIs
    <3>3. disk[Part(out, i)][1][3] = last
      BY <3>1, <3>2
    <3>4. disk[Part(out, i)][1][3] = (i = n)
      BY <3>3 DEF last
    <3>5. HdrCheck(disk[Part(out, i)][1], i, runs) /\ disk[Part(out, i)][1][1] = runs
      BY <3>1, <3>2 DEF HdrCheck
    <3> QED
      BY <3>4, <3>5, <2>6
  <2>12. FlattenSeq([i \in 1..n |-> Tail(disk[Part(out, i)])]) = Container(runs)
    BY <2>10
  <2> HIDE DEF n, t
  <2>13. Assembles(out)
    BY <2>1, <2>11, <2>12 DEF Assembles
  <2> QED
    BY <2>13
<1> QED
  BY <1>2, <1>3

LEMMA FailureHolds ==
    ASSUME PlacedInv
    PROVE  FailureLeavesNothing
BY DEF PlacedInv, Ours, FailureLeavesNothing

-----------------------------------------------------------------------------
(* What a step that leaves the files, the sets or the readers alone keeps. *)

\* A container's parts stay its slices when none of them changes and none is added.
LEMMA SlicedKept ==
    ASSUME NEW b, NEW s, NEW limit, Sliced(b, s, limit),
           \A i \in Index : HasHdr(Part(b, i), s)' =>
               /\ Part(b, i) \in DOMAIN disk
               /\ disk'[Part(b, i)] = disk[Part(b, i)],
           s \in DOMAIN whole => s \in DOMAIN whole' /\ whole'[s] = whole[s]
    PROVE  Sliced(b, s, limit)'
<1>1. ASSUME NEW i \in Index, HasHdr(Part(b, i), s)'
      PROVE  HasHdr(Part(b, i), s) /\ disk'[Part(b, i)] = disk[Part(b, i)]
  BY <1>1 DEF HasHdr
<1>2. ASSUME NEW i \in Index, HasHdr(Part(b, i), s)'
      PROVE  /\ Len(disk'[Part(b, i)]) - 1 <= limit
             /\ From(Part(b, i), 2, s, Offset(i, limit))'
             /\ Ends(Part(b, i))' => /\ s \in DOMAIN whole'
                                     /\ whole'[s] = Offset(i, limit) + Len(disk'[Part(b, i)]) - 1
  <2>1. HasHdr(Part(b, i), s) /\ disk'[Part(b, i)] = disk[Part(b, i)]
    BY <1>1, <1>2
  <2>2. /\ Len(disk[Part(b, i)]) - 1 <= limit
        /\ From(Part(b, i), 2, s, Offset(i, limit))
        /\ Ends(Part(b, i)) => /\ s \in DOMAIN whole
                               /\ whole[s] = Offset(i, limit) + Len(disk[Part(b, i)]) - 1
    BY <2>1 DEF Sliced
  <2>3. From(Part(b, i), 2, s, Offset(i, limit))'
    BY <2>1, <2>2 DEF From
  <2>4. Ends(Part(b, i))' => Ends(Part(b, i))
    BY <2>1 DEF Ends
  <2> QED
    BY <2>1, <2>2, <2>3, <2>4
<1>3. ASSUME NEW i \in Index, HasHdr(Part(b, i), s)', NEW j \in Index, i < j,
             HasHdr(Part(b, j), s)'
      PROVE  ~Ends(Part(b, i))' /\ Len(disk'[Part(b, i)]) - 1 = limit
  <2>1. /\ HasHdr(Part(b, i), s) /\ disk'[Part(b, i)] = disk[Part(b, i)]
        /\ HasHdr(Part(b, j), s)
    BY <1>1, <1>3
  <2>2. ~Ends(Part(b, i)) /\ Len(disk[Part(b, i)]) - 1 = limit
    BY <1>3, <2>1 DEF Sliced
  <2> QED
    BY <2>1, <2>2 DEF Ends
<1> QED
  BY <1>2, <1>3 DEF Sliced

LEMMA SetsKept ==
    ASSUME SetsInv, runs' = runs, whole' = whole,
           \A b \in Bases, i \in Index, s \in 1..runs : HasHdr(Part(b, i), s)' =>
               Part(b, i) \in DOMAIN disk /\ disk'[Part(b, i)] = disk[Part(b, i)]
    PROVE  SetsInv'
<1> SUFFICES ASSUME NEW b \in Bases, NEW s \in 1..runs
             PROVE  \E limit \in Limits \cup {0} : Sliced(b, s, limit)'
  BY DEF SetsInv
<1>1. PICK limit \in Limits \cup {0} : Sliced(b, s, limit)
  BY DEF SetsInv
<1>2. Sliced(b, s, limit)'
  BY <1>1, SlicedKept
<1> QED
  BY <1>2

LEMMA SetsSame ==
    ASSUME SetsInv, runs' = runs, whole' = whole, disk' = disk
    PROVE  SetsInv'
<1>1. \A b \in Bases, i \in Index, s \in 1..runs : HasHdr(Part(b, i), s)' =>
          Part(b, i) \in DOMAIN disk /\ disk'[Part(b, i)] = disk[Part(b, i)]
  BY DEF HasHdr
<1> QED
  BY <1>1, SetsKept

\* A step that writes parts of the run in progress, or says how long it became.
LEMMA SetsWritten ==
    ASSUME SetsInv, runs' = runs, out' = out,
           \A b \in Bases, i \in Index, s \in 1..runs : HasHdr(Part(b, i), s)' =>
               \/ s = runs /\ b = out
               \/ /\ s # runs
                  /\ Part(b, i) \in DOMAIN disk /\ disk'[Part(b, i)] = disk[Part(b, i)],
           \A s \in 1..runs : s # runs /\ s \in DOMAIN whole =>
               s \in DOMAIN whole' /\ whole'[s] = whole[s],
           \E limit \in Limits \cup {0} : Sliced(out, runs, limit)'
    PROVE  SetsInv'
<1> SUFFICES ASSUME NEW b \in Bases, NEW s \in 1..runs
             PROVE  \E limit \in Limits \cup {0} : Sliced(b, s, limit)'
  BY DEF SetsInv
<1>1. CASE s # runs
  <2>1. PICK limit \in Limits \cup {0} : Sliced(b, s, limit)
    BY DEF SetsInv
  <2>2. Sliced(b, s, limit)'
    BY <1>1, <2>1, SlicedKept
  <2> QED
    BY <2>2
<1>2. CASE s = runs /\ b # out
  <2>1. \A i \in Index : ~HasHdr(Part(b, i), s)'
    BY <1>2
  <2>2. Sliced(b, s, 0)'
    BY <2>1 DEF Sliced
  <2> QED
    BY <2>2
<1>3. CASE s = runs /\ b = out
  BY <1>3
<1> QED
  BY <1>1, <1>2, <1>3

\* The parts the run has written are slices of its container.
LEMMA PartsAreSliced ==
    ASSUME VolumeAssumption, DiskTypes', NEW b, NEW r, NEW L \in Nat,
           NEW n \in 1..MaxParts, NEW last \in Nat, NEW final \in BOOLEAN, last <= L,
           \A i \in 1..(n - 1) : IsPart(b, r, L, i, L, FALSE)', IsPart(b, r, L, n, last, final)',
           \A i \in Index : HasHdr(Part(b, i), r)' => i \in 1..n,
           final => r \in DOMAIN whole' /\ whole'[r] = Offset(n, L) + last
    PROVE  Sliced(b, r, L)'
<1> DEFINE f(i) == Part(b, i)
<1>1. ASSUME NEW i \in 1..(n - 1)
      PROVE  /\ Len(disk'[f(i)]) - 1 = L
             /\ From(f(i), 2, r, Offset(i, L))'
             /\ ~Ends(f(i))'
  <2>1. /\ Len(disk'[f(i)]) = L + 1 /\ disk'[f(i)][1] = Hdr(r, i, FALSE)
        /\ From(f(i), 2, r, Offset(i, L))'
    BY DEF IsPart
  <2>2. ~Hdr(r, i, FALSE)[3]
    BY DEF Hdr
  <2>3. ~disk'[f(i)][1][3]
    BY <2>1, <2>2
  <2>4. ~Ends(f(i))'
    BY <2>3 DEF Ends
  <2>5. Len(disk'[f(i)]) - 1 = L
    BY <2>1
  <2> QED
    BY <2>1, <2>4, <2>5
<1>2. /\ Len(disk'[f(n)]) - 1 = last
      /\ From(f(n), 2, r, Offset(n, L))'
      /\ Ends(f(n))' = final
  <2>1. /\ Len(disk'[f(n)]) = last + 1 /\ disk'[f(n)][1] = Hdr(r, n, final)
        /\ From(f(n), 2, r, Offset(n, L))'
    BY DEF IsPart
  <2>2. Hdr(r, n, final)[3] = final
    BY HdrIs
  <2> QED
    BY <2>1, <2>2 DEF Ends
<1> HIDE DEF f
<1>3. ASSUME NEW i \in Index, HasHdr(f(i), r)'
      PROVE  /\ Len(disk'[f(i)]) - 1 <= L
             /\ From(f(i), 2, r, Offset(i, L))'
             /\ Ends(f(i))' => /\ r \in DOMAIN whole'
                               /\ whole'[r] = Offset(i, L) + Len(disk'[f(i)]) - 1
             /\ \A j \in Index : i < j /\ HasHdr(f(j), r)' =>
                   ~Ends(f(i))' /\ Len(disk'[f(i)]) - 1 = L
  <2>1. i \in 1..n /\ \A j \in Index : HasHdr(f(j), r)' => j \in 1..n
    BY <1>3 DEF f
  <2>2. CASE i = n
    <3>1. \A j \in Index : ~(i < j /\ HasHdr(f(j), r)')
      BY <2>1, <2>2
    <3>2. Ends(f(n))' => /\ r \in DOMAIN whole'
                         /\ whole'[r] = Offset(n, L) + Len(disk'[f(n)]) - 1
      <4> SUFFICES ASSUME Ends(f(n))'
                   PROVE  /\ r \in DOMAIN whole'
                          /\ whole'[r] = Offset(n, L) + Len(disk'[f(n)]) - 1
        OBVIOUS
      <4>1. final
        BY <1>2
      <4>2. f(n) \in DOMAIN disk' /\ Offset(n, L) \in Nat /\ Len(disk'[f(n)]) \in Nat
        <5>1. f(n) \in DOMAIN disk'
          BY DEF IsPart, f
        <5>2. n \in Nat \ {0}
          BY DEF VolumeAssumption
        <5>3. disk'[f(n)] \in Seq(CellsTo(runs'))
          BY <5>1 DEF DiskTypes
        <5> QED
          BY <5>1, <5>2, <5>3, Offsets, LenProperties
      <4> QED
        BY <4>1, <4>2, <1>2
    <3> QED
      BY <3>1, <3>2, <2>2, <1>2
  <2>3. CASE i # n
    <3>1. i \in 1..(n - 1)
      BY <2>1, <2>3
    <3> QED
      BY <3>1, <1>1
  <2> QED
    BY <2>2, <2>3
<1> QED
  BY <1>3 DEF Sliced, f

-----------------------------------------------------------------------------
\* A file some process holds: a part, on the disk, and not open for writing.
LEMMA HeldAre ==
    ASSUME VolumeAssumption, ReaderTypes, ReadersInv, NEW f, HeldForRead(f)
    PROVE  /\ f \in DOMAIN disk /\ ~OpenForWrite(f)
           /\ \E b, i : f = Part(b, i)
<1>1. PICK p \in Procs : f \in Held(p)
  BY DEF HeldForRead
<1>2. PICK i \in 1..rd[p].idx : f = Part(rd[p].base, i)
  BY <1>1 DEF Held
<1>3. ReaderInv(p)
  BY DEF ReadersInv
<1>4. HasHdr(f, rd[p].sid) /\ ~OpenForWrite(f)
  BY <1>2, <1>3 DEF ReaderInv
<1> QED
  BY <1>2, <1>4 DEF HasHdr

\* The window does not run a job while it has a set open.
LEMMA AppClosed ==
    ASSUME VolumeAssumption, ReaderTypes, ReadersInv, wpc # "idle"
    PROVE  rd[App].st = "closed"
<1>1. App \in Procs /\ ReaderInv(App)
  BY DEF VolumeAssumption, ReadersInv
<1> QED
  BY <1>1, ReaderIs DEF ReaderInv

\* A step that leaves a process's record, and the files it holds, as they are.
LEMMA ReaderKept ==
    ASSUME NEW p \in Procs, ReaderInv(p), rd'[p] = rd[p],
           p = App => rd[p].st = "closed" \/ (wpc' = wpc /\ vol_base' = vol_base),
           runs \in Nat, runs' \in Nat, runs <= runs',
           \A f : HeldForRead(f) =>
               f \in DOMAIN disk' /\ disk'[f] = disk[f] /\ ~OpenForWrite(f)'
    PROVE  ReaderInv(p)'
<1>2. ASSUME NEW i \in 1..rd[p].idx
      PROVE  /\ HasHdr(Part(rd[p].base, i), rd[p].sid)'
             /\ Ends(Part(rd[p].base, i))' <=> rd[p].st = "on" /\ i = rd[p].idx
             /\ ~OpenForWrite(Part(rd[p].base, i))'
  <2>1. PICK f, s : f = Part(rd[p].base, i) /\ s = rd[p].sid
    OBVIOUS
  <2>2. HeldForRead(f)
    BY <2>1 DEF HeldForRead, Held
  <2>3. f \in DOMAIN disk' /\ disk'[f] = disk[f] /\ ~OpenForWrite(f)'
    BY <2>2
  <2>4. HasHdr(f, s) /\ (Ends(f) <=> rd[p].st = "on" /\ i = rd[p].idx)
    BY <2>1 DEF ReaderInv
  <2>5. HasHdr(f, s)' /\ (Ends(f)' <=> rd[p].st = "on" /\ i = rd[p].idx)
    BY <2>3, <2>4 DEF HasHdr, Ends
  <2>6. f = Part(rd'[p].base, i) /\ s = rd'[p].sid
    BY <2>1
  <2> QED
    BY <2>1, <2>3, <2>5, <2>6
<1>3. rd[p].idx >= 1 => rd[p].sid \in 1..runs'
  BY DEF ReaderInv
<1>4. rd[p].st # "closed" => rd[p].base \in Bases
                             /\ (p = App => wpc' = "idle" /\ vol_base' = rd[p].base)
  BY DEF ReaderInv
<1>5. /\ rd[p].st = "closed" => rd[p].idx = 0
      /\ rd[p].st = "on" => rd[p].idx >= 1 /\ rd[p].refs >= 1
  BY DEF ReaderInv
<1> QED
  BY <1>2, <1>3, <1>4, <1>5 DEF ReaderInv

\* A step of the writer that leaves the files others hold as they are.
LEMMA ReadersKept ==
    ASSUME VolumeAssumption, ReaderTypes, ReadersInv, UsersHoldTheirSet, rd[App].st = "closed",
           rd' = rd, runs \in Nat, runs' \in Nat, runs <= runs',
           \A f : HeldForRead(f) =>
               f \in DOMAIN disk' /\ disk'[f] = disk[f] /\ ~OpenForWrite(f)'
    PROVE  ReaderTypes' /\ ReadersInv' /\ UsersHoldTheirSet'
<1>1. ReaderTypes' /\ UsersHoldTheirSet'
  BY DEF ReaderTypes, UsersHoldTheirSet
<1>2. ASSUME NEW p \in Procs
      PROVE  ReaderInv(p)'
  BY ReaderKept DEF ReadersInv
<1> QED
  BY <1>1, <1>2 DEF ReadersInv

\* Closing files, or changing none, leaves the files others hold as they are.
LEMMA HeldSame ==
    ASSUME VolumeAssumption, ReaderTypes, ReadersInv, disk' = disk,
           \A h \in Handles : fh'[h] \in {fh[h], NoName}, NEW f, HeldForRead(f)
    PROVE  f \in DOMAIN disk' /\ disk'[f] = disk[f] /\ ~OpenForWrite(f)'
<1>1. /\ f \in DOMAIN disk /\ ~OpenForWrite(f) /\ \E b, i : f = Part(b, i)
  BY HeldAre
<1>2. f # NoName
  BY <1>1, NamesDiffer
<1> QED
  BY <1>1, <1>2 DEF OpenForWrite

\* A step of the writer that changes no file and opens none.
LEMMA ReadersSame ==
    ASSUME VolumeAssumption, ReaderTypes, ReadersInv, UsersHoldTheirSet, rd[App].st = "closed",
           rd' = rd, runs \in Nat, runs' \in Nat, runs <= runs', disk' = disk,
           \A h \in Handles : fh'[h] \in {fh[h], NoName}
    PROVE  ReaderTypes' /\ ReadersInv' /\ UsersHoldTheirSet'
<1>1. \A f : HeldForRead(f) =>
          f \in DOMAIN disk' /\ disk'[f] = disk[f] /\ ~OpenForWrite(f)'
  BY HeldSame
<1> QED
  BY <1>1, ReadersKept

-----------------------------------------------------------------------------
(* The writer's steps that leave the files as they are. *)

\* While do_pack is not writing, finishing or done, nothing is asked of what it wrote.
LEMMA WrittenElsewhere ==
    ASSUME wpc' \in {"idle", "preflight", "cleanup", "discard", "done"},
           wpc' = "preflight" => sent' = 0, wpc' # "idle" => code' # "ok",
           wpc' \in {"preflight", "cleanup", "discard"} => runs' >= 1
    PROVE  WrittenInv'
BY DEF WrittenInv, BeforeInv, WritingInv, FinishedInv, ShiftInv, DoneInv, CodeInv

\* On a failure dp_done finds the files where they are.
LEMMA FailureKeeps ==
    ASSUME VolumeAssumption, IInv, wpc \notin {"idle", "cleanup", "discard", "done"},
           wpc' = "cleanup", code' \in {"failed", "toomany"},
           disk' = disk, whole' = whole, runs' = runs, out' = out, named' = named,
           wpc \in {"preflight", "begin"}
              \/ (vol_split' = vol_split /\ vol_base' = vol_base
                  /\ vol_part' \in {vol_part, vol_part + 1}),
           rd' = rd, \A h \in Handles : fh'[h] \in {fh[h], NoName}
    PROVE  SetsInv' /\ WrittenInv' /\ PlacedInv' /\ ReaderTypes' /\ ReadersInv'
              /\ UsersHoldTheirSet'
<1>0. vol_part \in Nat /\ runs \in Nat /\ ReaderTypes
  <2>1. VolTypes /\ DiskTypes /\ ReaderTypes
    BY DEF IInv, Typed
  <2>2. MaxParts + 1 \in Nat /\ MaxRuns \in Nat
    BY DEF VolumeAssumption
  <2>3. vol_part \in 0..(MaxParts + 1) /\ runs \in 0..MaxRuns
    BY <2>1 DEF VolTypes, DiskTypes
  <2> QED
    BY <2>1, <2>2, <2>3
<1>1. SetsInv'
  BY SetsSame DEF IInv
<1>2. WrittenInv'
  <2>1. runs >= 1
    BY DEF IInv, WrittenInv, CodeInv
  <2> QED
    BY <2>1, WrittenElsewhere
<1>3. PlacedInv'
  <2> SUFFICES ASSUME NEW f \in DOMAIN disk, Ours(f)
               PROVE  IF vol_split' THEN f \in Mine(1)' ELSE f = Temp(out) /\ named
    BY DEF PlacedInv, Ours
  <2>1. /\ wpc \notin {"preflight", "begin"}
        /\ wpc = "writing" => IF vol_split THEN f \in Mine(1) ELSE f = Temp(out) /\ named
        /\ wpc \in {"settle", "shift", "promote"} => f = Part(out, 1)
        /\ wpc = "rename" => f = Temp(out)
    BY DEF IInv, PlacedInv
  <2>2. vol_part \in Nat
    BY DEF IInv, Typed, VolTypes, VolumeAssumption
  <2>3. Mine(1) \subseteq Mine(1)'
    BY <2>1, <2>2 DEF Mine
  <2>4. CASE wpc = "writing"
    BY <2>1, <2>3, <2>4
  <2>5. CASE wpc \in {"settle", "shift", "promote"}
    <3>1. vol_split /\ vol_base = out /\ vol_part = 1
      BY <2>5 DEF IInv, WrittenInv, FinishedInv, Splitting
    <3>2. f \in Mine(1)
      BY <2>1, <2>5, <3>1 DEF Mine
    <3> QED
      BY <2>1, <2>3, <3>1, <3>2
  <2>6. CASE wpc = "rename"
    BY <2>1, <2>6 DEF IInv, WrittenInv, FinishedInv
  <2> QED
    BY <2>1, <2>4, <2>5, <2>6 DEF IInv, Typed, CallTypes, States
<1>4. ReaderTypes' /\ ReadersInv' /\ UsersHoldTheirSet'
  <2>1. runs \in Nat /\ rd[App].st = "closed"
    BY AppClosed DEF IInv, Typed, DiskTypes
  <2> QED
    BY <2>1, ReadersSame DEF IInv, Typed
<1> QED
  BY <1>1, <1>2, <1>3, <1>4

LEMMA StartPackKeeps ==
    ASSUME VolumeAssumption, IInv, NEW b \in Bases, NEW limit \in Limits, StartPack(b, limit)
    PROVE  IInv'
<1> USE DEF StartPack, diskVars
<1>1. runs \in Nat /\ runs' = runs + 1 /\ runs' \in 0..MaxRuns /\ disk' = disk /\ whole' = whole
  BY DEF IInv, Typed, DiskTypes, VolumeAssumption
<1>2. DiskTypes'
  <2>1. \A f \in DOMAIN disk : disk[f] \in Seq(CellsTo(runs'))
    BY <1>1, CellsGrow DEF IInv, Typed, DiskTypes
  <2>2. DOMAIN whole \subseteq 1..runs'
    BY <1>1 DEF IInv, Typed, DiskTypes
  <2>3. disk \in [DOMAIN disk -> Seq(CellsTo(runs'))]
    BY <2>1 DEF IInv, Typed, DiskTypes
  <2> QED
    BY <1>1, <2>2, <2>3 DEF IInv, Typed, DiskTypes
<1>3. CallTypes' /\ VolTypes' /\ HandleTypes'
  <2>a. est' \in 1..MaxStream /\ sent' = 0 /\ todo' = 0 /\ MaxStream \in Nat
    BY DEF VolumeAssumption
  <2>1. est' \in 0..MaxStream /\ sent' \in 0..est' /\ todo' \in 0..(est' - sent')
    <3> HIDE DEF StartPack
    <3>1. PICK e \in 1..MaxStream : est' = e
      BY <2>a
    <3>2. e \in 0..MaxStream /\ 0 \in 0..e /\ 0 \in 0..(e - 0)
      BY <2>a
    <3> QED
      BY <2>a, <3>1, <3>2
  <2>2. CallTypes'
    BY <2>1 DEF CallTypes, States
  <2>3. VolTypes' /\ HandleTypes'
    BY DEF IInv, Typed, VolTypes, HandleTypes
  <2> QED
    BY <2>2, <2>3
<1>4. \A f \in DOMAIN disk : disk[f] \in Seq(CellsTo(runs)) /\ ~Ours(f)'
  <2> SUFFICES ASSUME NEW f \in DOMAIN disk
               PROVE  disk[f] \in Seq(CellsTo(runs)) /\ ~Ours(f)'
    OBVIOUS
  <2>1. disk[f] \in Seq(CellsTo(runs))
    BY FileIs DEF IInv, Typed
  <2>2. \A k \in 1..Len(disk[f]) : disk[f][k] \in CellsTo(runs)
    BY <2>1, ElementOfSeq
  <2>3. \A k \in 1..Len(disk[f]) : disk[f][k][1] # runs'
    BY <2>2, <1>1, CellIs
  <2> QED
    BY <2>1, <2>3, <1>1 DEF Ours
<1>5. SetsInv'
  <2> SUFFICES ASSUME NEW c \in Bases, NEW s \in 1..runs'
               PROVE  \E m \in Limits \cup {0} : Sliced(c, s, m)'
    BY DEF SetsInv
  <2>1. CASE s = runs'
    <3>1. ASSUME NEW i \in Index, HasHdr(Part(c, i), s)'
          PROVE  FALSE
      <4>1. /\ Part(c, i) \in DOMAIN disk /\ Len(disk[Part(c, i)]) >= 1
            /\ disk[Part(c, i)][1][1] = runs'
        BY <2>1, <3>1, <1>1 DEF HasHdr
      <4>2. 1 \in 1..Len(disk[Part(c, i)])
        BY <4>1, FileIs DEF IInv, Typed
      <4>3. Ours(Part(c, i))'
        BY <4>1, <4>2, <1>1 DEF Ours
      <4> QED
        BY <4>1, <4>3, <1>4
    <3>2. Sliced(c, s, 0)'
      BY <3>1 DEF Sliced
    <3> QED
      BY <3>2
  <2>2. CASE s # runs'
    <3>1. s \in 1..runs
      BY <2>2, <1>1
    <3>2. PICK m \in Limits \cup {0} : Sliced(c, s, m)
      BY <3>1 DEF IInv, SetsInv
    <3>3. Sliced(c, s, m)'
      BY <3>2, <1>1, SlicedKept DEF HasHdr
    <3> QED
      BY <3>3
  <2> QED
    BY <2>1, <2>2
<1>6. WrittenInv'
  BY <1>1, WrittenElsewhere
<1>7. PlacedInv'
  BY <1>1, <1>4 DEF PlacedInv
<1>8. OpenInv'
  BY DEF OpenInv, IInv
<1>9. ReaderTypes' /\ ReadersInv' /\ UsersHoldTheirSet'
  <2>1. \A h \in Handles : fh'[h] \in {fh[h], NoName}
    OBVIOUS
  <2> QED
    BY <1>1, <2>1, ReadersSame DEF IInv, Typed
<1> QED
  BY <1>2, <1>3, <1>5, <1>6, <1>7, <1>8, <1>9 DEF IInv, Typed

LEMMA PreflightRefusesKeeps ==
    ASSUME VolumeAssumption, IInv, PreflightRefuses
    PROVE  IInv'
<1> USE DEF PreflightRefuses, ToCleanup, diskVars, callVars, ownVars, globalVars
<1>1. DiskTypes' /\ CallTypes' /\ VolTypes' /\ HandleTypes'
  BY DEF IInv, Typed, DiskTypes, CallTypes, VolTypes, HandleTypes, States
<1>2. OpenInv'
  BY DEF OpenInv, IInv
<1>3. /\ SetsInv' /\ WrittenInv' /\ PlacedInv' /\ ReaderTypes' /\ ReadersInv'
      /\ UsersHoldTheirSet'
  BY FailureKeeps
<1> QED
  BY <1>1, <1>2, <1>3 DEF IInv, Typed

LEMMA PackFailsKeeps ==
    ASSUME VolumeAssumption, IInv, PackFails
    PROVE  IInv'
<1> USE DEF PackFails, ToCleanup, diskVars, callVars, ownVars, globalVars
<1>1. DiskTypes' /\ CallTypes' /\ VolTypes' /\ HandleTypes'
  BY DEF IInv, Typed, DiskTypes, CallTypes, VolTypes, HandleTypes, States
<1>2. OpenInv'
  BY DEF OpenInv, IInv, WrittenInv, WritingInv
<1>3. /\ SetsInv' /\ WrittenInv' /\ PlacedInv' /\ ReaderTypes' /\ ReadersInv'
      /\ UsersHoldTheirSet'
  BY FailureKeeps
<1> QED
  BY <1>1, <1>2, <1>3 DEF IInv, Typed

LEMMA PreflightPassesKeeps ==
    ASSUME VolumeAssumption, IInv, PreflightPasses
    PROVE  IInv'
<1> USE DEF PreflightPasses, diskVars, ownVars
<1>1. DiskTypes' /\ CallTypes' /\ VolTypes' /\ HandleTypes'
  BY DEF IInv, Typed, DiskTypes, CallTypes, VolTypes, HandleTypes, States
<1>2. SetsInv'
  BY SetsSame DEF IInv
<1>3. WrittenInv'
  BY DEF IInv, WrittenInv, BeforeInv, WritingInv, FinishedInv, ShiftInv, DoneInv, CodeInv
<1>4. PlacedInv'
  BY DEF IInv, PlacedInv, Ours
<1>5. OpenInv'
  BY DEF IInv, OpenInv
<1>6. ReaderTypes' /\ ReadersInv' /\ UsersHoldTheirSet'
  <2>1. runs \in Nat /\ rd[App].st = "closed"
    BY AppClosed DEF IInv, Typed, DiskTypes, VolumeAssumption
  <2>2. \A h \in Handles : fh'[h] \in {fh[h], NoName}
    OBVIOUS
  <2> QED
    BY <2>1, <2>2, ReadersSame DEF IInv, Typed
<1> QED
  BY <1>1, <1>2, <1>3, <1>4, <1>5, <1>6 DEF IInv, Typed

LEMMA VolCallKeeps ==
    ASSUME VolumeAssumption, IInv, NEW n \in Calls, VolCall(n)
    PROVE  IInv'
<1> USE DEF VolCall, diskVars, callVars, ownVars, globalVars
<1>1. DiskTypes' /\ CallTypes' /\ VolTypes' /\ HandleTypes'
  <2>1. n \in Nat /\ est \in Nat /\ sent \in Nat /\ sent + n <= est
    BY DEF IInv, Typed, CallTypes, VolumeAssumption
  <2>2. todo' \in 0..(est - sent)
    BY <2>1
  <2> QED
    BY <2>2 DEF IInv, Typed, DiskTypes, CallTypes, VolTypes, HandleTypes, States
<1>2. SetsInv'
  BY SetsSame DEF IInv
<1>3. WrittenInv'
  BY DEF IInv, WrittenInv, BeforeInv, WritingInv, FinishedInv, ShiftInv, DoneInv, CodeInv,
         PartIs, IsPart, Holding, From
<1>4. PlacedInv'
  BY DEF IInv, PlacedInv, Ours, Mine
<1>5. OpenInv'
  BY DEF IInv, OpenInv
<1>6. ReaderTypes' /\ ReadersInv' /\ UsersHoldTheirSet'
  <2>1. runs \in Nat /\ rd[App].st = "closed"
    BY AppClosed DEF IInv, Typed, DiskTypes, VolumeAssumption
  <2>2. \A h \in Handles : fh'[h] \in {fh[h], NoName}
    OBVIOUS
  <2> QED
    BY <2>1, <2>2, ReadersSame DEF IInv, Typed
<1> QED
  BY <1>1, <1>2, <1>3, <1>4, <1>5, <1>6 DEF IInv, Typed

LEMMA DiscardOpensKeeps ==
    ASSUME VolumeAssumption, IInv, DiscardOpens
    PROVE  IInv'
<1> USE DEF DiscardOpens, diskVars, callVars, ownVars
<1>1. DiskTypes' /\ CallTypes' /\ VolTypes'
  BY DEF IInv, Typed, DiskTypes, CallTypes, VolTypes, States
<1>2. vol_hout \in Handles /\ HandleTypes
  BY DEF IInv, Typed, VolTypes, HandleTypes
<1>3. HandleTypes' /\ \A h \in Handles : fh'[h] = IF h = vol_hout THEN NoName ELSE fh[h]
  BY <1>2 DEF HandleTypes
<1>4. SetsInv'
  BY SetsSame DEF IInv
<1>5. WrittenInv'
  BY WrittenElsewhere DEF IInv, WrittenInv, CodeInv
<1>6. PlacedInv'
  BY DEF IInv, PlacedInv, Ours, Mine
<1>7. OpenInv'
  BY <1>3 DEF IInv, OpenInv
<1>8. ReaderTypes' /\ ReadersInv' /\ UsersHoldTheirSet'
  <2>1. runs \in Nat /\ rd[App].st = "closed"
    BY AppClosed DEF IInv, Typed, DiskTypes, VolumeAssumption
  <2>2. \A h \in Handles : fh'[h] \in {fh[h], NoName}
    BY <1>3
  <2> QED
    BY <2>1, <2>2, ReadersSame DEF IInv, Typed
<1> QED
  BY <1>1, <1>3, <1>4, <1>5, <1>6, <1>7, <1>8 DEF IInv, Typed

LEMMA DiscardDoneKeeps ==
    ASSUME VolumeAssumption, IInv, DiscardDone
    PROVE  IInv'
<1> USE DEF DiscardDone, diskVars, callVars, ownVars
<1>1. DiskTypes' /\ CallTypes' /\ VolTypes' /\ HandleTypes'
  BY DEF IInv, Typed, DiskTypes, CallTypes, VolTypes, HandleTypes, States
<1>2. SetsInv'
  BY SetsSame DEF IInv
<1>3. WrittenInv'
  BY WrittenElsewhere DEF IInv, WrittenInv, CodeInv
<1>4. PlacedInv'
  <2>1. cursor \in Nat /\ vol_part \in Nat
    BY DEF IInv, Typed, CallTypes, VolTypes, VolumeAssumption
  <2>2. Mine(cursor) = {}
    BY <2>1 DEF Mine, ToDiscard
  <2> QED
    BY <2>2 DEF IInv, PlacedInv, Ours
<1>5. OpenInv'
  BY DEF IInv, OpenInv, VolumeAssumption
<1>6. ReaderTypes' /\ ReadersInv' /\ UsersHoldTheirSet'
  <2>1. runs \in Nat /\ rd[App].st = "closed"
    BY AppClosed DEF IInv, Typed, DiskTypes, VolumeAssumption
  <2>2. \A h \in Handles : fh'[h] \in {fh[h], NoName}
    OBVIOUS
  <2> QED
    BY <2>1, <2>2, ReadersSame DEF IInv, Typed
<1> QED
  BY <1>1, <1>2, <1>3, <1>4, <1>5, <1>6 DEF IInv, Typed

LEMMA PackReturnsKeeps ==
    ASSUME VolumeAssumption, IInv, PackReturns
    PROVE  IInv'
<1> USE DEF PackReturns, diskVars, callVars, ownVars, globalVars
<1>1. DiskTypes' /\ CallTypes' /\ VolTypes' /\ HandleTypes'
  BY DEF IInv, Typed, DiskTypes, CallTypes, VolTypes, HandleTypes, States
<1>2. SetsInv'
  BY SetsSame DEF IInv
<1>3. WrittenInv'
  BY WrittenElsewhere
<1>4. PlacedInv'
  BY DEF PlacedInv
<1>5. OpenInv'
  BY DEF IInv, OpenInv
<1>6. ReaderTypes' /\ ReadersInv' /\ UsersHoldTheirSet'
  <2>1. runs \in Nat /\ rd[App].st = "closed"
    BY AppClosed DEF IInv, Typed, DiskTypes, VolumeAssumption
  <2>2. \A h \in Handles : fh'[h] \in {fh[h], NoName}
    OBVIOUS
  <2> QED
    BY <2>1, <2>2, ReadersSame DEF IInv, Typed
<1> QED
  BY <1>1, <1>2, <1>3, <1>4, <1>5, <1>6 DEF IInv, Typed

LEMMA CrashKeeps ==
    ASSUME VolumeAssumption, IInv, Crash
    PROVE  IInv'
<1> USE DEF Crash, diskVars
<1>1. DiskTypes' /\ CallTypes' /\ VolTypes' /\ HandleTypes'
  <2>1. 0 \in 0..MaxStream /\ 0 \in 0..0 /\ 0 \in 0..(0 - 0) /\ 0 \in 0..(MaxParts + 1) /\ 0 \in Nat
    BY DEF VolumeAssumption
  <2>2. est' \in 0..MaxStream /\ sent' \in 0..est' /\ todo' \in 0..(est' - sent')
    BY <2>1
  <2>3. CallTypes'
    BY <2>1, <2>2 DEF IInv, Typed, CallTypes, States
  <2>4. DiskTypes'
    BY DEF IInv, Typed, DiskTypes
  <2>5. VolTypes'
    BY <2>1 DEF VolTypes
  <2>6. HandleTypes'
    BY DEF HandleTypes
  <2> QED
    BY <2>3, <2>4, <2>5, <2>6
<1>2. SetsInv'
  BY SetsSame DEF IInv
<1>3. WrittenInv'
  BY WrittenElsewhere
<1>4. PlacedInv'
  BY DEF PlacedInv
<1>5. OpenInv'
  BY DEF IInv, OpenInv
<1>6. /\ NotAssembled \in ReaderStates /\ NotAssembled.st = "closed" /\ NotAssembled.idx = 0
      /\ \A b \in Bases : NotAssembled.users[b] = 0
  BY DEF NotAssembled, ReaderStates, VolumeAssumption
<1>7. /\ rd' \in [Procs -> ReaderStates] /\ rd'[App] = NotAssembled
      /\ \A p \in Procs : p # App => rd'[p] = rd[p]
  <2>1. rd \in [Procs -> ReaderStates] /\ App \in Procs
    BY DEF IInv, Typed, ReaderTypes, VolumeAssumption
  <2> QED
    BY <2>1, <1>6
<1>8. ReadersInv'
  <2> SUFFICES ASSUME NEW p \in Procs
               PROVE  ReaderInv(p)'
    BY DEF ReadersInv
  <2>1. CASE p = App
    BY <2>1, <1>6, <1>7 DEF ReaderInv
  <2>2. CASE p # App
    <3>1. runs \in Nat /\ rd'[p] = rd[p] /\ ReaderInv(p)
      BY <2>2, <1>7 DEF IInv, Typed, DiskTypes, VolumeAssumption, ReadersInv
    <3>2. \A h \in Handles : fh'[h] \in {fh[h], NoName}
      OBVIOUS
    <3>3. \A f : HeldForRead(f) =>
              f \in DOMAIN disk' /\ disk'[f] = disk[f] /\ ~OpenForWrite(f)'
      BY <3>2, HeldSame DEF IInv, Typed
    <3> QED
      BY <2>2, <3>1, <3>3, ReaderKept
  <2> QED
    BY <2>1, <2>2
<1>9. UsersHoldTheirSet'
  <2> SUFFICES ASSUME NEW p \in Procs
               PROVE  /\ rd'[p].st # "on" => \A b \in Bases : rd'[p].users[b] = 0
                      /\ rd'[p].st = "on" => \A b \in Bases :
                            rd'[p].users[b] = IF b = rd'[p].base THEN rd'[p].refs ELSE 0
    BY DEF UsersHoldTheirSet
  <2>1. CASE p = App
    BY <2>1, <1>6, <1>7
  <2>2. CASE p # App
    BY <2>2, <1>7 DEF IInv, UsersHoldTheirSet
  <2> QED
    BY <2>1, <2>2
<1> QED
  BY <1>1, <1>2, <1>3, <1>4, <1>5, <1>7, <1>8, <1>9 DEF IInv, Typed, ReaderTypes

-----------------------------------------------------------------------------
(* The steps of the writer that change one file. *)

\* A file that begins with a header of the current run is one of its files.
LEMMA HdrOurs ==
    ASSUME DiskTypes, NEW f, HasHdr(f, runs)
    PROVE  f \in DOMAIN disk /\ Ours(f)
<1>1. f \in DOMAIN disk /\ Len(disk[f]) >= 1 /\ disk[f][1][1] = runs
  BY DEF HasHdr
<1>2. 1 \in 1..Len(disk[f])
  BY <1>1, FileIs
<1> QED
  BY <1>1, <1>2 DEF Ours

\* No process holds a file that is open for writing.
LEMMA OpenNotHeld ==
    ASSUME VolumeAssumption, ReaderTypes, ReadersInv, NEW h \in Handles
    PROVE  ~HeldForRead(fh[h])
BY HeldAre DEF OpenForWrite

\* Only the file F changes or is opened: the ones others hold are as they were.
LEMMA ReadersOther ==
    ASSUME VolumeAssumption, IInv, wpc # "idle", rd' = rd, runs' = runs,
           NEW F, ~HeldForRead(F),
           \A g \in DOMAIN disk : g # F => g \in DOMAIN disk' /\ disk'[g] = disk[g],
           \A h \in Handles : fh'[h] \in {fh[h], NoName, F}
    PROVE  ReaderTypes' /\ ReadersInv' /\ UsersHoldTheirSet'
<1>1. ASSUME NEW f, HeldForRead(f)
      PROVE  f \in DOMAIN disk' /\ disk'[f] = disk[f] /\ ~OpenForWrite(f)'
  <2>1. /\ f \in DOMAIN disk /\ ~OpenForWrite(f) /\ \E b, i : f = Part(b, i)
    BY <1>1, HeldAre DEF IInv, Typed
  <2>2. f # NoName /\ f # F
    BY <2>1, <1>1, NamesDiffer
  <2> QED
    BY <2>1, <2>2 DEF OpenForWrite
<1>2. runs \in Nat /\ rd[App].st = "closed"
  BY AppClosed DEF IInv, Typed, DiskTypes, VolumeAssumption
<1> QED
  BY <1>1, <1>2, ReadersKept DEF IInv, Typed

\* Writing one file.
LEMMA PutIs ==
    ASSUME DiskTypes, NEW F \in Names, NEW cells \in Seq(CellsTo(runs)), disk' = Put(F, cells),
           runs' = runs, whole' = whole
    PROVE  /\ DiskTypes' /\ DOMAIN disk' = DOMAIN disk \cup {F} /\ disk'[F] = cells
           /\ \A g \in DOMAIN disk : g # F => g \in DOMAIN disk' /\ disk'[g] = disk[g]
           /\ \A g \in DOMAIN disk' : g # F => g \in DOMAIN disk /\ disk'[g] = disk[g]
BY DEF DiskTypes, Put

\* Another file's header of the current run cannot appear where none was.
LEMMA HdrKept ==
    ASSUME NEW F, NEW f, NEW s, f # F, HasHdr(f, s)',
           \A g \in DOMAIN disk' : g # F => g \in DOMAIN disk /\ disk'[g] = disk[g]
    PROVE  HasHdr(f, s) /\ f \in DOMAIN disk /\ disk'[f] = disk[f]
BY DEF HasHdr

\* Nor a cell of it.
LEMMA OursKept ==
    ASSUME NEW F, NEW f \in DOMAIN disk', f # F, Ours(f)', runs' = runs,
           \A g \in DOMAIN disk' : g # F => g \in DOMAIN disk /\ disk'[g] = disk[g]
    PROVE  f \in DOMAIN disk /\ Ours(f)
BY DEF Ours

\* A part header alone.
LEMMA HdrOnly ==
    ASSUME VolumeAssumption, DiskTypes, runs >= 1, NEW i \in Index
    PROVE  /\ <<Hdr(runs, i, FALSE)>> \in Seq(CellsTo(runs))
           /\ Len(<<Hdr(runs, i, FALSE)>>) = 1
           /\ <<Hdr(runs, i, FALSE)>>[1] = Hdr(runs, i, FALSE)
<1>1. runs \in 1..runs /\ runs \in Nat
  BY DEF DiskTypes, VolumeAssumption
<1> DEFINE c == Hdr(runs, i, FALSE)
<1>2. c \in CellsTo(runs)
  BY <1>1, CellsAre
<1> HIDE DEF c
<1>3. <<c>> \in Seq(CellsTo(runs)) /\ Len(<<c>>) = 1 /\ <<c>>[1] = c
  BY <1>2
<1> QED
  BY <1>3 DEF c

\* The sets are the same when the file that changes is no part, or lost its header.
LEMMA SetsButOne ==
    ASSUME SetsInv, runs' = runs, whole' = whole, NEW F,
           \A s \in 1..runs, b \in Bases, i \in Index : F = Part(b, i) => ~HasHdr(F, s)',
           \A g \in DOMAIN disk' : g # F => g \in DOMAIN disk /\ disk'[g] = disk[g]
    PROVE  SetsInv'
<1>1. ASSUME NEW b \in Bases, NEW i \in Index, NEW s \in 1..runs, HasHdr(Part(b, i), s)'
      PROVE  Part(b, i) \in DOMAIN disk /\ disk'[Part(b, i)] = disk[Part(b, i)]
  <2>1. Part(b, i) # F
    BY <1>1
  <2> QED
    BY <2>1, <1>1, HdrKept
<1> QED
  BY <1>1, SetsKept

LEMMA VolBeginKeeps ==
    ASSUME VolumeAssumption, IInv, VolBegin
    PROVE  IInv'
<1> DEFINE splitting == vol_limit > 0
<1>0. PICK F : F = IF splitting THEN Part(out, 1) ELSE Temp(out)
  OBVIOUS
<1>1. /\ wpc = "begin" /\ vol_part' = 1 /\ vol_fill' = 0 /\ vol_split' = splitting
      /\ vol_base' = IF splitting THEN out ELSE NoBase
      /\ whole' = whole /\ out' = out /\ est' = est /\ named' = named /\ runs' = runs
      /\ sent' = sent /\ todo' = todo /\ cursor' = cursor /\ held' = held
      /\ vol_limit' = vol_limit /\ rd' = rd
  BY DEF VolBegin, callVars
<1>2. /\ named /\ sent = 0 /\ runs >= 1 /\ code # "ok"
      /\ \A h \in Handles : fh[h] = NoName
      /\ \A f \in DOMAIN disk : ~Ours(f)
  BY <1>1 DEF IInv, WrittenInv, BeforeInv, CodeInv, OpenInv, PlacedInv
<1>3. out \in Bases /\ runs \in Nat /\ vol_limit \in Nat /\ 1 \in Index /\ 1 \in 1..MaxParts /\ F \in Names
  <2>1. out \in Bases /\ runs \in Nat /\ vol_limit \in Nat
    BY DEF IInv, Typed, CallTypes, DiskTypes, VolTypes, VolumeAssumption
  <2>2. 1 \in Index /\ 1 \in 1..MaxParts
    BY DEF VolumeAssumption, Index
  <2> QED
    BY <1>0, <2>1, <2>2, NamesAre
<1>4. /\ CallTypes /\ VolTypes /\ HandleTypes /\ DiskTypes /\ ReaderTypes
      /\ 1 \in 0..(MaxParts + 1) /\ splitting \in BOOLEAN
  BY <1>3 DEF IInv, Typed, VolumeAssumption
<1>5. CASE \E h \in Handles :
             /\ Create(F, IF splitting THEN <<Hdr(runs, 1, FALSE)>> ELSE <<>>, h)
             /\ vol_hout' = h /\ hloc' = h /\ wpc' = "writing" /\ UNCHANGED code
  <2> DEFINE cells == IF splitting THEN <<Hdr(runs, 1, FALSE)>> ELSE <<>>
  <2>1. PICK h \in Handles : /\ Create(F, cells, h) /\ vol_hout' = h /\ hloc' = h
                             /\ wpc' = "writing" /\ code' = code
    BY <1>5
  <2>2. /\ cells \in Seq(CellsTo(runs)) /\ Len(cells) = IF splitting THEN 1 ELSE 0
        /\ splitting => cells[1] = Hdr(runs, 1, FALSE)
    <3>1. CASE splitting
      <4>1. cells = <<Hdr(runs, 1, FALSE)>>
        BY <3>1
      <4> HIDE DEF cells
      <4>2. /\ cells \in Seq(CellsTo(runs)) /\ Len(cells) = 1
            /\ cells[1] = Hdr(runs, 1, FALSE)
        BY <4>1, <1>2, <1>3, <1>4, HdrOnly
      <4> QED
        BY <4>2, <3>1
    <3>2. CASE ~splitting
      <4>1. cells = <<>>
        BY <3>2
      <4> HIDE DEF cells
      <4>2. cells \in Seq(CellsTo(runs)) /\ Len(cells) = 0
        BY <4>1
      <4> QED
        BY <4>2, <3>2
    <3> QED
      BY <3>1, <3>2
  <2> HIDE DEF cells
  <2>3. ~HeldForRead(F) /\ disk' = Put(F, cells) /\ fh' = [fh EXCEPT ![h] = F]
    BY <2>1 DEF Create, Free
  <2>4. /\ DiskTypes' /\ DOMAIN disk' = DOMAIN disk \cup {F} /\ disk'[F] = cells
        /\ \A g \in DOMAIN disk : g # F => g \in DOMAIN disk' /\ disk'[g] = disk[g]
        /\ \A g \in DOMAIN disk' : g # F => g \in DOMAIN disk /\ disk'[g] = disk[g]
    BY <2>2, <2>3, <1>1, <1>3, <1>4, PutIs
  <2>5. /\ HandleTypes' /\ fh'[h] = F /\ \A g \in Handles : g # h => fh'[g] = NoName
    BY <2>3, <1>2, <1>3, <1>4 DEF HandleTypes
  <2>6. CallTypes' /\ VolTypes'
    BY <1>1, <1>3, <1>4, <2>1 DEF CallTypes, VolTypes, States
  <2>7. \A f \in DOMAIN disk' : Ours(f)' => f = F
    BY <1>1, <1>2, <2>4, OursKept
  <2>8. \A f, s : HasHdr(f, s)' => f = F \/ (s # runs /\ f \in DOMAIN disk /\ disk'[f] = disk[f])
    BY <1>2, <1>4, <2>4, HdrKept, HdrOurs
  <2>9. splitting => IsPart(out, runs, vol_limit, 1, 0, FALSE)'
    <3> SUFFICES ASSUME splitting
                 PROVE  IsPart(out, runs, vol_limit, 1, 0, FALSE)'
      OBVIOUS
    <3>1. PICK o, r, L : o = out /\ r = runs /\ L = vol_limit
      OBVIOUS
    <3>2. F = Part(o, 1) /\ Len(disk'[F]) = 1 /\ disk'[F][1] = Hdr(r, 1, FALSE)
      BY <1>0, <2>2, <2>4, <3>1
    <3>3. From(F, 2, r, Offset(1, L))'
      BY <3>2 DEF From
    <3>4. IsPart(o, r, L, 1, 0, FALSE)'
      BY <3>2, <3>3, <2>4 DEF IsPart
    <3> QED
      BY <3>1, <3>4, <1>1
  <2>10. SetsInv'
    <3>1. CASE splitting
      <4>1. F = Part(out, 1)
        BY <1>0, <3>1
      <4>2. ASSUME NEW b \in Bases, NEW i \in Index, NEW s \in 1..runs, HasHdr(Part(b, i), s)'
            PROVE  \/ s = runs /\ b = out
                   \/ /\ s # runs
                      /\ Part(b, i) \in DOMAIN disk /\ disk'[Part(b, i)] = disk[Part(b, i)]
        <5>1. CASE Part(b, i) = F
          <6>1. b = out
            BY <5>1, <4>1, NamesDiffer
          <6>2. s = runs
            <7>1. disk'[F][1][1] = s
              BY <5>1, <4>2 DEF HasHdr
            <7>2. disk'[F][1] = Hdr(runs, 1, FALSE)
              BY <3>1, <2>2, <2>4
            <7>3. Hdr(runs, 1, FALSE)[1] = runs
              BY DEF Hdr
            <7> QED
              BY <7>1, <7>2, <7>3
          <6> QED
            BY <6>1, <6>2
        <5>2. CASE Part(b, i) # F
          BY <5>2, <4>2, <2>8
        <5> QED
          BY <5>1, <5>2
      <4>3. PICK o, r, L : o = out /\ r = runs /\ L = vol_limit
        OBVIOUS
      <4>4. L \in Nat /\ L \in Limits \cup {0} /\ o' = o
        BY <4>3, <1>3, <1>4 DEF VolTypes
      <4>5. \A i \in Index : HasHdr(Part(o, i), r)' => i \in 1..1
        <5> SUFFICES ASSUME NEW i \in Index, HasHdr(Part(o, i), r)'
                     PROVE  i = 1
          OBVIOUS
        <5>1. Part(o, i) = F
          BY <2>8, <4>3
        <5> QED
          BY <5>1, <4>1, <4>3, NamesDiffer
      <4>6. Sliced(o, r, L)'
        <5>1. IsPart(o, r, L, 1, 0, FALSE)'
          BY <2>9, <3>1, <4>3, <1>1
        <5>2. 0 \in Nat /\ 0 <= L /\ \A i \in 1..(1 - 1) : IsPart(o, r, L, i, L, FALSE)'
          BY <4>4
        <5> QED
          BY <5>1, <5>2, <4>4, <4>5, <2>4, <1>3, PartsAreSliced
      <4>7. \E limit \in Limits \cup {0} : Sliced(out, runs, limit)'
        BY <4>3, <4>4, <4>6, <1>1
      <4> QED
        BY <4>2, <4>7, <1>1, SetsWritten DEF IInv
    <3>2. CASE ~splitting
      <4>1. \A b, i : F # Part(b, i)
        BY <1>0, <3>2, NamesDiffer
      <4> QED
        BY <4>1, <2>4, <1>1, SetsButOne DEF IInv
    <3> QED
      BY <3>1, <3>2
  <2>11. WritingInv'
    <3>1. CASE splitting
      <4>1. PartIs(vol_part, vol_fill, FALSE)'
        BY <2>9, <3>1, <1>1, Zenon DEF PartIs
      <4>2. Offset(vol_part', vol_limit') = 0
        BY <1>1, <1>3, Offsets
      <4>3. \A i \in 1..(vol_part' - 1) : PartIs(i, vol_limit, FALSE)'
        BY <1>1
      <4>4. vol_split'
        BY <3>1, <1>1, Zenon
      <4>5. /\ vol_part' \in 1..MaxParts /\ vol_limit' > 0 /\ vol_base' = out'
            /\ vol_fill' <= vol_limit' /\ sent' = Offset(vol_part', vol_limit') + vol_fill'
        BY <3>1, <4>2, <1>1, <1>2, <1>3
      <4> QED
        BY <4>1, <4>3, <4>4, <4>5 DEF WritingInv
    <3>2. CASE ~splitting
      <4>1. F = Temp(out) /\ F \in DOMAIN disk' /\ Len(disk'[F]) = 0
        BY <1>0, <3>2, <2>2, <2>4
      <4>2. Holding(Temp(out), 0)'
        BY <4>1, <1>1 DEF Holding, From
      <4> QED
        BY <4>2, <3>2, <2>1, <1>1, <1>2, <1>3 DEF WritingInv
    <3> QED
      BY <3>1, <3>2
  <2>12. WrittenInv'
    BY <2>1, <2>11, <1>1, <1>2 DEF WrittenInv, BeforeInv, FinishedInv, ShiftInv, DoneInv, CodeInv
  <2>13. PlacedInv'
    <3>1. vol_split' => F \in Mine(1)'
      <4> SUFFICES ASSUME vol_split'
                   PROVE  F \in Mine(1)'
        OBVIOUS
      <4>a. splitting
        BY <1>1, Zenon
      <4>1. F = Part(out, 1) /\ vol_base' = out /\ vol_part' = 1 /\ 1 \in 1..1
        BY <4>a, <1>0, <1>1
      <4> QED
        BY <4>1 DEF Mine
    <3>2. ~vol_split' => F = Temp(out)
      BY <1>0, <1>1
    <3> QED
      BY <3>1, <3>2, <2>1, <2>7, <1>1, <1>2 DEF PlacedInv
  <2>14. OpenInv'
    BY <1>0, <2>1, <2>5, <1>1 DEF OpenInv
  <2>15. ReaderTypes' /\ ReadersInv' /\ UsersHoldTheirSet'
    <3>1. \A g \in Handles : fh'[g] \in {fh[g], NoName, F}
      BY <2>5
    <3> QED
      BY <3>1, <2>3, <2>4, <1>1, ReadersOther
  <2> QED
    BY <2>4, <2>5, <2>6, <2>10, <2>12, <2>13, <2>14, <2>15 DEF IInv, Typed
<1>6. CASE \E h \in Handles :
             /\ splitting /\ Create(F, <<>>, h)
             /\ vol_hout' = h /\ UNCHANGED hloc /\ ToCleanup("failed")
  <2>1. PICK h \in Handles : /\ splitting /\ Create(F, <<>>, h) /\ vol_hout' = h /\ hloc' = hloc
                             /\ wpc' = "cleanup" /\ code' = "failed"
    BY <1>6 DEF ToCleanup
  <2>2. ~HeldForRead(F) /\ disk' = Put(F, <<>>) /\ fh' = [fh EXCEPT ![h] = F]
    BY <2>1 DEF Create, Free
  <2>3. <<>> \in Seq(CellsTo(runs)) /\ Len(<<>>) = 0
    OBVIOUS
  <2>4. /\ DiskTypes' /\ DOMAIN disk' = DOMAIN disk \cup {F} /\ disk'[F] = <<>>
        /\ \A g \in DOMAIN disk : g # F => g \in DOMAIN disk' /\ disk'[g] = disk[g]
        /\ \A g \in DOMAIN disk' : g # F => g \in DOMAIN disk /\ disk'[g] = disk[g]
    BY <2>2, <2>3, <1>1, <1>3, <1>4, PutIs
  <2>5. /\ HandleTypes' /\ fh'[h] = F /\ \A g \in Handles : g # h => fh'[g] = NoName
    BY <2>2, <1>2, <1>3, <1>4 DEF HandleTypes
  <2>6. CallTypes' /\ VolTypes'
    BY <1>1, <1>3, <1>4, <2>1 DEF CallTypes, VolTypes, States
  <2>7. Len(disk'[F]) = 0
    BY <2>4
  <2>8. \A s : ~HasHdr(F, s)'
    BY <2>7 DEF HasHdr
  <2>9. SetsInv'
    BY <2>4, <2>8, <1>1, SetsButOne DEF IInv
  <2>10. WrittenInv'
    BY <2>1, <1>1, <1>2, WrittenElsewhere
  <2>11. PlacedInv'
    <3>1. \A f \in DOMAIN disk' : ~Ours(f)'
      <4> SUFFICES ASSUME NEW f \in DOMAIN disk', Ours(f)'
                   PROVE  FALSE
        OBVIOUS
      <4>1. CASE f = F
        BY <4>1, <2>7 DEF Ours
      <4>2. CASE f # F
        BY <4>2, <2>4, <1>1, <1>2, OursKept
      <4> QED
        BY <4>1, <4>2
    <3> QED
      BY <3>1 DEF PlacedInv
  <2>12. OpenInv'
    BY <2>1, <2>5, <1>1 DEF OpenInv
  <2>13. ReaderTypes' /\ ReadersInv' /\ UsersHoldTheirSet'
    <3>1. \A g \in Handles : fh'[g] \in {fh[g], NoName, F}
      BY <2>5
    <3> QED
      BY <3>1, <2>2, <2>4, <1>1, ReadersOther
  <2> QED
    BY <2>4, <2>5, <2>6, <2>9, <2>10, <2>11, <2>12, <2>13 DEF IInv, Typed
<1>7. CASE /\ vol_hout' = Invalid /\ UNCHANGED <<hloc, fh, created, disk>>
           /\ ToCleanup("failed")
  <2>1. vol_hout' = Invalid /\ hloc' = hloc /\ fh' = fh /\ disk' = disk
        /\ wpc' = "cleanup" /\ code' = "failed"
    BY <1>7 DEF ToCleanup
  <2>2. /\ SetsInv' /\ WrittenInv' /\ PlacedInv' /\ ReaderTypes' /\ ReadersInv'
        /\ UsersHoldTheirSet'
    BY <2>1, <1>1, FailureKeeps
  <2>3. DiskTypes' /\ HandleTypes'
    BY <2>1, <1>1, <1>4 DEF DiskTypes, HandleTypes
  <2>4. CallTypes' /\ VolTypes'
    BY <1>1, <1>3, <1>4, <2>1 DEF CallTypes, VolTypes, States
  <2>5. OpenInv'
    BY <2>1, <1>2 DEF OpenInv
  <2> QED
    BY <2>2, <2>3, <2>4, <2>5 DEF IInv, Typed
<1>8. LET name == IF splitting THEN Part(out, 1) ELSE Temp(out) IN
      \/ \E h \in Handles :
            /\ Create(name, IF splitting THEN <<Hdr(runs, 1, FALSE)>> ELSE <<>>, h)
            /\ vol_hout' = h /\ hloc' = h /\ wpc' = "writing" /\ UNCHANGED code
      \/ \E h \in Handles :
            /\ splitting /\ Create(name, <<>>, h)
            /\ vol_hout' = h /\ UNCHANGED hloc /\ ToCleanup("failed")
      \/ /\ vol_hout' = Invalid /\ UNCHANGED <<hloc, fh, created, disk>>
         /\ ToCleanup("failed")
  BY Zenon DEF VolBegin
<1> QED
  BY <1>0, <1>5, <1>6, <1>7, <1>8, Zenon

\* A part that the step leaves alone is the part it was.
LEMMA IsPartKept ==
    ASSUME NEW b, NEW s, NEW L, NEW i, NEW n, NEW final, IsPart(b, s, L, i, n, final),
           Part(b, i) \in DOMAIN disk', disk'[Part(b, i)] = disk[Part(b, i)]
    PROVE  IsPart(b, s, L, i, n, final)'
BY DEF IsPart, From

\* Bytes of the current run at the end of a file.
Appended(F, k, n) == [disk EXCEPT ![F] = Cat(disk[F], Bytes(runs, k, n))]

\* What is in the file then.
LEMMA AppendIs ==
    ASSUME VolumeAssumption, DiskTypes, NEW F \in DOMAIN disk, NEW k \in Nat, NEW n \in Nat,
           k + n <= MaxStream, runs >= 1, runs' = runs, whole' = whole,
           disk' = Appended(F, k, n)
    PROVE  /\ DiskTypes' /\ DOMAIN disk' = DOMAIN disk
           /\ \A g \in DOMAIN disk : g # F => g \in DOMAIN disk' /\ disk'[g] = disk[g]
           /\ \A g \in DOMAIN disk' : g # F => g \in DOMAIN disk /\ disk'[g] = disk[g]
           /\ Len(disk'[F]) = Len(disk[F]) + n
           /\ \A j \in 1..Len(disk[F]) : disk'[F][j] = disk[F][j]
           /\ \A j \in (Len(disk[F]) + 1)..(Len(disk[F]) + n) :
                 disk'[F][j] = Byte(runs, k + (j - Len(disk[F])))
<1> DEFINE a == disk[F]
           b == Bytes(runs, k, n)
           d == Cat(a, b)
<1>1. runs \in 1..runs /\ runs \in Nat /\ MaxStream \in Nat
  BY DEF DiskTypes, VolumeAssumption
<1>2. a \in Seq(CellsTo(runs)) /\ Len(a) \in Nat
  BY FileIs
<1>3. Len(b) = n /\ b \in Seq(BytesOf(runs)) /\ \A j \in 1..n : b[j] = Byte(runs, k + j)
  <2>1. PICK s \in Nat : s = runs
    BY <1>1
  <2>2. /\ Len(Bytes(s, k, n)) = n /\ Bytes(s, k, n) \in Seq(BytesOf(s))
        /\ \A j \in 1..n : Bytes(s, k, n)[j] = Byte(s, k + j)
    BY BytesAre
  <2> QED
    BY <2>1, <2>2
<1>4. \A j \in 1..n : k + j \in 1..MaxStream
  BY <1>1
<1>5. \A j \in 1..n : b[j] \in CellsTo(runs)
  BY <1>1, <1>3, <1>4, CellsAre
<1>d. disk' = [disk EXCEPT ![F] = d]
  BY DEF Appended
<1> HIDE DEF a, b
<1>6. b \in Seq(CellsTo(runs))
  <2>1. b = [j \in 1..n |-> b[j]]
    BY <1>3, LenProperties
  <2>2. [j \in 1..n |-> b[j]] \in [1..n -> CellsTo(runs)]
    BY <1>5
  <2>3. [j \in 1..n |-> b[j]] \in Seq(CellsTo(runs))
    BY <2>2, SeqDef
  <2> QED
    BY <2>1, <2>3
<1>7. /\ d \in Seq(CellsTo(runs)) /\ Len(d) = Len(a) + n
      /\ \A j \in 1..(Len(a) + n) : d[j] = IF j <= Len(a) THEN a[j] ELSE b[j - Len(a)]
  BY <1>2, <1>3, <1>6, ConcatProperties DEF Cat
<1> HIDE DEF d
<1>8. /\ DOMAIN disk' = DOMAIN disk /\ disk'[F] = d
      /\ \A g \in DOMAIN disk : g # F => disk'[g] = disk[g]
  BY <1>d DEF DiskTypes
<1>9. DiskTypes'
  BY <1>d, <1>7 DEF DiskTypes
<1>10. \A j \in 1..Len(a) : j \in 1..(Len(a) + n) /\ j <= Len(a)
  BY <1>2
<1>11. \A j \in 1..Len(a) : d[j] = a[j]
  BY <1>7, <1>10
<1>12. ASSUME NEW j \in (Len(a) + 1)..(Len(a) + n)
       PROVE  d[j] = Byte(runs, k + (j - Len(a)))
  <2>1. j \in 1..(Len(a) + n) /\ ~(j <= Len(a)) /\ j - Len(a) \in 1..n
    BY <1>2
  <2> QED
    BY <2>1, <1>7, <1>3
<1> QED
  BY <1>7, <1>8, <1>9, <1>11, <1>12 DEF a

\* While it writes, the run changes only its last part, and the set is still cut
\* at the multiples of the limit.
LEMMA RunWritten ==
    ASSUME VolumeAssumption, IInv, wpc = "writing", vol_split, runs' = runs, out' = out,
           DiskTypes', NEW n \in 1..MaxParts, vol_part <= n, NEW F, F = Part(out, n),
           \A g \in DOMAIN disk' : g # F => g \in DOMAIN disk /\ disk'[g] = disk[g],
           NEW o, o = out, NEW r, r = runs, NEW L \in Nat, L = vol_limit,
           NEW last \in Nat, last <= L, NEW final \in BOOLEAN,
           \A i \in 1..(n - 1) : IsPart(o, r, L, i, L, FALSE)',
           IsPart(o, r, L, n, last, final)',
           final => r \in DOMAIN whole' /\ whole'[r] = Offset(n, L) + last,
           \A s \in 1..runs : s # runs /\ s \in DOMAIN whole =>
               s \in DOMAIN whole' /\ whole'[s] = whole[s]
    PROVE  SetsInv'
<1>1. \A s : HasHdr(F, s)' => s = runs
  <2>1. disk'[F][1] = Hdr(r, n, final)
    BY DEF IsPart
  <2>2. Hdr(r, n, final)[1] = r
    BY HdrIs
  <2> QED
    BY <2>1, <2>2 DEF HasHdr
<1>2. vol_base = out /\ vol_part \in Nat
  BY DEF IInv, WrittenInv, WritingInv, Typed, VolTypes, VolumeAssumption
<1>3. ASSUME NEW b \in Bases, NEW i \in Index, NEW s \in 1..runs, HasHdr(Part(b, i), s)',
             Part(b, i) # F
      PROVE  /\ Part(b, i) \in DOMAIN disk /\ disk'[Part(b, i)] = disk[Part(b, i)]
             /\ s = runs => b = out /\ i \in 1..n
  <2>1. /\ HasHdr(Part(b, i), s)
        /\ Part(b, i) \in DOMAIN disk /\ disk'[Part(b, i)] = disk[Part(b, i)]
    <3>1. PICK f : f = Part(b, i)
      OBVIOUS
    <3>2. f # F /\ HasHdr(f, s)'
      BY <3>1, <1>3
    <3>3. HasHdr(f, s) /\ f \in DOMAIN disk /\ disk'[f] = disk[f]
      BY <3>2, HdrKept
    <3> QED
      BY <3>1, <3>3
  <2>2. ASSUME s = runs
        PROVE  b = out /\ i \in 1..n
    <3>1. Ours(Part(b, i))
      BY <2>1, <2>2, HdrOurs DEF IInv, Typed
    <3>2. Part(b, i) \in Mine(1)
      BY <3>1, <2>1 DEF IInv, PlacedInv
    <3>3. PICK j \in 1..vol_part : Part(b, i) = Part(vol_base, j)
      BY <3>2 DEF Mine
    <3> QED
      BY <3>3, <1>2, NamesDiffer
  <2> QED
    BY <2>1, <2>2
<1>4. ASSUME NEW b \in Bases, NEW i \in Index, Part(b, i) = F
      PROVE  b = out /\ i = n
  BY <1>4, NamesDiffer
<1>5. out \in Bases /\ runs \in 1..runs /\ L \in Limits \cup {0}
  BY DEF IInv, Typed, CallTypes, DiskTypes, VolTypes, WrittenInv, CodeInv, VolumeAssumption
<1>6. \A i \in Index : HasHdr(Part(o, i), r)' => i \in 1..n
  BY <1>3, <1>4, <1>5
<1>7. Sliced(o, r, L)'
  BY <1>6, PartsAreSliced
<1>8. \A b \in Bases, i \in Index, s \in 1..runs : HasHdr(Part(b, i), s)' =>
          \/ s = runs /\ b = out
          \/ /\ s # runs
             /\ Part(b, i) \in DOMAIN disk /\ disk'[Part(b, i)] = disk[Part(b, i)]
  BY <1>1, <1>3, <1>4
<1>9. \E limit \in Limits \cup {0} : Sliced(out, runs, limit)'
  BY <1>5, <1>7
<1> QED
  BY <1>8, <1>9, SetsWritten DEF IInv

LEMMA VolWriteKeeps ==
    ASSUME VolumeAssumption, IInv, VolWrite
    PROVE  IInv'
<1>1. /\ wpc = "writing" /\ todo > 0 /\ ~RollDue
      /\ whole' = whole /\ out' = out /\ est' = est /\ named' = named /\ runs' = runs
      /\ hloc' = hloc /\ cursor' = cursor /\ created' = created /\ held' = held
      /\ vol_split' = vol_split /\ vol_base' = vol_base /\ vol_part' = vol_part
      /\ vol_limit' = vol_limit /\ vol_hout' = vol_hout /\ fh' = fh /\ rd' = rd
  BY DEF VolWrite, callVars, ownVars
<1>2. /\ vol_part \in 1..MaxParts /\ (vol_split <=> vol_limit > 0) /\ code # "ok" /\ runs >= 1
      /\ vol_hout \in Handles /\ WritingInv
      /\ fh[vol_hout] = IF vol_split THEN Part(out, vol_part) ELSE Temp(out)
  BY <1>1 DEF IInv, WrittenInv, WritingInv, CodeInv, OpenInv
<1>3. /\ CallTypes /\ VolTypes /\ HandleTypes /\ DiskTypes /\ ReaderTypes
      /\ out \in Bases /\ runs \in Nat /\ vol_limit \in Nat /\ vol_fill \in Nat
      /\ est \in 0..MaxStream /\ est \in Nat /\ sent \in Nat /\ todo \in Nat
      /\ sent + todo <= est /\ vol_limit \in Limits \cup {0} /\ MaxStream \in Nat /\ MaxParts \in Nat
  <2>1. CallTypes /\ VolTypes /\ HandleTypes /\ DiskTypes /\ ReaderTypes
    BY DEF IInv, Typed
  <2>2. MaxStream \in Nat /\ MaxRuns \in Nat /\ MaxParts \in Nat /\ Limits \subseteq Nat
    BY DEF VolumeAssumption
  <2>3. est \in 0..MaxStream /\ sent \in 0..est /\ todo \in 0..(est - sent)
    BY <2>1 DEF CallTypes
  <2>4. est \in Nat /\ sent \in Nat /\ todo \in Nat /\ sent + todo <= est
    BY <2>2, <2>3
  <2> QED
    BY <2>1, <2>2, <2>3, <2>4 DEF CallTypes, VolTypes, DiskTypes
<1>4. CASE /\ ToCleanup("failed") /\ disk' = disk /\ sent' = sent /\ todo' = todo
           /\ vol_fill' = vol_fill
  <2>1. wpc' = "cleanup" /\ code' = "failed"
    BY <1>4 DEF ToCleanup
  <2>2. /\ SetsInv' /\ WrittenInv' /\ PlacedInv' /\ ReaderTypes' /\ ReadersInv'
        /\ UsersHoldTheirSet'
    <3>1. \A h \in Handles : fh'[h] \in {fh[h], NoName}
      BY <1>1
    <3> QED
      BY <1>1, <1>4, <2>1, <3>1, FailureKeeps
  <2>3. DiskTypes' /\ HandleTypes'
    BY <1>1, <1>3, <1>4 DEF DiskTypes, HandleTypes
  <2>4. CallTypes' /\ VolTypes'
    BY <1>1, <1>3, <1>4, <2>1 DEF CallTypes, VolTypes, States
  <2>5. OpenInv'
    BY <1>1, <1>2, <2>1 DEF IInv, OpenInv, WritingInv
  <2> QED
    BY <2>2, <2>3, <2>4, <2>5 DEF IInv, Typed
<1>5. CASE LET n == Chunk
               f == fh[vol_hout] IN
           /\ disk' = [disk EXCEPT ![f] = @ \o Bytes(runs, sent, n)]
           /\ sent' = sent + n /\ todo' = todo - n
           /\ vol_fill' = IF vol_limit = 0 THEN vol_fill ELSE vol_fill + n
           /\ wpc' = wpc /\ code' = code
  <2>1. PICK n, F : n = Chunk /\ F = fh[vol_hout]
    OBVIOUS
  <2>2. /\ disk' = [disk EXCEPT ![F] = @ \o Bytes(runs, sent, n)]
        /\ sent' = sent + n /\ todo' = todo - n
        /\ vol_fill' = IF vol_limit = 0 THEN vol_fill ELSE vol_fill + n
        /\ wpc' = wpc /\ code' = code
    BY <1>5, <2>1
  <2>c. disk' = Appended(F, sent, n)
    BY <2>2 DEF Appended, Cat
  <2>o. PICK o, r, L, m, l : o = out /\ r = runs /\ L = vol_limit /\ m = vol_part /\ l = vol_fill
    OBVIOUS
  <2>3. vol_split => /\ vol_base = out /\ vol_fill <= vol_limit
                     /\ sent = Offset(vol_part, vol_limit) + vol_fill
                     /\ \A i \in 1..(vol_part - 1) : PartIs(i, vol_limit, FALSE)
                     /\ PartIs(vol_part, vol_fill, FALSE)
    BY <1>1, Zenon DEF IInv, WrittenInv, WritingInv
  <2>4. ~vol_split => Holding(Temp(out), sent) /\ hloc = vol_hout /\ named
    BY <1>1 DEF IInv, WrittenInv, WritingInv
  <2>5. n \in Nat /\ n <= todo /\ (vol_split => vol_fill + n <= vol_limit)
    <3>1. vol_split => vol_fill < vol_limit
      BY <1>1, <1>2, <1>3, <2>3 DEF RollDue
    <3> QED
      BY <3>1, <2>1, <1>2, <1>3 DEF Chunk, Least
  <2>6. F \in DOMAIN disk
    BY <1>2, <2>1, <2>3, <2>4 DEF PartIs, IsPart, Holding
  <2>7. /\ DiskTypes' /\ DOMAIN disk' = DOMAIN disk
        /\ \A g \in DOMAIN disk : g # F => g \in DOMAIN disk' /\ disk'[g] = disk[g]
        /\ \A g \in DOMAIN disk' : g # F => g \in DOMAIN disk /\ disk'[g] = disk[g]
        /\ Len(disk'[F]) = Len(disk[F]) + n
        /\ \A j \in 1..Len(disk[F]) : disk'[F][j] = disk[F][j]
        /\ \A j \in (Len(disk[F]) + 1)..(Len(disk[F]) + n) :
              disk'[F][j] = Byte(runs, sent + (j - Len(disk[F])))
    <3>1. PICK q \in Nat : q = sent
      BY <1>3
    <3>2. q + n <= MaxStream
      BY <3>1, <1>3, <2>5
    <3>3. disk' = Appended(F, q, n)
      BY <2>c, <3>1
    <3>4. runs' = runs /\ whole' = whole /\ runs >= 1 /\ DiskTypes
      BY <1>1, <1>2, <1>3
    <3> HIDE <3>1
    <3>5. /\ DiskTypes' /\ DOMAIN disk' = DOMAIN disk
          /\ \A g \in DOMAIN disk : g # F => g \in DOMAIN disk' /\ disk'[g] = disk[g]
          /\ \A g \in DOMAIN disk' : g # F => g \in DOMAIN disk /\ disk'[g] = disk[g]
          /\ Len(disk'[F]) = Len(disk[F]) + n
          /\ \A j \in 1..Len(disk[F]) : disk'[F][j] = disk[F][j]
          /\ \A j \in (Len(disk[F]) + 1)..(Len(disk[F]) + n) :
                disk'[F][j] = Byte(runs, q + (j - Len(disk[F])))
      BY <3>2, <3>3, <3>4, <2>5, <2>6, AppendIs
    <3> QED
      BY <3>1, <3>5
  <2>8. CallTypes' /\ VolTypes' /\ HandleTypes'
    <3>1. sent' \in 0..est /\ todo' \in 0..(est - sent') /\ vol_fill' \in Nat
      BY <1>3, <2>2, <2>5
    <3> QED
      BY <3>1, <1>1, <1>3, <2>2 DEF CallTypes, VolTypes, HandleTypes
  <2>9. vol_split => /\ m \in 1..MaxParts /\ L \in Nat /\ l + n \in Nat /\ l + n <= L
                     /\ F = Part(o, m) /\ vol_fill' = l + n
                     /\ sent' = Offset(m, L) + (l + n)
                     /\ IsPart(o, r, L, m, l + n, FALSE)'
                     /\ \A i \in 1..(m - 1) : IsPart(o, r, L, i, L, FALSE)'
    <3> SUFFICES ASSUME vol_split
                 PROVE  /\ m \in 1..MaxParts /\ L \in Nat /\ l + n \in Nat /\ l + n <= L
                        /\ F = Part(o, m) /\ vol_fill' = l + n
                        /\ sent' = Offset(m, L) + (l + n)
                        /\ IsPart(o, r, L, m, l + n, FALSE)'
                        /\ \A i \in 1..(m - 1) : IsPart(o, r, L, i, L, FALSE)'
      OBVIOUS
    <3>2. /\ m \in Nat \ {0} /\ L \in Nat /\ l \in Nat /\ Offset(m, L) \in Nat /\ F = Part(o, m)
          /\ sent = Offset(m, L) + l /\ vol_fill' = l + n
      <4>1. m \in Nat \ {0} /\ L \in Nat /\ l \in Nat /\ F = Part(o, m) /\ vol_fill' = l + n
        BY <1>2, <1>3, <2>1, <2>2, <2>o
      <4> QED
        BY <4>1, <2>3, <2>o, Offsets
    <3>3. IsPart(o, r, L, m, l, FALSE)
      BY <2>3, <2>o, Zenon DEF PartIs
    <3>4. /\ Len(disk[F]) = l + 1 /\ disk[F][1] = Hdr(r, m, FALSE)
          /\ \A k \in 2..(l + 1) : disk[F][k] = Byte(r, Offset(m, L) + (k - 2) + 1)
      BY <3>2, <3>3 DEF IsPart, From
    <3>5. ASSUME NEW k \in 2..(l + n + 1)
          PROVE  disk'[F][k] = Byte(r, Offset(m, L) + (k - 2) + 1)
      <4>1. CASE k <= l + 1
        <5>1. k \in 1..(l + 1) /\ k \in 2..(l + 1)
          BY <4>1, <3>2, <2>5
        <5>2. disk'[F][k] = disk[F][k]
          BY <5>1, <3>4, <2>7
        <5> QED
          BY <5>1, <5>2, <3>4
      <4>2. CASE k > l + 1
        <5>1. k \in ((l + 1) + 1)..((l + 1) + n) /\ sent + (k - (l + 1)) = Offset(m, L) + (k - 2) + 1
          BY <4>2, <3>2, <2>5
        <5>2. disk'[F][k] = Byte(runs, sent + (k - (l + 1)))
          BY <5>1, <3>4, <2>7
        <5> QED
          BY <5>1, <5>2, <2>o
      <4> QED
        BY <4>1, <4>2, <3>2, <2>5
    <3>6. disk'[F][1] = Hdr(r, m, FALSE) /\ Len(disk'[F]) = l + n + 1
      <4>1. 1 \in 1..Len(disk[F])
        BY <3>2, <3>4
      <4>2. disk'[F][1] = disk[F][1]
        BY <4>1, <2>7
      <4>3. Len(disk'[F]) = l + n + 1
        BY <3>2, <3>4, <2>5, <2>7
      <4> QED
        BY <4>2, <4>3, <3>4
    <3>7. From(F, 2, r, Offset(m, L))'
      BY <3>5, <3>6 DEF From
    <3>8. IsPart(o, r, L, m, l + n, FALSE)'
      BY <3>2, <3>6, <3>7, <2>6, <2>7 DEF IsPart
    <3>9. \A i \in 1..(m - 1) : IsPart(o, r, L, i, L, FALSE)'
      <4> SUFFICES ASSUME NEW i \in 1..(m - 1)
                   PROVE  IsPart(o, r, L, i, L, FALSE)'
        OBVIOUS
      <4>1. IsPart(o, r, L, i, L, FALSE)
        BY <2>3, <2>o, Zenon DEF PartIs
      <4>2. Part(o, i) \in DOMAIN disk /\ Part(o, i) # F
        BY <4>1, <3>2, NamesDiffer DEF IsPart
      <4> QED
        BY <4>1, <4>2, <2>7, IsPartKept
    <3>10. /\ m \in 1..MaxParts /\ l + n \in Nat /\ l + n <= L
           /\ sent' = Offset(m, L) + (l + n)
      BY <3>2, <2>2, <2>5, <2>o, <1>2, <1>3
    <3> QED
      BY <3>2, <3>8, <3>9, <3>10
  <2>10. ~vol_split => Holding(Temp(out), sent)' /\ F = Temp(out)
    <3> SUFFICES ASSUME ~vol_split
                 PROVE  Holding(Temp(out), sent)' /\ F = Temp(out)
      OBVIOUS
    <3>1. PICK q \in Nat : q = sent
      BY <1>3
    <3>2. F = Temp(o) /\ Len(disk[F]) = q /\ \A k \in 1..q : disk[F][k] = Byte(r, 0 + (k - 1) + 1)
      BY <2>1, <2>4, <2>o, <1>2, <3>1 DEF Holding, From
    <3>3. Len(disk'[F]) = q + n /\ F \in DOMAIN disk'
      BY <3>2, <2>6, <2>7
    <3>4. ASSUME NEW k \in 1..(q + n)
          PROVE  disk'[F][k] = Byte(r, 0 + (k - 1) + 1)
      <4>1. CASE k <= q
        <5>1. k \in 1..q
          BY <4>1, <3>1
        <5>2. disk'[F][k] = disk[F][k]
          BY <5>1, <3>2, <2>7
        <5> QED
          BY <5>1, <5>2, <3>2
      <4>2. CASE k > q
        <5>1. k \in (q + 1)..(q + n) /\ q + (k - q) = 0 + (k - 1) + 1
          BY <4>2, <3>1, <2>5
        <5>2. disk'[F][k] = Byte(runs, q + (k - q))
          BY <5>1, <3>1, <3>2, <2>7
        <5> QED
          BY <5>1, <5>2, <2>o
      <4> QED
        BY <4>1, <4>2, <3>1, <2>5
    <3>5. From(F, 1, r, 0)'
      BY <3>3, <3>4 DEF From
    <3>6. F = Temp(out) /\ out' = out /\ runs' = r /\ sent' = q + n
      BY <3>1, <3>2, <2>o, <2>2, <1>1
    <3> QED
      BY <3>3, <3>5, <3>6 DEF Holding
  <2>11. SetsInv'
    <3>1. CASE vol_split
      <4>1. /\ m \in 1..MaxParts /\ L \in Nat /\ l + n \in Nat /\ l + n <= L
            /\ F = Part(o, m) /\ F = Part(out, m) /\ vol_part <= m
            /\ IsPart(o, r, L, m, l + n, FALSE)'
            /\ \A i \in 1..(m - 1) : IsPart(o, r, L, i, L, FALSE)'
        <5>1. /\ m \in 1..MaxParts /\ L \in Nat /\ l + n \in Nat /\ l + n <= L
              /\ F = Part(o, m)
              /\ IsPart(o, r, L, m, l + n, FALSE)'
              /\ \A i \in 1..(m - 1) : IsPart(o, r, L, i, L, FALSE)'
          BY <2>9, <3>1, Zenon
        <5>2. F = Part(out, m) /\ vol_part <= m
          BY <5>1, <2>o
        <5> QED
          BY <5>1, <5>2
      <4>2. \A s \in 1..runs : s # runs /\ s \in DOMAIN whole =>
                s \in DOMAIN whole' /\ whole'[s] = whole[s]
        BY <1>1
      <4>3. runs' = runs /\ out' = out /\ DiskTypes' /\ wpc = "writing"
            /\ \A g \in DOMAIN disk' : g # F => g \in DOMAIN disk /\ disk'[g] = disk[g]
        BY <1>1, <2>7
      <4> QED
        BY <3>1, <4>1, <4>2, <4>3, <2>o, RunWritten
    <3>2. CASE ~vol_split
      <4>1. \A b, i : F # Part(b, i)
        BY <3>2, <2>10, NamesDiffer
      <4> QED
        BY <4>1, <2>7, <1>1, SetsButOne DEF IInv
    <3> QED
      BY <3>1, <3>2
  <2>12. WritingInv'
    <3>1. CASE vol_split
      <4>1. vol_part' = m /\ vol_limit' = L /\ vol_fill' = l + n /\ out' = o /\ runs' = r
        BY <3>1, <2>9, <2>o, <1>1
      <4>2. PartIs(vol_part, vol_fill, FALSE)'
        BY <4>1, <3>1, <2>9, Zenon DEF PartIs
      <4>3. \A i \in 1..(m - 1) : PartIs(i, vol_limit, FALSE)'
        BY <4>1, <3>1, <2>9, Zenon DEF PartIs
      <4>4. /\ vol_part' \in 1..MaxParts /\ vol_limit' > 0 /\ vol_base' = out'
            /\ vol_fill' <= vol_limit' /\ sent' = Offset(vol_part', vol_limit') + vol_fill'
        BY <3>1, <4>1, <2>3, <2>9, <1>1, <1>2
      <4>5. vol_split'
        BY <3>1, <1>1
      <4> QED
        BY <4>1, <4>2, <4>3, <4>4, <4>5 DEF WritingInv
    <3>2. CASE ~vol_split
      BY <3>2, <2>4, <2>10, <1>1, <1>2 DEF WritingInv
    <3> QED
      BY <3>1, <3>2
  <2>13. WrittenInv'
    BY <2>2, <2>12, <1>1, <1>2 DEF WrittenInv, BeforeInv, FinishedInv, ShiftInv, DoneInv, CodeInv
  <2>14. PlacedInv'
    <3> SUFFICES ASSUME NEW f \in DOMAIN disk', Ours(f)'
                 PROVE  IF vol_split THEN f \in Mine(1) ELSE f = Temp(out) /\ named
      BY <2>2, <1>1 DEF PlacedInv, Mine
    <3>1. CASE f = F
      <4>1. vol_split => F = Part(vol_base, vol_part) /\ vol_part \in 1..vol_part
        BY <2>3, <2>9, <2>o, <1>2
      <4> QED
        BY <3>1, <4>1, <2>4, <2>10 DEF Mine
    <3>2. CASE f # F
      <4>1. f \in DOMAIN disk /\ Ours(f)
        <5>1. runs' = runs /\ \A g \in DOMAIN disk' : g # F => g \in DOMAIN disk /\ disk'[g] = disk[g]
          BY <2>7, <1>1
        <5> QED
          BY <3>2, <5>1, OursKept
      <4> QED
        BY <4>1, <1>1 DEF IInv, PlacedInv
    <3> QED
      BY <3>1, <3>2
  <2>15. OpenInv'
    BY <2>2, <1>1 DEF IInv, OpenInv
  <2>16. ReaderTypes' /\ ReadersInv' /\ UsersHoldTheirSet'
    <3>1. ~HeldForRead(F)
      BY <2>1, <1>2, OpenNotHeld DEF IInv, Typed
    <3>2. \A h \in Handles : fh'[h] \in {fh[h], NoName, F}
      BY <1>1
    <3> QED
      BY <3>1, <3>2, <2>7, <1>1, ReadersOther
  <2> QED
    BY <2>7, <2>8, <2>11, <2>13, <2>14, <2>15, <2>16 DEF IInv, Typed
<1> QED
  BY <1>4, <1>5 DEF VolWrite

LEMMA VolRollKeeps ==
    ASSUME VolumeAssumption, IInv, VolRoll
    PROVE  IInv'
<1> DEFINE closed == [fh EXCEPT ![vol_hout] = NoName]
<1>o. PICK o, r, L, m, F : /\ o = out /\ r = runs /\ L = vol_limit /\ m = vol_part
                           /\ F = Part(out, vol_part + 1)
  OBVIOUS
<1>1. /\ wpc = "writing" /\ todo > 0 /\ vol_limit > 0 /\ vol_fill = vol_limit
      /\ whole' = whole /\ out' = out /\ est' = est /\ named' = named /\ runs' = runs
      /\ sent' = sent /\ todo' = todo
      /\ hloc' = hloc /\ cursor' = cursor /\ held' = held
      /\ vol_split' = vol_split /\ vol_base' = vol_base /\ vol_part' = vol_part + 1
      /\ vol_limit' = vol_limit /\ rd' = rd
  BY DEF VolRoll, callVars, RollDue
<1>2. vol_split
  BY <1>1 DEF IInv, WrittenInv, WritingInv
<1>3. /\ vol_part \in 1..MaxParts /\ code # "ok" /\ runs >= 1
      /\ vol_hout \in Handles /\ fh[vol_hout] = Part(out, vol_part) /\ vol_base = out
      /\ sent = Offset(vol_part, vol_limit) + vol_fill
  BY <1>1, <1>2, Zenon DEF IInv, WrittenInv, WritingInv, CodeInv, OpenInv
<1>4. /\ \A i \in 1..(m - 1) : IsPart(o, r, L, i, L, FALSE)
      /\ IsPart(o, r, L, m, L, FALSE)
  BY <1>o, <1>1, <1>2, Zenon DEF IInv, WrittenInv, WritingInv, PartIs
<1>5. /\ CallTypes /\ VolTypes /\ HandleTypes /\ DiskTypes /\ ReaderTypes
      /\ out \in Bases /\ L \in Nat /\ m \in 1..MaxParts /\ m \in Nat \ {0} /\ MaxParts \in Nat
      /\ m + 1 \in Index /\ F = Part(o, m + 1) /\ F \in Names
  <2>1. CallTypes /\ VolTypes /\ HandleTypes /\ DiskTypes /\ ReaderTypes
    BY DEF IInv, Typed
  <2>2. Limits \subseteq Nat /\ MaxParts \in Nat \ {0}
    BY DEF VolumeAssumption
  <2>3. out \in Bases /\ L \in Nat
    BY <2>1, <2>2, <1>o DEF CallTypes, VolTypes
  <2>4. m \in 1..MaxParts /\ m \in Nat \ {0} /\ m + 1 \in Index
    BY <1>3, <1>o, <2>2 DEF Index
  <2>5. F = Part(o, m + 1)
    BY <1>o
  <2> QED
    BY <2>1, <2>2, <2>3, <2>4, <2>5, <1>o, NamesAre
<1>6. closed \in [Handles -> Names \cup {NoName}] /\ \A h \in Handles : closed[h] = NoName
  <2>1. \A h \in Handles : fh[h] # NoName => h = vol_hout
    BY <1>1 DEF IInv, OpenInv
  <2> QED
    BY <2>1, <1>5, <1>3 DEF HandleTypes
<1> HIDE DEF closed
<1>7. CASE /\ fh' = closed /\ vol_hout' = Invalid /\ wpc' = "cleanup" /\ code' \in {"failed", "toomany"}
           /\ vol_fill' = vol_fill /\ disk' = disk
  <2>1. /\ SetsInv' /\ WrittenInv' /\ PlacedInv' /\ ReaderTypes' /\ ReadersInv'
        /\ UsersHoldTheirSet'
    <3>1. \A h \in Handles : fh'[h] \in {fh[h], NoName}
      BY <1>6, <1>7
    <3>2. vol_part' \in {vol_part, vol_part + 1}
      BY <1>1
    <3> QED
      BY <1>1, <1>7, <3>1, <3>2, FailureKeeps
  <2>2. DiskTypes' /\ HandleTypes'
    BY <1>1, <1>5, <1>6, <1>7 DEF DiskTypes, HandleTypes
  <2>3. CallTypes' /\ VolTypes'
    <3>1. vol_part' \in 0..(MaxParts + 1)
      BY <1>1, <1>3, <1>5
    <3> QED
      BY <3>1, <1>1, <1>5, <1>7 DEF CallTypes, VolTypes, States
  <2>4. OpenInv'
    BY <1>6, <1>7 DEF OpenInv
  <2> QED
    BY <2>1, <2>2, <2>3, <2>4 DEF IInv, Typed
<1>8. ASSUME ~PastCeiling(vol_part + 1), NEW h \in Handles, NEW ok \in BOOLEAN, Free(F),
             fh' = [closed EXCEPT ![h] = F], vol_hout' = h,
             disk' = Put(F, IF ok THEN <<Hdr(runs, vol_part + 1, FALSE)>> ELSE <<>>),
             IF ok THEN vol_fill' = 0 /\ UNCHANGED <<wpc, code>>
                   ELSE ToCleanup("failed") /\ UNCHANGED vol_fill
      PROVE  IInv'
  <2> DEFINE cells == IF ok THEN <<Hdr(runs, m + 1, FALSE)>> ELSE <<>>
  <2>1. /\ cells \in Seq(CellsTo(runs)) /\ Len(cells) = IF ok THEN 1 ELSE 0
        /\ ok => cells[1] = Hdr(runs, m + 1, FALSE)
    <3>1. CASE ok
      <4>1. cells = <<Hdr(runs, m + 1, FALSE)>>
        BY <3>1
      <4> HIDE DEF cells
      <4>2. /\ cells \in Seq(CellsTo(runs)) /\ Len(cells) = 1
            /\ cells[1] = Hdr(runs, m + 1, FALSE)
        BY <4>1, <1>3, <1>5, HdrOnly
      <4> QED
        BY <4>2, <3>1
    <3>2. CASE ~ok
      <4>1. cells = <<>>
        BY <3>2
      <4> HIDE DEF cells
      <4>2. cells \in Seq(CellsTo(runs)) /\ Len(cells) = 0
        BY <4>1
      <4> QED
        BY <4>2, <3>2
    <3> QED
      BY <3>1, <3>2
  <2>2. disk' = Put(F, cells) /\ ~HeldForRead(F)
    BY <1>8, <1>o DEF Free
  <2> HIDE DEF cells
  <2>3. /\ DiskTypes' /\ DOMAIN disk' = DOMAIN disk \cup {F} /\ disk'[F] = cells
        /\ \A g \in DOMAIN disk : g # F => g \in DOMAIN disk' /\ disk'[g] = disk[g]
        /\ \A g \in DOMAIN disk' : g # F => g \in DOMAIN disk /\ disk'[g] = disk[g]
    BY <2>1, <2>2, <1>1, <1>5, PutIs
  <2>4. /\ HandleTypes' /\ fh'[h] = F /\ \A g \in Handles : g # h => fh'[g] = NoName
    BY <1>8, <1>5, <1>6 DEF HandleTypes
  <2>5. ok => wpc' = "writing" /\ code' = code /\ vol_fill' = 0
    BY <1>8, <1>1
  <2>6. ~ok => wpc' = "cleanup" /\ code' = "failed" /\ vol_fill' = vol_fill
    BY <1>8 DEF ToCleanup
  <2>7. CallTypes' /\ VolTypes'
    <3>1. vol_part' \in 0..(MaxParts + 1)
      BY <1>1, <1>3, <1>5
    <3>2. wpc' \in States /\ code' \in {"none", "ok", "failed", "toomany"} /\ vol_fill' \in Nat
      BY <2>5, <2>6, <1>5 DEF CallTypes, VolTypes, States
    <3> QED
      BY <3>1, <3>2, <1>1, <1>5, <1>8 DEF CallTypes, VolTypes
  <2>8. OpenInv'
    <3>1. fh'[vol_hout'] = Part(out', vol_part') /\ vol_hout' \in Handles
      BY <2>4, <1>o, <1>1, <1>8
    <3> QED
      BY <3>1, <2>4, <2>5, <2>6, <1>1, <1>2, <1>8 DEF OpenInv
  <2>9. ReaderTypes' /\ ReadersInv' /\ UsersHoldTheirSet'
    <3>1. \A g \in Handles : fh'[g] \in {fh[g], NoName, F}
      BY <2>4
    <3>2. wpc # "idle" /\ rd' = rd /\ runs' = runs
      BY <1>1
    <3> QED
      BY <3>1, <3>2, <2>2, <2>3, ReadersOther
  <2>10. PlacedInv'
    <3> SUFFICES ASSUME NEW f \in DOMAIN disk', Ours(f)'
                 PROVE  f \in Mine(1)'
      BY <2>5, <2>6, <1>1, <1>2 DEF PlacedInv
    <3>1. CASE f = F
      <4>1. vol_part' \in 1..vol_part' /\ F = Part(vol_base', vol_part')
        BY <1>o, <1>1, <1>3, <1>5
      <4> QED
        BY <3>1, <4>1 DEF Mine
    <3>2. CASE f # F
      <4>1. f \in DOMAIN disk /\ Ours(f)
        <5>1. runs' = runs /\ \A g \in DOMAIN disk' : g # F => g \in DOMAIN disk /\ disk'[g] = disk[g]
          BY <2>3, <1>1
        <5> QED
          BY <3>2, <5>1, OursKept
      <4>2. f \in Mine(1)
        BY <4>1, <1>1, <1>2 DEF IInv, PlacedInv
      <4>3. PICK i \in 1..vol_part : f = Part(vol_base, i)
        BY <4>2 DEF Mine
      <4>4. i \in 1..vol_part' /\ vol_base' = vol_base
        BY <1>1, <1>3, <1>5
      <4> QED
        BY <4>3, <4>4 DEF Mine
    <3> QED
      BY <3>1, <3>2
  <2>11. CASE ok
    <3>1. \A i \in 1..m : IsPart(o, r, L, i, L, FALSE)'
      <4> SUFFICES ASSUME NEW i \in 1..m
                   PROVE  IsPart(o, r, L, i, L, FALSE)'
        OBVIOUS
      <4>1. IsPart(o, r, L, i, L, FALSE)
        <5>1. i = m \/ i \in 1..(m - 1)
          BY <1>5
        <5> QED
          BY <5>1, <1>4, Zenon
      <4>2. Part(o, i) \in DOMAIN disk /\ Part(o, i) # F
        <5>1. Part(o, i) \in DOMAIN disk
          BY <4>1 DEF IsPart
        <5>2. i # m + 1
          BY <1>5
        <5> QED
          BY <5>1, <5>2, <1>5, NamesDiffer
      <4> QED
        BY <4>1, <4>2, <2>3, IsPartKept
    <3>2. IsPart(o, r, L, m + 1, 0, FALSE)'
      <4>1. Len(disk'[F]) = 1
        BY <2>1, <2>3, <2>11
      <4>2. disk'[F][1] = Hdr(r, m + 1, FALSE)
        BY <2>1, <2>3, <2>11, <1>o
      <4>3. From(F, 2, r, Offset(m + 1, L))'
        BY <4>1 DEF From
      <4>4. F \in DOMAIN disk' /\ F = Part(o, m + 1) /\ Len(disk'[F]) = 0 + 1
        BY <2>3, <1>5, <4>1
      <4> QED
        BY <4>2, <4>3, <4>4 DEF IsPart
    <3>3. m + 1 \in 1..MaxParts /\ vol_part <= m + 1 /\ F = Part(out, m + 1)
      BY <1>8, <1>o, <1>3, <1>5 DEF PastCeiling
    <3>4. SetsInv'
      <4>1. \A i \in 1..((m + 1) - 1) : IsPart(o, r, L, i, L, FALSE)'
        <5>1. (m + 1) - 1 = m
          BY <1>5
        <5> QED
          BY <5>1, <3>1, Zenon
      <4>2. \A s \in 1..runs : s # runs /\ s \in DOMAIN whole =>
                s \in DOMAIN whole' /\ whole'[s] = whole[s]
        BY <1>1
      <4>3. runs' = runs /\ out' = out /\ DiskTypes' /\ wpc = "writing" /\ 0 \in Nat /\ 0 <= L
            /\ \A g \in DOMAIN disk' : g # F => g \in DOMAIN disk /\ disk'[g] = disk[g]
        BY <1>1, <1>5, <2>3
      <4> QED
        BY <3>2, <3>3, <4>1, <4>2, <4>3, <1>2, <1>5, <1>o, RunWritten
    <3>5. WritingInv'
      <4>1. vol_part' = m + 1 /\ vol_limit' = L /\ vol_fill' = 0 /\ out' = o /\ runs' = r
        BY <1>o, <1>1, <2>5, <2>11
      <4>2. PartIs(vol_part, vol_fill, FALSE)'
        BY <4>1, <3>2, Zenon DEF PartIs
      <4>3. \A i \in 1..m : PartIs(i, vol_limit, FALSE)'
        BY <4>1, <3>1, Zenon DEF PartIs
      <4>4. sent' = Offset(m + 1, L) + 0
        <5>1. sent' = Offset(m, L) + L
          BY <1>o, <1>1, <1>3
        <5>2. Offset(m + 1, L) = Offset(m, L) + L /\ Offset(m, L) \in Nat
          BY <1>5, Offsets
        <5> QED
          BY <5>1, <5>2, <1>5
      <4>5. vol_split'
        BY <1>1, <1>2
      <4>6. vol_base' = out' /\ vol_limit' > 0 /\ vol_fill' <= vol_limit' /\ (m + 1) - 1 = m
        BY <1>1, <1>3, <1>5, <1>o, <4>1
      <4> QED
        BY <3>3, <4>1, <4>2, <4>3, <4>4, <4>5, <4>6 DEF WritingInv
    <3>6. WrittenInv'
      BY <2>5, <2>11, <3>5, <1>1, <1>3
         DEF WrittenInv, BeforeInv, FinishedInv, ShiftInv, DoneInv, CodeInv
    <3> QED
      BY <2>3, <2>4, <2>7, <2>8, <2>9, <2>10, <3>4, <3>6 DEF IInv, Typed
  <2>12. CASE ~ok
    <3>1. Len(disk'[F]) = 0
      BY <2>1, <2>3, <2>12
    <3>2. \A s : ~HasHdr(F, s)'
      BY <3>1 DEF HasHdr
    <3>3. SetsInv'
      BY <2>3, <3>2, <1>1, SetsButOne DEF IInv
    <3>4. WrittenInv'
      BY <2>6, <2>12, <1>1, <1>3, WrittenElsewhere
    <3> QED
      BY <2>3, <2>4, <2>7, <2>8, <2>9, <2>10, <3>3, <3>4 DEF IInv, Typed
  <2> QED
    BY <2>11, <2>12
<1>9. \/ PastCeiling(vol_part + 1) /\ vol_hout' = Invalid /\ fh' = closed
         /\ ToCleanup("toomany") /\ UNCHANGED <<vol_fill, created, disk>>
      \/ /\ ~PastCeiling(vol_part + 1)
         /\ \/ \E h \in Handles, ok \in BOOLEAN :
                  /\ Free(F)
                  /\ fh' = [closed EXCEPT ![h] = F] /\ vol_hout' = h
                  /\ disk' = Put(F, IF ok THEN <<Hdr(runs, vol_part + 1, FALSE)>> ELSE <<>>)
                  /\ IF ok THEN vol_fill' = 0 /\ UNCHANGED <<wpc, code>>
                           ELSE ToCleanup("failed") /\ UNCHANGED vol_fill
            \/ /\ fh' = closed /\ vol_hout' = Invalid
               /\ ToCleanup("failed") /\ UNCHANGED <<vol_fill, created, disk>>
  BY <1>o, Zenon DEF VolRoll, closed
<1>10. CASE /\ fh' = closed /\ vol_hout' = Invalid
            /\ (ToCleanup("failed") \/ ToCleanup("toomany"))
            /\ UNCHANGED <<vol_fill, created, disk>>
  BY <1>7, <1>10 DEF ToCleanup
<1> QED
  BY <1>8, <1>9, <1>10, Zenon

\* Rewriting the header of a part.
LEMMA MarkIs ==
    ASSUME VolumeAssumption, DiskTypes, NEW F \in DOMAIN disk, Len(disk[F]) >= 1,
           vol_part \in Index, runs >= 1, disk' = Marked(F)
    PROVE  /\ disk' \in [DOMAIN disk -> Seq(CellsTo(runs))] /\ DOMAIN disk' = DOMAIN disk
           /\ \A g \in DOMAIN disk : g # F => g \in DOMAIN disk' /\ disk'[g] = disk[g]
           /\ \A g \in DOMAIN disk' : g # F => g \in DOMAIN disk /\ disk'[g] = disk[g]
           /\ Len(disk'[F]) = Len(disk[F]) /\ disk'[F][1] = Hdr(runs, vol_part, TRUE)
           /\ \A k \in 2..Len(disk[F]) : disk'[F][k] = disk[F][k]
<1> DEFINE a == disk[F]
           c == Hdr(runs, vol_part, TRUE)
           d == [a EXCEPT ![1] = c]
           n == Len(a)
<1>1. runs \in 1..runs /\ runs \in Nat
  BY DEF DiskTypes, VolumeAssumption
<1>2. a \in Seq(CellsTo(runs)) /\ n \in Nat /\ 1 \in 1..n
  BY FileIs
<1>3. c \in CellsTo(runs)
  BY <1>1, CellsAre
<1>4. disk' = [disk EXCEPT ![F] = d]
  BY DEF Marked
<1> HIDE DEF a, c
<1>5. d \in Seq(CellsTo(runs)) /\ Len(d) = n /\ \A k \in 1..n : d[k] = IF k = 1 THEN c ELSE a[k]
  BY <1>2, <1>3, ExceptSeq
<1> HIDE DEF d, n
<1>6. disk'[F] = d /\ \A g \in DOMAIN disk : g # F => disk'[g] = disk[g]
  BY <1>4 DEF DiskTypes
<1>7. disk' \in [DOMAIN disk -> Seq(CellsTo(runs))]
  BY <1>4, <1>5 DEF DiskTypes
<1>8. \A k \in 2..n : k \in 1..n /\ k # 1
  BY <1>2
<1>9. d[1] = c /\ \A k \in 2..n : d[k] = a[k]
  BY <1>2, <1>5, <1>8
<1>10. DOMAIN disk' = DOMAIN disk
  BY <1>7
<1>11. Len(d) = n /\ n = Len(disk[F])
  BY <1>5 DEF n, a
<1> QED
  BY <1>6, <1>7, <1>9, <1>10, <1>11 DEF a, c

LEMMA VolFinishKeeps ==
    ASSUME VolumeAssumption, IInv, VolFinish
    PROVE  IInv'
<1>o. PICK o, r, L, m, l, q, F : /\ o = out /\ r = runs /\ L = vol_limit /\ m = vol_part
                                 /\ l = vol_fill /\ q = sent /\ F = fh[vol_hout]
  OBVIOUS
<1>1. /\ wpc = "writing" /\ todo = 0 /\ q > 0
      /\ whole' = [s \in DOMAIN whole \cup {runs} |-> IF s = runs THEN sent ELSE whole[s]]
      /\ vol_hout' = Invalid /\ fh' = [fh EXCEPT ![vol_hout] = NoName]
      /\ out' = o /\ est' = est /\ named' = named /\ runs' = runs
      /\ sent' = q /\ todo' = todo /\ hloc' = hloc /\ cursor' = cursor /\ held' = held
      /\ vol_split' = vol_split /\ vol_base' = vol_base /\ vol_part' = vol_part
      /\ vol_limit' = vol_limit /\ vol_fill' = vol_fill /\ rd' = rd
      /\ wpc' \in {"rename", "settle", "done", "cleanup"}
  BY <1>o DEF VolFinish, callVars, ownVars, ToCleanup
<1>2. /\ vol_part \in 1..MaxParts /\ (vol_split <=> vol_limit > 0) /\ code # "ok" /\ runs >= 1
      /\ vol_hout \in Handles /\ WritingInv
      /\ fh[vol_hout] = IF vol_split THEN Part(out, vol_part) ELSE Temp(out)
  BY <1>1 DEF IInv, WrittenInv, WritingInv, CodeInv, OpenInv
<1>3. /\ CallTypes /\ VolTypes /\ HandleTypes /\ DiskTypes /\ ReaderTypes
      /\ out \in Bases /\ r \in 1..r /\ r \in Nat /\ L \in Nat /\ l \in Nat /\ q \in 1..MaxStream /\ q \in Nat
      /\ L \in Limits \cup {0} /\ m \in 1..MaxParts /\ m \in Nat \ {0} /\ m \in Index
  <2>1. CallTypes /\ VolTypes /\ HandleTypes /\ DiskTypes /\ ReaderTypes
    BY DEF IInv, Typed
  <2>2. MaxStream \in Nat /\ MaxRuns \in Nat /\ MaxParts \in Nat \ {0} /\ Limits \subseteq Nat
    BY DEF VolumeAssumption
  <2>3. est \in 0..MaxStream /\ sent \in 0..est
    BY <2>1 DEF CallTypes
  <2>4. q \in 1..MaxStream /\ q \in Nat
    BY <2>2, <2>3, <1>o, <1>1
  <2>5. r \in 1..r /\ r \in Nat /\ L \in Nat /\ l \in Nat /\ L \in Limits \cup {0}
    BY <2>1, <2>2, <1>o, <1>2 DEF DiskTypes, VolTypes
  <2>6. m \in 1..MaxParts /\ m \in Nat \ {0} /\ m \in Index
    BY <1>2, <1>o, <2>2 DEF Index
  <2> QED
    BY <2>1, <2>4, <2>5, <2>6 DEF CallTypes
<1>4. /\ DOMAIN whole' = DOMAIN whole \cup {r} /\ whole'[r] = q
      /\ \A s \in DOMAIN whole : s # r => whole'[s] = whole[s]
      /\ whole' \in [DOMAIN whole' -> 1..MaxStream] /\ DOMAIN whole' \subseteq 1..runs
  <2>1. /\ DOMAIN whole' = DOMAIN whole \cup {r} /\ whole'[r] = q
        /\ \A s \in DOMAIN whole : s # r => whole'[s] = whole[s]
    BY <1>1, <1>o
  <2>2. whole' \in [DOMAIN whole' -> 1..MaxStream] /\ DOMAIN whole' \subseteq 1..runs
    BY <1>1, <1>3, <1>o DEF DiskTypes
  <2> QED
    BY <2>1, <2>2
<1>5. vol_split => /\ vol_base = out /\ l <= L /\ q = Offset(m, L) + l /\ Offset(m, L) \in Nat
                   /\ F = Part(o, m) /\ F \in DOMAIN disk /\ Len(disk[F]) = l + 1
                   /\ \A i \in 1..(m - 1) : IsPart(o, r, L, i, L, FALSE)
                   /\ IsPart(o, r, L, m, l, FALSE)
  <2> SUFFICES ASSUME vol_split
               PROVE  /\ vol_base = out /\ l <= L /\ q = Offset(m, L) + l /\ Offset(m, L) \in Nat
                      /\ F = Part(o, m) /\ F \in DOMAIN disk /\ Len(disk[F]) = l + 1
                      /\ \A i \in 1..(m - 1) : IsPart(o, r, L, i, L, FALSE)
                      /\ IsPart(o, r, L, m, l, FALSE)
    OBVIOUS
  <2>1. /\ \A i \in 1..(m - 1) : IsPart(o, r, L, i, L, FALSE)
        /\ IsPart(o, r, L, m, l, FALSE)
    BY <1>o, <1>1, <1>2, Zenon DEF WritingInv, PartIs
  <2>2. vol_base = out /\ l <= L /\ q = Offset(m, L) + l /\ F = Part(o, m)
    BY <1>o, <1>1, <1>2 DEF WritingInv
  <2>3. Offset(m, L) \in Nat
    BY <1>3, Offsets
  <2>4. F \in DOMAIN disk /\ Len(disk[F]) = l + 1
    BY <2>1, <2>2 DEF IsPart
  <2> QED
    BY <2>1, <2>2, <2>3, <2>4
<1>6. ~vol_split => /\ F = Temp(out) /\ Holding(Temp(out), sent) /\ named
  BY <1>o, <1>1, <1>2 DEF WritingInv
<1>7. /\ HandleTypes' /\ \A h \in Handles : fh'[h] = NoName
  BY <1>1, <1>2, <1>3 DEF IInv, OpenInv, HandleTypes
<1>8. /\ sent' \in 0..est' /\ todo' \in 0..(est' - sent') /\ VolTypes' /\ OpenInv'
  <2>1. sent' \in 0..est' /\ todo' \in 0..(est' - sent')
    BY <1>1, <1>3, <1>o DEF CallTypes
  <2>2. VolTypes'
    BY <1>1, <1>3 DEF VolTypes
  <2>3. OpenInv'
    BY <1>1, <1>7 DEF OpenInv
  <2> QED
    BY <2>1, <2>2, <2>3
<1>9. \A s \in 1..runs : s # runs /\ s \in DOMAIN whole =>
          s \in DOMAIN whole' /\ whole'[s] = whole[s]
  BY <1>4, <1>o
<1>10. ~HeldForRead(F)
  BY <1>o, <1>2, OpenNotHeld DEF IInv, Typed
<1>11. ASSUME NEW f \in DOMAIN disk, Ours(f)
       PROVE  IF vol_split THEN f \in Mine(1) ELSE f = Temp(out) /\ named
  BY <1>1, <1>11 DEF IInv, PlacedInv
<1>12. ASSUME disk' = disk,
              \/ vol_split /\ wpc' = "cleanup" /\ code' = "failed"
              \/ ~vol_split /\ wpc' = "rename" /\ code' = code
       PROVE  IInv'
  <2>1. DiskTypes'
    BY <1>1, <1>3, <1>4, <1>12 DEF DiskTypes
  <2>2. ReaderTypes' /\ ReadersInv' /\ UsersHoldTheirSet'
    <3>1. \A h \in Handles : fh'[h] \in {fh[h], NoName, F}
      BY <1>7
    <3>2. \A g \in DOMAIN disk : g # F => g \in DOMAIN disk' /\ disk'[g] = disk[g]
      BY <1>12
    <3>3. wpc # "idle" /\ rd' = rd /\ runs' = runs
      BY <1>1
    <3> QED
      BY <3>1, <3>2, <3>3, <1>10, ReadersOther
  <2>3. CASE vol_split /\ wpc' = "cleanup" /\ code' = "failed"
    <3>1. CallTypes'
      BY <2>3, <1>1, <1>3, <1>8, <1>o DEF CallTypes, States
    <3>2. WrittenInv'
      BY <2>3, <1>1, <1>2, WrittenElsewhere
    <3>3. PlacedInv'
      BY <2>3, <1>1, <1>11, <1>12 DEF PlacedInv, Ours, Mine
    <3>4. SetsInv'
      <4>1. IsPart(o, r, L, m, l, FALSE)' /\ \A i \in 1..(m - 1) : IsPart(o, r, L, i, L, FALSE)'
        BY <1>5, <1>12, <2>3, Zenon DEF IsPart, From
      <4>2. F = Part(out, m) /\ vol_part <= m /\ l <= L
        BY <1>3, <1>5, <1>o, <2>3
      <4>3. out' = out /\ runs' = runs /\ wpc = "writing"
            /\ \A g \in DOMAIN disk' : g # F => g \in DOMAIN disk /\ disk'[g] = disk[g]
        BY <1>1, <1>o, <1>12
      <4> QED
        BY <4>1, <4>2, <4>3, <2>1, <2>3, <1>3, <1>9, <1>o, RunWritten
    <3> QED
      BY <2>1, <2>2, <3>1, <3>2, <3>3, <3>4, <1>7, <1>8 DEF IInv, Typed
  <2>4. CASE ~vol_split /\ wpc' = "rename" /\ code' = code
    <3>1. CallTypes'
      BY <2>4, <1>1, <1>3, <1>8, <1>o DEF CallTypes, States
    <3>2. Holding(Temp(out), sent)'
      BY <1>6, <1>12, <2>4, <1>1, <1>o DEF Holding, From
    <3>3. WrittenInv'
      BY <2>4, <3>2, <1>1, <1>2, <1>4, <1>6, <1>o
         DEF WrittenInv, BeforeInv, WritingInv, FinishedInv, ShiftInv, DoneInv, CodeInv
    <3>4. PlacedInv'
      BY <2>4, <1>1, <1>11, <1>12, <1>o DEF PlacedInv, Ours
    <3>5. SetsInv'
      <4>1. \A b, i : ~HasHdr(Part(b, i), runs)
        BY <1>11, <2>4, <1>3, HdrOurs, NamesDiffer
      <4>2. \A b, i, s : HasHdr(Part(b, i), s)' =>
                s # runs /\ Part(b, i) \in DOMAIN disk /\ disk'[Part(b, i)] = disk[Part(b, i)]
        BY <4>1, <1>12 DEF HasHdr
      <4>3. Sliced(o, r, 0)'
        BY <4>2, <1>o DEF Sliced
      <4>4. \E limit \in Limits \cup {0} : Sliced(out, runs, limit)'
        BY <4>3, <1>1, <1>o
      <4> QED
        BY <4>2, <4>4, <1>1, <1>9, <1>o, SetsWritten DEF IInv
    <3> QED
      BY <2>1, <2>2, <3>1, <3>3, <3>4, <3>5, <1>7, <1>8 DEF IInv, Typed
  <2> QED
    BY <2>3, <2>4, <1>12
<1>13. CASE /\ vol_split /\ disk' = Marked(F)
            /\ wpc' = IF vol_part = 1 THEN "settle" ELSE "done"
            /\ code' = IF vol_part > 1 THEN "ok" ELSE code
  <2>1. /\ disk' \in [DOMAIN disk -> Seq(CellsTo(runs))] /\ DOMAIN disk' = DOMAIN disk
        /\ \A g \in DOMAIN disk : g # F => g \in DOMAIN disk' /\ disk'[g] = disk[g]
        /\ \A g \in DOMAIN disk' : g # F => g \in DOMAIN disk /\ disk'[g] = disk[g]
        /\ Len(disk'[F]) = Len(disk[F]) /\ disk'[F][1] = Hdr(runs, vol_part, TRUE)
        /\ \A k \in 2..Len(disk[F]) : disk'[F][k] = disk[F][k]
    <3>1. F \in DOMAIN disk /\ Len(disk[F]) >= 1 /\ vol_part \in Index
      BY <1>3, <1>5, <1>13, <1>o
    <3>2. disk' = Marked(F)
      BY <1>13
    <3> QED
      BY <3>1, <3>2, <1>2, <1>3, MarkIs
  <2>2. DiskTypes'
    BY <2>1, <1>1, <1>3, <1>4 DEF DiskTypes
  <2>3. CallTypes'
    BY <1>13, <1>1, <1>3, <1>8, <1>o DEF CallTypes, States
  <2>4. ReaderTypes' /\ ReadersInv' /\ UsersHoldTheirSet'
    <3>1. \A h \in Handles : fh'[h] \in {fh[h], NoName, F}
      BY <1>7
    <3>3. wpc # "idle" /\ rd' = rd /\ runs' = runs
      BY <1>1
    <3> QED
      BY <3>1, <3>3, <2>1, <1>10, ReadersOther
  <2>5. IsPart(o, r, L, m, l, TRUE)'
    <3>1. F \in DOMAIN disk' /\ Len(disk'[F]) = l + 1 /\ F = Part(o, m)
      BY <2>1, <1>5, <1>13
    <3>2. disk'[F][1] = Hdr(r, m, TRUE)
      BY <2>1, <1>o
    <3>3. From(F, 2, r, Offset(m, L))
      BY <1>5, <1>13, Zenon DEF IsPart
    <3>4. From(F, 2, r, Offset(m, L))'
      BY <3>3, <2>1 DEF From
    <3> QED
      BY <3>1, <3>2, <3>4 DEF IsPart
  <2>6. \A i \in 1..(m - 1) : IsPart(o, r, L, i, L, FALSE)'
    <3> SUFFICES ASSUME NEW i \in 1..(m - 1)
                 PROVE  IsPart(o, r, L, i, L, FALSE)'
      OBVIOUS
    <3>1. IsPart(o, r, L, i, L, FALSE)
      BY <1>5, <1>13, Zenon
    <3>2. Part(o, i) \in DOMAIN disk
      BY <3>1 DEF IsPart
    <3>3. i # m /\ F = Part(o, m)
      BY <1>3, <1>5, <1>13
    <3>4. Part(o, i) # F
      BY <3>3, NamesDiffer
    <3> QED
      BY <3>1, <3>2, <3>4, <2>1, IsPartKept
  <2>7. SetsInv'
    <3>1. F = Part(out, m) /\ vol_part <= m /\ l <= L
      BY <1>3, <1>5, <1>o, <1>13
    <3>2. out' = out /\ runs' = runs /\ wpc = "writing" /\ vol_split
          /\ \A g \in DOMAIN disk' : g # F => g \in DOMAIN disk /\ disk'[g] = disk[g]
      BY <2>1, <1>1, <1>o, <1>13
    <3>3. r \in DOMAIN whole' /\ whole'[r] = Offset(m, L) + l
      BY <1>4, <1>5, <1>13
    <3> QED
      BY <3>1, <3>2, <3>3, <2>2, <2>5, <2>6, <1>3, <1>9, <1>o, RunWritten
  <2>8. PlacedInv'
    <3> SUFFICES ASSUME NEW f \in DOMAIN disk', Ours(f)', vol_part = 1
                 PROVE  f = Part(o, 1)
      <4>1. vol_part = 1 => wpc' = "settle"
        BY <1>13
      <4>2. vol_part # 1 => wpc' = "done" /\ code' = "ok"
        BY <1>3, <1>13, <1>o
      <4> QED
        BY <4>1, <4>2, <1>1 DEF PlacedInv
    <3>1. CASE f = F
      BY <3>1, <1>5, <1>13, <1>o
    <3>2. CASE f # F
      <4>1. f \in DOMAIN disk /\ Ours(f)
        <5>1. runs' = runs /\ \A g \in DOMAIN disk' : g # F => g \in DOMAIN disk /\ disk'[g] = disk[g]
          BY <2>1, <1>1
        <5> QED
          BY <3>2, <5>1, OursKept
      <4>2. f \in Mine(1) /\ vol_base = o
        BY <4>1, <1>5, <1>11, <1>13, <1>o
      <4> QED
        BY <4>2 DEF Mine
    <3> QED
      BY <3>1, <3>2
  <2>9. WrittenInv'
    <3>1. CASE vol_part = 1
      <4>1. Offset(1, L) = 0 /\ q = l /\ m = 1
        BY <3>1, <1>3, <1>5, <1>13, <1>o, Offsets
      <4>2. IsPart(o, r, L, 1, q, TRUE)'
        BY <4>1, <2>5, Zenon
      <4>3. out' = o /\ runs' = r /\ vol_limit' = L /\ sent' = q
        BY <1>1, <1>o
      <4>4. PartIs(1, sent, TRUE)'
        BY <4>2, <4>3, Zenon DEF PartIs
      <4>5. Splitting'
        BY <1>1, <1>2, <1>5, <1>13, <1>o DEF Splitting
      <4>6. wpc' = "settle" /\ code' = code
        BY <3>1, <1>13
      <4> QED
        BY <3>1, <4>3, <4>4, <4>5, <4>6, <1>1, <1>2, <1>4
           DEF WrittenInv, BeforeInv, WritingInv, FinishedInv, ShiftInv, DoneInv, CodeInv
    <3>2. CASE vol_part # 1
      <4>1. wpc' = "done" /\ code' = "ok"
        BY <3>2, <1>2, <1>3, <1>13, <1>o
      <4>2. out' = o /\ runs' = r /\ vol_limit' = L /\ vol_part' = m
        BY <1>1, <1>o
      <4>3. whole'[r] - Offset(m, L) = l /\ Offset(m, L) <= whole'[r] /\ r \in DOMAIN whole'
        BY <1>3, <1>4, <1>5, <1>13
      <4>4. whole'[runs'] - Offset(vol_part', vol_limit') = l
        BY <4>2, <4>3
      <4>5. PartIs(vol_part, whole[runs] - Offset(vol_part, vol_limit), TRUE)'
        BY <4>2, <4>4, <2>5, Zenon DEF PartIs
      <4>6. \A i \in 1..(m - 1) : PartIs(i, vol_limit, FALSE)'
        BY <4>2, <2>6, Zenon DEF PartIs
      <4>7. runs' \in DOMAIN whole' /\ vol_part' \in 1..MaxParts /\ vol_limit' > 0
            /\ Offset(vol_part', vol_limit') <= whole'[runs']
        BY <4>2, <4>3, <1>1, <1>2, <1>3, <1>13
      <4>8. DoneInv'
        BY <4>2, <4>5, <4>6, <4>7, Zenon DEF DoneInv
      <4> QED
        BY <4>1, <4>8 DEF WrittenInv, BeforeInv, WritingInv, FinishedInv, ShiftInv, CodeInv
    <3> QED
      BY <3>1, <3>2
  <2> QED
    BY <2>2, <2>3, <2>4, <2>7, <2>8, <2>9, <1>7, <1>8 DEF IInv, Typed
<1>14. \/ /\ disk' = IF vol_split THEN Marked(fh[vol_hout]) ELSE disk
          /\ wpc' = IF ~vol_split THEN "rename"
                    ELSE IF vol_part = 1 THEN "settle" ELSE "done"
          /\ code' = IF vol_split /\ vol_part > 1 THEN "ok" ELSE code
       \/ vol_split /\ wpc' = "cleanup" /\ code' = "failed" /\ disk' = disk
  BY DEF VolFinish, ToCleanup
<1> QED
  BY <1>o, <1>12, <1>13, <1>14

LEMMA SettleOpenKeeps ==
    ASSUME VolumeAssumption, IInv, SettleOpen
    PROVE  IInv'
<1>o. PICK F : F = Part(vol_base, 1)
  OBVIOUS
<1>1. /\ wpc = "settle" /\ disk' = disk /\ whole' = whole /\ out' = out /\ est' = est
      /\ named' = named /\ runs' = runs /\ sent' = sent /\ todo' = todo /\ hloc' = hloc
      /\ created' = created /\ held' = held /\ rd' = rd
      /\ vol_split' = vol_split /\ vol_base' = vol_base /\ vol_part' = vol_part
      /\ vol_limit' = vol_limit /\ vol_fill' = vol_fill /\ vol_hout' = vol_hout
  BY DEF SettleOpen, diskVars, callVars, ownVars, globalVars
<1>2. /\ runs \in DOMAIN whole /\ whole[runs] = sent /\ sent > 0 /\ Splitting /\ vol_part = 1
      /\ PartIs(1, sent, TRUE) /\ code # "ok" /\ runs >= 1
      /\ \A h \in Handles : fh[h] = NoName
  BY <1>1 DEF IInv, WrittenInv, FinishedInv, CodeInv, OpenInv
<1>3. /\ CallTypes /\ VolTypes /\ HandleTypes /\ DiskTypes /\ ReaderTypes
      /\ out \in Bases /\ vol_base = out /\ 1 \in Index /\ F \in Names /\ sent \in Nat
  <2>1. CallTypes /\ VolTypes /\ HandleTypes /\ DiskTypes /\ ReaderTypes
    BY DEF IInv, Typed
  <2>2. vol_base = out /\ out \in Bases /\ 1 \in Index
    BY <2>1, <1>2 DEF CallTypes, Splitting, Index, VolumeAssumption
  <2>3. sent \in Nat
    BY <2>1 DEF CallTypes, VolumeAssumption
  <2> QED
    BY <2>1, <2>2, <2>3, <1>o, NamesAre
<1>4. VolTypes' /\ DiskTypes'
  BY <1>1, <1>3 DEF VolTypes, DiskTypes
<1>5. CASE ToCleanup("failed") /\ fh' = fh /\ cursor' = cursor
  <2>1. wpc' = "cleanup" /\ code' = "failed" /\ fh' = fh /\ cursor' = cursor
    BY <1>5 DEF ToCleanup
  <2>2. /\ SetsInv' /\ WrittenInv' /\ PlacedInv' /\ ReaderTypes' /\ ReadersInv'
        /\ UsersHoldTheirSet'
    <3>1. \A h \in Handles : fh'[h] \in {fh[h], NoName}
      BY <2>1
    <3> QED
      BY <1>1, <2>1, <3>1, FailureKeeps
  <2>3. CallTypes' /\ HandleTypes'
    BY <2>1, <1>1, <1>3 DEF CallTypes, HandleTypes, States
  <2>4. OpenInv'
    BY <2>1, <1>1, <1>2 DEF OpenInv
  <2> QED
    BY <2>2, <2>3, <2>4, <1>4 DEF IInv, Typed
<1>6. CASE \E h \in Handles :
             /\ fh[h] = NoName /\ Free(F) /\ fh' = [fh EXCEPT ![h] = F]
             /\ wpc' = "shift" /\ cursor' = 0 /\ code' = code
  <2>1. PICK h \in Handles : /\ Free(F) /\ fh' = [fh EXCEPT ![h] = F]
                             /\ wpc' = "shift" /\ cursor' = 0 /\ code' = code
    BY <1>6
  <2>2. HandleTypes' /\ \A g \in Handles : fh'[g] = IF g = h THEN F ELSE NoName
    BY <2>1, <1>2, <1>3 DEF HandleTypes
  <2>3. CallTypes'
    BY <2>1, <1>1, <1>3 DEF CallTypes, States
  <2>4. SetsInv'
    BY <1>1, SetsSame DEF IInv
  <2>5. ShiftInv'
    <3>1. PartIs(1, sent, TRUE)'
      BY <1>1, <1>2, Zenon DEF PartIs, IsPart, From
    <3>2. F \in DOMAIN disk /\ Len(disk[F]) = sent + 1
      BY <1>2, <1>3, <1>o DEF PartIs, IsPart
    <3>3. Settled' \in DOMAIN disk' /\ Len(disk'[Settled']) = sent' + 1 /\ cursor' <= sent' /\ cursor' = 0
      BY <3>2, <2>1, <1>1, <1>3, <1>o DEF Settled
    <3>4. ~(cursor' > 0)
      BY <3>3
    <3> QED
      BY <3>1, <3>3, <3>4, Zenon DEF ShiftInv
  <2>6. WrittenInv'
    BY <2>1, <2>5, <1>1, <1>2
       DEF WrittenInv, BeforeInv, WritingInv, FinishedInv, DoneInv, CodeInv, Splitting
  <2>7. PlacedInv'
    BY <2>1, <1>1 DEF IInv, PlacedInv, Ours
  <2>8. OpenInv'
    <3>1. \A g \in Handles : fh'[g] = IF g = h THEN Settled' ELSE NoName
      BY <2>2, <1>1, <1>o DEF Settled
    <3> QED
      BY <3>1, <2>1 DEF OpenInv
  <2>9. ReaderTypes' /\ ReadersInv' /\ UsersHoldTheirSet'
    <3>1. \A g \in Handles : fh'[g] \in {fh[g], NoName, F}
      BY <2>2
    <3>2. ~HeldForRead(F) /\ wpc # "idle" /\ rd' = rd /\ runs' = runs
      BY <2>1, <1>1 DEF Free
    <3>3. \A g \in DOMAIN disk : g # F => g \in DOMAIN disk' /\ disk'[g] = disk[g]
      BY <1>1
    <3> QED
      BY <3>1, <3>2, <3>3, ReadersOther
  <2> QED
    BY <2>2, <2>3, <2>4, <2>6, <2>7, <2>8, <2>9, <1>4 DEF IInv, Typed
<1> QED
  BY <1>o, <1>5, <1>6 DEF SettleOpen

\* The handle the shift goes through is the only one that is open.
LEMMA SettleHandleIs ==
    ASSUME OpenInv, wpc = "shift"
    PROVE  /\ SettleHandle \in Handles /\ fh[SettleHandle] = Settled
           /\ \A g \in Handles : g # SettleHandle => fh[g] = NoName
<1>1. PICK h \in Handles : \A g \in Handles : fh[g] = IF g = h THEN Settled ELSE NoName
  BY DEF OpenInv
<1>2. Settled # NoName
  BY NamesDiffer DEF Settled
<1>3. \E g \in Handles : fh[g] = Settled
  BY <1>1
<1>4. SettleHandle \in Handles /\ fh[SettleHandle] = Settled
  BY <1>3, Zenon DEF SettleHandle
<1> QED
  BY <1>1, <1>2, <1>4

\* What the shift has to work on, before it has moved anything and after.
LEMMA ShiftIs ==
    ASSUME VolumeAssumption, IInv, wpc = "shift"
    PROVE  /\ Settled = Part(out, 1) /\ Settled \in DOMAIN disk /\ Settled \in Names
           /\ sent \in 1..MaxStream /\ cursor \in 0..sent /\ Len(disk[Settled]) = sent + 1
           /\ DOMAIN disk[Settled] = 1..(sent + 1)
           /\ \A k \in 1..(sent + 1) :
                /\ k <= cursor => disk[Settled][k] = Byte(runs, k)
                /\ k > cursor /\ k >= 2 => disk[Settled][k] = Byte(runs, k - 1)
<1>1. /\ Settled \in DOMAIN disk /\ Len(disk[Settled]) = sent + 1 /\ cursor <= sent
      /\ cursor = 0 => PartIs(1, sent, TRUE)
      /\ cursor > 0 => \A k \in 1..Len(disk[Settled]) :
            disk[Settled][k] = Byte(runs, IF k <= cursor THEN k ELSE k - 1)
  BY DEF IInv, WrittenInv, ShiftInv
<1>2. sent > 0 /\ Splitting
  BY DEF IInv, WrittenInv, FinishedInv
<1>3. DiskTypes /\ CallTypes /\ VolTypes
  BY DEF IInv, Typed
<1>4. sent \in Nat /\ sent <= MaxStream /\ cursor \in Nat /\ MaxStream \in Nat
  <2>1. est \in 0..MaxStream /\ sent \in 0..est /\ MaxStream \in Nat
    BY <1>3 DEF CallTypes, VolumeAssumption
  <2> QED
    BY <2>1, <1>3 DEF CallTypes
<1>5. sent \in 1..MaxStream /\ cursor \in 0..sent
  BY <1>1, <1>2, <1>4
<1>6. Settled = Part(out, 1) /\ Settled \in Names
  BY <1>1, <1>2, <1>3 DEF Splitting, Settled, DiskTypes
<1>7. DOMAIN disk[Settled] = 1..(sent + 1)
  BY <1>1, <1>3, FileIs, LenProperties
<1>8. ASSUME NEW k \in 1..(sent + 1)
      PROVE  /\ k <= cursor => disk[Settled][k] = Byte(runs, k)
             /\ k > cursor /\ k >= 2 => disk[Settled][k] = Byte(runs, k - 1)
  <2>1. CASE cursor > 0
    <3>1. disk[Settled][k] = Byte(runs, IF k <= cursor THEN k ELSE k - 1)
      BY <2>1, <1>1
    <3>2. k > cursor => ~(k <= cursor)
      BY <1>4
    <3> QED
      BY <3>1, <3>2
  <2>2. CASE cursor = 0
    <3>a. vol_limit \in Nat
      BY <1>3 DEF VolTypes, VolumeAssumption
    <3>1. PICK off \in Nat : off = Offset(1, vol_limit) /\ off = 0
      BY <3>a, Offsets
    <3>2. From(Settled, 2, runs, off)
      BY <2>2, <3>1, <1>1, <1>6, Zenon DEF PartIs, IsPart
    <3>3. \A j \in 2..(sent + 1) : disk[Settled][j] = Byte(runs, 0 + (j - 2) + 1)
      BY <3>1, <3>2, <1>1 DEF From
    <3>4. k >= 2 => k \in 2..(sent + 1) /\ 0 + (k - 2) + 1 = k - 1
      BY <1>4
    <3>5. ~(k <= cursor)
      BY <2>2
    <3> QED
      BY <3>3, <3>4, <3>5
  <2> QED
    BY <2>1, <2>2, <1>4
<1> QED
  BY <1>1, <1>5, <1>6, <1>7, <1>8

LEMMA SettleShiftKeeps ==
    ASSUME VolumeAssumption, IInv, SettleShift
    PROVE  IInv'
<1>o. PICK F, r, q, c : F = Settled /\ r = runs /\ q = sent /\ c = cursor
  OBVIOUS
<1>1. /\ wpc = "shift" /\ c + 1 < Len(disk[F]) /\ whole' = whole /\ out' = out /\ est' = est
      /\ named' = named /\ runs' = r /\ sent' = q /\ todo' = todo /\ hloc' = hloc
      /\ created' = created /\ held' = held /\ rd' = rd
      /\ vol_split' = vol_split /\ vol_base' = vol_base /\ vol_part' = vol_part
      /\ vol_limit' = vol_limit /\ vol_fill' = vol_fill /\ vol_hout' = vol_hout
  BY <1>o DEF SettleShift, callVars, ownVars, globalVars
<1>2. /\ runs \in DOMAIN whole /\ whole[runs] = sent /\ sent > 0 /\ Splitting /\ vol_part = 1
      /\ code # "ok" /\ runs >= 1
  BY <1>1 DEF IInv, WrittenInv, FinishedInv, CodeInv
<1>3. /\ F = Part(out, 1) /\ F \in DOMAIN disk /\ F \in Names
      /\ q \in 1..MaxStream /\ c \in 0..q /\ Len(disk[F]) = q + 1
      /\ DOMAIN disk[F] = 1..(q + 1)
      /\ \A k \in 1..(q + 1) :
           /\ k <= c => disk[F][k] = Byte(r, k)
           /\ k > c /\ k >= 2 => disk[F][k] = Byte(r, k - 1)
  BY <1>o, <1>1, ShiftIs
<1>4. /\ CallTypes /\ VolTypes /\ HandleTypes /\ DiskTypes /\ ReaderTypes
      /\ r \in 1..r /\ r \in Nat /\ MaxStream \in Nat
  BY <1>o, <1>2 DEF IInv, Typed, DiskTypes, VolumeAssumption
<1>5. VolTypes'
  BY <1>1, <1>4 DEF VolTypes
<1>6. CASE ToCleanup("failed") /\ fh' = [fh EXCEPT ![SettleHandle] = NoName]
           /\ disk' = disk /\ cursor' = cursor
  <2>1. wpc' = "cleanup" /\ code' = "failed" /\ disk' = disk /\ cursor' = cursor
    BY <1>6 DEF ToCleanup
  <2>2. HandleTypes' /\ \A h \in Handles : fh'[h] = NoName
    BY <1>1, <1>4, <1>6, SettleHandleIs DEF IInv, HandleTypes
  <2>3. /\ SetsInv' /\ WrittenInv' /\ PlacedInv' /\ ReaderTypes' /\ ReadersInv'
        /\ UsersHoldTheirSet'
    <3>1. \A h \in Handles : fh'[h] \in {fh[h], NoName}
      BY <2>2
    <3> QED
      BY <1>1, <1>o, <2>1, <3>1, FailureKeeps
  <2>4. CallTypes' /\ DiskTypes'
    BY <2>1, <1>1, <1>o, <1>4 DEF CallTypes, DiskTypes, States
  <2>5. OpenInv'
    BY <2>1, <2>2 DEF OpenInv
  <2> QED
    BY <2>2, <2>3, <2>4, <2>5, <1>5 DEF IInv, Typed
<1>7. CASE LET n == Least(ShiftChunk, Len(disk[Settled]) - 1 - cursor) IN
           /\ disk' = [disk EXCEPT ![Settled] =
                [k \in DOMAIN @ |-> IF k \in (cursor + 1)..(cursor + n) THEN @[k + 1]
                                                                       ELSE @[k]]]
           /\ cursor' = cursor + n /\ UNCHANGED <<wpc, code, fh>>
  <2>1. PICK n : n = Least(ShiftChunk, Len(disk[F]) - 1 - c)
    OBVIOUS
  <2>2. n \in Nat \ {0} /\ c + n <= q
    <3>1. Len(disk[F]) - 1 - c \in Nat \ {0} /\ Len(disk[F]) - 1 - c = q - c
      BY <1>1, <1>3, <1>4
    <3>2. ShiftChunk \in Nat \ {0}
      BY DEF VolumeAssumption
    <3> QED
      BY <3>1, <3>2, <2>1, <1>3, <1>4 DEF Least
  <2> DEFINE d == [k \in 1..(q + 1) |-> IF k \in (c + 1)..(c + n) THEN disk[F][k + 1] ELSE disk[F][k]]
  <2>3. disk' = [disk EXCEPT ![F] = d] /\ cursor' = c + n /\ wpc' = wpc /\ code' = code /\ fh' = fh
    BY <1>7, <1>o, <2>1, <1>3
  <2>4. ASSUME NEW k \in 1..(q + 1)
        PROVE  d[k] = Byte(r, IF k <= c + n THEN k ELSE k - 1)
    <3>1. CASE k <= c
      BY <3>1, <1>3, <2>2
    <3>2. CASE k \in (c + 1)..(c + n)
      <4>1. k + 1 \in 1..(q + 1) /\ k + 1 > c /\ k + 1 >= 2 /\ (k + 1) - 1 = k /\ k <= c + n
        BY <3>2, <1>3, <2>2
      <4>2. disk[F][k + 1] = Byte(r, k)
        BY <4>1, <1>3
      <4> QED
        BY <3>2, <4>1, <4>2
    <3>3. CASE k > c + n
      <4>1. k > c /\ k >= 2 /\ ~(k <= c + n) /\ k \notin (c + 1)..(c + n)
        BY <3>3, <1>3, <2>2
      <4>2. disk[F][k] = Byte(r, k - 1)
        BY <4>1, <1>3
      <4> QED
        BY <4>1, <4>2
    <3> QED
      BY <3>1, <3>2, <3>3, <1>3, <2>2
  <2>5. \A k \in 1..(q + 1) : d[k] \in CellsTo(r)
    <3> SUFFICES ASSUME NEW k \in 1..(q + 1)
                 PROVE  d[k] \in CellsTo(r)
      OBVIOUS
    <3>1. PICK j : j = IF k <= c + n THEN k ELSE k - 1
      OBVIOUS
    <3>2. j \in 1..MaxStream
      BY <3>1, <1>3, <1>4, <2>2
    <3>3. d[k] = Byte(r, j)
      BY <3>1, <2>4
    <3> QED
      BY <3>2, <3>3, <1>4, CellsAre
  <2>6. d \in [1..(q + 1) -> CellsTo(r)]
    BY <2>5
  <2> HIDE DEF d
  <2>7. d \in Seq(CellsTo(r)) /\ Len(d) = q + 1
    <3>1. q + 1 \in Nat
      BY <1>3
    <3>2. d \in Seq(CellsTo(r))
      BY <2>6, <3>1, SeqDef
    <3>3. DOMAIN d = 1..(q + 1)
      BY <2>6
    <3> QED
      BY <3>1, <3>2, <3>3, LenProperties
  <2>8. /\ DOMAIN disk' = DOMAIN disk /\ disk'[F] = d
        /\ \A g \in DOMAIN disk : g # F => g \in DOMAIN disk' /\ disk'[g] = disk[g]
        /\ \A g \in DOMAIN disk' : g # F => g \in DOMAIN disk /\ disk'[g] = disk[g]
    BY <2>3, <1>3, <1>4 DEF DiskTypes
  <2>9. DiskTypes'
    BY <2>3, <2>7, <1>1, <1>4, <1>o DEF DiskTypes
  <2>10. CallTypes' /\ HandleTypes'
    <3>1. cursor' \in Nat
      BY <2>2, <2>3, <1>3
    <3> QED
      BY <3>1, <2>3, <1>1, <1>4, <1>o DEF CallTypes, HandleTypes
  <2>11. \A s : ~HasHdr(F, s)'
    <3>1. 1 \in 1..(q + 1) /\ 1 <= c + n
      BY <1>3, <2>2
    <3>2. disk'[F][1] = Byte(r, 1)
      BY <3>1, <2>4, <2>8
    <3>3. ~IsHdr(disk'[F][1])
      BY <3>2, HdrIs
    <3> QED
      BY <3>3 DEF HasHdr
  <2>12. SetsInv'
    BY <2>8, <2>11, <1>1, <1>o, SetsButOne DEF IInv
  <2>13. ShiftInv'
    <3>1. Settled' = F
      BY <1>1, <1>o DEF Settled
    <3>2. F \in DOMAIN disk' /\ Len(disk'[F]) = q + 1 /\ cursor' <= q /\ cursor' = c + n /\ cursor' # 0
      BY <2>2, <2>3, <2>7, <2>8, <1>3
    <3>3. \A k \in 1..Len(disk'[F]) : disk'[F][k] = Byte(r, IF k <= c + n THEN k ELSE k - 1)
      BY <2>4, <2>8, <3>2
    <3>4. sent' = q /\ runs' = r
      BY <1>1
    <3> QED
      BY <3>1, <3>2, <3>3, <3>4 DEF ShiftInv
  <2>14. WrittenInv'
    BY <2>3, <2>13, <1>1, <1>2, <1>o
       DEF WrittenInv, BeforeInv, WritingInv, FinishedInv, DoneInv, CodeInv, Splitting
  <2>15. PlacedInv'
    <3> SUFFICES ASSUME NEW f \in DOMAIN disk', Ours(f)'
                 PROVE  f = Part(out, 1)
      BY <2>3, <1>1 DEF PlacedInv
    <3>1. CASE f # F
      <4>1. f \in DOMAIN disk /\ Ours(f)
        <5>1. runs' = runs /\ \A g \in DOMAIN disk' : g # F => g \in DOMAIN disk /\ disk'[g] = disk[g]
          BY <2>8, <1>1, <1>o
        <5> QED
          BY <3>1, <5>1, OursKept
      <4> QED
        BY <4>1, <1>1 DEF IInv, PlacedInv
    <3> QED
      BY <3>1, <1>3
  <2>16. OpenInv'
    BY <2>3, <1>1 DEF IInv, OpenInv, Settled
  <2>17. ReaderTypes' /\ ReadersInv' /\ UsersHoldTheirSet'
    <3>1. ~HeldForRead(F)
      BY <1>o, <1>1, SettleHandleIs, OpenNotHeld DEF IInv, Typed
    <3>2. \A h \in Handles : fh'[h] \in {fh[h], NoName, F}
      BY <2>3
    <3>3. wpc # "idle" /\ rd' = rd /\ runs' = runs
      BY <1>1, <1>o
    <3> QED
      BY <3>1, <3>2, <3>3, <2>8, ReadersOther
  <2> QED
    BY <2>9, <2>10, <2>12, <2>14, <2>15, <2>16, <2>17, <1>5 DEF IInv, Typed
<1> QED
  BY <1>6, <1>7 DEF SettleShift

LEMMA SettleTruncateKeeps ==
    ASSUME VolumeAssumption, IInv, SettleTruncate
    PROVE  IInv'
<1>o. PICK F, r, q : F = Settled /\ r = runs /\ q = sent
  OBVIOUS
<1>1. /\ wpc = "shift" /\ cursor + 1 = Len(disk[F]) /\ whole' = whole /\ out' = out /\ est' = est
      /\ named' = named /\ runs' = r /\ sent' = q /\ todo' = todo /\ hloc' = hloc
      /\ created' = created /\ held' = held /\ rd' = rd /\ cursor' = cursor
      /\ vol_split' = vol_split /\ vol_base' = vol_base /\ vol_part' = vol_part
      /\ vol_limit' = vol_limit /\ vol_fill' = vol_fill /\ vol_hout' = vol_hout
      /\ fh' = [fh EXCEPT ![SettleHandle] = NoName]
  BY <1>o DEF SettleTruncate, callVars, ownVars, globalVars
<1>2. /\ runs \in DOMAIN whole /\ whole[runs] = sent /\ sent > 0 /\ Splitting /\ vol_part = 1
      /\ code # "ok" /\ runs >= 1
  BY <1>1 DEF IInv, WrittenInv, FinishedInv, CodeInv
<1>3. /\ F = Part(out, 1) /\ F \in DOMAIN disk /\ F \in Names
      /\ q \in 1..MaxStream /\ cursor = q /\ Len(disk[F]) = q + 1
      /\ \A k \in 1..q : disk[F][k] = Byte(r, k)
  <2>1. /\ F = Part(out, 1) /\ F \in DOMAIN disk /\ F \in Names
        /\ q \in 1..MaxStream /\ cursor \in 0..q /\ Len(disk[F]) = q + 1
        /\ \A k \in 1..(q + 1) : k <= cursor => disk[F][k] = Byte(r, k)
    BY <1>o, <1>1, ShiftIs
  <2>2. cursor = q
    BY <2>1, <1>1
  <2>3. \A k \in 1..q : k \in 1..(q + 1) /\ k <= cursor
    BY <2>1, <2>2
  <2> QED
    BY <2>1, <2>2, <2>3
<1>4. /\ CallTypes /\ VolTypes /\ HandleTypes /\ DiskTypes /\ ReaderTypes
      /\ r \in 1..r /\ r \in Nat /\ MaxStream \in Nat
  BY <1>o, <1>2 DEF IInv, Typed, DiskTypes, VolumeAssumption
<1>5. VolTypes'
  BY <1>1, <1>4 DEF VolTypes
<1>6. HandleTypes' /\ \A h \in Handles : fh'[h] = NoName
  BY <1>1, <1>4, SettleHandleIs DEF IInv, HandleTypes
<1>7. CASE ToCleanup("failed") /\ disk' = disk
  <2>1. wpc' = "cleanup" /\ code' = "failed" /\ disk' = disk
    BY <1>7 DEF ToCleanup
  <2>2. /\ SetsInv' /\ WrittenInv' /\ PlacedInv' /\ ReaderTypes' /\ ReadersInv'
        /\ UsersHoldTheirSet'
    <3>1. \A h \in Handles : fh'[h] \in {fh[h], NoName}
      BY <1>6
    <3> QED
      BY <1>1, <1>o, <2>1, <3>1, FailureKeeps
  <2>3. CallTypes' /\ DiskTypes'
    BY <2>1, <1>1, <1>o, <1>4 DEF CallTypes, DiskTypes, States
  <2>4. OpenInv'
    BY <2>1, <1>6 DEF OpenInv
  <2> QED
    BY <2>2, <2>3, <2>4, <1>5, <1>6 DEF IInv, Typed
<1>8. CASE disk' = [disk EXCEPT ![F] = Truncated(@)] /\ wpc' = "promote" /\ code' = code
  <2> DEFINE a == disk[F]
             d == SubSeq(a, 1, q)
  <2>1. disk' = [disk EXCEPT ![F] = d]
    BY <1>3, <1>8 DEF Truncated
  <2>2. a \in Seq(CellsTo(r)) /\ Len(a) = q + 1 /\ q \in Nat /\ \A k \in 1..q : a[k] = Byte(r, k)
    BY <1>3, <1>4, <1>o, FileIs
  <2> HIDE DEF a
  <2>3. d \in Seq(CellsTo(r)) /\ Len(d) = q /\ \A k \in 1..q : d[k] = Byte(r, k)
    <3>1. 1 \in 1..(Len(a) + 1) /\ q \in 0..Len(a) /\ q - 1 + 1 = q
      BY <2>2
    <3>2. d \in Seq(CellsTo(r)) /\ Len(d) = q /\ \A k \in 1..q : d[k] = a[1 + k - 1]
      BY <2>2, <3>1, SubSeqProperties
    <3>3. \A k \in 1..q : 1 + k - 1 = k
      BY <2>2
    <3> QED
      BY <2>2, <3>2, <3>3
  <2> HIDE DEF d
  <2>4. /\ DOMAIN disk' = DOMAIN disk /\ disk'[F] = d
        /\ \A g \in DOMAIN disk : g # F => g \in DOMAIN disk' /\ disk'[g] = disk[g]
        /\ \A g \in DOMAIN disk' : g # F => g \in DOMAIN disk /\ disk'[g] = disk[g]
    BY <2>1, <1>3, <1>4 DEF DiskTypes
  <2>5. DiskTypes'
    BY <2>1, <2>3, <1>1, <1>4, <1>o DEF DiskTypes
  <2>6. CallTypes'
    BY <1>1, <1>4, <1>8, <1>o DEF CallTypes, States
  <2>7. \A s : ~HasHdr(F, s)'
    <3>1. 1 \in 1..q
      BY <1>3
    <3>2. disk'[F][1] = Byte(r, 1)
      BY <3>1, <2>3, <2>4
    <3>3. ~IsHdr(disk'[F][1])
      BY <3>2, HdrIs
    <3> QED
      BY <3>3 DEF HasHdr
  <2>8. SetsInv'
    BY <2>4, <2>7, <1>1, <1>o, SetsButOne DEF IInv
  <2>9. Holding(Settled, sent)'
    <3>1. F \in DOMAIN disk' /\ Len(disk'[F]) = q /\ \A k \in 1..q : disk'[F][k] = Byte(r, k)
      BY <2>3, <2>4, <1>3
    <3>2. \A k \in 1..q : 0 + (k - 1) + 1 = k
      BY <2>2
    <3>3. From(F, 1, r, 0)'
      BY <3>1, <3>2 DEF From
    <3>4. Settled' = F /\ sent' = q /\ runs' = r
      BY <1>1, <1>o DEF Settled
    <3> QED
      BY <3>1, <3>3, <3>4 DEF Holding
  <2>10. WrittenInv'
    BY <2>9, <1>1, <1>2, <1>8, <1>o
       DEF WrittenInv, BeforeInv, WritingInv, FinishedInv, ShiftInv, DoneInv, CodeInv, Splitting
  <2>11. PlacedInv'
    <3> SUFFICES ASSUME NEW f \in DOMAIN disk', Ours(f)'
                 PROVE  f = Part(out, 1)
      BY <1>1, <1>8 DEF PlacedInv
    <3>1. CASE f # F
      <4>1. f \in DOMAIN disk /\ Ours(f)
        <5>1. runs' = runs /\ \A g \in DOMAIN disk' : g # F => g \in DOMAIN disk /\ disk'[g] = disk[g]
          BY <2>4, <1>1, <1>o
        <5> QED
          BY <3>1, <5>1, OursKept
      <4> QED
        BY <4>1, <1>1 DEF IInv, PlacedInv
    <3> QED
      BY <3>1, <1>3
  <2>12. OpenInv'
    BY <1>6, <1>8 DEF OpenInv
  <2>13. ReaderTypes' /\ ReadersInv' /\ UsersHoldTheirSet'
    <3>1. ~HeldForRead(F)
      BY <1>o, <1>1, SettleHandleIs, OpenNotHeld DEF IInv, Typed
    <3>2. \A h \in Handles : fh'[h] \in {fh[h], NoName, F}
      BY <1>6
    <3>3. wpc # "idle" /\ rd' = rd /\ runs' = runs
      BY <1>1, <1>o
    <3> QED
      BY <3>1, <3>2, <3>3, <2>4, ReadersOther
  <2> QED
    BY <2>5, <2>6, <2>8, <2>10, <2>11, <2>12, <2>13, <1>5, <1>6 DEF IInv, Typed
<1> QED
  BY <1>7, <1>8, <1>o DEF SettleTruncate

\* The rename, when it goes through: the container under the plain name, whole.
LEMMA Promoted ==
    ASSUME VolumeAssumption, IInv, wpc \in {"rename", "promote"}, NEW F,
           F = IF wpc = "rename" THEN Temp(out) ELSE Settled, disk' = Renamed(F, Plain(out))
    PROVE  /\ F \in DOMAIN disk /\ Plain(out) \in Names /\ F # Plain(out)
           /\ DOMAIN disk' = (DOMAIN disk \ {F}) \cup {Plain(out)}
           /\ \A g \in DOMAIN disk' : g # Plain(out) => g \in DOMAIN disk /\ disk'[g] = disk[g]
           /\ \A g \in DOMAIN disk : g # F /\ g # Plain(out) => g \in DOMAIN disk' /\ disk'[g] = disk[g]
           /\ disk'[Plain(out)] = disk[F] /\ Holding(F, sent)
           /\ disk'[Plain(out)] = Container(runs)
<1>1. /\ runs \in DOMAIN whole /\ whole[runs] = sent /\ Holding(F, sent)
  BY DEF IInv, WrittenInv, FinishedInv
<1>2. DiskTypes /\ CallTypes /\ sent \in Nat /\ out \in Bases
  BY DEF IInv, Typed, CallTypes, VolumeAssumption
<1>3. F \in DOMAIN disk /\ disk[F] = Container(runs)
  BY <1>1, <1>2, HeldWhole DEF Container
<1>4. Plain(out) \in Names /\ F # Plain(out)
  BY <1>2, NamesAre, NamesDiffer DEF Settled
<1>5. /\ DOMAIN disk' = (DOMAIN disk \ {F}) \cup {Plain(out)}
      /\ \A h \in DOMAIN disk' : disk'[h] = IF h = Plain(out) THEN disk[F] ELSE disk[h]
  BY DEF Renamed
<1> QED
  BY <1>1, <1>3, <1>4, <1>5

LEMMA PromoteKeeps ==
    ASSUME VolumeAssumption, IInv, Promote
    PROVE  IInv'
<1>o. PICK F, P, r, q : /\ F = IF wpc = "rename" THEN Temp(out) ELSE Settled
                        /\ P = Plain(out) /\ r = runs /\ q = sent
  OBVIOUS
<1>1. /\ wpc \in {"rename", "promote"} /\ whole' = whole /\ out' = out /\ est' = est
      /\ named' = named /\ runs' = r /\ sent' = q /\ todo' = todo /\ hloc' = hloc
      /\ created' = created /\ held' = held /\ rd' = rd /\ cursor' = cursor
      /\ vol_split' = vol_split /\ vol_base' = vol_base /\ vol_part' = vol_part
      /\ vol_limit' = vol_limit /\ vol_fill' = vol_fill /\ vol_hout' = vol_hout /\ fh' = fh
  BY <1>o DEF Promote, callVars, ownVars, globalVars
<1>2. /\ runs \in DOMAIN whole /\ whole[runs] = sent /\ sent > 0
      /\ code # "ok" /\ runs >= 1 /\ \A h \in Handles : fh[h] = NoName
  BY <1>1 DEF IInv, WrittenInv, FinishedInv, CodeInv, OpenInv
<1>4. /\ CallTypes /\ VolTypes /\ HandleTypes /\ DiskTypes /\ ReaderTypes
      /\ r \in 1..r /\ r \in Nat /\ MaxStream \in Nat
  BY <1>o, <1>2 DEF IInv, Typed, DiskTypes, VolumeAssumption
<1>5. VolTypes' /\ HandleTypes'
  BY <1>1, <1>4 DEF VolTypes, HandleTypes
<1>6. CASE ToCleanup("failed") /\ disk' = disk
  <2>1. wpc' = "cleanup" /\ code' = "failed" /\ disk' = disk
    BY <1>6 DEF ToCleanup
  <2>2. /\ SetsInv' /\ WrittenInv' /\ PlacedInv' /\ ReaderTypes' /\ ReadersInv'
        /\ UsersHoldTheirSet'
    <3>1. \A h \in Handles : fh'[h] \in {fh[h], NoName}
      BY <1>1
    <3> QED
      BY <1>1, <1>o, <2>1, <3>1, FailureKeeps
  <2>3. CallTypes' /\ DiskTypes'
    BY <2>1, <1>1, <1>o, <1>4 DEF CallTypes, DiskTypes, States
  <2>4. OpenInv'
    BY <2>1, <1>1, <1>2 DEF OpenInv
  <2> QED
    BY <2>2, <2>3, <2>4, <1>5 DEF IInv, Typed
<1>7. CASE /\ Free(F) /\ Free(P) /\ disk' = Renamed(F, P) /\ wpc' = "done" /\ code' = "ok"
  <2>1. /\ F \in DOMAIN disk /\ P \in Names /\ F # P
        /\ DOMAIN disk' = (DOMAIN disk \ {F}) \cup {P}
        /\ \A g \in DOMAIN disk' : g # P => g \in DOMAIN disk /\ disk'[g] = disk[g]
        /\ \A g \in DOMAIN disk : g # F /\ g # P => g \in DOMAIN disk' /\ disk'[g] = disk[g]
        /\ disk'[P] = disk[F] /\ Holding(F, q)
    BY <1>o, <1>1, <1>7, Promoted
  <2>2. disk[F] \in Seq(CellsTo(runs))
    BY <2>1, <1>4, FileIs
  <2>3. DiskTypes'
    <3>1. DOMAIN disk' \subseteq Names
      BY <2>1, <1>4 DEF DiskTypes
    <3>2. \A g \in DOMAIN disk' : disk'[g] \in Seq(CellsTo(runs))
      BY <2>1, <2>2, <1>4, FileIs
    <3>3. disk' = [g \in DOMAIN disk' |-> disk'[g]]
      BY <1>7 DEF Renamed
    <3>4. disk' \in [DOMAIN disk' -> Seq(CellsTo(runs))]
      BY <3>2, <3>3
    <3> QED
      BY <3>1, <3>4, <1>1, <1>4, <1>o DEF DiskTypes
  <2>4. CallTypes'
    BY <1>1, <1>4, <1>7, <1>o DEF CallTypes, States
  <2>5. SetsInv'
    <3>1. \A b, i : P # Part(b, i)
      BY <1>o, NamesDiffer
    <3> QED
      BY <3>1, <2>1, <1>1, <1>o, SetsButOne DEF IInv
  <2>6. Holding(P, q)'
    BY <2>1, <1>1, <1>o DEF Holding, From
  <2>7. DoneInv'
    <3>1. whole'[runs'] = q /\ Plain(out') = P /\ runs' \in DOMAIN whole'
      BY <1>1, <1>2, <1>o
    <3>2. Holding(Plain(out), whole[runs])'
      BY <2>6, <3>1 DEF Holding
    <3> QED
      BY <3>1, <3>2, Zenon DEF DoneInv
  <2>8. WrittenInv'
    BY <2>7, <1>7 DEF WrittenInv, BeforeInv, WritingInv, FinishedInv, ShiftInv, CodeInv
  <2>9. PlacedInv'
    BY <1>7 DEF PlacedInv
  <2>10. OpenInv'
    BY <1>1, <1>2, <1>7 DEF OpenInv
  <2>11. ReaderTypes' /\ ReadersInv' /\ UsersHoldTheirSet'
    <3>1. ASSUME NEW f, HeldForRead(f)
          PROVE  f \in DOMAIN disk' /\ disk'[f] = disk[f] /\ ~OpenForWrite(f)'
      <4>1. f \in DOMAIN disk /\ ~OpenForWrite(f)
        BY <3>1, HeldAre DEF IInv, Typed
      <4>2. f # F /\ f # P
        BY <3>1, <1>7 DEF Free
      <4> QED
        BY <4>1, <4>2, <2>1, <1>1 DEF OpenForWrite
    <3>2. rd[App].st = "closed" /\ rd' = rd /\ runs \in Nat /\ runs' \in Nat /\ runs <= runs'
      BY <1>1, <1>4, <1>o, AppClosed DEF IInv
    <3> QED
      BY <3>1, <3>2, <1>4, ReadersKept DEF IInv
  <2> QED
    BY <2>3, <2>4, <2>5, <2>8, <2>9, <2>10, <2>11, <1>5 DEF IInv, Typed
<1> QED
  BY <1>6, <1>7, <1>o DEF Promote

\* Deleting one file.
LEMMA WithoutIs ==
    ASSUME DiskTypes, NEW F, disk' = Without(F), runs' = runs, whole' = whole
    PROVE  /\ DiskTypes' /\ F \notin DOMAIN disk'
           /\ \A g \in DOMAIN disk : g # F => g \in DOMAIN disk' /\ disk'[g] = disk[g]
           /\ \A g \in DOMAIN disk' : g # F => g \in DOMAIN disk /\ disk'[g] = disk[g]
BY DEF DiskTypes, Without

LEMMA CleanupKeeps ==
    ASSUME VolumeAssumption, IInv, Cleanup
    PROVE  IInv'
<1>o. PICK F : F = Temp(out)
  OBVIOUS
<1>1. /\ wpc = "cleanup" /\ whole' = whole /\ out' = out /\ est' = est
      /\ named' = named /\ runs' = runs /\ sent' = sent /\ todo' = todo /\ hloc' = hloc
      /\ created' = created /\ held' = held /\ rd' = rd /\ code' = code
      /\ vol_split' = vol_split /\ vol_base' = vol_base /\ vol_part' = vol_part
      /\ vol_limit' = vol_limit /\ vol_fill' = vol_fill /\ vol_hout' = vol_hout
      /\ fh' = IF hloc # Invalid THEN [fh EXCEPT ![hloc] = NoName] ELSE fh
      /\ vol_split => wpc' = "discard" /\ cursor' = 1
      /\ ~vol_split => wpc' = "done" /\ cursor' = cursor
  BY DEF Cleanup, callVars, ownVars, globalVars
<1>2. \/ named /\ (\A h \in Handles : fh'[h] # F) /\ disk' = Without(F)
      \/ ~(named /\ \A h \in Handles : fh'[h] # F) /\ disk' = disk
  BY <1>o DEF Cleanup
<1>3. /\ CallTypes /\ VolTypes /\ HandleTypes /\ DiskTypes /\ ReaderTypes
      /\ code # "ok" /\ runs >= 1
  BY <1>1 DEF IInv, Typed, WrittenInv, CodeInv
<1>4. HandleTypes' /\ \A h \in Handles : fh'[h] = IF h = hloc THEN NoName ELSE fh[h]
  <2>1. hloc \in Handles \cup {Invalid} /\ Invalid \notin Handles
    BY <1>3 DEF VolTypes, VolumeAssumption
  <2> QED
    BY <2>1, <1>1, <1>3 DEF HandleTypes
<1>5. ~vol_split => \A h \in Handles : fh'[h] = NoName
  BY <1>1, <1>4 DEF IInv, OpenInv
<1>6. /\ DiskTypes'
      /\ \A g \in DOMAIN disk : g # F => g \in DOMAIN disk' /\ disk'[g] = disk[g]
      /\ \A g \in DOMAIN disk' : g \in DOMAIN disk /\ disk'[g] = disk[g]
      /\ ~vol_split /\ named => F \notin DOMAIN disk'
  <2>1. CASE named /\ (\A h \in Handles : fh'[h] # F) /\ disk' = Without(F)
    <3>1. /\ DiskTypes' /\ F \notin DOMAIN disk'
          /\ \A g \in DOMAIN disk : g # F => g \in DOMAIN disk' /\ disk'[g] = disk[g]
          /\ \A g \in DOMAIN disk' : g # F => g \in DOMAIN disk /\ disk'[g] = disk[g]
      BY <2>1, <1>1, <1>3, WithoutIs
    <3>2. \A g \in DOMAIN disk' : g # F
      BY <3>1
    <3> QED
      BY <3>1, <3>2
  <2>2. CASE ~(named /\ \A h \in Handles : fh'[h] # F) /\ disk' = disk
    <3>1. F # NoName
      BY <1>o, NamesDiffer
    <3>2. ~(~vol_split /\ named)
      BY <3>1, <2>2, <1>5
    <3>3. DiskTypes'
      BY <2>2, <1>1, <1>3 DEF DiskTypes
    <3> QED
      BY <2>2, <3>2, <3>3
  <2> QED
    BY <2>1, <2>2, <1>2
<1>7. CallTypes' /\ VolTypes'
  <2>1. wpc' \in States /\ cursor' \in Nat
    BY <1>1, <1>3 DEF CallTypes, States
  <2>2. CallTypes'
    BY <2>1, <1>1, <1>3 DEF CallTypes
  <2> QED
    BY <2>2, <1>1, <1>3 DEF VolTypes
<1>8. SetsInv'
  <2>1. \A b \in Bases, i \in Index, s \in 1..runs : HasHdr(Part(b, i), s)' =>
            Part(b, i) \in DOMAIN disk /\ disk'[Part(b, i)] = disk[Part(b, i)]
    BY <1>6 DEF HasHdr
  <2> QED
    BY <2>1, <1>1, SetsKept DEF IInv
<1>9. WrittenInv'
  BY <1>1, <1>3, WrittenElsewhere
<1>10. PlacedInv'
  <2> SUFFICES ASSUME NEW f \in DOMAIN disk', Ours(f)'
               PROVE  vol_split /\ f \in Mine(1)
    BY <1>1 DEF PlacedInv, Mine
  <2>1. f \in DOMAIN disk /\ Ours(f)
    BY <1>1, <1>6 DEF Ours
  <2>2. IF vol_split THEN f \in Mine(1) ELSE f = F /\ named
    BY <2>1, <1>o, <1>1 DEF IInv, PlacedInv
  <2> QED
    BY <2>2, <1>6
<1>11. OpenInv'
  BY <1>1, <1>4, <1>5 DEF IInv, OpenInv
<1>12. ReaderTypes' /\ ReadersInv' /\ UsersHoldTheirSet'
  <2>1. ~HeldForRead(F)
    BY <1>o, HeldAre, NamesDiffer DEF IInv, Typed
  <2>2. \A h \in Handles : fh'[h] \in {fh[h], NoName, F}
    BY <1>4
  <2>3. wpc # "idle" /\ rd' = rd /\ runs' = runs
    BY <1>1
  <2> QED
    BY <2>1, <2>2, <2>3, <1>6, ReadersOther
<1> QED
  BY <1>4, <1>6, <1>7, <1>8, <1>9, <1>10, <1>11, <1>12 DEF IInv, Typed

LEMMA DiscardPartKeeps ==
    ASSUME VolumeAssumption, IInv, DiscardPart
    PROVE  IInv'
<1>o. PICK F, c : F = Part(vol_base, cursor) /\ c = cursor
  OBVIOUS
<1>1. /\ wpc = "discard" /\ vol_hout = Invalid /\ c <= vol_part
      /\ whole' = whole /\ out' = out /\ est' = est
      /\ named' = named /\ runs' = runs /\ sent' = sent /\ todo' = todo /\ hloc' = hloc
      /\ created' = created /\ rd' = rd /\ code' = code /\ wpc' = wpc
      /\ vol_split' = vol_split /\ vol_base' = vol_base /\ vol_part' = vol_part
      /\ vol_limit' = vol_limit /\ vol_fill' = vol_fill /\ vol_hout' = vol_hout
      /\ fh' = fh /\ cursor' = c + 1
      /\ disk' = IF Free(F) THEN Without(F) ELSE disk
      /\ held' = IF HeldForRead(F) THEN held \cup {F} ELSE held
  BY <1>o DEF DiscardPart, callVars, globalVars, ToDiscard
<1>2. /\ CallTypes /\ VolTypes /\ HandleTypes /\ DiskTypes /\ ReaderTypes
      /\ code # "ok" /\ runs >= 1 /\ c \in Nat /\ vol_part \in Nat
      /\ \A h \in Handles : fh[h] = NoName
  <2>1. CallTypes /\ VolTypes /\ HandleTypes /\ DiskTypes /\ ReaderTypes /\ OpenInv
        /\ code # "ok" /\ runs >= 1
    BY <1>1 DEF IInv, Typed, WrittenInv, CodeInv
  <2>2. Invalid \notin Handles
    BY DEF VolumeAssumption
  <2>3. \A h \in Handles : fh[h] = NoName
    BY <2>1, <2>2, <1>1 DEF OpenInv
  <2>4. c \in Nat /\ vol_part \in Nat
    BY <2>1, <1>o DEF CallTypes, VolTypes, VolumeAssumption
  <2> QED
    BY <2>1, <2>3, <2>4
<1>3. ~HeldForRead(F) => Free(F)
  <2>1. F # NoName
    BY <1>o, NamesDiffer
  <2> QED
    BY <2>1, <1>2 DEF Free, OpenForWrite
<1>4. /\ DiskTypes'
      /\ \A g \in DOMAIN disk : g # F => g \in DOMAIN disk' /\ disk'[g] = disk[g]
      /\ \A g \in DOMAIN disk' : g \in DOMAIN disk /\ disk'[g] = disk[g]
      /\ Free(F) => F \notin DOMAIN disk'
      /\ ~Free(F) => disk' = disk
  <2>1. CASE Free(F)
    <3>1. /\ DiskTypes' /\ F \notin DOMAIN disk'
          /\ \A g \in DOMAIN disk : g # F => g \in DOMAIN disk' /\ disk'[g] = disk[g]
          /\ \A g \in DOMAIN disk' : g # F => g \in DOMAIN disk /\ disk'[g] = disk[g]
      BY <2>1, <1>1, <1>2, WithoutIs
    <3>2. \A g \in DOMAIN disk' : g # F
      BY <3>1
    <3> QED
      BY <2>1, <3>1, <3>2
  <2>2. CASE ~Free(F)
    <3>1. disk' = disk
      BY <2>2, <1>1
    <3>2. DiskTypes'
      BY <3>1, <1>1, <1>2 DEF DiskTypes
    <3> QED
      BY <2>2, <3>1, <3>2
  <2> QED
    BY <2>1, <2>2
<1>5. CallTypes' /\ VolTypes' /\ HandleTypes'
  BY <1>1, <1>2 DEF CallTypes, VolTypes, HandleTypes
<1>6. SetsInv'
  <2>1. \A b \in Bases, i \in Index, s \in 1..runs : HasHdr(Part(b, i), s)' =>
            Part(b, i) \in DOMAIN disk /\ disk'[Part(b, i)] = disk[Part(b, i)]
    BY <1>4 DEF HasHdr
  <2> QED
    BY <2>1, <1>1, SetsKept DEF IInv
<1>7. WrittenInv'
  BY <1>1, <1>2, WrittenElsewhere
<1>8. PlacedInv'
  <2> SUFFICES ASSUME NEW f \in DOMAIN disk', Ours(f)'
               PROVE  f \in Mine(c + 1) \cup held'
    BY <1>1 DEF PlacedInv, Mine
  <2>1. f \in DOMAIN disk /\ Ours(f)
    BY <1>1, <1>4 DEF Ours
  <2>2. f \in Mine(c) \cup held
    BY <2>1, <1>1, <1>o DEF IInv, PlacedInv
  <2>3. CASE f = F
    BY <2>3, <1>1, <1>3, <1>4
  <2>4. CASE f # F /\ f \in Mine(c)
    <3>1. PICK i \in c..vol_part : f = Part(vol_base, i)
      BY <2>4 DEF Mine
    <3>2. i # c
      BY <3>1, <2>4, <1>o
    <3>3. i \in (c + 1)..vol_part
      BY <3>1, <3>2, <1>2
    <3> QED
      BY <3>1, <3>3 DEF Mine
  <2>5. CASE f \in held
    BY <2>5, <1>1
  <2> QED
    BY <2>2, <2>3, <2>4, <2>5
<1>9. OpenInv'
  BY <1>1, <1>2 DEF OpenInv
<1>10. ReaderTypes' /\ ReadersInv' /\ UsersHoldTheirSet'
  <2>1. ASSUME NEW f, HeldForRead(f)
        PROVE  f \in DOMAIN disk' /\ disk'[f] = disk[f] /\ ~OpenForWrite(f)'
    <3>1. f \in DOMAIN disk /\ ~OpenForWrite(f)
      BY <2>1, HeldAre DEF IInv, Typed
    <3>2. f # F \/ ~Free(F)
      BY <2>1 DEF Free
    <3> QED
      BY <3>1, <3>2, <1>1, <1>4 DEF OpenForWrite
  <2>2. rd[App].st = "closed" /\ rd' = rd /\ runs \in Nat /\ runs' \in Nat /\ runs <= runs'
    BY <1>1, <1>2, AppClosed DEF IInv, DiskTypes, VolumeAssumption
  <2> QED
    BY <2>1, <2>2, <1>2, ReadersKept DEF IInv
<1> QED
  BY <1>4, <1>5, <1>6, <1>7, <1>8, <1>9, <1>10 DEF IInv, Typed

-----------------------------------------------------------------------------
(* The readers' steps. *)

\* What a process's record has to satisfy, for its readers to be served.
Served(p) ==
    /\ rd[p].st # "on" => \A b \in Bases : rd[p].users[b] = 0
    /\ rd[p].st = "on" => \A b \in Bases :
          rd[p].users[b] = IF b = rd[p].base THEN rd[p].refs ELSE 0

\* A step of one reader changes its own record, and App's the base it names.
LEMMA ReaderStepKeeps ==
    ASSUME VolumeAssumption, IInv, NEW p \in Procs,
           UNCHANGED <<diskVars, callVars, wpc, code, sent, todo, hloc, cursor, ownVars,
                       vol_on, vol_split, vol_part, vol_limit, vol_fill, vol_hout,
                       vol_toomany, fh>>,
           vol_base' = vol_base \/ (p = App /\ wpc = "idle" /\ vol_base' \in Bases),
           rd' \in [Procs -> ReaderStates], \A q \in Procs : q # p => rd'[q] = rd[q],
           ReaderInv(p)', Served(p)'
    PROVE  IInv'
<1> USE DEF diskVars, callVars, ownVars
<1>1. DiskTypes' /\ CallTypes' /\ VolTypes' /\ HandleTypes' /\ ReaderTypes'
  BY DEF IInv, Typed, DiskTypes, CallTypes, VolTypes, HandleTypes, ReaderTypes
<1>2. SetsInv'
  BY SetsSame DEF IInv
<1>3. WrittenInv' /\ PlacedInv' /\ OpenInv'
  <2>1. CASE vol_base' = vol_base
    <3>1. WrittenInv'
      BY <2>1 DEF IInv, WrittenInv, BeforeInv, WritingInv, FinishedInv, ShiftInv, DoneInv,
         CodeInv, Splitting, PartIs, IsPart, Holding, From, Settled
    <3>2. PlacedInv'
      BY <2>1 DEF IInv, PlacedInv, Ours, Mine
    <3>3. OpenInv'
      BY <2>1 DEF IInv, OpenInv, Settled
    <3> QED
      BY <3>1, <3>2, <3>3
  <2>2. CASE wpc = "idle"
    <3>1. WrittenInv'
      BY <2>2, WrittenElsewhere
    <3>2. PlacedInv'
      BY <2>2 DEF PlacedInv
    <3>3. OpenInv'
      BY <2>2 DEF IInv, OpenInv
    <3> QED
      BY <3>1, <3>2, <3>3
  <2> QED
    BY <2>1, <2>2
<1>4. ReadersInv'
  <2> SUFFICES ASSUME NEW q \in Procs, q # p
               PROVE  ReaderInv(q)'
    BY DEF ReadersInv
  <2>1. rd'[q] = rd[q] /\ ReaderInv(q) /\ runs \in Nat /\ runs' = runs
    BY DEF IInv, ReadersInv, Typed, DiskTypes, VolumeAssumption
  <2>2. \A f : HeldForRead(f) =>
            f \in DOMAIN disk' /\ disk'[f] = disk[f] /\ ~OpenForWrite(f)'
    BY HeldSame DEF IInv, Typed
  <2>3. q = App => wpc' = wpc /\ vol_base' = vol_base
    OBVIOUS
  <2> QED
    BY <2>1, <2>2, <2>3, ReaderKept
<1>5. UsersHoldTheirSet'
  BY DEF IInv, UsersHoldTheirSet, Served
<1> QED
  BY <1>1, <1>2, <1>3, <1>4, <1>5 DEF IInv, Typed

\* An empty table.
LEMMA EmptyIs ==
    ASSUME VolumeAssumption
    PROVE  /\ NotAssembled \in ReaderStates /\ NotAssembled.st = "closed"
           /\ NotAssembled.idx = 0 /\ \A b \in Bases : NotAssembled.users[b] = 0
BY DEF NotAssembled, ReaderStates, VolumeAssumption

LEMMA VsetOpenKeeps ==
    ASSUME VolumeAssumption, IInv, NEW p \in Procs, NEW b \in Bases, VsetOpen(p, b)
    PROVE  IInv'
<1> DEFINE v == [NotAssembled EXCEPT !.st = "assembling", !.base = b]
<1>1. rd' = [rd EXCEPT ![p] = v] /\ rd \in [Procs -> ReaderStates]
  BY DEF VsetOpen, IInv, Typed, ReaderTypes
<1>2. /\ v \in ReaderStates /\ v.st = "assembling" /\ v.base = b /\ v.idx = 0
      /\ \A c \in Bases : v.users[c] = 0
  BY EmptyIs DEF NotAssembled, ReaderStates, VolumeAssumption
<1> HIDE DEF v
<1>3. rd' \in [Procs -> ReaderStates] /\ rd'[p] = v /\ \A q \in Procs : q # p => rd'[q] = rd[q]
  BY <1>1, <1>2
<1>4. UNCHANGED <<diskVars, callVars, wpc, code, sent, todo, hloc, cursor, ownVars,
                  vol_on, vol_split, vol_part, vol_limit, vol_fill, vol_hout, vol_toomany, fh>>
  BY DEF VsetOpen
<1>5. /\ p = App => wpc = "idle" /\ vol_base' = b
      /\ p # App => vol_base' = vol_base
  BY DEF VsetOpen
<1>6. ReaderInv(p)'
  BY <1>2, <1>3, <1>4, <1>5 DEF ReaderInv
<1>7. Served(p)'
  BY <1>2, <1>3 DEF Served
<1> QED
  BY <1>3, <1>4, <1>5, <1>6, <1>7, ReaderStepKeeps

LEMMA VsetJoinKeeps ==
    ASSUME VolumeAssumption, IInv, NEW p \in Procs, NEW b \in Bases, VsetJoin(p, b)
    PROVE  IInv'
<1>1. /\ rd[p].st = "on" /\ rd[p].refs < MaxRefs /\ Joins(p, b)
      /\ rd' = [rd EXCEPT ![p].refs = @ + 1, ![p].users[b] = @ + 1]
  BY DEF VsetJoin
<1>2. /\ rd \in [Procs -> ReaderStates] /\ rd[p] \in ReaderStates /\ rd[p].refs \in 0..MaxRefs
      /\ rd[p].users \in [Bases -> Nat] /\ ReaderInv(p) /\ MaxRefs \in Nat
      /\ \A c \in Bases : rd[p].users[c] = IF c = rd[p].base THEN rd[p].refs ELSE 0
  BY <1>1, ReaderIs DEF IInv, Typed, ReaderTypes, ReadersInv, UsersHoldTheirSet, VolumeAssumption
<1>3. b = rd[p].base
  BY <1>1, <1>2 DEF Joins, ReaderInv
<1> DEFINE v == [rd[p] EXCEPT !.refs = @ + 1, !.users = [@ EXCEPT ![b] = @ + 1]]
<1>4. /\ v \in ReaderStates /\ v.st = "on" /\ v.base = b /\ v.idx = rd[p].idx
      /\ v.sid = rd[p].sid /\ v.refs = rd[p].refs + 1
      /\ v.users = [rd[p].users EXCEPT ![b] = @ + 1]
  BY <1>1, <1>2, <1>3 DEF ReaderStates
<1>5. rd' = [rd EXCEPT ![p] = v]
  BY <1>1, <1>2 DEF ReaderStates
<1> HIDE DEF v
<1>6. rd' \in [Procs -> ReaderStates] /\ rd'[p] = v /\ \A q \in Procs : q # p => rd'[q] = rd[q]
  BY <1>2, <1>4, <1>5
<1>7. UNCHANGED <<diskVars, callVars, wpc, code, sent, todo, hloc, cursor, ownVars,
                  vol_on, vol_split, vol_part, vol_limit, vol_fill, vol_hout, vol_toomany, fh>>
      /\ vol_base' = vol_base
  BY DEF VsetJoin, globalVars
<1>8. ReaderInv(p)'
  BY <1>1, <1>2, <1>3, <1>4, <1>6, <1>7
     DEF ReaderInv, HasHdr, Ends, OpenForWrite, diskVars, callVars
<1>9. Served(p)'
  BY <1>2, <1>3, <1>4, <1>6 DEF Served
<1> QED
  BY <1>6, <1>7, <1>8, <1>9, ReaderStepKeeps

LEMMA VsetCloseKeeps ==
    ASSUME VolumeAssumption, IInv, NEW p \in Procs, NEW b \in Bases, VsetClose(p, b)
    PROVE  IInv'
<1> DEFINE left == rd[p].refs - 1
           rest == [rd[p].users EXCEPT ![b] = @ - 1]
<1>1. /\ rd[p].st = "on" /\ rd[p].users[b] > 0
      /\ rd' = [rd EXCEPT ![p] =
                  IF left <= 0 THEN [NotAssembled EXCEPT !.users = rest]
                               ELSE [@ EXCEPT !.refs = left, !.users = rest]]
  BY DEF VsetClose, LastRelease
<1>2. /\ rd \in [Procs -> ReaderStates] /\ rd[p] \in ReaderStates /\ rd[p].refs \in 0..MaxRefs
      /\ rd[p].users \in [Bases -> Nat] /\ ReaderInv(p) /\ MaxRefs \in Nat
      /\ \A c \in Bases : rd[p].users[c] = IF c = rd[p].base THEN rd[p].refs ELSE 0
  BY <1>1, ReaderIs DEF IInv, Typed, ReaderTypes, ReadersInv, UsersHoldTheirSet, VolumeAssumption
<1>3. b = rd[p].base /\ rd[p].refs > 0 /\ left \in 0..MaxRefs
  BY <1>1, <1>2
<1>4. /\ rest \in [Bases -> Nat]
      /\ \A c \in Bases : rest[c] = IF c = b THEN left ELSE 0
  BY <1>2, <1>3
<1> HIDE DEF rest
<1> DEFINE v == IF left <= 0 THEN [NotAssembled EXCEPT !.users = rest]
                             ELSE [rd[p] EXCEPT !.refs = left, !.users = rest]
<1>5. /\ v \in ReaderStates /\ v.users = rest
      /\ left <= 0 => v.st = "closed" /\ v.idx = 0
      /\ ~(left <= 0) => /\ v.st = "on" /\ v.base = b /\ v.idx = rd[p].idx /\ v.sid = rd[p].sid
                         /\ v.refs = left
  <2>1. CASE left <= 0
    BY <2>1, <1>4, EmptyIs DEF NotAssembled, ReaderStates
  <2>2. CASE ~(left <= 0)
    BY <2>2, <1>1, <1>2, <1>3, <1>4 DEF ReaderStates
  <2> QED
    BY <2>1, <2>2
<1>6. rd' = [rd EXCEPT ![p] = v]
  BY <1>1, <1>2
<1> HIDE DEF v
<1>7. rd' \in [Procs -> ReaderStates] /\ rd'[p] = v /\ \A q \in Procs : q # p => rd'[q] = rd[q]
  BY <1>2, <1>5, <1>6
<1>8. UNCHANGED <<diskVars, callVars, wpc, code, sent, todo, hloc, cursor, ownVars,
                  vol_on, vol_split, vol_part, vol_limit, vol_fill, vol_hout, vol_toomany, fh>>
      /\ vol_base' = vol_base
  BY DEF VsetClose, globalVars
<1>9. ReaderInv(p)' /\ Served(p)'
  <2>1. CASE left <= 0
    <3>1. \A c \in Bases : v.users[c] = 0
      BY <2>1, <1>3, <1>4, <1>5
    <3> QED
      BY <2>1, <3>1, <1>5, <1>7 DEF ReaderInv, Served
  <2>2. CASE ~(left <= 0)
    <3>1. ReaderInv(p)'
      BY <2>2, <1>1, <1>2, <1>3, <1>5, <1>7, <1>8
         DEF ReaderInv, HasHdr, Ends, OpenForWrite, diskVars, callVars
    <3>2. Served(p)'
      BY <2>2, <1>4, <1>5, <1>7 DEF Served
    <3> QED
      BY <3>1, <3>2
  <2> QED
    BY <2>1, <2>2
<1> QED
  BY <1>7, <1>8, <1>9, ReaderStepKeeps

\* The part that is next in line, when its header says so.
LEMMA NextPart ==
    ASSUME VolumeAssumption, IInv, NEW p \in Procs, rd[p].st = "assembling",
           NEW i, i = rd[p].idx + 1, NEW f, f = Part(rd[p].base, i), i <= MaxParts,
           CanRead(f), disk[f] # <<>>, HdrCheck(disk[f][1], i, rd[p].sid)
    PROVE  /\ i \in 1..MaxParts /\ disk[f][1][1] \in 1..runs /\ runs \in Nat
           /\ Ends(f) \in BOOLEAN
           /\ \A j \in 1..i : /\ HasHdr(Part(rd[p].base, j), disk[f][1][1])
                              /\ j # i => ~Ends(Part(rd[p].base, j))
                              /\ ~OpenForWrite(Part(rd[p].base, j))
<1>1. /\ rd[p].idx \in 0..MaxParts /\ ReaderInv(p) /\ DiskTypes
  BY ReaderIs DEF IInv, Typed, ReadersInv
<1>2. i \in 1..MaxParts
  BY <1>1 DEF VolumeAssumption
<1>3. f \in DOMAIN disk /\ ~OpenForWrite(f)
  BY DEF CanRead
<1>4. disk[f] \in Seq(CellsTo(runs)) /\ Len(disk[f]) \in Nat /\ runs \in Nat
  BY <1>1, <1>3, FileIs
<1>5. Len(disk[f]) >= 1
  BY <1>4, EmptySeq
<1>6. 1 \in 1..Len(disk[f])
  BY <1>4, <1>5
<1>7. disk[f][1] \in CellsTo(runs)
  BY <1>4, <1>6, ElementOfSeq
<1>8. PICK c : c = disk[f][1]
  OBVIOUS
<1>9. c \in CellsTo(runs) /\ IsHdr(c) /\ c[2] = i /\ (i > 1 => c[1] = rd[p].sid)
  BY <1>7, <1>8 DEF HdrCheck
<1>10. c[1] \in 1..runs /\ c[3] \in BOOLEAN
  BY <1>4, <1>9, CellIs
<1>11. HasHdr(f, c[1])
  BY <1>3, <1>5, <1>8, <1>9 DEF HasHdr
<1>12. ASSUME NEW j \in 1..i, j # i
       PROVE  /\ HasHdr(Part(rd[p].base, j), c[1])
              /\ ~Ends(Part(rd[p].base, j)) /\ ~OpenForWrite(Part(rd[p].base, j))
  <2>1. j \in 1..rd[p].idx /\ i > 1
    BY <1>1, <1>2, <1>12
  <2>2. c[1] = rd[p].sid
    BY <2>1, <1>9
  <2> QED
    BY <2>1, <2>2, <1>1 DEF ReaderInv
<1>13. Ends(f) \in BOOLEAN
  BY <1>8, <1>10 DEF Ends
<1> QED
  BY <1>2, <1>3, <1>4, <1>8, <1>10, <1>11, <1>12, <1>13

LEMMA AssembleKeeps ==
    ASSUME VolumeAssumption, IInv, NEW p \in Procs, Assemble(p)
    PROVE  IInv'
<1>o. PICK i, f, b : i = rd[p].idx + 1 /\ f = Part(rd[p].base, i) /\ b = rd[p].base
  OBVIOUS
<1>1. /\ rd[p].st = "assembling"
      /\ UNCHANGED <<diskVars, callVars, wpc, code, sent, todo, hloc, cursor, ownVars,
                     vol_on, vol_split, vol_part, vol_limit, vol_fill, vol_hout, vol_toomany, fh>>
      /\ vol_base' = vol_base
  BY DEF Assemble, globalVars
<1>2. /\ rd \in [Procs -> ReaderStates] /\ rd[p] \in ReaderStates /\ ReaderInv(p)
      /\ rd[p].refs \in 0..MaxRefs /\ rd[p].users \in [Bases -> Nat] /\ b \in Bases
      /\ \A c \in Bases : rd[p].users[c] = 0
  <2>1. /\ rd \in [Procs -> ReaderStates] /\ rd[p] \in ReaderStates /\ ReaderInv(p)
        /\ rd[p].refs \in 0..MaxRefs /\ rd[p].users \in [Bases -> Nat]
        /\ \A c \in Bases : rd[p].users[c] = 0
    BY <1>1, ReaderIs DEF IInv, Typed, ReaderTypes, ReadersInv, UsersHoldTheirSet
  <2> QED
    BY <2>1, <1>o, <1>1 DEF ReaderInv
<1>3. p = App => wpc = "idle" /\ vol_base = b
  BY <1>o, <1>1, <1>2 DEF ReaderInv
<1>4. CASE rd' = [rd EXCEPT ![p] = NotAssembled]
  <2>1. rd' \in [Procs -> ReaderStates] /\ rd'[p] = NotAssembled
        /\ \A q \in Procs : q # p => rd'[q] = rd[q]
    BY <1>2, <1>4, EmptyIs
  <2>2. ReaderInv(p)' /\ Served(p)'
    BY <2>1, EmptyIs DEF ReaderInv, Served
  <2> QED
    BY <2>1, <2>2, <1>1, ReaderStepKeeps
<1>5. ASSUME /\ i <= MaxParts /\ CanRead(f) /\ disk[f] # <<>>
             /\ HdrCheck(disk[f][1], i, rd[p].sid)
      PROVE  /\ i \in 1..MaxParts /\ disk[f][1][1] \in 1..runs /\ runs \in Nat
             /\ Ends(f) \in BOOLEAN
             /\ \A j \in 1..i : /\ HasHdr(Part(b, j), disk[f][1][1])
                                /\ j # i => ~Ends(Part(b, j))
                                /\ ~OpenForWrite(Part(b, j))
  BY <1>1, <1>5, <1>o, NextPart
<1>6. ASSUME NEW v, NEW s, s = disk[f][1][1], rd' = [rd EXCEPT ![p] = v],
             i <= MaxParts, CanRead(f), disk[f] # <<>>, HdrCheck(disk[f][1], i, rd[p].sid),
             v \in ReaderStates, v.base = b, v.idx = i, v.sid = s, v.st \in {"assembling", "on"},
             v.st = "on" <=> Ends(f), v.st = "on" => v.refs >= 1,
             v.st # "on" => \A c \in Bases : v.users[c] = 0,
             v.st = "on" => \A c \in Bases : v.users[c] = IF c = b THEN v.refs ELSE 0
      PROVE  IInv'
  <2>1. rd' \in [Procs -> ReaderStates] /\ rd'[p] = v
        /\ \A q \in Procs : q # p => rd'[q] = rd[q]
    BY <1>2, <1>6
  <2>2. Served(p)'
    BY <2>1, <1>6 DEF Served
  <2>3. /\ i \in 1..MaxParts /\ s \in 1..runs /\ runs \in Nat /\ Ends(f) \in BOOLEAN
        /\ \A j \in 1..i : /\ HasHdr(Part(b, j), s)
                           /\ j # i => ~Ends(Part(b, j))
                           /\ ~OpenForWrite(Part(b, j))
    BY <1>5, <1>6
  <2>4. disk' = disk /\ fh' = fh /\ runs' = runs /\ wpc' = wpc
    BY <1>1 DEF diskVars, callVars
  <2>5. ASSUME NEW j \in 1..i
        PROVE  /\ HasHdr(Part(b, j), s)'
               /\ Ends(Part(b, j))' <=> v.st = "on" /\ j = i
               /\ ~OpenForWrite(Part(b, j))'
    <3>1. HasHdr(Part(b, j), s)' /\ ~OpenForWrite(Part(b, j))'
      BY <2>3, <2>4 DEF HasHdr, OpenForWrite
    <3>2. CASE j = i
      BY <3>1, <3>2, <2>4, <1>6, <1>o DEF Ends
    <3>3. CASE j # i
      BY <3>1, <3>3, <2>3, <2>4 DEF Ends
    <3> QED
      BY <3>2, <3>3
  <2>6. ReaderInv(p)'
    <3>1. v.base \in Bases /\ i >= 1 /\ v.st # "closed"
      BY <1>2, <1>6, <2>3
    <3> QED
      BY <3>1, <2>1, <2>3, <2>4, <2>5, <1>1, <1>3, <1>6 DEF ReaderInv
  <2> QED
    BY <2>1, <2>2, <2>6, <1>1, ReaderStepKeeps
<1>7. ASSUME i <= MaxParts, CanRead(f), disk[f] # <<>>, HdrCheck(disk[f][1], i, rd[p].sid), Ends(f),
             rd' = [rd EXCEPT ![p] = [[rd[p] EXCEPT !.idx = i, !.sid = disk[f][1][1]]
                                         EXCEPT !.st = "on", !.refs = 1, !.users[b] = 1]]
      PROVE  IInv'
  <2>1. PICK v, s : /\ s = disk[f][1][1]
                    /\ v = [rd[p] EXCEPT !.idx = i, !.sid = s, !.st = "on", !.refs = 1, !.users = [@ EXCEPT ![b] = 1]]
    OBVIOUS
  <2>2. i \in 0..MaxParts /\ s \in Nat /\ 1 \in 0..MaxRefs
    <3>1. i \in 1..MaxParts /\ s \in 1..runs /\ runs \in Nat
      BY <2>1, <1>5, <1>7
    <3> QED
      BY <3>1 DEF VolumeAssumption
  <2>3. /\ v \in ReaderStates /\ v.base = b /\ v.idx = i /\ v.sid = s /\ v.st = "on" /\ v.refs = 1
        /\ v.users = [rd[p].users EXCEPT ![b] = 1]
    BY <2>1, <2>2, <1>2, <1>o DEF ReaderStates
  <2>4. rd' = [rd EXCEPT ![p] = v]
    BY <2>1, <1>2, <1>7 DEF ReaderStates
  <2>5. \A c \in Bases : v.users[c] = IF c = b THEN v.refs ELSE 0
    BY <2>3, <1>2
  <2>6. /\ v.st \in {"assembling", "on"} /\ (v.st = "on" <=> Ends(f))
        /\ (v.st = "on" => v.refs >= 1)
        /\ (v.st # "on" => \A c \in Bases : v.users[c] = 0)
        /\ (v.st = "on" => \A c \in Bases : v.users[c] = IF c = b THEN v.refs ELSE 0)
    BY <2>3, <2>5, <1>7
  <2>7. s = disk[f][1][1]
    BY <2>1
  <2> QED
    BY <2>3, <2>4, <2>6, <2>7, <1>6, <1>7
<1>8. ASSUME i <= MaxParts, CanRead(f), disk[f] # <<>>, HdrCheck(disk[f][1], i, rd[p].sid), ~Ends(f),
             rd' = [rd EXCEPT ![p] = [rd[p] EXCEPT !.idx = i, !.sid = disk[f][1][1]]]
      PROVE  IInv'
  <2>1. PICK v, s : s = disk[f][1][1] /\ v = [rd[p] EXCEPT !.idx = i, !.sid = s]
    OBVIOUS
  <2>2. i \in 0..MaxParts /\ s \in Nat
    <3>1. i \in 1..MaxParts /\ s \in 1..runs /\ runs \in Nat
      BY <2>1, <1>5, <1>8
    <3> QED
      BY <3>1 DEF VolumeAssumption
  <2>3. /\ v \in ReaderStates /\ v.base = b /\ v.idx = i /\ v.sid = s /\ v.st = "assembling"
        /\ v.users = rd[p].users
    BY <2>1, <2>2, <1>1, <1>2, <1>o DEF ReaderStates
  <2>4. rd' = [rd EXCEPT ![p] = v]
    BY <2>1, <1>8
  <2> QED
    BY <2>1, <2>3, <2>4, <1>2, <1>6, <1>8
<1> QED
  BY <1>4, <1>7, <1>8, <1>o DEF Assemble, Refused, IsFinal, Ends

-----------------------------------------------------------------------------
(* The invariant. *)

LEMMA InitHolds ==
    ASSUME VolumeAssumption, Init
    PROVE  IInv
<1>1. /\ DOMAIN disk = {} /\ runs = 0 /\ DOMAIN whole = {} /\ wpc = "idle" /\ out \in Bases
      /\ code = "none" /\ est = 0 /\ sent = 0 /\ todo = 0 /\ named = FALSE /\ hloc = Invalid
      /\ cursor = 0 /\ vol_split = FALSE /\ vol_base = NoBase /\ vol_part = 0
      /\ vol_limit = 0 /\ vol_fill = 0 /\ vol_hout = Invalid
      /\ disk = [f \in {} |-> <<>>] /\ whole = [s \in {} |-> 0]
      /\ fh = [h \in Handles |-> NoName] /\ rd = [p \in Procs |-> NotAssembled]
  BY DEF Init
<1>2. Typed
  <2>1. DiskTypes
    BY <1>1 DEF DiskTypes, VolumeAssumption
  <2>2. CallTypes
    <3>1. wpc \in States /\ code \in {"none", "ok", "failed", "toomany"}
      BY <1>1 DEF States
    <3>2. named \in BOOLEAN
      BY <1>1, Zenon
    <3>3. /\ est \in 0..MaxStream /\ sent \in 0..est /\ todo \in 0..(est - sent)
          /\ cursor \in Nat /\ out \in Bases
      <4>1. est = 0 /\ sent = 0 /\ todo = 0 /\ cursor = 0 /\ out \in Bases
        BY <1>1
      <4> QED
        BY <4>1 DEF VolumeAssumption
    <3> QED
      BY <3>1, <3>2, <3>3 DEF CallTypes
  <2>3. VolTypes
    <3>1. vol_split \in BOOLEAN
      BY <1>1, Zenon
    <3>2. /\ vol_limit \in Limits \cup {0} /\ vol_fill \in Nat
          /\ vol_part \in 0..(MaxParts + 1)
      <4>1. vol_limit = 0 /\ vol_fill = 0 /\ vol_part = 0
        BY <1>1
      <4> QED
        BY <4>1 DEF VolumeAssumption
    <3>3. /\ vol_base \in Bases \cup {NoBase}
          /\ vol_hout \in Handles \cup {Invalid} /\ hloc \in Handles \cup {Invalid}
      BY <1>1, Zenon
    <3> QED
      BY <3>1, <3>2, <3>3 DEF VolTypes
  <2>4. HandleTypes
    BY <1>1 DEF HandleTypes
  <2>5. ReaderTypes
    <3>1. NotAssembled \in ReaderStates
      BY EmptyIs
    <3> QED
      BY <1>1, <3>1 DEF ReaderTypes
  <2> QED
    BY <2>1, <2>2, <2>3, <2>4, <2>5 DEF Typed
<1>3. SetsInv
  BY <1>1 DEF SetsInv
<1>4. WrittenInv
  BY <1>1 DEF WrittenInv, BeforeInv, WritingInv, FinishedInv, ShiftInv, DoneInv, CodeInv
<1>5. PlacedInv
  BY <1>1 DEF PlacedInv
<1>6. OpenInv
  BY <1>1 DEF OpenInv
<1>7. ReadersInv /\ UsersHoldTheirSet
  <2>1. \A p \in Procs : /\ rd[p].st = "closed" /\ rd[p].idx = 0
                         /\ \A b \in Bases : rd[p].users[b] = 0
    BY <1>1 DEF NotAssembled
  <2> QED
    BY <2>1 DEF ReadersInv, ReaderInv, UsersHoldTheirSet
<1> QED
  BY <1>2, <1>3, <1>4, <1>5, <1>6, <1>7 DEF IInv

LEMMA StutterKeeps ==
    ASSUME IInv, UNCHANGED vars
    PROVE  IInv'
<1>1. /\ disk' = disk /\ whole' = whole /\ out' = out /\ est' = est /\ named' = named
      /\ runs' = runs /\ wpc' = wpc /\ code' = code /\ sent' = sent /\ todo' = todo
      /\ hloc' = hloc /\ cursor' = cursor /\ created' = created /\ held' = held
      /\ vol_on' = vol_on /\ vol_split' = vol_split /\ vol_base' = vol_base
      /\ vol_part' = vol_part /\ vol_limit' = vol_limit /\ vol_fill' = vol_fill
      /\ vol_hout' = vol_hout /\ vol_toomany' = vol_toomany /\ fh' = fh /\ rd' = rd
  BY DEF vars, diskVars, callVars, ownVars, globalVars
<1>2. SetsInv'
  BY <1>1, SetsSame DEF IInv
<1>3. Typed'
  BY <1>1 DEF IInv, Typed, DiskTypes, CallTypes, VolTypes, HandleTypes, ReaderTypes
<1>4. WrittenInv'
  BY <1>1 DEF IInv, WrittenInv, BeforeInv, WritingInv, FinishedInv, ShiftInv, DoneInv, CodeInv,
              PartIs, IsPart, Holding, From, Splitting, Settled
<1>5. PlacedInv' /\ OpenInv'
  BY <1>1 DEF IInv, PlacedInv, Ours, Mine, OpenInv, Settled
<1>6. ReadersInv' /\ UsersHoldTheirSet'
  BY <1>1 DEF IInv, ReadersInv, ReaderInv, HasHdr, Ends, OpenForWrite, UsersHoldTheirSet
<1> QED
  BY <1>2, <1>3, <1>4, <1>5, <1>6 DEF IInv

LEMMA NextKeeps ==
    ASSUME VolumeAssumption, IInv, [Next]_vars
    PROVE  IInv'
<1>1. CASE PackNext
  BY <1>1, StartPackKeeps, PreflightRefusesKeeps, PreflightPassesKeeps, VolBeginKeeps,
     VolCallKeeps, VolWriteKeeps, VolRollKeeps, PackFailsKeeps, VolFinishKeeps,
     SettleOpenKeeps, SettleShiftKeeps, SettleTruncateKeeps, PromoteKeeps, CleanupKeeps,
     DiscardOpensKeeps, DiscardPartKeeps, DiscardDoneKeeps, PackReturnsKeeps, CrashKeeps
  DEF PackNext
<1>2. CASE ReadNext
  BY <1>2, AssembleKeeps, VsetOpenKeeps, VsetJoinKeeps, VsetCloseKeeps DEF ReadNext
<1>3. CASE UNCHANGED vars
  BY <1>3, StutterKeeps
<1> QED
  BY <1>1, <1>2, <1>3 DEF Next

\* The strengthening the properties rest on: the sets are slices of whole
\* containers, the run in progress has its files to itself, and a reader's
\* table is what the disk has.
THEOREM Invariant == Spec => []IInv
<1>1. Init => IInv
  BY VolumeAssumption, InitHolds
<1>2. IInv /\ [Next]_vars => IInv'
  BY VolumeAssumption, NextKeeps
<1> QED
  BY <1>1, <1>2, PTL DEF Spec

\* The variables have their types, and the part being written is never filled
\* past the limit.
THEOREM TypeCorrect == Spec => []TypeOK
<1>1. IInv => TypeOK
  BY VolumeAssumption, TypesHold DEF IInv, WrittenInv
<1> QED
  BY <1>1, Invariant, PTL

\* An open set is one container, from its first byte to its last: vs_assemble's
\* checks of number, set_id and final flag suffice, whatever was left behind
\* under the names and whatever the writer does meanwhile.
THEOREM OpenSetIsWhole == Spec => []OpenSetIsOneContainer
<1>1. IInv => OpenSetIsOneContainer
  BY VolumeAssumption, OpenHolds DEF IInv
<1> QED
  BY <1>1, Invariant, PTL

\* What a pack that reported success left can be read back: the plain file is the
\* container, or the parts assemble to it.
THEOREM SuccessReadsBack == Spec => []SuccessIsReadable
<1>1. IInv => SuccessIsReadable
  BY VolumeAssumption, SuccessHolds DEF IInv, WrittenInv
<1> QED
  BY <1>1, Invariant, PTL

\* dp_done and vol_discard leave no byte of a failed pack in any file, save in a
\* part another process was holding open.
THEOREM FailureCleansUp == Spec => []FailureLeavesNothing
<1>1. IInv => FailureLeavesNothing
  BY FailureHolds DEF IInv
<1> QED
  BY <1>1, Invariant, PTL

\* vset_open's reference count is the number of its users, and all of them asked
\* for the set that is open.
THEOREM UsersAreCounted == Spec => []UsersHoldTheirSet
<1>1. IInv => UsersHoldTheirSet
  BY DEF IInv
<1> QED
  BY <1>1, Invariant, PTL

-----------------------------------------------------------------------------
(* What happens under the plain name. *)

\* A step that touches at most one file, and that not a plain one.
Elsewhere == \E f : /\ \A b \in Bases : f # Plain(b)
                    /\ \A g \in DOMAIN disk' : g # f => g \in DOMAIN disk /\ disk'[g] = disk[g]

\* What the code does to the disk outside the rename, step by step.
LEMMA OthersElsewhere ==
    ASSUME VolumeAssumption, IInv, Next, ~Promote
    PROVE  Elsewhere
<1>1. /\ \A b, c : Plain(b) # Temp(c)
      /\ \A b, c, i : Plain(b) # Part(c, i)
      /\ \A b : Plain(b) # NoName
  BY NamesDiffer
<1>2. ASSUME disk' = disk PROVE Elsewhere
  BY <1>1, <1>2 DEF Elsewhere
<1>3. ASSUME NEW f, \A b \in Bases : f # Plain(b), NEW cells, disk' = Put(f, cells) PROVE Elsewhere
  <2>1. \A g \in DOMAIN disk' : g # f => g \in DOMAIN disk /\ disk'[g] = disk[g]
    BY <1>3 DEF Put
  <2> QED
    BY <1>3, <2>1 DEF Elsewhere
<1>4. ASSUME NEW f, \A b \in Bases : f # Plain(b), disk' = Without(f) PROVE Elsewhere
  <2>1. \A g \in DOMAIN disk' : g # f => g \in DOMAIN disk /\ disk'[g] = disk[g]
    BY <1>4 DEF Without
  <2> QED
    BY <1>4, <2>1 DEF Elsewhere
<1>5. ASSUME NEW f, \A b \in Bases : f # Plain(b), NEW cells, disk' = [disk EXCEPT ![f] = cells]
      PROVE  Elsewhere
  <2>1. \A g \in DOMAIN disk' : g # f => g \in DOMAIN disk /\ disk'[g] = disk[g]
    BY <1>5
  <2> QED
    BY <1>5, <2>1 DEF Elsewhere
<1>6. wpc = "writing" => \A b \in Bases : fh[vol_hout] # Plain(b)
  BY <1>1 DEF IInv, OpenInv
<1>7. CASE VolBegin
  <2>1. PICK name : name = (IF vol_limit > 0 THEN Part(out, 1) ELSE Temp(out))
    OBVIOUS
  <2>2. disk' = disk \/ \E cells : disk' = Put(name, cells)
    BY <1>7, <2>1 DEF VolBegin, Create
  <2>3. \A b \in Bases : name # Plain(b)
    BY <1>1, <2>1
  <2> QED
    BY <1>2, <1>3, <2>2, <2>3
<1>8. CASE VolWrite
  <2>1. PICK f : f = fh[vol_hout]
    OBVIOUS
  <2>2. disk' = disk \/ \E cells : disk' = [disk EXCEPT ![f] = cells]
    BY <1>8, <2>1 DEF VolWrite
  <2>3. \A b \in Bases : f # Plain(b)
    BY <1>6, <1>8, <2>1 DEF VolWrite
  <2> QED
    BY <1>2, <1>5, <2>2, <2>3
<1>9. CASE VolRoll
  <2>1. PICK name : name = Part(out, vol_part + 1)
    OBVIOUS
  <2>2. disk' = disk \/ \E cells : disk' = Put(name, cells)
    BY <1>9, <2>1 DEF VolRoll
  <2>3. \A b \in Bases : name # Plain(b)
    BY <1>1, <2>1
  <2> QED
    BY <1>2, <1>3, <2>2, <2>3
<1>10. CASE VolFinish
  <2>1. PICK f : f = fh[vol_hout]
    OBVIOUS
  <2>2. disk' = disk \/ disk' = Marked(f)
    BY <1>10, <2>1 DEF VolFinish
  <2>3. \A b \in Bases : f # Plain(b)
    BY <1>6, <1>10, <2>1 DEF VolFinish
  <2>4. disk' = disk \/ \E cells : disk' = [disk EXCEPT ![f] = cells]
    BY <2>2 DEF Marked
  <2> QED
    BY <1>2, <1>5, <2>3, <2>4
<1>11. CASE SettleShift \/ SettleTruncate
  <2>1. PICK f : f = Settled
    OBVIOUS
  <2>2. disk' = disk \/ \E cells : disk' = [disk EXCEPT ![f] = cells]
    BY <1>11, <2>1 DEF SettleShift, SettleTruncate
  <2>3. \A b \in Bases : f # Plain(b)
    BY <1>1, <2>1 DEF Settled
  <2> QED
    BY <1>2, <1>5, <2>2, <2>3
<1>12. CASE Cleanup
  <2>1. disk' = disk \/ disk' = Without(Temp(out))
    BY <1>12 DEF Cleanup
  <2> QED
    BY <1>1, <1>2, <1>4, <2>1
<1>13. CASE DiscardPart
  <2>1. disk' = disk \/ disk' = Without(Part(vol_base, cursor))
    BY <1>13 DEF DiscardPart
  <2> QED
    BY <1>1, <1>2, <1>4, <2>1
<1>14. CASE \/ \E b \in Bases, limit \in Limits : StartPack(b, limit)
            \/ PreflightRefuses \/ PreflightPasses \/ PackFails \/ SettleOpen
            \/ \E n \in Calls : VolCall(n)
            \/ DiscardOpens \/ DiscardDone \/ PackReturns \/ Crash
  <2>1. disk' = disk
    BY <1>14 DEF StartPack, PreflightRefuses, PreflightPasses, PackFails, SettleOpen, VolCall,
                 DiscardOpens, DiscardDone, PackReturns, Crash, diskVars
  <2> QED
    BY <1>2, <2>1
<1>15. CASE ReadNext
  <2>1. disk' = disk
    BY <1>15 DEF ReadNext, Assemble, VsetOpen, VsetJoin, VsetClose, diskVars
  <2> QED
    BY <1>2, <2>1
<1> QED
  BY <1>7, <1>8, <1>9, <1>10, <1>11, <1>12, <1>13, <1>14, <1>15 DEF Next, PackNext

\* A partial container never appears under the plain name, and a pack that fails
\* or is killed leaves the old one there: only the rename of a whole temporary
\* or settled file changes it.
THEOREM PlainIsReplacedWhole == Spec => PlainChangesOnlyToWhole
<1> DEFINE Replaced == \A b \in Bases :
        Plain(b) \in DOMAIN disk' /\ (Plain(b) \in DOMAIN disk => disk'[Plain(b)] # disk[Plain(b)])
            => runs \in DOMAIN whole /\ disk'[Plain(b)] = Container(runs)
<1>1. IInv /\ [Next]_vars => [Replaced]_vars
  <2> SUFFICES ASSUME IInv, Next, NEW b \in Bases, Plain(b) \in DOMAIN disk',
                      Plain(b) \in DOMAIN disk => disk'[Plain(b)] # disk[Plain(b)]
               PROVE  runs \in DOMAIN whole /\ disk'[Plain(b)] = Container(runs)
    OBVIOUS
  <2>1. CASE ~Promote
    BY <2>1, VolumeAssumption, OthersElsewhere DEF Elsewhere
  <2>2. CASE Promote
    <3>1. PICK F : F = IF wpc = "rename" THEN Temp(out) ELSE Settled
      OBVIOUS
    <3>2. /\ wpc \in {"rename", "promote"}
          /\ disk' = disk \/ disk' = Renamed(F, Plain(out))
      BY <2>2, <3>1 DEF Promote
    <3>3. disk' = Renamed(F, Plain(out))
      BY <3>2
    <3>4. /\ disk'[Plain(out)] = Container(runs)
          /\ Plain(b) # Plain(out) => disk'[Plain(b)] = disk[Plain(b)] /\ Plain(b) \in DOMAIN disk
      BY <3>1, <3>2, <3>3, VolumeAssumption, Promoted
    <3>5. runs \in DOMAIN whole
      BY <3>2 DEF IInv, WrittenInv, FinishedInv
    <3> QED
      BY <3>4, <3>5
  <2> QED
    BY <2>1, <2>2
<1> QED
  BY <1>1, Invariant, PTL DEF Spec, PlainChangesOnlyToWhole


-----------------------------------------------------------------------------
(* What vol_get reads from an open set.  The table's starts and the loop are *)
(* recursive functions, treated as FlattenSeq is.                            *)

\* Cutting out, under a name that can be left unexpanded.
Cut(q, x, y) == SubSeq(q, x, y)

\* A stretch of a stretch.
LEMMA StretchOf ==
    ASSUME NEW s \in Nat, NEW k \in Nat, NEW n \in Nat, NEW a \in Nat, NEW m \in Nat,
           a + m <= n, NEW x \in Nat, x = a + 1, NEW y \in Nat, y = a + m,
           NEW o \in Nat, o = k + a
    PROVE  Cut(Bytes(s, k, n), x, y) = Bytes(s, o, m)
<1> DEFINE q == Bytes(s, k, n)
           C == BytesOf(s)
           u == SubSeq(q, a + 1, a + m)
<1>1. q \in Seq(C) /\ Len(q) = n /\ \A j \in 1..n : q[j] = Byte(s, k + j)
  BY BytesAre
<1> HIDE DEF q, C
<1>2. /\ u \in Seq(C) /\ Len(u) = m
      /\ \A j \in 1..m : u[j] = q[a + j]
  <2>1. /\ Len(u) = IF a + 1 <= a + m THEN (a + m) - (a + 1) + 1 ELSE 0
        /\ u \in Seq(C)
        /\ \A j \in 1..((a + m) - (a + 1) + 1) : u[j] = q[(a + 1) + j - 1]
    <3>1. \A j \in (a + 1)..(a + m) : j \in 1..Len(q)
      BY <1>1
    <3> QED
      BY <1>1, <3>1, SubSeqProperties
  <2>2. \A j \in 1..m : (a + 1) + j - 1 = a + j /\ j \in 1..((a + m) - (a + 1) + 1)
    OBVIOUS
  <2>3. Len(u) = m
    BY <2>1
  <2> QED
    BY <2>1, <2>2, <2>3
<1> HIDE DEF u
<1>3. \A j \in 1..m : u[j] = Byte(s, (k + a) + j)
  <2> SUFFICES ASSUME NEW j \in 1..m PROVE u[j] = Byte(s, (k + a) + j)
    OBVIOUS
  <2>1. a + j \in 1..n /\ k + (a + j) = (k + a) + j
    OBVIOUS
  <2>2. q[a + j] = Byte(s, k + (a + j))
    BY <2>1, <1>1
  <2> QED
    BY <2>1, <2>2, <1>2
<1>4. \A j \in 1..m : u[j] = Byte(s, o + j)
  BY <1>3
<1>5. u = Bytes(s, o, m)
  BY <1>2, <1>4, IsStretch
<1> QED
  BY <1>5 DEF u, q, Cut

\* A table of n parts that are the stretches of a container between its cuts.
Table(p, s, n, cut) ==
    /\ rd[p].idx = n /\ cut[0] = 0
    /\ \A i \in 1..n : /\ cut[i - 1] <= cut[i]
                       /\ Slice(p, i) = Bytes(s, cut[i - 1], cut[i] - cut[i - 1])

\* It covers total bytes.
TableTo(p, s, n, cut, total) ==
    n \in Nat \ {0} /\ cut \in [0..n -> Nat] /\ Table(p, s, n, cut) /\ cut[n] = total

\* Each part begins at its cut.
LEMMA StartIs ==
    ASSUME NEW p, NEW s \in Nat, NEW n \in Nat \ {0}, NEW cut \in [0..n -> Nat],
           Table(p, s, n, cut), NEW i \in 1..n
    PROVE  Start(p, i) = cut[i - 1]
<1> DEFINE Def(q) == [k \in 1..i |-> IF k = 1 THEN 0 ELSE q[k - 1] + Len(Slice(p, k - 1))]
           g == [k \in 1..i |-> cut[k - 1]]
<1>1. \A k \in 1..i : g[k] = IF k = 1 THEN 0 ELSE g[k - 1] + Len(Slice(p, k - 1))
  <2> SUFFICES ASSUME NEW k \in 1..i
               PROVE  g[k] = IF k = 1 THEN 0 ELSE g[k - 1] + Len(Slice(p, k - 1))
    OBVIOUS
  <2>1. g[k] = cut[k - 1]
    OBVIOUS
  <2>2. CASE k = 1
    BY <2>1, <2>2 DEF Table
  <2>3. CASE k # 1
    <3>1. k - 1 \in 1..n /\ k - 1 \in 1..i /\ k - 1 \in 0..n /\ (k - 1) - 1 \in 0..n
      BY <2>3
    <3>2. g[k - 1] = cut[(k - 1) - 1]
      BY <3>1
    <3>3. PICK a \in Nat, b \in Nat : a = cut[(k - 1) - 1] /\ b = cut[k - 1]
      BY <3>1
    <3>4. a <= b /\ Slice(p, k - 1) = Bytes(s, a, b - a)
      BY <3>1, <3>3 DEF Table
    <3>5. PICK d \in Nat : d = b - a
      BY <3>4
    <3>6. Len(Bytes(s, a, d)) = d
      BY BytesAre
    <3>7. Len(Slice(p, k - 1)) = d
      BY <3>4, <3>5, <3>6
    <3>8. g[k] = b /\ g[k - 1] = a /\ b = a + d
      BY <2>1, <3>2, <3>3, <3>5
    <3> QED
      BY <2>3, <3>7, <3>8
  <2> QED
    BY <2>2, <2>3
<1>2. g = [k \in 1..i |-> IF k = 1 THEN 0 ELSE g[k - 1] + Len(Slice(p, k - 1))]
  <2> DEFINE r(k) == IF k = 1 THEN 0 ELSE g[k - 1] + Len(Slice(p, k - 1))
  <2>1. g = [k \in 1..i |-> g[k]]
    OBVIOUS
  <2>2. \A k \in 1..i : g[k] = r(k)
    BY <1>1
  <2> HIDE DEF g, r
  <2>3. g = [k \in 1..i |-> r(k)]
    BY <2>1, <2>2
  <2> QED
    BY <2>3 DEF r
<1>5. g[i] = cut[i - 1]
  OBVIOUS
<1> HIDE DEF g
<1>3. PICK f : f = Def(f) /\ Start(p, i) = f[i]
  BY <1>2, Zenon DEF Start
<1>6. \A k \in 1..i : f[k] = IF k = 1 THEN 0 ELSE f[k - 1] + Len(Slice(p, k - 1))
  BY <1>3, Zenon
<1> DEFINE Apart == {k \in 1..i : f[k] # g[k]}
<1>7. Apart = {}
  <2>1. SUFFICES ASSUME Apart # {} PROVE FALSE
    OBVIOUS
  <2>2. Apart \in SUBSET Nat
    OBVIOUS
  <2>3. PICK k \in Apart : \A j \in Apart : ~(j < k)
    BY <2>1, <2>2, LeastOf
  <2>4. k \in 1..i /\ f[k] # g[k]
    BY <2>3
  <2>5. k # 1
    BY <1>1, <1>6, <2>4
  <2>6. k - 1 \in 1..i /\ k - 1 < k
    BY <2>4, <2>5
  <2>7. f[k - 1] = g[k - 1]
    BY <2>3, <2>6
  <2> QED
    BY <1>1, <1>6, <2>4, <2>5, <2>7
<1>8. i \in 1..i
  OBVIOUS
<1>9. f[i] = g[i]
  BY <1>7, <1>8
<1> QED
  BY <1>3, <1>5, <1>9, Zenon


\* What part i of a table covers.
LEMMA Covers ==
    ASSUME NEW p, NEW s \in Nat, NEW n \in Nat \ {0}, NEW cut \in [0..n -> Nat],
           Table(p, s, n, cut), NEW i \in 1..n
    PROVE  /\ Start(p, i) = cut[i - 1] /\ Start(p, i) + Len(Slice(p, i)) = cut[i]
           /\ cut[i - 1] \in Nat /\ cut[i] \in Nat /\ cut[i - 1] <= cut[i]
           /\ \A o \in Nat : Holds(p, i, o) <=> cut[i - 1] <= o /\ o < cut[i]
<1>1. i - 1 \in 0..n /\ i \in 0..n
  OBVIOUS
<1>2. PICK a \in Nat, b \in Nat : a = cut[i - 1] /\ b = cut[i]
  BY <1>1
<1>3. a <= b /\ Slice(p, i) = Bytes(s, a, b - a)
  BY <1>2 DEF Table
<1>4. PICK d \in Nat : d = b - a
  BY <1>3
<1>5. Len(Slice(p, i)) = d
  <2>1. Len(Bytes(s, a, d)) = d
    BY BytesAre
  <2> QED
    BY <2>1, <1>3, <1>4
<1>6. Start(p, i) = a
  BY <1>2, StartIs
<1>7. Start(p, i) + Len(Slice(p, i)) = b
  BY <1>4, <1>5, <1>6
<1> QED
  BY <1>2, <1>3, <1>6, <1>7 DEF Holds

\* Some part holds every offset of the container, and the first that does is the
\* one the search ends at.
LEMMA HolderIs ==
    ASSUME NEW p, NEW s \in Nat, NEW n \in Nat \ {0}, NEW cut \in [0..n -> Nat],
           Table(p, s, n, cut), NEW o \in Nat, o < cut[n]
    PROVE  Holder(p, o) \in 1..n /\ Holds(p, Holder(p, o), o)
<1> DEFINE T == {i \in 1..n : o < cut[i]}
<1>1. T \in SUBSET Nat /\ n \in T
  OBVIOUS
<1>2. PICK i \in T : \A j \in T : ~(j < i)
  BY <1>1, LeastOf
<1>3. i \in 1..n /\ o < cut[i]
  BY <1>2
<1>4. cut[i - 1] <= o
  <2>1. CASE i = 1
    <3>1. i - 1 = 0 /\ cut[0] = 0
      BY <2>1 DEF Table
    <3> QED
      BY <3>1
  <2>2. CASE i # 1
    <3>1. i - 1 \in 1..n /\ i - 1 < i
      BY <1>3, <2>2
    <3>2. ~(o < cut[i - 1]) /\ cut[i - 1] \in Nat
      BY <3>1, <1>2
    <3> QED
      BY <3>2
  <2> QED
    BY <2>1, <2>2
<1>5. Holds(p, i, o)
  BY <1>3, <1>4, Covers
<1>6. ASSUME NEW j \in 1..(i - 1) PROVE ~Holds(p, j, o)
  <2>1. j \in 1..n /\ j < i
    BY <1>3
  <2>2. ~(o < cut[j])
    BY <2>1, <1>2
  <2> QED
    BY <2>1, <2>2, Covers
<1>7. rd[p].idx = n
  BY DEF Table
<1>8. \E k \in 1..rd[p].idx : Holds(p, k, o) /\ \A j \in 1..(k - 1) : ~Holds(p, j, o)
  BY <1>3, <1>5, <1>6, <1>7
<1>9. Holder(p, o) \in 1..rd[p].idx /\ Holds(p, Holder(p, o), o)
  BY <1>8, Zenon DEF Holder
<1> QED
  BY <1>7, <1>9

\* What the part that holds an offset gives: bytes of the container from there on,
\* at least one and no more than were asked for.
LEMMA GivenIs ==
    ASSUME NEW p, NEW s \in Nat, NEW n \in Nat \ {0}, NEW cut \in [0..n -> Nat],
           Table(p, s, n, cut), NEW o \in Nat, NEW i \in 1..n, Holds(p, i, o),
           NEW end \in Nat, o < end, NEW m, m = Available(p, i, o, end)
    PROVE  m \in 1..(end - o) /\ Given(p, i, o, m) = Bytes(s, o, m)
<1>1. i - 1 \in 0..n /\ i \in 0..n
  OBVIOUS
<1>2. PICK a \in Nat, b \in Nat : a = cut[i - 1] /\ b = cut[i]
  BY <1>1
<1>3. Slice(p, i) = Bytes(s, a, b - a)
  BY <1>2 DEF Table
<1>4. Start(p, i) = a /\ Start(p, i) + Len(Slice(p, i)) = b /\ a <= o /\ o < b
  BY <1>2, Covers
<1>5. m = Least(b - o, end - o)
  BY <1>4 DEF Available
<1>6. m \in Nat /\ m >= 1 /\ m <= b - o /\ m <= end - o
  BY <1>4, <1>5 DEF Least
<1>7. PICK d \in Nat, e \in Nat : d = o - a /\ e = b - a
  BY <1>4
<1>8. d + m <= e /\ a + d = o
  BY <1>4, <1>6, <1>7
<1>9. Cut(Bytes(s, a, e), d + 1, d + m) = Bytes(s, o, m)
  <2>1. PICK x \in Nat, y \in Nat : x = d + 1 /\ y = d + m
    <3>1. d + 1 \in Nat /\ d + m \in Nat
      BY <1>6, <1>7
    <3> QED
      BY <3>1
  <2>2. m \in Nat /\ d + m <= e /\ o = a + d
    BY <1>6, <1>8
  <2>3. Cut(Bytes(s, a, e), x, y) = Bytes(s, o, m)
    BY <2>1, <2>2, StretchOf
  <2> QED
    BY <2>1, <2>3
<1>10. o - Start(p, i) = d /\ Slice(p, i) = Bytes(s, a, e)
  BY <1>3, <1>4, <1>7
<1>11. Given(p, i, o, m) = Cut(Bytes(s, a, e), d + 1, d + m)
  BY <1>10 DEF Given, Cut
<1>12. m \in 1..(end - o)
  BY <1>6
<1> QED
  BY <1>9, <1>11, <1>12

\* A request that ends inside the container.
Inside(off, len, total) == off + len <= total

\* The turns of the loop join to the stretch that was asked for.
LEMMA VolGetIs ==
    ASSUME NEW p, NEW s \in Nat, NEW n, NEW cut, NEW total, TableTo(p, s, n, cut, total),
           NEW off \in Nat, NEW len \in Nat, Inside(off, len, total)
    PROVE  VolGet(p, off, len) = Bytes(s, off, len)
<1> DEFINE end == off + len
           Over(o) == \/ o = end
                       \/ \A j \in 1..rd[p].idx : ~Holds(p, j, o)
                       \/ Available(p, Holder(p, o), o, end) = 0
           More(o) == Available(p, Holder(p, o), o, end)
           Turn(o) == Given(p, Holder(p, o), o, More(o))
           Def(q) == [o \in 0..end |-> IF Over(o) THEN <<>> ELSE Cat(Turn(o), q[o + More(o)])]
           g == [o \in 0..end |-> Bytes(s, o, end - o)]
<1>e. end \in Nat
  OBVIOUS
<1>t. n \in Nat \ {0} /\ cut \in [0..n -> Nat] /\ Table(p, s, n, cut) /\ end <= cut[n]
  BY DEF Inside, TableTo
<1>2. ASSUME NEW o \in 0..end, o # end
      PROVE  ~Over(o) /\ More(o) \in 1..(end - o) /\ Turn(o) = Bytes(s, o, More(o))
  <2>1. o \in Nat /\ o < end /\ o < cut[n]
    <3>1. cut[n] \in Nat
      BY <1>t
    <3> HIDE DEF end
    <3> QED
      BY <1>2, <1>e, <1>t, <3>1
  <2>2. Holder(p, o) \in 1..n /\ Holds(p, Holder(p, o), o)
    BY <1>t, <2>1, HolderIs
  <2>3. rd[p].idx = n
    BY <1>t DEF Table
  <2> DEFINE i == Holder(p, o)
             m == Available(p, i, o, end)
  <2>4. m \in 1..(end - o) /\ Given(p, i, o, m) = Bytes(s, o, m)
    <3> HIDE DEF i, end
    <3>1. i \in 1..n /\ Holds(p, i, o)
      BY <2>2 DEF i
    <3> HIDE DEF m
    <3>2. m = Available(p, i, o, end)
      BY DEF m
    <3> QED
      BY <1>e, <1>t, <2>1, <3>1, <3>2, GivenIs
  <2>5. More(o) = m /\ Turn(o) = Given(p, i, o, m)
    OBVIOUS
  <2>6. ~Over(o)
    <3> HIDE DEF end
    <3>1. m # 0
      BY <2>4, <1>e
    <3> QED
      BY <1>2, <2>2, <2>3, <3>1
  <2> HIDE DEF i, m, More, Turn, Over, end
  <2> QED
    BY <2>4, <2>5, <2>6
<1>3. Over(end)
  OBVIOUS
<1> HIDE DEF Over, More, Turn
<1>4. \A o \in 0..end : g[o] = IF Over(o) THEN <<>> ELSE Cat(Turn(o), g[o + More(o)])
  <2> SUFFICES ASSUME NEW o \in 0..end
               PROVE  g[o] = IF Over(o) THEN <<>> ELSE Cat(Turn(o), g[o + More(o)])
    OBVIOUS
  <2>1. CASE o = end
    <3>1. g[o] = Bytes(s, end, 0)
      BY <2>1
    <3>2. Bytes(s, end, 0) = <<>>
      <4>1. Bytes(s, end, 0) \in Seq(BytesOf(s)) /\ Len(Bytes(s, end, 0)) = 0
        BY <1>e, BytesAre
      <4> QED
        BY <4>1, EmptySeq
    <3> QED
      BY <2>1, <3>1, <3>2, <1>3
  <2>2. CASE o # end
    <3>1. ~Over(o) /\ More(o) \in 1..(end - o) /\ Turn(o) = Bytes(s, o, More(o))
      BY <2>2, <1>2
    <3>2. PICK m \in Nat : m = More(o) /\ m >= 1 /\ o + m <= end
      BY <3>1
    <3>3. PICK u \in Nat, v \in Nat, w \in Nat : u = o + m /\ v = end - u /\ w = end - o
      BY <3>2
    <3>4. u = o + m /\ w = m + v /\ o \in Nat
      BY <3>3
    <3>5. Cat(Bytes(s, o, m), Bytes(s, u, v)) = Bytes(s, o, w)
      BY <3>4, BytesJoin
    <3>6. u \in 0..end /\ g[o] = Bytes(s, o, w) /\ g[u] = Bytes(s, u, v)
      BY <3>2, <3>3
    <3> HIDE DEF g, end
    <3>7. g[o + More(o)] = g[u] /\ Turn(o) = Bytes(s, o, m)
      BY <3>1, <3>2, <3>3
    <3> QED
      BY <3>1, <3>5, <3>6, <3>7
  <2> QED
    BY <2>1, <2>2
<1>5. g = [o \in 0..end |-> IF Over(o) THEN <<>> ELSE Cat(Turn(o), g[o + More(o)])]
  <2> DEFINE r(o) == IF Over(o) THEN <<>> ELSE Cat(Turn(o), g[o + More(o)])
  <2>1. g = [o \in 0..end |-> g[o]]
    OBVIOUS
  <2>2. \A o \in 0..end : g[o] = r(o)
    BY <1>4
  <2> HIDE DEF g, r, end
  <2>3. g = [o \in 0..end |-> r(o)]
    BY <2>1, <2>2
  <2> QED
    BY <2>3 DEF r
<1>7. g[off] = Bytes(s, off, len)
  <2>1. off \in 0..end /\ end - off = len
    OBVIOUS
  <2> QED
    BY <2>1
<1> HIDE DEF g
<1>1. PICK f : f = Def(f) /\ VolGet(p, off, len) = f[off]
  BY <1>5, Zenon DEF VolGet, Cat, Over, More, Turn
<1>8. \A o \in 0..end : f[o] = IF Over(o) THEN <<>> ELSE Cat(Turn(o), f[o + More(o)])
  BY <1>1, Zenon
<1> DEFINE Apart == {o \in 0..end : f[o] # g[o]}
<1>9. Apart = {}
  <2> DEFINE Far == {end - o : o \in Apart}
  <2>1. SUFFICES ASSUME Apart # {} PROVE FALSE
    OBVIOUS
  <2> HIDE DEF end
  <2>2. Far \in SUBSET Nat /\ Far # {}
    BY <1>e, <2>1
  <2>3. PICK x \in Far : \A y \in Far : ~(y < x)
    BY <2>2, LeastOf
  <2>4. PICK o \in Apart : x = end - o
    BY <2>3
  <2>5. o \in 0..end /\ f[o] # g[o]
    BY <2>4
  <2>6. CASE o = end
    BY <2>5, <2>6, <1>3, <1>4, <1>8
  <2>7. CASE o # end
    <3>1. ~Over(o) /\ More(o) \in 1..(end - o)
      BY <2>5, <2>7, <1>2
    <3>2. PICK u \in Nat : u = o + More(o) /\ u > o /\ u <= end
      BY <1>e, <2>5, <3>1
    <3>3. u \in 0..end /\ end - u < end - o
      BY <1>e, <2>5, <3>2
    <3>4. u \notin Apart
      BY <2>3, <2>4, <3>3
    <3>5. f[u] = g[u]
      BY <3>3, <3>4
    <3>6. f[o] = Cat(Turn(o), f[u]) /\ g[o] = Cat(Turn(o), g[u])
      BY <2>5, <3>1, <3>2, <1>4, <1>8
    <3> QED
      BY <2>5, <3>5, <3>6
  <2> QED
    BY <2>6, <2>7
<1> QED
  <2>1. off \in 0..end
    OBVIOUS
  <2> HIDE DEF end
  <2>2. f[off] = g[off]
    BY <2>1, <1>9
  <2> QED
    BY <2>2, <1>1, <1>7


\* The table of a set that is open: n parts of one set, the last of them final.
WholeSet(p, s, limit, n) ==
    /\ n = rd[p].idx /\ Sliced(rd[p].base, s, limit)
    /\ \A i \in 1..n : HasHdr(Part(rd[p].base, i), s)
    /\ Ends(Part(rd[p].base, n))

\* It is the container, cut at the multiples of the limit.
LEMMA TableIs ==
    ASSUME VolumeAssumption, DiskTypes, NEW p, NEW s \in Nat, NEW limit \in Nat,
           NEW n \in 1..MaxParts, WholeSet(p, s, limit, n)
    PROVE  whole[s] \in Nat /\ \E cut : TableTo(p, s, n, cut, whole[s])
<1> DEFINE b == rd[p].base
           size(i) == Len(disk[Part(b, i)]) - 1
           cut == [i \in 0..n |-> IF i = n THEN whole[s] ELSE Offset(i + 1, limit)]
<1>b. /\ n = rd[p].idx /\ Sliced(b, s, limit)
      /\ \A i \in 1..n : HasHdr(Part(b, i), s)
      /\ Ends(Part(b, n)) /\ b = rd[p].base
  BY DEF WholeSet
<1> HIDE DEF b
<1>1. /\ \A i \in 1..n : i \in Index /\ i \in Nat \ {0}
      /\ n \in 1..n /\ n \in Nat \ {0}
  BY DEF Index, VolumeAssumption
<1>2. ASSUME NEW i \in 1..n
      PROVE  /\ size(i) \in Nat /\ Offset(i, limit) \in Nat
             /\ Offset(i + 1, limit) = Offset(i, limit) + limit
             /\ Slice(p, i) = Bytes(s, Offset(i, limit), size(i))
  <2>1. Part(b, i) \in DOMAIN disk /\ Len(disk[Part(b, i)]) >= 1
    BY <1>b DEF HasHdr
  <2>2. size(i) \in Nat /\ Len(disk[Part(b, i)]) = size(i) + 1
    BY <2>1, FileIs
  <2>3. From(Part(b, i), 2, s, Offset(i, limit))
    BY <1>b, <1>1 DEF Sliced
  <2>4. /\ Offset(i, limit) \in Nat
        /\ Offset(i + 1, limit) = Offset(i, limit) + limit
    BY <1>1, Offsets
  <2>5. Tail(disk[Part(b, i)]) = Bytes(s, Offset(i, limit), size(i))
    BY <2>1, <2>2, <2>3, <2>4, PartIsStretch
  <2> QED
    BY <1>b, <2>2, <2>4, <2>5 DEF Slice
<1>3. \A i \in 1..(n - 1) : size(i) = limit
  BY <1>b, <1>1 DEF Sliced
<1>4. s \in DOMAIN whole /\ whole[s] = Offset(n, limit) + size(n)
  BY <1>b, <1>1 DEF Sliced
<1>5. whole[s] \in Nat
  BY <1>1, <1>2, <1>4
<1> HIDE DEF size
<1>6. cut \in [0..n -> Nat] /\ cut[n] = whole[s] /\ cut[0] = 0
  <2>1. \A i \in 0..n : i # n => Offset(i + 1, limit) \in Nat
    <3> SUFFICES ASSUME NEW i \in 0..n, i # n PROVE Offset(i + 1, limit) \in Nat
      OBVIOUS
    <3>1. i + 1 \in Nat \ {0}
      OBVIOUS
    <3> QED
      BY <3>1, Offsets
  <2>2. Offset(1, limit) = 0
    BY <1>1, Offsets
  <2>3. 0 \in 0..n /\ 0 # n /\ 0 + 1 = 1 /\ n \in 0..n
    BY <1>1
  <2> QED
    BY <2>1, <2>2, <2>3, <1>5
<1>7. ASSUME NEW i \in 1..n
      PROVE  /\ cut[i - 1] <= cut[i]
             /\ Slice(p, i) = Bytes(s, cut[i - 1], cut[i] - cut[i - 1])
  <2>1. i - 1 \in 0..n /\ i - 1 # n /\ (i - 1) + 1 = i /\ i \in 0..n
    OBVIOUS
  <2>2. cut[i - 1] = Offset(i, limit)
    BY <2>1
  <2>3. cut[i] = Offset(i, limit) + size(i)
    <3>1. CASE i = n
      BY <3>1, <1>4, <1>6
    <3>2. CASE i # n
      <4>1. size(i) = limit
        BY <3>2, <1>3
      <4> QED
        BY <2>1, <3>2, <4>1, <1>2
    <3> QED
      BY <3>1, <3>2
  <2>4. PICK a \in Nat, z \in Nat : a = Offset(i, limit) /\ z = size(i)
    BY <1>2
  <2>5. cut[i] - cut[i - 1] = size(i) /\ cut[i - 1] <= cut[i]
    BY <2>2, <2>3, <2>4
  <2> QED
    BY <2>2, <2>5, <1>2
<1> HIDE DEF cut
<1>8. Table(p, s, n, cut)
  BY <1>b, <1>6, <1>7 DEF Table
<1>9. TableTo(p, s, n, cut, whole[s])
  BY <1>1, <1>6, <1>8 DEF TableTo
<1> QED
  BY <1>5, <1>9

LEMMA ReadsHold ==
    ASSUME VolumeAssumption, Typed, SetsInv, ReadersInv
    PROVE  VolGetIsTheContainer
<1> SUFFICES ASSUME NEW p \in Procs, rd[p].st = "on"
             PROVE  \A o \in 0..(whole[rd[p].sid] - 1) : \A m \in 1..(whole[rd[p].sid] - o) :
                        VolGet(p, o, m) = Bytes(rd[p].sid, o, m)
  BY DEF VolGetIsTheContainer
<1> DEFINE b == rd[p].base
           s == rd[p].sid
           n == rd[p].idx
<1>1. n \in 0..MaxParts /\ s \in Nat /\ ReaderInv(p)
  BY ReaderIs DEF Typed, ReadersInv
<1>2. n \in 1..MaxParts /\ b \in Bases /\ s \in 1..runs
  BY <1>1 DEF ReaderInv, VolumeAssumption
<1>3. \A i \in 1..n : HasHdr(Part(b, i), s)
  BY <1>1 DEF ReaderInv
<1>4. n \in 1..n
  BY <1>2
<1>5. Ends(Part(b, n))
  BY <1>1, <1>4 DEF ReaderInv
<1>6. PICK limit \in Limits \cup {0} : Sliced(b, s, limit)
  BY <1>2 DEF SetsInv
<1>7. limit \in Nat
  BY DEF VolumeAssumption
<1>8. b = rd[p].base /\ n = rd[p].idx
  OBVIOUS
<1> HIDE DEF b, s, n
<1>9. whole[s] \in Nat /\ \E cut : TableTo(p, s, n, cut, whole[s])
  <2>1. WholeSet(p, s, limit, n)
    BY <1>3, <1>5, <1>6, <1>8 DEF WholeSet
  <2> QED
    BY <2>1, <1>1, <1>2, <1>7, TableIs DEF Typed
<1>10. PICK cut : TableTo(p, s, n, cut, whole[s])
  BY <1>9
<1>11. ASSUME NEW o \in 0..(whole[s] - 1), NEW m \in 1..(whole[s] - o)
       PROVE  VolGet(p, o, m) = Bytes(s, o, m)
  <2>1. o \in Nat /\ m \in Nat /\ Inside(o, m, whole[s])
    BY <1>9 DEF Inside
  <2> QED
    BY <2>1, <1>1, <1>10, VolGetIs
<1> QED
  BY <1>11 DEF s

\* vol_get gives the bytes of the container that was opened, for every offset and
\* length inside it, across every cut, whatever the writer does meanwhile.
THEOREM ReadsAreTheContainer == Spec => []VolGetIsTheContainer
<1>1. IInv => VolGetIsTheContainer
  BY VolumeAssumption, ReadsHold DEF IInv
<1> QED
  BY <1>1, Invariant, PTL

=============================================================================

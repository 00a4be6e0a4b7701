-------------------------- MODULE FrameCheck_proofs ---------------------------
(***************************************************************************)
(* For every procedure, and every length of it: the frame framecheck       *)
(* computes never exceeds the machine's, and a clean verdict means that    *)
(* the frame holds.  A raw procedure is judged line by line, a framed one  *)
(* at its end, so the inductive invariant says of the first that no harm   *)
(* has been passed over and of the second that every harm done is no wider *)
(* than the widest calls the scanner remembers.                            *)
(***************************************************************************)
EXTENDS FrameCheck, TLAPS

Silent == Judged(proc) /\ results = {} /\ <<"return", "far exit">> \notin hurt

\* raw: whatever has been done so far is harmless, reported or out of the rules
RawInv ==
  (Raw /\ Silent) => hurt \subseteq Unjudged(proc) \cup (IF mixed THEN {<<"return", "exit">>} ELSE {})

WideHarm == \A by \in {"extern", "internal"} :
  /\ <<"return", by>> \in hurt => widest > 4 /\ Span(widest) > depth
  /\ <<"local", by>>  \in hurt => proc.loc > 0 /\ widest > 4 /\ Span(widest) > depth - proc.loc
  /\ <<"canary", by>> \in hurt => widest > 4 /\ Span(widest) > depth - 8

HomeHarm ==
  /\ <<"return", "short call">> \in hurt => worst > depth
  /\ <<"local", "short call">>  \in hurt => proc.loc > 0 /\ worst > 0 /\ worst > depth - proc.loc
  /\ <<"canary", "short call">> \in hurt => worst > depth - 8

\* framed: the frame never moves, and no harm is wider than the widest calls
FramedInv ==
  ~Raw => /\ depth = Alloc(proc.size)
          /\ WideHarm /\ HomeHarm
          /\ \A h \in {"return", "local", "canary", "argument"} :
               <<h, "exit">> \notin hurt /\ <<h, "far exit">> \notin hurt
          /\ \A h \in {"return", "canary", "argument"} : <<h, "inner call">> \notin hurt
          /\ <<"argument", "store">> \notin hurt /\ <<"argument", "short call">> \notin hurt
          /\ Silent => <<"argument", "extern">> \notin hurt

IInv == TypeOK /\ NeverOverstated /\ RawInv /\ FramedInv /\ FramesHold

-----------------------------------------------------------------------------

\* The rounded frame has room for the canary.
LEMMA AllocType == \A n \in Nat : Alloc(n) \in Nat /\ Alloc(n) >= 8
  BY DEF Alloc

\* An outgoing area is at least the home space, and grows with the arguments.
LEMMA SpanType ==
    \A n \in Nat : /\ Span(n) \in Nat /\ Span(n) >= 32
                   /\ \A m \in Nat : m <= n => Span(m) <= Span(n)
  BY DEF Span

\* What a procedure record is made of.
LEMMA ProcType == ASSUME TypeOK
                  PROVE /\ proc.shape \in {"raw", "framed"} /\ proc.size \in Nat
                        /\ proc.loc \in Nat /\ proc.at \in Nat /\ proc.known \in BOOLEAN
  BY FrameCheckAssumption DEF TypeOK, ProcRecords

\* What a write is said to reach is a set of harms.
LEMMA ReachesType ==
    ASSUME NEW e \in Int, NEW l \in Int,
           NEW by \in {"extern", "internal", "short call", "inner call", "store", "exit", "far exit"}
    PROVE  Reaches(e, l, by) \subseteq Harms
<1>1. <<"return", by>> \in Harms /\ <<"local", by>> \in Harms /\ <<"canary", by>> \in Harms
  BY DEF Harms
<1> QED
  BY <1>1, Zenon DEF Reaches

\* Findings only accumulate, and stay severities.
LEMMA ReportType ==
    ASSUME results \subseteq {"warn", "FATAL"}, NEW f, f \subseteq {"warn", "FATAL"}, Report(f)
    PROVE  /\ results' \subseteq {"warn", "FATAL"} /\ results \subseteq results'
           /\ Judged(proc) => f \subseteq results'
  BY DEF Report

\* A harm is a pair of what was harmed and what did it.
LEMMA HarmForm ==
    ASSUME NEW h \in Harms
    PROVE  \E w \in {"return", "local", "canary", "argument"},
              by \in {"extern", "internal", "short call", "inner call", "store", "exit", "far exit"} :
              h = <<w, by>>
<1> DEFINE A == {"return", "local", "canary", "argument"}
           B == {"extern", "internal", "short call", "inner call", "store", "exit", "far exit"}
<1>1. h \in A \X B
  BY Zenon DEF Harms
<1> HIDE DEF A, B
<1>2. h = <<h[1], h[2]>> /\ h[1] \in A /\ h[2] \in B
  BY <1>1
<1>3. \E w \in A, by \in B : h = <<w, by>>
  BY <1>2, Zenon
<1> QED
  BY <1>3 DEF A, B

(* A judged depth is passed, warned about or fatal: nothing else (scan_file). *)
LEMMA SeverityType == \A e, l, f : Severity(e, l, f) \subseteq {"warn", "FATAL"}
  BY DEF Severity

\* The invariant holds when a procedure begins.
LEMMA InitInv == Init => IInv
<1> SUFFICES ASSUME Init PROVE IInv
  OBVIOUS
<1>1. /\ proc.shape \in {"raw", "framed"} /\ proc.size \in Nat
      /\ proc.loc \in Nat /\ proc.at \in Nat /\ proc.known \in BOOLEAN
  BY FrameCheckAssumption DEF Init, ProcRecords
<1>2. TypeOK
  <2>1. depth \in Nat
    BY <1>1, AllocType DEF Init, EntryDepth
  <2>2. lines \in 0..MaxLines
    BY FrameCheckAssumption DEF Init
  <2>3. results \subseteq {"warn", "FATAL"}
    BY DEF Init
  <2>4. extra \in Int /\ widest \in Nat /\ worst \in Nat
    BY DEF Init
  <2>5. open \in BOOLEAN /\ mixed \in BOOLEAN /\ hurt \subseteq Harms /\ proc \in Procs
    BY Zenon DEF Init
  <2> QED
    BY <2>1, <2>2, <2>3, <2>4, <2>5, Zenon DEF TypeOK
<1>3. NeverOverstated
  BY <1>1 DEF Init, NeverOverstated, Raw, FrameNow, EntryDepth
<1>4. RawInv /\ FramedInv /\ FramesHold
  BY <1>1 DEF Init, RawInv, FramedInv, FramesHold, WideHarm, HomeHarm, EntryDepth, Raw
<1> QED
  BY <1>2, <1>3, <1>4 DEF IInv

-----------------------------------------------------------------------------

\* Widening and narrowing move the frame and the scanner's total alike.
LEMMA ShiftInv ==
    ASSUME IInv, NEW k \in Int, Raw, Line, depth + k \in Nat,
           depth' = depth + k, extra' = extra + k,
           hurt' = hurt, mixed' = mixed, widest' = widest, worst' = worst, results' = results
    PROVE  IInv'
<1>0. TypeOK
  BY DEF IInv
<1>p. proc.size \in Nat /\ proc' = proc /\ open' = open
  BY <1>0, ProcType DEF Line
<1>1. TypeOK'
  <2>1. lines' \in 0..MaxLines
    BY <1>0, FrameCheckAssumption DEF Line, TypeOK
  <2>2. depth' \in Nat /\ extra' \in Int
    BY <1>0 DEF TypeOK
  <2> QED
    BY <1>0, <1>p, <2>1, <2>2, Zenon DEF TypeOK
<1>2. NeverOverstated'
  <2>1. FrameNow' = FrameNow + k
    BY <1>0, <1>p DEF TypeOK, FrameNow
  <2>2. FrameNow \in Int /\ depth \in Nat
    BY <1>0, <1>p DEF TypeOK, FrameNow
  <2>3. (FrameNow = depth => FrameNow' = depth') /\ (FrameNow + 8 <= depth => FrameNow' + 8 <= depth')
    BY <2>1, <2>2
  <2> QED
    BY <1>p, <2>3, Zenon DEF IInv, NeverOverstated, Raw
<1>3. RawInv' /\ FramedInv' /\ FramesHold'
  BY <1>p DEF IInv, RawInv, FramedInv, FramesHold, Silent, Raw, Line
<1> QED
  BY <1>1, <1>2, <1>3 DEF IInv

\* A line that moves nothing and takes no finding back keeps what the scanner
\* believes of the frame.
LEMMA StillInv ==
    ASSUME IInv, Line, depth' = depth, extra' = extra, mixed' = mixed,
           results \subseteq results', hurt \subseteq hurt'
    PROVE  /\ NeverOverstated' /\ FramesHold'
           /\ proc' = proc /\ open' = open /\ lines' \in 0..MaxLines
<1>0. TypeOK
  BY DEF IInv
<1>1. proc' = proc /\ open' = open /\ open
  BY DEF Line
<1>2. lines' \in 0..MaxLines
  BY <1>0, FrameCheckAssumption DEF Line, TypeOK
<1>3. FrameNow' = FrameNow
  BY <1>1 DEF FrameNow
<1>4. NeverOverstated'
  BY <1>1, <1>3, Zenon DEF IInv, NeverOverstated, Raw
<1>5. FramesHold'
  BY <1>1, Zenon DEF FramesHold
<1> QED
  BY <1>1, <1>2, <1>4, <1>5

\* In a raw procedure without a finding the scanner's frame is the machine's, or
\* at least a slot smaller.
LEMMA FrameBelow ==
    ASSUME TypeOK, NeverOverstated, Raw, Silent
    PROVE  /\ FrameNow \in Int /\ depth \in Nat /\ proc.loc \in Nat
           /\ FrameNow = depth \/ FrameNow + 8 <= depth
           /\ FrameNow <= depth
<1>1. FrameNow \in Int /\ depth \in Nat /\ proc.loc \in Nat
  BY ProcType DEF TypeOK, FrameNow
<1>2. FrameNow = depth \/ FrameNow + 8 <= depth
  BY Zenon DEF NeverOverstated, Silent
<1> QED
  BY <1>1, <1>2

\* A write the scanner does not report reaches nothing, in a raw procedure whose
\* real frame is no smaller than the scanner's.
LEMMA HarmlessWrite ==
    ASSUME TypeOK, Raw, NEW e \in Int, NEW l \in Int, NEW m \in Int, NEW by,
           FrameNow <= depth, Severity(e, l, FrameNow) = {},
           l <= FrameNow - proc.loc => m <= depth - proc.loc
    PROVE  Reaches(e, m, by) = {}
<1>1. proc.loc \in Nat /\ FrameNow \in Int /\ depth \in Nat
  BY ProcType DEF TypeOK, FrameNow
<1>2. ~(e > FrameNow) /\ ~(l > FrameNow - proc.loc /\ proc.loc > 0)
  BY DEF Severity
<1>3. ~(e > depth) /\ ~(proc.loc > 0 /\ m > depth - proc.loc)
  BY <1>1, <1>2
<1> QED
  BY <1>3, Zenon DEF Reaches, Raw

\* The slot the scanner exempts is exempt for the machine too, or lies deep
\* enough: a frame taken for a slot smaller leaves a whole slot to spare.
LEMMA LiveEndSafe ==
    ASSUME NEW n \in Nat, n > 4, NEW src \in Nat, NEW loc \in Nat, src <= loc,
           NEW frame \in Int, NEW d \in Nat, frame = d \/ frame + 8 <= d,
           LiveEnd(n, src, frame) <= frame - loc
    PROVE  LiveEnd(n, src, d) <= d - loc
  BY DEF LiveEnd, LastSlot, Span

(* An explicit store to the outgoing area keeps the invariant. *)
LEMMA StoreInv ==
    ASSUME IInv, NEW k \in Nat, NEW size \in Nat, Store(k, size)
    PROVE  IInv'
<1> DEFINE found == IF Raw THEN Severity(k + size, k + size, FrameNow) ELSE {}
<1>0. TypeOK /\ Line /\ depth' = depth /\ extra' = extra /\ mixed' = mixed
      /\ widest' = widest /\ worst' = worst
      /\ hurt' = hurt \cup Reaches(k + size, k + size, "store") /\ Report(found)
  BY DEF IInv, Store
<1>1. found \subseteq {"warn", "FATAL"}
  BY SeverityType
<1>2. /\ results' \subseteq {"warn", "FATAL"} /\ results \subseteq results'
      /\ Judged(proc) => found \subseteq results'
  BY <1>0, <1>1, ReportType DEF TypeOK
<1>3. hurt' \subseteq Harms /\ hurt \subseteq hurt'
  <2>1. k + size \in Int /\ "store" \in
             {"extern", "internal", "short call", "inner call", "store", "exit", "far exit"}
    OBVIOUS
  <2>2. Reaches(k + size, k + size, "store") \subseteq Harms
    BY <2>1, ReachesType, Zenon
  <2> QED
    BY <1>0, <2>2, Zenon DEF TypeOK
<1>4. /\ NeverOverstated' /\ FramesHold'
      /\ proc' = proc /\ open' = open /\ lines' \in 0..MaxLines
  BY <1>0, <1>2, <1>3, StillInv
<1>5. TypeOK'
  BY <1>0, <1>2, <1>3, <1>4, Zenon DEF TypeOK
<1>6. RawInv'
  <2> SUFFICES ASSUME Raw, Silent' PROVE hurt' \subseteq Unjudged(proc) \cup (IF mixed THEN {<<"return", "exit">>} ELSE {})
    BY <1>0, <1>4, Zenon DEF RawInv, Raw
  <2>1. Silent /\ found = {}
    BY <1>2, <1>3, <1>4, Zenon DEF Silent
  <2>2. /\ FrameNow \in Int /\ depth \in Nat /\ proc.loc \in Nat
        /\ FrameNow <= depth
    BY <1>0, <2>1, FrameBelow DEF IInv
  <2>3. k + size \in Int /\ (k + size <= FrameNow - proc.loc => k + size <= depth - proc.loc)
    BY <2>2
  <2>4. Reaches(k + size, k + size, "store") = {}
    BY <1>0, <2>1, <2>2, <2>3, HarmlessWrite
  <2> QED
    BY <1>0, <2>1, <2>4, Zenon DEF IInv, RawInv
<1>7. FramedInv'
  <2>1. \A w, by : (by # "store" \/ w = "argument") => <<w, by>> \notin Reaches(k + size, k + size, "store")
    BY DEF Reaches
  <2>2. \A w, by : (by # "store" \/ w = "argument") => (<<w, by>> \in hurt' <=> <<w, by>> \in hurt)
    BY <1>0, <2>1, Zenon
  <2>3. Silent' => Silent
    BY <1>2, <1>3, <1>4, Zenon DEF Silent
  <2>4. SUFFICES ASSUME ~Raw PROVE FramedInv'
    BY <1>4, Zenon DEF FramedInv, Raw
  <2>5. depth' = Alloc(proc'.size)
    BY <1>0, <1>4, <2>4 DEF IInv, FramedInv
  <2>6. WideHarm'
    BY <1>0, <1>4, <2>2, <2>4 DEF IInv, FramedInv, WideHarm
  <2>7. HomeHarm'
    BY <1>0, <1>4, <2>2, <2>4 DEF IInv, FramedInv, HomeHarm
  <2> QED
    BY <2>2, <2>3, <2>4, <2>5, <2>6, <2>7 DEF IInv, FramedInv
<1> QED
  BY <1>4, <1>5, <1>6, <1>7 DEF IInv

(* A call with stack arguments keeps the invariant: in a framed procedure it
   only widens the widest call, in a raw one it is judged where it stands. *)
LEMMA WinCallInv ==
    ASSUME IInv, NEW n \in Nat, NEW callee \in {"extern", "internal"}, NEW src \in Nat,
           NEW rax \in BOOLEAN, WinCall(n, callee, src, rax)
    PROVE  IInv'
<1> DEFINE home  == IF callee = "extern" \/ n > 4 THEN Span(n) ELSE 0
           real  == IF n > 4 THEN LiveEnd(n, src, depth) ELSE home
           by    == IF n > 4 THEN callee
                    ELSE IF callee = "extern" THEN "short call" ELSE "inner call"
           wrong == n > 4 /\ rax
           harm  == Reaches(home, real, by) \cup (IF wrong THEN {<<"argument", by>>} ELSE {})
           found == IF Raw
                    THEN IF n > 4
                         THEN Severity(Span(n), LiveEnd(n, src, FrameNow), FrameNow) ELSE {}
                    ELSE IF callee = "extern" /\ wrong THEN {"FATAL"} ELSE {}
<1>0. /\ TypeOK /\ Line /\ src <= proc.loc
      /\ depth' = depth /\ extra' = extra /\ mixed' = mixed
      /\ hurt' = hurt \cup harm /\ Report(found)
      /\ Raw => widest' = widest /\ worst' = worst
      /\ ~Raw => /\ widest' = IF n > widest THEN n ELSE widest
                 /\ worst' = IF callee = "extern" /\ Span(n) > worst THEN Span(n) ELSE worst
  BY DEF IInv, WinCall
<1>n. /\ home \in Int /\ real \in Int /\ Span(n) \in Nat /\ Span(n) >= 32
      /\ proc.loc \in Nat /\ depth \in Nat /\ FrameNow \in Int
      /\ LiveEnd(n, src, depth) \in Int /\ LiveEnd(n, src, FrameNow) \in Int
      /\ n > 4 => LiveEnd(n, src, depth) <= Span(n)
  <2>1. Span(n) \in Nat /\ Span(n) >= 32
    BY SpanType
  <2>2. proc.loc \in Nat /\ depth \in Nat /\ FrameNow \in Int
    <3>1. proc.loc \in Nat /\ proc.size \in Nat
      BY <1>0, ProcType
    <3>2. depth \in Nat /\ extra \in Int
      BY <1>0 DEF TypeOK
    <3> QED
      BY <3>1, <3>2 DEF FrameNow
  <2>3. LiveEnd(n, src, depth) \in Int /\ LiveEnd(n, src, FrameNow) \in Int
    BY <2>1 DEF LiveEnd, LastSlot
  <2>4. n > 4 => LiveEnd(n, src, depth) <= Span(n)
    BY DEF LiveEnd, LastSlot, Span
  <2> QED
    BY <2>1, <2>2, <2>3, <2>4
<1>b. by \in {"extern", "internal", "short call", "inner call", "store", "exit", "far exit"}
  OBVIOUS
<1> HIDE DEF home, real, by, wrong, found
<1>1. found \subseteq {"warn", "FATAL"}
  BY SeverityType DEF found
<1>2. /\ results' \subseteq {"warn", "FATAL"} /\ results \subseteq results'
      /\ Judged(proc) => found \subseteq results'
  BY <1>0, <1>1, ReportType DEF TypeOK
<1>3. hurt' \subseteq Harms /\ hurt \subseteq hurt'
  <2>1. Reaches(home, real, by) \subseteq Harms
    BY <1>n, <1>b, ReachesType, Zenon
  <2>2. <<"argument", by>> \in Harms
    BY <1>b DEF Harms
  <2> QED
    BY <1>0, <2>1, <2>2, Zenon DEF TypeOK
<1>4. /\ NeverOverstated' /\ FramesHold'
      /\ proc' = proc /\ open' = open /\ lines' \in 0..MaxLines
  BY <1>0, <1>2, <1>3, StillInv
<1>5. TypeOK'
  <2>1. widest' \in Nat /\ worst' \in Nat
    BY <1>0, <1>n DEF TypeOK
  <2> QED
    BY <1>0, <1>2, <1>3, <1>4, <2>1, Zenon DEF TypeOK
<1>s. Silent' => Silent /\ found = {}
  BY <1>2, <1>3, <1>4, Zenon DEF Silent
<1>6. RawInv'
  <2> SUFFICES ASSUME Raw, Silent' PROVE harm \subseteq Unjudged(proc)
    BY <1>0, <1>4, <1>s, Zenon DEF IInv, RawInv, Raw
  <2>1. FrameNow = depth \/ FrameNow + 8 <= depth
    BY <1>0, <1>s, FrameBelow DEF IInv
  <2>2. CASE n > 4
    <3>1. Severity(Span(n), LiveEnd(n, src, FrameNow), FrameNow) = {}
      BY <1>s, <2>2 DEF found
    <3>2. LiveEnd(n, src, FrameNow) <= FrameNow - proc.loc => real <= depth - proc.loc
      BY <1>0, <1>n, <2>1, <2>2, LiveEndSafe DEF real
    <3>3. Reaches(home, real, by) = {}
      <4>1. home = Span(n) /\ FrameNow <= depth
        BY <1>n, <2>1, <2>2 DEF home
      <4> QED
        BY <1>0, <1>n, <3>1, <3>2, <4>1, HarmlessWrite
    <3>4. by \in {"extern", "internal"}
      BY <2>2 DEF by
    <3> QED
      BY <3>3, <3>4 DEF Unjudged, Raw
  <2>3. CASE ~(n > 4)
    <3>1. by \in {"short call", "inner call"} /\ ~wrong /\ (by = "inner call" => home = 0 /\ real = 0)
      BY <2>3 DEF by, wrong, home, real
    <3>2. ~(0 > depth)
      BY <1>n
    <3>3. \A w : <<w, by>> \in Reaches(home, real, by) =>
             \/ w \in {"return", "local"} /\ by = "short call"
             \/ w = "local" /\ by = "inner call"
      BY <3>1, <3>2, Zenon DEF Reaches, Raw
    <3>4. harm = Reaches(home, real, by)
      BY <3>1, Zenon
    <3>5. \A h \in Reaches(home, real, by) : \E w : h = <<w, by>>
      BY Zenon DEF Reaches
    <3>6. <<"local", "inner call">> \in Unjudged(proc)
      BY DEF Unjudged
    <3>7. <<"return", "short call">> \in Unjudged(proc) /\ <<"local", "short call">> \in Unjudged(proc)
      BY DEF Unjudged, Raw
    <3> QED
      BY <3>3, <3>4, <3>5, <3>6, <3>7, Zenon
  <2> QED
    BY <2>2, <2>3
<1>7. FramedInv'
  <2> SUFFICES ASSUME ~Raw PROVE FramedInv'
    BY <1>4, Zenon DEF FramedInv, Raw
  <2>1. widest' \in Nat /\ widest' >= widest /\ widest' >= n /\ worst' >= worst
        /\ (callee = "extern" => worst' >= Span(n)) /\ worst \in Nat /\ worst' \in Nat /\ widest \in Nat
    BY <1>0, <1>n DEF TypeOK
  <2>2. /\ Span(widest') \in Nat /\ Span(widest) \in Nat
        /\ Span(widest') >= Span(widest) /\ Span(widest') >= Span(n)
    BY <1>n, <2>1, SpanType
  <2>3. depth' = Alloc(proc'.size)
    BY <1>0, <1>4 DEF IInv, FramedInv
  <2>4. WideHarm'
    <3> SUFFICES ASSUME NEW w \in {"extern", "internal"} PROVE
            /\ <<"return", w>> \in hurt' => widest' > 4 /\ Span(widest') > depth
            /\ <<"local", w>> \in hurt' =>
                  proc.loc > 0 /\ widest' > 4 /\ Span(widest') > depth - proc.loc
            /\ <<"canary", w>> \in hurt' => widest' > 4 /\ Span(widest') > depth - 8
      BY <1>0, <1>4 DEF WideHarm
    <3>1. /\ <<"return", w>> \in hurt => widest > 4 /\ Span(widest) > depth
          /\ <<"local", w>> \in hurt =>
                proc.loc > 0 /\ widest > 4 /\ Span(widest) > depth - proc.loc
          /\ <<"canary", w>> \in hurt => widest > 4 /\ Span(widest) > depth - 8
      BY DEF IInv, FramedInv, WideHarm
    <3>2. \/ by # w
          \/ n > 4 /\ home = Span(n) /\ real <= Span(n)
      BY <1>n DEF by, home, real
    <3>3. /\ <<"return", w>> \in harm => by = w /\ home > depth
          /\ <<"local", w>> \in harm => by = w /\ proc.loc > 0 /\ real > depth - proc.loc
          /\ <<"canary", w>> \in harm => by = w /\ home > depth - 8
      BY DEF Reaches
    <3> QED
      BY <1>0, <1>n, <2>1, <2>2, <3>1, <3>2, <3>3
  <2>5. HomeHarm'
    <3> SUFFICES
            /\ <<"return", "short call">> \in hurt' => worst' > depth
            /\ <<"local", "short call">> \in hurt' => proc.loc > 0 /\ worst' > 0 /\ worst' > depth - proc.loc
            /\ <<"canary", "short call">> \in hurt' => worst' > depth - 8
      BY <1>0, <1>4 DEF HomeHarm
    <3>1. /\ <<"return", "short call">> \in hurt => worst > depth
          /\ <<"local", "short call">> \in hurt => proc.loc > 0 /\ worst > 0 /\ worst > depth - proc.loc
          /\ <<"canary", "short call">> \in hurt => worst > depth - 8
      BY DEF IInv, FramedInv, HomeHarm
    <3>2. by # "short call" \/ (callee = "extern" /\ home = Span(n) /\ real = home)
      BY DEF by, home, real
    <3>3. /\ <<"return", "short call">> \in harm => by = "short call" /\ home > depth
          /\ <<"local", "short call">> \in harm =>
                by = "short call" /\ proc.loc > 0 /\ real > depth - proc.loc
          /\ <<"canary", "short call">> \in harm => by = "short call" /\ home > depth - 8
      BY DEF Reaches
    <3>4. (home > depth => worst' > depth \/ by # "short call")
          /\ (real > depth - proc.loc => worst' > depth - proc.loc \/ by # "short call")
          /\ (worst' > 0 \/ by # "short call")
          /\ (home > depth - 8 => worst' > depth - 8 \/ by # "short call")
      <4>1. by = "short call" => worst' >= home /\ worst' >= real
        BY <2>1, <3>2, Zenon
      <4>5. by = "short call" => worst' > 0
        <5>1. worst' >= Span(n) => worst' > 0
          BY <1>n, <2>1
        <5> QED
          BY <2>1, <3>2, <5>1, Zenon
      <4>2. worst' >= home => (home > depth => worst' > depth)
                              /\ (home > depth - 8 => worst' > depth - 8)
        BY <1>n, <2>1
      <4>3. worst' >= real => (real > depth - proc.loc => worst' > depth - proc.loc)
        BY <1>n, <2>1
      <4> QED
        BY <4>1, <4>2, <4>3, <4>5, Zenon
    <3>5. (worst > depth => worst' > depth)
          /\ (worst > depth - proc.loc => worst' > depth - proc.loc)
          /\ (worst > 0 => worst' > 0)
          /\ (worst > depth - 8 => worst' > depth - 8)
      BY <1>n, <2>1
    <3> QED
      BY <1>0, <3>1, <3>3, <3>4, <3>5, Zenon
  <2>6. \A w \in {"return", "local", "canary", "argument"} :
           <<w, "exit">> \notin harm /\ <<w, "far exit">> \notin harm
    <3>1. by # "exit" /\ by # "far exit"
      BY DEF by
    <3> QED
      BY <3>1 DEF Reaches
  <2>7. <<"argument", "store">> \notin harm /\ <<"argument", "short call">> \notin harm
    <3>1. by # "store" /\ (by = "short call" => ~wrong)
      BY DEF by, wrong
    <3> QED
      BY <3>1 DEF Reaches
  <2>8. Silent' => <<"argument", "extern">> \notin harm
    <3>1. by = "extern" /\ wrong => found # {}
      BY DEF found, by, wrong
    <3>2. <<"argument", "extern">> \in harm => by = "extern" /\ wrong
      BY DEF Reaches
    <3> QED
      BY <1>s, <3>1, <3>2
  <2>9. \A w \in {"return", "canary", "argument"} : <<w, "inner call">> \notin harm
    <3>1. depth >= 8
      BY <1>0, ProcType, AllocType DEF IInv, FramedInv
    <3>2. by = "inner call" => home = 0 /\ ~wrong
      BY DEF by, home, wrong
    <3>3. ~(0 > depth) /\ ~(0 > depth - 8)
      BY <1>n, <3>1
    <3> QED
      BY <3>2, <3>3, Zenon DEF Reaches
  <2> QED
    BY <1>0, <1>s, <2>3, <2>4, <2>5, <2>6, <2>7, <2>8, <2>9, Zenon DEF IInv, FramedInv
<1> QED
  BY <1>4, <1>5, <1>6, <1>7 DEF IInv

(* An exit through add rsp or the pops keeps the invariant. *)
LEMMA ExitInv ==
    ASSUME IInv, NEW k \in Nat, NEW gap \in Nat, Exit(k, gap)
    PROVE  IInv'
<1> DEFINE paired == gap <= 1
           by     == IF paired THEN "exit" ELSE "far exit"
           found  == IF paired /\ k # FrameNow THEN {"FATAL"} ELSE {}
<1>0. /\ TypeOK /\ Raw /\ Line /\ Report(found)
      /\ hurt' = hurt \cup (IF k # depth THEN {<<"return", by>>} ELSE {})
      /\ (paired => extra' = 0) /\ (~paired => extra' = extra - k - 8)
      /\ mixed' = (mixed \/ ~paired) /\ depth' = proc.size
      /\ widest' = widest /\ worst' = worst
  BY DEF IInv, Exit
<1>e. /\ TypeOK /\ Line /\ depth' = proc.size
      /\ (paired => extra' = 0) /\ (~paired => extra' = extra - k - 8)
  BY <1>0, Zenon
<1>1. proc' = proc /\ open' = open /\ open /\ lines' \in 0..MaxLines
  <2>1. proc' = proc /\ open' = open /\ open
    BY <1>0, Zenon DEF Line
  <2>2. lines' \in 0..MaxLines
    BY <1>e, FrameCheckAssumption DEF Line, TypeOK
  <2> QED
    BY <2>1, <2>2, Zenon
<1>2. proc.size \in Nat /\ extra \in Int /\ depth \in Nat
  BY <1>0, ProcType DEF TypeOK
<1> HIDE DEF paired
<1>3. found \subseteq {"warn", "FATAL"}
  OBVIOUS
<1>4. /\ results' \subseteq {"warn", "FATAL"} /\ results \subseteq results'
      /\ Judged(proc) => found \subseteq results'
  BY <1>0, <1>3, ReportType DEF TypeOK
<1>5. hurt' \subseteq Harms /\ hurt \subseteq hurt'
  <2>1. <<"return", by>> \in Harms
    BY DEF Harms
  <2> QED
    BY <1>0, <2>1, Zenon DEF TypeOK
<1>6. TypeOK'
  <2>1. extra' \in Int /\ depth' \in Nat
    BY <1>e, <1>2
  <2>2. mixed' \in BOOLEAN
    BY <1>0, Zenon
  <2> QED
    BY <1>0, <1>1, <1>4, <1>5, <2>1, <2>2, Zenon DEF TypeOK
<1>f. FrameNow' = proc.size + extra'
  BY <1>1 DEF FrameNow
<1>g. FrameNow = proc.size + extra
  BY Zenon DEF FrameNow
<1>h. paired => FrameNow' = depth'
  <2> SUFFICES ASSUME paired PROVE FrameNow' = depth'
    OBVIOUS
  <2>1. extra' = 0 /\ depth' = proc.size
    BY <1>e, Zenon
  <2> QED
    BY <1>2, <1>f, <2>1
<1>i. ASSUME ~paired, k = depth, FrameNow = depth \/ FrameNow + 8 <= depth
      PROVE  FrameNow' + 8 <= depth'
  <2>1. extra' = extra - depth - 8 /\ depth' = proc.size
    BY <1>e, <1>i, Zenon
  <2>2. proc.size + extra <= depth
    BY <1>2, <1>g, <1>i
  <2> QED
    BY <1>2, <1>f, <2>1, <2>2
<1>7. NeverOverstated'
  <2> SUFFICES ASSUME Judged(proc), "FATAL" \notin results', <<"return", "far exit">> \notin hurt'
               PROVE  FrameNow' = depth' \/ (mixed' /\ FrameNow' + 8 <= depth')
    BY <1>1, Zenon DEF NeverOverstated
  <2>1. CASE paired
    BY <1>h, <2>1, Zenon
  <2>2. CASE ~paired
    <3>1. k = depth /\ mixed'
      BY <1>0, <2>2, Zenon
    <3>2. FrameNow = depth \/ FrameNow + 8 <= depth
      BY <1>0, <1>4, <1>5, Zenon DEF IInv, NeverOverstated
    <3> QED
      BY <1>i, <2>2, <3>1, <3>2, Zenon
  <2> QED
    BY <2>1, <2>2
<1>s. Silent' => Silent /\ found = {} /\ <<"return", "far exit">> \notin hurt'
  BY <1>1, <1>4, <1>5, Zenon DEF Silent
<1>8. RawInv'
  <2> SUFFICES ASSUME Silent'
               PROVE hurt' \subseteq Unjudged(proc) \cup (IF mixed' THEN {<<"return", "exit">>} ELSE {})
    BY <1>1, Zenon DEF RawInv
  <2>1. hurt \subseteq Unjudged(proc) \cup (IF mixed THEN {<<"return", "exit">>} ELSE {})
    BY <1>0, <1>s DEF IInv, RawInv
  <2>2. mixed => mixed'
    BY <1>0, Zenon
  <2>3. CASE k = depth
    BY <1>0, <2>1, <2>2, <2>3, Zenon
  <2>4. CASE k # depth
    <3>1. paired /\ k = FrameNow
      BY <1>0, <1>s, <2>4, Zenon
    <3>2. mixed
      <4>1. FrameNow = depth \/ (mixed /\ FrameNow + 8 <= depth)
        BY <1>0, <1>s, Zenon DEF IInv, NeverOverstated, Silent
      <4> QED
        BY <2>4, <3>1, <4>1
    <3> QED
      BY <1>0, <2>1, <2>2, <3>1, <3>2, Zenon
  <2> QED
    BY <2>3, <2>4
<1>9. FramedInv' /\ FramesHold'
  BY <1>0, <1>1, Zenon DEF FramedInv, FramesHold, Raw
<1> QED
  BY <1>6, <1>7, <1>8, <1>9 DEF IInv

(* An exit through mov rsp, rbp keeps the invariant. *)
LEMMA BaseExitInv ==
    ASSUME IInv, BaseExit
    PROVE  IInv'
<1>0. /\ TypeOK /\ Raw /\ Line /\ extra' = -8 /\ mixed' = TRUE /\ depth' = proc.size
      /\ hurt' = hurt /\ widest' = widest /\ worst' = worst /\ results' = results
  BY DEF IInv, BaseExit
<1>1. proc' = proc /\ open' = open /\ open /\ lines' \in 0..MaxLines
  <2>1. proc' = proc /\ open' = open /\ open
    BY <1>0, Zenon DEF Line
  <2>2. lines' \in 0..MaxLines
    BY <1>0, FrameCheckAssumption DEF Line, TypeOK
  <2> QED
    BY <2>1, <2>2, Zenon
<1>2. proc.size \in Nat
  BY <1>0, ProcType
<1>3. TypeOK'
  <2>1. extra' \in Int /\ depth' \in Nat
    BY <1>0, <1>2
  <2> QED
    BY <1>0, <1>1, <2>1, Zenon DEF TypeOK
<1>4. NeverOverstated'
  <2>1. FrameNow' + 8 <= depth'
    BY <1>0, <1>1, <1>2 DEF FrameNow
  <2> QED
    BY <1>0, <2>1, Zenon DEF NeverOverstated
<1>5. RawInv'
  BY <1>0, <1>1, Zenon DEF IInv, RawInv, Silent, Raw
<1>6. FramedInv' /\ FramesHold'
  BY <1>0, <1>1, Zenon DEF FramedInv, FramesHold, Raw
<1> QED
  BY <1>3, <1>4, <1>5, <1>6 DEF IInv

(* Closing a procedure keeps the invariant: its verdict is passed then. *)
LEMMA EndProcInv ==
    ASSUME IInv, EndProc
    PROVE  IInv'
<1> DEFINE alloc == Alloc(proc.size)
           deep  == proc.loc + Span(IF widest > 4 THEN widest ELSE 4)
           short == \/ widest > 4 /\ alloc < deep
                    \/ worst > 0 /\ alloc - proc.loc < worst /\ proc.loc > 0
           found == IF ~Raw /\ short THEN {"warn"} ELSE {}
<1>0. /\ TypeOK /\ open' = FALSE /\ Report(found)
      /\ proc' = proc /\ lines' = lines /\ depth' = depth /\ hurt' = hurt
      /\ mixed' = mixed /\ extra' = extra /\ widest' = widest /\ worst' = worst
  BY Zenon DEF IInv, EndProc
<1> HIDE DEF short
<1>1. /\ results' \subseteq {"warn", "FATAL"} /\ results \subseteq results'
      /\ Judged(proc) => found \subseteq results'
  <2>1. found \subseteq {"warn", "FATAL"}
    OBVIOUS
  <2> QED
    BY <1>0, <2>1, ReportType DEF TypeOK
<1>2. TypeOK'
  BY <1>0, <1>1, Zenon DEF TypeOK
<1>3. NeverOverstated'
  <2>1. FrameNow' = FrameNow
    BY <1>0 DEF FrameNow
  <2> QED
    BY <1>0, <1>1, <2>1, Zenon DEF IInv, NeverOverstated, Raw
<1>s. Silent' => Silent /\ (~Raw => ~short)
  BY <1>0, <1>1, Zenon DEF Silent
<1>4. RawInv' /\ FramedInv'
  BY <1>0, <1>s, Zenon DEF IInv, RawInv, FramedInv, WideHarm, HomeHarm, Raw
<1>5. FramesHold'
  <2> SUFFICES ASSUME Silent'
      PROVE hurt \subseteq Unjudged(proc) \cup (IF mixed THEN {<<"return", "exit">>} ELSE {})
    BY <1>0, Zenon DEF FramesHold, Silent
  <2>1. CASE Raw
    BY <1>s, <2>1 DEF IInv, RawInv
  <2>2. CASE ~Raw
    <3>n. /\ proc.loc \in Nat /\ depth \in Nat /\ alloc = depth
          /\ widest \in Nat /\ worst \in Nat /\ Span(widest) \in Nat
      BY <1>0, <2>2, ProcType, SpanType DEF IInv, TypeOK, FramedInv
    <3>s. ~short
      BY <1>s, <2>2
    <3>1. widest > 4 => depth >= proc.loc + Span(widest)
      BY <3>n, <3>s DEF short
    <3>2. (worst > 0 /\ proc.loc > 0) => depth - proc.loc >= worst
      BY <3>n, <3>s DEF short
    <3>3. ASSUME NEW by \in {"extern", "internal"}
          PROVE  /\ <<"return", by>> \notin hurt /\ <<"local", by>> \notin hurt
                 /\ proc.loc >= 8 => <<"canary", by>> \notin hurt
      <4>1. /\ <<"return", by>> \in hurt => widest > 4 /\ Span(widest) > depth
            /\ <<"local", by>>  \in hurt => widest > 4 /\ Span(widest) > depth - proc.loc
            /\ <<"canary", by>> \in hurt => widest > 4 /\ Span(widest) > depth - 8
        BY <2>2, <3>3 DEF IInv, FramedInv, WideHarm
      <4> QED
        BY <3>n, <3>1, <4>1
    <3>4. /\ <<"local", "short call">> \notin hurt
          /\ proc.loc >= 8 => /\ <<"return", "short call">> \notin hurt
                              /\ <<"canary", "short call">> \notin hurt
      <4>1. /\ <<"return", "short call">> \in hurt => worst > depth
            /\ <<"local", "short call">>  \in hurt => proc.loc > 0 /\ worst > 0 /\ worst > depth - proc.loc
            /\ <<"canary", "short call">> \in hurt => worst > depth - 8
        BY <2>2 DEF IInv, FramedInv, HomeHarm
      <4>2. depth >= 8
        BY <3>n, <1>0, ProcType, AllocType
      <4>3. worst > depth - 8 => worst > 0
        BY <3>n, <4>2
      <4>4. ~(proc.loc > 0 /\ worst > 0 /\ worst > depth - proc.loc)
        BY <3>n, <3>2
      <4>5. proc.loc >= 8 => ~(worst > depth - 8) /\ ~(worst > depth)
        BY <3>n, <3>2, <4>2, <4>3
      <4> QED
        BY <4>1, <4>4, <4>5, Zenon
    <3>5. /\ \A w \in {"return", "local", "canary", "argument"} :
               <<w, "exit">> \notin hurt /\ <<w, "far exit">> \notin hurt
          /\ \A w \in {"return", "canary", "argument"} : <<w, "inner call">> \notin hurt
          /\ <<"argument", "store">> \notin hurt /\ <<"argument", "short call">> \notin hurt
          /\ <<"argument", "extern">> \notin hurt
      BY <1>s, <2>2 DEF IInv, FramedInv
    <3>6. /\ <<"argument", "internal">> \in Unjudged(proc) /\ <<"local", "inner call">> \in Unjudged(proc)
          /\ \A w \in {"return", "local", "canary"} : <<w, "store">> \in Unjudged(proc)
          /\ ~(proc.loc >= 8) => \A w \in {"return", "canary"}, by \in {"extern", "internal", "short call"} :
                                   <<w, by>> \in Unjudged(proc)
      <4>1. proc.shape = "framed" /\ (~(proc.loc >= 8) => proc.loc < 8)
        BY <1>0, <2>2, <3>n, ProcType DEF Raw
      <4> QED
        BY <4>1 DEF Unjudged
    <3>7. SUFFICES ASSUME NEW h \in hurt PROVE h \in Unjudged(proc)
      BY Zenon
    <3>8. PICK w \in {"return", "local", "canary", "argument"},
               by \in {"extern", "internal", "short call", "inner call", "store", "exit", "far exit"} :
               h = <<w, by>>
      <4>1. h \in Harms
        BY <1>0, <3>7, Zenon DEF TypeOK
      <4> QED
        BY <4>1, HarmForm, Zenon
    <3>9. CASE by \in {"extern", "internal"}
      BY <3>3, <3>5, <3>6, <3>7, <3>8, <3>9, Zenon
    <3>10. CASE by = "short call"
      BY <3>4, <3>5, <3>6, <3>7, <3>8, <3>10, Zenon
    <3>11. CASE by \in {"inner call", "store", "exit", "far exit"}
      BY <3>5, <3>6, <3>7, <3>8, <3>11, Zenon
    <3> QED
      BY <3>8, <3>9, <3>10, <3>11, Zenon
  <2> QED
    BY <2>1, <2>2
<1> QED
  BY <1>2, <1>3, <1>4, <1>5 DEF IInv

-----------------------------------------------------------------------------

\* Every line of a procedure, and its endp, keeps the invariant.
LEMMA NextInv == IInv /\ [Next]_vars => IInv'
<1> SUFFICES ASSUME IInv, [Next]_vars PROVE IInv'
  OBVIOUS
<1>0. /\ Steps \subseteq Nat /\ ArgCounts \subseteq Nat /\ Gaps \subseteq Nat
      /\ Stores \subseteq Nat \X Nat /\ TypeOK /\ depth \in Nat
      /\ proc.size \in Nat /\ proc.loc \in Nat
  BY FrameCheckAssumption, ProcType DEF IInv, TypeOK
<1>1. ASSUME NEW k \in Steps, Grow(k) PROVE IInv'
  <2>1. k \in Int /\ depth + k \in Nat
    BY <1>0
  <2> QED
    BY <1>1, <2>1, ShiftInv DEF Grow
<1>2. ASSUME NEW k \in Steps, Shrink(k) PROVE IInv'
  <2>1. /\ -k \in Int /\ depth + (-k) \in Nat
        /\ depth' = depth + (-k) /\ extra' = extra + (-k)
    BY <1>0, <1>2 DEF Shrink, TypeOK
  <2>2. /\ Raw /\ Line /\ hurt' = hurt /\ mixed' = mixed
        /\ widest' = widest /\ worst' = worst /\ results' = results
    BY <1>2 DEF Shrink
  <2> QED
    BY <2>1, <2>2, ShiftInv
<1>3. ASSUME NEW n \in ArgCounts, NEW callee \in {"extern", "internal"}, NEW rax \in BOOLEAN,
             NEW src \in {0, proc.loc}, WinCall(n, callee, src, rax)
      PROVE  IInv'
  <2>1. n \in Nat /\ src \in Nat
    BY <1>0
  <2> QED
    BY <1>3, <2>1, WinCallInv
<1>4. ASSUME NEW s \in Stores, Store(s[1], s[2]) PROVE IInv'
  <2>1. s[1] \in Nat /\ s[2] \in Nat
    BY <1>0
  <2> QED
    BY <1>4, <2>1, StoreInv
<1>5. ASSUME NEW k \in Steps \cup {proc.size, depth}, NEW gap \in Gaps, Exit(k, gap) PROVE IInv'
  <2>1. k \in Nat /\ gap \in Nat
    BY <1>0
  <2> QED
    BY <1>5, <2>1, ExitInv
<1>6. CASE UNCHANGED vars
  BY <1>6, Zenon DEF vars, IInv, TypeOK, NeverOverstated, RawInv, FramedInv, FramesHold,
                     WideHarm, HomeHarm, Silent, Raw, FrameNow
<1> QED
  BY <1>1, <1>2, <1>3, <1>4, <1>5, <1>6, BaseExitInv, EndProcInv DEF Next

\* The types of the machine and of the scanner.
THEOREM FrameTypes == Spec => []TypeOK
<1>1. IInv => TypeOK
  BY DEF IInv
<1> QED
  BY <1>1, InitInv, NextInv, PTL DEF Spec

\* The scanner's frame is never larger than the machine's while it reports no
\* FATAL: scan_file's extra over every mixture of widenings, pushes and exits.
THEOREM FrameNeverOverstated == Spec => []NeverOverstated
<1>1. IInv => NeverOverstated
  BY DEF IInv
<1> QED
  BY <1>1, InitInv, NextInv, PTL DEF Spec

\* A procedure framecheck reads without a finding keeps its saved rbp, its return
\* address and its locals, save in the ways its rules do not look at.
THEOREM CleanFramesHold == Spec => []FramesHold
<1>1. IInv => FramesHold
  BY DEF IInv
<1> QED
  BY <1>1, InitInv, NextInv, PTL DEF Spec
=============================================================================

----------------------------- MODULE FrameCheck -----------------------------
(***************************************************************************)
(* tools/framecheck.py on one procedure.  A step is the next line of the   *)
(* procedure: the machine's stack (depth, what the line overwrites) and    *)
(* the scanner's picture of it (extra, worst, results) advance together,   *)
(* so that a property can compare the verdict with what happens when the   *)
(* procedure runs.                                                         *)
(*                                                                         *)
(* Addresses are bytes below the saved rbp: [rsp+K] lies depth - K below   *)
(* it, the deepest local starts proc.loc below it.  A label behind an exit *)
(* is reached by jumps out of the body, with the frame as the prologue     *)
(* left it.                                                                *)
(***************************************************************************)
EXTENDS Integers, FiniteSets

CONSTANTS Procs,      \* the procedures an author starts: see ProcRecords
          Steps,      \* byte counts of a `sub rsp,K` / `add rsp,K` in a body
          ArgCounts,  \* argument counts of a WINCALL
          Stores,     \* <<K, size>> of an explicit store to [rsp+K]
          Gaps,       \* blank lines between an exit's `add rsp` and `pop rbp`
          MaxLines    \* bound: lines of one body

\* shape "raw" or "framed"; size the N of `sub rsp,N` / FRAME_PROLOG N; loc the
\* deepest [rbp-N] or addr rbp-N (0: none); at the index of `sub rsp,N` behind
\* the proc line; known: the size expression can be evaluated
ProcRecords == [shape : {"raw", "framed"}, size : Nat, loc : Nat, at : Nat, known : BOOLEAN]

ASSUME FrameCheckAssumption ==
  /\ Procs \subseteq ProcRecords
  /\ Steps \subseteq Nat /\ ArgCounts \subseteq Nat /\ Gaps \subseteq Nat
  /\ Stores \subseteq Nat \X Nat
  /\ MaxLines \in Nat

VARIABLES proc,      \* the procedure being read
          lines,     \* how many lines of its body were read
          open,      \* its endp has not been reached
          depth,     \* machine: bytes between rsp and the saved rbp
          hurt,      \* machine: <<what was overwritten or misread, by what>>
          mixed,     \* the body has an exit the scanner does not know as one
          extra,     \* scanner: manual sub/add/push/pop so far (raw)
          widest,    \* scanner: maxargs (framed)
          worst,     \* scanner: widest outgoing area of an extern callee (framed)
          results    \* scanner: the severities of its findings

vars == <<proc, lines, open, depth, hurt, mixed, extra, widest, worst, results>>

Raw == proc.shape = "raw"

\* FRAME_PROLOG's rounding, and the scanner's ((N + 8 + 15) & ~15)
Alloc(n) == ((n + 8 + 15) \div 16) * 16

\* A raw prologue is looked for in the first six lines only; a framed size that
\* cannot be resolved is a warning and nothing more is checked.
Judged(p) == IF p.shape = "raw" THEN p.at < 6 ELSE p.known

EntryDepth(p) == IF p.shape = "raw" THEN p.size ELSE Alloc(p.size)

Init ==
  /\ proc \in Procs
  /\ lines = 0 /\ open = TRUE
  /\ depth = EntryDepth(proc)
  /\ hurt = {} /\ mixed = FALSE /\ extra = 0 /\ widest = 0 /\ worst = 0
  /\ results = IF proc.shape = "framed" /\ ~proc.known THEN {"warn"} ELSE {}

\* ------------------------------------------------------------- the scanner
\* the end of a WINCALL's outgoing area: the home space and the stack arguments
Span(n) == 32 + (IF n > 4 THEN 8 * (n - 4) ELSE 0)

\* where the last stack argument of an n-argument call is stored
LastSlot(n) == 32 + 8 * (n - 5)

\* The end of the part that can change a local: a stack argument loaded from
\* the very slot it is stored to (src, the N of its [rbp-N]) changes nothing.
LiveEnd(n, src, frame) == IF src = frame - LastSlot(n) THEN LastSlot(n) ELSE Span(n)

Severity(end, live, frame) ==
  IF end > frame THEN {"FATAL"}
  ELSE IF live > frame - proc.loc /\ proc.loc > 0 THEN {"warn"} ELSE {}

\* mutant: manual sub, add, push and pop are not tracked
FrameNow_fixed == proc.size

FrameNow == proc.size + extra

\* nothing is reported of a procedure that is not judged
Report(found) == results' = results \cup (IF Judged(proc) THEN found ELSE {})

\* ------------------------------------------------------------- the machine
Harms == {"return", "local", "canary", "argument"}
         \X {"extern", "internal", "short call", "inner call", "store", "exit", "far exit"}

\* what a write of the bytes rsp .. rsp+live (rsp+end in all) reaches
Reaches(end, live, by) ==
  (IF end > depth THEN {<<"return", by>>} ELSE {})
  \cup (IF proc.loc > 0 /\ live > depth - proc.loc THEN {<<"local", by>>} ELSE {})
  \cup (IF ~Raw /\ end > depth - 8 THEN {<<"canary", by>>} ELSE {})

Line == /\ open /\ lines < MaxLines
        /\ lines' = lines + 1
        /\ UNCHANGED <<proc, open>>

\* `sub rsp,K` or a push: the stack grows by k (raw procedures only do this)
Grow(k) ==
  /\ Raw /\ Line
  /\ depth' = depth + k
  /\ extra' = extra + k
  /\ UNCHANGED <<hurt, mixed, widest, worst, results>>

\* `add rsp,K` or a pop that is not part of an exit
Shrink(k) ==
  /\ Raw /\ Line
  /\ k <= depth
  /\ depth' = depth - k
  /\ extra' = extra - k
  /\ UNCHANGED <<hurt, mixed, widest, worst, results>>

\* A WINCALL with n arguments.  An "extern" callee may save registers in its home
\* space, an internal one only writes below rsp; src is the [rbp-N] the last stack
\* argument is loaded from (0: elsewhere); rax: one of the first four arguments
\* is rax while a stack argument is routed through it.
WinCall(n, callee, src, rax) ==
  LET home  == IF callee = "extern" \/ n > 4 THEN Span(n) ELSE 0
      real  == IF n > 4 THEN LiveEnd(n, src, depth) ELSE home
      by    == IF n > 4 THEN callee
               ELSE IF callee = "extern" THEN "short call" ELSE "inner call"
      wrong == n > 4 /\ rax
  IN /\ Line
     /\ src <= proc.loc
     /\ n <= 4 => src = 0 /\ ~rax
     /\ hurt' = hurt \cup Reaches(home, real, by)
                     \cup (IF wrong THEN {<<"argument", by>>} ELSE {})
     /\ IF Raw
        THEN /\ Report(IF n > 4
                       THEN Severity(Span(n), LiveEnd(n, src, FrameNow), FrameNow) ELSE {})
             /\ UNCHANGED <<widest, worst>>
        ELSE /\ widest' = IF n > widest THEN n ELSE widest
             /\ worst' = IF callee = "extern" /\ Span(n) > worst THEN Span(n) ELSE worst
             /\ Report(IF callee = "extern" /\ wrong THEN {"FATAL"} ELSE {})
     /\ UNCHANGED <<depth, mixed, extra>>

\* a store of `size` bytes to [rsp+k]: an argument passed by hand, an xmm save
Store(k, size) ==
  /\ Line
  /\ hurt' = hurt \cup Reaches(k + size, k + size, "store")
  /\ Report(IF Raw THEN Severity(k + size, k + size, FrameNow) ELSE {})
  /\ UNCHANGED <<depth, mixed, extra, widest, worst>>

\* `add rsp,k`, some blank lines, `pop rbp`, `ret`.  The scanner takes the two
\* lines for an epilogue when at most one blank line stands between them, and
\* otherwise for a shrink by k and a pop.
Exit(k, gap) ==
  LET paired == gap <= 1 IN
  /\ Raw /\ Line
  /\ hurt' = hurt \cup IF k # depth THEN {<<"return", IF paired THEN "exit" ELSE "far exit">>}
                       ELSE {}
  /\ Report(IF paired /\ k # FrameNow THEN {"FATAL"} ELSE {})
  /\ extra' = IF paired THEN 0 ELSE extra - k - 8
  /\ mixed' = (mixed \/ ~paired)
  /\ depth' = proc.size
  /\ UNCHANGED <<widest, worst>>

\* `mov rsp,rbp`, `pop rbp`, `ret`: right at any depth; the scanner forgets what
\* it tracked at the first line and counts the second as a pop
BaseExit ==
  /\ Raw /\ Line
  /\ extra' = -8
  /\ mixed' = TRUE
  /\ depth' = proc.size
  /\ UNCHANGED <<hurt, widest, worst, results>>

\* The endp.  The verdict on a framed procedure compares its widest WINCALL and
\* its widest extern WINCALL with its deepest local, wherever they stand.
EndProc ==
  LET alloc == Alloc(proc.size)
      deep  == proc.loc + Span(IF widest > 4 THEN widest ELSE 4)
  IN /\ open
     /\ open' = FALSE
     /\ Report(IF /\ ~Raw
                  /\ \/ widest > 4 /\ alloc < deep
                     \/ worst > 0 /\ alloc - proc.loc < worst /\ proc.loc > 0
               THEN {"warn"} ELSE {})
     /\ UNCHANGED <<proc, lines, depth, hurt, mixed, extra, widest, worst>>

Next ==
  \/ \E k \in Steps : Grow(k) \/ Shrink(k)
  \/ \E n \in ArgCounts, callee \in {"extern", "internal"}, rax \in BOOLEAN :
       \E src \in {0, proc.loc} : WinCall(n, callee, src, rax)
  \/ \E s \in Stores : Store(s[1], s[2])
  \/ \E k \in Steps \cup {proc.size, depth}, gap \in Gaps : Exit(k, gap)
  \/ BaseExit
  \/ EndProc

Spec == Init /\ [][Next]_vars

\* --strict: warnings fail the build too; otherwise only FATALs do
ExitCode(strict) == Cardinality(IF strict THEN results ELSE results \cap {"FATAL"})

\* --------------------------------------------------------------- properties
\* What the rules of framecheck do not look at.
Unjudged(p) ==
     {<<"argument", "internal">>, <<"return", "far exit">>, <<"local", "inner call">>}
  \cup (IF p.shape = "raw"
        THEN {<<"argument", "extern">>}
             \cup ({"return", "local"} \X {"short call"})
        ELSE ({"return", "local", "canary"} \X {"store"}))
  \cup (IF p.shape = "framed" /\ p.loc < 8
        THEN {"return", "canary"} \X {"extern", "internal", "short call"} ELSE {})

\* The frame the scanner computes is the machine's, or at least a slot smaller,
\* where it met an exit it does not know, in every procedure it still calls
\* clean: it never believes in room that is not there.  (scan_file's extra,
\* whatever mixture of widenings, pushes, exits and labels came before.)
NeverOverstated ==
  (Raw /\ Judged(proc) /\ "FATAL" \notin results /\ <<"return", "far exit">> \notin hurt)
     => FrameNow = depth \/ (mixed /\ FrameNow + 8 <= depth)

\* A procedure that framecheck reads to its end without a finding overwrites
\* neither its saved rbp and return address nor its locals, and returns through
\* the slots it entered by, save in the ways no rule looks at.  An exit that is
\* not recognised as one ends the promise: it may be wrong itself, and the exits
\* behind it are compared with a frame that is a slot or more too small.
FramesHold ==
  (~open /\ Judged(proc) /\ results = {} /\ <<"return", "far exit">> \notin hurt)
     => hurt \subseteq Unjudged(proc) \cup (IF mixed THEN {<<"return", "exit">>} ELSE {})

\* The header of framecheck (framecheck.py:17-23): the raw procedures, every one
\* of gui.asm, are the dangerous ones, and a call whose spill area passes the end
\* of the frame, clobbering the return address, is FATAL.  So none is left clean.
EveryRawFrameIsJudged ==
  ~open /\ Raw /\ results = {} => <<"return", "extern">> \notin hurt

TypeOK ==
  /\ proc \in Procs
  /\ lines \in 0..MaxLines /\ open \in BOOLEAN
  /\ depth \in Nat /\ mixed \in BOOLEAN /\ extra \in Int /\ widest \in Nat /\ worst \in Nat
  /\ hurt \subseteq Harms /\ results \subseteq {"warn", "FATAL"}
=============================================================================

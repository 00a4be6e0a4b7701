----------------------------- MODULE Build_proofs -----------------------------
(***************************************************************************)
(* What a build that passes the gates promises, for sources of any size    *)
(* and in any number, any icon, any way the script is called, and images   *)
(* built at any time, by any linker, anywhere.                             *)
(*                                                                         *)
(* A step of the build is a step of each gate's own specification, or      *)
(* leaves that gate's variables alone; so each gate has an invariant of    *)
(* its own, and the script one over its phases.                            *)
(***************************************************************************)
EXTENDS Build, FrameCheck_proofs, FiniteSetTheorems, SequenceTheorems, WellFoundedInduction

\* Each gate takes a step of its own, or none.
LEMMA GateSteps ==
    ASSUME [BuildNext]_buildVars
    PROVE  /\ [Next]_vars /\ [Nv!Next]_nvVars /\ [Wstr!Next]_wstrVars
           /\ [Align!Next]_alignVars /\ [Const!Next]_constVars /\ [DeadC!Next]_deadVars
           /\ [Calls!Next]_callVars
<1>1. CASE Write
  BY <1>1 DEF Write
<1>2. CASE UNCHANGED sources
  BY <1>2 DEF sources
<1>3. CASE UNCHANGED buildVars
  BY <1>3, <1>2 DEF buildVars
<1>4. ASSUME BuildNext, ~Write
      PROVE  UNCHANGED sources
  BY <1>4 DEF BuildNext, Start, Gates, ToolFails, Assemble, Resources, LinkExe, LinkDll, Normalise,
              Publish, Recheck, Again, To
<1> QED
  BY <1>1, <1>2, <1>3, <1>4

\* A build begins where each gate does.
LEMMA StartParts ==
    ASSUME BuildInit
    PROVE  Init /\ Nv!Init /\ Wstr!Init /\ Align!Init /\ Const!Init /\ DeadC!Init /\ Calls!Init
  BY Zenon DEF BuildInit

-----------------------------------------------------------------------------
(* nvcheck: while no trick was played, what the scanner has noted says what  *)
(* the register, the stack and the slot can hold.                            *)

Pushed == {"reg", "other"} \X Nv!Values
OwnBelow(q) == \A i \in 1..Len(q) : q[i][1] = "reg" => q[i][2] = "own"

\* Before the first write the register was never anything but its caller's value;
\* a register that was saved in time is only ever restored to that.
Plainly ==
    /\ ~written => reg = "own"
    /\ ~written \/ saved => slot # "work" /\ OwnBelow(stack)
    /\ saved /\ restored => reg = "own"
    /\ lost => ~reached /\ written /\ ~(saved /\ restored)
JumpTyped == jump = Nv!None \/ /\ jump[1] \in Nv!Values /\ jump[2] \in Seq(Pushed)
                               /\ jump[3] \in Nv!Values \cup {"unset"}
NvInv == Nv!TypeOK /\ JumpTyped /\ (tricks = {} => Plainly)

\* The last of a stack, and what is under it.
LEMMA Popped ==
    ASSUME NEW q \in Seq(Pushed), q # <<>>
    PROVE  /\ Len(q) \in Nat \ {0} /\ q[Len(q)] \in Pushed
           /\ SubSeq(q, 1, Len(q) - 1) \in Seq(Pushed)
           /\ OwnBelow(q) => /\ OwnBelow(SubSeq(q, 1, Len(q) - 1))
                             /\ q[Len(q)][1] = "reg" => q[Len(q)][2] = "own"
<1>1. Len(q) \in Nat \ {0}
  BY EmptySeq, LenProperties
<1>2. q[Len(q)] \in Pushed
  BY <1>1, ElementOfSeq
<1> DEFINE u == SubSeq(q, 1, Len(q) - 1)
<1>3. u \in Seq(Pushed) /\ Len(u) = Len(q) - 1 /\ \A j \in 1..Len(u) : u[j] = q[j]
  <2>1. PICK n \in Nat : n = Len(q) - 1
    BY <1>1
  <2>2. \A j \in 1..n : q[j] \in Pushed
    BY <1>1, <2>1, ElementOfSeq
  <2> DEFINE w == SubSeq(q, 1, n)
  <2>3. /\ w \in Seq(Pushed) /\ Len(w) = IF 1 <= n THEN n - 1 + 1 ELSE 0
        /\ \A j \in 1..(n - 1 + 1) : w[j] = q[1 + j - 1]
    <3>1. 1 \in Int /\ n \in Int
      OBVIOUS
    <3> QED
      BY <2>2, <3>1, SubSeqProperties
  <2> HIDE DEF w
  <2>4. Len(w) = n /\ \A j \in 1..n : w[j] = q[j]
    BY <2>3
  <2>5. u = w
    BY <2>1 DEF w
  <2> HIDE DEF u
  <2> QED
    BY <2>1, <2>3, <2>4, <2>5
<1> HIDE DEF u
<1>4. OwnBelow(q) => OwnBelow(u)
  BY <1>1, <1>3 DEF OwnBelow
<1>5. OwnBelow(q) => (q[Len(q)][1] = "reg" => q[Len(q)][2] = "own")
  BY <1>1 DEF OwnBelow
<1> QED
  BY <1>1, <1>2, <1>3, <1>4, <1>5 DEF u

\* A stack with one more on it.
LEMMA PushedOn ==
    ASSUME NEW q \in Seq(Pushed), NEW c \in Pushed
    PROVE  /\ Append(q, c) \in Seq(Pushed)
           /\ OwnBelow(q) /\ (c[1] = "reg" => c[2] = "own") => OwnBelow(Append(q, c))
<1>1. /\ Append(q, c) \in Seq(Pushed) /\ Len(Append(q, c)) = Len(q) + 1
      /\ \A i \in 1..Len(q) : Append(q, c)[i] = q[i]
      /\ Append(q, c)[Len(q) + 1] = c
  BY AppendProperties
<1>2. Len(q) \in Nat
  BY LenProperties
<1> QED
  BY <1>1, <1>2 DEF OwnBelow

LEMMA NvInit == ASSUME SourcesAssumption, Nv!Init
                PROVE  NvInv
<1>1. /\ code = 0 /\ reg = "own" /\ stack = <<>> /\ slot = "unset" /\ reached = TRUE
      /\ lost = FALSE /\ saved = FALSE /\ restored = FALSE /\ written = FALSE /\ closed = FALSE
  BY DEF Nv!Init
<1>2. stack \in Seq(Pushed) /\ OwnBelow(stack)
  BY <1>1 DEF OwnBelow
<1>3. code \in 0..MaxCode
  BY <1>1 DEF SourcesAssumption
<1>4. Nv!TypeOK
  BY <1>1, <1>2, <1>3 DEF Nv!TypeOK, Nv!Values, Pushed
<1>5. Plainly
  BY <1>1, <1>2, Zenon DEF Plainly
<1>6. JumpTyped
  BY DEF Nv!Init, JumpTyped
<1> QED
  BY <1>4, <1>5, <1>6 DEF NvInv

LEMMA NvKeeps ==
    ASSUME SourcesAssumption, NvInv, [Nv!Next]_nvVars
    PROVE  NvInv'
<1>t. /\ code \in 0..MaxCode /\ reg \in Nv!Values /\ slot \in Nv!Values \cup {"unset"}
      /\ stack \in Seq(Pushed) /\ lost \in BOOLEAN /\ saved \in BOOLEAN
      /\ restored \in BOOLEAN /\ written \in BOOLEAN /\ closed \in BOOLEAN /\ reached \in BOOLEAN
  BY DEF NvInv, Nv!TypeOK, Pushed
<1>p. tricks = {} => Plainly
  BY DEF NvInv
<1>l. Nv!NextLine => code' \in 0..MaxCode /\ closed' = FALSE /\ reached
  BY <1>t DEF Nv!NextLine, SourcesAssumption
<1>v. "work" \in Nv!Values /\ "own" \in Nv!Values
  BY DEF Nv!Values
<1>j. JumpTyped'
  <2>1. CASE Nv!Branch
    <3>1. jump' = <<reg, stack, slot>>
      BY <2>1 DEF Nv!Branch, Nv!Here
    <3> QED
      BY <1>t, <3>1 DEF JumpTyped
  <2>2. CASE Nv!Ret
    BY <2>2 DEF Nv!Ret, JumpTyped
  <2>3. ASSUME ~Nv!Branch, ~Nv!Ret
        PROVE  jump' = jump
    BY <2>3 DEF Nv!Next, nvVars, Nv!Push, Nv!PushOther, Nv!PopOther, Nv!Pop, Nv!StoreSlot, Nv!Touch,
                Nv!LoadSlot, Nv!LoadData, Nv!Write, Nv!EndProc
  <2>4. jump' = jump => JumpTyped'
    BY Zenon DEF NvInv, JumpTyped
  <2> QED
    BY <2>1, <2>2, <2>3, <2>4
<1>1. CASE Nv!Push
  <2>1. /\ Nv!NextLine /\ saved' = (saved \/ ~written) /\ stack' = Append(stack, <<"reg", reg>>)
        /\ tricks' = {} => tricks = {} /\ ~(saved /\ reg = "work")
        /\ reg' = reg /\ slot' = slot /\ reached' = reached /\ lost' = lost
        /\ restored' = restored /\ written' = written
    BY <1>1 DEF Nv!Push, Nv!NoteSave, Nv!Note
  <2>2. <<"reg", reg>> \in Pushed
    BY <1>t DEF Pushed
  <2>3. /\ stack' \in Seq(Pushed)
        /\ OwnBelow(stack) /\ reg = "own" => OwnBelow(stack)'
    BY <1>t, <2>1, <2>2, PushedOn DEF OwnBelow
  <2>4. Nv!TypeOK'
    BY <1>t, <1>l, <2>1, <2>3 DEF Nv!TypeOK, Pushed
  <2>5. tricks' = {} => Plainly'
    BY <1>p, <1>t, <2>1, <2>3 DEF Plainly, Nv!Values
  <2> QED
    BY <1>j, <2>4, <2>5 DEF NvInv
<1>2. CASE Nv!PushOther
  <2>1. /\ Nv!NextLine /\ stack' = Append(stack, <<"other", "work">>) /\ saved' = saved
        /\ tricks' = tricks /\ reg' = reg /\ slot' = slot /\ reached' = reached /\ lost' = lost
        /\ restored' = restored /\ written' = written
    BY <1>2 DEF Nv!PushOther
  <2>2. <<"other", "work">> \in Pushed
    BY <1>v DEF Pushed
  <2>3. stack' \in Seq(Pushed) /\ (OwnBelow(stack) => OwnBelow(stack)')
    BY <1>t, <2>1, <2>2, PushedOn DEF OwnBelow
  <2>4. Nv!TypeOK'
    BY <1>t, <1>l, <2>1, <2>3 DEF Nv!TypeOK, Pushed
  <2>5. tricks' = {} => Plainly'
    BY <1>p, <1>t, <2>1, <2>3 DEF Plainly
  <2> QED
    BY <1>j, <2>4, <2>5 DEF NvInv
<1>3. CASE Nv!PopOther
  <2>1. /\ Nv!NextLine /\ stack # <<>> /\ stack' = SubSeq(stack, 1, Len(stack) - 1)
        /\ saved' = saved /\ tricks' = tricks /\ reg' = reg /\ slot' = slot
        /\ reached' = reached /\ lost' = lost /\ restored' = restored /\ written' = written
    BY <1>3 DEF Nv!PopOther
  <2>3. stack' \in Seq(Pushed) /\ (OwnBelow(stack) => OwnBelow(stack)')
    BY <1>t, <2>1, Popped DEF OwnBelow
  <2>4. Nv!TypeOK'
    BY <1>t, <1>l, <2>1, <2>3 DEF Nv!TypeOK, Pushed
  <2>5. tricks' = {} => Plainly'
    BY <1>p, <1>t, <2>1, <2>3 DEF Plainly
  <2> QED
    BY <1>j, <2>4, <2>5 DEF NvInv
<1>4. CASE Nv!Pop
  <2>1. /\ Nv!NextLine /\ stack # <<>> /\ stack' = SubSeq(stack, 1, Len(stack) - 1)
        /\ reg' = stack[Len(stack)][2] /\ restored' = TRUE
        /\ tricks' = {} => tricks = {} /\ stack[Len(stack)][1] = "reg"
        /\ saved' = saved /\ slot' = slot /\ reached' = reached /\ lost' = lost
        /\ written' = written
    BY <1>4 DEF Nv!Pop, Nv!Note
  <2>2. PICK c \in Pushed : c = stack[Len(stack)]
    BY <1>t, <2>1, Popped
  <2>3. /\ stack' \in Seq(Pushed) /\ (OwnBelow(stack) => OwnBelow(stack)')
        /\ OwnBelow(stack) /\ c[1] = "reg" => c[2] = "own"
    BY <1>t, <2>1, <2>2, Popped DEF OwnBelow
  <2>4. reg' \in Nv!Values
    BY <2>1, <2>2 DEF Pushed
  <2>5. Nv!TypeOK'
    BY <1>t, <1>l, <2>1, <2>3, <2>4 DEF Nv!TypeOK, Pushed
  <2>6. tricks' = {} => Plainly'
    BY <1>p, <1>t, <1>l, <2>1, <2>2, <2>3 DEF Plainly
  <2> QED
    BY <1>j, <2>5, <2>6 DEF NvInv
<1>5. CASE Nv!StoreSlot
  <2>1. /\ Nv!NextLine /\ saved' = (saved \/ ~written) /\ slot' = reg
        /\ tricks' = {} => tricks = {} /\ ~(saved /\ reg = "work")
        /\ reg' = reg /\ stack' = stack /\ reached' = reached /\ lost' = lost
        /\ restored' = restored /\ written' = written
    BY <1>5 DEF Nv!StoreSlot, Nv!NoteSave, Nv!Note
  <2>2. OwnBelow(stack)' <=> OwnBelow(stack)
    BY <2>1 DEF OwnBelow
  <2>4. Nv!TypeOK'
    BY <1>t, <1>l, <2>1 DEF Nv!TypeOK, Pushed
  <2>5. tricks' = {} => Plainly'
    BY <1>p, <1>t, <1>l, <2>1, <2>2 DEF Plainly, Nv!Values
  <2> QED
    BY <1>j, <2>4, <2>5 DEF NvInv
<1>6. CASE Nv!Touch
  <2>1. /\ Nv!NextLine /\ saved' = (saved \/ ~written)
        /\ tricks' = {} => tricks = {} /\ written
        /\ reg' = reg /\ stack' = stack /\ slot' = slot /\ reached' = reached /\ lost' = lost
        /\ restored' = restored /\ written' = written
    BY <1>6 DEF Nv!Touch, Nv!NoteSave, Nv!Note
  <2>2. OwnBelow(stack)' <=> OwnBelow(stack)
    BY <2>1 DEF OwnBelow
  <2>4. Nv!TypeOK'
    BY <1>t, <1>l, <2>1 DEF Nv!TypeOK, Pushed
  <2>5. tricks' = {} => Plainly'
    BY <1>p, <1>t, <1>l, <2>1, <2>2 DEF Plainly
  <2> QED
    BY <1>j, <2>4, <2>5 DEF NvInv
<1>7. CASE Nv!LoadSlot
  <2>1. /\ Nv!NextLine /\ restored' = (restored \/ saved) /\ written' = TRUE
        /\ slot # "unset" /\ reg' = slot
        /\ tricks' = tricks /\ stack' = stack /\ slot' = slot /\ reached' = reached /\ lost' = lost
        /\ saved' = saved
    BY <1>7 DEF Nv!LoadSlot, Nv!NoteLoad
  <2>2. OwnBelow(stack)' <=> OwnBelow(stack)
    BY <2>1 DEF OwnBelow
  <2>4. Nv!TypeOK'
    BY <1>t, <1>l, <2>1 DEF Nv!TypeOK, Pushed
  <2>5. tricks' = {} => Plainly'
    BY <1>p, <1>t, <1>l, <2>1, <2>2 DEF Plainly, Nv!Values
  <2> QED
    BY <1>j, <2>4, <2>5 DEF NvInv
<1>8. CASE Nv!LoadData
  <2>1. /\ Nv!NextLine /\ reg' = "work" /\ restored' = (restored \/ saved) /\ written' = TRUE
        /\ "load of data" \in tricks'
        /\ stack' = stack /\ slot' = slot /\ reached' = reached /\ lost' = lost /\ saved' = saved
    BY <1>8 DEF Nv!LoadData, Nv!NoteLoad, Nv!Note
  <2>4. Nv!TypeOK'
    BY <1>t, <1>l, <1>v, <2>1 DEF Nv!TypeOK, Pushed
  <2>5. tricks' # {}
    BY <2>1
  <2> QED
    BY <1>j, <2>4, <2>5 DEF NvInv
<1>9. CASE Nv!Write
  <2>1. /\ Nv!NextLine /\ reg' = "work" /\ written' = TRUE
        /\ tricks' = {} => tricks = {} /\ ~restored
        /\ stack' = stack /\ slot' = slot /\ reached' = reached /\ lost' = lost
        /\ saved' = saved /\ restored' = restored
    BY <1>9 DEF Nv!Write, Nv!Note
  <2>2. OwnBelow(stack)' <=> OwnBelow(stack)
    BY <2>1 DEF OwnBelow
  <2>4. Nv!TypeOK'
    BY <1>t, <1>l, <1>v, <2>1 DEF Nv!TypeOK, Pushed
  <2>5. tricks' = {} => Plainly'
    BY <1>p, <1>t, <1>l, <2>1, <2>2 DEF Plainly
  <2> QED
    BY <1>j, <2>4, <2>5 DEF NvInv
<1>10. CASE Nv!Branch
  <2>1. /\ Nv!NextLine /\ jump' = <<reg, stack, slot>>
        /\ reg' = reg /\ stack' = stack /\ slot' = slot /\ reached' = reached /\ lost' = lost
        /\ tricks' = tricks /\ saved' = saved /\ restored' = restored /\ written' = written
    BY <1>10 DEF Nv!Branch, Nv!Here
  <2>2. OwnBelow(stack)' <=> OwnBelow(stack)
    BY <2>1 DEF OwnBelow
  <2>4. Nv!TypeOK'
    BY <1>t, <1>l, <2>1 DEF Nv!TypeOK, Pushed
  <2>5. tricks' = {} => Plainly'
    BY <1>p, <1>t, <1>l, <2>1, <2>2 DEF Plainly
  <2> QED
    BY <1>j, <2>4, <2>5 DEF NvInv
<1>11. CASE Nv!Ret
  <2>1. /\ Nv!NextLine /\ stack = <<>> /\ lost' = (lost \/ reg # "own")
        /\ saved' = saved /\ restored' = restored /\ written' = written
        /\ reached' = (jump # Nv!None)
        /\ tricks' = {} => tricks = {} /\ jump = Nv!None
        /\ jump = Nv!None => reg' = reg /\ stack' = stack /\ slot' = slot
        /\ jump # Nv!None => reg' = jump[1] /\ stack' = jump[2] /\ slot' = jump[3]
    BY <1>11 DEF Nv!Ret, Nv!Note
  <2>2. stack' \in Seq(Pushed) /\ reg' \in Nv!Values /\ slot' \in Nv!Values \cup {"unset"}
    BY <1>t, <2>1 DEF NvInv, JumpTyped
  <2>3. Nv!TypeOK'
    BY <1>t, <1>l, <2>1, <2>2 DEF Nv!TypeOK, Pushed
  <2>4. tricks' = {} => Plainly'
    <3>1. SUFFICES ASSUME tricks' = {} PROVE Plainly'
      OBVIOUS
    <3>2. /\ reg' = reg /\ stack' = stack /\ slot' = slot /\ reached' = FALSE /\ reached = TRUE
          /\ Plainly
      BY <1>p, <1>t, <1>l, <2>1, <3>1
    <3>3. OwnBelow(stack)' <=> OwnBelow(stack)
      BY <3>2 DEF OwnBelow
    <3>4. reg # "own" => written /\ ~(saved /\ restored)
      BY <3>2, Zenon DEF Plainly
    <3> QED
      BY <1>t, <2>1, <3>2, <3>3, <3>4, Zenon DEF Plainly
  <2> QED
    BY <1>j, <2>3, <2>4 DEF NvInv
<1>12. CASE Nv!EndProc \/ UNCHANGED nvVars
  <2>1. /\ code' = code /\ reg' = reg /\ stack' = stack /\ slot' = slot /\ reached' = reached
        /\ lost' = lost /\ tricks' = tricks /\ saved' = saved /\ restored' = restored
        /\ written' = written /\ closed' \in BOOLEAN
    BY <1>12, <1>t DEF Nv!EndProc, nvVars
  <2>2. OwnBelow(stack)' <=> OwnBelow(stack)
    BY <2>1 DEF OwnBelow
  <2>3. Nv!TypeOK'
    BY <1>t, <2>1 DEF Nv!TypeOK, Pushed
  <2>4. tricks' = {} => Plainly'
    BY <1>p, <1>t, <2>1, <2>2, Zenon DEF Plainly
  <2> QED
    BY <1>j, <2>3, <2>4 DEF NvInv
<1> QED
  BY <1>1, <1>2, <1>3, <1>4, <1>5, <1>6, <1>7, <1>8, <1>9, <1>10, <1>11, <1>12, Zenon DEF Nv!Next

LEMMA NvHolds == BuildSpec => []NvInv
<1>1. BuildInit => NvInv
  BY SourcesAssumption, NvInit, StartParts
<1>2. NvInv /\ [BuildNext]_buildVars => NvInv'
  BY SourcesAssumption, NvKeeps, GateSteps
<1> QED
  BY <1>1, <1>2, PTL DEF BuildSpec

(* What nvcheck passes gives the caller its registers back, or has a shape    *)
(* that hides it: while no trick is played the scanner's three notes decide.  *)
THEOREM RegistersSurvive == BuildSpec => []ClobberIsSeen
<1>1. NvInv => ClobberIsSeen
  BY DEF NvInv, Plainly, ClobberIsSeen, Nv!ClobberIsSeen, Nv!Findings
<1> QED
  BY <1>1, NvHolds, PTL

-----------------------------------------------------------------------------
(* wstrcheck: what took the limit out of r8 is no further back than what the   *)
(* scanner takes for setting it.                                               *)

WstrInv == /\ Wstr!TypeOK
           /\ r8 = "other" => age <= since
           /\ noBound = 0 => \A a \in overrun : a <= Back

LEMMA WstrInit == ASSUME SourcesAssumption, Wstr!Init
                  PROVE  WstrInv
<1>1. Back \in Nat /\ MaxCalls \in Nat
  BY DEF SourcesAssumption
<1> QED
  BY <1>1 DEF Wstr!Init, WstrInv, Wstr!TypeOK

LEMMA WstrKeeps == ASSUME SourcesAssumption, WstrInv, [Wstr!Next]_wstrVars
                   PROVE  WstrInv'
<1> DEFINE Ages == 1..(Back + 1)
<1>1. /\ Back \in Nat /\ MaxCalls \in Nat /\ Skips \subseteq Nat
      /\ since \in Ages /\ age \in Ages /\ overrun \subseteq Ages
      /\ copies \in 0..MaxCalls /\ noBound \in 0..copies
      /\ r8 \in {"limit", "other"}
      /\ r8 = "other" => age <= since
      /\ noBound = 0 => \A a \in overrun : a <= Back
  BY DEF SourcesAssumption, WstrInv, Wstr!TypeOK
\* lines go by for both, and keep their order
<1>2. ASSUME NEW n \in Nat
      PROVE  /\ Wstr!Further(since, n) \in Ages /\ Wstr!Further(age, n) \in Ages
             /\ age <= since => Wstr!Further(age, n) <= Wstr!Further(since, n)
  BY <1>1 DEF Wstr!Further
\* what is left to say of a line
<1>a. /\ since' \in Ages /\ age' \in Ages /\ overrun' \subseteq Ages
      /\ copies' \in 0..MaxCalls /\ noBound' \in 0..copies' /\ r8' \in {"limit", "other"}
      /\ r8' = "other" => age' <= since'
      /\ noBound' = 0 => \A a \in overrun' : a <= Back
      => WstrInv'
  BY <1>1 DEF WstrInv, Wstr!TypeOK
<1>b. 1 \in Ages
  BY <1>1
<1>3. CASE Wstr!SetBound \/ Wstr!SetOther
  <2>1. /\ since' = 1 /\ age' = 1 /\ r8' \in {"limit", "other"}
        /\ UNCHANGED <<noBound, copies, overrun>>
    BY <1>3 DEF Wstr!SetBound, Wstr!SetOther
  <2> HIDE DEF Ages
  <2> QED
    BY <1>1, <1>a, <1>b, <2>1
<1>4. CASE Wstr!Disturb
  <2>1. /\ since' = Wstr!Further(since, 1) /\ age' = 1 /\ r8' = "other"
        /\ UNCHANGED <<noBound, copies, overrun>>
    BY <1>4 DEF Wstr!Disturb
  <2>2. since' \in Ages /\ age' \in Ages /\ age' <= since'
    BY <1>1, <1>2, <1>b, <2>1
  <2> HIDE DEF Ages
  <2> QED
    BY <1>1, <1>a, <2>1, <2>2
<1>5. CASE \E n \in Skips : Wstr!Plain(n)
  <2>1. PICK n \in Nat : /\ since' = Wstr!Further(since, n) /\ age' = Wstr!Further(age, n)
                         /\ UNCHANGED <<noBound, copies, r8, overrun>>
    BY <1>1, <1>5 DEF Wstr!Plain
  <2>2. since' \in Ages /\ age' \in Ages /\ (age <= since => age' <= since')
    BY <1>2, <2>1
  <2> HIDE DEF Ages
  <2> QED
    BY <1>1, <1>a, <2>1, <2>2
<1>6. CASE Wstr!Copy
  <2>1. /\ copies < MaxCalls /\ copies' = copies + 1
        /\ noBound' = noBound + (IF since > Back THEN 1 ELSE 0)
        /\ overrun' = overrun \cup (IF r8 = "limit" THEN {} ELSE {age})
        /\ since' = Wstr!Further(since, 1) /\ age' = Wstr!Further(age, 1) /\ r8' = r8
    BY <1>6 DEF Wstr!Copy, Wstr!Missing
  <2>2. since' \in Ages /\ age' \in Ages /\ (age <= since => age' <= since')
    BY <1>2, <2>1
  <2>3. /\ copies' \in 0..MaxCalls /\ noBound' \in 0..copies'
        /\ noBound' = 0 => noBound = 0 /\ since <= Back
    BY <1>1, <2>1
  <2>4. noBound' = 0 => \A a \in overrun' : a <= Back
    <3>1. ASSUME noBound' = 0, r8 = "other" PROVE age <= Back
      BY <1>1, <2>3, <3>1
    <3>2. \A a \in overrun' : a \in overrun \/ (a = age /\ r8 = "other")
      BY <1>1, <2>1
    <3> QED
      BY <1>1, <2>3, <3>1, <3>2, Zenon
  <2>5. overrun' \subseteq Ages
    BY <1>1, <2>1, Zenon
  <2> HIDE DEF Ages
  <2> QED
    BY <1>1, <1>a, <2>1, <2>2, <2>3, <2>4, <2>5, Zenon
<1>7. CASE UNCHANGED wstrVars
  <2>1. UNCHANGED <<since, noBound, copies, r8, age, overrun>>
    BY <1>7, Zenon DEF wstrVars
  <2> HIDE DEF Ages
  <2> QED
    BY <1>1, <2>1, <1>a
<1> QED
  BY <1>3, <1>4, <1>5, <1>6, <1>7, Zenon DEF Wstr!Next

LEMMA WstrHolds == BuildSpec => []WstrInv
<1>1. BuildInit => WstrInv
  BY SourcesAssumption, WstrInit, StartParts
<1>2. WstrInv /\ [BuildNext]_buildVars => WstrInv'
  BY SourcesAssumption, WstrKeeps, GateSteps
<1> QED
  BY <1>1, <1>2, PTL DEF BuildSpec

(* However far the scanner looks back and however long the procedure is, a     *)
(* copy that lost its limit lost it within the lines looked back over.          *)
THEOREM CopiesAreBounded == BuildSpec => []LostBoundIsNear
<1>1. WstrInv => LostBoundIsNear
  BY Zenon DEF WstrInv, LostBoundIsNear, Wstr!LostBoundIsNear, Wstr!Findings
<1> QED
  BY <1>1, WstrHolds, PTL

-----------------------------------------------------------------------------
(* aligncheck: until a line it cannot size the scanner is where the assembler *)
(* is; an odd label there was reported, and so was the largest array.         *)

AlignInv == /\ Align!TypeOK
            /\ \A s \in Sections \ blind : offsets[s] = at[s]
            /\ FALSE \in odd => strings > 0
            /\ empty >= BSS_MIN_BYTES => bss > 0

LEMMA AlignInit == ASSUME SourcesAssumption, Align!Init
                   PROVE  AlignInv
<1>1. BSS_MIN_BYTES \in Nat \ {0} /\ MaxDecls \in Nat
  BY DEF SourcesAssumption
<1> QED
  BY <1>1 DEF Align!Init, AlignInv, Align!TypeOK, Align!Unknown

\* Rounding up never leaves the naturals.
LEMMA RoundType == ASSUME NEW n \in Nat, NEW a \in Nat \ {0}
                   PROVE  Align!RoundUp(n, a) \in Nat
<1>1. PICK k \in Nat : k = (n + a - 1) \div a
  OBVIOUS
<1>2. k * a \in Nat
  OBVIOUS
<1> QED
  BY <1>1, <1>2 DEF Align!RoundUp

\* A line's bytes, on both sides.
LEMMA PlacedSo ==
    ASSUME AlignInv, Align!Decl, section \in Sections,
           NEW base \in Nat, NEW real \in Nat, NEW seenBase, NEW seen \in Nat,
           Align!Place(base, real, seenBase, seen),
           offsets[section] # Align!Unknown => seenBase \in Nat,
           section \notin blind' => seenBase = base /\ seen = real,
           blind \subseteq blind', blind' \subseteq Sections
    PROVE  /\ at' \in [Sections -> Nat] /\ offsets' \in [Sections -> Nat \cup {Align!Unknown}]
           /\ \A s \in Sections \ blind' : offsets'[s] = at'[s]
<1>1. /\ at \in [Sections -> Nat] /\ offsets \in [Sections -> Nat \cup {Align!Unknown}]
      /\ \A s \in Sections \ blind : offsets[s] = at[s]
  BY DEF AlignInv, Align!TypeOK
<1>2. /\ at' = [at EXCEPT ![section] = base + real]
      /\ offsets' = [offsets EXCEPT ![section] = IF offsets[section] = Align!Unknown
                                                  THEN Align!Unknown ELSE seenBase + seen]
  BY DEF Align!Place
<1>3. base + real \in Nat /\ (offsets[section] # Align!Unknown => seenBase + seen \in Nat)
  OBVIOUS
<1>4. at' \in [Sections -> Nat] /\ offsets' \in [Sections -> Nat \cup {Align!Unknown}]
  BY <1>1, <1>2, <1>3
<1>5. ASSUME NEW s \in Sections \ blind'
      PROVE  offsets'[s] = at'[s]
  <2>1. offsets[s] = at[s] /\ at[s] \in Nat
    BY <1>1
  <2>2. at[s] # Align!Unknown
    BY <2>1 DEF Align!Unknown
  <2> QED
    BY <1>1, <1>2, <2>1, <2>2
<1> QED
  BY <1>4, <1>5


\* A wide label's address, on both sides: where the scanner can see, it sees an odd one.
LEMMA LabelledSo ==
    ASSUME AlignInv, section \in Sections,
           NEW off \in Nat, NEW seenOff, Align!WideLabel(off, seenOff),
           section \notin blind => seenOff = off
    PROVE  odd' \subseteq BOOLEAN /\ strings' \in Nat /\ (FALSE \in odd' => strings' > 0)
<1>1. /\ odd \subseteq BOOLEAN /\ strings \in Nat /\ (FALSE \in odd => strings > 0)
      /\ section \notin blind => offsets[section] = at[section] /\ at[section] \in Nat
  BY DEF AlignInv, Align!TypeOK
<1>2. /\ odd' = odd \cup (IF off % 2 = 1 THEN {section \in blind} ELSE {})
      /\ strings' = strings + (IF offsets[section] # Align!Unknown /\ seenOff % 2 = 1 THEN 1 ELSE 0)
  BY DEF Align!WideLabel
<1>3. (section \in blind) \in BOOLEAN
  OBVIOUS
<1>4. odd' \subseteq BOOLEAN
  BY <1>1, <1>2, <1>3, Zenon
<1>5. strings' \in Nat /\ strings' >= strings
  BY <1>1, <1>2
<1>6. ASSUME FALSE \in odd', FALSE \notin odd
      PROVE  strings' > 0
  <2>1. off % 2 = 1 /\ section \notin blind
    BY <1>2, <1>6, Zenon
  <2>2. offsets[section] # Align!Unknown /\ seenOff % 2 = 1
    BY <1>1, <2>1 DEF Align!Unknown
  <2> QED
    BY <1>1, <1>2, <2>2
<1>7. strings > 0 => strings' > 0
  BY <1>1, <1>5
<1> QED
  BY <1>1, <1>4, <1>5, <1>6, <1>7, Zenon

LEMMA AlignKeeps == ASSUME SourcesAssumption, AlignInv, [Align!Next]_alignVars
                    PROVE  AlignInv'
<1>c. /\ \A d \in DOMAIN Directives : Directives[d] \in Nat \ {0}
      /\ Lengths \subseteq Nat /\ Aligns \subseteq Nat \ {0}
      /\ BSS_MIN_BYTES \in Nat \ {0} /\ MaxDecls \in Nat
  BY DEF SourcesAssumption
<1>t. /\ section \in Sections \cup {"none"} /\ decls \in 0..MaxDecls
      /\ at \in [Sections -> Nat] /\ offsets \in [Sections -> Nat \cup {Align!Unknown}]
      /\ strings \in Nat /\ bss \in Nat /\ empty \in Nat
      /\ blind \subseteq Sections /\ odd \subseteq BOOLEAN
      /\ \A s \in Sections \ blind : offsets[s] = at[s]
      /\ FALSE \in odd => strings > 0
      /\ empty >= BSS_MIN_BYTES => bss > 0
  BY DEF AlignInv, Align!TypeOK
<1>d. Align!Decl => /\ section \in Sections /\ section' = section /\ decls' \in 0..MaxDecls
                    /\ at[section] \in Nat
                    /\ offsets[section] # Align!Unknown => offsets[section] \in Nat
                    /\ section \notin blind => offsets[section] = at[section]
  BY <1>c, <1>t DEF Align!Decl
\* what is left to say of a line: where it was put, and what was reported of it
<1> DEFINE PlacedOK == /\ at' \in [Sections -> Nat]
                       /\ offsets' \in [Sections -> Nat \cup {Align!Unknown}]
                       /\ \A s \in Sections \ blind' : offsets'[s] = at'[s]
           LabelOK == odd' \subseteq BOOLEAN /\ strings' \in Nat /\ (FALSE \in odd' => strings' > 0)
           EmptyOK == bss' \in Nat /\ empty' \in Nat /\ (empty' >= BSS_MIN_BYTES => bss' > 0)
<1>a. /\ section' \in Sections \cup {"none"} /\ decls' \in 0..MaxDecls /\ blind' \subseteq Sections
      /\ PlacedOK /\ LabelOK /\ EmptyOK
      => AlignInv'
  BY DEF AlignInv, Align!TypeOK
<1>n. UNCHANGED <<odd, strings>> => LabelOK
  BY <1>t
<1>e. UNCHANGED <<bss, empty>> => EmptyOK
  BY <1>t
<1>1. CASE \E s \in Sections : Align!Section(s)
  <2>1. /\ section' \in Sections /\ decls' \in 0..MaxDecls
        /\ UNCHANGED <<at, offsets, strings, bss, blind, odd, empty>>
    BY <1>1, <1>c, <1>t DEF Align!Section
  <2> QED
    BY <1>t, <2>1 DEF AlignInv, Align!TypeOK
<1>2. ASSUME NEW d \in DOMAIN Directives, NEW n \in Lengths \cup {0}, Align!Define(d, n)
      PROVE  AlignInv'
  <2>1. PICK b \in Nat : b = n * Directives[d]
    BY <1>c
  <2>2. /\ Align!Decl /\ Align!Place(at[section], b, offsets[section], b)
        /\ \/ Align!WideLabel(at[section], offsets[section])
           \/ UNCHANGED <<odd, strings>>
        /\ UNCHANGED <<bss, blind, empty>>
    BY <1>2, <2>1 DEF Align!Define, Align!Narrow
  <2>3. PlacedOK
    BY <1>d, <1>t, <2>2, PlacedSo
  <2>4. LabelOK
    BY <1>d, <1>n, <2>2, LabelledSo
  <2> QED
    BY <1>a, <1>d, <1>e, <1>t, <2>2, <2>3, <2>4
<1>3. ASSUME NEW d \in DOMAIN Directives, NEW n \in Lengths, NEW resolved \in BOOLEAN,
             Align!Array(d, n, resolved)
      PROVE  AlignInv'
  <2>1. PICK b \in Nat : b = n * Directives[d]
    BY <1>c
  <2> DEFINE large == section = ".data" /\ resolved /\ b >= BSS_MIN_BYTES
  <2>2. /\ Align!Decl
        /\ at' = [at EXCEPT ![section] = @ + b]
        /\ offsets' = [offsets EXCEPT ![section] =
                         IF @ = Align!Unknown \/ ~resolved THEN Align!Unknown ELSE @ + b]
        /\ blind' = IF resolved THEN blind ELSE blind \cup {section}
        /\ bss' = bss + (IF large THEN 1 ELSE 0)
        /\ empty' = IF section = ".data" /\ resolved /\ b > empty THEN b ELSE empty
        /\ \/ Align!WideLabel(at[section], offsets[section])
           \/ UNCHANGED <<odd, strings>>
    BY <1>3, <2>1 DEF Align!Array, Align!Narrow
  <2>3. at' \in [Sections -> Nat] /\ offsets' \in [Sections -> Nat \cup {Align!Unknown}]
    BY <1>d, <1>t, <2>2
  <2>4. ASSUME NEW s \in Sections \ blind'
        PROVE  offsets'[s] = at'[s]
    <3>1. offsets[s] = at[s] /\ at[s] \in Nat /\ (s = section => resolved)
      BY <1>t, <2>2
    <3> QED
      BY <1>t, <2>2, <3>1 DEF Align!Unknown
  <2>5. LabelOK
    BY <1>d, <1>n, <2>2, LabelledSo
  <2>6. EmptyOK
    BY <1>t, <1>c, <2>2
  <2>7. blind' \subseteq Sections
    BY <1>d, <1>t, <2>2
  <2> QED
    BY <1>a, <1>d, <2>2, <2>3, <2>4, <2>5, <2>6, <2>7
<1>4. ASSUME NEW n \in Lengths, Align!WideString(n)
      PROVE  AlignInv'
  <2>1. PICK b \in Nat : b = 2 * (n + 1)
    BY <1>c
  <2>2. /\ Align!Decl
        /\ Align!Place(Align!RoundUp(at[section], 2), b, Align!RoundUp(offsets[section], 2), b)
        /\ Align!WideLabel(Align!RoundUp(at[section], 2), Align!RoundUp(offsets[section], 2))
        /\ UNCHANGED <<bss, blind, empty>>
    BY <1>4, <2>1 DEF Align!WideString
  <2>3. /\ Align!RoundUp(at[section], 2) \in Nat
        /\ offsets[section] # Align!Unknown => Align!RoundUp(offsets[section], 2) \in Nat
    BY <1>d, <2>2, RoundType
  <2>4. PlacedOK
    BY <1>d, <1>t, <2>2, <2>3, PlacedSo
  <2>5. LabelOK
    BY <1>d, <2>2, <2>3, LabelledSo
  <2> QED
    BY <1>a, <1>d, <1>e, <1>t, <2>2, <2>4, <2>5
<1>5. ASSUME NEW n \in Lengths, Align!NarrowString(n) \/ Align!Instance(n)
      PROVE  AlignInv'
  <2>1. n \in Nat /\ n + 1 \in Nat /\ 0 \in Nat
    BY <1>c
  <2>2. /\ Align!Decl
        /\ \E seen \in Nat : Align!Place(at[section], n, offsets[section], seen)
        /\ blind' = blind \cup {section} /\ UNCHANGED <<odd, strings, bss, empty>>
    BY <1>5, <2>1 DEF Align!NarrowString, Align!Instance, Align!Narrow
  <2>3. PlacedOK
    BY <1>d, <1>t, <2>1, <2>2, PlacedSo
  <2> QED
    BY <1>a, <1>d, <1>e, <1>n, <1>t, <2>2, <2>3
<1>6. ASSUME NEW a \in Aligns, Align!Align(a)
      PROVE  AlignInv'
  <2>1. a \in Nat \ {0} /\ 0 \in Nat
    BY <1>c
  <2>2. /\ Align!Decl
        /\ Align!Place(Align!RoundUp(at[section], a), 0, Align!RoundUp(offsets[section], a), 0)
        /\ UNCHANGED <<odd, strings, bss, blind, empty>>
    BY <1>6 DEF Align!Align, Align!Narrow
  <2>3. /\ Align!RoundUp(at[section], a) \in Nat
        /\ offsets[section] # Align!Unknown => Align!RoundUp(offsets[section], a) \in Nat
    BY <1>d, <2>1, <2>2, RoundType
  <2>4. PlacedOK
    BY <1>d, <1>t, <2>1, <2>2, <2>3, PlacedSo
  <2> QED
    BY <1>a, <1>d, <1>e, <1>n, <1>t, <2>2, <2>4
<1>7. CASE UNCHANGED alignVars
  BY <1>7, <1>t DEF alignVars, AlignInv, Align!TypeOK
<1> QED
  BY <1>1, <1>2, <1>3, <1>4, <1>5, <1>6, <1>7 DEF Align!Next

LEMMA AlignHolds == BuildSpec => []AlignInv
<1>1. BuildInit => AlignInv
  BY SourcesAssumption, AlignInit, StartParts
<1>2. AlignInv /\ [BuildNext]_buildVars => AlignInv'
  BY SourcesAssumption, AlignKeeps, GateSteps
<1> QED
  BY <1>1, <1>2, PTL DEF BuildSpec

(* In sources of any length that aligncheck passes, every wide string the      *)
(* scanner could place lies at an even address, and no large array it could    *)
(* size is emitted as zeros.                                                   *)
THEOREM DataIsAligned == BuildSpec => []DataIsNatural
<1>1. AlignInv => DataIsNatural
  <2> SUFFICES ASSUME AlignInv, Align!Findings = 0
               PROVE  FALSE \notin odd /\ empty < BSS_MIN_BYTES
    BY DEF DataIsNatural, Align!DataIsNatural
  <2>1. strings \in Nat /\ bss \in Nat /\ empty \in Nat /\ BSS_MIN_BYTES \in Nat
    BY SourcesAssumption DEF AlignInv, Align!TypeOK, SourcesAssumption
  <2>2. ~(strings > 0) /\ ~(bss > 0)
    BY <2>1 DEF Align!Findings
  <2>3. FALSE \notin odd /\ ~(empty >= BSS_MIN_BYTES)
    BY <2>2, Zenon DEF AlignInv
  <2>4. empty < BSS_MIN_BYTES
    BY <2>1, <2>3
  <2> QED
    BY <2>3, <2>4, Zenon
<1> QED
  BY <1>1, AlignHolds, PTL


-----------------------------------------------------------------------------
(* deadcode: what is still defined refers only to what is still defined, as    *)
(* far as the tool reads, so it is a set the needed symbols cannot leave.      *)

Triples == Symbols \X Symbols \X DeadC!Forms

\* a reference u leads from what is defined, and to it where the tool reads
Led(u) == u[1] \in defs /\ (u[3] \in DeadC!Pooled => u[2] \in defs)

DeadInv == /\ DeadC!TypeOK
           /\ Roots \subseteq defs
           /\ \A u \in uses : Led(u)

\* There are only so many references.
LEMMA FewTriples == IsFiniteSet(Triples)
<1> DEFINE f == [t \in Triples |-> <<t[1], <<t[2], t[3]>>>>]
           P == Symbols \X (Symbols \X DeadC!Forms)
<1>1. IsFiniteSet(DeadC!Forms)
  <2>1. DeadC!Forms = (({} \cup {"definition line"}) \cup {"body"} \cup {"structure"}) \cup {"other case"}
    BY DEF DeadC!Forms
  <2> QED
    BY <2>1, FS_EmptySet, FS_AddElement
<1>2. IsFiniteSet(P)
  BY <1>1, SourcesAssumption, FS_Product DEF SourcesAssumption
<1>3. f \in Injection(Triples, P)
  <2>1. f \in [Triples -> P]
    BY DEF Triples
  <2>2. ASSUME NEW t \in Triples, NEW v \in Triples, f[t] = f[v]
        PROVE  t = v
    BY <2>2 DEF Triples
  <2> QED
    BY <2>1, <2>2 DEF Injection, IsInjective
<1> QED
  BY <1>2, <1>3, FS_Injection

\* A set has one size, whichever module counts.
LEMMA OneCount == /\ \A S : DeadC!Cardinality(S) = Cardinality(S)
                  /\ \A S : Const!Cardinality(S) = Cardinality(S)
<1>1. \A S : DeadC!Cardinality(S) = Cardinality(S)
  BY Zenon DEF DeadC!Cardinality, Cardinality
<1>2. \A S : Const!Cardinality(S) = Cardinality(S)
  BY Zenon DEF Const!Cardinality, Cardinality
<1> QED
  BY <1>1, <1>2, Zenon

LEMMA DeadParts ==
    DeadInv <=> /\ defs \cup swept = Symbols /\ defs \cap swept = {} /\ announced \subseteq defs
                /\ uses \subseteq Triples /\ Cardinality(uses) <= MaxUses
                /\ Roots \subseteq defs
                /\ \A u \in uses : Led(u)
<1>1. DeadC!Cardinality(uses) = Cardinality(uses)
  BY OneCount, Zenon
<1> QED
  BY <1>1, Zenon DEF DeadInv, DeadC!TypeOK, Triples

LEMMA DeadInit == ASSUME DeadC!Init
                  PROVE  DeadInv
<1>1. /\ Roots \subseteq Symbols /\ Cardinality(DeadC!CleanUses) <= MaxUses
  BY SourcesAssumption DEF SourcesAssumption
<1>2. /\ defs = Symbols /\ swept = {} /\ uses = DeadC!CleanUses /\ announced \in {{}, Symbols}
  BY Zenon DEF DeadC!Init
<1>3. ASSUME NEW u \in DeadC!CleanUses
      PROVE  u \in Triples /\ Led(u)
  <2>1. /\ u[1] \in Symbols /\ u[2] \in Symbols
        /\ u \in Triples
    BY <1>1 DEF DeadC!CleanUses, Triples, DeadC!Forms
  <2> QED
    BY <1>2, <2>1 DEF Led
<1>4. announced \subseteq Symbols
  BY <1>2
<1>5. Symbols \cup {} = Symbols /\ Symbols \cap {} = {}
  OBVIOUS
<1>6. uses \subseteq Triples /\ \A u \in uses : Led(u)
  BY <1>2, <1>3, Zenon
<1> QED
  BY <1>1, <1>2, <1>4, <1>5, <1>6, DeadParts, Zenon

LEMMA DeadKeeps == ASSUME DeadInv, [DeadC!Next]_deadVars
                   PROVE  DeadInv'
<1>t. /\ defs \cup swept = Symbols /\ defs \cap swept = {} /\ announced \subseteq defs
      /\ uses \subseteq Triples /\ Cardinality(uses) <= MaxUses
      /\ Roots \subseteq defs
      /\ \A u \in uses : Led(u)
  BY DeadParts, Zenon
<1>f. IsFiniteSet(uses) /\ Cardinality(uses) \in Nat /\ MaxUses \in Nat
  <2>1. uses \in SUBSET Triples
    BY <1>t
  <2>2. IsFiniteSet(uses)
    BY <2>1, FewTriples, FS_Subset, Zenon
  <2> QED
    BY <2>2, FS_CardinalityType, SourcesAssumption, Zenon DEF SourcesAssumption
\* what is left to say of a step
<1>a. /\ defs' \cup swept' = Symbols /\ defs' \cap swept' = {} /\ announced' \subseteq defs'
      /\ uses' \subseteq Triples /\ Cardinality(uses') <= MaxUses
      /\ Roots \subseteq defs'
      /\ \A u \in uses' : Led(u)'
      => DeadInv'
  <2>1. DeadC!Cardinality(uses') = Cardinality(uses')
    BY OneCount, Zenon
  <2> QED
    BY <2>1, Zenon DEF DeadInv, DeadC!TypeOK, Triples
<1>1. ASSUME NEW s \in Symbols, NEW t \in Symbols, NEW form \in DeadC!Forms, DeadC!Refer(s, t, form)
      PROVE  DeadInv'
  <2> DEFINE new == <<s, t, form>>
  <2>1. /\ {s, t} \subseteq defs /\ Cardinality(uses) < MaxUses
        /\ uses' = uses \cup {new}
        /\ defs' = defs /\ announced' = announced /\ swept' = swept
    <3>1. DeadC!Cardinality(uses) = Cardinality(uses)
      BY OneCount, Zenon
    <3> QED
      BY <1>1, <3>1, Zenon DEF DeadC!Refer
  <2>2. new \in Triples
    BY Zenon DEF Triples
  <2>3. Led(new)
    <3>1. s \in defs /\ t \in defs
      BY <2>1
    <3> QED
      BY <3>1 DEF Led
  <2> HIDE DEF new
  <2>4. Cardinality(uses') <= MaxUses
    <3>1. /\ Cardinality(uses \cup {new}) =
               IF new \in uses THEN Cardinality(uses) ELSE Cardinality(uses) + 1
      BY <1>f, FS_AddElement, Zenon
    <3>2. PICK n \in Nat : n = Cardinality(uses)
      BY <1>f
    <3>3. PICK m : m = Cardinality(uses')
      OBVIOUS
    <3>4. m = n \/ m = n + 1
      BY <2>1, <3>1, <3>2, <3>3
    <3> QED
      BY <1>f, <2>1, <3>2, <3>3, <3>4
  <2>5. uses' \subseteq Triples /\ \A u \in uses' : Led(u)
    BY <1>t, <2>1, <2>2, <2>3
  <2>6. \A u : Led(u)' <=> Led(u)
    BY <2>1 DEF Led
  <2> QED
    BY <1>a, <1>t, <2>1, <2>4, <2>5, <2>6, Zenon
<1>2. ASSUME NEW u \in uses, DeadC!Drop(u)
      PROVE  DeadInv'
  <2>1. uses' = uses \ {u} /\ defs' = defs /\ announced' = announced /\ swept' = swept
    BY <1>2, Zenon DEF DeadC!Drop
  <2>2. uses' \subseteq uses
    BY <2>1
  <2>3. \A v : Led(v)' <=> Led(v)
    BY <2>1 DEF Led
  <2>4. Cardinality(uses') <= MaxUses
    <3>1. uses' \in SUBSET uses
      BY <2>2
    <3>2. IsFiniteSet(uses') /\ Cardinality(uses') <= Cardinality(uses)
      BY <1>f, <3>1, FS_Subset, Zenon
    <3>3. Cardinality(uses') \in Nat
      BY <3>2, FS_CardinalityType, Zenon
    <3> QED
      BY <1>f, <1>t, <3>2, <3>3
  <2> QED
    BY <1>a, <1>t, <2>1, <2>2, <2>3, <2>4, Zenon
<1>3. ASSUME NEW s \in Symbols, DeadC!Sweep(s)
      PROVE  DeadInv'
  <2>1. /\ s \in DeadC!Gated
        /\ defs' = defs \ {s} /\ announced' = announced \ {s}
        /\ uses' = {u \in uses : u[1] # s} /\ swept' = swept \cup {s}
    BY <1>3, Zenon DEF DeadC!Sweep
  <2>2. s \in defs /\ s \notin ALLOWLIST /\ s \notin DeadC!Refs
    BY <2>1 DEF DeadC!Gated, DeadC!Dead
  <2>3. s \notin Roots
    BY <2>2, SourcesAssumption DEF SourcesAssumption
  <2>4. ASSUME NEW u \in uses'
        PROVE  Led(u)'
    <3>1. u \in uses /\ u[1] # s /\ Led(u)
      BY <1>t, <2>1
    <3>2. u[3] \in DeadC!Pooled => u[2] # s
      BY <2>2, <3>1 DEF DeadC!Refs
    <3> QED
      BY <2>1, <3>1, <3>2 DEF Led
  <2>5. uses' \subseteq uses
    BY <2>1
  <2>6. Cardinality(uses') <= MaxUses
    <3>1. uses' \in SUBSET uses
      BY <2>5
    <3>2. IsFiniteSet(uses') /\ Cardinality(uses') <= Cardinality(uses)
      BY <1>f, <3>1, FS_Subset, Zenon
    <3>3. Cardinality(uses') \in Nat
      BY <3>2, FS_CardinalityType, Zenon
    <3> QED
      BY <1>f, <1>t, <3>2, <3>3
  <2>7. /\ defs' \cup swept' = Symbols /\ defs' \cap swept' = {} /\ announced' \subseteq defs'
        /\ Roots \subseteq defs'
    BY <1>t, <2>1, <2>2, <2>3
  <2>8. uses' \subseteq Triples
    BY <1>t, <2>5, Zenon
  <2> QED
    BY <1>a, <2>4, <2>6, <2>7, <2>8, Zenon
<1>4. CASE UNCHANGED deadVars
  <2>1. uses' = uses /\ defs' = defs /\ announced' = announced /\ swept' = swept
    BY <1>4, Zenon DEF deadVars
  <2>2. \A v : Led(v)' <=> Led(v)
    BY <2>1 DEF Led
  <2> QED
    BY <1>a, <1>t, <2>1, <2>2, Zenon
<1> QED
  BY <1>1, <1>2, <1>3, <1>4, Zenon DEF DeadC!Next

LEMMA DeadHolds == BuildSpec => []DeadInv
<1>1. BuildInit => DeadInv
  BY DeadInit, StartParts
<1>2. DeadInv /\ [BuildNext]_buildVars => DeadInv'
  BY DeadKeeps, GateSteps
<1> QED
  BY <1>1, <1>2, PTL DEF BuildSpec

(* However long an author adds, drops and sweeps, the tool's word never takes   *)
(* a symbol that the sources, as far as it reads them, still need.              *)
THEOREM SweepIsSafe == BuildSpec => []SweepKeepsLive
<1>1. DeadInv => SweepKeepsLive
  <2> SUFFICES ASSUME DeadInv PROVE swept \cap DeadC!Needed(DeadC!Pooled) = {}
    BY DEF SweepKeepsLive, DeadC!SweepKeepsLive
  <2>1. /\ defs \cup swept = Symbols /\ defs \cap swept = {} /\ Roots \subseteq defs
        /\ \A u \in uses : Led(u)
    BY DeadParts, Zenon
  <2>2. defs \in SUBSET Symbols
    BY <2>1
  <2>3. DeadC!Closed(defs, DeadC!Pooled)
    BY <2>1 DEF DeadC!Closed, Led
  <2>4. DeadC!Needed(DeadC!Pooled) \subseteq defs
    BY <2>2, <2>3, Zenon DEF DeadC!Needed
  <2> QED
    BY <2>1, <2>4
<1> QED
  BY <1>1, DeadHolds, PTL


-----------------------------------------------------------------------------
(* wincallcheck: of what the macro has overwritten before it assigns an         *)
(* argument, that argument is one the scanner would have reported to read.      *)

CallInv == /\ Calls!TypeOK
           /\ assigning = 0 => gone = {}
           /\ assigning # 0 => gone \subseteq Calls!Danger(assigning, Len(args))
           /\ assigning # 0 /\ cut = 0 /\ ~suspect =>
                \A i \in 1..Len(args) : args[i].reg \notin Calls!Danger(i, Len(args))
           /\ ~suspect => "whole" \notin misread

\* The registers an argument must not read, one by one.
LEMMA DangerIs ==
    ASSUME NEW i \in Nat, NEW n \in Nat, i >= 1
    PROVE  \A x : x \in Calls!Danger(i, n) <=>
               \/ x = "rdx" /\ i < 2 /\ n >= 2
               \/ x = "r8" /\ i < 3 /\ n >= 3
               \/ x = "r9" /\ i < 4 /\ n >= 4
               \/ x = "rax" /\ n >= 5 /\ i # 5
<1>1. /\ Calls!Targets[2] = "rdx" /\ Calls!Targets[3] = "r8" /\ Calls!Targets[4] = "r9"
  BY DEF Calls!Targets
<1>2. /\ (\E j \in (i + 1)..4 : j <= n /\ "rdx" = Calls!Targets[j]) <=> i < 2 /\ n >= 2
      /\ (\E j \in (i + 1)..4 : j <= n /\ "r8" = Calls!Targets[j]) <=> i < 3 /\ n >= 3
      /\ (\E j \in (i + 1)..4 : j <= n /\ "r9" = Calls!Targets[j]) <=> i < 4 /\ n >= 4
  <2>1. \A j \in (i + 1)..4 : j = 2 \/ j = 3 \/ j = 4
    OBVIOUS
  <2>2. 2 \in (i + 1)..4 <=> i < 2
    OBVIOUS
  <2>3. 3 \in (i + 1)..4 <=> i < 3
    OBVIOUS
  <2>4. 4 \in (i + 1)..4 <=> i < 4
    OBVIOUS
  <2> QED
    BY <1>1, <2>1, <2>2, <2>3, <2>4
<1> QED
  BY <1>2 DEF Calls!Danger

LEMMA CallInit == ASSUME SourcesAssumption, Calls!Init
                  PROVE  CallInv
<1>1. MaxArgs \in Nat /\ MaxSites \in Nat
  BY DEF SourcesAssumption
<1>2. /\ sites = 0 /\ args = <<>> /\ cut = 0 /\ assigning = 0 /\ gone = {} /\ misread = {}
      /\ suspect = FALSE
  BY Zenon DEF Calls!Init
<1>3. /\ args \in Seq(Operands) /\ Len(args) <= MaxArgs /\ cut \in 0..Len(args)
      /\ sites \in 0..MaxSites /\ assigning \in 0..Len(args)
      /\ gone \subseteq {"rax", "rdx", "r8", "r9"} /\ misread \subseteq {"whole", "continued"}
  BY <1>1, <1>2
<1>4. suspect \in BOOLEAN
  BY <1>2, Zenon
<1>5. "whole" \notin misread
  BY <1>2
<1> QED
  BY <1>2, <1>3, <1>4, <1>5, Zenon DEF CallInv, Calls!TypeOK

LEMMA CallKeeps == ASSUME SourcesAssumption, CallInv, [Calls!Next]_callVars
                   PROVE  CallInv'
<1>1. /\ MaxArgs \in Nat /\ MaxSites \in Nat
      /\ args \in Seq(Operands) /\ Len(args) \in Nat /\ Len(args) <= MaxArgs /\ cut \in 0..Len(args)
      /\ sites \in 0..MaxSites /\ assigning \in 0..Len(args)
      /\ gone \subseteq {"rax", "rdx", "r8", "r9"} /\ misread \subseteq {"whole", "continued"}
  BY LenProperties DEF SourcesAssumption, CallInv, Calls!TypeOK
<1>2. /\ assigning = 0 => gone = {}
      /\ assigning # 0 => gone \subseteq Calls!Danger(assigning, Len(args))
  BY Zenon DEF CallInv
<1>s. /\ suspect \in BOOLEAN
      /\ assigning # 0 /\ cut = 0 /\ ~suspect =>
           \A i \in 1..Len(args) : args[i].reg \notin Calls!Danger(i, Len(args))
      /\ ~suspect => "whole" \notin misread
  BY Zenon DEF CallInv, Calls!TypeOK
<1>3. CASE \E operand \in Operands : Calls!WriteArg(operand)
  <2>1. PICK operand \in Operands :
           /\ assigning = 0 /\ Len(args) < MaxArgs /\ args' = Append(args, operand)
           /\ UNCHANGED <<sites, cut, assigning, gone, misread>> /\ suspect' = suspect
    BY <1>3, Zenon DEF Calls!WriteArg
  <2>2. args' \in Seq(Operands) /\ Len(args') = Len(args) + 1
    BY <1>1, <2>1, AppendProperties
  <2>3. /\ assigning' = 0 /\ gone' = {} /\ Len(args') <= MaxArgs /\ cut' \in 0..Len(args')
        /\ sites' \in 0..MaxSites /\ assigning' \in 0..Len(args')
        /\ gone' \subseteq {"rax", "rdx", "r8", "r9"} /\ misread' \subseteq {"whole", "continued"}
    <3>1. assigning' = 0 /\ cut' = cut /\ sites' = sites /\ gone' = gone /\ misread' = misread
          /\ Len(args) < MaxArgs /\ assigning = 0
      BY <2>1, Zenon
    <3> QED
      BY <1>1, <1>2, <2>2, <3>1
  <2>4. misread' = misread /\ suspect' = suspect
    BY <2>1, Zenon
  <2> QED
    BY <1>s, <2>2, <2>3, <2>4, Zenon DEF CallInv, Calls!TypeOK
<1>4. CASE Calls!ContinueLine
  <2>1. /\ assigning = 0 /\ cut' = Len(args)
        /\ UNCHANGED <<sites, args, assigning, gone, misread>> /\ suspect' = suspect
    BY <1>4, Zenon DEF Calls!ContinueLine
  <2>2. assigning' = 0 /\ gone' = {} /\ args' = args /\ cut' \in 0..Len(args) /\ sites' = sites
        /\ misread' = misread
    <3>1. assigning = 0 /\ assigning' = 0 /\ gone' = gone /\ args' = args /\ cut' = Len(args)
          /\ sites' = sites /\ misread' = misread
      BY <2>1, Zenon
    <3> QED
      BY <1>1, <1>2, <3>1
  <2>3. assigning' \in 0..Len(args)
    BY <1>1, <2>2
  <2>4. suspect' = suspect
    BY <2>1, Zenon
  <2> QED
    BY <1>1, <1>2, <1>s, <2>2, <2>3, <2>4, Zenon DEF CallInv, Calls!TypeOK
<1>5. CASE Calls!EndCall
  <2> DEFINE Told(list) == \E i \in 1..Len(list) : list[i].reg \in Calls!Danger(i, Len(list))
  <2>1. /\ assigning = 0 /\ sites < MaxSites /\ sites' = sites + 1 /\ Len(args) > cut
        /\ assigning' = IF Len(args) > 4 THEN 5 ELSE Len(args)
        /\ args' = args /\ cut' = cut /\ gone' = gone /\ misread' = misread
    BY <1>5, Zenon DEF Calls!EndCall
  <2>2. suspect' = (suspect \/ Told(Calls!Seen))
    BY <1>5, Zenon DEF Calls!EndCall
  <2>3. assigning' \in 1..Len(args) /\ assigning' \in 0..Len(args) /\ assigning' # 0
    BY <1>1, <2>1
  <2>4. cut = 0 => Calls!Seen = args
    BY Zenon DEF Calls!Seen
  <2>5. cut = 0 /\ ~suspect' =>
           \A i \in 1..Len(args) : args[i].reg \notin Calls!Danger(i, Len(args))
    BY <2>2, <2>4, Zenon
  <2>6. suspect' \in BOOLEAN /\ (~suspect' => ~suspect)
    BY <1>s, <2>2, Zenon
  <2>7. sites' \in 0..MaxSites
    BY <1>1, <2>1
  <2>8. gone' = {}
    BY <1>2, <2>1
  <2>9. gone' \subseteq Calls!Danger(assigning', Len(args)) /\ gone' \subseteq {"rax", "rdx", "r8", "r9"}
    BY <2>8
  <2> QED
    BY <1>1, <1>s, <2>1, <2>3, <2>5, <2>6, <2>7, <2>9, Zenon DEF CallInv, Calls!TypeOK
<1>6. CASE Calls!Assign
  <2> DEFINE n    == Len(args)
             over == Calls!Overwritten(assigning, args[assigning])
             how  == IF cut = 0 THEN "whole" ELSE "continued"
  <2>1. /\ assigning # 0 /\ sites' = sites
        /\ misread' = misread \cup {h \in {how} : args[assigning].reg \in gone}
    BY <1>6, Zenon DEF Calls!Assign
  <2>s. suspect' = suspect
    BY <1>6, Zenon DEF Calls!Assign
  <2>2. assigning \in 1..n /\ assigning \in Nat /\ assigning >= 1 /\ n \in Nat
    BY <1>1, <2>1
  <2>3. misread' \subseteq {"whole", "continued"}
    BY <1>1, <2>1
  <2>4. ~suspect' => "whole" \notin misread'
    <3>1. SUFFICES ASSUME ~suspect' PROVE "whole" \notin misread'
      OBVIOUS
    <3>2. ~suspect
      BY <2>s, <3>1, Zenon
    <3>3. cut = 0 => args[assigning].reg \notin Calls!Danger(assigning, n)
      BY <1>s, <2>1, <2>2, <3>2, Zenon
    <3>4. "whole" \notin misread
      BY <1>s, <3>2, Zenon
    <3>5. cut = 0 => args[assigning].reg \notin gone
      BY <1>2, <2>1, <3>3
    <3> QED
      BY <2>1, <3>4, <3>5
  <2>5. CASE assigning = 1
    <3>1. assigning' = 0 /\ args' = <<>> /\ cut' = 0 /\ gone' = {}
      BY <1>6, <2>5 DEF Calls!Assign
    <3>2. /\ args' \in Seq(Operands) /\ Len(args') = 0 /\ Len(args') <= MaxArgs
          /\ cut' \in 0..Len(args') /\ sites' \in 0..MaxSites /\ assigning' \in 0..Len(args')
          /\ gone' \subseteq {"rax", "rdx", "r8", "r9"}
      BY <1>1, <2>1, <3>1
    <3>3. suspect' \in BOOLEAN
      BY <1>s, <2>s, Zenon
    <3> QED
      BY <2>3, <2>4, <3>1, <3>2, <3>3, Zenon DEF CallInv, Calls!TypeOK
  <2>6. CASE assigning # 1
    <3>1. /\ assigning' = IF assigning < 5 THEN assigning - 1
                          ELSE IF assigning = n THEN 4 ELSE assigning + 1
          /\ gone' = gone \cup over /\ args' = args /\ cut' = cut
      BY <1>6, <2>6 DEF Calls!Assign
    <3>2. assigning' \in 1..n /\ assigning' \in Nat /\ assigning' >= 1
      BY <2>2, <2>6, <3>1
    <3>3. over \subseteq Calls!Danger(assigning', n) /\ over \subseteq {"rax", "rdx", "r8", "r9"}
      <4>1. CASE assigning > 4
        <5>1. over \subseteq {"rax"}
          BY <4>1 DEF Calls!Overwritten
        <5>2. n >= 5 /\ assigning' # 5
          BY <2>2, <3>1, <4>1
        <5>3. "rax" \in Calls!Danger(assigning', n)
          BY <2>2, <3>2, <5>2, DangerIs
        <5> QED
          BY <5>1, <5>3
      <4>2. CASE ~(assigning > 4)
        <5>1. over \subseteq {Calls!Targets[assigning]}
          BY <4>2 DEF Calls!Overwritten
        <5>2. assigning' = assigning - 1 /\ (assigning = 2 \/ assigning = 3 \/ assigning = 4)
          BY <2>2, <2>6, <3>1, <4>2
        <5>3. /\ Calls!Targets[2] = "rdx" /\ Calls!Targets[3] = "r8" /\ Calls!Targets[4] = "r9"
          BY DEF Calls!Targets
        <5>4. Calls!Targets[assigning] \in Calls!Danger(assigning', n)
          BY <2>2, <3>2, <5>2, <5>3, DangerIs
        <5> QED
          BY <5>1, <5>2, <5>3, <5>4
      <4> QED
        BY <4>1, <4>2
    <3>4. gone \subseteq Calls!Danger(assigning', n)
      <4>1. gone \subseteq Calls!Danger(assigning, n)
        BY <1>2, <2>1
      <4>2. \A x : x \in Calls!Danger(assigning, n) => x \in Calls!Danger(assigning', n)
        <5>1. \A x : x \in Calls!Danger(assigning, n) =>
                \/ x = "rdx" /\ assigning < 2 /\ n >= 2
                \/ x = "r8" /\ assigning < 3 /\ n >= 3
                \/ x = "r9" /\ assigning < 4 /\ n >= 4
                \/ x = "rax" /\ n >= 5
          BY <2>2, DangerIs
        <5>2. \A x : \/ x = "rdx" /\ assigning' < 2 /\ n >= 2
                     \/ x = "r8" /\ assigning' < 3 /\ n >= 3
                     \/ x = "r9" /\ assigning' < 4 /\ n >= 4
                     \/ x = "rax" /\ n >= 5 /\ assigning' # 5
                => x \in Calls!Danger(assigning', n)
          BY <2>2, <3>2, DangerIs
        <5>3. assigning' # 5
          BY <2>2, <3>1
        <5>4. assigning < 4 => assigning' < assigning
          BY <2>2, <3>1
        <5> QED
          BY <2>2, <3>2, <5>1, <5>2, <5>3, <5>4
      <4> QED
        BY <4>1, <4>2
    <3>5. /\ args' \in Seq(Operands) /\ Len(args') = n /\ Len(args') <= MaxArgs
          /\ cut' \in 0..Len(args') /\ sites' \in 0..MaxSites /\ assigning' \in 0..Len(args')
          /\ assigning' # 0 /\ gone' \subseteq {"rax", "rdx", "r8", "r9"}
          /\ gone' \subseteq Calls!Danger(assigning', n)
      <4> HIDE DEF over
      <4> QED
        BY <1>1, <2>1, <2>2, <3>1, <3>2, <3>3, <3>4
    <3>6. /\ suspect' \in BOOLEAN
          /\ cut' = 0 /\ ~suspect' => \A i \in 1..n : args'[i].reg \notin Calls!Danger(i, n)
      BY <1>s, <2>s, <2>1, <3>1, Zenon
    <3> QED
      BY <2>3, <2>4, <3>5, <3>6, Zenon DEF CallInv, Calls!TypeOK
  <2> QED
    BY <2>5, <2>6
<1>7. CASE UNCHANGED callVars
  <2>1. /\ sites' = sites /\ args' = args /\ cut' = cut /\ assigning' = assigning
        /\ gone' = gone /\ suspect' = suspect /\ misread' = misread
    BY <1>7, Zenon DEF callVars
  <2> QED
    BY <2>1, Zenon DEF CallInv, Calls!TypeOK
<1> QED
  BY <1>3, <1>4, <1>5, <1>6, <1>7, Zenon DEF Calls!Next

LEMMA CallHolds == BuildSpec => []CallInv
<1>1. BuildInit => CallInv
  BY SourcesAssumption, CallInit, StartParts
<1>2. CallInv /\ [BuildNext]_buildVars => CallInv'
  BY SourcesAssumption, CallKeeps, GateSteps
<1> QED
  BY <1>1, <1>2, PTL DEF BuildSpec

(* Whatever the arguments of a call and however many, in sources wincallcheck  *)
(* passes those of a call on one line are what the author wrote.               *)
THEOREM ArgumentsAreKept == BuildSpec => []ArgumentsArrive
<1>1. CallInv => ArgumentsArrive
  <2>1. suspect => Calls!Findings # 0
    BY DEF Calls!Findings
  <2> QED
    BY <2>1, Zenon DEF CallInv, ArgumentsArrive, Calls!ArgumentsArrive
<1> QED
  BY <1>1, CallHolds, PTL

-----------------------------------------------------------------------------
(* The images: what pe_normalise leaves of one that was linked for a release   *)
(* does not say when, where or as which build it was linked.                   *)

Record(e)  == e = [type |-> e.type, stamp |-> e.stamp, payload |-> e.payload]
IsImage(i) == /\ i = [stamp |-> i.stamp, export |-> i.export, debug |-> i.debug,
                      test |-> i.test, picture |-> i.picture, fault |-> i.fault]
              /\ \A j \in DOMAIN i.debug : Record(i.debug[j])

Cleared(type, says) == [type |-> type, stamp |-> 0, payload |-> [says |-> says, size |-> 1]]
ShippedDir(nohw) ==
  IF nohw THEN <<Cleared(CODEVIEW, "zeros"), Cleared(REPRO, "zeros")>>
  ELSE <<Cleared(CODEVIEW, "zeros"), Cleared(EX_DLLCHARACTERISTICS, "CET"), Cleared(REPRO, "zeros")>>
ShippedImage(nohw, test, rva, picture) ==
  [stamp |-> 0, export |-> [rva |-> rva, stamp |-> 0], debug |-> ShippedDir(nohw),
   test |-> test, picture |-> picture, fault |-> "none"]
Shipped(nohw, test, picture) == [exe |-> ShippedImage(nohw, test, "absent", <<>>),
                                 dll |-> ShippedImage(nohw, test, "mapped", picture)]

\* A sequence with one more behind it.
LEMMA OneBehind ==
    ASSUME NEW S, NEW x \in Seq(S), NEW b \in S, NEW y \in Seq(S), NEW w \in Seq(S),
           Len(y) = 1, y[1] = b, Len(w) = Len(x) + 1,
           \A i \in 1..Len(x) : w[i] = x[i], w[Len(x) + 1] = b
           PROVE  x \o y = w
<1>1. PICK z : z = x \o y
  OBVIOUS
<1>2. z \in Seq(S) /\ Len(z) = Len(x) + 1 /\ Len(x) \in Nat
      /\ \A i \in 1..(Len(x) + 1) : z[i] = IF i <= Len(x) THEN x[i] ELSE y[i - Len(x)]
  <2>1. /\ x \o y \in Seq(S) /\ Len(x \o y) = Len(x) + Len(y)
        /\ \A i \in 1..(Len(x) + Len(y)) : (x \o y)[i] = IF i <= Len(x) THEN x[i] ELSE y[i - Len(x)]
    BY ConcatProperties, Zenon
  <2>2. Len(x) \in Nat
    BY LenProperties
  <2> QED
    BY <1>1, <2>1, <2>2
<1>3. ASSUME NEW i \in 1..Len(z)
      PROVE  z[i] = w[i]
  <2>1. i \in 1..Len(x) \/ i = Len(x) + 1
    BY <1>2
  <2>2. i \in 1..Len(x) => z[i] = x[i] /\ w[i] = x[i]
    BY <1>2
  <2>3. i = Len(x) + 1 => z[i] = y[1] /\ w[i] = b
    BY <1>2
  <2> QED
    BY <2>1, <2>2, <2>3
<1> QED
  BY <1>1, <1>2, <1>3, SeqEqual

LEMMA PairOf ==
    ASSUME NEW a, NEW b
    PROVE  <<a>> \o <<b>> = <<a,b>>
<1>2. PICK x, y, w : x = <<a>> /\ y = <<b>> /\ w = <<a, b>>
  OBVIOUS
<1>3. PICK S : S = {a,b}
  OBVIOUS
<1>4. x \in Seq(S) /\ y \in Seq(S) /\ w \in Seq(S) /\ a \in S /\ b \in S
  BY <1>2, <1>3
<1>5. Len(x) = 1 /\ Len(y) = 1 /\ Len(w) = 2 /\ y[1] = b /\ w[1] = a /\ w[2] = b /\ x[1] = a
  BY <1>2
<1>6. /\ Len(w) = Len(x) + 1 /\ w[Len(x) + 1] = y[1]
      /\ \A i \in 1..Len(x) : w[i] = x[i]
  BY <1>5
<1>7. x \o y = w
  BY <1>4, <1>5, <1>6, OneBehind, Zenon
<1> QED
  BY <1>7, <1>2

LEMMA TripleOf ==
    ASSUME NEW a, NEW b, NEW c
    PROVE  <<a,b>> \o <<c>> = <<a,b,c>>
<1>2. PICK x, y, w : x = <<a,b>> /\ y = <<c>> /\ w = <<a, b, c>>
  OBVIOUS
<1>3. PICK S : S = {a,b,c}
  OBVIOUS
<1>4. x \in Seq(S) /\ y \in Seq(S) /\ w \in Seq(S) /\ a \in S /\ c \in S
  BY <1>2, <1>3
<1>5. Len(x) = 2 /\ Len(y) = 1 /\ Len(w) = 3 /\ y[1] = c /\ w[1] = a /\ w[2] = b /\ w[3] = c
       /\ x[1] = a /\ x[2] = b
  BY <1>2
<1>6. /\ Len(w) = Len(x) + 1 /\ w[Len(x) + 1] = y[1]
      /\ \A i \in 1..Len(x) : w[i] = x[i]
  BY <1>5
<1>7. x \o y = w
  BY <1>4, <1>5, <1>6, OneBehind, Zenon
<1> QED
  BY <1>7, <1>2

\* The entries a directory can have.
CodeViewEntry == Entry(CODEVIEW, machine.guid, PdbPath)
CetEntry      == Entry(EX_DLLCHARACTERISTICS, "CET", 1)
ReproEntry    == Entry(REPRO, machine.time, 1)

LEMMA DirectoryForm ==
    DebugDirectory = IF flags.nohw
                     THEN IF flags.release THEN <<CodeViewEntry, ReproEntry>> ELSE <<CodeViewEntry>>
                     ELSE IF flags.release THEN <<CodeViewEntry, CetEntry, ReproEntry>>
                          ELSE <<CodeViewEntry, CetEntry>>
<1>1. ASSUME NEW a, NEW b, NEW c
      PROVE  /\ (<<a>> \o <<>>) \o <<>> = <<a>> /\ (<<a>> \o <<b>>) \o <<>> = <<a, b>>
             /\ (<<a>> \o <<>>) \o <<c>> = <<a, c>> /\ (<<a>> \o <<b>>) \o <<c>> = <<a, b, c>>
  <2>1. <<a>> \o <<>> = <<a>> /\ <<a, b>> \o <<>> = <<a, b>>
    OBVIOUS
  <2> QED
    BY <2>1, PairOf, TripleOf, Zenon
<1> QED
  BY <1>1, Zenon DEF DebugDirectory, CodeViewEntry, CetEntry, ReproEntry

\* What is left of an entry: its type, and the payload of one type.
LEMMA EntryCleared ==
    ASSUME NEW t, NEW u, NEW w, NEW e, e = [type |-> t, stamp |-> u, payload |-> w]
    PROVE  /\ Record(e) /\ e.type = t /\ e.payload = w /\ (Kept(e) <=> t = 20)
           /\ ClearEntry(e) = [type |-> t, stamp |-> 0,
                               payload |-> IF t = 20 THEN w ELSE Zeros(w.size)]
<1>1. e.type = t /\ e.stamp = u /\ e.payload = w
  OBVIOUS
<1>2. Record(e)
  BY <1>1 DEF Record
<1>3. Kept(e) <=> t = 20
  BY <1>1 DEF Kept, EX_DLLCHARACTERISTICS
<1>4. PICK p : p = IF t = 20 THEN w ELSE Zeros(w.size)
  OBVIOUS
<1>5. ClearEntry(e) = [e EXCEPT !.stamp = 0, !.payload = p]
  BY <1>1, <1>3, <1>4 DEF ClearEntry
<1>6. [e EXCEPT !.stamp = 0, !.payload = p] = [type |-> t, stamp |-> 0, payload |-> p]
  <2>1. [e EXCEPT !.stamp = 0, !.payload = p] = [[e EXCEPT !.stamp = 0] EXCEPT !.payload = p]
    OBVIOUS
  <2>2. PICK f : f = [e EXCEPT !.stamp = 0]
    OBVIOUS
  <2>3. f = [type |-> t, stamp |-> 0, payload |-> w]
    BY <2>2
  <2>4. [f EXCEPT !.payload = p] = [type |-> t, stamp |-> 0, payload |-> p]
    BY <2>3
  <2> QED
    BY <2>1, <2>2, <2>4, Zenon
<1> QED
  BY <1>1, <1>2, <1>3, <1>4, <1>5, <1>6, Zenon

LEMMA EntryForms == /\ Record(CodeViewEntry) /\ Record(CetEntry) /\ Record(ReproEntry)
                    /\ CodeViewEntry.type = CODEVIEW /\ CetEntry.type = EX_DLLCHARACTERISTICS
                    /\ ReproEntry.type = REPRO
                    /\ CetEntry.payload.says = "CET"
                    /\ ClearEntry(CodeViewEntry) = [type |-> CODEVIEW, stamp |-> 0,
                                                    payload |-> Zeros(PdbPath)]
                    /\ ClearEntry(CetEntry) = Cleared(EX_DLLCHARACTERISTICS, "CET")
                    /\ ClearEntry(ReproEntry) = Cleared(REPRO, "zeros")
                    /\ CodeViewEntry.payload.size = PdbPath
<1>1. ASSUME NEW t \in Nat, NEW u, NEW w, NEW e, e = [type |-> t, stamp |-> u, payload |-> w]
      PROVE  /\ Record(e) /\ e.type = t /\ e.payload = w
             /\ ClearEntry(e) = [type |-> t, stamp |-> 0,
                                 payload |-> IF t = 20 THEN w ELSE Zeros(w.size)]
  BY <1>1, EntryCleared
<1> QED
  BY <1>1 DEF CodeViewEntry, CetEntry, ReproEntry, Entry, Cleared, Zeros,
              CODEVIEW, EX_DLLCHARACTERISTICS, REPRO

\* What is left of an image of which three fields are replaced.
LEMMA ImageExcept ==
    ASSUME NEW s, NEW x, NEW d, NEW t, NEW p, NEW f, NEW r, NEW y, NEW g, NEW i,
           i = [stamp |-> s, export |-> x, debug |-> d, test |-> t, picture |-> p, fault |-> f]
    PROVE  [i EXCEPT !.stamp = r, !.export = y, !.debug = g]
             = [stamp |-> r, export |-> y, debug |-> g, test |-> t, picture |-> p, fault |-> f]
<1>1. [i EXCEPT !.stamp = r, !.export = y, !.debug = g]
        = [[[i EXCEPT !.stamp = r] EXCEPT !.export = y] EXCEPT !.debug = g]
  OBVIOUS
<1>2. PICK a : a = [i EXCEPT !.stamp = r]
  OBVIOUS
<1>3. a = [stamp |-> r, export |-> x, debug |-> d, test |-> t, picture |-> p, fault |-> f]
  BY <1>2
<1>4. PICK b : b = [a EXCEPT !.export = y]
  OBVIOUS
<1>5. b = [stamp |-> r, export |-> y, debug |-> d, test |-> t, picture |-> p, fault |-> f]
  BY <1>3, <1>4
<1>6. [b EXCEPT !.debug = g] = [stamp |-> r, export |-> y, debug |-> g, test |-> t, picture |-> p, fault |-> f]
  BY <1>5
<1> QED
  BY <1>1, <1>2, <1>4, <1>6, Zenon

\* A linked image is an image, and is marked unless it was linked without.
LEMMA LinkedForm ==
    ASSUME NEW export, NEW picture, NEW fault
    PROVE  /\ IsImage(Image(export, picture, fault))
           /\ Marked(Image(export, picture, fault)) \/ flags.nohw
           /\ Image(export, picture, fault).picture = picture
           /\ Image(export, picture, fault).debug = DebugDirectory
           /\ Image(export, picture, fault).fault = fault
<1> DEFINE i == Image(export, picture, fault)
<1>1. /\ i = [stamp |-> i.stamp, export |-> i.export, debug |-> i.debug,
              test |-> i.test, picture |-> i.picture, fault |-> i.fault]
      /\ i.picture = picture /\ i.debug = DebugDirectory /\ i.fault = fault
  BY DEF Image
<1> HIDE DEF i
<1>2. \A j \in DOMAIN DebugDirectory : Record(DebugDirectory[j])
  BY DirectoryForm, EntryForms
<1>3. flags.nohw \/ (2 \in DOMAIN DebugDirectory /\ DebugDirectory[2] = CetEntry)
  BY DirectoryForm
<1>4. Marked(i) \/ flags.nohw
  BY <1>1, <1>3, EntryForms, Zenon DEF Marked
<1> QED
  BY <1>1, <1>2, <1>4 DEF IsImage, i

\* Normalising changes neither what kind of thing an image is, nor its picture,
\* nor its mark.
LEMMA NormalisedForm ==
    ASSUME NEW i, IsImage(i)
    PROVE  /\ IsImage(Normalised(i)) /\ Normalised(i).picture = i.picture
           /\ Marked(i) => Marked(Normalised(i))
<1> DEFINE dir == [j \in DOMAIN i.debug |-> ClearEntry(i.debug[j])]
<1>1. CASE Raises(i)
  BY <1>1 DEF Normalised
<1>2. CASE ~Raises(i)
  <2>1. PICK s, x, d, t, p, f :
           i = [stamp |-> s, export |-> x, debug |-> d, test |-> t, picture |-> p, fault |-> f]
    BY Zenon DEF IsImage
  <2>2. i.debug = d /\ i.picture = p /\ i.export = x
    BY <2>1
  <2>3. Normalised(i) = [stamp |-> 0, export |-> ClearExport(x), debug |-> dir, test |-> t,
                         picture |-> p, fault |-> f]
    BY <1>2, <2>1, <2>2 DEF Normalised
  <2>4. ASSUME NEW e, Record(e)
        PROVE  /\ Record(ClearEntry(e)) /\ ClearEntry(e).type = e.type
               /\ Kept(e) => ClearEntry(e).payload = e.payload
    <3>1. PICK y, u, w : e = [type |-> y, stamp |-> u, payload |-> w]
      BY <2>4, Zenon DEF Record
    <3>2. PICK v : ClearEntry(e) = [type |-> y, stamp |-> 0, payload |-> v] /\ (y = 20 => v = w)
      <4>1. ClearEntry(e) = [type |-> y, stamp |-> 0,
                             payload |-> IF y = 20 THEN w ELSE Zeros(w.size)]
        BY <3>1, EntryCleared
      <4>2. PICK v : v = IF y = 20 THEN w ELSE Zeros(w.size)
        OBVIOUS
      <4>3. ClearEntry(e) = [type |-> y, stamp |-> 0, payload |-> v]
        BY <4>1, <4>2, Zenon
      <4>4. y = 20 => v = w
        BY <4>2
      <4> QED
        BY <4>3, <4>4, Zenon
    <3>3. e.type = y /\ e.payload = w /\ (Kept(e) <=> y = 20)
      BY <3>1, EntryCleared
    <3> QED
      BY <3>2, <3>3 DEF Record
  <2>5. \A j \in DOMAIN i.debug : Record(i.debug[j])
    BY DEF IsImage
  <2>6. DOMAIN dir = DOMAIN i.debug /\ \A j \in DOMAIN i.debug : dir[j] = ClearEntry(i.debug[j])
    OBVIOUS
  <2> HIDE DEF dir
  <2>7. \A j \in DOMAIN dir : Record(dir[j])
    BY <2>4, <2>5, <2>6, Zenon
  <2>8. Normalised(i).debug = dir /\ Normalised(i).picture = p
    BY <2>3
  <2>9. Marked(i) => Marked(Normalised(i))
    <3> SUFFICES ASSUME NEW j \in DOMAIN i.debug, i.debug[j].type = EX_DLLCHARACTERISTICS,
                        i.debug[j].payload.says = "CET"
                 PROVE  dir[j].type = EX_DLLCHARACTERISTICS /\ dir[j].payload.says = "CET"
      BY <2>6, <2>8, Zenon DEF Marked
    <3> QED
      BY <2>4, <2>5, <2>6, Zenon DEF Kept
  <2>10. IsImage(Normalised(i))
    BY <2>3, <2>7, <2>8 DEF IsImage
  <2> QED
    BY <2>2, <2>8, <2>9, <2>10
<1> QED
  BY <1>1, <1>2

\* A release's image that can be normalised comes out as the shipped one.
LEMMA ReleasedForm ==
    ASSUME flags \in BuildFlags, flags.release, NEW rva \in {"absent", "mapped"}, NEW stamp, NEW picture,
           rva = "absent" => stamp = 0, NEW fault \in Faults,
           ~Raises(Image([rva |-> rva, stamp |-> stamp], picture, fault))
    PROVE  Normalised(Image([rva |-> rva, stamp |-> stamp], picture, fault))
             = ShippedImage(flags.nohw, flags.test, rva, picture)
<1> DEFINE x == [rva |-> rva, stamp |-> stamp]
           i == Image(x, picture, fault)
           dir == [j \in DOMAIN DebugDirectory |-> ClearEntry(DebugDirectory[j])]
<1>p. PdbPath = 1
  BY DEF PdbPath
<1>c. /\ ClearEntry(CodeViewEntry) = Cleared(CODEVIEW, "zeros")
      /\ ~Kept(CodeViewEntry) /\ CodeViewEntry.payload.size > 0
  BY <1>p, EntryForms DEF Cleared, Zeros, Kept, CODEVIEW, EX_DLLCHARACTERISTICS
<1>1. DebugDirectory # <<>> /\ 1 \in DOMAIN DebugDirectory /\ DebugDirectory[1] = CodeViewEntry
  BY DirectoryForm
<1>2. i.debug = DebugDirectory /\ i.fault = fault /\ ~Raises(i)
  BY LinkedForm
<1>3. fault = "none"
  BY <1>1, <1>2, <1>c DEF Raises, Faults
<1>4. dir = ShippedDir(flags.nohw)
  <2>1. flags.nohw \in BOOLEAN
    BY DEF BuildFlags
  <2>2. ASSUME flags.nohw PROVE dir = ShippedDir(flags.nohw)
    <3>1. DebugDirectory = <<CodeViewEntry, ReproEntry>>
      BY <2>2, DirectoryForm
    <3> QED
      BY <1>c, <2>2, <3>1, EntryForms DEF ShippedDir
  <2>3. ASSUME ~flags.nohw PROVE dir = ShippedDir(flags.nohw)
    <3>1. DebugDirectory = <<CodeViewEntry, CetEntry, ReproEntry>>
      BY <2>3, DirectoryForm
    <3> QED
      BY <1>c, <2>3, <3>1, EntryForms DEF ShippedDir
  <2> QED
    BY <2>1, <2>2, <2>3
<1>5. ClearExport(x) = [rva |-> rva, stamp |-> 0]
  BY DEF ClearExport
<1>6. i = [stamp |-> machine.time, export |-> x, debug |-> DebugDirectory, test |-> flags.test,
           picture |-> picture, fault |-> fault]
  BY DEF Image
<1> HIDE DEF x, i
<1>7. Normalised(i) = [stamp |-> 0, export |-> ClearExport(x), debug |-> dir, test |-> flags.test,
                       picture |-> picture, fault |-> fault]
  <2>1. Normalised(i) = [i EXCEPT !.stamp = 0, !.export = ClearExport(@),
                                  !.debug = [j \in DOMAIN @ |-> ClearEntry(@[j])]]
    BY <1>2 DEF Normalised
  <2>2. i.export = x /\ i.debug = DebugDirectory
    BY <1>6
  <2>3. PICK y, d : y = ClearExport(i.export) /\ d = [j \in DOMAIN i.debug |-> ClearEntry(i.debug[j])]
    OBVIOUS
  <2>4. Normalised(i) = [i EXCEPT !.stamp = 0, !.export = y, !.debug = d]
    BY <2>1, <2>3
  <2>5. Normalised(i) = [stamp |-> 0, export |-> y, debug |-> d, test |-> flags.test,
                         picture |-> picture, fault |-> fault]
    BY <1>6, <2>4, ImageExcept, Zenon
  <2> QED
    BY <2>2, <2>3, <2>5, Zenon
<1> HIDE DEF dir
<1> QED
  BY <1>3, <1>4, <1>5, <1>7 DEF ShippedImage, x, i


-----------------------------------------------------------------------------
(* framecheck's own invariant, and what a build says of its frames.            *)

LEMMA FramesInBuild == BuildSpec => []IInv
<1>1. BuildInit => IInv
  BY InitInv, StartParts
<1>2. IInv /\ [BuildNext]_buildVars => IInv'
  BY NextInv, GateSteps
<1> QED
  BY <1>1, <1>2, PTL DEF BuildSpec

(* In a build too, a procedure framecheck reads without a finding keeps its    *)
(* frame.                                                                      *)
THEOREM FramesOfABuild == BuildSpec => []FramesHold
<1>1. IInv => FramesHold
  BY DEF IInv
<1> QED
  BY <1>1, FramesInBuild, PTL

-----------------------------------------------------------------------------
(* The picture: a channel times its alpha, to the nearest step.                *)

Near(e, c, a) == /\ e <= a
                 /\ 510 * e <= 2 * c * a + 255
                 /\ 2 * c * a <= 510 * e + 255

LEMMA PremulNear ==
    ASSUME NEW c \in 0..255, NEW a \in 0..255
    PROVE  Near(Premul(c, a), c, a)
<1>1. PICK m \in Nat : m = c * a
  OBVIOUS
<1>2. m <= 255 * a
  <2>1. PICK k \in Nat : k = (255 - c) * a
    OBVIOUS
  <2>2. (255 - c) * a = 255 * a - c * a
    OBVIOUS
  <2> QED
    BY <1>1, <2>1, <2>2
<1>3. PICK d \in Nat : d = (m + 127) \div 255
  OBVIOUS
<1>4. 255 * d <= m + 127 /\ m + 127 < 255 * d + 255
  BY <1>3
<1>5. 2 * c * a = 2 * m
  BY <1>1
<1>6. Premul(c, a) = d
  BY <1>1, <1>3 DEF Premul
<1>7. d <= a /\ 510 * d <= 2 * m + 255 /\ 2 * m <= 510 * d + 255
  BY <1>2, <1>4
<1> QED
  BY <1>5, <1>6, <1>7 DEF Near

\* Of any icon, the bitmap the tool writes shows that icon.
LEMMA BitmapShows ==
    ASSUME SIZE \in Nat \ {0}, NEW picture \in [Grid -> [1..4 -> 0..255]]
    PROVE  Shows(BuildBmp(picture), picture)
<1> SUFFICES ASSUME NEW q \in Grid
             PROVE  LET p == picture[q]
                        d == BuildBmp(picture)[SIZE - q[2]][q[1] + 1]
                    IN d[4] = p[4] /\ \A i \in 1..3 : Near(d[4 - i], p[i], p[4])
  BY Zenon DEF Shows, Near
<1>1. PICK x \in 0..(SIZE - 1), y \in 0..(SIZE - 1) : q = <<x, y>>
  BY DEF Grid
<1>2. q[1] = x /\ q[2] = y
  BY <1>1
<1>3. PICK p \in [1..4 -> 0..255] : p = picture[q]
  OBVIOUS
<1>4. SIZE - y \in 1..SIZE /\ RowOf(SIZE - y) = y /\ x + 1 \in 1..SIZE /\ (x + 1) - 1 = x
  BY DEF RowOf
<1>5. BuildBmp(picture)[SIZE - y] = Scanline(picture, y)
  BY <1>4 DEF BuildBmp
<1>6. Scanline(picture, y)[x + 1] = <<Premul(p[3], p[4]), Premul(p[2], p[4]), Premul(p[1], p[4]), p[4]>>
  BY <1>1, <1>3, <1>4 DEF Scanline
<1>7. PICK d : d = BuildBmp(picture)[SIZE - q[2]][q[1] + 1]
  OBVIOUS
<1>8. d = <<Premul(p[3], p[4]), Premul(p[2], p[4]), Premul(p[1], p[4]), p[4]>>
  BY <1>2, <1>5, <1>6, <1>7
<1>9. /\ d[1] = Premul(p[3], p[4]) /\ d[2] = Premul(p[2], p[4]) /\ d[3] = Premul(p[1], p[4])
      /\ d[4] = p[4]
  BY <1>8
<1>10. ASSUME NEW i \in 1..3
       PROVE  Near(d[4 - i], p[i], p[4])
  <2>1. p[i] \in 0..255 /\ p[4] \in 0..255
    OBVIOUS
  <2>2. d[4 - i] = Premul(p[i], p[4])
    BY <1>9
  <2> QED
    BY <2>1, <2>2, PremulNear, Zenon
<1> QED
  BY <1>3, <1>7, <1>9, <1>10, Zenon

-----------------------------------------------------------------------------
(* The floors: half of what a checker looked at is below every one of them.    *)

Tools == {"framecheck", "wincallcheck", "constcheck", "deadcode", "aligncheck", "nvcheck", "wstrcheck"}

LEMMA FloorsForm ==
    /\ DOMAIN Counted = Tools /\ DOMAIN FLOORS = Tools
    /\ \A t \in Tools : /\ DOMAIN Counted[t] = DOMAIN FLOORS[t] /\ IsFiniteSet(DOMAIN FLOORS[t])
                        /\ \A m \in DOMAIN FLOORS[t] : Counted[t][m] \div 2 < FLOORS[t][m]
<1>1. ASSUME NEW x
      PROVE  IsFiniteSet({x})
  BY FS_Singleton
<1>2. ASSUME NEW x, NEW y
      PROVE  IsFiniteSet({x, y})
  <2>1. {x, y} = {x} \cup {y}
    OBVIOUS
  <2>2. IsFiniteSet({x} \cup {y})
    BY <1>1, FS_AddElement, Zenon
  <2> QED
    BY <2>1, <2>2
<1>3. DOMAIN Counted = Tools /\ DOMAIN FLOORS = Tools
  BY DEF Counted, FLOORS, Tools
<1>4. /\ DOMAIN Counted["framecheck"] = {"procs", "raw"} /\ DOMAIN FLOORS["framecheck"] = {"procs", "raw"}
      /\ DOMAIN Counted["wincallcheck"] = {"sites"} /\ DOMAIN FLOORS["wincallcheck"] = {"sites"}
      /\ DOMAIN Counted["constcheck"] = {"mirrored", "files"}
      /\ DOMAIN FLOORS["constcheck"] = {"mirrored", "files"}
      /\ DOMAIN Counted["deadcode"] = {"symbols"} /\ DOMAIN FLOORS["deadcode"] = {"symbols"}
      /\ DOMAIN Counted["aligncheck"] = {"scalars"} /\ DOMAIN FLOORS["aligncheck"] = {"scalars"}
      /\ DOMAIN Counted["nvcheck"] = {"procs"} /\ DOMAIN FLOORS["nvcheck"] = {"procs"}
      /\ DOMAIN Counted["wstrcheck"] = {"calls"} /\ DOMAIN FLOORS["wstrcheck"] = {"calls"}
  BY DEF Counted, FLOORS
<1>5. \A t \in Tools : DOMAIN Counted[t] = DOMAIN FLOORS[t]
  BY <1>4 DEF Tools
<1>6. \A t \in Tools : IsFiniteSet(DOMAIN FLOORS[t])
  <2>1. /\ IsFiniteSet({"procs", "raw"}) /\ IsFiniteSet({"mirrored", "files"})
        /\ IsFiniteSet({"sites"}) /\ IsFiniteSet({"symbols"}) /\ IsFiniteSet({"scalars"})
        /\ IsFiniteSet({"procs"}) /\ IsFiniteSet({"calls"})
    BY <1>1, <1>2
  <2> SUFFICES ASSUME NEW t \in Tools PROVE IsFiniteSet(DOMAIN FLOORS[t])
    OBVIOUS
  <2>2. PICK D : D = DOMAIN FLOORS[t]
    OBVIOUS
  <2>3. \/ D = {"procs", "raw"} \/ D = {"mirrored", "files"} \/ D = {"sites"} \/ D = {"symbols"}
        \/ D = {"scalars"} \/ D = {"procs"} \/ D = {"calls"}
    BY <1>4, <2>2 DEF Tools
  <2>4. IsFiniteSet(D)
    BY <2>1, <2>3, Zenon
  <2> QED
    BY <2>2, <2>4
<1>7. ASSUME NEW t \in Tools, NEW m \in DOMAIN FLOORS[t]
      PROVE  Counted[t][m] \div 2 < FLOORS[t][m]
  <2>1. CASE t = "framecheck"
    BY <1>4, <2>1 DEF Counted, FLOORS
  <2>2. CASE t = "constcheck"
    BY <1>4, <2>2 DEF Counted, FLOORS
  <2>3. CASE t \in {"wincallcheck", "deadcode", "aligncheck", "nvcheck", "wstrcheck"}
    BY <1>4, <2>3 DEF Counted, FLOORS
  <2> QED
    BY <2>1, <2>2, <2>3 DEF Tools
<1> QED
  BY <1>3, <1>5, <1>6, <1>7, Zenon

\* How far a checker fell is a number; the one that lost half of a metric fell.
LEMMA BreachType ==
    ASSUME NEW t \in Tools, NEW metrics
    PROVE  /\ Breached(t, metrics) \in Nat
           /\ \A m \in DOMAIN FLOORS[t] : Fallen(metrics, m, FLOORS[t][m]) => Breached(t, metrics) > 0
<1> DEFINE F == {n \in DOMAIN FLOORS[t] : Fallen(metrics, n, FLOORS[t][n])}
<1>1. t \in DOMAIN FLOORS /\ IsFiniteSet(DOMAIN FLOORS[t])
  BY FloorsForm
<1>2. Breached(t, metrics) = Cardinality(F)
  BY <1>1 DEF Breached
<1>3. F \in SUBSET DOMAIN FLOORS[t]
  OBVIOUS
<1>4. \A m \in DOMAIN FLOORS[t] : Fallen(metrics, m, FLOORS[t][m]) => F # {}
  OBVIOUS
<1> HIDE DEF F
<1>5. IsFiniteSet(F)
  BY <1>1, <1>3, FS_Subset, Zenon
<1>6. Cardinality(F) \in Nat /\ (F # {} => Cardinality(F) # 0)
  BY <1>5, FS_CardinalityType, FS_EmptySet
<1> QED
  BY <1>2, <1>4, <1>6

\* A checker that lost half of what it looked at, or stopped reporting it, fails.
LEMMA LossIsSeen ==
    ASSUME NEW t \in Tools, NEW m \in DOMAIN Counted[t], NEW w \in {"halved", "not reported"},
           quiet = <<t, m, w>>
    PROVE  Breached(t, Metrics(t)) > 0
<1>1. m \in DOMAIN FLOORS[t] /\ Counted[t][m] \div 2 < FLOORS[t][m]
  BY FloorsForm
<1>2. quiet[1] = t /\ quiet[2] = m /\ quiet[3] = w /\ quiet # Unparsed
  BY DEF Unparsed
<1>3. CASE w = "halved"
  <2>1. Metrics(t) = [Counted[t] EXCEPT ![m] = @ \div 2]
    BY <1>2, <1>3 DEF Metrics
  <2>2. Metrics(t)[m] = Counted[t][m] \div 2
    BY <2>1
  <2> QED
    BY <1>1, <2>2, BreachType DEF Fallen
<1>4. CASE w = "not reported"
  <2>1. m \notin DOMAIN Metrics(t)
    BY <1>2, <1>4 DEF Metrics
  <2> QED
    BY <1>1, <2>1, BreachType DEF Fallen
<1> QED
  BY <1>3, <1>4


-----------------------------------------------------------------------------
(* constcheck: what the sources and the sites are made of.                     *)

Lines == Names \X Const!Exprs

\* No name is defined twice in a source.
Once(listing) == \A i, j \in 1..Len(listing) : listing[i][1] = listing[j][1] => i = j
ConstInv == Const!TypeOK /\ \A f \in Sources : Once(equs[f])

LEMMA ConstInit == ASSUME Const!Init
                   PROVE  ConstInv
<1>1. PICK v \in Versions : shown = [s \in Const!Sites |-> v]
  BY DEF Const!Init
<1>2. equs = [f \in Sources |-> <<>>] /\ rcs = Const!Scripts /\ matched = Const!Sites /\ edits = 0
  BY DEF Const!Init
<1>3. MaxEdits \in Nat
  BY SourcesAssumption DEF SourcesAssumption
<1>4. equs \in [Sources -> Seq(Lines)]
  BY <1>2
<1>5. shown \in [Const!Sites -> Versions]
  BY <1>1
<1>6. edits \in 0..MaxEdits /\ matched \subseteq Const!Sites /\ rcs \subseteq Const!Scripts
  BY <1>2, <1>3
<1>7. \A f \in Sources : Once(equs[f])
  BY <1>2 DEF Once
<1> QED
  BY <1>4, <1>5, <1>6, <1>7, Zenon DEF ConstInv, Const!TypeOK, Lines

LEMMA ConstKeeps == ASSUME ConstInv, [Const!Next]_constVars
                    PROVE  ConstInv'
<1>t. /\ equs \in [Sources -> Seq(Lines)]
      /\ shown \in [Const!Sites -> Versions] /\ rcs \subseteq Const!Scripts
      /\ matched \subseteq Const!Sites /\ edits \in 0..MaxEdits
      /\ \A f \in Sources : Once(equs[f])
  BY Zenon DEF ConstInv, Const!TypeOK, Lines
<1>a. /\ equs' \in [Sources -> Seq(Lines)]
      /\ shown' \in [Const!Sites -> Versions] /\ rcs' \subseteq Const!Scripts
      /\ matched' \subseteq Const!Sites /\ edits' \in 0..MaxEdits
      /\ \A f \in Sources : Once(equs'[f])
      => ConstInv'
  BY Zenon DEF ConstInv, Const!TypeOK, Lines, Once
<1>1. ASSUME NEW f \in Sources, NEW name \in Names, NEW expr \in Const!Exprs,
             Const!Define(f, name, expr)
      PROVE  ConstInv'
  <2> DEFINE line == <<name, expr>>
  <2>1. /\ \A i \in 1..Len(equs[f]) : equs[f][i][1] # name
        /\ equs' = [equs EXCEPT ![f] = Append(@, line)]
        /\ shown' = shown /\ rcs' = rcs /\ matched' = matched /\ edits' = edits
    BY <1>1, Zenon DEF Const!Define
  <2>2. line \in Lines /\ line[1] = name
    BY DEF Lines
  <2> HIDE DEF line
  <2> DEFINE longer == Append(equs[f], line)
  <2>3. /\ longer \in Seq(Lines) /\ Len(longer) = Len(equs[f]) + 1 /\ Len(equs[f]) \in Nat
        /\ \A i \in 1..Len(equs[f]) : longer[i] = equs[f][i]
        /\ longer[Len(equs[f]) + 1] = line
    BY <1>t, <2>2, AppendProperties, LenProperties
  <2>4. Once(longer)
    <3> SUFFICES ASSUME NEW i \in 1..Len(longer), NEW j \in 1..Len(longer),
                        longer[i][1] = longer[j][1]
                 PROVE  i = j
      BY DEF Once
    <3>1. \A m \in 1..Len(longer) : m \in 1..Len(equs[f]) \/ m = Len(equs[f]) + 1
      BY <2>3
    <3>2. \A m, l \in 1..Len(equs[f]) : equs[f][m][1] = equs[f][l][1] => m = l
      BY <1>t, Zenon DEF Once
    <3> HIDE DEF longer
    <3> QED
      BY <2>1, <2>2, <2>3, <3>1, <3>2
  <2> HIDE DEF longer
  <2>5. equs' = [equs EXCEPT ![f] = longer]
    BY <2>1 DEF longer
  <2>6. equs' \in [Sources -> Seq(Lines)] /\ \A g \in Sources : Once(equs'[g])
    BY <1>t, <2>3, <2>4, <2>5
  <2> QED
    BY <1>a, <1>t, <2>1, <2>6, Zenon
<1>2. ASSUME NEW s \in Const!Sites, NEW v \in Versions, NEW m \in BOOLEAN,
             Const!EditVersion(s, v, m)
      PROVE  ConstInv'
  <2>1. /\ edits < MaxEdits /\ edits' = edits + 1
        /\ shown' = [shown EXCEPT ![s] = v]
        /\ matched' \subseteq matched
        /\ equs' = equs /\ rcs' = rcs
    BY <1>2 DEF Const!EditVersion
  <2>2. edits' \in 0..MaxEdits
    BY <1>t, <2>1, SourcesAssumption DEF SourcesAssumption
  <2>3. shown' \in [Const!Sites -> Versions]
    BY <1>t, <2>1
  <2>4. matched' \subseteq Const!Sites
    BY <1>t, <2>1, Zenon
  <2> QED
    BY <1>a, <1>t, <2>1, <2>2, <2>3, <2>4, Zenon
<1>3. ASSUME NEW s \in rcs, Const!DropScript(s)
      PROVE  ConstInv'
  <2>1. /\ edits < MaxEdits /\ edits' = edits + 1 /\ rcs' \subseteq rcs
        /\ UNCHANGED <<equs, shown, matched>>
    BY <1>3 DEF Const!DropScript
  <2>2. edits' \in 0..MaxEdits
    BY <1>t, <2>1, SourcesAssumption DEF SourcesAssumption
  <2>3. rcs' \subseteq Const!Scripts
    BY <1>t, <2>1, Zenon
  <2> QED
    BY <1>a, <1>t, <2>1, <2>2, <2>3, Zenon
<1>4. CASE UNCHANGED constVars
  BY <1>4, <1>a, <1>t, Zenon DEF constVars
<1> QED
  BY <1>1, <1>2, <1>3, <1>4, Zenon DEF Const!Next

LEMMA ConstHolds == BuildSpec => []ConstInv
<1>1. BuildInit => ConstInv
  BY ConstInit, StartParts
<1>2. ConstInv /\ [BuildNext]_buildVars => ConstInv'
  BY ConstKeeps, GateSteps
<1> QED
  BY <1>1, <1>2, PTL DEF BuildSpec

-----------------------------------------------------------------------------
(* constcheck and the assembler read the same definitions in the same order:   *)
(* each reading is a chain of values, one for every definition.                *)

\* A set of naturals that is not empty has a least member.
LEMMA LeastOf ==
    ASSUME NEW T \in SUBSET Nat, T # {}
    PROVE  \E x \in T : \A y \in T : ~(y < x)
<1>1. IsWellFoundedOn(OpToRel(<, Nat), Nat)
  BY NatLessThanWellFounded
<1>2. \E x \in T : \A y \in T : <<y, x>> \notin OpToRel(<, Nat)
  BY <1>1, WFMin
<1>3. \A x, y \in Nat : y < x => <<y, x>> \in OpToRel(<, Nat)
  BY DEF OpToRel
<1> QED
  BY <1>2, <1>3

\* What a chain of n steps is: a value to begin with, and one made of it at each step.
Chain(f, S, a, F, n) ==
    /\ f \in [0..n -> S] /\ f[0] = a
    /\ \A i \in 1..n : f[i] = F[i][f[i - 1]]

LEMMA ChainExists ==
    ASSUME NEW S, NEW a \in S, NEW n \in Nat, NEW F \in [1..n -> [S -> S]]
    PROVE  \E f : Chain(f, S, a, F, n)
<1> DEFINE Has(m) == \E f : Chain(f, S, a, F, m)
           Missing == {m \in 0..n : ~Has(m)}
<1>1. Has(0)
  <2>1. Chain([i \in 0..0 |-> a], S, a, F, 0)
    BY DEF Chain
  <2> QED
    BY <2>1, Zenon
<1>2. ASSUME NEW m \in 0..n, m # 0, Has(m - 1)
      PROVE  Has(m)
  <2>1. m \in 1..n /\ m \in Nat /\ m - 1 \in Nat /\ m - 1 \in 0..(m - 1)
    BY <1>2
  <2>2. PICK g : Chain(g, S, a, F, m - 1)
    BY <1>2
  <2>3. g \in [0..(m - 1) -> S] /\ g[0] = a /\ \A i \in 1..(m - 1) : g[i] = F[i][g[i - 1]]
    BY <2>2 DEF Chain
  <2>4. PICK v \in S : v = F[m][g[m - 1]]
    BY <2>1, <2>3
  <2> DEFINE f == [i \in 0..m |-> IF i = m THEN v ELSE g[i]]
  <2>5. \A i \in 0..m : i # m => i \in 0..(m - 1)
    BY <2>1
  <2>6. f \in [0..m -> S]
    BY <2>3, <2>5
  <2>7. f[0] = a
    BY <2>1, <2>3
  <2>8. ASSUME NEW i \in 1..m
        PROVE  f[i] = F[i][f[i - 1]]
    <3>1. i - 1 \in 0..m /\ i - 1 # m /\ i \in 0..m
      BY <2>1
    <3>2. f[i - 1] = g[i - 1]
      BY <3>1
    <3>3. CASE i = m
      BY <3>1, <3>2, <3>3, <2>4
    <3>4. CASE i # m
      <4>1. i \in 1..(m - 1) /\ f[i] = g[i]
        BY <3>1, <3>4, <2>1
      <4> QED
        BY <4>1, <3>2, <2>3
    <3> QED
      BY <3>3, <3>4
  <2> HIDE DEF f
  <2> QED
    BY <2>6, <2>7, <2>8, Zenon DEF Chain
<1> HIDE DEF Has
<1>3. Missing = {}
  <2> SUFFICES ASSUME Missing # {} PROVE FALSE
    OBVIOUS
  <2>1. Missing \in SUBSET Nat
    OBVIOUS
  <2>2. PICK m \in Missing : \A j \in Missing : ~(j < m)
    BY <2>1, LeastOf
  <2>3. m \in 0..n /\ ~Has(m) /\ m # 0
    BY <1>1
  <2>4. m - 1 \in 0..n /\ m - 1 < m
    BY <2>3
  <2> QED
    BY <2>2, <2>3, <2>4, <1>2
<1>4. Has(n)
  BY <1>3
<1> QED
  BY <1>4 DEF Has

\* A chain that adds at each step has added what it had before.
Extends(k, r) == /\ DOMAIN k \subseteq DOMAIN r
                 /\ \A x \in DOMAIN k : r[x] = k[x]

LEMMA ChainGrows ==
    ASSUME NEW n \in Nat, NEW f, \A i \in 1..n : Extends(f[i - 1], f[i]),
           NEW l \in 0..n, NEW m \in l..n
    PROVE  Extends(f[l], f[m])
<1> DEFINE Bad == {j \in l..n : ~Extends(f[l], f[j])}
<1>1. Bad = {}
  <2> SUFFICES ASSUME Bad # {} PROVE FALSE
    OBVIOUS
  <2>1. Bad \in SUBSET Nat
    OBVIOUS
  <2>2. PICK j \in Bad : \A i \in Bad : ~(i < j)
    BY <2>1, LeastOf
  <2>3. j \in l..n /\ ~Extends(f[l], f[j])
    OBVIOUS
  <2>4. j # l
    BY <2>3 DEF Extends
  <2>5. j - 1 \in l..n /\ j - 1 < j /\ j \in 1..n
    BY <2>3, <2>4
  <2>6. Extends(f[l], f[j - 1]) /\ Extends(f[j - 1], f[j])
    BY <2>2, <2>5
  <2> QED
    BY <2>3, <2>6 DEF Extends
<1> QED
  BY <1>1


\* What is known of a source: values for some of the names.
Knowns == UNION {[D -> Nat] : D \in SUBSET Names}
Readers == {Const!Python, Const!Assembler}

\* Both readers fold numbers, and halve an even value alike.
LEMMA ReadersAre ==
    /\ \A h \in Readers : "number" \in h.folds /\ \A m \in Nat : h.half[m] \in Nat
    /\ \A m \in Nat : m % 2 # 1 => Const!Python.half[m] = Const!Assembler.half[m]
<1>1. \A m \in Nat : 2 * (m \div 2) \in Nat /\ (m % 2 # 1 => 2 * (m \div 2) = m)
  OBVIOUS
<1> QED
  BY <1>1 DEF Readers, Const!Python, Const!Assembler

LEMMA KnownIs ==
    ASSUME NEW k \in Knowns
    PROVE  /\ DOMAIN k \subseteq Names /\ k \in [DOMAIN k -> Nat]
           /\ \A x \in DOMAIN k : k[x] \in Nat
<1>1. PICK D \in SUBSET Names : k \in [D -> Nat]
  BY DEF Knowns
<1> QED
  BY <1>1

LEMMA ExprIs ==
    ASSUME NEW e \in Const!Exprs, Literals \subseteq Nat
    PROVE  \/ e.op \in {"number", "unfoldable"} /\ e.v \in Nat
           \/ e.op \in {"increment", "halved"}
<1>1. CASE e \in [op : {"number", "unfoldable"}, v : Literals]
  BY <1>1
<1>2. CASE e \in [op : {"increment", "halved"}, of : Names]
  BY <1>2
<1> QED
  BY <1>1, <1>2 DEF Const!Exprs

LEMMA ValueIs ==
    ASSUME NEW e \in Const!Exprs, NEW k \in Knowns, NEW h \in Readers, Literals \subseteq Nat
    PROVE  /\ Const!Value(e, k, h) \in Nat \cup {Const!Unresolved}
           /\ e.op = "number" => Const!Value(e, k, h) \in Nat
           /\ e.op \in {"increment", "halved"} /\ e.of \in DOMAIN k => Const!Value(e, k, h) \in Nat
<1>1. \A x \in DOMAIN k : k[x] \in Nat /\ k[x] + 1 \in Nat /\ h.half[k[x]] \in Nat
  BY KnownIs, ReadersAre
<1>2. CASE e.op \in {"number", "unfoldable"} /\ e.v \in Nat
  BY <1>2, ReadersAre DEF Const!Value
<1>3. CASE e.op \in {"increment", "halved"}
  BY <1>1, <1>3 DEF Const!Value
<1> QED
  BY <1>2, <1>3, ExprIs

\* What has a value keeps it when more is known.
LEMMA ValueStays ==
    ASSUME NEW e \in Const!Exprs, NEW k \in Knowns, NEW l, NEW h \in Readers, Literals \subseteq Nat,
           Extends(k, l), Const!Value(e, k, h) # Const!Unresolved
    PROVE  Const!Value(e, l, h) = Const!Value(e, k, h)
<1>1. CASE e.op \in {"number", "unfoldable"}
  BY <1>1 DEF Const!Value
<1>2. CASE e.op \notin {"number", "unfoldable"}
  <2>1. e.of \in DOMAIN k
    BY <1>2 DEF Const!Value
  <2>2. e.of \in DOMAIN l /\ l[e.of] = k[e.of]
    BY <2>1 DEF Extends
  <2> QED
    BY <1>2, <2>1, <2>2 DEF Const!Value
<1> QED
  BY <1>1, <1>2

\* One definition more.
LEMMA FoldedIs ==
    ASSUME NEW d \in Lines, NEW k \in Knowns, NEW h \in Readers, Literals \subseteq Nat
    PROVE  Const!Folded(d, k, h) \in Knowns /\ Extends(k, Const!Folded(d, k, h))
<1>1. PICK v : v = Const!Value(d[2], k, h)
  OBVIOUS
<1>2. v \in Nat \cup {Const!Unresolved} /\ d[1] \in Names
  BY <1>1, ValueIs DEF Lines
<1>3. DOMAIN k \subseteq Names /\ \A x \in DOMAIN k : k[x] \in Nat
  BY KnownIs
<1>4. CASE v = Const!Unresolved
  BY <1>1, <1>4 DEF Const!Folded, Extends
<1>5. CASE v # Const!Unresolved
  <2> DEFINE D == DOMAIN k \cup {d[1]}
             r == [x \in D |-> IF x \in DOMAIN k THEN k[x] ELSE v]
  <2>1. D \in SUBSET Names /\ r \in [D -> Nat]
    BY <1>2, <1>3, <1>5
  <2>2. Extends(k, r)
    BY DEF Extends
  <2>3. Const!Folded(d, k, h) = r
    BY <1>1, <1>5 DEF Const!Folded, Const!SetDefault
  <2>4. r \in Knowns
    BY <2>1, Zenon DEF Knowns
  <2> QED
    BY <2>2, <2>3, <2>4
<1> QED
  BY <1>4, <1>5

\* A reading folds the definitions one after the other.
Reading(u, listing, k, h) ==
    /\ u \in [0..Len(listing) -> Knowns] /\ u[0] = k
    /\ \A i \in 1..Len(listing) : u[i] = Const!Folded(listing[i], u[i - 1], h)

LEMMA PassIs ==
    ASSUME NEW listing \in Seq(Lines), NEW k \in Knowns, NEW h \in Readers, Literals \subseteq Nat
    PROVE  \E u : Reading(u, listing, k, h) /\ Const!Pass(listing, k, h) = u[Len(listing)]
<1> DEFINE n == Len(listing)
           F == [i \in 1..n |-> [c \in Knowns |-> Const!Folded(listing[i], c, h)]]
           Def(q) == [i \in 0..n |-> IF i = 0 THEN k ELSE Const!Folded(listing[i], q[i - 1], h)]
<1>1. n \in Nat /\ \A i \in 1..n : listing[i] \in Lines
  BY LenProperties, ElementOfSeq
<1>2. F \in [1..n -> [Knowns -> Knowns]]
  BY <1>1, FoldedIs
<1>3. PICK u : Chain(u, Knowns, k, F, n)
  BY <1>1, <1>2, ChainExists
<1>4. u \in [0..n -> Knowns] /\ u[0] = k /\ \A i \in 1..n : u[i] = F[i][u[i - 1]]
  BY <1>3 DEF Chain
<1>5. ASSUME NEW i \in 1..n
      PROVE  u[i - 1] \in Knowns /\ u[i] = Const!Folded(listing[i], u[i - 1], h)
  <2>1. i - 1 \in 0..n
    BY <1>1
  <2>2. PICK c \in Knowns : c = u[i - 1]
    BY <1>4, <2>1
  <2>3. F[i][c] = Const!Folded(listing[i], c, h)
    OBVIOUS
  <2> QED
    BY <1>4, <2>2, <2>3
<1> HIDE DEF F
<1>7. u = Def(u)
  <2>1. \A i \in 0..n : i # 0 => i \in 1..n
    BY <1>1
  <2>2. \A i \in 0..n : u[i] = IF i = 0 THEN k ELSE Const!Folded(listing[i], u[i - 1], h)
    BY <1>4, <1>5, <2>1
  <2>3. u = [i \in 0..n |-> u[i]]
    BY <1>4
  <2> QED
    BY <2>2, <2>3
<1>8. PICK f : f = Def(f) /\ Const!Pass(listing, k, h) = f[n]
  BY <1>7, Zenon DEF Const!Pass
<1>9. f = u
  <2> DEFINE Apart == {i \in 0..n : f[i] # u[i]}
  <2>1. Apart = {}
    <3> SUFFICES ASSUME Apart # {} PROVE FALSE
      OBVIOUS
    <3>1. Apart \in SUBSET Nat
      OBVIOUS
    <3>2. PICK i \in Apart : \A j \in Apart : ~(j < i)
      BY <3>1, LeastOf
    <3>3. i \in 0..n /\ f[i] # u[i] /\ f[0] = k /\ u[0] = k
      BY <1>7, <1>8
    <3>4. i - 1 \in 0..n /\ i - 1 < i
      BY <3>3
    <3>5. f[i - 1] = u[i - 1]
      BY <3>2, <3>4
    <3>6. f[i] = Const!Folded(listing[i], f[i - 1], h) /\ u[i] = Const!Folded(listing[i], u[i - 1], h)
      BY <1>7, <1>8, <3>3
    <3> QED
      BY <3>3, <3>5, <3>6
  <2>2. f = [i \in 0..n |-> f[i]] /\ u = [i \in 0..n |-> u[i]]
    BY <1>7, <1>8
  <2> QED
    BY <2>1, <2>2
<1> QED
  BY <1>4, <1>5, <1>8, <1>9 DEF Reading

\* A reading keeps what was known before it, and stays within the names.
LEMMA PassGrows ==
    ASSUME NEW listing \in Seq(Lines), NEW k \in Knowns, NEW h \in Readers, Literals \subseteq Nat
    PROVE  /\ Const!Pass(listing, k, h) \in Knowns
           /\ Extends(k, Const!Pass(listing, k, h))
<1> DEFINE n == Len(listing)
<1>1. n \in Nat /\ \A i \in 1..n : listing[i] \in Lines
  BY LenProperties, ElementOfSeq
<1>2. PICK u : Reading(u, listing, k, h) /\ Const!Pass(listing, k, h) = u[n]
  BY PassIs
<1>3. u[n] \in Knowns /\ u[0] = k
  BY <1>1, <1>2 DEF Reading
<1>4. ASSUME NEW i \in 1..n
      PROVE  Extends(u[i - 1], u[i])
  <2>1. i - 1 \in 0..n
    BY <1>1
  <2>2. PICK c \in Knowns : c = u[i - 1]
    BY <1>2, <2>1 DEF Reading
  <2>3. u[i] = Const!Folded(listing[i], c, h)
    BY <1>2, <2>2 DEF Reading
  <2> QED
    BY <1>1, <2>2, <2>3, FoldedIs
<1>5. 0 \in 0..n /\ n \in 0..n
  BY <1>1
<1>6. Extends(u[0], u[n])
  BY <1>1, <1>4, <1>5, ChainGrows
<1> QED
  BY <1>2, <1>3, <1>6

\* Reading again and again.
Rereading(r, listing, h, n) ==
    /\ r \in [0..n -> Knowns] /\ r[0] = <<>>
    /\ \A i \in 1..n : r[i] = Const!Pass(listing, r[i - 1], h)

LEMMA ReadIs ==
    ASSUME NEW listing \in Seq(Lines), NEW h \in Readers, NEW n \in Nat, Literals \subseteq Nat
    PROVE  \E r : Rereading(r, listing, h, n) /\ Const!Read(listing, h, n) = r[n]
<1> DEFINE F == [i \in 1..n |-> [c \in Knowns |-> Const!Pass(listing, c, h)]]
           Def(q) == [i \in 0..n |-> IF i = 0 THEN <<>> ELSE Const!Pass(listing, q[i - 1], h)]
<1>1. <<>> \in Knowns
  <2>1. <<>> \in [{} -> Nat] /\ {} \in SUBSET Names
    OBVIOUS
  <2> QED
    BY <2>1, Zenon DEF Knowns
<1>2. F \in [1..n -> [Knowns -> Knowns]]
  BY PassGrows
<1>3. PICK u : Chain(u, Knowns, <<>>, F, n)
  BY <1>1, <1>2, ChainExists
<1>4. u \in [0..n -> Knowns] /\ u[0] = <<>> /\ \A i \in 1..n : u[i] = F[i][u[i - 1]]
  BY <1>3 DEF Chain
<1>5. ASSUME NEW i \in 1..n
      PROVE  u[i] = Const!Pass(listing, u[i - 1], h)
  <2>1. PICK c \in Knowns : c = u[i - 1]
    BY <1>4
  <2>2. F[i][c] = Const!Pass(listing, c, h)
    OBVIOUS
  <2> QED
    BY <1>4, <2>1, <2>2
<1> HIDE DEF F
<1>6. u = Def(u)
  <2>1. \A i \in 0..n : u[i] = IF i = 0 THEN <<>> ELSE Const!Pass(listing, u[i - 1], h)
    BY <1>4, <1>5
  <2>2. u = [i \in 0..n |-> u[i]]
    BY <1>4
  <2> QED
    BY <2>1, <2>2
<1>7. PICK f : f = Def(f) /\ Const!Read(listing, h, n) = f[n]
  BY <1>6, Zenon DEF Const!Read
<1>8. f = u
  <2> DEFINE Apart == {i \in 0..n : f[i] # u[i]}
  <2>1. Apart = {}
    <3> SUFFICES ASSUME Apart # {} PROVE FALSE
      OBVIOUS
    <3>1. Apart \in SUBSET Nat
      OBVIOUS
    <3>2. PICK i \in Apart : \A j \in Apart : ~(j < i)
      BY <3>1, LeastOf
    <3>3. i \in 0..n /\ f[i] # u[i] /\ f[0] = <<>> /\ u[0] = <<>>
      BY <1>6, <1>7
    <3>4. i - 1 \in 0..n /\ i - 1 < i
      BY <3>3
    <3>5. f[i - 1] = u[i - 1]
      BY <3>2, <3>4
    <3>6. f[i] = Const!Pass(listing, f[i - 1], h) /\ u[i] = Const!Pass(listing, u[i - 1], h)
      BY <1>6, <1>7, <3>3
    <3> QED
      BY <3>3, <3>5, <3>6
  <2>2. f = [i \in 0..n |-> f[i]] /\ u = [i \in 0..n |-> u[i]]
    BY <1>6, <1>7
  <2> QED
    BY <2>1, <2>2
<1> QED
  BY <1>4, <1>5, <1>7, <1>8 DEF Rereading

\* Each reading adds to the last.
LEMMA ReadingsGrow ==
    ASSUME NEW listing \in Seq(Lines), NEW h \in Readers, NEW n \in Nat, Literals \subseteq Nat,
           NEW r, Rereading(r, listing, h, n)
    PROVE  \A l \in 0..n : \A m \in l..n : Extends(r[l], r[m])
<1>1. ASSUME NEW i \in 1..n
      PROVE  Extends(r[i - 1], r[i])
  <2>1. i - 1 \in 0..n
    OBVIOUS
  <2>2. PICK c \in Knowns : c = r[i - 1]
    BY <2>1 DEF Rereading
  <2>3. r[i] = Const!Pass(listing, c, h)
    BY <2>2 DEF Rereading
  <2> QED
    BY <2>2, <2>3, PassGrows
<1> QED
  BY <1>1, ChainGrows

-----------------------------------------------------------------------------
(* What is known of a name is what its own line says of it.                    *)

Own(k, listing, h) ==
    \A x \in DOMAIN k : \E i \in 1..Len(listing) :
        listing[i][1] = x /\ k[x] = Const!Value(listing[i][2], k, h)

LEMMA FoldedOwn ==
    ASSUME NEW listing \in Seq(Lines), NEW i \in 1..Len(listing), NEW k \in Knowns, NEW h \in Readers,
           Literals \subseteq Nat, Own(k, listing, h)
    PROVE  Own(Const!Folded(listing[i], k, h), listing, h)
<1>1. PICK l : l = Const!Folded(listing[i], k, h)
  OBVIOUS
<1>2. PICK v : v = Const!Value(listing[i][2], k, h)
  OBVIOUS
<1>3. \A j \in 1..Len(listing) : listing[j] \in Lines /\ listing[j][2] \in Const!Exprs
  BY ElementOfSeq DEF Lines
<1>4. l \in Knowns /\ Extends(k, l)
  BY <1>1, <1>3, FoldedIs
<1>5. ASSUME NEW x \in DOMAIN k
      PROVE  \E j \in 1..Len(listing) : listing[j][1] = x /\ l[x] = Const!Value(listing[j][2], l, h)
  <2>1. PICK j \in 1..Len(listing) : listing[j][1] = x /\ k[x] = Const!Value(listing[j][2], k, h)
    BY DEF Own
  <2>2. k[x] # Const!Unresolved
    BY KnownIs DEF Const!Unresolved
  <2>3. Const!Value(listing[j][2], l, h) = k[x]
    BY <1>3, <1>4, <2>1, <2>2, ValueStays
  <2>4. l[x] = k[x]
    BY <1>4 DEF Extends
  <2> QED
    BY <2>1, <2>3, <2>4
<1>6. ASSUME NEW x \in DOMAIN l, x \notin DOMAIN k
      PROVE  listing[i][1] = x /\ l[x] = Const!Value(listing[i][2], l, h)
  <2>1. v # Const!Unresolved
    BY <1>1, <1>2, <1>6 DEF Const!Folded
  <2>2. l = Const!SetDefault(k, listing[i][1], v)
    BY <1>1, <1>2, <2>1 DEF Const!Folded
  <2>3. x = listing[i][1] /\ l[x] = v
    BY <1>6, <2>2 DEF Const!SetDefault
  <2>4. Const!Value(listing[i][2], l, h) = v
    BY <1>2, <1>3, <1>4, <2>1, ValueStays
  <2> QED
    BY <2>3, <2>4
<1>7. \A x \in DOMAIN l : \E j \in 1..Len(listing) :
         listing[j][1] = x /\ l[x] = Const!Value(listing[j][2], l, h)
  BY <1>5, <1>6, Zenon
<1> QED
  BY <1>1, <1>7, Zenon DEF Own

LEMMA PassOwn ==
    ASSUME NEW listing \in Seq(Lines), NEW k \in Knowns, NEW h \in Readers, Literals \subseteq Nat,
           Own(k, listing, h)
    PROVE  Own(Const!Pass(listing, k, h), listing, h)
<1> DEFINE n == Len(listing)
<1>1. n \in Nat
  BY LenProperties
<1>2. PICK u : Reading(u, listing, k, h) /\ Const!Pass(listing, k, h) = u[n]
  BY PassIs
<1> DEFINE Bad == {i \in 0..n : ~Own(u[i], listing, h)}
<1>3. Bad = {}
  <2> SUFFICES ASSUME Bad # {} PROVE FALSE
    OBVIOUS
  <2>1. Bad \in SUBSET Nat
    OBVIOUS
  <2>2. PICK i \in Bad : \A j \in Bad : ~(j < i)
    BY <2>1, LeastOf
  <2>3. i \in 0..n /\ ~Own(u[i], listing, h)
    OBVIOUS
  <2>4. i # 0
    BY <1>2, <2>3 DEF Reading
  <2>5. i \in 1..n /\ i - 1 \in 0..n /\ i - 1 < i
    BY <1>1, <2>3, <2>4
  <2>6. Own(u[i - 1], listing, h)
    BY <2>2, <2>5
  <2>7. PICK c \in Knowns : c = u[i - 1]
    BY <1>2, <2>5 DEF Reading
  <2>8. u[i] = Const!Folded(listing[i], c, h)
    BY <1>2, <2>5, <2>7 DEF Reading
  <2> QED
    BY <2>3, <2>5, <2>6, <2>7, <2>8, FoldedOwn
<1>4. n \in 0..n
  BY <1>1
<1> QED
  BY <1>2, <1>3, <1>4

LEMMA ReadOwn ==
    ASSUME NEW listing \in Seq(Lines), NEW h \in Readers, NEW n \in Nat, Literals \subseteq Nat
    PROVE  Const!Read(listing, h, n) \in Knowns /\ Own(Const!Read(listing, h, n), listing, h)
<1>1. PICK r : Rereading(r, listing, h, n) /\ Const!Read(listing, h, n) = r[n]
  BY ReadIs
<1> DEFINE Bad == {i \in 0..n : ~Own(r[i], listing, h)}
<1>2. Bad = {}
  <2> SUFFICES ASSUME Bad # {} PROVE FALSE
    OBVIOUS
  <2>1. Bad \in SUBSET Nat
    OBVIOUS
  <2>2. PICK i \in Bad : \A j \in Bad : ~(j < i)
    BY <2>1, LeastOf
  <2>3. i \in 0..n /\ ~Own(r[i], listing, h)
    OBVIOUS
  <2>4. i # 0
    <3>1. Own(<<>>, listing, h)
      BY DEF Own
    <3> QED
      BY <1>1, <2>3, <3>1 DEF Rereading
  <2>5. i \in 1..n /\ i - 1 \in 0..n /\ i - 1 < i
    BY <2>3, <2>4
  <2>6. Own(r[i - 1], listing, h)
    BY <2>2, <2>5
  <2>7. PICK c \in Knowns : c = r[i - 1]
    BY <1>1, <2>5 DEF Rereading
  <2>8. r[i] = Const!Pass(listing, c, h)
    BY <1>1, <2>5, <2>7 DEF Rereading
  <2> QED
    BY <2>3, <2>6, <2>7, <2>8, PassOwn
<1>3. n \in 0..n
  OBVIOUS
<1> QED
  BY <1>1, <1>2, <1>3 DEF Rereading

-----------------------------------------------------------------------------
(* A name in reach has a value for both readers, and the same.                 *)

\* The lines that lead from a name to a number, and the reading each is folded in.
Way(listing, way, in, last) ==
    /\ way \subseteq 1..Len(listing) /\ in \in [way -> 1..last]
    /\ \A i \in way :
         \/ listing[i][2].op = "number"
         \/ /\ listing[i][2].op \in {"increment", "halved"}
            /\ \E j \in way : /\ listing[j][1] = listing[i][2].of
                                /\ in[j] <= in[i] /\ (j < i \/ in[j] < in[i])

\* Of lines with readings there is one that none comes before.
LEMMA FirstOf ==
    ASSUME NEW S \in SUBSET Nat, S # {}, NEW in \in [S -> Nat]
    PROVE  \E i \in S : \A j \in S : ~(in[j] <= in[i] /\ (j < i \/ in[j] < in[i]))
<1> DEFINE T == {in[i] : i \in S}
<1>0. T \in SUBSET Nat /\ T # {}
  OBVIOUS
<1> HIDE DEF T
<1>1. PICK m \in T : \A l \in T : ~(l < m)
  BY <1>0, LeastOf
<1> USE DEF T
<1> DEFINE U == {i \in S : in[i] = m}
<1>2. PICK i \in U : \A j \in U : ~(j < i)
  BY LeastOf
<1>3. i \in S /\ in[i] = m
  OBVIOUS
<1>4. ASSUME NEW j \in S, in[j] <= in[i], j < i \/ in[j] < in[i]
      PROVE  FALSE
  <2>1. in[j] \in T /\ in[j] \in Nat /\ m \in Nat
    OBVIOUS
  <2>2. ~(in[j] < m)
    BY <1>1, <2>1
  <2>3. j \in U /\ j < i
    BY <1>3, <1>4, <2>1, <2>2
  <2> QED
    BY <1>2, <2>3
<1> QED
  BY <1>3, <1>4

\* A line whose name is a number's or a known name's is folded.
LEMMA FoldKnows ==
    ASSUME NEW d \in Lines, NEW k \in Knowns, NEW h \in Readers, Literals \subseteq Nat,
           \/ d[2].op = "number"
           \/ d[2].op \in {"increment", "halved"} /\ d[2].of \in DOMAIN k
    PROVE  d[1] \in DOMAIN Const!Folded(d, k, h)
<1>1. PICK v : v = Const!Value(d[2], k, h)
  OBVIOUS
<1>2. v # Const!Unresolved
  <2>1. d[2] \in Const!Exprs
    BY DEF Lines
  <2>2. v \in Nat
    BY <1>1, <2>1, ValueIs
  <2> QED
    BY <2>2 DEF Const!Unresolved
<1>3. Const!Folded(d, k, h) = Const!SetDefault(k, d[1], v)
  BY <1>1, <1>2 DEF Const!Folded
<1> QED
  BY <1>3 DEF Const!SetDefault

LEMMA WayIsKnown ==
    ASSUME NEW listing \in Seq(Lines), NEW h \in Readers, NEW n \in Nat, Literals \subseteq Nat,
           NEW last \in 0..n, NEW way, NEW in, Way(listing, way, in, last)
    PROVE  \A i \in way : listing[i][1] \in DOMAIN Const!Read(listing, h, n)
<1> DEFINE len == Len(listing)
<1>1. len \in Nat /\ \A i \in 1..len : listing[i] \in Lines
  BY LenProperties, ElementOfSeq
<1>2. PICK r : Rereading(r, listing, h, n) /\ Const!Read(listing, h, n) = r[n]
  BY ReadIs
<1>3. way \subseteq 1..len /\ \A i \in way : in[i] \in 1..n /\ in[i] - 1 \in 0..n /\ in[i] \in 0..n
  <2>1. way \subseteq 1..len /\ in \in [way -> 1..last]
    BY Zenon DEF Way
  <2>2. \A x \in 1..last : x \in 1..n /\ x - 1 \in 0..n /\ x \in 0..n
    OBVIOUS
  <2> QED
    BY <2>1, <2>2
\* a reading of line i in which its name is not folded
<1> DEFINE Fails1(u, i) == /\ Reading(u, listing, r[in[i] - 1], h) /\ u[len] = r[in[i]]
                           /\ listing[i][1] \notin DOMAIN u[i]
           Bad == {i \in way : \E u : Fails1(u, i)}
<1>4. ASSUME NEW i \in way
      PROVE  \E u : Reading(u, listing, r[in[i] - 1], h) /\ u[len] = r[in[i]]
  <2>1. PICK c \in Knowns : c = r[in[i] - 1]
    BY <1>2, <1>3 DEF Rereading
  <2>2. r[in[i]] = Const!Pass(listing, c, h)
    BY <1>2, <1>3, <2>1 DEF Rereading
  <2>3. PICK u : Reading(u, listing, c, h) /\ Const!Pass(listing, c, h) = u[len]
    BY <2>1, PassIs
  <2> QED
    BY <2>1, <2>2, <2>3, Zenon
<1>5. ASSUME NEW k, NEW u, Reading(u, listing, k, h)
      PROVE  \A l \in 0..len : \A m \in l..len : Extends(u[l], u[m])
  <2>1. ASSUME NEW i \in 1..len
        PROVE  Extends(u[i - 1], u[i])
    <3>1. i - 1 \in 0..len
      BY <1>1
    <3>2. PICK c \in Knowns : c = u[i - 1]
      BY <1>5, <3>1 DEF Reading
    <3>3. u[i] = Const!Folded(listing[i], c, h)
      BY <1>5, <3>2 DEF Reading
    <3> QED
      BY <1>1, <3>2, <3>3, FoldedIs
  <2> HIDE DEF len
  <2> QED
    BY <1>1, <2>1, ChainGrows
<1>6. Bad = {}
  <2> SUFFICES ASSUME Bad # {} PROVE FALSE
    OBVIOUS
  <2>1. Bad \in SUBSET Nat /\ Bad \subseteq way
    <3>1. Bad \subseteq way
      BY Zenon
    <3> HIDE DEF Bad
    <3> QED
      BY <1>1, <1>3, <3>1
  <2> DEFINE ordin == [i \in Bad |-> in[i]]
  <2>2. ordin \in [Bad -> Nat]
    BY <1>3, <2>1
  <2>3. PICK i \in Bad : \A j \in Bad : ~(ordin[j] <= ordin[i] /\ (j < i \/ ordin[j] < ordin[i]))
    BY <2>1, <2>2, FirstOf
  <2>4. /\ i \in way /\ i \in 1..len /\ i - 1 \in 0..len
        /\ \A j \in Bad : ~(in[j] <= in[i] /\ (j < i \/ in[j] < in[i]))
    <3> HIDE DEF Bad
    <3> QED
      BY <1>1, <1>3, <2>1, <2>3
  <2>5. PICK u : Fails1(u, i)
    BY <2>3
  <2>6. PICK c \in Knowns : c = u[i - 1] /\ u[i] = Const!Folded(listing[i], c, h)
    BY <2>4, <2>5 DEF Reading
  <2>7. ~(\/ listing[i][2].op = "number"
          \/ listing[i][2].op \in {"increment", "halved"} /\ listing[i][2].of \in DOMAIN c)
    BY <1>1, <2>4, <2>5, <2>6, FoldKnows
  <2>8. PICK j \in way : /\ listing[j][1] = listing[i][2].of
                           /\ in[j] <= in[i] /\ (j < i \/ in[j] < in[i])
                           /\ listing[i][2].op \in {"increment", "halved"}
    BY <2>4, <2>7 DEF Way
  <2>9. j \notin Bad /\ j \in 1..len
    BY <1>3, <2>4, <2>8
  <2>10. \A w : ~Fails1(w, j)
    BY <2>8, <2>9, Zenon
  <2>11. listing[j][1] \in DOMAIN u[i - 1]
    <3>1. CASE in[j] = in[i]
      <4>1. j < i /\ i - 1 \in j..len /\ j \in 0..len
        BY <1>1, <1>3, <2>4, <2>8, <2>9, <3>1
      <4>2. listing[j][1] \in DOMAIN u[j]
        BY <2>5, <2>10, <3>1
      <4>3. Extends(u[j], u[i - 1])
        BY <1>5, <2>5, <4>1
      <4> QED
        BY <4>2, <4>3 DEF Extends
    <3>2. CASE in[j] # in[i]
      <4>1. in[j] \in 0..n /\ in[i] - 1 \in in[j]..n
        BY <1>3, <2>4, <2>8, <3>2
      <4>2. PICK w : Reading(w, listing, r[in[j] - 1], h) /\ w[len] = r[in[j]]
        BY <1>4, <2>8
      <4>3. listing[j][1] \in DOMAIN w[j]
        BY <2>10, <4>2
      <4>4. j \in 0..len /\ len \in j..len
        BY <1>1, <2>9
      <4>5. Extends(w[j], w[len])
        BY <1>5, <4>2, <4>4
      <4>6. listing[j][1] \in DOMAIN r[in[j]]
        BY <4>2, <4>3, <4>5 DEF Extends
      <4>7. Extends(r[in[j]], r[in[i] - 1])
        BY <1>2, <4>1, ReadingsGrow
      <4>8. r[in[i] - 1] = u[0] /\ 0 \in 0..len /\ i - 1 \in 0..len
        BY <1>1, <2>4, <2>5 DEF Reading
      <4>9. Extends(u[0], u[i - 1])
        BY <1>5, <2>5, <4>8
      <4> QED
        BY <4>6, <4>7, <4>8, <4>9 DEF Extends
    <3> QED
      BY <3>1, <3>2
  <2> QED
    BY <2>6, <2>7, <2>8, <2>11
<1>7. ASSUME NEW i \in way
      PROVE  listing[i][1] \in DOMAIN r[n]
  <2>1. PICK u : Reading(u, listing, r[in[i] - 1], h) /\ u[len] = r[in[i]]
    BY <1>4
  <2>2. listing[i][1] \in DOMAIN u[i]
    BY <1>6, <2>1
  <2>3. i \in 0..len /\ len \in i..len /\ in[i] \in 0..n /\ n \in in[i]..n
    BY <1>1, <1>3
  <2>4. Extends(u[i], u[len])
    BY <1>5, <2>1, <2>3
  <2>5. Extends(r[in[i]], r[n])
    BY <1>2, <2>3, ReadingsGrow
  <2> QED
    BY <2>1, <2>2, <2>4, <2>5 DEF Extends
<1> QED
  BY <1>2, <1>7

\* What the last reading of each has for a name in reach is one value.
LEMMA ReachAgrees ==
    ASSUME Const!TypeOK, Literals \subseteq Nat, Readings \in Nat,
           NEW f \in Sources, Once(equs[f]), NEW name, Const!InReach(f, name)
    PROVE  /\ name \in DOMAIN Const!Known(equs[f]) \cap DOMAIN Const!Assembled(equs[f])
           /\ Const!Known(equs[f])[name] = Const!Assembled(equs[f])[name]
<1> DEFINE d == equs[f]
<1>1. d \in Seq(Lines)
  BY DEF Const!TypeOK, Lines
<1>b. PICK way \in SUBSET (1..Len(d)) : \E in \in [way -> 1..Readings] :
         /\ \E i \in way : d[i][1] = name
         /\ \A i \in way :
              \/ d[i][2].op = "number"
              \/ /\ d[i][2].op = "increment" \/ (d[i][2].op = "halved" /\ ~Const!Odd(f, d[i][2].of))
                 /\ \E j \in way : /\ d[j][1] = d[i][2].of
                                   /\ in[j] <= in[i] /\ (j < i \/ in[j] < in[i])
  BY Zenon DEF Const!InReach
<1>2. PICK in \in [way -> 1..Readings] :
         /\ \E i \in way : d[i][1] = name
         /\ \A i \in way :
              \/ d[i][2].op = "number"
              \/ /\ d[i][2].op = "increment" \/ (d[i][2].op = "halved" /\ ~Const!Odd(f, d[i][2].of))
                 /\ \E j \in way : /\ d[j][1] = d[i][2].of
                                   /\ in[j] <= in[i] /\ (j < i \/ in[j] < in[i])
  BY <1>b
<1> DEFINE k == Const!Known(d)
           a == Const!Assembled(d)
<1>3. Const!Python \in Readers /\ Const!Assembler \in Readers
  BY DEF Readers
<1> HIDE DEF d
<1>4. Way(d, way, in, Readings)
  BY <1>2 DEF Way
<1>5. Len(d) \in Nat /\ Readings + Len(d) \in Nat /\ Readings \in 0..Readings
      /\ Readings \in 0..(Readings + Len(d)) /\ \A i \in 1..Len(d) : d[i] \in Lines
  BY <1>1, LenProperties, ElementOfSeq
<1>6. /\ k \in Knowns /\ Own(k, d, Const!Python)
      /\ \A i \in way : d[i][1] \in DOMAIN k
  BY <1>1, <1>3, <1>4, <1>5, ReadOwn, WayIsKnown DEF Const!Known
<1>7. /\ a \in Knowns /\ Own(a, d, Const!Assembler)
      /\ \A i \in way : d[i][1] \in DOMAIN a
  BY <1>1, <1>3, <1>4, <1>5, ReadOwn, WayIsKnown DEF Const!Assembled
<1>o. \A x : ~Const!Odd(f, x) /\ x \in DOMAIN a => a[x] % 2 # 1
  BY DEF Const!Odd, d
<1> HIDE DEF k, a
<1> DEFINE Bad == {i \in way : k[d[i][1]] # a[d[i][1]]}
<1>8. Bad = {}
  <2> SUFFICES ASSUME Bad # {} PROVE FALSE
    OBVIOUS
  <2>1. Bad \in SUBSET Nat /\ Bad \subseteq way
    OBVIOUS
  <2> DEFINE ordin == [i \in Bad |-> in[i]]
  <2>2. ordin \in [Bad -> Nat]
    <3> HIDE DEF Bad
    <3>1. \A x \in 1..Readings : x \in Nat
      OBVIOUS
    <3> QED
      BY <1>2, <2>1, <3>1
  <2>3. PICK i \in Bad : \A j \in Bad : ~(ordin[j] <= ordin[i] /\ (j < i \/ ordin[j] < ordin[i]))
    BY <2>1, <2>2, FirstOf
  <2>4. /\ i \in way /\ i \in 1..Len(d) /\ k[d[i][1]] # a[d[i][1]]
        /\ \A j \in Bad : ~(in[j] <= in[i] /\ (j < i \/ in[j] < in[i]))
    BY <2>1, <2>3
  <2>5. PICK e : e = d[i][2]
    OBVIOUS
  <2>6. k[d[i][1]] = Const!Value(e, k, Const!Python)
    <3>1. PICK j \in 1..Len(d) : d[j][1] = d[i][1] /\ k[d[i][1]] = Const!Value(d[j][2], k, Const!Python)
      BY <1>6, <2>4 DEF Own
    <3>2. j = i
      BY <2>4, <3>1 DEF Once, d
    <3> QED
      BY <2>5, <3>1, <3>2
  <2>7. a[d[i][1]] = Const!Value(e, a, Const!Assembler)
    <3>1. PICK j \in 1..Len(d) : d[j][1] = d[i][1] /\ a[d[i][1]] = Const!Value(d[j][2], a, Const!Assembler)
      BY <1>7, <2>4 DEF Own
    <3>2. j = i
      BY <2>4, <3>1 DEF Once, d
    <3> QED
      BY <2>5, <3>1, <3>2
  <2>8. CASE e.op = "number"
    <3>1. "number" \in Const!Python.folds /\ "number" \in Const!Assembler.folds
      BY <1>3, ReadersAre
    <3> QED
      BY <2>4, <2>6, <2>7, <2>8, <3>1 DEF Const!Value
  <2>9. CASE e.op # "number"
    <3>1. PICK j \in way :
             /\ e.op = "increment" \/ (e.op = "halved" /\ ~Const!Odd(f, e.of))
             /\ d[j][1] = e.of /\ in[j] <= in[i] /\ (j < i \/ in[j] < in[i])
      BY <1>2, <2>4, <2>5, <2>9
    <3>2. k[e.of] = a[e.of] /\ e.of \in DOMAIN k /\ e.of \in DOMAIN a
      BY <1>6, <1>7, <2>4, <3>1
    <3>3. PICK m \in Nat : m = a[e.of]
      BY <1>7, <3>2, KnownIs
    <3>4. e.op = "halved" => Const!Python.half[m] = Const!Assembler.half[m]
      BY <1>o, <3>1, <3>2, <3>3, ReadersAre
    <3> QED
      BY <2>4, <2>6, <2>7, <2>9, <3>1, <3>2, <3>3, <3>4 DEF Const!Value
  <2> QED
    BY <2>8, <2>9
<1>9. PICK i \in way : d[i][1] = name
  BY <1>2
<1>10. name \in DOMAIN k /\ name \in DOMAIN a /\ k[name] = a[name]
  BY <1>6, <1>7, <1>8, <1>9
<1> QED
  BY <1>10 DEF k, a, d

\* A finite set of at most one member has no two.
LEMMA AtMostOne ==
    ASSUME NEW S, IsFiniteSet(S), ~(Cardinality(S) > 1)
    PROVE  \A x, y \in S : x = y
<1> SUFFICES ASSUME NEW x \in S, NEW y \in S, x # y PROVE FALSE
  OBVIOUS
<1>1. IsFiniteSet(S \ {x}) /\ Cardinality(S \ {x}) = Cardinality(S) - 1
  BY FS_RemoveElement
<1>2. Cardinality(S \ {x}) # 0
  BY <1>1, FS_EmptySet
<1>3. Cardinality(S \ {x}) \in Nat /\ Cardinality(S) \in Nat
  BY <1>1, FS_CardinalityType
<1> QED
  BY <1>1, <1>2, <1>3

\* A function has finitely many values on a finite set.
LEMMA FiniteImage ==
    ASSUME NEW S, IsFiniteSet(S), NEW f
    PROVE  IsFiniteSet({f[x] : x \in S})
<1> DEFINE T == {f[x] : x \in S}
           F == [x \in S |-> f[x]]
<1>1. F \in Surjection(S, T)
  BY DEF Surjection
<1> QED
  BY <1>1, FS_Surjection

\* Mirrored constants agree in the objects of a tree the gate passes.
LEMMA MirrorsFollow ==
    ASSUME ConstInv, Literals \subseteq Nat, Readings \in Nat, IsFiniteSet(Sources), IsFiniteSet(Names)
    PROVE  Const!MirrorsAgree
<1> SUFFICES ASSUME Const!Findings = 0 PROVE Const!MirrorsAgree
  BY Zenon DEF Const!MirrorsAgree
<1> DEFINE known(f) == Const!Known(equs[f])
<1>1. Const!TypeOK /\ \A f \in Sources : equs[f] \in Seq(Lines) /\ Once(equs[f])
  BY DEF ConstInv, Const!TypeOK, Lines
<1>2. \A f \in Sources : known(f) \in Knowns
  BY <1>1, ReadOwn DEF Const!Known, Readers
<1> HIDE DEF known
<1>3. Const!Mirrored \subseteq Names /\ Const!Conflicts \subseteq Const!Mirrored
  BY DEF Const!Mirrored, Const!Conflicts
<1>4. IsFiniteSet(Const!Conflicts) /\ Cardinality(Const!Conflicts) \in Nat
  <2>1. Const!Conflicts \subseteq Names
    BY <1>3
  <2> QED
    BY <2>1, FS_Subset, FS_CardinalityType
<1>5. Const!VersionFault \in {0, 1}
  BY DEF Const!VersionFault
<1>6. Cardinality(Const!Conflicts) = 0 /\ Const!VersionFault = 0
  <2>1. Cardinality(Const!Conflicts) + Const!VersionFault = 0
    BY OneCount, Zenon DEF Const!Findings
  <2> QED
    BY <2>1, <1>4, <1>5
<1>7. Const!Conflicts = {}
  BY <1>4, <1>6, FS_EmptySet
<1>8. ASSUME NEW f \in Sources, NEW g \in Sources, f # g,
             NEW n \in DOMAIN known(f) \cap DOMAIN known(g)
      PROVE  known(f)[n] = known(g)[n]
  <2>1. n \in Names
    BY <1>2, KnownIs
  <2> DEFINE Holders == {q \in Sources : n \in DOMAIN known(q)}
  <2>2. IsFiniteSet(Holders) /\ f \in Holders /\ g \in Holders
    BY FS_Subset
  <2>3. Cardinality(Holders) > 1
    BY <2>2, <1>8, AtMostOne
  <2>4. n \in Const!Mirrored
    <3>1. Const!Mirrored = {x \in Names : Cardinality({q \in Sources : x \in DOMAIN known(q)}) > 1}
      BY OneCount, Zenon DEF Const!Mirrored, known
    <3> QED
      BY <2>1, <2>3, <3>1
  <2> DEFINE value == [q \in Holders |-> known(q)[n]]
             Values == {value[q] : q \in Holders}
  <2>5. IsFiniteSet(Values)
    BY <2>2, FiniteImage
  <2>6. known(f)[n] \in Values /\ known(g)[n] \in Values
    BY <2>2
  <2>7. Const!ValuesOf(n) = Values
    BY DEF Const!ValuesOf, known
  <2>8. ~(Cardinality(Const!ValuesOf(n)) > 1)
    <3>1. Const!Conflicts = {x \in Const!Mirrored : Cardinality(Const!ValuesOf(x)) > 1}
      BY OneCount, Zenon DEF Const!Conflicts
    <3> QED
      BY <3>1, <1>7, <2>4
  <2> QED
    BY <2>5, <2>6, <2>7, <2>8, AtMostOne
<1>9. ASSUME NEW f \in Sources, NEW n, Const!InReach(f, n)
      PROVE  n \in DOMAIN known(f) /\ known(f)[n] = Const!Assembled(equs[f])[n]
  BY <1>1, <1>9, ReachAgrees DEF known
<1>10. ASSUME NEW f \in Sources, NEW g \in Sources, NEW n, Const!InReach(f, n), Const!InReach(g, n)
       PROVE  Const!Assembled(equs[f])[n] = Const!Assembled(equs[g])[n]
  <2>1. CASE f = g
    BY <2>1
  <2>2. CASE f # g
    BY <1>8, <1>9, <1>10, <2>2
  <2> QED
    BY <2>1, <2>2
<1>11. ASSUME NEW s \in Const!Required, NEW t \in Const!Required
       PROVE  Const!mmp(shown[s]) = Const!mmp(shown[t])
  <2> DEFINE three == [x \in Const!Found |-> Const!mmp(shown[x])]
             Seen  == {three[x] : x \in Const!Found}
  <2>1. CASE rcs = {}
    <3>1. Const!Required = {Const!About}
      BY <2>1 DEF Const!Required
    <3> QED
      BY <3>1
  <2>2. CASE rcs # {}
    <3>1. Const!Required \subseteq Const!Found /\ ~(Cardinality(Seen) > 1)
      <4>1. Seen = {Const!mmp(shown[x]) : x \in Const!Found}
        OBVIOUS
      <4>2. /\ Const!Required \subseteq Const!Found
            /\ ~(Cardinality({Const!mmp(shown[x]) : x \in Const!Found}) > 1)
        BY <1>6, <2>2, OneCount DEF Const!VersionFault
      <4> QED
        BY <4>1, <4>2, Zenon
    <3>2. IsFiniteSet(Const!Sites)
      <4> DEFINE a == Const!About
                 b == <<"myrkr.rc", "FileVersion">>
                 c == Const!Fixed("myrkr.rc")
                 e == Const!Fixed("myrkrshell.rc")
      <4>1. Const!Sites = (({a} \cup {b}) \cup {c}) \cup {e}
        BY DEF Const!Sites, Const!Scripts
      <4> HIDE DEF a, b, c, e
      <4>2. IsFiniteSet({a} \cup {b})
        BY FS_Singleton, FS_AddElement
      <4>3. IsFiniteSet(({a} \cup {b}) \cup {c})
        BY <4>2, FS_AddElement
      <4> QED
        BY <4>1, <4>3, FS_AddElement
    <3>3. IsFiniteSet(Const!Found)
      <4>1. Const!Found \subseteq Const!Sites
        BY <1>1 DEF Const!TypeOK, Const!Found
      <4> QED
        BY <3>2, <4>1, FS_Subset
    <3>4. IsFiniteSet(Seen)
      BY <3>3, FiniteImage
    <3>5. Const!mmp(shown[s]) \in Seen /\ Const!mmp(shown[t]) \in Seen
      BY <3>1
    <3> QED
      BY <3>1, <3>4, <3>5, AtMostOne
  <2> QED
    BY <2>1, <2>2
<1> QED
  BY <1>10, <1>11, Zenon DEF Const!MirrorsAgree

(* In a tree of any size that constcheck passes, read any number of times, a   *)
(* constant within the reach of these readings in two sources has one value in *)
(* both objects; and the versions of the scripts there are and of the screen   *)
(* agree in their first three fields.                                          *)
THEOREM MirrorsHold == BuildSpec => []MirrorsAgree
<1>1. ConstInv => MirrorsAgree
  <2>1. Literals \subseteq Nat /\ Readings \in Nat /\ IsFiniteSet(Sources) /\ IsFiniteSet(Names)
    BY SourcesAssumption, Zenon DEF SourcesAssumption
  <2> QED
    BY <2>1, MirrorsFollow, Zenon DEF MirrorsAgree
<1> QED
  BY <1>1, ConstHolds, PTL

-----------------------------------------------------------------------------
(* What each checker counts is a number, and none of it is left when a strict  *)
(* build goes on.                                                              *)

GatesInv == IInv /\ NvInv /\ WstrInv /\ AlignInv /\ DeadInv /\ CallInv /\ ConstInv

LEMMA FindingsTypes ==
    ASSUME GatesInv
    PROVE  /\ ExitCode(TRUE) \in Nat /\ (ExitCode(TRUE) = 0 => results = {})
           /\ Nv!Findings \in Nat /\ Wstr!Findings \in Nat /\ Align!Findings \in Nat
           /\ Const!Findings \in Nat /\ DeadC!Findings \in Nat
<1>1. ExitCode(TRUE) \in Nat /\ (ExitCode(TRUE) = 0 => results = {})
  <2>1. results \in SUBSET {"warn", "FATAL"}
    BY DEF GatesInv, IInv, TypeOK
  <2>2. {"warn", "FATAL"} = {"warn"} \cup {"FATAL"}
    OBVIOUS
  <2>3. IsFiniteSet({"warn"} \cup {"FATAL"})
    BY FS_Singleton, FS_AddElement
  <2>4. IsFiniteSet(results)
    BY <2>1, <2>2, <2>3, FS_Subset
  <2>5. Cardinality(results) \in Nat /\ (Cardinality(results) = 0 => results = {})
    BY <2>4, FS_CardinalityType, FS_EmptySet
  <2> QED
    BY <2>5 DEF ExitCode
<1>2. Nv!Findings \in Nat
  BY DEF Nv!Findings
<1>3. Wstr!Findings \in Nat
  <2>1. copies \in 0..MaxCalls /\ noBound \in 0..copies
    BY Zenon DEF GatesInv, WstrInv, Wstr!TypeOK
  <2> QED
    BY <2>1 DEF Wstr!Findings
<1>4. Align!Findings \in Nat
  BY DEF GatesInv, AlignInv, Align!TypeOK, Align!Findings
<1>5. Const!Findings \in Nat
  <2>1. Const!Conflicts \in SUBSET Names
    BY DEF Const!Conflicts, Const!Mirrored
  <2>2. IsFiniteSet(Const!Conflicts)
    BY <2>1, SourcesAssumption, FS_Subset, Zenon DEF SourcesAssumption
  <2>3. Const!Cardinality(Const!Conflicts) \in Nat
    BY <2>2, FS_CardinalityType, OneCount
  <2>4. Const!VersionFault \in Nat
    BY DEF Const!VersionFault
  <2> QED
    BY <2>3, <2>4 DEF Const!Findings
<1>6. DeadC!Findings \in Nat
  <2>1. DeadC!Gated \in SUBSET Symbols
    BY DeadParts DEF GatesInv, DeadC!Gated, DeadC!Dead
  <2>2. IsFiniteSet(DeadC!Gated)
    BY <2>1, SourcesAssumption, FS_Subset, Zenon DEF SourcesAssumption
  <2> QED
    BY <2>2, FS_CardinalityType, OneCount DEF DeadC!Findings
<1> QED
  BY <1>1, <1>2, <1>3, <1>4, <1>5, <1>6

\* what the author has lost of a checker's reach, if anything
Lost(t) == \E m \in DOMAIN Counted[t], w \in {"halved", "not reported"} : quiet = <<t, m, w>>
QuietInv == quiet \in {AllReach, Unparsed} \/ \E t \in Tools : Lost(t)

\* What a strict build with Python says when it does not stop at the checkers.
Clean ==
    /\ results = {} /\ Nv!Findings = 0 /\ Wstr!Findings = 0 /\ Align!Findings = 0
    /\ Const!Findings = 0 /\ DeadC!Findings = 0
    /\ quiet = Unparsed \/ (quiet = AllReach /\ Calls!Findings = 0)
    /\ flags.pillow => icon # NoFrame /\ bmp = BuildBmp(icon)

LEMMA PassedIsClean ==
    ASSUME GatesInv, QuietInv, flags.strict, ~Fails(Codes)
    PROVE  Clean
<1> DEFINE B(t) == Breached(t, Metrics(t))
<1>b. \A t \in Tools : B(t) \in Nat
  BY BreachType
<1>1. /\ ~(Codes.framecheck > 0) /\ ~(Codes.constcheck > 0) /\ ~(Codes.deadcode > 0)
      /\ ~(Codes.wstrcheck > 0) /\ ~(Codes.aligncheck > 0) /\ ~(Codes.nvcheck > 0)
      /\ ~(Codes.make_menu_bmp > 0) /\ ~(Codes.wincallcheck > 0)
  <2>1. \A tool \in DOMAIN Codes : ~(Codes[tool] > 0)
    BY Zenon DEF Fails
  <2>2. {"framecheck", "constcheck", "deadcode", "wstrcheck", "aligncheck", "nvcheck",
         "make_menu_bmp", "wincallcheck"} \subseteq DOMAIN Codes
    BY DEF Codes
  <2> QED
    BY <2>1, <2>2
<1>2. /\ Codes.framecheck = ExitCode(TRUE) + B("framecheck")
      /\ Codes.constcheck = Const!Findings + B("constcheck")
      /\ Codes.deadcode = DeadC!Findings + B("deadcode")
      /\ Codes.wstrcheck = Wstr!Findings + B("wstrcheck")
      /\ Codes.aligncheck = Align!Findings + B("aligncheck")
      /\ Codes.nvcheck = Nv!Findings + B("nvcheck")
      /\ Codes.make_menu_bmp = CheckCode(flags.pillow, icon, bmp)
      /\ Codes.wincallcheck = IF quiet # Unparsed /\ Calls!Findings > 0 THEN 1
                              ELSE IF B("wincallcheck") > 0 THEN 1 ELSE 0
  <2>1. FrameCode = ExitCode(TRUE) + B("framecheck")
    BY Zenon DEF FrameCode, ExitCode
  <2> QED
    BY <2>1 DEF Codes, CallCode, Cli
<1>3. /\ B("framecheck") \in Nat /\ B("constcheck") \in Nat /\ B("deadcode") \in Nat
      /\ B("wstrcheck") \in Nat /\ B("aligncheck") \in Nat /\ B("nvcheck") \in Nat
      /\ B("wincallcheck") \in Nat
  BY <1>b DEF Tools
<1> HIDE DEF B
<1>4. /\ ExitCode(TRUE) = 0 /\ B("framecheck") = 0 /\ Const!Findings = 0 /\ B("constcheck") = 0
      /\ DeadC!Findings = 0 /\ B("deadcode") = 0 /\ Wstr!Findings = 0 /\ B("wstrcheck") = 0
      /\ Align!Findings = 0 /\ B("aligncheck") = 0 /\ Nv!Findings = 0 /\ B("nvcheck") = 0
      /\ B("wincallcheck") = 0 /\ (quiet = Unparsed \/ Calls!Findings = 0)
  <2>1. ASSUME NEW a \in Nat, NEW b \in Nat, NEW c, c = a + b, ~(c > 0)
        PROVE  a = 0 /\ b = 0
    BY <2>1
  <2>2. ExitCode(TRUE) = 0 /\ B("framecheck") = 0
    BY <1>1, <1>2, <1>3, <2>1, FindingsTypes, Zenon
  <2>3. Const!Findings = 0 /\ B("constcheck") = 0
    BY <1>1, <1>2, <1>3, <2>1, FindingsTypes, Zenon
  <2>4. DeadC!Findings = 0 /\ B("deadcode") = 0
    BY <1>1, <1>2, <1>3, <2>1, FindingsTypes, Zenon
  <2>5. Wstr!Findings = 0 /\ B("wstrcheck") = 0
    BY <1>1, <1>2, <1>3, <2>1, FindingsTypes, Zenon
  <2>6. Align!Findings = 0 /\ B("aligncheck") = 0
    BY <1>1, <1>2, <1>3, <2>1, FindingsTypes, Zenon
  <2>7. Nv!Findings = 0 /\ B("nvcheck") = 0
    BY <1>1, <1>2, <1>3, <2>1, FindingsTypes, Zenon
  <2>8. B("wincallcheck") = 0 /\ (quiet = Unparsed \/ Calls!Findings = 0)
    <3>1. PICK n \in Nat : n = B("wincallcheck")
      BY <1>3, Zenon
    <3>2. ~(n > 0) /\ (quiet = Unparsed \/ ~(Calls!Findings > 0))
      BY <1>1, <1>2, <3>1
    <3>3. Calls!Findings \in {0, 1}
      BY DEF Calls!Findings
    <3> QED
      BY <3>1, <3>2, <3>3
  <2> QED
    BY <2>2, <2>3, <2>4, <2>5, <2>6, <2>7, <2>8, Zenon
<1>5. \A t \in Tools : ~(B(t) > 0)
  BY <1>4 DEF Tools
<1>6. quiet \in {AllReach, Unparsed}
  BY <1>5, LossIsSeen DEF QuietInv, Lost, B
<1>7. flags.pillow => icon # NoFrame /\ bmp = BuildBmp(icon)
  BY <1>1, <1>2 DEF CheckCode
<1> QED
  BY <1>4, <1>6, <1>7, FindingsTypes DEF Clean


-----------------------------------------------------------------------------
(* The script: what is known of the sources and the images at each step.       *)

Phases == {"idle", "gates", "assemble", "resources", "exe", "dll", "normalise", "publish", "ok", "failed"}
Passed == {"assemble", "resources", "exe", "dll", "normalise", "publish", "ok"}

TypesInv == /\ flags \in BuildFlags /\ builds \in 0..MaxBuilds /\ phase \in Phases
            /\ icon \in Icons /\ QuietInv
            /\ bin = [exe |-> bin.exe, dll |-> bin.dll]

CleanInv == phase \in Passed /\ flags.strict /\ flags.python => Clean

ImageOK(i) == IsImage(i) /\ (Marked(i) \/ flags.nohw)
ImagesInv ==
  /\ phase \in {"exe", "dll", "normalise", "publish", "ok"} => resource = bmp
  /\ phase \in {"dll", "normalise", "publish", "ok"} => ImageOK(bin.exe)
  /\ phase \in {"normalise", "publish", "ok"} => ImageOK(bin.dll) /\ bin.dll.picture = bmp

LinkedExe == \E f \in LinkFaults : bin.exe = Image([rva |-> "absent", stamp |-> 0], <<>>, f)
LinkedDll == \E f \in LinkFaults :
                bin.dll = Image([rva |-> "mapped", stamp |-> machine.time], bmp, f)
Released(commit, file) == Shipped(commit[1], commit[2], commit[3])[file]
ReleaseInv ==
  /\ phase \in {"dll", "normalise"} => LinkedExe
  /\ phase = "normalise" => LinkedDll
  /\ phase \in {"normalise", "publish"} => flags.release
  /\ phase = "publish" => bin = Shipped(flags.nohw, flags.test, bmp)
  /\ \A p \in published : p.anew => \A line \in p.sums : line[2] = Released(p.commit, line[1])

ScriptInv == TypesInv /\ CleanInv /\ ImagesInv /\ ReleaseInv

LEMMA ScriptInit == ASSUME BuildInit
                    PROVE  ScriptInv
<1>1. /\ phase = "idle" /\ builds = 0 /\ published = {}
      /\ flags = [strict |-> FALSE, release |-> FALSE, nohw |-> FALSE, test |-> {},
                  python |-> FALSE, pillow |-> FALSE]
      /\ bin = [exe |-> NoImage, dll |-> NoImage]
      /\ quiet \in Losses \cup {AllReach, Unparsed}
  <2>1. quiet \in CASE topic = "reach" -> Losses
                   [] topic = "calls" -> {AllReach, Unparsed}
                   [] OTHER           -> {AllReach}
    BY Zenon DEF BuildInit
  <2>2. quiet \in Losses \cup {AllReach, Unparsed}
    BY <2>1
  <2> QED
    BY <2>2, Zenon DEF BuildInit
<1>2. icon \in Icons
  BY BuildAssumption, Zenon DEF BuildInit, BuildAssumption
<1>3. MaxBuilds \in Nat
  BY BuildAssumption, Zenon DEF BuildAssumption
<1>4. flags \in BuildFlags /\ builds \in 0..MaxBuilds
  BY <1>1, <1>3 DEF BuildFlags
<1>5. bin = [exe |-> bin.exe, dll |-> bin.dll]
  BY <1>1
<1>6. QuietInv
  <2>1. CASE quiet \in {AllReach, Unparsed}
    BY <2>1 DEF QuietInv
  <2>2. CASE quiet \in Losses
    <3>1. PICK t \in DOMAIN Counted : quiet \in {t} \X (DOMAIN Counted[t]) \X {"halved", "not reported"}
      BY <2>2 DEF Losses
    <3> DEFINE T == {t}
               M == DOMAIN Counted[t]
               W == {"halved", "not reported"}
    <3>4. quiet \in T \X M \X W
      BY <3>1
    <3> HIDE DEF T, M, W
    <3>2. PICK a \in T, m \in M, w \in W : quiet = <<a, m, w>>
      BY <3>4
    <3>5. a = t /\ m \in DOMAIN Counted[t] /\ w \in {"halved", "not reported"}
      BY Zenon DEF T, M, W
    <3>3. t \in Tools
      BY FloorsForm
    <3> QED
      BY <3>2, <3>3, <3>5, Zenon DEF QuietInv, Lost
  <2> QED
    BY <1>1, <2>1, <2>2
<1>7. TypesInv
  BY <1>1, <1>2, <1>3, <1>4, <1>5, <1>6 DEF TypesInv, Phases
<1> QED
  BY <1>1, <1>7 DEF ScriptInv, CleanInv, Passed, ImagesInv, ReleaseInv

\* While the sources and the arguments stand, so does what the checkers said, and
\* what a link would make of them.
LEMMA CleanStays == ASSUME UNCHANGED sources, flags' = flags
                    PROVE  Clean' <=> Clean
<1>1. UNCHANGED <<results, icon, bmp, quiet, written, saved, restored, noBound, strings, bss, suspect>>
  BY Zenon DEF sources, vars, nvVars, wstrVars, alignVars, callVars, menuVars
<1>2. UNCHANGED <<equs, shown, rcs, matched, defs, uses>>
  BY Zenon DEF sources, constVars, deadVars
<1>3. /\ Nv!Findings' = Nv!Findings /\ Wstr!Findings' = Wstr!Findings
      /\ Align!Findings' = Align!Findings /\ Calls!Findings' = Calls!Findings
  BY <1>1 DEF Nv!Findings, Wstr!Findings, Align!Findings, Calls!Findings
<1>4. Const!Findings' = Const!Findings
  BY <1>2 DEF Const!Findings, Const!Conflicts, Const!Mirrored, Const!ValuesOf, Const!VersionFault,
              Const!Required, Const!Found
<1>5. DeadC!Findings' = DeadC!Findings
  BY <1>2 DEF DeadC!Findings, DeadC!Gated, DeadC!Dead, DeadC!Refs
<1> QED
  BY <1>1, <1>3, <1>4, <1>5 DEF Clean

LEMMA ImageStays == ASSUME UNCHANGED <<flags, machine>>, NEW x, NEW p, NEW f
                    PROVE  Image(x, p, f)' = Image(x, p, f)
  BY DEF Image, DebugDirectory, Entry, PdbPath

\* A step of the script that leaves the sources, the arguments and the images alone.
LEMMA StepOn ==
    ASSUME ScriptInv, UNCHANGED <<sources, flags, machine, builds, bin, published>>,
           phase' \in Phases,
           phase' \in Passed /\ flags.strict /\ flags.python => Clean,
           phase' \in {"exe", "dll", "normalise", "publish", "ok"} => resource' = bmp,
           phase' \in {"dll", "normalise"} => phase' = phase,
           phase' = "publish" => phase' = phase,
           phase' = "ok" => phase = "ok"
    PROVE  ScriptInv'
<1>1. /\ flags' = flags /\ machine' = machine /\ builds' = builds /\ bin' = bin
      /\ published' = published /\ icon' = icon /\ bmp' = bmp /\ quiet' = quiet
  BY Zenon DEF sources, menuVars
<1>2. TypesInv'
  BY <1>1 DEF ScriptInv, TypesInv, QuietInv, Lost
<1>3. CleanInv'
  BY <1>1, CleanStays DEF CleanInv
<1>4. \A i : ImageOK(i)' <=> ImageOK(i)
  BY <1>1 DEF ImageOK, IsImage, Marked
<1>5. ImagesInv'
  BY <1>1, <1>4 DEF ScriptInv, ImagesInv, ImageOK, IsImage, Marked
<1>6. (LinkedExe' <=> LinkedExe) /\ (LinkedDll' <=> LinkedDll)
  BY <1>1 DEF LinkedExe, LinkedDll, Image, DebugDirectory, Entry, PdbPath
<1>7. ReleaseInv'
  BY <1>1, <1>6 DEF ScriptInv, ReleaseInv
<1> QED
  BY <1>2, <1>3, <1>5, <1>7 DEF ScriptInv


LEMMA ScriptKeeps == ASSUME GatesInv, ScriptInv, [BuildNext]_buildVars
                     PROVE  ScriptInv'
<1>t. TypesInv /\ CleanInv /\ ImagesInv /\ ReleaseInv
  BY DEF ScriptInv
<1>1. CASE Write
  <2>1. /\ phase = "idle" /\ phase' = phase /\ flags' = flags /\ builds' = builds /\ quiet' = quiet
        /\ bin' = bin /\ published' = published
    BY <1>1, Zenon DEF Write, outputs
  <2>2. icon' \in Icons
    <3>1. icon' = icon \/ Menu
      BY <1>1, Zenon DEF Write, menuVars
    <3>2. Menu => icon' \in Icons
      BY <1>t, Zenon DEF Menu, DrawIcon, DeleteBitmap, MakeBitmap, TypesInv
    <3> QED
      BY <1>t, <3>1, <3>2, Zenon DEF TypesInv
  <2>3. TypesInv'
    BY <1>t, <2>1, <2>2 DEF TypesInv, QuietInv, Lost
  <2>4. CleanInv' /\ ImagesInv'
    BY <2>1 DEF CleanInv, Passed, ImagesInv
  <2>5. ReleaseInv'
    BY <1>t, <2>1 DEF ReleaseInv
  <2> QED
    BY <2>3, <2>4, <2>5 DEF ScriptInv
<1>2. CASE Start
  <2>1. /\ phase' = IF flags'.python THEN "gates" ELSE "assemble"
        /\ flags' \in ImageBuilds \cup GateBuilds /\ builds < MaxBuilds /\ builds' = builds + 1
        /\ icon' = icon /\ quiet' = quiet /\ bin' = bin /\ published' = published
    BY <1>2, Zenon DEF Start, sources, outputs, menuVars
  <2>2. flags' \in BuildFlags /\ builds' \in 0..MaxBuilds
    BY <1>t, <2>1, BuildAssumption DEF BuildAssumption, TypesInv
  <2>3. phase' \in {"gates", "assemble"} /\ (phase' = "assemble" => ~flags'.python)
    BY <2>1, <2>2 DEF BuildFlags
  <2>4. TypesInv'
    BY <1>t, <2>1, <2>2, <2>3 DEF TypesInv, QuietInv, Lost, Phases
  <2>5. CleanInv' /\ ImagesInv'
    BY <2>3 DEF CleanInv, Passed, ImagesInv
  <2>6. ReleaseInv'
    BY <1>t, <2>1, <2>3 DEF ReleaseInv
  <2> QED
    BY <2>4, <2>5, <2>6 DEF ScriptInv
<1>3. CASE Gates
  <2>1. /\ phase = "gates" /\ phase' \in {"failed", "assemble"}
        /\ phase' = "assemble" => ~Fails(Codes)
        /\ UNCHANGED <<sources, flags, machine, builds, bin, published>>
    BY <1>3 DEF Gates, To, outputs
  <2>2. phase' \in Passed /\ flags.strict /\ flags.python => Clean
    BY <1>t, <2>1, PassedIsClean DEF TypesInv, Passed
  <2> QED
    BY <2>1, <2>2, StepOn DEF Phases
<1>4. CASE ToolFails \/ Again
  <2>1. /\ phase' \in {"failed", "idle"}
        /\ UNCHANGED <<sources, flags, machine, builds, bin, published>>
    BY <1>4 DEF ToolFails, Again, To, outputs
  <2> QED
    BY <2>1, StepOn DEF Phases, Passed
<1>5. CASE Assemble
  <2>1. /\ phase = "assemble" /\ phase' = "resources"
        /\ UNCHANGED <<sources, flags, machine, builds, bin, published>>
    BY <1>5 DEF Assemble, To, outputs
  <2> QED
    BY <1>t, <2>1, StepOn DEF Phases, Passed, CleanInv
<1>6. CASE Resources
  <2>1. /\ phase = "resources" /\ phase' \in {"failed", "exe"} /\ resource' = bmp
        /\ UNCHANGED <<sources, flags, machine, builds, bin, published>>
    BY <1>6 DEF Resources, To
  <2> QED
    BY <1>t, <2>1, StepOn DEF Phases, Passed, CleanInv
<1>7. ASSUME NEW fault \in LinkFaults, LinkExe(fault)
      PROVE  ScriptInv'
  <2> DEFINE x == [rva |-> "absent", stamp |-> 0]
             im == Image(x, <<>>, fault)
  <2>1. /\ phase = "exe" /\ phase' = "dll" /\ bin' = [bin EXCEPT !.exe = im]
        /\ resource' = resource /\ published' = published
        /\ UNCHANGED <<sources, flags, machine, builds>>
    BY <1>7 DEF LinkExe, To
  <2>2. /\ flags' = flags /\ machine' = machine /\ builds' = builds
        /\ icon' = icon /\ bmp' = bmp /\ quiet' = quiet
    BY <2>1, Zenon DEF sources, menuVars
  <2>3. IsImage(im) /\ (Marked(im) \/ flags.nohw)
    BY LinkedForm
  <2>4. im' = im
    BY <2>2, ImageStays
  <2> HIDE DEF im
  <2>5. bin' = [exe |-> im, dll |-> bin.dll] /\ bin'.exe = im
    BY <1>t, <2>1 DEF TypesInv
  <2>6. TypesInv'
    BY <1>t, <2>1, <2>2, <2>5 DEF TypesInv, QuietInv, Lost, Phases
  <2>7. CleanInv'
    BY <1>t, <2>1, <2>2, CleanStays DEF CleanInv, Passed
  <2>8. ImagesInv'
    BY <1>t, <2>1, <2>2, <2>3, <2>5 DEF ImagesInv, ImageOK, IsImage, Marked
  <2>9. ReleaseInv'
    <3>1. LinkedExe'
      BY <2>4, <2>5 DEF LinkedExe, im
    <3> QED
      BY <1>t, <2>1, <3>1 DEF ReleaseInv
  <2> QED
    BY <2>6, <2>7, <2>8, <2>9 DEF ScriptInv
<1>8. ASSUME NEW fault \in LinkFaults, LinkDll(fault)
      PROVE  ScriptInv'
  <2> DEFINE x == [rva |-> "mapped", stamp |-> machine.time]
             im == Image(x, bmp, fault)
  <2>1. /\ phase = "dll" /\ phase' = IF flags.release THEN "normalise" ELSE "ok"
        /\ resource = bmp /\ resource' = resource /\ published' = published
        /\ bin' = [bin EXCEPT !.dll = im]
        /\ UNCHANGED <<sources, flags, machine, builds>>
    BY <1>8, <1>t DEF LinkDll, To, ImagesInv
  <2>2. /\ flags' = flags /\ machine' = machine /\ builds' = builds
        /\ icon' = icon /\ bmp' = bmp /\ quiet' = quiet
    BY <2>1, Zenon DEF sources, menuVars
  <2>3. IsImage(im) /\ (Marked(im) \/ flags.nohw) /\ im.picture = bmp
    BY LinkedForm
  <2>4. im' = im
    BY <2>2 DEF Image, DebugDirectory, Entry, PdbPath
  <2> HIDE DEF im
  <2>5. bin' = [exe |-> bin.exe, dll |-> im] /\ bin'.exe = bin.exe /\ bin'.dll = im
    BY <1>t, <2>1 DEF TypesInv
  <2>f. flags \in BuildFlags
    BY <1>t DEF TypesInv
  <2>p. phase' \in {"normalise", "ok"} /\ (phase' = "normalise" <=> flags.release)
    BY <2>1, <2>f DEF BuildFlags
  <2>6. TypesInv'
    BY <1>t, <2>2, <2>5, <2>p DEF TypesInv, QuietInv, Lost, Phases
  <2>7. CleanInv'
    BY <1>t, <2>1, <2>2, <2>p, CleanStays DEF CleanInv, Passed
  <2>8. ImagesInv'
    BY <1>t, <2>1, <2>2, <2>3, <2>5 DEF ImagesInv, ImageOK, IsImage, Marked
  <2>9. ReleaseInv'
    <3>1. LinkedExe => LinkedExe'
      BY <2>2, <2>5 DEF LinkedExe, Image, DebugDirectory, Entry, PdbPath
    <3>2. LinkedDll'
      BY <2>2, <2>4, <2>5 DEF LinkedDll, im
    <3>3. LinkedExe
      BY <1>t, <2>1 DEF ReleaseInv
    <3> QED
      BY <1>t, <2>1, <2>2, <2>p, <3>1, <3>2, <3>3 DEF ReleaseInv
  <2> QED
    BY <2>6, <2>7, <2>8, <2>9 DEF ScriptInv
<1>9. CASE Normalise
  <2>1. /\ phase = "normalise" /\ published' = published /\ resource' = resource
        /\ UNCHANGED <<sources, flags, machine, builds>>
        /\ phase' \in {"failed", "publish"}
        /\ phase' = "publish" => MainCode(Images) = 0
        /\ \/ bin' = [exe |-> Normalised(bin.exe), dll |-> Normalised(bin.dll)]
           \/ bin' = bin /\ phase' = "failed"
    BY <1>9 DEF Normalise, To
  <2>2. /\ flags' = flags /\ machine' = machine /\ builds' = builds
        /\ icon' = icon /\ bmp' = bmp /\ quiet' = quiet
    BY <2>1, Zenon DEF sources, menuVars
  <2>3. bin' = [exe |-> bin'.exe, dll |-> bin'.dll]
    BY <1>t, <2>1 DEF TypesInv
  <2>4. TypesInv'
    BY <1>t, <2>1, <2>2, <2>3 DEF TypesInv, QuietInv, Lost, Phases
  <2>5. CleanInv'
    BY <1>t, <2>1, <2>2, CleanStays DEF CleanInv, Passed
  <2>6. CASE phase' = "failed"
    <3>1. ImagesInv' /\ ReleaseInv'
      BY <1>t, <2>1, <2>6 DEF ImagesInv, ReleaseInv
    <3> QED
      BY <2>4, <2>5, <3>1 DEF ScriptInv
  <2>7. CASE phase' = "publish"
    <3>1. /\ bin'.exe = Normalised(bin.exe) /\ bin'.dll = Normalised(bin.dll)
          /\ bin' = [exe |-> Normalised(bin.exe), dll |-> Normalised(bin.dll)]
      BY <2>1, <2>7
    <3>2. ~Raises(bin.exe) /\ ~Raises(bin.dll)
      BY <2>1, <2>7 DEF MainCode, Images
    <3>3. /\ ImageOK(bin.exe) /\ ImageOK(bin.dll) /\ bin.dll.picture = bmp /\ resource = bmp
          /\ LinkedExe /\ LinkedDll /\ flags.release /\ flags \in BuildFlags
      BY <1>t, <2>1 DEF ImagesInv, ReleaseInv, TypesInv
    <3>4. ImagesInv'
      <4>1. PICK e, d : e = Normalised(bin.exe) /\ d = Normalised(bin.dll)
        OBVIOUS
      <4>2. ImageOK(e) /\ ImageOK(d) /\ d.picture = bmp
        BY <3>3, <4>1, NormalisedForm DEF ImageOK
      <4> QED
        BY <2>1, <2>2, <2>7, <3>1, <3>3, <4>1, <4>2 DEF ImagesInv, ImageOK, IsImage, Marked
    <3>5. bin' = Shipped(flags.nohw, flags.test, bmp)
      <4>1. Normalised(bin.exe) = ShippedImage(flags.nohw, flags.test, "absent", <<>>)
        <5>1. PICK f \in LinkFaults : bin.exe = Image([rva |-> "absent", stamp |-> 0], <<>>, f)
          BY <3>3 DEF LinkedExe
        <5>2. f \in Faults
          BY BuildAssumption DEF BuildAssumption
        <5> QED
          BY <3>2, <3>3, <5>1, <5>2, ReleasedForm
      <4>2. Normalised(bin.dll) = ShippedImage(flags.nohw, flags.test, "mapped", bmp)
        <5>1. PICK f \in LinkFaults :
                 bin.dll = Image([rva |-> "mapped", stamp |-> machine.time], bmp, f)
          BY <3>3 DEF LinkedDll
        <5>2. f \in Faults
          BY BuildAssumption DEF BuildAssumption
        <5> QED
          BY <3>2, <3>3, <5>1, <5>2, ReleasedForm
      <4> QED
        BY <3>1, <4>1, <4>2, Zenon DEF Shipped
    <3>6. ReleaseInv'
      BY <1>t, <2>1, <2>2, <2>7, <3>3, <3>5 DEF ReleaseInv
    <3> QED
      BY <2>4, <2>5, <3>4, <3>6 DEF ScriptInv
  <2> QED
    BY <2>1, <2>6, <2>7
<1>10. CASE Publish
  <2> DEFINE commit == <<flags.nohw, flags.test, bmp>>
             Fresh(h) == {<<x, bin[x]>> : x \in h}
  <2>1. PICK anew \in BOOLEAN, hashed \in SUBSET {"exe", "dll"} :
           /\ sums' = {line \in sums : ~anew} \cup Fresh(hashed)
           /\ published' = published \cup {[commit |-> commit, anew |-> anew, sums |-> sums']}
    BY <1>10 DEF Publish, Commit
  <2>2. /\ phase = "publish" /\ phase' = "ok" /\ bin' = bin /\ resource' = resource
        /\ UNCHANGED <<sources, flags, machine, builds>>
    BY <1>10 DEF Publish, To
  <2>3. /\ flags' = flags /\ machine' = machine /\ builds' = builds
        /\ icon' = icon /\ bmp' = bmp /\ quiet' = quiet
    BY <2>2, Zenon DEF sources, menuVars
  <2>4. bin = Shipped(flags.nohw, flags.test, bmp)
    BY <1>t, <2>2 DEF ReleaseInv
  <2>5. TypesInv'
    <3>1. QuietInv'
      BY <1>t, <2>3, Zenon DEF TypesInv, QuietInv, Lost
    <3>2. phase' \in Phases
      BY <2>2 DEF Phases
    <3> QED
      BY <1>t, <2>2, <2>3, <3>1, <3>2, Zenon DEF TypesInv
  <2>6. CleanInv'
    BY <1>t, <2>2, <2>3, CleanStays DEF CleanInv, Passed
  <2>7. ImagesInv'
    BY <1>t, <2>2, <2>3 DEF ImagesInv, ImageOK, IsImage, Marked
  <2>8. ASSUME NEW p \in published', p.anew, NEW line \in p.sums
        PROVE  line[2] = Released(p.commit, line[1])
    <3>1. CASE p \in published
      BY <1>t, <2>8, <3>1 DEF ReleaseInv
    <3>2. CASE p = [commit |-> commit, anew |-> anew, sums |-> sums']
      <4>1. p.commit = commit /\ p.anew = anew /\ p.sums = sums'
        BY <3>2
      <4>2. PICK x \in hashed : line = <<x, bin[x]>>
        BY <2>1, <2>8, <4>1
      <4>3. line[1] = x /\ line[2] = bin[x]
        BY <4>2
      <4>4. Released(commit, x) = Shipped(flags.nohw, flags.test, bmp)[x]
        BY DEF Released
      <4> QED
        BY <2>4, <4>1, <4>3, <4>4, Zenon
    <3> QED
      BY <2>1, <3>1, <3>2
  <2>9. ReleaseInv'
    BY <2>2, <2>8 DEF ReleaseInv
  <2> QED
    BY <2>5, <2>6, <2>7, <2>9 DEF ScriptInv
<1>11. CASE Recheck
  <2>1. /\ phase \in {"ok", "failed"} /\ phase' = phase /\ sums' = sums /\ resource' = resource
        /\ bin' = [exe |-> Normalised(bin.exe), dll |-> Normalised(bin.dll)]
        /\ published' = published
        /\ UNCHANGED <<sources, flags, machine, builds>>
    BY <1>11 DEF Recheck
  <2>2. /\ flags' = flags /\ machine' = machine /\ builds' = builds
        /\ icon' = icon /\ bmp' = bmp /\ quiet' = quiet
    BY <2>1, Zenon DEF sources, menuVars
  <2>3. PICK e, d : e = Normalised(bin.exe) /\ d = Normalised(bin.dll)
    OBVIOUS
  <2>4. bin' = [exe |-> e, dll |-> d] /\ bin'.exe = e /\ bin'.dll = d
    BY <2>1, <2>3
  <2>5. TypesInv'
    BY <1>t, <2>1, <2>2, <2>4 DEF TypesInv, QuietInv, Lost, Phases
  <2>6. CleanInv'
    BY <1>t, <2>1, <2>2, CleanStays DEF CleanInv, Passed
  <2>7. phase = "ok" => ImageOK(e) /\ ImageOK(d) /\ d.picture = bmp
    BY <1>t, <2>3, NormalisedForm DEF ImagesInv, ImageOK
  <2>8. ImagesInv'
    BY <1>t, <2>1, <2>2, <2>4, <2>7 DEF ImagesInv, ImageOK, IsImage, Marked
  <2>9. ReleaseInv'
    BY <1>t, <2>1 DEF ReleaseInv
  <2> QED
    BY <2>5, <2>6, <2>8, <2>9 DEF ScriptInv
<1>12. CASE UNCHANGED buildVars
  <2>1. /\ phase' = phase /\ resource' = resource
        /\ UNCHANGED <<sources, flags, machine, builds, bin, published>>
    BY <1>12, Zenon DEF buildVars, outputs
  <2>2. bmp' = bmp
    BY <2>1, Zenon DEF sources, menuVars
  <2>3. /\ phase' \in Phases
        /\ phase' \in Passed /\ flags.strict /\ flags.python => Clean
        /\ phase' \in {"exe", "dll", "normalise", "publish", "ok"} => resource' = bmp
    BY <1>t, <2>1 DEF TypesInv, CleanInv, ImagesInv
  <2> QED
    BY <2>1, <2>3, StepOn
<1> QED
  BY <1>1, <1>2, <1>3, <1>4, <1>5, <1>6, <1>7, <1>8, <1>9, <1>10, <1>11, <1>12 DEF BuildNext


LEMMA BuildHolds == BuildSpec => [](GatesInv /\ ScriptInv)
<1> DEFINE Inv == GatesInv /\ ScriptInv
<1>1. IInv /\ NvInv /\ WstrInv /\ AlignInv /\ DeadInv /\ CallInv /\ ConstInv => GatesInv
  BY DEF GatesInv
<1>2. BuildSpec => []GatesInv
  BY <1>1, FramesInBuild, NvHolds, WstrHolds, AlignHolds, DeadHolds, CallHolds, ConstHolds, PTL
<1>3. BuildInit => ScriptInv
  BY ScriptInit
<1>4. GatesInv /\ ScriptInv /\ [BuildNext]_buildVars => ScriptInv'
  BY ScriptKeeps
<1> QED
  BY <1>2, <1>3, <1>4, PTL DEF BuildSpec

(* The types of the sources, of the checkers and of the script.                *)
THEOREM BuildTypes == BuildSpec => []BuildTypeOK
<1>1. GatesInv /\ ScriptInv => BuildTypeOK
  BY Zenon DEF GatesInv, IInv, NvInv, WstrInv, AlignInv, DeadInv, CallInv, ConstInv, ScriptInv, TypesInv, Phases, BuildTypeOK
<1> QED
  BY <1>1, BuildHolds, PTL

(* A strict build that says OK where Python is has passed every checker over   *)
(* the sources it was built from, none of them blind, and where Pillow is its  *)
(* menu shows the icon: whatever was written, linked and rechecked before.     *)
THEOREM StrictBuildsAreClean == BuildSpec => []StrictIsClean
<1>1. ScriptInv => StrictIsClean
  <2> SUFFICES ASSUME ScriptInv, phase = "ok", flags.strict, flags.python
               PROVE  /\ results = {} /\ Nv!Findings = 0 /\ Wstr!Findings = 0 /\ Align!Findings = 0
                      /\ Const!Findings = 0 /\ DeadC!Findings = 0
                      /\ quiet = Unparsed \/ (quiet = AllReach /\ Calls!Findings = 0)
                      /\ flags.pillow => Shows(bin.dll.picture, icon)
    BY Zenon DEF StrictIsClean
  <2>1. Clean
    BY DEF ScriptInv, CleanInv, Passed
  <2>2. bin.dll.picture = bmp
    BY DEF ScriptInv, ImagesInv
  <2>3. flags.pillow => Shows(bin.dll.picture, icon)
    <3> SUFFICES ASSUME flags.pillow PROVE Shows(bmp, icon)
      BY <2>2
    <3>1. icon # NoFrame /\ bmp = BuildBmp(icon) /\ icon \in Icons
      BY <2>1, Zenon DEF Clean, ScriptInv, TypesInv
    <3>2. icon \in [Grid -> [1..4 -> 0..255]] /\ SIZE \in Nat \ {0}
      BY <3>1, BuildAssumption DEF BuildAssumption
    <3> QED
      BY <3>1, <3>2, BitmapShows
  <2> QED
    BY <2>1, <2>3, Zenon DEF Clean
<1> QED
  BY <1>1, BuildHolds, PTL

(* Releases of a commit that begin their list of hashes anew agree on every     *)
(* file both list: what is hashed is a function of the commit, whatever the     *)
(* time, the path, the linker's draw and the number of builds before it.        *)
THEOREM ReleasesReproduce == BuildSpec => []Reproduces
<1>1. ScriptInv => Reproduces
  BY DEF ScriptInv, ReleaseInv, Reproduces
<1> QED
  BY <1>1, BuildHolds, PTL

(* Neither linking nor normalising loses the mark of the shadow stack.          *)
THEOREM ShadowStackIsKept == BuildSpec => []ShadowStackStays
<1>1. ScriptInv => ShadowStackStays
  BY DEF ScriptInv, ImagesInv, ImageOK, ShadowStackStays, Images
<1> QED
  BY <1>1, BuildHolds, PTL

====

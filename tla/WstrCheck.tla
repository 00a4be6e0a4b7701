----------------------------- MODULE WstrCheck -------------------------------
(***************************************************************************)
(* tools/wstrcheck.py: a bounded copy takes its limit in r8.  A step is a  *)
(* line of one procedure; the scanner remembers only how many lines ago r8 *)
(* was set, whoever's line that was; the machine has what r8 holds.        *)
(***************************************************************************)
EXTENDS Naturals

CONSTANTS Back,       \* how many lines a call looks back: 8 in CONTRACTS
          Skips,      \* numbers of lines that do not touch r8, read at once
          MaxCalls    \* bound: bounded copies of the procedure

VARIABLES since,      \* scanner: lines since r8 was set, Back + 1 when too many
          noBound,    \* scanner: calls reported
          copies,     \* scanner: calls counted
          r8,         \* machine: the limit, or something else
          age,        \* machine: lines since r8 came to hold that, up to Back + 1
          overrun     \* machine: that age, at the copies that ran without a limit

vars == <<since, noBound, copies, r8, age, overrun>>

\* The window has no beginning but the file's: the lines in front of the procedure
\* may have set r8, while the procedure is entered with whatever its caller had.
Init == since \in 1..(Back + 1) /\ noBound = 0 /\ copies = 0
        /\ r8 = "other" /\ age = 1 /\ overrun = {}

\* mutant: the count of lines runs on
Further_endless(lines, n) == lines + n

\* n lines on, and past Back lines all the same
Further(lines, n) == IF lines + n > Back THEN Back + 1 ELSE lines + n

\* WBOUND r8, lea/mov r8 with the limit, call slot_addr
SetBound ==
  /\ since' = 1 /\ r8' = "limit" /\ age' = 1
  /\ UNCHANGED <<noBound, copies, overrun>>

\* mov/xor r8 for another use: the scanner's patterns take it for the bound
SetOther ==
  /\ since' = 1 /\ r8' = "other" /\ age' = 1
  /\ UNCHANGED <<noBound, copies, overrun>>

\* another call may leave anything in r8, and a label is reached from elsewhere
Disturb ==
  /\ since' = Further(since, 1) /\ r8' = "other" /\ age' = 1
  /\ UNCHANGED <<noBound, copies, overrun>>

Plain(n) ==
  /\ since' = Further(since, n) /\ age' = Further(age, n)
  /\ UNCHANGED <<noBound, copies, r8, overrun>>

\* mutant: the last of the lines looked back over is missed, and none is reported
Missing_late == since > Back + 1

\* no line of the window sets r8
Missing == since > Back

\* call wcopy, call wapp_lim: neither changes r8
Copy ==
  /\ copies < MaxCalls
  /\ copies' = copies + 1
  /\ noBound' = noBound + (IF Missing THEN 1 ELSE 0)
  /\ overrun' = overrun \cup (IF r8 = "limit" THEN {} ELSE {age})
  /\ since' = Further(since, 1) /\ age' = Further(age, 1)
  /\ UNCHANGED r8

Next == SetBound \/ SetOther \/ Disturb \/ Copy \/ \E n \in Skips : Plain(n)

Spec == Init /\ [][Next]_vars

Findings == noBound

\* A bounded copy that runs without its limit in a procedure wstrcheck passes has
\* what took the limit from it in plain sight: within the lines looked back over
\* stands another use of r8, a call, a label, or the beginning of the procedure.
\* That is all the tool promises: it does not see what a line in between does to
\* r8, nor where the procedure begins.
LostBoundIsNear == Findings = 0 => \A a \in overrun : a <= Back

TypeOK ==
  /\ {since, age} \cup overrun \subseteq 1..(Back + 1)
  /\ copies \in 0..MaxCalls /\ noBound \in 0..copies
  /\ r8 \in {"limit", "other"}
=============================================================================

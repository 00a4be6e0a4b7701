---------------------------- MODULE WinCallCheck -----------------------------
(***************************************************************************)
(* tools/wincallcheck.ps1 over the WINCALL macro of macros.inc.  A step    *)
(* writes an argument of a call, ends the call, or is the next assignment  *)
(* the macro makes for it.                                                 *)
(***************************************************************************)
EXTENDS Naturals, Sequences

CONSTANTS Operands,  \* arguments an author writes: [form, reg], see Forms
          MaxArgs,   \* bound: arguments of a call
          MaxSites   \* bound: calls of the sources

VARIABLES sites,     \* calls written
          args,      \* arguments of the call at hand
          cut,       \* how many of them stand before a trailing `\`, 0: on one line
          assigning, \* machine: the argument assigned next, 0 while the call is written
          gone,      \* machine: registers that have lost what they held before the call
          suspect,   \* scanner: it has reported an argument
          misread    \* machine: how calls were written that read a register too late

vars == <<sites, args, cut, assigning, gone, suspect, misread>>

\* a number; a register; one read as 32 bits; what lies at, or is, an address
Forms     == {"number", "register", "dword", "memory"}
Registers == {"none", "rax", "rdx", "r8", "r9"}
Scratch   == {"dword", "memory"}
Targets   == <<"rcx", "rdx", "r8", "r9">>

Init == sites = 0 /\ args = <<>> /\ cut = 0 /\ assigning = 0 /\ gone = {}
        /\ suspect = FALSE /\ misread = {}

WriteArg(operand) ==
  /\ assigning = 0 /\ sites < MaxSites /\ Len(args) < MaxArgs
  /\ args' = Append(args, operand)
  /\ UNCHANGED <<sites, cut, assigning, gone, suspect, misread>>

\* the line ends in `\`; the scanner reads no further
ContinueLine ==
  /\ assigning = 0 /\ cut = 0 /\ args # <<>>
  /\ cut' = Len(args)
  /\ UNCHANGED <<sites, args, assigning, gone, suspect, misread>>

\* Split-Args: the `\` counts for one argument
Seen == IF cut = 0 THEN args
        ELSE Append(SubSeq(args, 1, cut), [form |-> "number", reg |-> "none"])

\* mutant: what marshals the stack arguments is forgotten
Danger_registers(i, n) ==
  {r \in {"rdx", "r8", "r9"} : \E j \in (i + 1)..4 : j <= n /\ r = Targets[j]}

\* what argument i of n must not read: the targets of those behind it, and rax,
\* unless it is the first on the stack
Danger(i, n) ==
  {r \in {"rdx", "r8", "r9"} : \E j \in (i + 1)..4 : j <= n /\ r = Targets[j]}
  \cup {r \in {"rax"} : n >= 5 /\ i # 5}

EndCall ==
  /\ assigning = 0 /\ Len(args) > cut /\ sites < MaxSites
  /\ sites' = sites + 1
  /\ suspect' = (suspect \/ \E i \in 1..Len(Seen) : Seen[i].reg \in Danger(i, Len(Seen)))
  /\ assigning' = IF Len(args) > 4 THEN 5 ELSE Len(args)
  /\ UNCHANGED <<args, cut, gone, misread>>

\* __WSTKARG stores by way of rax, or directly; __WREGARG loads the target, unless
\* the argument is in it
Overwritten(i, operand) ==
  IF i > 4 THEN {r \in {"rax"} : operand.form \in Scratch}
  ELSE {Targets[i]} \ {r \in {operand.reg} : operand.form # "memory"}

\* stack arguments first, in order; then r9, r8, rdx, rcx; then the call
Assign ==
  /\ assigning # 0
  /\ misread' = misread \cup {how \in {IF cut = 0 THEN "whole" ELSE "continued"} :
                                args[assigning].reg \in gone}
  /\ IF assigning = 1
     THEN assigning' = 0 /\ args' = <<>> /\ cut' = 0 /\ gone' = {}
     ELSE /\ assigning' = IF assigning < 5 THEN assigning - 1
                          ELSE IF assigning = Len(args) THEN 4 ELSE assigning + 1
          /\ gone' = gone \cup Overwritten(assigning, args[assigning])
          /\ UNCHANGED <<args, cut>>
  /\ UNCHANGED <<sites, suspect>>

Next == (\E operand \in Operands : WriteArg(operand)) \/ ContinueLine \/ EndCall \/ Assign

Spec == Init /\ [][Next]_vars

Findings == IF suspect THEN 1 ELSE 0

\* In the sources wincallcheck passes, every argument of a WINCALL written on one
\* line is read while its register still holds what it held before the call.  Of a
\* call continued on the next line the tool sees the first line only.
ArgumentsArrive == Findings = 0 => "whole" \notin misread

TypeOK ==
  /\ args \in Seq(Operands) /\ Len(args) <= MaxArgs /\ cut \in 0..Len(args)
  /\ sites \in 0..MaxSites
  /\ assigning \in 0..Len(args) /\ gone \subseteq {"rax", "rdx", "r8", "r9"}
  /\ suspect \in BOOLEAN /\ misread \subseteq {"whole", "continued"}
=============================================================================

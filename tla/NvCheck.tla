------------------------------ MODULE NvCheck --------------------------------
(***************************************************************************)
(* tools/nvcheck.py on one callee-saved register of one procedure.  A step *)
(* is the next line: what it does to the register, the stack and the save  *)
(* slot, and what the scanner notes of it.  A branch jumps to the label    *)
(* behind the next ret.                                                    *)
(***************************************************************************)
EXTENDS Naturals, Sequences

CONSTANT MaxCode      \* bound: lines of the procedure

VARIABLES code,       \* lines read
          reg,        \* machine: the register holds its caller's value, or work
          stack,      \* machine: what was pushed: <<who, value>>, last on top
          slot,       \* machine: the register's save slot
          jump,       \* machine: the state a branch took to its label
          reached,    \* machine: the next line can be reached
          lost,       \* machine: a ret was reached with the caller's value gone
          tricks,     \* machine: what the shape of the code hides
          saved, restored, written,   \* scanner
          closed      \* its endp was reached

vars == <<code, reg, stack, slot, jump, reached, lost, tricks, saved, restored, written, closed>>

Values == {"own", "work"}
None   == <<>>
Here   == <<reg, stack, slot>>

Init ==
  /\ code = 0 /\ reg = "own" /\ stack = <<>> /\ slot = "unset" /\ jump = None
  /\ reached = TRUE /\ lost = FALSE /\ tricks = {}
  /\ saved = FALSE /\ restored = FALSE /\ written = FALSE /\ closed = FALSE

NextLine == ~closed /\ reached /\ code < MaxCode /\ code' = code + 1 /\ closed' = FALSE

\* mutant: a save behind the first write counts
NoteSave_late == saved' = TRUE

\* a push, or any instruction with a memory operand first and the register second
NoteSave == saved' = (saved \/ ~written)

\* a load from memory: a restore of what was saved, and a write
NoteLoad == restored' = (restored \/ saved) /\ written' = TRUE

Note(trick, seen) == tricks' = tricks \cup (IF seen THEN {trick} ELSE {})

Push ==
  /\ NextLine /\ NoteSave
  /\ stack' = Append(stack, <<"reg", reg>>)
  /\ Note("a work value saved", saved /\ reg = "work")
  /\ UNCHANGED <<reg, slot, jump, reached, lost, restored, written>>

\* another register is pushed or popped
PushOther ==
  /\ NextLine
  /\ stack' = Append(stack, <<"other", "work">>)
  /\ UNCHANGED <<reg, slot, jump, reached, lost, tricks, saved, restored, written>>
PopOther ==
  /\ NextLine /\ stack # <<>>
  /\ stack' = SubSeq(stack, 1, Len(stack) - 1)
  /\ UNCHANGED <<reg, slot, jump, reached, lost, tricks, saved, restored, written>>

\* pops are restores whether or not anything was saved, and not writes
Pop ==
  /\ NextLine /\ stack # <<>>
  /\ reg' = stack[Len(stack)][2]
  /\ Note("pop of another's", stack[Len(stack)][1] # "reg")
  /\ stack' = SubSeq(stack, 1, Len(stack) - 1)
  /\ restored' = TRUE
  /\ UNCHANGED <<slot, jump, reached, lost, saved, written>>

\* mov [slot], reg
StoreSlot ==
  /\ NextLine /\ NoteSave
  /\ slot' = reg
  /\ Note("a work value saved", saved /\ reg = "work")
  /\ UNCHANGED <<reg, stack, jump, reached, lost, restored, written>>

\* cmp, test, add ... [mem], reg: the scanner reads it as a store
Touch ==
  /\ NextLine /\ NoteSave
  /\ Note("memory operand", ~written)
  /\ UNCHANGED <<reg, stack, slot, jump, reached, lost, restored, written>>

\* mov reg, [slot] and mov reg, [data]
LoadSlot ==
  /\ NextLine /\ NoteLoad
  /\ slot # "unset"
  /\ reg' = slot
  /\ UNCHANGED <<stack, slot, jump, reached, lost, tricks, saved>>
LoadData ==
  /\ NextLine /\ NoteLoad
  /\ reg' = "work"
  /\ Note("load of data", TRUE)
  /\ UNCHANGED <<stack, slot, jump, reached, lost, saved>>

Write ==
  /\ NextLine
  /\ reg' = "work" /\ written' = TRUE
  /\ Note("write behind the restore", restored)
  /\ UNCHANGED <<stack, slot, jump, reached, lost, saved, restored>>

Branch ==
  /\ NextLine /\ jump = None
  /\ jump' = Here
  /\ UNCHANGED <<reg, stack, slot, reached, lost, tricks, saved, restored, written>>

\* ret, with the stack as it was at the entry; what follows it is the label a
\* branch went to, if there is one
Ret ==
  /\ NextLine /\ stack = <<>>
  /\ lost' = (lost \/ reg # "own")
  /\ Note("two exits", jump # None)
  /\ IF jump # None
     THEN reg' = jump[1] /\ stack' = jump[2] /\ slot' = jump[3]
     ELSE UNCHANGED <<reg, stack, slot>>
  /\ reached' = (jump # None)
  /\ jump' = None
  /\ UNCHANGED <<saved, restored, written>>

EndProc ==
  /\ ~closed /\ ~reached
  /\ closed' = TRUE
  /\ UNCHANGED <<code, reg, stack, slot, jump, reached, lost, tricks, saved, restored, written>>

Next == Push \/ PushOther \/ PopOther \/ Pop \/ StoreSlot \/ Touch \/ LoadSlot \/ LoadData
        \/ Write \/ Branch \/ Ret \/ EndProc

Spec == Init /\ [][Next]_vars

\* one finding per register: not saved before its first write, or never restored
Findings == IF written /\ (~saved \/ ~restored) THEN 1 ELSE 0

\* Nonvolatile registers survive every procedure nvcheck passes, unless its code
\* has one of the shapes a line-by-line reading cannot follow: a memory operand
\* taken for a save, data loaded or another's slot popped for a restore, a work
\* value kept across a call the way the caller's is, a write behind the restore,
\* or two exits of which one restores.
ClobberIsSeen == closed /\ Findings = 0 /\ lost => tricks # {}

TypeOK ==
  /\ code \in 0..MaxCode /\ reg \in Values /\ slot \in Values \cup {"unset"}
  /\ stack \in Seq({"reg", "other"} \X Values)
  /\ {lost, saved, restored, written, closed, reached} \subseteq BOOLEAN
=============================================================================

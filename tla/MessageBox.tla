------------------------------ MODULE MessageBox ------------------------------
(***************************************************************************)
(* The message box of src/src/gui.asm: mbox and mb_wndproc.                *)
(*                                                                         *)
(* mbox runs a message loop of its own on the caller's stack, and the loop *)
(* dispatches what was posted to the main window, whose handlers may call  *)
(* mbox again.  Which box is the current one, whether it is done and how   *)
(* it was answered are globals, so all the calls on the stack share them.  *)
(***************************************************************************)
EXTENDS Naturals, Sequences, FiniteSets

CONSTANT MaxBoxes   \* bound: windows of this class that exist at once

ASSUME BoxAssumption == MaxBoxes \in Nat \ {0}

Buttons == {"ok", "cancel"}
Ids     == 1..MaxBoxes

VARIABLES
    boxes,    \* the windows on the screen: each its buttons
    stack,    \* the calls of mbox in progress, the innermost first: the window
              \* each created and what its caller does with the answer
    mb,       \* g_mb_hwnd (0 is none), g_mb_done, g_mb_result
    clicked   \* the window whose button was pressed last

boxVars == <<boxes, stack, mb, clicked>>

\* A loop is taking messages: the one of the innermost box, or gui_main's.
Pumping == ~ (stack # <<>> /\ mb.done)

NoBox == [hwnd |-> 0, done |-> FALSE, result |-> "cancel"]

BoxesInit == boxes = <<>> /\ stack = <<>> /\ mb = NoBox /\ clicked = 0

\* mbox, up to its loop.  Escape and a closed window count as a cancel.
OpenBox(buttons, caller) ==
    \E id \in Ids \ DOMAIN boxes :
        /\ \A other \in Ids \ DOMAIN boxes : id <= other
        /\ boxes' = [i \in DOMAIN boxes \cup {id} |->
                        IF i = id THEN buttons ELSE boxes[i]]
        /\ stack' = <<[box |-> id, caller |-> caller]>> \o stack
        /\ mb' = [hwnd |-> id, done |-> FALSE, result |-> "cancel"]
        /\ UNCHANGED clicked

\* DestroyWindow of g_mb_hwnd, whose WM_DESTROY ends the loops.
Destroyed(answer) ==
    /\ boxes' = [i \in DOMAIN boxes \ {mb.hwnd} |-> boxes[i]]
    /\ mb' = [mb EXCEPT !.result = answer, !.done = @ \/ mb.hwnd # 0]

\* mb_wndproc: a button of any window of the class answers for the current one,
\* and does nothing once there is none.
Press(id, button) ==
    /\ Pumping /\ stack # <<>> /\ id \in DOMAIN boxes /\ button \in boxes[id]
    /\ Destroyed(button)
    /\ clicked' = id
    /\ UNCHANGED stack

\* The loop of the innermost box takes the Escape key wherever the focus is.
Escape ==
    /\ Pumping /\ stack # <<>>
    /\ Destroyed("cancel")
    /\ UNCHANGED <<stack, clicked>>

\* The end of mbox: every call on the stack finds g_mb_done set.  What the last
\* leaves is not read before the next call sets it.
PopBox ==
    /\ ~ Pumping
    /\ stack' = Tail(stack)
    /\ mb' = IF Len(stack) = 1 THEN NoBox ELSE [mb EXCEPT !.hwnd = 0]
    /\ clicked' = IF Len(stack) = 1 THEN 0 ELSE clicked
    /\ UNCHANGED boxes

=============================================================================

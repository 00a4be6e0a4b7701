---------------------------- MODULE AtomicContainer ----------------------------
(***************************************************************************)
(* What an edit of a .mrk promises, whoever else is at work on the file:   *)
(* the container under its name changes from one whole container to        *)
(* another in one step; what an edit commits is an edit of the container   *)
(* it replaces, under a key of its own; and an edit whose commit fails     *)
(* keeps its result aside.  Packs that overwrite the name and copies put   *)
(* back by the user are the environment's, and are not counted as edits.   *)
(***************************************************************************)
EXTENDS Naturals

CONSTANTS Entries, Keys,
          Additions,   \* sets of entries an edit may be asked to add
    Removals     \* sets of names one may be asked to take away, each a set of entries

VARIABLES
    current,   \* the container under the name: its key and entries, or Missing
    edits,     \* edits committed so far
    kept       \* results that could not be committed

vars == <<current, edits, kept>>

Missing    == [key |-> 0, entries |-> {}]
Containers == [key : Keys, entries : SUBSET Entries]

\* What one add, or one removal, makes of a container: all that was asked for
\* and nothing else.  An add replaces nothing, and every name of a removal takes
\* something away.
EditsOf(c) ==
    {d \in Containers :
        /\ d.key # c.key
        /\ \/ \E a \in Additions : a \cap c.entries = {} /\ d.entries = c.entries \cup a
           \/ \E r \in Removals  : /\ \A n \in r : n \cap c.entries # {}
                                   /\ d.entries = c.entries \ UNION r}

Init == current \in Containers /\ edits = 0 /\ kept = {}

Edit == /\ current # Missing
        /\ current' \in EditsOf(current)
        /\ edits' = edits + 1
        /\ UNCHANGED kept

\* The commit failed; the name may be gone with it.
KeepAside == /\ current # Missing
             /\ \E d \in EditsOf(current) : kept' = kept \cup {d}
             /\ current' \in {current, Missing}
             /\ UNCHANGED edits

\* Another program writes the name, or puts an older copy back.
Overwrite == current' \in Containers /\ UNCHANGED <<edits, kept>>

Next == Edit \/ KeepAside \/ Overwrite

Spec == Init /\ [][Next]_vars
=============================================================================

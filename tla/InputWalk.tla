------------------------------- MODULE InputWalk -------------------------------
(***************************************************************************)
(* The inputs and those who walk them: refresh_inputs, start_indexing and  *)
(* indexer_thread of src/src/gui.asm on one side, the walk of a pack or of *)
(* an add (pack_input_top, pack_node of src/src/pack.asm) on the other.    *)
(*                                                                         *)
(* The path being walked is a global, g_walk.  A scan only counts what it  *)
(* finds, so its part here is where it writes the path; the pack takes the *)
(* name of an entry from g_rel, its own, and the file from g_walk.  An     *)
(* input is a folder (a single plain file is packed without a walk).       *)
(***************************************************************************)
EXTENDS Naturals, Sequences, SequencesExt

CONSTANTS
    Folders,     \* what may be added
    MaxInputs,   \* bound: inputs in the list
    Scanners     \* bound: indexer threads that exist at once

ASSUME WalkAssumption == MaxInputs \in Nat \ {0}

NoFolder == "none"
Archive  == "archive"      \* the container, when it is the first argument

VARIABLES
    inputs,     \* g_positionals up to g_poscount
    scanning,   \* g_scanning
    scans,      \* per indexer thread: -1 when there is none, or inputs walked
    walk,       \* g_walk
    packing,    \* the pack's walk: inputs done, and whether g_rel is set to the next
    packed      \* entries written: under which input's name, from which input

walkVars == <<inputs, scanning, scans, walk, packing, packed>>
listVars == <<inputs, scanning, scans>>

Scanning(s) == scans[s] >= 0

\* start_indexing, behind a new list of inputs: refresh_inputs.
Refresh(list) ==
    \E s \in Scanners :
        /\ ~ Scanning(s)
        /\ inputs' = list /\ scanning' = TRUE
        /\ scans' = [scans EXCEPT ![s] = 0]
        /\ UNCHANGED <<walk, packing, packed>>

\* it_loop: size_input_top puts the next input in g_walk and walks it.
ScanInput(s) ==
    /\ Scanning(s) /\ scans[s] < Len(inputs)
    /\ walk' = inputs[scans[s] + 1]
    /\ scans' = [scans EXCEPT ![s] = @ + 1]
    /\ UNCHANGED <<inputs, scanning, packing, packed>>

\* it_done, but for the message it posts.
ScanEnd(s) ==
    /\ Scanning(s) /\ scans[s] >= Len(inputs)
    /\ scanning' = FALSE
    /\ scans' = [scans EXCEPT ![s] = -1]
    /\ UNCHANGED <<inputs, walk, packing, packed>>

\* pack_input_top: g_walk and g_rel are set from the input.
PackTop ==
    /\ ~ packing.named /\ packing.done < Len(inputs)
    /\ walk' = inputs[packing.done + 1]
    /\ packing' = [packing EXCEPT !.named = TRUE]
    /\ UNCHANGED <<listVars, packed>>

\* pack_node, pack_emit_file: what lies under g_walk is sealed as g_rel.
PackNode ==
    /\ packing.named
    /\ packed' = Append(packed, [name |-> inputs[packing.done + 1], from |-> walk])
    /\ packing' = [done |-> packing.done + 1, named |-> FALSE]
    /\ UNCHANGED <<listVars, walk>>

\* dp_endblocks: every input was walked.
PackedAll == ~ packing.named /\ packing.done >= Len(inputs)

(***************************************************************************)
(* What a container holds under the name of an input came from that input. *)
(* The encrypt and decrypt of files and folders is tested to round-trip    *)
(* byte for byte (src/manifest.md 2089).                                   *)
(***************************************************************************)
PacksWhatItNames == \A i \in DOMAIN packed : packed[i].from = packed[i].name

=============================================================================

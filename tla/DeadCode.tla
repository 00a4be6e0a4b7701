------------------------------ MODULE DeadCode -------------------------------
(***************************************************************************)
(* tools/deadcode.py and the sweeps it replaces: an author adds and drops  *)
(* references between symbols, and deletes what the tool reports.          *)
(***************************************************************************)
EXTENDS FiniteSets, Naturals

CONSTANTS Symbols,
          ResourceIds,  \* equs with a resource-id prefix: mirrored in myrkr.rc
          Roots,        \* what the linker, a .def file or the loader asks for by name
          ALLOWLIST,    \* holds every root; its entries are never reported
          MaxUses       \* bound: references in the sources at one time

VARIABLES defs,         \* the symbols still defined
          uses,         \* <<by, of, form>>: where one symbol's text names another
          announced,    \* symbols named on a public or extern line
          swept         \* symbols deleted on the tool's word

vars == <<defs, uses, announced, swept>>

\* the rest of a definition's line (an equ's right side, a dd initialiser), a line
\* of its body, the body of a structure, a spelling the assembler folds to the name
Forms  == {"definition line", "body", "structure", "other case"}
Pooled == {"definition line", "body"}

\* a clean tree: the roots use what is neither a root nor a resource's
CleanUses == Roots \X (Symbols \ (ALLOWLIST \cup ResourceIds)) \X {"body"}

Init ==
  /\ defs = Symbols /\ swept = {}
  /\ uses = CleanUses
  /\ announced \in {{}, Symbols}

\* mutant: the rest of a definition's line is not read
Refs_bodies == {u[2] : u \in {v \in uses : v[3] = "body"}}

\* scan: the identifiers of all sources, pooled; declarations are not uses
Refs == {u[2] : u \in {v \in uses : v[3] \in Pooled}}

Dead     == defs \ (Refs \cup ALLOWLIST)
Gated    == Dead \ ResourceIds
Findings == Cardinality(Gated)

Refer(s, t, form) ==
  /\ {s, t} \subseteq defs
  /\ Cardinality(uses) < MaxUses
  /\ uses' = uses \cup {<<s, t, form>>}
  /\ UNCHANGED <<defs, announced, swept>>

Drop(u) ==
  /\ uses' = uses \ {u}
  /\ UNCHANGED <<defs, announced, swept>>

\* a reported symbol is deleted with all it refers to
Sweep(s) ==
  /\ s \in Gated
  /\ defs' = defs \ {s} /\ announced' = announced \ {s}
  /\ uses' = {u \in uses : u[1] # s}
  /\ swept' = swept \cup {s}

Next == \/ \E s, t \in Symbols, form \in Forms : Refer(s, t, form)
        \/ \E u \in uses : Drop(u)
        \/ \E s \in Symbols : Sweep(s)

Spec == Init /\ [][Next]_vars

\* ------------------------------------------------------------- properties
\* what the sources as they stand need: what is in every set that holds the roots
\* and the resources, and all that its members refer to
Closed(live, forms) ==
  /\ Roots \cup (ResourceIds \cap defs) \subseteq live
  /\ \A u \in uses : u[1] \in live /\ u[3] \in forms => u[2] \in live
Needed(forms) == {s \in Symbols : \A live \in SUBSET Symbols : Closed(live, forms) => s \in live}

\* However references are added, dropped and swept, nothing the program needs has
\* been deleted on the tool's word, unless the only way to it is one the tool does
\* not read: the body of a structure, or a spelling in another case.
SweepKeepsLive == swept \cap Needed(Pooled) = {}

TypeOK == /\ defs \cup swept = Symbols /\ defs \cap swept = {} /\ announced \subseteq defs
          /\ uses \subseteq Symbols \X Symbols \X Forms /\ Cardinality(uses) <= MaxUses
=============================================================================

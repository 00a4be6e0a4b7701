----------------------------- MODULE ConstCheck ------------------------------
(***************************************************************************)
(* tools/constcheck.py: constants mirrored in several sources, and the     *)
(* product version written down in several files.  A step adds an equ to a *)
(* source or edits a version; the gate reads the sources as they stand.    *)
(***************************************************************************)
EXTENDS Integers, Sequences, FiniteSets

CONSTANTS Sources,    \* the sources that define constants
          Names,      \* names of constants
          Literals,   \* values written as numbers
          Readings,   \* times a source is read: the code's 1 + 3
          Definable,  \* bound: source -> the equs an author may write in it
          Versions,   \* <<first three fields, fourth field>> of product versions
          MaxEdits    \* bound: edits of version sites

VARIABLES equs,       \* source -> the sequence of <<name, expression>> in it
          shown,      \* site -> the version it shows
          rcs,        \* the resource scripts there are
          matched,    \* the sites whose line the gate's pattern still matches
          edits

vars == <<equs, shown, rcs, matched, edits>>

\* A number, a name plus one, a name halved and doubled again (the shape where
\* `/` matters), or something only the assembler folds: sizeof, shl, a character.
Exprs == [op : {"number", "unfoldable"}, v : Literals]
         \cup [op : {"increment", "halved"}, of : Names]

\* where a version is written: <<file, what it is there>>
About    == <<"gui.asm", "s_ab_ver">>
Fixed(r) == <<r, "FILEVERSION">>
Scripts  == {"myrkr.rc", "myrkrshell.rc"}
Sites    == {About, <<"myrkr.rc", "FileVersion">>} \cup {Fixed(r) : r \in Scripts}

Init ==
  /\ equs = [f \in Sources |-> <<>>]
  /\ \E v \in Versions : shown = [s \in Sites |-> v]
  /\ rcs = Scripts /\ matched = Sites
  /\ edits = 0

\* `name equ expr`; the assembler takes one definition of a name per source
Define(f, name, expr) ==
  /\ <<name, expr>> \in Definable[f]
  /\ \A i \in 1..Len(equs[f]) : equs[f][i][1] # name
  /\ equs' = [equs EXCEPT ![f] = Append(@, <<name, expr>>)]
  /\ UNCHANGED <<shown, rcs, matched, edits>>

\* a release edits a site, or rewrites its line so that no pattern matches it
EditVersion(s, v, stillMatched) ==
  /\ edits < MaxEdits /\ edits' = edits + 1
  /\ shown' = [shown EXCEPT ![s] = v]
  /\ matched' = IF stillMatched THEN matched ELSE matched \ {s}
  /\ UNCHANGED <<equs, rcs>>

\* a resource script is renamed, or left out of the tree
DropScript(r) ==
  /\ edits < MaxEdits /\ edits' = edits + 1
  /\ rcs' = rcs \ {r}
  /\ UNCHANGED <<equs, shown, matched>>

Next ==
  \/ \E f \in Sources, name \in Names, expr \in Exprs : Define(f, name, expr)
  \/ \E s \in Sites, v \in Versions, m \in BOOLEAN : EditVersion(s, v, m)
  \/ \E r \in rcs : DropScript(r)

Spec == Init /\ [][Next]_vars

\* -------------------------------------------------------- fold, parse_file
Unresolved == -1

\* Python's `/` is exact and the result is cut once, at the end of the expression;
\* the assembler's drops the remainder where it stands.
Python    == [half |-> [n \in Nat |-> n], folds |-> {"number"}]
Assembler == [half |-> [n \in Nat |-> 2 * (n \div 2)], folds |-> {"number", "unfoldable"}]

Value(expr, known, reader) ==
  IF expr.op \in {"number", "unfoldable"}
  THEN IF expr.op \in reader.folds THEN expr.v ELSE Unresolved
  ELSE IF expr.of \notin DOMAIN known THEN Unresolved
       ELSE IF expr.op = "increment" THEN known[expr.of] + 1 ELSE reader.half[known[expr.of]]

\* known.setdefault
SetDefault(known, name, v) ==
  [n \in DOMAIN known \cup {name} |-> IF n \in DOMAIN known THEN known[n] ELSE v]

Folded(def, known, reader) ==
  LET v == Value(def[2], known, reader)
  IN IF v = Unresolved THEN known ELSE SetDefault(known, def[1], v)

\* one reading of the source: what can be folded with the names known so far is
Pass(defs, known, reader) ==
  LET upTo[i \in 0..Len(defs)] ==
        IF i = 0 THEN known ELSE Folded(defs[i], upTo[i - 1], reader)
  IN upTo[Len(defs)]

Read(defs, reader, n) ==
  LET read[i \in 0..n] == IF i = 0 THEN <<>> ELSE Pass(defs, read[i - 1], reader)
  IN read[n]

\* mutant: what is pending after the first reading stays so
Known_once(defs) == Read(defs, Python, 1)

\* the reading proper and three more over what is pending (at most: the loop ends
\* early only when a reading has added nothing)
Known(defs) == Read(defs, Python, Readings)

\* what the assembler makes of the same source: it reads until nothing is new, and
\* of the readings that add something there are no more than equs
Assembled(defs) == Read(defs, Assembler, Readings + Len(defs))

\* ------------------------------------------------------------------- main
ValuesOf(name) == {Known(equs[f])[name] : f \in {g \in Sources : name \in DOMAIN Known(equs[g])}}

Mirrored  == {n \in Names : Cardinality({f \in Sources : n \in DOMAIN Known(equs[f])}) > 1}
Conflicts == {n \in Mirrored : Cardinality(ValuesOf(n)) > 1}

\* _mmp: the fourth field is not compared
mmp(version) == version[1]

\* version_check: without a script there is nothing to compare; of the scripts
\* there are, FILEVERSION must be found, and all that is found must agree
Required == {About} \cup {Fixed(r) : r \in rcs}
Found    == {s \in matched : s[1] \in rcs \cup {"gui.asm"}}

VersionFault ==
  IF /\ rcs # {}
     /\ ~(Required \subseteq Found) \/ Cardinality({mmp(shown[s]) : s \in Found}) > 1
  THEN 1 ELSE 0

Findings == Cardinality(Conflicts) + VersionFault

\* ------------------------------------------------------------- properties
\* The assembler loses a remainder when it halves the value of name.
Odd(f, name) == name \in DOMAIN Assembled(equs[f]) /\ Assembled(equs[f])[name] % 2 = 1

\* Constcheck can follow a name of f to a number: there are lines of f, each with
\* the reading (in) it is folded in, where every line is a number or refers to
\* another of them, one further up in the same reading or an earlier one, one
\* further down in an earlier one; and no odd value is halved on the way.
InReach(f, name) ==
  \E lines \in SUBSET (1..Len(equs[f])) : \E in \in [lines -> 1..Readings] :
    /\ \E i \in lines : equs[f][i][1] = name
    /\ \A i \in lines :
         LET expr == equs[f][i][2] IN
         \/ expr.op = "number"
         \/ /\ expr.op = "increment" \/ (expr.op = "halved" /\ ~Odd(f, expr.of))
            /\ \E j \in lines : /\ equs[f][j][1] = expr.of
                               /\ in[j] <= in[i] /\ (j < i \/ in[j] < in[i])

\* In a tree constcheck passes, a constant that has a value in two objects has the
\* same value in both, unless one of its sources defines it out of the tool's
\* reach: by an expression it does not fold, by an odd value halved, or through a
\* chain of names more than three of which are defined below their use.  The
\* resource scripts that are there and the About box show one version, but for its
\* fourth field.
MirrorsAgree ==
  Findings = 0 =>
    /\ \A f, g \in Sources :
         \A n \in DOMAIN Assembled(equs[f]) \cap DOMAIN Assembled(equs[g]) :
            \/ Assembled(equs[f])[n] = Assembled(equs[g])[n]
            \/ ~InReach(f, n) \/ ~InReach(g, n)
    /\ \A s, t \in Required : mmp(shown[s]) = mmp(shown[t])

TypeOK ==
  /\ equs \in [Sources -> Seq(Names \X Exprs)]
  /\ shown \in [Sites -> Versions] /\ rcs \subseteq Scripts /\ matched \subseteq Sites
  /\ edits \in 0..MaxEdits
=============================================================================

----------------------------- MODULE AlignCheck ------------------------------
(***************************************************************************)
(* tools/aligncheck.py on the data sections of one source.  A step is the  *)
(* next declaration: where the assembler puts it (at) and where the        *)
(* scanner thinks it lies (offsets).                                       *)
(***************************************************************************)
EXTENDS Integers, FiniteSets

CONSTANTS Sections,   \* ".data", ".const"
          Directives, \* directive -> bytes of one item (DIRECTIVE_SIZE)
          Lengths,    \* numbers of items or characters
          Aligns,     \* operands of align
          BSS_MIN_BYTES,
          MaxDecls    \* bound: lines of data

VARIABLES section,    \* the section the next line goes to
          decls,      \* lines read
          at,         \* assembler: bytes placed in each section
          offsets,    \* scanner: the same, or Unknown
          strings,    \* scanner: misaligned wide labels reported
          bss,        \* scanner: oversized arrays reported
          blind,      \* sections that hold a line the scanner cannot size
          odd,        \* <<section was blind>> of each wide label at an odd address
          empty       \* bytes of `dup (?)` emitted into .data by one array, at most

vars == <<section, decls, at, offsets, strings, bss, blind, odd, empty>>

Unknown == -1

Init ==
  /\ section = "none" /\ decls = 0
  /\ at = [s \in Sections |-> 0] /\ offsets = at
  /\ strings = 0 /\ bss = 0 /\ blind = {} /\ odd = {} /\ empty = 0

RoundUp(n, a) == ((n + a - 1) \div a) * a

Decl == section # "none" /\ decls < MaxDecls /\ decls' = decls + 1 /\ UNCHANGED section

\* the section grows by `real` bytes from `base`; the scanner, unless it gave the
\* section up, adds `seen` to what it makes of the same base
Place(base, real, seenBase, seen) ==
  /\ at' = [at EXCEPT ![section] = base + real]
  /\ offsets' = [offsets EXCEPT ![section] = IF @ = Unknown THEN Unknown ELSE seenBase + seen]

\* a wide label at offset off: the machine's view, and the scanner's
WideLabel(off, seenOff) ==
  /\ odd' = odd \cup (IF off % 2 = 1 THEN {section \in blind} ELSE {})
  /\ strings' = strings + (IF offsets[section] # Unknown /\ seenOff % 2 = 1 THEN 1 ELSE 0)

Narrow == UNCHANGED <<odd, strings>>

Section(s) ==
  /\ decls < MaxDecls /\ decls' = decls + 1
  /\ s # section /\ section' = s
  /\ UNCHANGED <<at, offsets, strings, bss, blind, odd, empty>>

\* mutant: a line counts for one item, however many it lists
Define_one(d, n) ==
  /\ Decl
  /\ Place(at[section], n * Directives[d], offsets[section], Directives[d])
  /\ IF d = "dw" THEN WideLabel(at[section], offsets[section]) ELSE Narrow
  /\ UNCHANGED <<bss, blind, empty>>

\* name db/dw/dd/dq with n items, or name label (n = 0).  A dw label must be even;
\* wider scalars are a review list that does not gate.
Define(d, n) ==
  /\ Decl
  /\ Place(at[section], n * Directives[d], offsets[section], n * Directives[d])
  /\ IF d = "dw" THEN WideLabel(at[section], offsets[section]) ELSE Narrow
  /\ UNCHANGED <<bss, blind, empty>>

\* name dX n dup (?).  A count the scanner cannot resolve ends the tracking of
\* the section, and keeps a large array from being reported.
Array(d, n, resolved) ==
  LET bytes == n * Directives[d]
      large == section = ".data" /\ resolved /\ bytes >= BSS_MIN_BYTES
  IN /\ Decl
     /\ at' = [at EXCEPT ![section] = @ + bytes]
     /\ offsets' = [offsets EXCEPT ![section] =
                      IF @ = Unknown \/ ~resolved THEN Unknown ELSE @ + bytes]
     /\ blind' = IF resolved THEN blind ELSE blind \cup {section}
     /\ bss' = bss + (IF large THEN 1 ELSE 0)
     /\ empty' = IF section = ".data" /\ resolved /\ bytes > empty THEN bytes ELSE empty
     /\ IF d = "dw" THEN WideLabel(at[section], offsets[section]) ELSE Narrow

\* WSTR name, <text>: the macro's `even`, then n characters and a NUL
WideString(n) ==
  /\ Decl
  /\ Place(RoundUp(at[section], 2), 2 * (n + 1), RoundUp(offsets[section], 2), 2 * (n + 1))
  /\ WideLabel(RoundUp(at[section], 2), RoundUp(offsets[section], 2))
  /\ UNCHANGED <<bss, blind, empty>>

\* CSTR name, "text": the macro emits the n characters and no NUL
NarrowString(n) ==
  /\ Decl
  /\ Place(at[section], n, offsets[section], n + 1)
  /\ blind' = blind \cup {section}
  /\ Narrow /\ UNCHANGED <<bss, empty>>

\* a structure instance or another macro: no pattern matches, no bytes are added
Instance(n) ==
  /\ Decl
  /\ Place(at[section], n, offsets[section], 0)
  /\ blind' = blind \cup {section}
  /\ Narrow /\ UNCHANGED <<bss, empty>>

\* align a, even
Align(a) ==
  /\ Decl
  /\ Place(RoundUp(at[section], a), 0, RoundUp(offsets[section], a), 0)
  /\ Narrow /\ UNCHANGED <<bss, blind, empty>>

Next ==
  \/ \E s \in Sections : Section(s)
  \/ \E d \in DOMAIN Directives, n \in Lengths \cup {0} : Define(d, n)
  \/ \E d \in DOMAIN Directives, n \in Lengths :
       \E resolved \in BOOLEAN : Array(d, n, resolved)
  \/ \E n \in Lengths : WideString(n) \/ NarrowString(n) \/ Instance(n)
  \/ \E a \in Aligns : Align(a)

Spec == Init /\ [][Next]_vars

Findings == strings + bss

\* In the sources aligncheck passes every wide string lies at an even address and
\* no array of 4 KiB or more is emitted as zeros, except behind a line it cannot
\* size: a CSTR, a structure instance, an unresolved count.
DataIsNatural == Findings = 0 => FALSE \notin odd /\ empty < BSS_MIN_BYTES

TypeOK ==
  /\ section \in Sections \cup {"none"} /\ decls \in 0..MaxDecls
  /\ at \in [Sections -> Nat] /\ offsets \in [Sections -> Nat \cup {Unknown}]
  /\ strings \in Nat /\ bss \in Nat /\ empty \in Nat
  /\ blind \subseteq Sections /\ odd \subseteq BOOLEAN
=============================================================================

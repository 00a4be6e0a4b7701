-------------------------------- MODULE Build --------------------------------
(***************************************************************************)
(* build.cmd: an author writes the sources, the script runs the checkers   *)
(* over them, assembles, links, and for a release normalises the images    *)
(* and publishes their hashes.                                             *)
(*                                                                         *)
(* The checkers share no state, so a behaviour writes one topic of the     *)
(* sources and leaves the others as they are in a clean tree.  FrameCheck  *)
(* is extended, and its names are used without a prefix; the other gates   *)
(* are instances over the variables of the same names.                     *)
(***************************************************************************)
EXTENDS FrameCheck, Sequences, Floors, MenuBmp, PeNormalise

CONSTANTS
  MaxCode,                                                              \* NvCheck
  Back, Skips, MaxCalls,                                                \* WstrCheck
  Sections, Directives, Lengths, Aligns, BSS_MIN_BYTES, MaxDecls,       \* AlignCheck
  Sources, Names, Literals, Readings, Definable, Versions, MaxEdits,    \* ConstCheck
  Symbols, ResourceIds, Roots, ALLOWLIST, MaxUses,                      \* DeadCode
  Operands, MaxArgs, MaxSites,                                          \* WinCallCheck
  Icons,        \* pictures the author draws
  GateBuilds,   \* ways build.cmd is called on changed sources: see BuildFlags
  ImageBuilds,  \* ways it is called to look at the images
  Times, Guids, \* build times, and the identifiers a linker draws
  LinkFaults,   \* what may be wrong with an image: see PeNormalise
  Paths,        \* lengths of the path the tree is built under
  MaxBuilds     \* bound: builds of one tree

\* test: ASMEXTRA, what dbg and testio define for the assembler
BuildFlags == [strict : BOOLEAN, release : BOOLEAN, nohw : BOOLEAN,
               test : {{}, {"TEST_IO"}, {"DBG_TRACE", "TEST_IO"}},
               python : BOOLEAN, pillow : BOOLEAN]

VARIABLES code, reg, stack, slot, jump, reached, lost, tricks, saved, restored, written, closed,
          since, noBound, copies, r8, age, overrun,
          section, decls, at, offsets, strings, bss, blind, odd, empty,
          equs, shown, rcs, matched, edits,
          defs, uses, announced, swept,
          sites, args, cut, assigning, gone, suspect, misread,
          topic,      \* what the author works on
          icon, bmp,  \* myrkr.ico and menu16.bmp (<<>>: not there)
          quiet,      \* <<tool, metric, what became of it>> of a checker that lost reach
          phase,      \* the step the script is at
          flags,      \* its arguments, and what the machine has
          machine,    \* the time, identifier and path of this build
          resource,   \* the bitmap in obj\myrkrshell.res
          bin,        \* the images in bin\
          sums,       \* bin\SHA256SUMS.txt, as <<file, image>>: a hash stands for the
                      \* image it is of
          published,  \* [commit, anew, sums] of the releases so far
          builds

nvVars    == <<code, reg, stack, slot, jump, reached, lost, tricks, saved, restored, written, closed>>
wstrVars  == <<since, noBound, copies, r8, age, overrun>>
alignVars == <<section, decls, at, offsets, strings, bss, blind, odd, empty>>
constVars == <<equs, shown, rcs, matched, edits>>
deadVars  == <<defs, uses, announced, swept>>
callVars  == <<sites, args, cut, assigning, gone, suspect, misread>>
menuVars  == <<icon, bmp>>
sources   == <<vars, nvVars, wstrVars, alignVars, constVars, deadVars, callVars, menuVars, topic, quiet>>
outputs   == <<resource, bin, sums, published>>
buildVars == <<sources, outputs, phase, flags, machine, builds>>

Nv    == INSTANCE NvCheck
Wstr  == INSTANCE WstrCheck
Align == INSTANCE AlignCheck
Const == INSTANCE ConstCheck
DeadC == INSTANCE DeadCode
Calls == INSTANCE WinCallCheck

ASSUME SourcesAssumption ==
  /\ Back \in Nat /\ Skips \subseteq Nat /\ MaxCalls \in Nat /\ MaxCode \in Nat
  /\ Directives \in [DOMAIN Directives -> Nat \ {0}] /\ Lengths \subseteq Nat
  /\ Aligns \subseteq Nat \ {0} /\ BSS_MIN_BYTES \in Nat \ {0} /\ MaxDecls \in Nat
  /\ IsFiniteSet(Sources) /\ IsFiniteSet(Names) /\ Literals \subseteq Nat
  /\ Versions # {} /\ MaxEdits \in Nat /\ Readings \in Nat \ {0}
  /\ IsFiniteSet(Symbols) /\ Roots \subseteq Symbols \cap ALLOWLIST
  /\ MaxUses \in Nat /\ Cardinality(DeadC!CleanUses) <= MaxUses
  /\ Operands \subseteq [form : Calls!Forms, reg : Calls!Registers]
  /\ MaxArgs \in Nat /\ MaxSites \in Nat

ASSUME BuildAssumption ==
  /\ SIZE \in Nat \ {0}
  /\ Icons \subseteq [Grid -> [1..4 -> 0..255]] \cup {NoFrame} /\ \E i \in Icons : i # NoFrame
  /\ GateBuilds \cup ImageBuilds \subseteq BuildFlags
  /\ LinkFaults \subseteq Faults /\ MaxBuilds \in Nat

Topics == {"frames", "registers", "bounds", "data", "constants", "versions", "symbols",
           "calls", "menu", "reach", "images"}

AllReach == <<"none", "none", "none">>
Losses == UNION {{t} \X (DOMAIN Counted[t]) \X {"halved", "not reported"} : t \in DOMAIN Counted}

\* wincallcheck counts its sites by one pattern and parses them by another
Unparsed == <<"wincallcheck", "sites", "unparsed">>

NoImage == <<>>
Idle    == [time |-> 0, guid |-> 0, path |-> 0]

BuildInit ==
  /\ Init /\ Nv!Init /\ Wstr!Init /\ Align!Init /\ Const!Init /\ DeadC!Init /\ Calls!Init
  /\ announced = {}
  /\ topic \in Topics
  /\ topic # "frames" => proc = CHOOSE p \in Procs : p.known
  /\ topic # "bounds" => since = Back + 1
  /\ topic # "versions" => shown[Const!About] = CHOOSE v \in Versions : TRUE
  /\ icon = (CHOOSE i \in Icons : i # NoFrame) /\ bmp = BuildBmp(icon)
  /\ quiet \in CASE topic = "reach" -> Losses
                [] topic = "calls" -> {AllReach, Unparsed}
                [] OTHER           -> {AllReach}
  /\ phase = "idle" /\ machine = Idle /\ builds = 0
  /\ flags = [strict |-> FALSE, release |-> FALSE, nohw |-> FALSE, test |-> {},
              python |-> FALSE, pillow |-> FALSE]
  /\ resource = <<>> /\ sums = {} /\ published = {}
  /\ bin = [exe |-> NoImage, dll |-> NoImage]

\* ----------------------------------------------------------------- the author
DrawIcon == icon' \in Icons /\ UNCHANGED bmp

\* make_menu_bmp.py without --check
MakeBitmap(pillow) ==
  /\ bmp' = IF MakeCode(pillow, icon) = 0 THEN BuildBmp(icon) ELSE bmp
  /\ UNCHANGED icon

DeleteBitmap == bmp' = <<>> /\ UNCHANGED icon

Menu == DrawIcon \/ DeleteBitmap \/ \E pillow \in BOOLEAN : MakeBitmap(pillow)

Write ==
  /\ phase = "idle"
  /\ \/ /\ topic = "frames" /\ Next
        /\ UNCHANGED <<nvVars, wstrVars, alignVars, constVars, deadVars, callVars, menuVars>>
     \/ /\ topic = "registers" /\ Nv!Next
        /\ UNCHANGED <<vars, wstrVars, alignVars, constVars, deadVars, callVars, menuVars>>
     \/ /\ topic = "bounds" /\ Wstr!Next
        /\ UNCHANGED <<vars, nvVars, alignVars, constVars, deadVars, callVars, menuVars>>
     \/ /\ topic = "data" /\ Align!Next
        /\ UNCHANGED <<vars, nvVars, wstrVars, constVars, deadVars, callVars, menuVars>>
     \/ /\ topic = "constants" /\ Const!Next /\ UNCHANGED edits
        /\ UNCHANGED <<vars, nvVars, wstrVars, alignVars, deadVars, callVars, menuVars>>
     \/ /\ topic = "versions" /\ Const!Next /\ UNCHANGED equs
        /\ UNCHANGED <<vars, nvVars, wstrVars, alignVars, deadVars, callVars, menuVars>>
     \/ /\ topic = "symbols" /\ DeadC!Next
        /\ UNCHANGED <<vars, nvVars, wstrVars, alignVars, constVars, callVars, menuVars>>
     \/ /\ topic = "calls" /\ Calls!Next
        /\ UNCHANGED <<vars, nvVars, wstrVars, alignVars, constVars, deadVars, menuVars>>
     \/ /\ topic = "menu" /\ builds = 0 /\ Menu
        /\ UNCHANGED <<vars, nvVars, wstrVars, alignVars, constVars, deadVars, callVars>>
  /\ UNCHANGED <<outputs, topic, quiet, phase, flags, machine, builds>>

\* ------------------------------------------------------------------ build.cmd
\* what a checker counts, when it may have lost reach
Metrics(tool) ==
  LET full == Counted[tool]
  IN IF quiet[1] # tool \/ quiet = Unparsed THEN full
     ELSE IF quiet[3] = "halved" THEN [full EXCEPT ![quiet[2]] = @ \div 2]
     ELSE [m \in DOMAIN full \ {quiet[2]} |-> full[m]]

\* mutant: --strict is not passed on
FrameCode_lax == ExitCode(FALSE) + Breached("framecheck", Metrics("framecheck"))

\* FCFLAGS: warnings count in a strict build
FrameCode == ExitCode(flags.strict) + Breached("framecheck", Metrics("framecheck"))

\* wincallcheck is PowerShell and asks for its floor; it finds what it parses
CallCode ==
  IF quiet # Unparsed /\ Calls!Findings > 0 THEN 1
  ELSE Cli("wincallcheck", Metrics("wincallcheck"))

\* what each checker ends with (each cuts it to 255)
Codes ==
  [framecheck    |-> FrameCode,
   constcheck    |-> Const!Findings + Breached("constcheck", Metrics("constcheck")),
   deadcode      |-> DeadC!Findings + Breached("deadcode", Metrics("deadcode")),
   wstrcheck     |-> Wstr!Findings + Breached("wstrcheck", Metrics("wstrcheck")),
   aligncheck    |-> Align!Findings + Breached("aligncheck", Metrics("aligncheck")),
   nvcheck       |-> Nv!Findings + Breached("nvcheck", Metrics("nvcheck")),
   make_menu_bmp |-> CheckCode(flags.pillow, icon, bmp),
   wincallcheck  |-> CallCode]

Written == /\ topic = "frames" => ~open
           /\ topic = "registers" => closed
           /\ topic = "calls" => args = <<>>

Start ==
  /\ phase = "idle" /\ builds < MaxBuilds /\ Written
  /\ flags' \in IF topic = "images" THEN ImageBuilds ELSE GateBuilds
  /\ IF topic = "images" THEN machine' \in [time : Times, guid : Guids, path : Paths]
     ELSE UNCHANGED machine
  /\ phase' = IF flags'.python THEN "gates" ELSE "assemble"
  /\ builds' = builds + 1
  /\ UNCHANGED <<sources, outputs>>

To(next) == /\ phase' = next
            /\ UNCHANGED <<sources, flags, machine, builds>>

\* the checkers in their order; a strict build stops at the first that finds
\* something, any other prints a warning and goes on
Fails(codes) == flags.strict /\ \E tool \in DOMAIN codes : codes[tool] > 0

Gates == /\ phase = "gates"
         /\ To(IF Fails(Codes) THEN "failed" ELSE "assemble")
         /\ UNCHANGED outputs

\* a tool of the kit reports an error
ToolFails == /\ phase \in {"assemble", "resources", "exe", "dll"}
             /\ topic = "images"
             /\ To("failed") /\ UNCHANGED outputs

Assemble == /\ phase = "assemble"
            /\ To("resources") /\ UNCHANGED outputs

\* rc, twice: a script or the bitmap that is not there is an error; the bitmap is
\* embedded as it lies there
Resources == /\ phase = "resources"
             /\ resource' = bmp
             /\ To(IF bmp = <<>> \/ rcs # Const!Scripts THEN "failed" ELSE "exe")
             /\ UNCHANGED <<bin, sums, published>>

\* REPROFLAGS: /Brepro adds its own record, /pdbaltpath names the pdb without a path
Entry(type, says, size) == [type |-> type, stamp |-> machine.time,
                            payload |-> [says |-> says, size |-> size]]
PdbPath == IF flags.release THEN 1 ELSE machine.path
DebugDirectory ==
  <<Entry(CODEVIEW, machine.guid, PdbPath)>>
    \o (IF flags.nohw THEN <<>> ELSE <<Entry(EX_DLLCHARACTERISTICS, "CET", 1)>>)
    \o (IF flags.release THEN <<Entry(REPRO, machine.time, 1)>> ELSE <<>>)

Image(export, picture, fault) ==
  [stamp |-> machine.time, export |-> export, debug |-> DebugDirectory,
   test |-> flags.test, picture |-> picture, fault |-> fault]

LinkExe(fault) ==
  /\ phase = "exe"
  /\ bin' = [bin EXCEPT !.exe = Image([rva |-> "absent", stamp |-> 0], <<>>, fault)]
  /\ To("dll") /\ UNCHANGED <<resource, sums, published>>

LinkDll(fault) ==
  /\ phase = "dll"
  /\ bin' = [bin EXCEPT !.dll = Image([rva |-> "mapped", stamp |-> machine.time], resource, fault)]
  /\ To(IF flags.release THEN "normalise" ELSE "ok")
  /\ UNCHANGED <<resource, sums, published>>

Images == {bin.exe, bin.dll}

Normalise ==
  /\ phase = "normalise"
  /\ IF flags.python
     THEN /\ bin' = [exe |-> Normalised(bin.exe), dll |-> Normalised(bin.dll)]
          /\ To(IF MainCode(Images) # 0 THEN "failed" ELSE "publish")
     ELSE UNCHANGED bin /\ To("failed")
  /\ UNCHANGED <<resource, sums, published>>

\* the sources and the arguments that change what is built of them
Commit == <<flags.nohw, flags.test, bmp>>

\* echo and certutil, each with a redirection of its own, and no errorlevel looked
\* at: the file may be locked, at the first of them or later, and a hash may fail
Publish ==
  /\ phase = "publish"
  /\ \E anew \in BOOLEAN, hashed \in SUBSET {"exe", "dll"} :
       /\ sums' = {line \in sums : ~anew} \cup {<<x, bin[x]>> : x \in hashed}
       /\ published' = published \cup {[commit |-> Commit, anew |-> anew, sums |-> sums']}
  /\ To("ok")
  /\ UNCHANGED <<resource, bin>>

\* pe_normalise on a shipped binary, to check it
Recheck ==
  /\ phase \in {"ok", "failed"} /\ bin.exe # NoImage /\ bin.dll # NoImage
  /\ topic = "images"
  /\ bin' = [exe |-> Normalised(bin.exe), dll |-> Normalised(bin.dll)]
  /\ UNCHANGED <<sources, phase, flags, machine, builds, resource, sums, published>>

Again == /\ phase \in {"ok", "failed"} /\ builds < MaxBuilds /\ topic = "images"
         /\ To("idle") /\ UNCHANGED outputs

BuildNext ==
  \/ Write \/ Start \/ Gates \/ ToolFails \/ Assemble \/ Resources
  \/ \E fault \in LinkFaults : LinkExe(fault) \/ LinkDll(fault)
  \/ Normalise \/ Publish \/ Recheck \/ Again

BuildSpec == BuildInit /\ [][BuildNext]_buildVars

\* Nonvolatile registers survive every procedure nvcheck passes, unless its code
\* has one of the shapes a line-by-line reading cannot follow: a memory operand
\* taken for a save, data loaded or another's slot popped for a restore, a work
\* value kept across a call the way the caller's is, a write behind the restore,
\* or two exits of which one restores.
ClobberIsSeen == Nv!ClobberIsSeen

\* A bounded copy that runs without its limit in a procedure wstrcheck passes has
\* what took the limit from it in plain sight: another use of r8, a call, a label or
\* the beginning of the procedure, within the lines looked back over.
LostBoundIsNear == Wstr!LostBoundIsNear

\* In the sources aligncheck passes every wide string lies at an even address and
\* no array of 4 KiB or more is emitted as zeros, except behind a line it cannot
\* size: a CSTR, a structure instance, an unresolved count.
DataIsNatural == Align!DataIsNatural

\* In a tree constcheck passes, a constant that has a value in two objects has the
\* same value in both, unless one of its sources defines it out of the tool's
\* reach: by an expression it does not fold, by an odd value halved, or through a
\* chain of names more than three of which are defined below their use.  The
\* resource scripts that are there and the About box show one version, but for its
\* fourth field.
MirrorsAgree == Const!MirrorsAgree

\* However references are added, dropped and swept, nothing the program needs has
\* been deleted on the tool's word, unless the only way to it is one the tool does
\* not read: the body of a structure, or a spelling in another case.
SweepKeepsLive == DeadC!SweepKeepsLive

\* In the sources wincallcheck passes, every argument of a WINCALL written on one
\* line is read while its register still holds what it held before the call.
ArgumentsArrive == Calls!ArgumentsArrive

\* A strict build that says OK on a machine with Python has no finding of any
\* checker, warnings of framecheck included; no checker had lost half of what it
\* used to look at, or stopped reporting it, save for calls wincallcheck counts and
\* does not parse; and where Pillow is, the picture in the dll is the icon's, pixel
\* for pixel.
StrictIsClean ==
  phase = "ok" /\ flags.strict /\ flags.python =>
    /\ results = {} /\ Nv!Findings = 0 /\ Wstr!Findings = 0 /\ Align!Findings = 0
    /\ Const!Findings = 0 /\ DeadC!Findings = 0
    /\ quiet = Unparsed \/ (quiet = AllReach /\ Calls!Findings = 0)
    /\ flags.pillow => Shows(bin.dll.picture, icon)

\* Two releases of one commit that could begin SHA256SUMS.txt anew list no two
\* hashes for one file, whenever, wherever and with whatever identifiers they were
\* built.
Reproduces ==
  \A p, q \in published : p.commit = q.commit /\ p.anew /\ q.anew =>
    \A a \in p.sums, b \in q.sums : a[1] = b[1] => a[2] = b[2]

\* Every image of a build that says OK is marked compatible with the hardware
\* shadow stack, unless it was linked without.
Marked(image) ==
  \E i \in DOMAIN image.debug : /\ image.debug[i].type = EX_DLLCHARACTERISTICS
                                /\ image.debug[i].payload.says = "CET"
ShadowStackStays == phase = "ok" => \A image \in Images : Marked(image) \/ flags.nohw

BuildTypeOK ==
  /\ TypeOK /\ Nv!TypeOK /\ Wstr!TypeOK /\ Align!TypeOK /\ Const!TypeOK /\ DeadC!TypeOK
  /\ Calls!TypeOK
  /\ flags \in BuildFlags /\ builds \in 0..MaxBuilds
  /\ phase \in {"idle", "gates", "assemble", "resources", "exe", "dll", "normalise",
                "publish", "ok", "failed"}
=============================================================================

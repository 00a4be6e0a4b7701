# Myrkr in TLA+

Myrkr (`src/src/*.asm`) is a Windows archiver written in x64 assembly: it packs files
into an encrypted container (`.mrk`), lists, extracts and edits containers, splits them
over volumes, hands single entries to Explorer by drag and drop, and reads and writes
ZIP. Its build (`src/build.cmd`) runs a set of source checkers (`src/tools/*.py`) that
stand in for the compiler an assembly program does not have. This directory models the
parts whose correctness depends on the order of steps, of several users of the same file,
or on a failure in the middle, and the checkers, whose verdicts the program rests on;
checks them with TLC; and proves theorems about them with TLAPS.

## 1. Inventory

| Component | Source | State | Operations | Hard because |
|---|---|---|---|---|
| Sealed sink | `pack.asm` (`sink_write` .. `idx_write`, `do_pack`) | sink buffer, segment and entry counters, inventory, `g_packerr` | feed, flush, roll a segment, close an entry, list it, write the inventory | nonces must never repeat; an error must stop everything behind it; sizes meet boundaries |
| Entry stream | `estream.asm` (`es_bind`, `es_raw_refill`) | position, stream number, bytes left in the stream | bind to an inventory record, refill, verify a tag | recomputes from an extent what the writer did |
| Volume writer | `volume.asm` (`vol_*`), `do_pack` | one set of globals `g_vol_*` for the process | begin, write, roll, finish, settle to a plain file, discard | several files for one container, crash between any two, globals outlive the run |
| Volume readers | `volume.asm` (`vset_*`, `vs_*`, `vol_get`) | one assembled set for the process, a count of its users | open, join, read across parts, close | stale parts on the disk, one table for several users |
| Container edits | `pack.asm` (`idx_read`, `do_add`, `do_delete`, `do_remove_marked`, `native_rewrite`) | snapshot of header, tail, key and index; a temporary file | read, lock, check, rewrite under a new key, exchange | other processes, cancel, kill, power loss between any two steps |
| Extraction | `pack.asm` (`do_unpack`, `unpack_entry`, `commit_temp`), `fileio.asm` (`file_rename`) | the destination folder, a temporary sibling per file, entries written, `g_unpack_partial` | open, decode, verify, rename, discard | a failure or a cancel between entries, a kill or a power cut between tag and rename, names that exist or are held |
| Window and jobs | `gui.asm` (`enter_running`, `worker_thread`, `on_done`, `wndproc`) | mode, job kind, `g_running`, password, key, action button, posted messages | start, launch, edit, cancel, finish, close | window thread against worker thread; the worker reads globals after the click |
| List of inputs and its scans | `gui.asm` (`append_input`, `refresh_inputs`, `indexer_thread`), `pack.asm` (`pack_input_top`, `pack_node`, `size_input_top`) | `g_positionals`, `g_scanning`, `g_walk` | add, remove, scan, walk | scans and packs walk with the same globals |
| Message boxes | `gui.asm` (`mbox`, `mb_wndproc`) | `g_mb_hwnd`, `g_mb_done`, `g_mb_result` | open, press, return | a loop within a loop over one set of globals |
| Progress | `progress.asm` | counters, `g_prog_abort` | begin, add, abort, done | cancel from another thread |
| Log | `ramlog.asm` | a growing buffer | append, flatten, wipe | grows while it is read |
| Drag-out | `estream.asm` (`es_create`, `es_drag`, `es_pump`) | COM objects with counts, a shared scratch buffer | read, seek, release | calls come from another process, after the window moved on |
| ZIP | `zip.asm`, `unzip.asm`, `archive.asm` | central directory, temporaries | write, append, delete, extract | an append goes behind the old end-of-directory record, and a failure cuts it off again |
| Codecs, ciphers, hashes, RNG | `deflate.asm`, `inflate.asm`, `aesgcm.asm`, ... | local | pure | arithmetic, not order |
| Build gates | `tools/framecheck.py`, `nvcheck.py`, `wstrcheck.py`, `aligncheck.py`, `constcheck.py`, `deadcode.py`, `wincallcheck.ps1`, `floors.py` | what a scanner has noted of the lines so far: frame, saves and restores, offsets, folded constants, references | read a line, judge, count | the verdict is about every order of lines an author may write, and no test of the program reaches a line the scanner misreads |
| Build script and release images | `build.cmd`, `tools/pe_normalise.py`, `tools/make_menu_bmp.py` | arguments, images in `bin`, the published hashes | check, assemble, link, normalise, publish | a step that fails in the middle or whose failure nobody looks at, a tool that is missing, two builds that should be one |
| Packaging and comparison | `tools/*.ps1` | - | call system tools | - |
| Shell extension, command line, console, hardening | `shellext.asm`, `main.asm`, `cmd.asm`, `log.asm`, `secdesk.asm`, `secmem.asm`, ... | little | start the program, parse, print, call Windows | - |

How they meet: `do_pack` drives the sealed sink, whose bytes go through `vol_put` to a
volume or to the caller's handle; `native_rewrite` decodes the source with entry streams
and seals into the same sink; the readers reach every container through `vset_open` and
`vol_get`; the window starts each operation on a worker thread and raises
`g_prog_abort`.

What makes each correct, in the words the models check:

* a key never seals two streams under one nonce, and a success lists everything it sealed;
* every listed entry reads back from its record alone;
* a set that opens is one container, whole, whatever else lies on the disk;
* a success can be opened; a failure leaves nothing of itself, and what was there stays;
* to whoever looks at a container's name, an edit happens at once or not at all, and no
  edit is lost to another one;
* the worker does what was asked for, over inputs that stand still, and what it leaves
  behind is not taken for something else;
* a name in the destination goes from what the user had to a verified file in one step; a
  run that ends by itself leaves no fragment, and a set that is short is announced, but for
  one way to stop;
* what a checker passes does at run time what the checker promises, whatever the lines and
  their order, within the reach that its property names; a strict build that says OK was
  clean, and two releases of one commit have the same images;
* operations end.

## 2. Modules

| Module | Models | Role |
|---|---|---|
| `SealedSink` | the sink, the segments and the inventory of one pack | component |
| `SealedSink_proofs` | `TypeOK`, `NonceOnce`, `SuccessListsAll` | TLAPS |
| `EntryStream` | the reader of entry streams, over a finished `SealedSink` | composition |
| `EntryStream_proofs` | `ListedReadsBack`, `ExtentIsItsSegments` | TLAPS |
| `VolumeSet` | the volume layer as `do_pack` drives it, files on a disk, crashes | component |
| `VolumeReaders` | sets being assembled and read, over `VolumeSet` | composition |
| `VolumeReaders_proofs` | all properties of its passing run | TLAPS |
| `VolumeReuse` | an edit after packs in one process | composition |
| `AtomicContainer` | what an edit promises | abstract specification |
| `ContainerEdit` | the edit protocol, several processes; refines `AtomicContainer` | component |
| `ContainerEdit_proofs` | its safety properties and the refinement | TLAPS |
| `MessageBox` | message boxes, one opened from the loop of another | component |
| `InputWalk` | the list of inputs, the scans of it and the walk of a pack | component |
| `Window` | what the user may start, the worker, the messages; over the two above | composition |
| `Window_proofs` | its safety properties | TLAPS |
| `Extraction` | one extraction after another into one folder | component |
| `Extraction_proofs` | its safety properties | TLAPS |
| `FrameCheck` | one procedure on the machine's stack and in framecheck's picture of it | component |
| `FrameCheck_proofs` | `TypeOK`, `NeverOverstated`, `FramesHold` | TLAPS |
| `NvCheck`, `WstrCheck`, `AlignCheck`, `ConstCheck`, `DeadCode`, `WinCallCheck` | the other checkers, each beside what it is about | components |
| `Floors`, `MenuBmp`, `PeNormalise` | the floors of the checkers, the menu bitmap, the normalised image | functions |
| `Build` | the author, the checkers, build.cmd; over all of these | composition |
| `Build_proofs` | all properties of its run | TLAPS |
| `MC*` | small constants for TLC | |

### SealedSink

One action per routine: `TarOut` is `tar_out` (through `csink_write` and `csink_flush`
when compressed, `FrameBlock`), `SinkCopy`/`SinkReturn` the loop of `sink_write`,
`FlushPiece` and `SegRoll` that of `sink_flush_block` and `seg_roll`, `EntryBegin`,
`EntryTag`, `IdxAdd` and `IdxWrite` the routines of those names, `Unwind` and `Finish` the
ends of `do_pack`. Variables keep the code's names (`sinkfill`, `segfill`, `segidx`,
`entnext`, `payoff`, `entoff`, `packerr`). Bytes are counted. `opened` records the nonce of
each stream, `sealed` where each segment lies; nothing in the actions reads them.

A write fails in any call (`PutFails`), with `EXIT_IO` or, when the container no longer
fits the room the volumes have, with the ceiling's code.

### EntryStream

`EsBind` computes the number of streams of an extent (`Streams`), `EsRefill` reads a piece
and `EsTag` checks the tag of the stream: the tag matches when a segment of that nonce,
place and length was sealed. `IdxNextFloor` and `CounterAccepted` are the reader's check of
the writer's counters. `ExtentIsItsSegments` says that the segments sealed under an entry's
ordinal are numbered from zero, lie back to back, and fill the extent its record gives.

### VolumeSet, VolumeReaders, VolumeReuse

The disk maps names to sequences of cells, each cell the byte number of a run, so that
"one container from its first byte to its last" is an equality. The writer's globals are
variables and survive a run, as they do in the window's process; a kill (`Crash`) clears
them and the handles and leaves the files. Handles follow Windows' sharing rules for the
modes the code opens with. The readers assemble a set part by part, with the writer going
on between. `VolGet` is the loop of `vol_get` as a recursive function: `Holder` is the part
its search ends at, `Available` and `Given` what that part has of the request. `VolumeReuse`
adds `native_rewrite`, reduced to the file its bytes land in.

### ContainerEdit

A process goes through `IdxOpen`, `IdxRead` (the inventory is authenticated and the
source closed), `Lock` (opened again, nobody else may write), `Verify` (it is still what
was read, and no name clashes), `CreateTemp`, `CopyEntry` for each entry, `AddInput` for
each input, `WriteIndex`, `Flush`, `Commit` (`ReplaceFileW`). `Close` is `nr_cleanup`. Any
step may fail; the window may raise the abort flag at any time, and the steps that look
at it are those that do in the code. The environment kills a process, cuts the power (a
file that was not flushed is torn), lets another program pack over the name, and lets the
user put a copy of an old container back. A removal names one or more entries, and `Refuse`
is the exit when any of them is not there (`Found`).

The refinement: `AtomicContainer` sees the content under the name (key and set of
entries), how many edits were committed and what was left aside. Its `Edit` replaces a
container by an edit of *that* container, under another key: everything it had and
everything that was asked for, or everything it had but what was to go, and nothing else
(`Additions`, `Removals`). `KeepAside` is a commit that failed; `Overwrite` is the
environment's.

### MessageBox, InputWalk, Window

`stack` is the machine stack of the window's thread as far as `mbox` is on it: each frame
the window it created and what its caller does with the answer (`BoxReturns`). The globals
of `mbox` are the record `mb`. While a frame waits, posted messages are dispatched
(`Dispatch`) and input to the main window is not (`Attends`).

`InputWalk` counts what the two walkers do to `g_walk`: a scan sets it (`ScanInput`), a pack
sets it together with its own name (`PackTop`) and later opens what it holds (`PackNode`).

`Window` has an action for each command (`Act`, `AddInputs`, `RemoveInputs`, `SetFormat`,
`ContainerAdd`, `ContainerRemove`, `Exit`, `About`), for the start from the shell (`Launch`,
`Decline`), for the steps of the worker (`WorkerStart` reads its job, `WorkerBegin` is
everything up to `progress_begin`, `WorkerPack` the walk, `WorkerStop` any end of it,
`WorkerEnd` the message it posts) and for each message (`OnDone` with `JobDone`, `EditDone`
and `FinishDrag`; `OnIndexDone`; `OnAddWarn`). Dialogs that stop the thread until they
close (the picker, the save dialog, the prompt on the secure desktop, which is on by
default) are choices inside a step. The boxes of an extract are not: no destination ends
it, and the question whether a single file may be overwritten waits like any other box and
is answered in `BoxReturns`, where a refusal wipes the password (`sd_wipe`). `asked`, `consent` and `clicked` only observe. What a
job leaves behind and nothing reads before it is set again (`g_cancelled`, `g_prog_abort`,
`g_op_result`, the record of an answered box) is put back to its first value, so that
states which differ in nothing but that are one.

### Extraction

`Begin` is `do_unpack` down to its loop, `Refuse` its exits before it, and `Misfit` the exits
through `du_corrupt` from inside the loop, at a record that runs off the table or whose
extent is not in the payload: they skip `du_partial`, so what is out already is not
announced, and `ShortSetIsSaid` names that exception; `Skip`,
`OpenVerify`, `OpenBare`, `OpenFolder`, `OpenSibling` and `OpenUnsafe` are the ways
`unpack_entry` starts on an entry; `Consume` and `ConsumeEmpty` a turn of `ue_loop`
and `ue_empty`; `Close`, `Commit` and `Finish` are `ue_close`, `commit_temp` and
`du_entries_done`; `Fail` is `ue_fail` with `du_entry_err` and `du_partial`. A path names a
content and whether it has reached the disk: `file_rename` flushes first when the new name
exists, `LazyWrite` is the system getting to it by itself, and `PowerCut` turns what it has
not got to into zeros. Other programs hold some of the names open (`held`), so a rename may
be refused.

The model takes the temporary for the program's own: nobody else opens it, and no other
program creates the real name between the probe of `file_rename` and its move. A flush
that fails is not noticed by the code (best effort) and is not modelled.

### The build gates

Each checker reads the sources a line at a time and keeps notes. Its module has an action
for each kind of line the checker tells apart, and the action does two things: what the
line does on the machine (or in the assembler) and what the checker notes of it. The
properties then compare the verdict with the machine. Regular expressions and
tokens are abstracted to the kinds of line they separate.

* `FrameCheck`: `depth` is the stack, `hurt` what a line overwrote or misread; `extra`,
  `widest`, `worst` and `results` are the scanner's. `Grow`, `Shrink`, `WinCall`, `Store`,
  `Exit`, `BaseExit` are lines, `EndProc` the verdict on a framed procedure. `Unjudged`
  names every way to do harm that no rule looks at.
* `NvCheck`: one callee-saved register, its save slot, the pushes and a branch; `tricks`
  names the shapes a line-by-line reading cannot follow.
* `WstrCheck`: how many lines ago the scanner saw `r8` set (`since`), and what `r8` holds and
  for how many lines (`age`). The lines looked back over have no beginning but the file's, so
  `since` may start anywhere: the procedure in front may have set `r8`. Nor does the
  scanner see a call or a label in between. What is left to promise is that the cause is near
  (`LostBoundIsNear`).
* `AlignCheck`: a section's declarations with the offsets the assembler gives them and
  those the checker computes; `blind` and `odd` say where it loses count.
* `ConstCheck`: constants in two sources, folded by `fold` (`Known`) and by the assembler
  (`Assembled`), and the places that show the version. A `Pass` folds the definitions in
  their order and `Read` repeats it: constcheck `Readings` times (four in the code), the
  assembler until nothing is new, which takes no more readings than there are definitions
  besides. The two differ in `/` and in what they fold at all (`Python`, `Assembler`).
  `InReach` says, without reading anything, which constants the tool can follow to a number:
  `MirrorsAgree` is about what the two objects have, not about what the tool resolved, and
  excepts only what is out of that reach. Of a version the tool compares three fields (`mmp`),
  and of the resource scripts those that are there (`DropScript`).
* `WinCallCheck`: the `WINCALL` macro assigns the arguments of a call one after the other
  (`Assign`), and `gone` are the registers that have lost what the author meant by then.
  The scanner has its list of what each argument must not read (`Danger`). A call
  continued on the next line is parsed as far as its first (`cut`, `Seen`).
* `DeadCode`: symbols with definitions and uses, and an author who deletes what was announced.
* `Floors`: when a checker counts less than half of what it used to, or no longer reports
  a count, it fails.
* `MenuBmp`: the bitmap made from the icon, the one `rc` embeds, and what `--check` compares.
* `PeNormalise`: what is replaced in an image and the faults that stop it.

`Build` extends `FrameCheck` and has the others as instances over variables of the same
names. The author works on one topic of the sources per behaviour (`topic`), because the
checkers share no state; then the script runs: `Gates`, `Assemble`, `Resources`, `LinkExe`,
`LinkDll`, `Normalise`, `Publish`, in the ways `build.cmd` may be called (`GateBuilds`,
`ImageBuilds`). Under the topic `reach` a checker has lost half of a count, or no longer reports
it (`Losses`); under `calls` wincallcheck may have lost reach in a way no floor shows, because
it counts its sites by a pattern other than the one it parses them by (`Unparsed`).
`Publish` writes what the four unchecked commands of the script leave in `SHA256SUMS.txt`
when any of them fails: the file may be begun anew or not, and each hash may be there or
not. The tools of the Windows kit are modelled by what the script relies on.

## 3. Runs

| Run | Question | Bounds |
|---|---|---|
| `entry_stream` | does a pack repeat a nonce, lose an entry, or write what its reader cannot read? | 3 entries of up to 9 bytes against buffers of 8 and segments of 4 and 8, so that a boundary falls inside a buffer, on its end and on the end of an entry; an inventory with room for 2; a room that overflows |
| `volume_set` | can a set open that is not one container; can a success be unreadable or a failure leave something; do two users of one table read the container they opened? | two names, two runs (under one name the first is the stale set of the second), up to 3 parts and a ceiling that is reached (7 bytes in parts of 2), a kill at any step, two users of the assembled set; names and handle values are symmetric |
| `container_edit` | are edits atomic, and do they end? | two processes, add and remove, removals of any of the names, containers that start empty or with one entry, three containers in all: an edit against an edit, a pack, or a restored copy |
| `extraction` | does a name ever hold less than a verified file, does a run leave fragments, is a short set announced? | two entries of 0, 1 or 2 chunks, each sound or not, file or folder, its name safe or not, its record one that fits, runs off the table, or is not in the payload; two suffixes for the temporary, so that it is taken or free; two runs, one kill or power cut; every selection |
| `build` | do the verdicts of the checkers hold on the machine; is a strict build clean; are releases reproducible? | frames of 40 and 64 with 0 or 24 bytes of locals, 2 lines; 6 lines for a register; a look-back of 8 lines before 2 copies; 4 declarations in 2 sections; 3 constants in 2 sources and 2 readings, so that some chains are folded in the last and some in none; 2 edits of versions; 4 symbols; a call of up to 6 arguments, on one line or two; a picture of 2 by 2; two builds with two times, identifiers and paths |
| `frames_unscanned` | finding: a raw procedure with a late prologue is not looked at | frames of 40 and 64, locals of 0, 8 or 24, all shapes |
| `discard_own` | finding: a failing pack deletes an earlier set | two names, two runs |
| `edit_after_failed_pack` | finding: an edit writes to a handle a pack left | three runs, two handle values |
| `window` | does the worker do what was asked, whatever happens around it; does every job end? | one folder to add, two inputs, two scans at once, two boxes, all five ways to start |
| `walked_by_two` | finding: a file is packed under the name of another input | as `window`, two folders |
| `confirm_answered` | finding: a warning's OK confirms an edit | as `window`, starting with an archive |
| `job_left_behind` | finding: an edit whose thread was not created runs in place of the next extract | as `window`, starting with an archive, threads may fail to start |

Why the bounds are enough: the sealed sink's decisions compare byte counts with a block, a
segment and a limit, and every comparison is met from both sides; the volumes' decisions
are about the first, a middle and the last part and one stale set; an edit protocol that
loses an update does so with two edits and one foreign write; in an extraction an entry
meets the one before it and the remains of the run before, nothing older; a checker's
verdict depends on a line and what is noted of those before it, and every pair of kinds of
line occurs (`FrameCheck` is proved for any number of them); the window has one job at a
time, and what can meet it is one message of each kind, two scans (a third waits as the
second does) and a box opened from the loop of another. More of any repeats what the
small instance has. One bound cuts behaviour off: a box that was opened under another is
never destroyed by the code (the inner one's end ends both loops), so such boxes pile up;
the About box and the warning of a refused drop are opened only when none is left over
(`Tidy`), which keeps `MaxBoxes` from ever standing in the way of a message.

The runs of the volumes, the extraction and the build do not check deadlock: the bounds on
runs, lines and builds end them. Nor do the window's: the program may be closed.

### Findings

The violation runs each show the code doing other than its own comment or document says:

1. `discard_own`: `vol_discard` trusts `g_vol_split` and `g_vol_base`, which only
   `vol_begin` sets, so a pack that fails earlier than that discards the parts of the
   previous, successful set.
2. `edit_after_failed_pack`: `g_vol_on` stays set after an unsplit pack fails, and `vol_put`
   then prefers the stale handle.
3. `walked_by_two`: a pack opens `g_walk`, which a scan on another thread may just have set
   to another input. The action button is not disabled by an addition, and a start from the
   shell or an addition to an archive does not wait for the scan.
4. `confirm_answered`: the three globals of `mbox` belong to whichever box is innermost; an
   answer to a warning that opened over a confirmation answers both.
5. `job_left_behind`: `er_fail` does not reset `g_wt_job`, which only `on_done` does.
6. `frames_unscanned`: the prologue of a raw procedure is looked for in its first six lines,
   comments included; where it stands later (`dr_seg`, `indexer_thread`, `sd_thread`,
   `pg_wndproc` in `gui.asm`) the procedure is skipped without a word.

### Observations

Met while reading, with no run of their own:

* Sealed sink: `entry_end` and `idx_write` flatten the code `vol_put` returned
  (`pack.asm:1329`), so the volumes' ceiling is reported as an I/O error.
* Window: `od_restore` wipes `g_cfg_pass` after an extract from the container view and
  leaves `g_pw_ready`, so the next job uses zeros.
* Extraction: `du_corrupt` from inside the loop (`pack.asm:4639`, `4645`, `4669`, `4676`)
  neither sets `g_unpack_partial` nor says that the set is short, when earlier entries are out
  already. `docs/SECURITY.md:262-270` says of any failure that the program does say so. The
  inventories that reach it are authenticated ones that do not fit their container. The comment
  at `pack.asm:4057-4060` on `bare_part_path` does not agree with `ue_openout`
  (`pack.asm:4226-4232`). Folders and parents are made before the tag is checked, so
  "a failure on the very first entry left nothing behind" (`pack.asm:4771-4772`) holds of
  files only, and the result of `CreateDirectoryW` is ignored. The bare extraction
  truncates, and on failure deletes, a user's own `X.part`.
* framecheck: the rules that `Unjudged` lists; a `mov rsp,rbp` exit leaves the scanner's
  total eight too low, which errs on the safe side (`NeverOverstated`).
* nvcheck: the shapes in `tricks`.
* aligncheck: a `CSTR` is taken for text and a NUL, and the macro emits none; the scalars
  it reports do not enter its exit code, and a declaration it cannot size does not gate.
* wstrcheck: its eight lines (`wstrcheck.py:62`) run over the beginning of a procedure, calls
  and labels, so a copy may pass on a bound that is another's or no longer there.
* constcheck: `/` divides exactly where the assembler truncates; a chain of names of which
  more than three are defined below their use is never folded, and so never compared
  (`constcheck.py:93`); the same holds of `sizeof`, shifts and characters. The fourth field of
  a version is dropped (`constcheck.py:121`); a version string that is not required, and a
  missing `myrkrshell.rc`, are passed over (there `rc` stops the build).
* wincallcheck: a call continued with a backslash is read as far as its first line, and the
  sites it reports to the floor are counted by `^\s*WINCALL` (`wincallcheck.ps1:73`), not by the
  pattern that parses (`:45`), so a loss of reach in the parser shows nowhere. It does
  not know `ah` and `dh`.
* deadcode: references in the body of a structure or in another case do not count; symbols
  that only refer to themselves or to each other are kept.
* build.cmd: `SHA256SUMS.txt` is written by four commands whose results nobody looks at
  (`build.cmd:293-296`). When the file cannot be written, or `certutil` fails, the script still
  says `BUILD OK` (`:302`), with a missing hash or an earlier release's. `Reproduces` therefore
  speaks of the releases that could begin the file anew, and of the hashes they list. Also,
  the file of an earlier release stays beside the images of a later build that is not one.

## 4. Fairness

`ContainerEdit` and `Window` state some. In `ContainerEdit`: weak fairness of each process's own steps. A worker
thread that can run does; nothing it waits for is held for ever, because an open that
meets another process's handle fails at once and is not retried. Cancels, kills, power
loss, packs and restores are never required. In `Window`: weak fairness of the worker thread
and of the window's thread taking what was posted, since both run while they can; the user
need do nothing, not even answer a box, and the scans need not end. All other
specifications are safety only.

## 5. Proofs

Every invariant and action property of the passing runs is also a theorem, for all values
of the constants: any number of processes, names, parts, entries, inputs and boxes, any
sizes and limits, code and data of any length. `EditsAreAtomic`, the refinement, is one of
them. Each module states an inductive invariant (`IInv`; `ReadIInv` for the readers of entry
streams, `GatesInv` and `ScriptInv` for the build), proves that it holds at the start and
that every step keeps it, action by action, and reads the properties off it. The theorem
`Invariant` of a module says that it holds always.

### SealedSink_proofs

`TypeCorrect`, `NonceUniqueness`, `SuccessListed`. That an ordinal is fresh depends on where
the pass is, so `NonceOnce` needs `PlaceInv` (the place of the pass agrees with the
counters), `OrdinalInv` (an open stream belongs to the ordinal `entnext`, and there are
fewer than `MaxEntries`) and `UsedInv` (every nonce used so far is of an earlier entry, of
an earlier segment of this one, or of the inventory, which is last). A step either opens no
stream (`QuietStep`) or is one of the three that do. `ListInv` says which entries are
accounted for at each place, `ErrorInv` that an error never ends in success. The one
assumption that matters is that the inventory's counters start above every entry's:
`MaxEntries < NonceBase`, which the code has by `IDX_NONCE_BASE`.

### EntryStream_proofs

`EntriesReadBack`, `ExtentsAreSegments`. The writer rolls segments as it goes; the reader has
a place and a length and divides. `LayoutInv` counts for the writer: the open entry has so
many full segments behind it, back to back from the start of its extent, and the open
segment holds something or is about to, so that an entry that ends at a boundary has no
empty last segment. Hence a rounding division of the extent by a segment and its tag gives
the number of segments back (`StreamsAre`). `ReaderInv` then places an open stream in the
segment it is reading, with what it has left.

### VolumeReaders_proofs

All seven properties of `volume_set`, the action property among them, under
`VolumeAssumption`. What makes an open set one container is said by `SetsInv`, of every name
and every run, and whatever was crashed, discarded or overwritten: the parts that carry one
`set_id` are slices of the container of that run, cut at the multiples of one limit; of
these only the last can be short or final. `WrittenInv` says what the run in progress has
written at each place of `do_pack`, the shift of a single part down to a plain file
included; `PlacedInv` that no byte of it is anywhere but where `vol_discard` and `dp_done`
will look; `OpenInv` which handles are open for writing; `ReadersInv` that what a reader has
in its table is on the disk and open for nobody's writing. The last is what the sharing
modes are worth: it is why a writer never changes a set under its reader.

`ReadsAreTheContainer` is about the loop of `vol_get`: `StartIs` places the parts of a table,
`HolderIs` shows that some part holds every offset of the container, `GivenIs` what it gives,
and `VolGetIs` joins the turns.

The proof found a slip of the model, since mended: in `VsetOpen` the hypothesis of the guard
on the pack's place had swallowed the guard on the reader's state, so that a process could
open a set over one it had open.

### ContainerEdit_proofs

`TypeCorrect`, `NonceUnique`, `NextStreamIsNew`, `KeptStays` and `EditsRefineAtomic`, for any
number of processes, under `EditAssumption`. The invariant says what the lock is worth. `Exclusive`: one process holds
a source, and nobody reads it; temporaries are nobody else's. `HoldInv`: a held source is the
file under the name, and from the check on it is what was read. `TempInv`: a temporary has a
key of its own, is whole when its index is written and on the disk when it is flushed, and
its next stream was not opened before. `CopyInv`: it contains, at each place of
`native_rewrite`, what was copied of the snapshot and added so far. With `NameInv` (the file
under the name is whole, flushed and nobody's temporary) the commit is an edit of the
container it replaces: an abstract `Edit` or `KeepAside`; a pack or a restored copy is an
`Overwrite`; every other step stutters.

### Extraction_proofs

`TypeCorrect`, `LeavesNothing`, `ShortSetsAreSaid`, `OldOrWhole`, under `ExtractionAssumption`:
names are the inventory's, suffixes of temporaries are not those of names. `OutInv` says
where the bytes of an entry go in each mode, `OwnInv` that a run that goes on has nothing
outside the names but its open output (and what a killed run left before it), `SoundInv` and
`DoneInv` that a name only holds a verified entry, and each picked one that was passed does.
`NothingOfOursLeft` and `ShortSetIsSaid` speak of the ends of a run and need `RunInv` and
`FirstInv` for the way there.

### Window_proofs

`TypeCorrect`, `CancelIsKept`, `KeyIsInUse`, `NoExit`, `InputsStand`, and under the hypothesis
`~SpawnFails` also `JobAsAsked` and `ArchiveStaysUsable`. `RunInv` is the centre: `g_running` is
set exactly while there is a worker or its `WM_APP_DONE` is in the queue, and never both.
`FrameInv`: of the boxes on the machine's stack at most one is waited for by a caller that
goes on with more than returning, and while there is one no job runs. `PutBackInv` bounds
where an addition that was declined cuts the list off again; `WorkInv`, `ModeInv` and `KeyInv`
tie the worker, the mode and the key together. The hypothesis is the constant of the model
that lets `CreateThread` fail, and the code needs it: where it fails the two properties do not
hold, which the run `job_left_behind` shows.

### FrameCheck_proofs

`FrameTypes`, `FrameNeverOverstated` (the frame framecheck computes never exceeds the
machine's in a procedure it has not condemned) and `CleanFramesHold` (what it passes
overwrites neither its return address nor its locals, save in the listed ways), under
`FrameCheckAssumption`: sizes, arguments, stores and gaps are naturals. `FramesHold` speaks of
the end of a procedure. `IInv` adds what is true on the way there: `RawInv` (a raw procedure
without a finding so far has done no harm that is judged, because each line is judged where
it stands and the frame is never overstated) and `FramedInv` (a framed one is judged at its
end, so until then every harm done is no wider than the widest calls the scanner remembers).

### Build_proofs

Under `SourcesAssumption` (counts and sizes are naturals, the sets of sources, names and
symbols are finite, roots are listed) and `BuildAssumption` (the icon has a picture, and its
bytes are bytes). Checkers and script share no variable but the sources, so a step of the
build is a step of each checker's own specification or leaves it alone (`GateSteps`), and
each checker has an invariant of its own:

* `RegistersSurvive`: while no trick was played, the scanner's three notes decide what the
  register, the stack and the slot can hold (`Plainly`);
* `CopiesAreBounded`: what `r8` holds is never older than the scanner's count of lines,
  unless it is the limit; so a copy without a limit whose cause is further away than the
  look-back is counted;
* `DataIsAligned`: in a section the scanner has not lost, its offset is the assembler's;
* `MirrorsHold`: a reading keeps what was known before it (`ReadingsGrow`), and what is folded
  is folded by the name's own definition (`ReadOwn`, `FirstOf`). Along the way that `InReach`
  gives, each definition is known by the reading it is assigned to, with the value the
  assembler has (`WayIsKnown`, `ReachAgrees`); so a name within reach in two sources is
  mirrored, and in a tree without findings has one value;
* `ArgumentsAreKept`: while a call is made, every register that is `gone` is in `Danger` of the
  argument assigned next (`DangerIs`), so an argument on it was reported;
* `SweepIsSafe`: the target of every reference is defined while its user is, so that the
  definitions are closed under what the tool reads;
* `FramesOfABuild`: the result above, where the steps of the script come between.

`ScriptInv` is over the phases of `build.cmd`: after the gates of a strict build the sources
are clean (`CleanInv`); each image that was linked is well formed and marked (`ImagesInv`);
and the images of a release are a function of the commit and the arguments alone, of which
a file begun anew holds hashes and nothing else (`ReleaseInv`); from which
`StrictBuildsAreClean`, `ReleasesReproduce`, `ShadowStackIsKept` and `BuildTypes` follow.
`LossIsSeen` is about the floors: a checker that counts less than half of what it used to,
or no longer reports a count, is noticed.

### How recursion is proved about

`FlattenSeq`, `Start`, `VolGet`, `Pass` and `Read` are recursive functions. That there is a
function that satisfies the recursion is shown by giving one (`VolGetIs`, `StartIs`,
`FlattenIs`) or, where its values are not known beforehand, as the last of its finite pieces
(`ChainExists`); that any two agree, by the least index at which they could differ
(`LeastOf`, from `NatLessThanWellFounded`). Everything that is `CHOOSE`n, recursive functions
included, is handled in a leaf of its own by Zenon, from the existence of what is chosen: the
SMT translation of this version of tlapm takes more of a `CHOOSE` than it says, and no leaf
left to it has one in sight.

### What is model-checked only

* Liveness: `CommandsEnd` of `ContainerEdit` and `JobEnds` of `Window`, under the fairness of
  section 4.
* The properties of the violation runs, which do not hold.
* `VolumeReuse`, whose one run is a violation, has no theorem.

## 6. Not modelled

* Codecs, ciphers, hashes: pure computation over data; the models take them as ideal (a
  tag matches exactly when key, nonce and bytes are those that were sealed).
* Parsing of tar headers, names and foreign archives; formatting; drawing.
* Of the window: drawing, selection and navigation, the settings panel but for the format,
  the password field in the window (used when the secure prompt is switched off), a box or
  a list that Windows fails to create, and drag-out.
* Of extraction: links, whose guard is a refusal with its code; name mapping and the probe
  of free space, which are codes of `Refuse` and `OpenUnsafe`.
* Of the build: tokens, regular expressions and wording; the assembler, linker and resource
  compiler beyond what the script relies on; stack slots of a `WINCALL` that lie over the
  memory an argument names; the PowerShell tools but wincallcheck.
* The parts marked as planned in section 7.

## 7. Plan

In order of weight:

1. Drag-out: streams with counts over one container, the shared scratch buffer, the key
   that lives as long as the last stream.
2. ZIP append and delete: behind the old directory record, cut off on failure; refinement of the same
   abstract container.
3. Log and progress: one appender, one reader, a buffer that moves.
4. Proofs: `VolumeReuse` without the failed pack (an edit lands in its own file when no pack
   failed before it); `InputWalk` without the second walker; the second and third items'
   refinements.

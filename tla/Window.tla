-------------------------------- MODULE Window --------------------------------
(***************************************************************************)
(* The window of src/src/gui.asm: what the user may start, the worker      *)
(* thread that does it, and how its end is handled.                        *)
(*                                                                         *)
(* The window's thread handles one message at a time.  Posted messages     *)
(* (WM_APP_DONE from the worker, WM_APP_INDEXED from an indexer thread,    *)
(* WM_APP_ADDWARN from itself) are taken before input, and also by the     *)
(* loop of a message box, while input to the window is not: a box disables *)
(* it.  The picker, the save dialog and the password prompt (SecureDesktop *)
(* is on, its default) are choices within a step.  Of the engine there is  *)
(* what it does to the globals the window shares with it.                  *)
(***************************************************************************)
EXTENDS InputWalk, MessageBox

CONSTANTS
    Starts,       \* how the program may be started
    SpawnFails    \* whether CreateThread may fail in enter_running

ASSUME StartAssumption ==
    /\ Starts \subseteq {"empty", "files", "drag", "unpack", "archive"}
    /\ SpawnFails \in BOOLEAN

VARIABLES
    mode,       \* launch, dragged: before gui_main's start; main; drag: the
                \* progress window of a right-drag; closed
    op,         \* g_op: 0 encrypt, 1 decrypt
    container,  \* g_container: an archive is being browsed
    isZip,      \* g_is_zip
    makeZip,    \* g_make_zip
    enabled,    \* the action button is enabled
    queue,      \* messages posted to the window
    running, cancelled, abort,   \* g_running, g_cancelled, g_prog_abort
    job,        \* g_wt_job: 0 encrypt or decrypt, 1 add, 2 remove
    caPos,      \* g_ca_poscount: the inputs to go back to after an add
    worker,     \* the worker thread: off, start, begin, work, end
    action,     \* what it took its job to be
    result,     \* g_op_result
    pass,       \* g_cfg_pass: none (g_cfg_passlen is 0), typed, wiped
    ready,      \* g_pw_ready
    key,        \* g_key holds a key
    asked,      \* what the user asked for, until it is done
    consent     \* the user agreed to it, where the code asks

viewVars   == <<mode, op, container, isZip>>
jobVars    == <<running, cancelled, abort, worker, action, result>>
secretVars == <<pass, ready, key>>
vars == <<walkVars, boxVars, viewVars, makeZip, enabled, queue, jobVars, job, caPos,
          secretVars, asked, consent>>

EXIT_OK        == 0
EXIT_IO        == 2
EXIT_AUTH      == 3
EXIT_PARTIAL   == 10
EXIT_CANCELLED == 11

NoAction == "none"
Actions  == {"encrypt", "zip", "extract", "add", "remove", NoAction}
-----------------------------------------------------------------------------
(***************************************************************************)
(* What detect_op, create_controls and, for an archive that is browsed,    *)
(* container_load leave.                                                   *)
(***************************************************************************)
Started(how) ==
    /\ mode = CASE how = "files" -> "launch"
                [] how \in {"drag", "unpack"} -> "dragged"
                [] OTHER -> "main"
    /\ container = (how = "archive")
    /\ op = IF how \in {"archive", "unpack"} THEN 1 ELSE 0
    /\ isZip \in IF op = 1 THEN BOOLEAN ELSE {FALSE}
    /\ \/ op = 1 /\ inputs = <<Archive>>
       \/ how = "empty" /\ inputs = <<>>
       \/ how \in {"files", "drag"} /\ inputs \in {<<f>> : f \in Folders}
    /\ scanning = (op = 0)
    /\ \E first \in Scanners :
          scans = [s \in Scanners |-> IF op = 0 /\ s = first THEN 0 ELSE -1]
    /\ enabled = (op = 1)
    /\ pass \in (IF container THEN {"typed"} ELSE {"none"})
                    \cup (IF isZip THEN {"none"} ELSE {})
    /\ ready = (pass = "typed")
    /\ key = (container /\ ~ isZip)

Init ==
    /\ BoxesInit
    /\ \E how \in Starts : Started(how)
    /\ makeZip \in BOOLEAN
    /\ walk = NoFolder /\ packing = [done |-> 0, named |-> FALSE] /\ packed = <<>>
    /\ queue = <<>>
    /\ running = FALSE /\ cancelled = FALSE /\ abort = FALSE /\ job = 0
    /\ caPos = 0 /\ worker = "off" /\ action = NoAction /\ result = EXIT_OK
    /\ asked = NoAction /\ consent = TRUE
-----------------------------------------------------------------------------
(***************************************************************************)
(* The window takes input: no box over it, nothing posted to take first.   *)
(***************************************************************************)
Attends == mode = "main" /\ stack = <<>> /\ queue = <<>>
NoJob_unasked == TRUE
NoJob   == ~ running

\* The window with a list (create_controls_enc), not the small decrypt dialog.
HasList == op = 0 \/ container

Post(message) == queue' = Append(queue, message)

\* update_strength, the password being asked for elsewhere.
Strength(list, scan) == ~ scan /\ list # <<>>

\* enter_running: which job it is, the worker reads for itself.
EnterRunning ==
    \E spawned \in {TRUE, ~ SpawnFails} :
        /\ running' = spawned
        /\ cancelled' = FALSE /\ abort' = FALSE
        /\ enabled' = FALSE
        /\ worker' = IF spawned THEN "start" ELSE worker
        /\ UNCHANGED <<action, result>>

Asked(what, agreed) == asked' = what /\ consent' = agreed

\* read_password: the one collected before, or the prompt, which refuses what
\* the policy does; nothing at all is an answer for a zip.
PasswordRead(p, plain) ==
    p \in CASE ready -> {pass} [] plain -> {"typed", "none"} [] OTHER -> {"typed"}

\* check_password_policy: zeros are one class of character, fewer than it asks.
MeetsPolicy(p) == p = "typed" \/ (p = "none" /\ makeZip)

StartEncrypt ==
    /\ inputs # <<>>
    /\ PasswordRead(pass', makeZip)
    /\ IF MeetsPolicy(pass')
       THEN /\ EnterRunning /\ UNCHANGED boxVars
            /\ Asked(IF makeZip THEN "zip" ELSE "encrypt", TRUE)
       ELSE /\ OpenBox({"ok"}, [then |-> "nothing"])
            /\ UNCHANGED <<enabled, jobVars, asked, consent>>

\* The destination of the small dialog may have been emptied; a container of one
\* bare file asks before it replaces a file.
StartDecrypt ==
    \/ /\ mode = "main" /\ ~ container
       /\ OpenBox({"ok"}, [then |-> "nothing"])
       /\ UNCHANGED <<enabled, jobVars, pass, asked, consent>>
    \/ /\ IF isZip /\ pass = "none" THEN pass' = "none" ELSE PasswordRead(pass', FALSE)
       /\ \/ /\ EnterRunning /\ UNCHANGED boxVars
             /\ Asked("extract", TRUE)
          \/ /\ ~ isZip
             /\ OpenBox(Buttons, [then |-> "extract"])
             /\ UNCHANGED <<enabled, jobVars, asked, consent>>

\* The save dialog and the prompt may be cancelled: then nothing happens.
StartOperation == IF op = 0 THEN StartEncrypt ELSE StartDecrypt

\* wp_action
Act ==
    /\ Attends /\ enabled /\ NoJob
    /\ StartOperation
    /\ UNCHANGED <<walkVars, viewVars, makeZip, queue, job, caPos, ready, key>>

\* gui_main: what came with the program is begun without a button.  A right-drag
\* gets a progress window when one can be made.
Launch ==
    /\ mode \in {"launch", "dragged"}
    /\ mode' \in {"main"} \cup (IF mode = "dragged" THEN {"drag"} ELSE {})
    /\ StartOperation
    /\ ready' = TRUE
    /\ UNCHANGED <<walkVars, op, container, isZip, makeZip, queue, job, caPos, key>>

\* ... unless the user does not say where to, or gives no password.
Decline ==
    /\ mode \in {"launch", "dragged"}
    /\ mode' = "closed"
    /\ UNCHANGED <<walkVars, boxVars, op, container, isZip, makeZip, enabled, queue,
                   jobVars, job, caPos, secretVars, asked, consent>>
-----------------------------------------------------------------------------
(***************************************************************************)
(* The list of inputs.  append_input refuses what does not fit.            *)
(***************************************************************************)
Appended_unbounded(folder) ==
    IF folder = NoFolder THEN inputs ELSE Append(inputs, folder)

Appended(folder) ==
    IF folder = NoFolder \/ Len(inputs) >= MaxInputs THEN inputs ELSE Append(inputs, folder)

\* bound: a box of no consequence opens only when none is left over.
Tidy == boxes = <<>>

\* WM_APP_ADDWARN, behind a pick or a drop some of which was refused.
Warn(refused) == IF refused THEN Tidy /\ Post("addwarn") ELSE UNCHANGED queue

\* add_via_picker, add_dropped: a picker that was cancelled refreshes all the same.
AddInputs ==
    /\ Attends /\ NoJob /\ ~ container /\ op = 0
    /\ \E folder \in Folders \cup {NoFolder}, refused \in BOOLEAN :
        /\ Refresh(Appended(folder))
        /\ Warn(refused)
    /\ UNCHANGED <<boxVars, viewVars, makeZip, enabled, jobVars, job, caPos, secretVars,
                   asked, consent>>

\* remove_selected, clear_inputs: not while the list is being read.
ListIsStill == ~ scanning

RemoveInputs ==
    /\ Attends /\ NoJob /\ ~ container /\ op = 0
    /\ ListIsStill /\ inputs # <<>>
    /\ \E list \in {<<>>} \cup {RemoveAt(inputs, i) : i \in DOMAIN inputs} : Refresh(list)
    /\ enabled' = FALSE
    /\ UNCHANGED <<boxVars, viewVars, makeZip, queue, jobVars, job, caPos, secretVars,
                   asked, consent>>

\* set_format
FormatMayChange_running == TRUE
FormatMayChange == NoJob

SetFormat ==
    /\ Attends /\ FormatMayChange /\ HasList
    /\ makeZip' = ~ makeZip
    /\ enabled' = Strength(inputs, scanning)
    /\ UNCHANGED <<walkVars, boxVars, viewVars, queue, jobVars, job, caPos, secretVars,
                   asked, consent>>
-----------------------------------------------------------------------------
(***************************************************************************)
(* Editing the archive that is browsed.  Large edits are confirmed first   *)
(* (confirm_slow_remove).                                                  *)
(***************************************************************************)
\* car_confirmed: the worker walks the longer list, on_done shortens it again.
AddConfirmed(list, pos) ==
    /\ inputs' = list /\ caPos' = pos /\ job' = 1
    /\ EnterRunning

AskFirst(then, pos) == OpenBox(Buttons, [then |-> then, pos |-> pos])

\* container_add, drop_hdrop: container_add_run behind the picker or the drop.
ContainerAdd ==
    /\ Attends /\ NoJob /\ container
    /\ \E folder \in Folders \cup {NoFolder}, refused \in BOOLEAN, large \in BOOLEAN :
        /\ Warn(refused)
        /\ CASE Appended(folder) = inputs ->
                    UNCHANGED <<inputs, boxVars, enabled, jobVars, job, caPos, asked, consent>>
             [] Appended(folder) # inputs /\ large /\ ~ isZip ->
                    /\ inputs' = Appended(folder)
                    /\ AskFirst("add", Len(inputs))
                    /\ UNCHANGED <<enabled, jobVars, job, caPos, asked, consent>>
             [] OTHER ->
                    /\ AddConfirmed(Appended(folder), Len(inputs))
                    /\ Asked("add", TRUE)
                    /\ UNCHANGED boxVars
    /\ UNCHANGED <<scanning, scans, walk, packing, packed, viewVars, makeZip, secretVars>>

RemoveConfirmed == job' = 2 /\ EnterRunning

\* container_remove_selected: idx_read keeps the key, the right one or not.
ContainerRemove ==
    /\ Attends /\ NoJob /\ container
    /\ key' = (key \/ ~ isZip)
    /\ \E opened \in {isZip \/ pass # "wiped", FALSE}, large \in BOOLEAN :
        CASE ~ opened -> UNCHANGED <<boxVars, enabled, jobVars, job, asked, consent>>
          [] opened /\ large -> /\ AskFirst("remove", 0)
                                /\ UNCHANGED <<enabled, jobVars, job, asked, consent>>
          [] OTHER -> /\ RemoveConfirmed
                      /\ Asked("remove", TRUE)
                      /\ UNCHANGED boxVars
    /\ UNCHANGED <<walkVars, viewVars, makeZip, queue, caPos, pass, ready>>
-----------------------------------------------------------------------------
(***************************************************************************)
(* Stopping.                                                               *)
(***************************************************************************)
\* A removal from a zip cannot be stopped.
Stoppable == ~ (job = 2 /\ isZip)

Cancel ==
    /\ cancelled' = TRUE /\ abort' = TRUE
    /\ UNCHANGED <<running, worker, action, result>>

Closes_twice == ~ running \/ cancelled
Closes == ~ running

\* wp_cancel, wp_close, and pgw_close of the progress window.
Exit ==
    /\ Attends \/ (mode = "drag" /\ stack = <<>> /\ queue = <<>>)
    /\ IF Closes
       THEN mode' = "closed" /\ UNCHANGED jobVars
       ELSE Stoppable /\ Cancel /\ UNCHANGED mode
    /\ UNCHANGED <<walkVars, boxVars, op, container, isZip, makeZip, enabled, queue, job,
                   caPos, secretVars, asked, consent>>
-----------------------------------------------------------------------------
(***************************************************************************)
(* The worker thread.                                                      *)
(***************************************************************************)
Chosen ==
    CASE job = 0 /\ op = 0 /\ makeZip -> "zip"
      [] job = 0 /\ op = 0 /\ ~ makeZip -> "encrypt"
      [] job = 0 /\ op # 0 -> "extract"
      [] job = 1 -> "add"
      [] OTHER -> "remove"

Rewrites == action \in {"add", "remove"} /\ ~ isZip
Walks    == action = "encrypt" \/ (action = "add" /\ ~ isZip)

\* A wrong key is noticed before anything is written; a removal from a zip needs
\* none, and one from a container was given its key.
Opens == action \in {"encrypt", "zip", "remove"} \/ pass # "wiped"

windowVars == <<boxVars, viewVars, makeZip, enabled, job, caPos, pass, ready, asked, consent>>

\* worker_thread, up to the call of the job.
WorkerStart ==
    /\ worker = "start" /\ worker' = "begin"
    /\ action' = Chosen
    /\ UNCHANGED <<walkVars, windowVars, queue, running, cancelled, abort, result, key>>

\* progress_begin takes a cancel back, progress_begin_rewrite does not.
AbortAtBegin_cleared == FALSE
AbortAtBegin == Rewrites /\ abort

DerivesKey == action = "encrypt" \/ (action = "extract" /\ ~ isZip) \/ Rewrites

\* The job up to its progress_begin: the key is derived, the space is there.
WorkerBegin ==
    /\ worker = "begin" /\ Opens
    /\ worker' = "work"
    /\ abort' = AbortAtBegin
    /\ key' = (key \/ DerivesKey)
    /\ packing' = [done |-> IF action = "add" THEN 1 ELSE 0, named |-> FALSE]
    /\ packed' = <<>>
    /\ UNCHANGED <<listVars, walk, windowVars, queue, running, cancelled, action, result>>

WorkerPack ==
    /\ worker = "work" /\ Walks /\ ~ abort
    /\ PackTop \/ PackNode
    /\ UNCHANGED <<windowVars, queue, jobVars, key>>

\* An edit that met its recovery path, a failure, a cancel that was seen, or the end.
Outcomes ==
    {EXIT_IO} \cup (IF action = "extract" THEN {EXIT_AUTH} ELSE {})
              \cup (IF abort /\ Stoppable THEN {EXIT_CANCELLED} ELSE {})
              \cup (IF Rewrites \/ (isZip /\ action = "remove") THEN {EXIT_PARTIAL} ELSE {})
              \cup (IF worker = "work" /\ (Walks => PackedAll) THEN {EXIT_OK} ELSE {})

\* A pack, an unpack and a rewrite wipe the key when they end (dp_done, nr_cleanup);
\* what fails before one of them begins may not come by there.
KeyAfterJob_kept == {key}
KeyAfterJob == {FALSE} \cup (IF worker = "begin" THEN {key} ELSE {})

WorkerStop ==
    /\ worker \in {"begin", "work"}
    /\ worker' = "end"
    /\ result' \in IF Opens THEN Outcomes ELSE {EXIT_AUTH}
    /\ key' \in KeyAfterJob
    /\ UNCHANGED <<walkVars, windowVars, queue, running, cancelled, abort, action>>

WorkerEnd ==
    /\ worker = "end" /\ worker' = "off"
    /\ action' = NoAction /\ packing' = [done |-> 0, named |-> FALSE] /\ packed' = <<>>
    /\ Post("done")
    /\ UNCHANGED <<listVars, walk, windowVars, running, cancelled, abort, result, key>>

IndexerStep(s) ==
    \/ ScanInput(s) /\ UNCHANGED <<windowVars, queue, jobVars, key>>
    \/ ScanEnd(s) /\ Post("indexed") /\ UNCHANGED <<windowVars, jobVars, key>>
-----------------------------------------------------------------------------
(***************************************************************************)
(* What was posted.                                                        *)
(***************************************************************************)
Wiped == IF pass = "none" THEN "none" ELSE "wiped"

ActionRestored_list == op = 0 /\ Strength(inputs, scanning)
ActionRestored == op = 0 => Strength(inputs, scanning)

\* od_restore
Restore ==
    /\ enabled' = ActionRestored
    /\ pass' = Wiped
    /\ UNCHANGED <<inputs, mode, op, container, isZip, job, caPos, ready, key>>

\* container_load, after idx_read: the key stays, unless the file was not read.
KeyAfterLoad == IF isZip THEN {key} ELSE {TRUE, FALSE}

\* od_c_reload; inputs, caPos and key are as od_container left them.
Reload ==
    /\ job' = 0
    /\ enabled' = TRUE
    /\ key' \in KeyAfterLoad
    /\ UNCHANGED <<mode, op, container, isZip, pass, ready>>

\* switch_to_output: what was made is browsed, if it can be.
SwitchToOutput ==
    /\ inputs' = <<Archive>>
    /\ \/ /\ container' = TRUE /\ op' = 1 /\ isZip' = makeZip
          /\ ready' = TRUE /\ enabled' = TRUE
          /\ key' \in IF makeZip THEN {key} ELSE {TRUE, FALSE}
       \/ container' = FALSE /\ op' = 0 /\ isZip' = FALSE
          /\ UNCHANGED <<ready, enabled, key>>
    /\ UNCHANGED <<mode, job, caPos, pass>>

\* progwin_finish
FinishDrag ==
    /\ mode' = IF result = EXIT_OK /\ ~ cancelled THEN "closed" ELSE mode
    /\ key' = FALSE /\ pass' = Wiped
    /\ UNCHANGED <<inputs, op, container, isZip, enabled, job, caPos, ready>>

Tell(then) == OpenBox({"ok"}, [then |-> then])

\* on_done after an encrypt or a decrypt.
JobDone ==
    CASE cancelled \/ result # EXIT_OK ->
              /\ Tell("restore")
              /\ UNCHANGED <<inputs, viewVars, enabled, job, caPos, secretVars>>
      [] ~ cancelled /\ result = EXIT_OK /\ op = 0 -> SwitchToOutput /\ UNCHANGED boxVars
      [] OTHER -> Restore /\ UNCHANGED boxVars

\* What was picked for an add is taken out of the list again.
PutBack == IF caPos = 0 THEN inputs ELSE SubSeq(inputs, 1, caPos)

\* od_container: what a failed edit says, unless it was cancelled.
EditDone ==
    /\ inputs' = PutBack /\ caPos' = 0
    /\ IF result = EXIT_OK \/ (cancelled /\ ~ (result = EXIT_PARTIAL /\ ~ isZip))
       THEN Reload /\ UNCHANGED boxVars
       ELSE /\ Tell("reload") /\ key' = FALSE
            /\ UNCHANGED <<viewVars, enabled, job, pass, ready>>

\* What is not read before the next job sets it is put back.
OnDone ==
    /\ running' = FALSE
    /\ cancelled' = FALSE /\ abort' = FALSE /\ result' = EXIT_OK
    /\ Asked(NoAction, TRUE)
    /\ CASE mode = "drag" -> FinishDrag /\ UNCHANGED boxVars
         [] mode # "drag" /\ job = 0 -> JobDone
         [] OTHER -> EditDone
    /\ UNCHANGED <<scanning, worker, action>>

OnIndexDone ==
    /\ scanning' = FALSE
    /\ enabled' = Strength(inputs, FALSE)
    /\ UNCHANGED <<inputs, boxVars, viewVars, jobVars, job, caPos, secretVars,
                   asked, consent>>

OnAddWarn ==
    /\ Tell("nothing")
    /\ UNCHANGED <<inputs, scanning, viewVars, enabled, jobVars, job, caPos, secretVars,
                   asked, consent>>

\* Any loop of the thread dispatches it, the one of a box as well.
Taken_idle == queue # <<>> /\ stack = <<>> /\ mode # "closed"
Taken == queue # <<>> /\ Pumping /\ mode # "closed"

Dispatch ==
    /\ Taken
    /\ queue' = Tail(queue)
    /\ CASE Head(queue) = "done" -> OnDone
         [] Head(queue) = "indexed" -> OnIndexDone
         [] OTHER -> OnAddWarn
    /\ UNCHANGED <<scans, walk, packing, packed, makeZip>>

\* The box closes and whoever opened it goes on.
Answered == mb.result = "ok"

BoxReturns ==
    LET frame == Head(stack)
        then  == frame.caller.then IN
    /\ PopBox
    /\ CASE then = "restore" -> Restore /\ UNCHANGED <<jobVars, asked, consent>>
         [] then = "reload" -> Reload /\ UNCHANGED <<inputs, caPos, jobVars, asked, consent>>
         [] then = "add" /\ Answered ->
                /\ AddConfirmed(inputs, frame.caller.pos)
                /\ Asked("add", clicked = frame.box)
                /\ UNCHANGED <<viewVars, secretVars>>
         [] then = "add" /\ ~ Answered ->
                /\ inputs' = SubSeq(inputs, 1, frame.caller.pos)
                /\ UNCHANGED <<viewVars, enabled, jobVars, job, caPos, secretVars, asked, consent>>
         [] then = "remove" /\ Answered ->
                /\ RemoveConfirmed
                /\ Asked("remove", clicked = frame.box)
                /\ UNCHANGED <<inputs, viewVars, caPos, secretVars>>
         [] then = "remove" /\ ~ Answered ->
                /\ key' = (isZip /\ key)
                /\ UNCHANGED <<inputs, viewVars, enabled, jobVars, job, caPos, pass, ready,
                               asked, consent>>
         [] then = "extract" /\ Answered ->
                /\ EnterRunning
                /\ Asked("extract", clicked = frame.box)
                /\ UNCHANGED <<inputs, viewVars, job, caPos, secretVars>>
         [] then = "extract" /\ ~ Answered ->
                /\ pass' = Wiped
                /\ UNCHANGED <<inputs, viewVars, enabled, jobVars, job, caPos, ready, key,
                               asked, consent>>
         [] OTHER -> UNCHANGED <<inputs, viewVars, enabled, jobVars, job, caPos, secretVars,
                                 asked, consent>>
    /\ UNCHANGED <<scanning, scans, walk, packing, packed, makeZip, queue>>

boxless == <<walkVars, viewVars, makeZip, enabled, queue, jobVars, job, caPos, secretVars,
             asked, consent>>

\* wp_aboutitem, also while a job runs.
About == Attends /\ Tidy /\ Tell("nothing") /\ UNCHANGED boxless

\* Input comes after what was posted.  A box nobody waits for can still be pressed.
Answer ==
    /\ queue = <<>> /\ mode # "closed"
    /\ \/ Escape
       \/ \E id \in DOMAIN boxes, button \in Buttons : Press(id, button)
    /\ UNCHANGED boxless

Worker == WorkerStart \/ WorkerBegin \/ WorkerPack \/ WorkerStop \/ WorkerEnd
Thread == Dispatch \/ BoxReturns
User   == Act \/ Launch \/ Decline \/ AddInputs \/ RemoveInputs \/ SetFormat
            \/ ContainerAdd \/ ContainerRemove \/ Exit \/ About \/ Answer

Next == User \/ Thread \/ Worker \/ (mode # "closed" /\ \E s \in Scanners : IndexerStep(s))

\* The user is free to do nothing; both threads run while they can.
Spec == Init /\ [][Next]_vars /\ WF_vars(Worker) /\ WF_vars(Thread)
-----------------------------------------------------------------------------
TypeOK ==
    /\ mode \in {"launch", "dragged", "main", "drag", "closed"}
    /\ op \in {0, 1} /\ container \in BOOLEAN /\ isZip \in BOOLEAN /\ makeZip \in BOOLEAN
    /\ enabled \in BOOLEAN /\ queue \in Seq({"done", "indexed", "addwarn"})
    /\ running \in BOOLEAN /\ cancelled \in BOOLEAN /\ abort \in BOOLEAN
    /\ job \in 0..2 /\ caPos \in 0..MaxInputs
    /\ worker \in {"off", "start", "begin", "work", "end"} /\ action \in Actions
    /\ result \in {EXIT_OK, EXIT_IO, EXIT_AUTH, EXIT_PARTIAL, EXIT_CANCELLED}
    /\ pass \in {"none", "typed", "wiped"} /\ ready \in BOOLEAN /\ key \in BOOLEAN
    /\ asked \in Actions /\ consent \in BOOLEAN
    /\ inputs \in Seq(Folders \cup {Archive}) /\ Len(inputs) <= MaxInputs
    /\ scanning \in BOOLEAN /\ scans \in [Scanners -> -1..MaxInputs]
    /\ walk \in Folders \cup {Archive, NoFolder}
    /\ packing.done \in 0..MaxInputs /\ packing.named \in BOOLEAN
    /\ Len(packed) <= MaxInputs
    /\ DOMAIN boxes \subseteq Ids /\ mb.hwnd \in {0} \cup Ids

(***************************************************************************)
(* The worker, which reads the globals when it comes to run, does what the *)
(* user asked for: nothing between the click and then changes what the     *)
(* globals say, and no job leaves its kind to the next one (od_c_reload).  *)
(***************************************************************************)
JobIsTheOneAsked == worker \in {"begin", "work", "end"} => action = asked

(***************************************************************************)
(* The inputs stand still while a worker walks them (drop_allowed,         *)
(* remove_selected, and on_done, which takes an add's arguments back).     *)
(***************************************************************************)
InputsStandStill == [][worker # "off" => inputs' = inputs]_vars

(***************************************************************************)
(* A cancel of an edit is still raised when the rewrite comes to look, even*)
(* if it came before the rewrite began (progress_begin_rewrite).           *)
(***************************************************************************)
CancelKept == running /\ cancelled /\ job # 0 /\ ~ isZip => abort

(***************************************************************************)
(* A key is there while an archive is browsed or a job runs, and otherwise *)
(* wiped (do_pack, do_unpack, progwin_finish, on_done).                    *)
(***************************************************************************)
KeyOnlyInUse == key => container \/ worker # "off"

(***************************************************************************)
(* An archive that is shown can be acted on: no end of a job and no late   *)
(* message of a scan leaves its button disabled.                           *)
(***************************************************************************)
ArchiveUsable == container /\ Attends /\ ~ running /\ ~ scanning => enabled

(***************************************************************************)
(* The program does not end under its worker (wp_close, wp_cancel,         *)
(* pgw_close), whatever boxes were open when.                              *)
(***************************************************************************)
NoExitUnderWorker == mode = "closed" => worker = "off"

(***************************************************************************)
(* Every job ends and its end is handled, whoever leaves a box unanswered. *)
(***************************************************************************)
JobEnds == running ~> ~ running

(***************************************************************************)
(* A large edit starts only when its own question was answered: the user   *)
(* is asked before the worker starts (confirm_slow_remove).                *)
(***************************************************************************)
ConfirmAnswered == running => consent
=============================================================================

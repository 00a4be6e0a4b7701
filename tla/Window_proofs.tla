----------------------------- MODULE Window_proofs -----------------------------
(***************************************************************************)
(* For any list of inputs, any number of scans and boxes, and every way    *)
(* the program may be started: the types; that the inputs stand still      *)
(* under a worker, that a cancel of an edit is kept, that a key outlives   *)
(* no use of it, that the program does not end under its worker; and, when *)
(* CreateThread does not fail, that the worker does the job that was asked *)
(* for and that an archive stays usable.                                   *)
(*                                                                         *)
(* What holds it together: g_running is set exactly while there is a       *)
(* worker or its WM_APP_DONE is in the queue, and never both; of the boxes *)
(* on the stack at most one is waited for by somebody who goes on with     *)
(* more than returning, and while there is one no job runs.                *)
(***************************************************************************)
EXTENDS Window, SequenceTheorems, TLAPS

Messages == {"done", "indexed", "addwarn"}
Asks     == {"add", "remove"}
Ends     == {"restore", "reload"}
Waits    == Asks \cup Ends \cup {"extract"}
Callers  == [then : {"nothing", "extract"} \cup Ends] \cup [then : Asks, pos : 0..MaxInputs]
Frames   == [box : Ids, caller : Callers]
Results  == {EXIT_OK, EXIT_IO, EXIT_AUTH, EXIT_PARTIAL, EXIT_CANCELLED}

ViewTypes ==
    /\ mode \in {"launch", "dragged", "main", "drag", "closed"}
    /\ op \in {0, 1} /\ container \in BOOLEAN /\ isZip \in BOOLEAN /\ makeZip \in BOOLEAN
    /\ enabled \in BOOLEAN /\ job \in 0..2 /\ caPos \in 0..MaxInputs
    /\ asked \in Actions /\ consent \in BOOLEAN
JobTypes ==
    /\ running \in BOOLEAN /\ cancelled \in BOOLEAN /\ abort \in BOOLEAN
    /\ worker \in {"off", "start", "begin", "work", "end"} /\ action \in Actions
    /\ result \in Results
SecretTypes == pass \in {"none", "typed", "wiped"} /\ ready \in BOOLEAN /\ key \in BOOLEAN
ListTypes ==
    /\ inputs \in Seq(Folders \cup {Archive}) /\ Len(inputs) <= MaxInputs
    /\ scanning \in BOOLEAN /\ scans \in [Scanners -> -1..MaxInputs]
WalkTypes ==
    /\ walk \in Folders \cup {Archive, NoFolder}
    /\ packing \in [done : 0..MaxInputs, named : BOOLEAN]
    /\ packed \in Seq([name : Folders \cup {Archive}, from : Folders \cup {Archive, NoFolder}])
BoxTypes ==
    /\ DOMAIN boxes \subseteq Ids /\ boxes \in [DOMAIN boxes -> SUBSET Buttons]
    /\ stack \in Seq(Frames)
    /\ mb \in [hwnd : {0} \cup Ids, done : BOOLEAN, result : Buttons]
QueueTypes == queue \in Seq(Messages)

Typed == ViewTypes /\ JobTypes /\ SecretTypes /\ ListTypes /\ WalkTypes /\ BoxTypes /\ QueueTypes

\* What the i-th call of mbox goes on with.
Then(i) == stack[i].caller.then
HasFrame(thens) == \E i \in 1..Len(stack) : Then(i) \in thens
HasMessage(m) == \E i \in 1..Len(queue) : queue[i] = m

\* A job runs from the click until its message is taken.
RunInv ==
    /\ running <=> worker # "off" \/ HasMessage("done")
    /\ worker # "off" => ~HasMessage("done")
    /\ \A i, j \in 1..Len(queue) : queue[i] = "done" /\ queue[j] = "done" => i = j

\* One box at most is waited for, and not while a job runs.
FrameInv ==
    /\ \A i, j \in 1..Len(stack) : Then(i) # "nothing" /\ Then(j) # "nothing" => i = j
    /\ HasFrame(Waits) => ~running
    /\ HasFrame(Asks) => mode = "main" /\ container
    /\ HasFrame({"extract"}) => op # 0 /\ mode # "closed"
    /\ HasFrame({"reload"}) => container

\* Where the program is.
ModeInv ==
    /\ mode \in {"launch", "dragged", "closed"} => ~running
    /\ mode \in {"launch", "dragged"} => stack = <<>> /\ ~HasMessage("addwarn")
    /\ container => op = 1 /\ Len(inputs) >= 1 /\ mode \in {"main", "closed"}
    /\ job # 0 => container

\* The end of the list that an add goes back to.
PutBackInv ==
    /\ caPos <= Len(inputs) /\ (caPos # 0 => container)
    /\ \A i \in 1..Len(stack) :
          Then(i) = "add" => /\ stack[i].caller.pos >= 1 /\ caPos <= stack[i].caller.pos
                             /\ stack[i].caller.pos <= Len(inputs)

\* What the worker is at.
WorkInv ==
    /\ worker \in {"begin", "work", "end"} => action = Chosen
    /\ worker \in {"off", "start", "begin"} => ~packing.named
    /\ packing.named => packing.done < Len(inputs)
    /\ Len(packed) <= packing.done

KeyInv == key => container \/ worker = "work"

\* What a failed CreateThread would break.
SpawnInv ==
    /\ job # 0 => running \/ HasFrame({"reload"})
    /\ worker # "off" => Chosen = asked
    /\ container /\ ~running /\ ~scanning => enabled \/ HasMessage("indexed") \/ HasFrame(Ends)

IInv == /\ Typed /\ RunInv /\ FrameInv /\ ModeInv /\ PutBackInv /\ WorkInv /\ CancelKept /\ KeyInv
        /\ ~SpawnFails => SpawnInv

-----------------------------------------------------------------------------
(* The two sequences of the thread: what was posted and the calls of mbox. *)

\* A message posted comes behind the others.
LEMMA Posted ==
    ASSUME QueueTypes, NEW m \in Messages, Post(m)
    PROVE  /\ QueueTypes' /\ queue' # <<>> /\ Len(queue') = Len(queue) + 1
           /\ \A i \in 1..Len(queue) : queue'[i] = queue[i]
           /\ queue'[Len(queue) + 1] = m
BY AppendProperties DEF Post, QueueTypes

\* The message that is taken is the first.
LEMMA MessageTaken ==
    ASSUME QueueTypes, queue # <<>>, queue' = Tail(queue)
    PROVE  /\ QueueTypes' /\ Len(queue) \in Nat \ {0} /\ Len(queue') = Len(queue) - 1
           /\ Head(queue) = queue[1] /\ Head(queue) \in Messages
           /\ \A i \in 1..Len(queue') : queue'[i] = queue[i + 1]
BY HeadTailProperties, EmptySeq DEF QueueTypes

\* Only the message posted is new.
LEMMA PostedOnly ==
    ASSUME QueueTypes, NEW m \in Messages, Post(m)
    PROVE  /\ \A x : HasMessage(x) => HasMessage(x)'
           /\ \A x : HasMessage(x)' => x = m \/ HasMessage(x)
           /\ HasMessage(m)'
<1>1. /\ Len(queue) \in Nat /\ Len(queue') = Len(queue) + 1
      /\ \A i \in 1..Len(queue) : queue'[i] = queue[i]
      /\ queue'[Len(queue) + 1] = m
  BY Posted, LenProperties DEF QueueTypes
<1>2. \A i \in 1..Len(queue) : i \in 1..Len(queue')
  BY <1>1
<1>3. \A i \in 1..Len(queue') : i \in 1..Len(queue) \/ i = Len(queue) + 1
  BY <1>1
<1> QED
  BY <1>1, <1>2, <1>3 DEF HasMessage

\* A message other than done, posted while nothing else changes of the job.
LEMMA PostedMore ==
    ASSUME QueueTypes, RunInv, NEW m \in Messages \ {"done"}, Post(m),
           UNCHANGED <<running, worker>>
    PROVE  RunInv'
<1>1. /\ Len(queue) \in Nat /\ Len(queue') = Len(queue) + 1
      /\ \A i \in 1..Len(queue) : queue'[i] = queue[i]
      /\ queue'[Len(queue) + 1] = m
  BY Posted, LenProperties DEF QueueTypes
<1>2. HasMessage("done")' <=> HasMessage("done")
  BY PostedOnly
<1>3. \A i \in 1..Len(queue') : queue'[i] = "done" => i \in 1..Len(queue) /\ queue[i] = "done"
  BY <1>1
<1> QED
  BY <1>2, <1>3 DEF RunInv

\* What a message other than the one taken says stays.
LEMMA OthersStay ==
    ASSUME QueueTypes, queue # <<>>, queue' = Tail(queue)
    PROVE  /\ \A m : HasMessage(m) => HasMessage(m)' \/ m = Head(queue)
           /\ \A m : HasMessage(m)' => HasMessage(m)
<1>1. /\ Len(queue) \in Nat \ {0} /\ Len(queue') = Len(queue) - 1 /\ Head(queue) = queue[1]
      /\ \A i \in 1..Len(queue') : queue'[i] = queue[i + 1]
  BY MessageTaken
<1>2. ASSUME NEW m, NEW i \in 1..Len(queue), queue[i] = m, i # 1
      PROVE  \E k \in 1..Len(queue') : queue'[k] = m
  <2>1. i - 1 \in 1..Len(queue') /\ queue'[i - 1] = queue[i]
    BY <1>1, <1>2
  <2> QED
    BY <1>2, <2>1
<1>3. ASSUME NEW m, NEW k \in 1..Len(queue'), queue'[k] = m
      PROVE  \E i \in 1..Len(queue) : queue[i] = m
  <2>1. k + 1 \in 1..Len(queue) /\ queue[k + 1] = m
    BY <1>1, <1>3
  <2> QED
    BY <2>1
<1> QED
  BY <1>1, <1>2, <1>3 DEF HasMessage

\* A new call of mbox is the first of the stack.
LEMMA Opened ==
    ASSUME BoxTypes, NEW buttons \in SUBSET Buttons, NEW caller \in Callers,
           OpenBox(buttons, caller)
    PROVE  /\ BoxTypes' /\ Len(stack) \in Nat /\ Len(stack') = Len(stack) + 1
           /\ stack'[1].caller = caller /\ stack' # <<>>
           /\ \A i \in 1..Len(stack) : stack'[i + 1] = stack[i]
<1>1. PICK id \in Ids \ DOMAIN boxes :
         /\ boxes' = [i \in DOMAIN boxes \cup {id} |-> IF i = id THEN buttons ELSE boxes[i]]
         /\ stack' = <<[box |-> id, caller |-> caller]>> \o stack
         /\ mb' = [hwnd |-> id, done |-> FALSE, result |-> "cancel"]
  BY DEF OpenBox
<1> DEFINE frame == [box |-> id, caller |-> caller]
<1>2. frame \in Frames
  BY DEF Frames
<1>3. <<frame>> \in Seq(Frames) /\ Len(<<frame>>) = 1 /\ <<frame>>[1] = frame
  BY <1>2
<1>4. stack \in Seq(Frames) /\ Len(stack) \in Nat
  BY LenProperties DEF BoxTypes
<1> HIDE DEF frame
<1>5. /\ stack' \in Seq(Frames) /\ Len(stack') = 1 + Len(stack)
      /\ \A i \in 1..1 + Len(stack) :
            stack'[i] = IF i <= 1 THEN <<frame>>[i] ELSE stack[i - 1]
  <2>1. stack' = <<frame>> \o stack
    BY <1>1 DEF frame
  <2> QED
    BY <1>3, <1>4, <2>1, ConcatProperties, Z3
<1>6. stack'[1] = frame /\ \A i \in 1..Len(stack) : stack'[i + 1] = stack[i]
  BY <1>3, <1>4, <1>5
<1>7. boxes' \in [DOMAIN boxes' -> SUBSET Buttons] /\ DOMAIN boxes' \subseteq Ids
  BY <1>1 DEF BoxTypes
<1>8. mb' \in [hwnd : {0} \cup Ids, done : BOOLEAN, result : Buttons]
  BY <1>1 DEF Buttons
<1>9. stack'[1].caller = caller
  BY <1>6 DEF frame
<1>10. stack' # <<>>
  BY <1>4, <1>5
<1> QED
  BY <1>4, <1>5, <1>6, <1>7, <1>8, <1>9, <1>10 DEF BoxTypes

\* The innermost call of mbox returns.
LEMMA Returned ==
    ASSUME BoxTypes, PopBox
    PROVE  /\ BoxTypes' /\ Len(stack) \in Nat \ {0} /\ Len(stack') = Len(stack) - 1
           /\ Head(stack) = stack[1] /\ Head(stack) \in Frames
           /\ \A i \in 1..Len(stack') : stack'[i] = stack[i + 1]
<1>1. stack # <<>> /\ stack \in Seq(Frames) /\ stack' = Tail(stack) /\ boxes' = boxes
  BY DEF PopBox, Pumping, BoxTypes
<1>2. mb' \in [hwnd : {0} \cup Ids, done : BOOLEAN, result : Buttons]
  <2>1. NoBox \in [hwnd : {0} \cup Ids, done : BOOLEAN, result : Buttons]
    BY DEF NoBox, Buttons
  <2>2. [mb EXCEPT !.hwnd = 0] \in [hwnd : {0} \cup Ids, done : BOOLEAN, result : Buttons]
    BY DEF BoxTypes
  <2> QED
    BY <2>1, <2>2 DEF PopBox
<1>3. /\ Len(stack) \in Nat \ {0} /\ Len(stack') = Len(stack) - 1 /\ stack' \in Seq(Frames)
      /\ Head(stack) \in Frames /\ Head(stack) = stack[1]
      /\ \A i \in 1..Len(stack') : stack'[i] = stack[i + 1]
  BY <1>1, HeadTailProperties, EmptySeq
<1> QED
  BY <1>1, <1>2, <1>3 DEF BoxTypes

\* Who is waited for once a box opened.
LEMMA FramesOpened ==
    ASSUME BoxTypes, NEW buttons \in SUBSET Buttons, NEW caller \in Callers,
           OpenBox(buttons, caller)
    PROVE  /\ \A T : HasFrame(T)' <=> caller.then \in T \/ HasFrame(T)
           /\ \A i \in 1..Len(stack') :
                 \/ i = 1 /\ stack'[i].caller = caller
                 \/ i - 1 \in 1..Len(stack) /\ stack'[i] = stack[i - 1]
<1>1. /\ Len(stack) \in Nat /\ Len(stack') = Len(stack) + 1
      /\ stack'[1].caller = caller
      /\ \A i \in 1..Len(stack) : stack'[i + 1] = stack[i]
  BY Opened
<1>2. ASSUME NEW i \in 1..Len(stack'), i # 1
      PROVE  i - 1 \in 1..Len(stack) /\ stack'[i] = stack[i - 1]
  <2>1. i - 1 \in 1..Len(stack) /\ (i - 1) + 1 = i
    BY <1>1, <1>2
  <2> QED
    BY <1>1, <2>1
<1>3. ASSUME NEW T, caller.then \in T
      PROVE  \E i \in 1..Len(stack') : stack'[i].caller.then \in T
  BY <1>1, <1>3
<1>4. ASSUME NEW T, NEW k \in 1..Len(stack), stack[k].caller.then \in T
      PROVE  \E i \in 1..Len(stack') : stack'[i].caller.then \in T
  <2>1. k + 1 \in 1..Len(stack') /\ stack'[k + 1] = stack[k]
    BY <1>1
  <2> QED
    BY <1>4, <2>1
<1>5. ASSUME NEW T, NEW i \in 1..Len(stack'), stack'[i].caller.then \in T
      PROVE  caller.then \in T \/ \E k \in 1..Len(stack) : stack[k].caller.then \in T
  BY <1>1, <1>2, <1>5
<1> QED
  BY <1>1, <1>2, <1>3, <1>4, <1>5 DEF HasFrame, Then

\* Who is waited for once a box returned.
LEMMA FramesReturned ==
    ASSUME BoxTypes, FrameInv, PopBox
    PROVE  /\ \A T : HasFrame(T)' => HasFrame(T)
           /\ \A T : HasFrame(T) => HasFrame(T)' \/ Head(stack).caller.then \in T
           /\ Head(stack).caller.then # "nothing" => ~HasFrame(Waits)'
           /\ \A i, j \in 1..Len(stack') : Then(i)' # "nothing" /\ Then(j)' # "nothing" => i = j
           /\ \A T : Head(stack).caller.then \in T => HasFrame(T)
<1>1. /\ Len(stack) \in Nat \ {0} /\ Len(stack') = Len(stack) - 1
      /\ Head(stack) = stack[1]
      /\ \A i \in 1..Len(stack') : stack'[i] = stack[i + 1]
  BY Returned
<1>2. \A i \in 1..Len(stack') : i + 1 \in 1..Len(stack) /\ stack'[i] = stack[i + 1]
  BY <1>1
<1>3. ASSUME NEW k \in 1..Len(stack), k # 1
      PROVE  k - 1 \in 1..Len(stack') /\ stack'[k - 1] = stack[k]
  <2>1. k - 1 \in 1..Len(stack') /\ (k - 1) + 1 = k
    BY <1>1, <1>3
  <2> QED
    BY <1>1, <2>1
<1>4. 1 \in 1..Len(stack)
  BY <1>1
<1>5. \A T : HasFrame(T)' => HasFrame(T)
  BY <1>2 DEF HasFrame, Then
<1>6. \A T : HasFrame(T) => HasFrame(T)' \/ Head(stack).caller.then \in T
  BY <1>1, <1>3 DEF HasFrame, Then
<1>7. \A i, j \in 1..Len(stack') : Then(i)' # "nothing" /\ Then(j)' # "nothing" => i = j
  <2> TAKE i, j \in 1..Len(stack')
  <2> SUFFICES ASSUME Then(i)' # "nothing", Then(j)' # "nothing" PROVE i = j
    OBVIOUS
  <2>1. i + 1 = j + 1
    BY <1>2 DEF FrameInv, Then
  <2> QED
    BY <1>1, <2>1
<1>8. ASSUME Head(stack).caller.then # "nothing", NEW i \in 1..Len(stack')
      PROVE  Then(i)' = "nothing"
  <2>1. i + 1 # 1
    BY <1>1
  <2> QED
    BY <1>1, <1>2, <1>4, <1>8, <2>1 DEF FrameInv, Then
<1>9. Head(stack).caller.then # "nothing" => ~HasFrame(Waits)'
  BY <1>8 DEF HasFrame, Waits, Asks, Ends
<1>10. \A T : Head(stack).caller.then \in T => HasFrame(T)
  BY <1>1, <1>4 DEF HasFrame, Then
<1> QED
  BY <1>5, <1>6, <1>7, <1>9, <1>10

-----------------------------------------------------------------------------
(* The program starts, and the user starts a job.                          *)

LEMMA InitInv == Init => IInv
<1> SUFFICES ASSUME Init PROVE IInv
  OBVIOUS
<1>1. /\ stack = <<>> /\ queue = <<>> /\ boxes = <<>> /\ mb = NoBox
      /\ running = FALSE /\ cancelled = FALSE /\ abort = FALSE /\ job = 0 /\ caPos = 0
      /\ worker = "off" /\ action = NoAction /\ result = EXIT_OK /\ asked = NoAction
      /\ consent = TRUE /\ makeZip \in BOOLEAN /\ walk = NoFolder
      /\ packing = [done |-> 0, named |-> FALSE] /\ packed = <<>>
  BY DEF Init, BoxesInit
<1>2. PICK how \in Starts : Started(how)
  BY DEF Init
<1>3. how \in {"empty", "files", "drag", "unpack", "archive"} /\ MaxInputs \in Nat \ {0}
  BY StartAssumption, WalkAssumption
<1>4. inputs \in Seq(Folders \cup {Archive}) /\ Len(inputs) <= 1 /\ (op = 1 => Len(inputs) = 1)
  <2>1. CASE op = 1 /\ inputs = <<Archive>>
    BY <2>1
  <2>2. CASE how = "empty" /\ inputs = <<>>
    BY <1>2, <2>2 DEF Started
  <2>3. CASE \E f \in Folders : inputs = <<f>>
    BY <2>3
  <2> QED
    BY <1>2, <2>1, <2>2, <2>3 DEF Started
<1>5. ViewTypes
  <2>1. mode \in {"launch", "dragged", "main", "drag", "closed"} /\ container \in BOOLEAN
    BY <1>2 DEF Started
  <2>2. op \in {0, 1} /\ isZip \in BOOLEAN /\ enabled \in BOOLEAN
    BY <1>2 DEF Started
  <2> QED
    BY <1>1, <1>3, <2>1, <2>2 DEF ViewTypes, Actions
<1>6. JobTypes
  BY <1>1 DEF JobTypes, Results, Actions
<1>7. SecretTypes
  BY <1>2 DEF Started, SecretTypes
<1>8. ListTypes
  <2>1. scanning \in BOOLEAN
    BY <1>2 DEF Started
  <2>2. scans \in [Scanners -> -1..MaxInputs]
    BY <1>2, <1>3 DEF Started
  <2> QED
    BY <1>3, <1>4, <2>1, <2>2 DEF ListTypes
<1>9. WalkTypes
  BY <1>1, <1>3 DEF WalkTypes
<1>10. BoxTypes
  <2>1. DOMAIN boxes = {} /\ boxes \in [DOMAIN boxes -> SUBSET Buttons]
    BY <1>1
  <2>2. mb \in [hwnd : {0} \cup Ids, done : BOOLEAN, result : Buttons]
    BY <1>1 DEF NoBox, Buttons
  <2> QED
    BY <1>1, <2>1, <2>2 DEF BoxTypes
<1>11. QueueTypes
  BY <1>1 DEF QueueTypes
<1>12. (\A m : ~HasMessage(m)) /\ \A T : ~HasFrame(T)
  BY <1>1 DEF HasMessage, HasFrame
<1>13. RunInv /\ FrameInv
  BY <1>1, <1>12 DEF RunInv, FrameInv
<1>14. container => op = 1 /\ enabled /\ mode = "main"
  BY <1>2 DEF Started
<1>15. ModeInv /\ PutBackInv /\ WorkInv /\ CancelKept
  BY <1>1, <1>4, <1>12, <1>14 DEF ModeInv, PutBackInv, WorkInv, CancelKept
<1>16. KeyInv
  BY <1>2 DEF Started, KeyInv
<1>17. SpawnInv
  BY <1>1, <1>12, <1>14 DEF SpawnInv
<1> QED
  BY <1>5, <1>6, <1>7, <1>8, <1>9, <1>10, <1>11, <1>13, <1>15, <1>16, <1>17 DEF IInv, Typed

\* What enter_running leaves, whether there is a thread or not.
LEMMA Entered ==
    ASSUME JobTypes, RunInv, ~running, EnterRunning, HasMessage("done")' => HasMessage("done")
    PROVE  /\ JobTypes' /\ RunInv'
           /\ worker = "off" /\ worker' \in {"off", "start"}
           /\ ~cancelled' /\ ~enabled' /\ enabled' \in BOOLEAN
           /\ ~SpawnFails => running'
<1>1. PICK spawned \in {TRUE, ~SpawnFails} :
         /\ running' = spawned /\ cancelled' = FALSE /\ abort' = FALSE /\ enabled' = FALSE
         /\ worker' = (IF spawned THEN "start" ELSE worker)
         /\ UNCHANGED <<action, result>>
  BY DEF EnterRunning
<1>2. spawned \in BOOLEAN /\ (~SpawnFails => spawned)
  BY <1>1, StartAssumption
<1>3. worker = "off" /\ ~HasMessage("done")
  BY DEF RunInv, JobTypes
<1>4. ~HasMessage("done")'
  BY <1>3
<1>5. worker' \in {"off", "start"} /\ (running' <=> worker' # "off")
  BY <1>1, <1>2, <1>3
<1>6. JobTypes'
  BY <1>1, <1>2, <1>5 DEF JobTypes
<1>7. RunInv'
  BY <1>4, <1>5 DEF RunInv, HasMessage
<1> QED
  BY <1>1, <1>2, <1>3, <1>5, <1>6, <1>7

\* A job that starts, of the kind asked for, with nobody waiting for a box.
LEMMA StartedInv ==
    ASSUME IInv, ~running, stack = <<>>, mode \in {"launch", "dragged", "main"},
           StartOperation,
           mode' \in {"main", "drag"}, mode' = "drag" => mode = "dragged",
           ready' \in BOOLEAN,
           UNCHANGED <<walkVars, op, container, isZip, makeZip, queue, job, caPos, key>>
    PROVE  IInv'
<1>1. /\ ViewTypes /\ JobTypes /\ SecretTypes /\ ListTypes /\ WalkTypes /\ BoxTypes /\ QueueTypes
      /\ RunInv /\ FrameInv /\ ModeInv /\ PutBackInv /\ WorkInv /\ CancelKept /\ KeyInv
      /\ ~SpawnFails => SpawnInv
  BY DEF IInv, Typed
<1>2. \A T : ~HasFrame(T)
  BY DEF HasFrame
<1>3. job = 0 \/ SpawnFails
  BY <1>1, <1>2 DEF SpawnInv
<1>4. WalkTypes' /\ ListTypes' /\ QueueTypes'
  BY <1>1 DEF WalkTypes, ListTypes, QueueTypes, walkVars
<1>5. CASE EnterRunning /\ UNCHANGED boxVars /\ pass' \in {"none", "typed", "wiped"}
           /\ asked' \in Actions /\ consent' = TRUE
           /\ asked' = (IF op = 0 THEN IF makeZip THEN "zip" ELSE "encrypt" ELSE "extract")
  <2>1. /\ JobTypes' /\ RunInv' /\ worker = "off" /\ worker' \in {"off", "start"}
        /\ ~cancelled' /\ ~enabled' /\ enabled' \in BOOLEAN /\ (~SpawnFails => running')
    <3>1. HasMessage("done")' <=> HasMessage("done")
      BY DEF HasMessage
    <3> QED
      BY <1>1, <1>5, <3>1, Entered
  <2>2. ViewTypes' /\ SecretTypes' /\ BoxTypes'
    BY <1>1, <1>5, <2>1 DEF ViewTypes, SecretTypes, BoxTypes, boxVars
  <2>3. \A T : ~HasFrame(T)'
    BY <1>5 DEF HasFrame, boxVars
  <2>4. FrameInv' /\ PutBackInv'
    BY <1>1, <1>5, <2>3 DEF FrameInv, PutBackInv, boxVars, walkVars, HasFrame, Then
  <2>5. ModeInv'
    BY <1>1, <1>5 DEF ModeInv, walkVars, boxVars
  <2>6. WorkInv' /\ CancelKept' /\ KeyInv'
    BY <1>1, <1>5, <2>1 DEF WorkInv, CancelKept, KeyInv, walkVars
  <2>7. job = 0 /\ ~SpawnFails => SpawnInv'
    BY <1>1, <1>5, <2>1 DEF SpawnInv, Chosen, ViewTypes
  <2> QED
    BY <1>3, <1>4, <2>1, <2>2, <2>4, <2>5, <2>6, <2>7 DEF IInv, Typed
<1>6. ASSUME NEW then \in {"nothing", "extract"}, NEW buttons \in SUBSET Buttons,
             OpenBox(buttons, [then |-> then]), then = "extract" => op # 0,
             UNCHANGED <<enabled, jobVars, asked, consent>>,
             pass' \in {"none", "typed", "wiped"}
      PROVE  IInv'
  <2> DEFINE caller == [then |-> then]
  <2>1. caller \in Callers /\ caller.then = then
    BY DEF Callers
  <2> HIDE DEF caller
  <2>2. OpenBox(buttons, caller)
    BY <1>6 DEF caller
  <2>3. /\ BoxTypes'
        /\ \A T : HasFrame(T)' <=> then \in T
        /\ \A i \in 1..Len(stack') : i = 1 /\ stack'[i].caller.then = then
    <3>1. /\ BoxTypes'
          /\ \A T : HasFrame(T)' <=> caller.then \in T \/ HasFrame(T)
      BY <1>1, <2>1, <2>2, Opened, FramesOpened
    <3>2. \A i \in 1..Len(stack') : \/ i = 1 /\ stack'[i].caller = caller
                                    \/ i - 1 \in 1..Len(stack) /\ stack'[i] = stack[i - 1]
      BY <1>1, <2>1, <2>2, FramesOpened
    <3>3. Len(stack) = 0
      OBVIOUS
    <3>4. \A T : HasFrame(T)' <=> then \in T
      BY <1>2, <2>1, <3>1
    <3> QED
      BY <2>1, <3>1, <3>2, <3>3, <3>4
  <2>4. ViewTypes' /\ SecretTypes' /\ JobTypes'
    BY <1>1, <1>6 DEF ViewTypes, SecretTypes, JobTypes, jobVars
  <2>5. RunInv'
    BY <1>1, <1>6 DEF RunInv, HasMessage, jobVars
  <2>6. FrameInv'
    <3>1. ~HasFrame(Asks)' /\ ~HasFrame({"reload"})' /\ (HasFrame({"extract"})' => op' # 0 /\ mode' # "closed")
      BY <1>6, <2>3 DEF Asks
    <3>2. running' = FALSE
      BY <1>1, <1>6 DEF jobVars, JobTypes
    <3> QED
      BY <2>3, <3>1, <3>2 DEF FrameInv
  <2>7. PutBackInv'
    BY <1>1, <2>3 DEF PutBackInv, Then, walkVars
  <2>8. ModeInv'
    BY <1>1, <1>6 DEF ModeInv, walkVars, jobVars
  <2>9. WorkInv' /\ CancelKept' /\ KeyInv'
    BY <1>1, <1>6 DEF WorkInv, CancelKept, KeyInv, walkVars, jobVars, Chosen
  <2>10. job = 0 /\ ~SpawnFails => SpawnInv'
    <3>1. worker' = "off" /\ (HasMessage("indexed") => HasMessage("indexed")')
      BY <1>1, <1>6 DEF RunInv, JobTypes, jobVars, HasMessage
    <3> QED
      BY <1>1, <1>2, <1>6, <3>1 DEF SpawnInv, jobVars, walkVars
  <2> QED
    BY <1>3, <1>4, <2>3, <2>4, <2>5, <2>6, <2>7, <2>8, <2>9, <2>10 DEF IInv, Typed
<1>7. CASE op = 0
  <2>1. pass' \in {"none", "typed", "wiped"}
    BY <1>1, <1>7 DEF StartOperation, StartEncrypt, PasswordRead, SecretTypes
  <2>2. CASE MeetsPolicy(pass')
    <3>1. asked' = (IF makeZip THEN "zip" ELSE "encrypt") /\ consent' = TRUE
      BY <1>7, <2>2 DEF StartOperation, StartEncrypt, Asked
    <3> QED
      BY <1>5, <1>7, <2>1, <2>2, <3>1 DEF StartOperation, StartEncrypt, Actions
  <2>3. CASE ~MeetsPolicy(pass')
    <3>1. /\ OpenBox({"ok"}, [then |-> "nothing"])
          /\ UNCHANGED <<enabled, jobVars, asked, consent>>
      BY <1>7, <2>3 DEF StartOperation, StartEncrypt
    <3>2. {"ok"} \in SUBSET Buttons
      BY DEF Buttons
    <3> QED
      BY <1>6, <2>1, <3>1, <3>2
  <2> QED
    BY <2>2, <2>3
<1>8. CASE op # 0
  <2>1. pass' \in {"none", "typed", "wiped"}
    BY <1>1, <1>8 DEF StartOperation, StartDecrypt, PasswordRead, SecretTypes
  <2>2. \/ /\ OpenBox({"ok"}, [then |-> "nothing"])
           /\ UNCHANGED <<enabled, jobVars, asked, consent>>
        \/ EnterRunning /\ UNCHANGED boxVars /\ Asked("extract", TRUE)
        \/ /\ OpenBox(Buttons, [then |-> "extract"])
           /\ UNCHANGED <<enabled, jobVars, asked, consent>>
    BY <1>8 DEF StartOperation, StartDecrypt
  <2>3. {"ok"} \in SUBSET Buttons /\ Buttons \in SUBSET Buttons
    BY DEF Buttons
  <2>4. CASE EnterRunning /\ UNCHANGED boxVars /\ Asked("extract", TRUE)
    BY <1>5, <1>8, <2>1, <2>4 DEF Asked, Actions
  <2> QED
    BY <1>6, <1>8, <2>1, <2>2, <2>3, <2>4
<1> QED
  BY <1>7, <1>8

LEMMA ActInv == ASSUME IInv, Act PROVE IInv'
<1>1. /\ ~running /\ stack = <<>> /\ mode = "main" /\ StartOperation
      /\ UNCHANGED <<walkVars, mode, op, container, isZip, makeZip, queue, job, caPos, ready, key>>
  BY DEF Act, NoJob, Attends, viewVars
<1>2. ready' \in BOOLEAN
  BY <1>1 DEF IInv, Typed, SecretTypes
<1> QED
  BY <1>1, <1>2, StartedInv

LEMMA LaunchInv == ASSUME IInv, Launch PROVE IInv'
<1>1. /\ mode \in {"launch", "dragged"} /\ mode' \in {"main", "drag"}
      /\ mode' = "drag" => mode = "dragged"
      /\ StartOperation /\ ready' \in BOOLEAN
      /\ UNCHANGED <<walkVars, op, container, isZip, makeZip, queue, job, caPos, key>>
  BY DEF Launch
<1>2. ~running /\ stack = <<>>
  BY <1>1 DEF IInv, ModeInv
<1> QED
  BY <1>1, <1>2, StartedInv

LEMMA DeclineInv == ASSUME IInv, Decline PROVE IInv'
<1>1. /\ mode \in {"launch", "dragged"} /\ mode' = "closed"
      /\ UNCHANGED <<walkVars, boxVars, op, container, isZip, makeZip, enabled, queue,
                     jobVars, job, caPos, secretVars, asked, consent>>
  BY DEF Decline
<1>2. Typed'
  BY <1>1 DEF IInv, Typed, ViewTypes, JobTypes, SecretTypes, ListTypes, WalkTypes, BoxTypes,
              QueueTypes, walkVars, boxVars, jobVars, secretVars
<1>3. RunInv' /\ CancelKept' /\ WorkInv' /\ KeyInv'
  BY <1>1 DEF IInv, RunInv, HasMessage, CancelKept, WorkInv, KeyInv, Chosen, jobVars, walkVars,
              secretVars
<1>4. stack = <<>> /\ ~running /\ stack' = stack
  BY <1>1 DEF IInv, ModeInv, boxVars
<1>5. FrameInv' /\ ModeInv'
  BY <1>1, <1>4 DEF IInv, FrameInv, ModeInv, HasFrame, jobVars, walkVars
<1>6. PutBackInv'
  BY <1>1, <1>4 DEF IInv, PutBackInv, walkVars
<1>7. SpawnInv => SpawnInv'
  BY <1>1, <1>4 DEF SpawnInv, HasFrame, HasMessage, Then, Chosen, jobVars, walkVars
<1> QED
  BY <1>2, <1>3, <1>5, <1>6, <1>7 DEF IInv

-----------------------------------------------------------------------------
(* The list, the format, and boxes of no consequence.                      *)

\* Another list, while nothing runs and no archive is browsed.
LEMMA ListInv ==
    ASSUME IInv, ~running, ~container, op = 0, mode = "main",
           NEW list \in Seq(Folders \cup {Archive}), Len(list) <= MaxInputs, Refresh(list),
           enabled' \in BOOLEAN,
           UNCHANGED queue \/ Post("addwarn"),
           UNCHANGED <<boxVars, viewVars, makeZip, jobVars, job, caPos, secretVars, asked, consent>>
    PROVE  IInv'
<1>1. /\ ViewTypes /\ JobTypes /\ SecretTypes /\ ListTypes /\ WalkTypes /\ BoxTypes /\ QueueTypes
      /\ RunInv /\ FrameInv /\ ModeInv /\ PutBackInv /\ WorkInv /\ CancelKept /\ KeyInv
  BY DEF IInv, Typed
<1>2. inputs' = list /\ scanning' = TRUE /\ UNCHANGED <<walk, packing, packed>>
  BY DEF Refresh
<1>3. scans' \in [Scanners -> -1..MaxInputs]
  BY <1>1, WalkAssumption DEF Refresh, ListTypes
<1>4. worker = "off"
  BY <1>1 DEF RunInv, JobTypes
<1>5. QueueTypes' /\ RunInv'
  <2>1. CASE UNCHANGED queue
    BY <1>1, <2>1 DEF QueueTypes, RunInv, HasMessage, jobVars
  <2>2. CASE Post("addwarn")
    <3>1. "addwarn" \in Messages \ {"done"}
      BY DEF Messages
    <3> QED
      BY <1>1, <2>2, <3>1, Posted, PostedMore DEF jobVars
  <2> QED
    BY <2>1, <2>2
<1>6. ViewTypes' /\ JobTypes' /\ SecretTypes'
  BY <1>1 DEF ViewTypes, JobTypes, SecretTypes, viewVars, jobVars, secretVars
<1>7. ListTypes' /\ WalkTypes' /\ BoxTypes'
  BY <1>1, <1>2, <1>3 DEF ListTypes, WalkTypes, BoxTypes, boxVars
<1>8. FrameInv' /\ ModeInv'
  BY <1>1 DEF FrameInv, ModeInv, HasFrame, Then, boxVars, viewVars, jobVars
<1>9. PutBackInv'
  <2>1. caPos' = 0 /\ Len(inputs') \in Nat
    BY <1>1, <1>2, LenProperties DEF PutBackInv, ViewTypes
  <2>2. \A i \in 1..Len(stack) : Then(i) # "add"
    BY <1>1 DEF FrameInv, HasFrame, Asks
  <2> QED
    BY <2>1, <2>2 DEF PutBackInv, Then, boxVars
<1>10. WorkInv' /\ CancelKept' /\ KeyInv'
  BY <1>1, <1>2, <1>4 DEF WorkInv, CancelKept, KeyInv, jobVars, secretVars, viewVars
<1>11. SpawnInv'
  BY <1>1, <1>4 DEF SpawnInv, ModeInv, viewVars, jobVars
<1> QED
  BY <1>5, <1>6, <1>7, <1>8, <1>9, <1>10, <1>11 DEF IInv, Typed

\* What append_input and remove_selected make of the list.
LEMMA AppendedIs ==
    ASSUME ListTypes, NEW folder \in Folders \cup {NoFolder}
    PROVE  /\ Appended(folder) \in Seq(Folders \cup {Archive}) /\ Len(Appended(folder)) <= MaxInputs
           /\ Appended(folder) # inputs => Len(Appended(folder)) = Len(inputs) + 1
           /\ Len(inputs) \in Nat
<1>1. inputs \in Seq(Folders \cup {Archive}) /\ Len(inputs) \in Nat /\ Len(inputs) <= MaxInputs
  BY LenProperties DEF ListTypes
<1>2. CASE folder = NoFolder \/ Len(inputs) >= MaxInputs
  BY <1>1, <1>2 DEF Appended
<1>3. CASE folder # NoFolder /\ Len(inputs) < MaxInputs
  <2>1. folder \in Folders \cup {Archive} /\ Appended(folder) = Append(inputs, folder)
    BY <1>1, <1>3, WalkAssumption DEF Appended
  <2> QED
    BY <1>1, <1>3, <2>1, AppendProperties, WalkAssumption
<1> QED
  BY <1>1, <1>2, <1>3, WalkAssumption

LEMMA RemovedIs ==
    ASSUME ListTypes, NEW i \in DOMAIN inputs
    PROVE  RemoveAt(inputs, i) \in Seq(Folders \cup {Archive}) /\ Len(RemoveAt(inputs, i)) <= MaxInputs
<1> DEFINE before == SubSeq(inputs, 1, i - 1)
           after  == SubSeq(inputs, i + 1, Len(inputs))
<1>1. /\ inputs \in Seq(Folders \cup {Archive}) /\ Len(inputs) \in Nat /\ Len(inputs) <= MaxInputs
      /\ i \in 1..Len(inputs) /\ \A k \in 1..Len(inputs) : inputs[k] \in Folders \cup {Archive}
  BY LenProperties DEF ListTypes
<1>2. before \in Seq(Folders \cup {Archive}) /\ Len(before) <= i - 1 /\ Len(before) \in Nat
  <2>1. \A k \in 1..i - 1 : inputs[k] \in Folders \cup {Archive}
    BY <1>1
  <2> QED
    BY <1>1, <2>1, SubSeqProperties, LenProperties
<1>3. after \in Seq(Folders \cup {Archive}) /\ Len(after) <= Len(inputs) - i /\ Len(after) \in Nat
  <2>1. \A k \in i + 1..Len(inputs) : inputs[k] \in Folders \cup {Archive}
    BY <1>1
  <2> QED
    BY <1>1, <2>1, SubSeqProperties, LenProperties
<1>4. RemoveAt(inputs, i) = before \o after
  BY DEF RemoveAt
<1> HIDE DEF before, after
<1>5. /\ before \o after \in Seq(Folders \cup {Archive})
      /\ Len(before \o after) = Len(before) + Len(after)
  BY <1>2, <1>3, ConcatProperties
<1> QED
  BY <1>1, <1>2, <1>3, <1>4, <1>5, WalkAssumption

LEMMA AddInputsInv == ASSUME IInv, AddInputs PROVE IInv'
<1>1. PICK folder \in Folders \cup {NoFolder}, refused \in BOOLEAN :
         Refresh(Appended(folder)) /\ Warn(refused)
  BY DEF AddInputs
<1>2. ListTypes /\ ViewTypes
  BY DEF IInv, Typed
<1>3. UNCHANGED queue \/ Post("addwarn")
  BY <1>1 DEF Warn
<1>4. enabled' \in BOOLEAN
  BY <1>2 DEF AddInputs, ViewTypes
<1> QED
  BY <1>1, <1>2, <1>3, <1>4, AppendedIs, ListInv DEF AddInputs, NoJob, Attends

LEMMA RemoveInputsInv == ASSUME IInv, RemoveInputs PROVE IInv'
<1>1. PICK list \in {<<>>} \cup {RemoveAt(inputs, i) : i \in DOMAIN inputs} : Refresh(list)
  BY DEF RemoveInputs
<1>2. ListTypes
  BY DEF IInv, Typed
<1>3. list \in Seq(Folders \cup {Archive}) /\ Len(list) <= MaxInputs
  <2>1. CASE list = <<>>
    BY <2>1, WalkAssumption
  <2>2. CASE list # <<>>
    BY <1>1, <1>2, <2>2, RemovedIs
  <2> QED
    BY <2>1, <2>2
<1> QED
  BY <1>1, <1>3, ListInv DEF RemoveInputs, NoJob, Attends

LEMMA SetFormatInv == ASSUME IInv, SetFormat PROVE IInv'
<1>1. /\ ViewTypes /\ JobTypes /\ SecretTypes /\ ListTypes /\ WalkTypes /\ BoxTypes /\ QueueTypes
      /\ RunInv /\ FrameInv /\ ModeInv /\ PutBackInv /\ WorkInv /\ CancelKept /\ KeyInv
      /\ ~SpawnFails => SpawnInv
  BY DEF IInv, Typed
<1>2. /\ mode = "main" /\ stack = <<>> /\ ~running /\ makeZip' = ~makeZip
      /\ enabled' = Strength(inputs, scanning)
      /\ UNCHANGED <<walkVars, boxVars, viewVars, queue, jobVars, job, caPos, secretVars,
                     asked, consent>>
  BY DEF SetFormat, FormatMayChange, NoJob, Attends
<1>3. worker = "off" /\ enabled' \in BOOLEAN /\ makeZip' \in BOOLEAN
  BY <1>1, <1>2 DEF RunInv, Strength, JobTypes, ViewTypes
<1>4. Typed'
  BY <1>1, <1>2, <1>3 DEF Typed, ViewTypes, JobTypes, SecretTypes, ListTypes, WalkTypes, BoxTypes,
              QueueTypes, walkVars, boxVars, viewVars, jobVars, secretVars
<1>5. RunInv' /\ FrameInv' /\ ModeInv' /\ PutBackInv'
  BY <1>1, <1>2 DEF RunInv, HasMessage, FrameInv, HasFrame, Then, ModeInv, PutBackInv,
              walkVars, boxVars, viewVars, jobVars
<1>6. WorkInv' /\ CancelKept' /\ KeyInv'
  BY <1>1, <1>2, <1>3 DEF WorkInv, CancelKept, KeyInv, walkVars, viewVars, jobVars, secretVars
<1>7. SpawnInv => SpawnInv'
  <2>1. container /\ ~scanning => enabled'
    <3>1. container => inputs # <<>>
      <4>1. Len(<<>>) = 0
        OBVIOUS
      <4> QED
        BY <1>1, <4>1 DEF ModeInv
    <3>2. enabled' = (~scanning /\ inputs # <<>>)
      BY <1>2 DEF Strength
    <3> QED
      BY <3>1, <3>2
  <2> QED
    BY <1>2, <1>3, <2>1 DEF SpawnInv, HasFrame, Then, walkVars, viewVars, boxVars, jobVars
<1> QED
  BY <1>1, <1>4, <1>5, <1>6, <1>7 DEF IInv

\* A box that only says something opens, whatever else is going on.
LEMMA ToldInv ==
    ASSUME IInv, mode \notin {"launch", "dragged"}, Tell("nothing"),
           QueueTypes', RunInv', \A m \in {"indexed"} : HasMessage(m) => HasMessage(m)',
           UNCHANGED boxless \/ UNCHANGED <<walkVars, viewVars, makeZip, enabled, jobVars, job, caPos,
                                            secretVars, asked, consent>>
    PROVE  IInv'
<1>1. /\ ViewTypes /\ JobTypes /\ SecretTypes /\ ListTypes /\ WalkTypes /\ BoxTypes /\ QueueTypes
      /\ RunInv /\ FrameInv /\ ModeInv /\ PutBackInv /\ WorkInv /\ CancelKept /\ KeyInv
      /\ ~SpawnFails => SpawnInv
  BY DEF IInv, Typed
<1>2. UNCHANGED <<walkVars, viewVars, makeZip, enabled, jobVars, job, caPos,
                  secretVars, asked, consent>>
  BY DEF boxless
<1> DEFINE caller == [then |-> "nothing"]
<1>3. caller \in Callers /\ {"ok"} \in SUBSET Buttons /\ caller.then = "nothing"
  BY DEF Callers, Buttons
<1>4. OpenBox({"ok"}, caller)
  BY DEF Tell
<1> HIDE DEF caller
<1>5. /\ BoxTypes' /\ \A T : HasFrame(T)' <=> "nothing" \in T \/ HasFrame(T)
      /\ \A i \in 1..Len(stack') : \/ i = 1 /\ stack'[i].caller.then = "nothing"
                                   \/ i - 1 \in 1..Len(stack) /\ stack'[i] = stack[i - 1]
      /\ Len(stack) \in Nat /\ Len(stack') = Len(stack) + 1
  <2>1. /\ BoxTypes' /\ Len(stack) \in Nat /\ Len(stack') = Len(stack) + 1
    BY <1>1, <1>3, <1>4, Opened
  <2>2. /\ \A T : HasFrame(T)' <=> caller.then \in T \/ HasFrame(T)
        /\ \A i \in 1..Len(stack') : \/ i = 1 /\ stack'[i].caller = caller
                                     \/ i - 1 \in 1..Len(stack) /\ stack'[i] = stack[i - 1]
    BY <1>1, <1>3, <1>4, FramesOpened
  <2>3. \A T : HasFrame(T)' <=> "nothing" \in T \/ HasFrame(T)
    BY <1>3, <2>2
  <2> QED
    BY <1>3, <2>1, <2>2, <2>3
<1>6. Typed'
  BY <1>1, <1>2, <1>5 DEF Typed, ViewTypes, JobTypes, SecretTypes, ListTypes, WalkTypes,
              walkVars, viewVars, jobVars, secretVars
<1>7. FrameInv'
  <2>1. \A T \in {Asks, Ends, Waits, {"reload"}, {"extract"}} : HasFrame(T)' <=> HasFrame(T)
    BY <1>5 DEF Waits, Asks, Ends
  <2>2. \A i, j \in 1..Len(stack') : Then(i)' # "nothing" /\ Then(j)' # "nothing" => i = j
    <3> TAKE i, j \in 1..Len(stack')
    <3> SUFFICES ASSUME Then(i)' # "nothing", Then(j)' # "nothing" PROVE i = j
      OBVIOUS
    <3>1. /\ i - 1 \in 1..Len(stack) /\ stack'[i] = stack[i - 1]
          /\ j - 1 \in 1..Len(stack) /\ stack'[j] = stack[j - 1]
      BY <1>5 DEF Then
    <3>2. i - 1 = j - 1
      BY <1>1, <3>1 DEF FrameInv, Then
    <3> QED
      BY <1>5, <3>2
  <2> QED
    BY <1>1, <1>2, <2>1, <2>2 DEF FrameInv, viewVars, jobVars
<1>8. ModeInv' /\ WorkInv' /\ CancelKept' /\ KeyInv'
  BY <1>1, <1>2 DEF ModeInv, WorkInv, Chosen, CancelKept, KeyInv, walkVars, viewVars, jobVars, secretVars
<1>9. PutBackInv'
  BY <1>1, <1>2, <1>5 DEF PutBackInv, Then, walkVars, viewVars
<1>10. SpawnInv => SpawnInv'
  <2>1. \A T \in {Ends, {"reload"}} : HasFrame(T)' <=> HasFrame(T)
    BY <1>5 DEF Ends
  <2> QED
    BY <1>2, <2>1 DEF SpawnInv, Chosen, walkVars, viewVars, jobVars
<1> QED
  BY <1>1, <1>6, <1>7, <1>8, <1>9, <1>10 DEF IInv, Typed

LEMMA AboutInv == ASSUME IInv, About PROVE IInv'
<1>1. mode = "main" /\ Tell("nothing") /\ UNCHANGED boxless
  BY DEF About, Attends
<1>2. QueueTypes' /\ RunInv' /\ \A m : HasMessage(m)' <=> HasMessage(m)
  BY <1>1 DEF IInv, Typed, QueueTypes, RunInv, HasMessage, boxless, jobVars
<1> QED
  BY <1>1, <1>2, ToldInv

\* A button or Escape: the box goes, its call stays until it comes to run.
LEMMA AnswerInv == ASSUME IInv, Answer PROVE IInv'
<1>1. /\ BoxTypes /\ UNCHANGED boxless
      /\ \/ Escape
         \/ \E id \in DOMAIN boxes, button \in Buttons : Press(id, button)
  BY DEF IInv, Typed, Answer
<1>2. PICK answer \in Buttons : Destroyed(answer) /\ stack' = stack
  BY <1>1 DEF Escape, Press, Buttons
<1>3. BoxTypes'
  <2>1. boxes' \in [DOMAIN boxes' -> SUBSET Buttons] /\ DOMAIN boxes' \subseteq Ids
    BY <1>1, <1>2 DEF Destroyed, BoxTypes
  <2>2. mb' \in [hwnd : {0} \cup Ids, done : BOOLEAN, result : Buttons]
    <3>1. mb \in [hwnd : {0} \cup Ids, done : BOOLEAN, result : Buttons]
      BY <1>1 DEF BoxTypes
    <3>2. \A d \in BOOLEAN : [mb EXCEPT !.result = answer, !.done = d]
                              \in [hwnd : {0} \cup Ids, done : BOOLEAN, result : Buttons]
      BY <3>1
    <3>3. (mb.done \/ (mb.hwnd # 0)) \in BOOLEAN
      OBVIOUS
    <3> QED
      BY <1>2, <3>2, <3>3 DEF Destroyed
  <2> QED
    BY <1>1, <1>2, <2>1, <2>2 DEF BoxTypes
<1>4. Typed'
  BY <1>1, <1>3 DEF IInv, Typed, ViewTypes, JobTypes, SecretTypes, ListTypes, WalkTypes,
              QueueTypes, boxless, walkVars, viewVars, jobVars, secretVars
<1>5. RunInv' /\ FrameInv' /\ ModeInv' /\ PutBackInv'
  BY <1>1, <1>2 DEF IInv, RunInv, HasMessage, FrameInv, HasFrame, Then, ModeInv, PutBackInv,
              boxless, walkVars, viewVars, jobVars
<1>6. WorkInv' /\ CancelKept' /\ KeyInv'
  BY <1>1 DEF IInv, WorkInv, Chosen, CancelKept, KeyInv, boxless, walkVars, viewVars, jobVars,
              secretVars
<1>7. SpawnInv => SpawnInv'
  BY <1>1, <1>2 DEF SpawnInv, Chosen, HasFrame, HasMessage, Then, boxless, walkVars, viewVars, jobVars
<1> QED
  BY <1>4, <1>5, <1>6, <1>7 DEF IInv

\* The user cancels, or leaves when there is nothing to cancel.
LEMMA ExitInv == ASSUME IInv, Exit PROVE IInv'
<1>1. /\ ViewTypes /\ JobTypes /\ SecretTypes /\ ListTypes /\ WalkTypes /\ BoxTypes /\ QueueTypes
      /\ RunInv /\ FrameInv /\ ModeInv /\ PutBackInv /\ WorkInv /\ CancelKept /\ KeyInv
      /\ ~SpawnFails => SpawnInv
  BY DEF IInv, Typed
<1>2. /\ mode \in {"main", "drag"} /\ stack = <<>>
      /\ UNCHANGED <<walkVars, boxVars, op, container, isZip, makeZip, enabled, queue, job,
                     caPos, secretVars, asked, consent>>
  BY DEF Exit, Attends
<1>3. \/ ~running /\ mode' = "closed" /\ UNCHANGED jobVars
      \/ running /\ cancelled' = TRUE /\ abort' = TRUE /\ mode' = mode
           /\ UNCHANGED <<running, worker, action, result>>
  BY <1>1 DEF Exit, Closes, Cancel, JobTypes
<1>4. UNCHANGED <<running, worker, action, result>>
  BY <1>3 DEF jobVars
<1>5. JobTypes'
  BY <1>1, <1>3 DEF JobTypes, jobVars
<1>6. ViewTypes'
  BY <1>1, <1>2, <1>3 DEF ViewTypes
<1>7. Typed'
  BY <1>1, <1>2, <1>5, <1>6 DEF Typed, SecretTypes, ListTypes, WalkTypes, BoxTypes,
              QueueTypes, walkVars, boxVars, secretVars
<1>8. RunInv' /\ PutBackInv' /\ WorkInv' /\ KeyInv'
  BY <1>1, <1>2, <1>4 DEF RunInv, HasMessage, PutBackInv, Then, WorkInv, Chosen, KeyInv,
              walkVars, boxVars, secretVars
<1>9. FrameInv' /\ ModeInv'
  BY <1>1, <1>2, <1>3, <1>4 DEF FrameInv, HasFrame, ModeInv, walkVars, boxVars
<1>10. CancelKept'
  BY <1>1, <1>2, <1>3 DEF CancelKept, jobVars
<1>11. SpawnInv => SpawnInv'
  BY <1>2, <1>4 DEF SpawnInv, Chosen, HasFrame, HasMessage, Then, walkVars, boxVars
<1> QED
  BY <1>1, <1>7, <1>8, <1>9, <1>10, <1>11 DEF IInv

-----------------------------------------------------------------------------
(* Edits of the archive that is browsed.                                   *)

\* What add_dropped's warning leaves of the queue.
LEMMA Warned ==
    ASSUME QueueTypes, RunInv, NEW refused \in BOOLEAN, Warn(refused)
    PROVE  /\ QueueTypes'
           /\ HasMessage("done")' => HasMessage("done")
           /\ HasMessage("indexed") => HasMessage("indexed")'
           /\ UNCHANGED <<running, worker>> => RunInv'
<1>1. CASE UNCHANGED queue
  <2>1. UNCHANGED <<running, worker>> => RunInv'
    BY <1>1 DEF RunInv, HasMessage
  <2> QED
    BY <1>1, <2>1 DEF QueueTypes, HasMessage
<1>2. CASE Post("addwarn")
  <2>1. "addwarn" \in Messages /\ "addwarn" \in Messages \ {"done"}
    BY DEF Messages
  <2>2. \A x : HasMessage(x) => HasMessage(x)'
    BY <1>2, <2>1, PostedOnly
  <2>3. \A x : HasMessage(x)' => x = "addwarn" \/ HasMessage(x)
    BY <1>2, <2>1, PostedOnly
  <2>4. UNCHANGED <<running, worker>> => RunInv'
    BY <1>2, <2>1, PostedMore
  <2> QED
    BY <1>2, <2>1, <2>2, <2>3, <2>4, Posted
<1> QED
  BY <1>1, <1>2 DEF Warn

\* An edit starts from the archive, with nobody waiting for a box any more.
LEMMA EditStarted ==
    ASSUME IInv, ~running, container, mode = "main", \A T : T \subseteq Waits => ~HasFrame(T)',
           EnterRunning, NEW j \in {1, 2}, job' = j,
           asked' = (IF j = 1 THEN "add" ELSE "remove"), consent' \in BOOLEAN,
           QueueTypes', BoxTypes', HasMessage("done")' => HasMessage("done"),
           \A a, b \in 1..Len(stack') : Then(a)' # "nothing" /\ Then(b)' # "nothing" => a = b,
           inputs' \in Seq(Folders \cup {Archive}), Len(inputs') >= 1, Len(inputs') <= MaxInputs,
           caPos' \in 0..MaxInputs, caPos' <= Len(inputs'),
           pass' \in {"none", "typed", "wiped"}, ready' = ready, key' \in BOOLEAN,
           UNCHANGED <<scanning, scans, walk, packing, packed, viewVars, makeZip>>
    PROVE  IInv'
<1>1. /\ ViewTypes /\ JobTypes /\ SecretTypes /\ ListTypes /\ WalkTypes
      /\ RunInv /\ ModeInv /\ WorkInv
  BY DEF IInv, Typed
<1>2. /\ JobTypes' /\ RunInv' /\ worker = "off" /\ worker' \in {"off", "start"}
      /\ ~cancelled' /\ ~enabled' /\ enabled' \in BOOLEAN /\ (~SpawnFails => running')
  BY <1>1, Entered
<1>3. /\ ViewTypes' /\ SecretTypes' /\ ListTypes' /\ WalkTypes'
  BY <1>1, <1>2 DEF ViewTypes, SecretTypes, ListTypes, WalkTypes, viewVars, Actions
<1>4. /\ ~HasFrame(Asks)' /\ ~HasFrame(Ends)' /\ ~HasFrame(Waits)' /\ ~HasFrame({"reload"})'
      /\ ~HasFrame({"extract"})'
  BY DEF Waits, Ends
<1>5. FrameInv'
  BY <1>4 DEF FrameInv
<1>6. ModeInv'
  BY <1>1 DEF ModeInv, viewVars
<1>7. PutBackInv'
  <2>1. \A i \in 1..Len(stack') : Then(i)' # "add"
    BY <1>4 DEF HasFrame, Asks
  <2> QED
    BY <1>3, <2>1 DEF PutBackInv, viewVars
<1>8. WorkInv' /\ CancelKept' /\ KeyInv'
  BY <1>1, <1>2 DEF WorkInv, CancelKept, KeyInv, viewVars
<1>9. ~SpawnFails => SpawnInv'
  <2>1. Chosen' = asked'
    BY DEF Chosen
  <2> QED
    BY <1>2, <2>1 DEF SpawnInv
<1> QED
  BY <1>2, <1>3, <1>5, <1>6, <1>7, <1>8, <1>9 DEF IInv, Typed

\* The user is asked first: the box is the only one, and remembers the list's end.
LEMMA AskedInv ==
    ASSUME IInv, ~running, container, mode = "main", stack = <<>>,
           NEW then \in Asks, NEW pos \in 0..MaxInputs, AskFirst(then, pos),
           then = "add" => pos >= 1 /\ caPos <= pos /\ pos <= Len(inputs'),
           inputs' \in Seq(Folders \cup {Archive}), Len(inputs') >= Len(inputs),
           Len(inputs') <= MaxInputs, key' \in BOOLEAN,
           QueueTypes', RunInv', HasMessage("indexed") => HasMessage("indexed")',
           UNCHANGED <<scanning, scans, walk, packing, packed, viewVars, makeZip, enabled,
                       jobVars, job, caPos, pass, ready, asked, consent>>
    PROVE  IInv'
<1>1. /\ ViewTypes /\ JobTypes /\ SecretTypes /\ ListTypes /\ WalkTypes /\ BoxTypes /\ QueueTypes
      /\ RunInv /\ FrameInv /\ ModeInv /\ PutBackInv /\ WorkInv /\ CancelKept /\ KeyInv
      /\ ~SpawnFails => SpawnInv
  BY DEF IInv, Typed
<1> DEFINE caller == [then |-> then, pos |-> pos]
<1>2. caller \in Callers /\ caller.then = then /\ caller.pos = pos
  BY DEF Callers
<1>3. OpenBox(Buttons, caller)
  BY DEF AskFirst
<1> HIDE DEF caller
<1>4. /\ BoxTypes' /\ \A T : HasFrame(T)' <=> then \in T
      /\ \A i \in 1..Len(stack') : i = 1 /\ stack'[i].caller = caller
  <2>1. /\ BoxTypes'
        /\ \A T : HasFrame(T)' <=> caller.then \in T \/ HasFrame(T)
    BY <1>1, <1>2, <1>3, Opened, FramesOpened
  <2>2. \A i \in 1..Len(stack') : \/ i = 1 /\ stack'[i].caller = caller
                                  \/ i - 1 \in 1..Len(stack) /\ stack'[i] = stack[i - 1]
    BY <1>1, <1>2, <1>3, FramesOpened
  <2>3. Len(stack) = 0
    OBVIOUS
  <2>4. \A T : ~HasFrame(T)
    BY <2>3 DEF HasFrame
  <2> QED
    BY <1>2, <2>1, <2>2, <2>3, <2>4
<1>5. \A T : ~HasFrame(T)
  BY DEF HasFrame
<1>6. worker = "off"
  BY <1>1 DEF RunInv, JobTypes
<1>7. Typed'
  BY <1>1, <1>4 DEF Typed, ViewTypes, JobTypes, SecretTypes, ListTypes, WalkTypes, viewVars, jobVars
<1>8. FrameInv' /\ ModeInv'
  <2>1. "reload" # then /\ "extract" # then
    BY DEF Asks
  <2>2. FrameInv'
    BY <1>4, <2>1 DEF FrameInv, viewVars, jobVars
  <2>3. Len(inputs') \in Nat /\ Len(inputs) \in Nat
    BY <1>1, LenProperties DEF ListTypes
  <2>4. ModeInv'
    BY <1>1, <2>3 DEF ModeInv, viewVars, jobVars
  <2> QED
    BY <2>2, <2>4
<1>9. PutBackInv'
  <2>1. Len(inputs') \in Nat /\ Len(inputs) \in Nat /\ caPos \in Nat /\ pos \in Nat
    BY <1>1, LenProperties, WalkAssumption DEF ListTypes, ViewTypes
  <2>2. caPos' <= Len(inputs') /\ (caPos' # 0 => container')
    BY <1>1, <2>1 DEF PutBackInv, viewVars
  <2> QED
    BY <1>2, <1>4, <2>2 DEF PutBackInv, Then
<1>10. WorkInv' /\ CancelKept' /\ KeyInv'
  BY <1>1, <1>6 DEF WorkInv, CancelKept, KeyInv, viewVars, jobVars
<1>11. SpawnInv => SpawnInv'
  BY <1>1, <1>5, <1>6 DEF SpawnInv, viewVars, jobVars
<1> QED
  BY <1>1, <1>7, <1>8, <1>9, <1>10, <1>11 DEF IInv, Typed

LEMMA ContainerAddInv == ASSUME IInv, ContainerAdd PROVE IInv'
<1>1. /\ ViewTypes /\ JobTypes /\ SecretTypes /\ ListTypes /\ WalkTypes /\ BoxTypes /\ QueueTypes
      /\ RunInv /\ FrameInv /\ ModeInv /\ PutBackInv /\ WorkInv /\ CancelKept /\ KeyInv
      /\ ~SpawnFails => SpawnInv
  BY DEF IInv, Typed
<1>2. /\ ~running /\ container /\ mode = "main" /\ stack = <<>> /\ queue = <<>>
      /\ UNCHANGED <<scanning, scans, walk, packing, packed, viewVars, makeZip, secretVars>>
  BY DEF ContainerAdd, Attends, NoJob
<1>3. PICK folder \in Folders \cup {NoFolder}, refused \in BOOLEAN, large \in BOOLEAN :
        /\ Warn(refused)
        /\ \/ /\ Appended(folder) = inputs
              /\ UNCHANGED <<inputs, boxVars, enabled, jobVars, job, caPos, asked, consent>>
           \/ /\ Appended(folder) # inputs
              /\ inputs' = Appended(folder) /\ AskFirst("add", Len(inputs))
              /\ UNCHANGED <<enabled, jobVars, job, caPos, asked, consent>>
           \/ /\ Appended(folder) # inputs
              /\ AddConfirmed(Appended(folder), Len(inputs)) /\ Asked("add", TRUE)
              /\ UNCHANGED boxVars
  BY DEF ContainerAdd
<1>4. /\ Appended(folder) \in Seq(Folders \cup {Archive}) /\ Len(Appended(folder)) <= MaxInputs
      /\ Appended(folder) # inputs => Len(Appended(folder)) = Len(inputs) + 1
      /\ Len(inputs) \in Nat /\ Len(inputs) >= 1 /\ Len(inputs) <= MaxInputs
      /\ caPos \in Nat /\ caPos <= Len(inputs) /\ MaxInputs \in Nat
  BY <1>1, <1>2, <1>3, AppendedIs, WalkAssumption DEF ModeInv, PutBackInv, ViewTypes, ListTypes
<1>5. /\ QueueTypes' /\ (HasMessage("done")' => HasMessage("done"))
      /\ HasMessage("indexed") => HasMessage("indexed")'
      /\ UNCHANGED <<running, worker>> => RunInv'
  BY <1>1, <1>3, Warned
<1>6. /\ Len(stack) = 0 /\ \A T : ~HasFrame(T)
  BY <1>2 DEF HasFrame
<1>7. CASE UNCHANGED <<inputs, boxVars, enabled, jobVars, job, caPos, asked, consent>>
  <2>1. RunInv'
    BY <1>5, <1>7 DEF jobVars
  <2>2. Typed'
    BY <1>1, <1>2, <1>5, <1>7 DEF Typed, ViewTypes, JobTypes, SecretTypes, ListTypes, WalkTypes,
                BoxTypes, boxVars, viewVars, jobVars, secretVars
  <2>3. FrameInv' /\ ModeInv' /\ PutBackInv'
    BY <1>1, <1>2, <1>7 DEF FrameInv, HasFrame, Then, ModeInv, PutBackInv, boxVars, viewVars, jobVars
  <2>4. WorkInv' /\ CancelKept' /\ KeyInv'
    BY <1>1, <1>2, <1>7 DEF WorkInv, Chosen, CancelKept, KeyInv, viewVars, jobVars, secretVars
  <2>5. SpawnInv => SpawnInv'
    BY <1>2, <1>5, <1>6, <1>7 DEF SpawnInv, Chosen, viewVars, jobVars
  <2> QED
    BY <1>1, <2>1, <2>2, <2>3, <2>4, <2>5 DEF IInv
<1>8. CASE /\ Appended(folder) # inputs
           /\ inputs' = Appended(folder) /\ AskFirst("add", Len(inputs))
           /\ UNCHANGED <<enabled, jobVars, job, caPos, asked, consent>>
  <2>1. "add" \in Asks /\ Len(inputs) \in 0..MaxInputs
    BY <1>4 DEF Asks
  <2>2. RunInv' /\ key' \in BOOLEAN /\ pass' = pass /\ ready' = ready
    BY <1>1, <1>2, <1>5, <1>8 DEF jobVars, secretVars, SecretTypes
  <2> QED
    BY <1>2, <1>4, <1>5, <1>8, <2>1, <2>2, AskedInv
<1>9. CASE /\ Appended(folder) # inputs
           /\ AddConfirmed(Appended(folder), Len(inputs)) /\ Asked("add", TRUE)
           /\ UNCHANGED boxVars
  <2>1. /\ EnterRunning /\ job' = 1 /\ inputs' = Appended(folder) /\ caPos' = Len(inputs)
        /\ asked' = "add" /\ consent' = TRUE
    BY <1>9 DEF AddConfirmed, Asked
  <2>2. BoxTypes' /\ stack' = <<>> /\ Len(stack') = 0 /\ \A T : ~HasFrame(T)'
    BY <1>1, <1>2, <1>9 DEF BoxTypes, boxVars, HasFrame
  <2>3. pass' \in {"none", "typed", "wiped"} /\ ready' = ready /\ key' \in BOOLEAN
    BY <1>1, <1>2 DEF SecretTypes, secretVars
  <2>4. \A a, b \in 1..Len(stack') : Then(a)' # "nothing" /\ Then(b)' # "nothing" => a = b
    BY <2>2
  <2>5. 1 \in {1, 2} /\ asked' = (IF 1 = 1 THEN "add" ELSE "remove") /\ consent' \in BOOLEAN
    BY <2>1
  <2>6. Len(inputs') >= 1 /\ Len(inputs') <= MaxInputs /\ caPos' \in 0..MaxInputs /\ caPos' <= Len(inputs')
    BY <1>4, <1>9, <2>1
  <2>7. inputs' \in Seq(Folders \cup {Archive})
    BY <1>4, <2>1
  <2> QED
    BY <1>2, <1>5, <2>1, <2>2, <2>3, <2>4, <2>5, <2>6, <2>7, EditStarted
<1> QED
  BY <1>3, <1>7, <1>8, <1>9

LEMMA ContainerRemoveInv == ASSUME IInv, ContainerRemove PROVE IInv'
<1>1. /\ ViewTypes /\ JobTypes /\ SecretTypes /\ ListTypes /\ WalkTypes /\ BoxTypes /\ QueueTypes
      /\ RunInv /\ FrameInv /\ ModeInv /\ PutBackInv /\ WorkInv /\ CancelKept /\ KeyInv
      /\ ~SpawnFails => SpawnInv
  BY DEF IInv, Typed
<1>2. /\ ~running /\ container /\ mode = "main" /\ stack = <<>> /\ queue = <<>>
      /\ key' = (key \/ ~isZip)
      /\ UNCHANGED <<walkVars, viewVars, makeZip, queue, caPos, pass, ready>>
  BY DEF ContainerRemove, Attends, NoJob
<1>3. \/ UNCHANGED <<boxVars, enabled, jobVars, job, asked, consent>>
      \/ AskFirst("remove", 0) /\ UNCHANGED <<enabled, jobVars, job, asked, consent>>
      \/ RemoveConfirmed /\ Asked("remove", TRUE) /\ UNCHANGED boxVars
  BY DEF ContainerRemove
<1>4. key' \in BOOLEAN
  BY <1>1, <1>2 DEF SecretTypes, ViewTypes
<1>5. /\ QueueTypes' /\ \A m : HasMessage(m)' <=> HasMessage(m)
      /\ UNCHANGED <<running, worker>> => RunInv'
  BY <1>1, <1>2 DEF QueueTypes, HasMessage, RunInv
<1>6. /\ inputs \in Seq(Folders \cup {Archive}) /\ inputs' = inputs
      /\ Len(inputs) >= 1 /\ Len(inputs) <= MaxInputs /\ caPos' = caPos
      /\ caPos \in 0..MaxInputs /\ caPos <= Len(inputs)
      /\ UNCHANGED <<scanning, scans, walk, packing, packed>>
  BY <1>1, <1>2 DEF ModeInv, ListTypes, ViewTypes, PutBackInv, walkVars
<1>7. /\ Len(stack) = 0 /\ \A T : ~HasFrame(T)
  BY <1>2 DEF HasFrame
<1>8. CASE UNCHANGED <<boxVars, enabled, jobVars, job, asked, consent>>
  <2>1. RunInv'
    BY <1>5, <1>8 DEF jobVars
  <2>2. Typed'
    BY <1>1, <1>2, <1>4, <1>5, <1>8 DEF Typed, ViewTypes, JobTypes, SecretTypes, ListTypes, WalkTypes,
                BoxTypes, walkVars, boxVars, viewVars, jobVars
  <2>3. FrameInv' /\ ModeInv' /\ PutBackInv'
    BY <1>1, <1>2, <1>8 DEF FrameInv, HasFrame, Then, ModeInv, PutBackInv, walkVars, boxVars, viewVars,
                jobVars
  <2>4. WorkInv' /\ CancelKept' /\ KeyInv'
    BY <1>1, <1>2, <1>8 DEF WorkInv, Chosen, CancelKept, KeyInv, walkVars, viewVars, jobVars
  <2>5. SpawnInv => SpawnInv'
    BY <1>2, <1>5, <1>7, <1>8 DEF SpawnInv, Chosen, walkVars, viewVars, jobVars
  <2> QED
    BY <1>1, <2>1, <2>2, <2>3, <2>4, <2>5 DEF IInv
<1>9. CASE AskFirst("remove", 0) /\ UNCHANGED <<enabled, jobVars, job, asked, consent>>
  <2>1. "remove" \in Asks /\ 0 \in 0..MaxInputs /\ "remove" # "add"
    BY WalkAssumption DEF Asks
  <2>2. RunInv' /\ Len(inputs') >= Len(inputs)
    BY <1>5, <1>6, <1>9, LenProperties DEF jobVars
  <2> QED
    BY <1>2, <1>4, <1>5, <1>6, <1>9, <2>1, <2>2, AskedInv
<1>10. CASE RemoveConfirmed /\ Asked("remove", TRUE) /\ UNCHANGED boxVars
  <2>1. EnterRunning /\ job' = 2 /\ asked' = "remove" /\ consent' = TRUE
    BY <1>10 DEF RemoveConfirmed, Asked
  <2>2. BoxTypes' /\ stack' = <<>> /\ Len(stack') = 0 /\ \A T : ~HasFrame(T)'
    BY <1>1, <1>2, <1>10 DEF BoxTypes, boxVars, HasFrame
  <2>3. pass' \in {"none", "typed", "wiped"} /\ ready' = ready
    BY <1>1, <1>2 DEF SecretTypes
  <2>4. \A a, b \in 1..Len(stack') : Then(a)' # "nothing" /\ Then(b)' # "nothing" => a = b
    BY <2>2
  <2>5. 2 \in {1, 2} /\ asked' = (IF 2 = 1 THEN "add" ELSE "remove") /\ consent' \in BOOLEAN
    BY <2>1
  <2> QED
    BY <1>2, <1>4, <1>5, <1>6, <2>1, <2>2, <2>3, <2>4, <2>5, EditStarted
<1> QED
  BY <1>3, <1>8, <1>9, <1>10

-----------------------------------------------------------------------------
(* The worker and the indexers.                                            *)

\* What the worker's steps leave alone, and what follows of the rest.
LEMMA WorkerKeeps ==
    ASSUME IInv, UNCHANGED <<listVars, windowVars, queue, running, cancelled>>,
           worker # "off", worker' \in {"begin", "work", "end"}
    PROVE  /\ ViewTypes' /\ ListTypes' /\ BoxTypes' /\ QueueTypes'
           /\ RunInv' /\ FrameInv' /\ ModeInv' /\ PutBackInv'
           /\ ~SpawnFails => SpawnInv'
           /\ Chosen' = Chosen /\ pass' = pass /\ ready' = ready /\ inputs' = inputs
           /\ walk \in Folders \cup {Archive, NoFolder} /\ action \in Actions /\ Chosen \in Actions
<1>1. /\ ViewTypes /\ JobTypes /\ SecretTypes /\ ListTypes /\ WalkTypes /\ BoxTypes /\ QueueTypes
      /\ RunInv /\ FrameInv /\ ModeInv /\ PutBackInv
      /\ ~SpawnFails => SpawnInv
  BY DEF IInv, Typed
<1>2. ViewTypes' /\ ListTypes' /\ BoxTypes' /\ QueueTypes'
  BY <1>1 DEF ViewTypes, ListTypes, BoxTypes, QueueTypes, listVars, windowVars, viewVars, boxVars
<1>3. RunInv'
  BY <1>1 DEF RunInv, HasMessage
<1>4. FrameInv' /\ ModeInv' /\ PutBackInv'
  BY <1>1 DEF FrameInv, HasFrame, HasMessage, Then, ModeInv, PutBackInv, listVars, windowVars, viewVars,
              boxVars
<1>5. Chosen' = Chosen
  BY DEF Chosen, windowVars, viewVars
<1>6. SpawnInv => SpawnInv'
  BY <1>1, <1>5 DEF SpawnInv, HasFrame, HasMessage, Then, RunInv, listVars, windowVars, viewVars, boxVars
<1>7. Chosen \in Actions
  BY DEF Chosen, Actions
<1> QED
  BY <1>1, <1>2, <1>3, <1>4, <1>5, <1>6, <1>7 DEF listVars, windowVars, WalkTypes, JobTypes

LEMMA WorkerStartInv == ASSUME IInv, WorkerStart PROVE IInv'
<1>1. /\ worker = "start" /\ worker' = "begin" /\ action' = Chosen
      /\ UNCHANGED <<walkVars, windowVars, queue, running, cancelled, abort, result, key>>
  BY DEF WorkerStart
<1>2. /\ ViewTypes' /\ ListTypes' /\ BoxTypes' /\ QueueTypes'
      /\ RunInv' /\ FrameInv' /\ ModeInv' /\ PutBackInv' /\ (~SpawnFails => SpawnInv')
      /\ Chosen' = Chosen /\ pass' = pass /\ ready' = ready /\ inputs' = inputs
      /\ Chosen \in Actions
  BY <1>1, WorkerKeeps DEF walkVars, listVars
<1>3. JobTypes' /\ SecretTypes' /\ WalkTypes'
  BY <1>1, <1>2 DEF IInv, Typed, JobTypes, SecretTypes, WalkTypes, walkVars
<1>4. WorkInv' /\ CancelKept' /\ KeyInv'
  BY <1>1, <1>2 DEF IInv, WorkInv, CancelKept, KeyInv, walkVars, windowVars, viewVars
<1> QED
  BY <1>2, <1>3, <1>4 DEF IInv, Typed

LEMMA WorkerBeginInv == ASSUME IInv, WorkerBegin PROVE IInv'
<1>1. /\ worker = "begin" /\ worker' = "work" /\ abort' = AbortAtBegin
      /\ key' = (key \/ DerivesKey)
      /\ packing' = [done |-> IF action = "add" THEN 1 ELSE 0, named |-> FALSE]
      /\ packed' = <<>>
      /\ UNCHANGED <<listVars, walk, windowVars, queue, running, cancelled, action, result>>
  BY DEF WorkerBegin
<1>2. /\ JobTypes /\ SecretTypes /\ WalkTypes /\ WorkInv /\ CancelKept
  BY DEF IInv, Typed
<1>3. /\ ViewTypes' /\ ListTypes' /\ BoxTypes' /\ QueueTypes'
      /\ RunInv' /\ FrameInv' /\ ModeInv' /\ PutBackInv' /\ (~SpawnFails => SpawnInv')
      /\ Chosen' = Chosen /\ pass' = pass /\ ready' = ready /\ inputs' = inputs
  BY <1>1, WorkerKeeps
<1>4. AbortAtBegin = (Rewrites /\ abort) /\ AbortAtBegin \in BOOLEAN
  BY DEF AbortAtBegin
<1>5. JobTypes'
  BY <1>1, <1>2, <1>4 DEF JobTypes
<1>6. SecretTypes'
  BY <1>1, <1>2, <1>3 DEF SecretTypes
<1>7. WalkTypes' /\ packing'.named = FALSE /\ packed' = <<>> /\ packing'.done \in Nat
  BY <1>1, <1>2, WalkAssumption DEF WalkTypes
<1>8. WorkInv'
  BY <1>1, <1>2, <1>3, <1>7 DEF WorkInv
<1>9. CancelKept'
  <2>1. job # 0 /\ ~isZip => Rewrites
    <3>1. job \in 0..2 /\ action = Chosen
      BY <1>1, <1>2 DEF IInv, Typed, ViewTypes, WorkInv
    <3> QED
      BY <3>1 DEF Rewrites, Chosen
  <2> QED
    BY <1>1, <1>2, <1>4, <2>1 DEF CancelKept, windowVars, viewVars
<1>10. KeyInv'
  BY <1>1 DEF KeyInv
<1> QED
  BY <1>3, <1>5, <1>6, <1>7, <1>8, <1>9, <1>10 DEF IInv, Typed

LEMMA WorkerPackInv == ASSUME IInv, WorkerPack PROVE IInv'
<1>1. /\ worker = "work" /\ UNCHANGED <<windowVars, queue, jobVars, key>>
      /\ PackTop \/ PackNode
  BY DEF WorkerPack
<1>2. /\ JobTypes /\ SecretTypes /\ WalkTypes /\ ListTypes /\ WorkInv /\ CancelKept /\ KeyInv
  BY DEF IInv, Typed
<1>3. UNCHANGED listVars /\ UNCHANGED <<running, cancelled, abort, worker, action, result>>
  BY <1>1 DEF PackTop, PackNode, jobVars
<1>4. /\ ViewTypes' /\ ListTypes' /\ BoxTypes' /\ QueueTypes'
      /\ RunInv' /\ FrameInv' /\ ModeInv' /\ PutBackInv' /\ (~SpawnFails => SpawnInv')
      /\ Chosen' = Chosen /\ pass' = pass /\ ready' = ready /\ inputs' = inputs
  BY <1>1, <1>3, WorkerKeeps
<1>5. JobTypes' /\ SecretTypes'
  BY <1>1, <1>2, <1>3, <1>4 DEF JobTypes, SecretTypes
<1>6. /\ packing.done \in Nat /\ packing.done <= MaxInputs /\ packing.named \in BOOLEAN
      /\ Len(inputs) \in Nat /\ Len(inputs) <= MaxInputs
      /\ Len(packed) \in Nat /\ Len(packed) <= packing.done
      /\ packing.done < Len(inputs) => inputs[packing.done + 1] \in Folders \cup {Archive}
  <2>1. packing \in [done : 0..MaxInputs, named : BOOLEAN] /\ MaxInputs \in Nat
    BY <1>2, WalkAssumption DEF WalkTypes
  <2>2. Len(inputs) \in Nat /\ Len(inputs) <= MaxInputs
        /\ \A i \in 1..Len(inputs) : inputs[i] \in Folders \cup {Archive}
    BY <1>2, LenProperties DEF ListTypes
  <2>3. packing.done \in 0..MaxInputs /\ packing.named \in BOOLEAN
    BY <2>1
  <2>4. packing.done < Len(inputs) => packing.done + 1 \in 1..Len(inputs)
    BY <2>1, <2>2, <2>3
  <2> QED
    BY <1>2, <2>1, <2>2, <2>3, <2>4, LenProperties DEF WalkTypes, WorkInv
<1>7. CancelKept' /\ KeyInv'
  BY <1>1, <1>2, <1>3 DEF CancelKept, KeyInv, windowVars, viewVars
<1>8. CASE PackTop
  <2>1. /\ packing.done < Len(inputs) /\ walk' = inputs[packing.done + 1] /\ packed' = packed
        /\ packing' = [packing EXCEPT !.named = TRUE]
    BY <1>8 DEF PackTop
  <2>2. /\ packing' \in [done : 0..MaxInputs, named : BOOLEAN] /\ packing'.done = packing.done
    BY <1>2, <2>1 DEF WalkTypes
  <2>3. WalkTypes'
    BY <1>2, <1>6, <2>1, <2>2 DEF WalkTypes
  <2>4. action' = Chosen' /\ worker' = "work"
    BY <1>1, <1>2, <1>3, <1>4 DEF WorkInv
  <2>5. Len(packed') <= packing'.done /\ packing'.done < Len(inputs')
    BY <1>4, <1>6, <2>1, <2>2
  <2>6. WorkInv'
    BY <2>4, <2>5 DEF WorkInv
  <2> QED
    BY <1>4, <1>5, <1>7, <2>3, <2>6 DEF IInv, Typed
<1>9. CASE PackNode
  <2> DEFINE entry == [name |-> inputs[packing.done + 1], from |-> walk]
  <2>1. /\ packing.named /\ walk' = walk /\ packed' = Append(packed, entry)
        /\ packing' = [done |-> packing.done + 1, named |-> FALSE]
    BY <1>9 DEF PackNode
  <2>2. packing.done < Len(inputs)
    BY <1>2, <2>1 DEF WorkInv
  <2>3. entry \in [name : Folders \cup {Archive}, from : Folders \cup {Archive, NoFolder}]
    BY <1>2, <1>6, <2>2 DEF WalkTypes
  <2> HIDE DEF entry
  <2>4. /\ packed' \in Seq([name : Folders \cup {Archive}, from : Folders \cup {Archive, NoFolder}])
        /\ Len(packed') = Len(packed) + 1
    BY <1>2, <2>1, <2>3, AppendProperties DEF WalkTypes
  <2>5. packing' \in [done : 0..MaxInputs, named : BOOLEAN]
    BY <1>6, <2>1, <2>2, WalkAssumption
  <2>6. packing'.named = FALSE /\ packing'.done = packing.done + 1
    BY <2>1
  <2>7. WalkTypes'
    BY <1>2, <2>1, <2>4, <2>5 DEF WalkTypes
  <2>8. action' = Chosen' /\ worker' = "work"
    BY <1>1, <1>2, <1>3, <1>4 DEF WorkInv
  <2>9. Len(packed') <= packing'.done
    BY <1>6, <2>4, <2>6
  <2>10. WorkInv'
    BY <2>6, <2>8, <2>9 DEF WorkInv
  <2> QED
    BY <1>4, <1>5, <1>7, <2>7, <2>10 DEF IInv, Typed
<1> QED
  BY <1>1, <1>8, <1>9

LEMMA WorkerStopInv == ASSUME IInv, WorkerStop PROVE IInv'
<1>1. /\ worker \in {"begin", "work"} /\ worker' = "end"
      /\ result' \in (IF Opens THEN Outcomes ELSE {EXIT_AUTH})
      /\ key' \in KeyAfterJob
      /\ UNCHANGED <<walkVars, windowVars, queue, running, cancelled, abort, action>>
  BY DEF WorkerStop
<1>2. /\ JobTypes /\ SecretTypes /\ WalkTypes /\ WorkInv /\ CancelKept /\ KeyInv
  BY DEF IInv, Typed
<1>3. /\ ViewTypes' /\ ListTypes' /\ BoxTypes' /\ QueueTypes'
      /\ RunInv' /\ FrameInv' /\ ModeInv' /\ PutBackInv' /\ (~SpawnFails => SpawnInv')
      /\ Chosen' = Chosen /\ pass' = pass /\ ready' = ready /\ inputs' = inputs
  BY <1>1, WorkerKeeps DEF walkVars, listVars
<1>4. result' \in Results
  BY <1>1 DEF Outcomes, Results
<1>5. key' \in {FALSE, key} /\ (key' => worker = "begin")
  BY <1>1 DEF KeyAfterJob
<1>6. JobTypes' /\ SecretTypes' /\ WalkTypes'
  BY <1>1, <1>2, <1>3, <1>4, <1>5 DEF JobTypes, SecretTypes, WalkTypes, walkVars
<1>7. WorkInv'
  BY <1>1, <1>2, <1>3 DEF WorkInv, walkVars
<1>8. CancelKept'
  BY <1>1, <1>2 DEF CancelKept, windowVars, viewVars
<1>9. KeyInv'
  <2>1. CASE worker = "begin"
    <3>1. key => container
      BY <1>2, <2>1 DEF KeyInv
    <3>2. container' = container
      BY <1>1 DEF windowVars, viewVars
    <3>3. key \in BOOLEAN
      BY <1>2 DEF SecretTypes
    <3> QED
      BY <1>5, <3>1, <3>2, <3>3 DEF KeyInv
  <2>2. CASE worker # "begin"
    BY <1>5, <2>2 DEF KeyInv
  <2> QED
    BY <2>1, <2>2
<1> QED
  BY <1>9, <1>3, <1>6, <1>7, <1>8 DEF IInv, Typed

LEMMA WorkerEndInv == ASSUME IInv, WorkerEnd PROVE IInv'
<1>1. /\ worker = "end" /\ worker' = "off" /\ action' = NoAction
      /\ packing' = [done |-> 0, named |-> FALSE] /\ packed' = <<>> /\ Post("done")
      /\ UNCHANGED <<listVars, walk, windowVars, running, cancelled, abort, result, key>>
  BY DEF WorkerEnd
<1>2. /\ ViewTypes /\ JobTypes /\ SecretTypes /\ ListTypes /\ WalkTypes /\ BoxTypes /\ QueueTypes
      /\ RunInv /\ FrameInv /\ ModeInv /\ PutBackInv /\ WorkInv /\ CancelKept /\ KeyInv
      /\ ~SpawnFails => SpawnInv
  BY DEF IInv, Typed
<1>3. /\ QueueTypes' /\ Len(queue) \in Nat /\ Len(queue') = Len(queue) + 1
      /\ \A i \in 1..Len(queue) : queue'[i] = queue[i]
      /\ HasMessage("done")' /\ \A m : HasMessage(m) => HasMessage(m)'
  BY <1>1, <1>2, Posted, PostedOnly, LenProperties DEF Messages, QueueTypes
<1>4. RunInv'
  <2>1. running /\ ~HasMessage("done")
    BY <1>1, <1>2 DEF RunInv
  <2>2. \A i \in 1..Len(queue') : queue'[i] = "done" => i = Len(queue) + 1
    BY <1>3, <2>1 DEF HasMessage
  <2> QED
    BY <1>1, <1>3, <2>1, <2>2 DEF RunInv
<1>5. JobTypes' /\ SecretTypes' /\ WalkTypes'
  <2>1. NoAction \in Actions
    BY DEF Actions
  <2> QED
    BY <1>1, <1>2, <2>1, WalkAssumption DEF JobTypes, SecretTypes, WalkTypes, windowVars
<1>6. ViewTypes' /\ ListTypes' /\ BoxTypes'
  BY <1>1, <1>2 DEF ViewTypes, ListTypes, BoxTypes, listVars, windowVars, viewVars, boxVars
<1>7. FrameInv' /\ ModeInv' /\ PutBackInv'
  <2>1. mode \notin {"launch", "dragged"}
    BY <1>1, <1>2 DEF RunInv, ModeInv
  <2> QED
    BY <1>1, <1>2, <2>1 DEF FrameInv, HasFrame, Then, ModeInv, PutBackInv, listVars, windowVars, viewVars,
                boxVars
<1>8. WorkInv'
  BY <1>1 DEF WorkInv
<1>9. CancelKept' /\ KeyInv'
  BY <1>1, <1>2 DEF CancelKept, KeyInv, windowVars, viewVars
<1>10. SpawnInv => SpawnInv'
  BY <1>1, <1>3 DEF SpawnInv, HasFrame, Then, listVars, windowVars, viewVars, boxVars
<1> QED
  BY <1>2, <1>3, <1>4, <1>5, <1>6, <1>7, <1>8, <1>9, <1>10 DEF IInv, Typed

LEMMA IndexerInv == ASSUME IInv, NEW s \in Scanners, IndexerStep(s) PROVE IInv'
<1>1. /\ ViewTypes /\ JobTypes /\ SecretTypes /\ ListTypes /\ WalkTypes /\ BoxTypes /\ QueueTypes
      /\ RunInv /\ FrameInv /\ ModeInv /\ PutBackInv /\ WorkInv /\ CancelKept /\ KeyInv
      /\ ~SpawnFails => SpawnInv
  BY DEF IInv, Typed
<1>2. /\ UNCHANGED <<inputs, packing, packed, windowVars, jobVars, key>>
      /\ \/ ScanInput(s) /\ UNCHANGED <<queue, scanning>>
         \/ ScanEnd(s) /\ Post("indexed") /\ scanning' = FALSE
  BY DEF IndexerStep, ScanInput, ScanEnd
<1>3. ListTypes' /\ WalkTypes'
  <2>1. /\ Len(inputs) \in Nat /\ Len(inputs) <= MaxInputs /\ MaxInputs \in Nat
        /\ \A i \in 1..Len(inputs) : inputs[i] \in Folders \cup {Archive}
        /\ scans \in [Scanners -> -1..MaxInputs] /\ scans[s] \in -1..MaxInputs
    BY <1>1, LenProperties, WalkAssumption DEF ListTypes
  <2>2. CASE ScanInput(s)
    <3>1. scans[s] >= 0 /\ scans[s] < Len(inputs)
      BY <2>2 DEF ScanInput, Scanning
    <3>2. scans[s] + 1 \in 1..Len(inputs) /\ scans[s] + 1 \in -1..MaxInputs
      BY <2>1, <3>1
    <3>3. scans' \in [Scanners -> -1..MaxInputs] /\ walk' \in Folders \cup {Archive}
          /\ UNCHANGED <<inputs, scanning, packing, packed>>
      BY <2>1, <2>2, <3>2 DEF ScanInput
    <3> QED
      BY <1>1, <3>3 DEF ListTypes, WalkTypes
  <2>3. CASE ScanEnd(s)
    <3>1. -1 \in -1..MaxInputs
      BY <2>1
    <3>2. scans' \in [Scanners -> -1..MaxInputs] /\ UNCHANGED <<inputs, walk, packing, packed>>
          /\ scanning' = FALSE
      BY <2>1, <2>3, <3>1 DEF ScanEnd
    <3> QED
      BY <1>1, <3>2 DEF ListTypes, WalkTypes
  <2> QED
    BY <1>2, <2>2, <2>3
<1>4. QueueTypes' /\ RunInv' /\ \A m : HasMessage(m) => HasMessage(m)'
  <2>1. CASE UNCHANGED queue
    BY <1>1, <1>2, <2>1 DEF QueueTypes, RunInv, HasMessage, jobVars
  <2>2. CASE Post("indexed")
    <3>1. "indexed" \in Messages /\ "indexed" \in Messages \ {"done"}
      BY DEF Messages
    <3>2. UNCHANGED <<running, worker>>
      BY <1>2 DEF jobVars
    <3>3. \A m : HasMessage(m) => HasMessage(m)'
      BY <1>1, <2>2, <3>1, PostedOnly
    <3> QED
      BY <1>1, <2>2, <3>1, <3>2, <3>3, Posted, PostedMore
  <2> QED
    BY <1>2, <2>1, <2>2
<1>5. ViewTypes' /\ JobTypes' /\ SecretTypes' /\ BoxTypes'
  BY <1>1, <1>2 DEF ViewTypes, JobTypes, SecretTypes, BoxTypes, windowVars, viewVars, jobVars, boxVars
<1>6. FrameInv' /\ ModeInv' /\ PutBackInv'
  <2>1. HasMessage("addwarn")' => HasMessage("addwarn")
    BY <1>1, <1>2, PostedOnly DEF Messages, HasMessage
  <2> QED
    BY <1>1, <1>2, <2>1 DEF FrameInv, HasFrame, Then, ModeInv, PutBackInv, windowVars, viewVars, jobVars,
                boxVars
<1>7. WorkInv' /\ CancelKept' /\ KeyInv'
  BY <1>1, <1>2 DEF WorkInv, Chosen, CancelKept, KeyInv, windowVars, viewVars, jobVars
<1>8. SpawnInv => SpawnInv'
  <2>1. ~scanning' => ~scanning \/ HasMessage("indexed")'
    <3>1. CASE Post("indexed")
      BY <1>1, <3>1, PostedOnly DEF Messages
    <3> QED
      BY <1>2, <3>1
  <2>2. HasFrame(Ends)' = HasFrame(Ends) /\ HasFrame({"reload"})' = HasFrame({"reload"})
    BY <1>2 DEF HasFrame, Then, windowVars, boxVars
  <2> QED
    BY <1>2, <1>4, <2>1, <2>2 DEF SpawnInv, Chosen, windowVars, viewVars, jobVars
<1> QED
  BY <1>1, <1>3, <1>4, <1>5, <1>6, <1>7, <1>8 DEF IInv, Typed

-----------------------------------------------------------------------------
(* What was posted is taken.                                               *)

\* Once its message is taken there is neither a job nor a worker, and nobody
\* is waited for.
LEMMA DoneTaken ==
    ASSUME IInv, queue # <<>>, queue' = Tail(queue), Head(queue) = "done"
    PROVE  /\ running /\ worker = "off" /\ ~HasMessage("done")' /\ QueueTypes'
           /\ \A m : HasMessage(m)' => HasMessage(m)
           /\ ~HasFrame(Asks) /\ ~HasFrame(Ends) /\ ~HasFrame({"reload"}) /\ ~HasFrame({"extract"})
           /\ \A i \in 1..Len(stack) : Then(i) = "nothing"
           /\ mode \in {"main", "drag"} /\ ~packing.named /\ ~(key /\ ~container)
<1>1. /\ ViewTypes /\ JobTypes /\ BoxTypes /\ QueueTypes
      /\ RunInv /\ FrameInv /\ ModeInv /\ WorkInv /\ KeyInv
  BY DEF IInv, Typed
<1>2. /\ Len(queue) \in Nat \ {0} /\ Len(queue') = Len(queue) - 1 /\ queue[1] = "done"
      /\ QueueTypes' /\ \A i \in 1..Len(queue') : queue'[i] = queue[i + 1]
  BY <1>1, MessageTaken
<1>3. HasMessage("done")
  BY <1>2 DEF HasMessage
<1>4. running /\ worker = "off"
  BY <1>1, <1>3 DEF RunInv, JobTypes
<1>5. ~HasMessage("done")'
  <2> SUFFICES ASSUME NEW i \in 1..Len(queue'), queue'[i] = "done" PROVE FALSE
    BY DEF HasMessage
  <2>1. i + 1 \in 1..Len(queue) /\ 1 \in 1..Len(queue) /\ queue[i + 1] = "done" /\ i + 1 # 1
    BY <1>2
  <2> QED
    BY <1>1, <1>2, <2>1 DEF RunInv
<1>6. ~HasFrame(Waits)
  BY <1>1, <1>4 DEF FrameInv
<1>7. ~HasFrame(Asks) /\ ~HasFrame(Ends) /\ ~HasFrame({"reload"}) /\ ~HasFrame({"extract"})
  BY <1>6 DEF HasFrame, Waits, Ends
<1>8. ASSUME NEW i \in 1..Len(stack) PROVE Then(i) = "nothing"
  <2>1. stack[i] \in Frames
    BY <1>1, ElementOfSeq DEF BoxTypes
  <2>2. stack[i].caller \in Callers
    BY <2>1 DEF Frames
  <2>3. Then(i) \in {"nothing"} \cup Waits
    BY <2>2 DEF Then, Callers, Waits
  <2> QED
    BY <1>6, <2>3 DEF HasFrame
<1>9. mode \in {"main", "drag"}
  BY <1>1, <1>4 DEF ModeInv, ViewTypes
<1>10. ~packing.named /\ ~(key /\ ~container)
  BY <1>1, <1>4 DEF WorkInv, KeyInv
<1> QED
  BY <1>1, <1>2, <1>4, <1>5, <1>7, <1>8, <1>9, <1>10, OthersStay

\* The job is over and no box opened.
LEMMA DoneQuiet ==
    ASSUME IInv, queue # <<>>, queue' = Tail(queue), Head(queue) = "done",
           running' = FALSE, cancelled' = FALSE, abort' = FALSE, result' = EXIT_OK,
           asked' = NoAction, consent' = TRUE,
           UNCHANGED <<scanning, worker, action, scans, walk, packing, packed, makeZip>>,
           UNCHANGED boxVars, ViewTypes', SecretTypes',
           inputs' \in Seq(Folders \cup {Archive}), Len(inputs') <= MaxInputs, ModeInv',
           caPos' <= Len(inputs'), caPos' # 0 => container',
           key' => container',
           ~SpawnFails => job' = 0, container' => enabled'
    PROVE  IInv'
<1>1. /\ ViewTypes /\ JobTypes /\ SecretTypes /\ ListTypes /\ WalkTypes /\ BoxTypes /\ WorkInv
  BY DEF IInv, Typed
<1>2. /\ worker = "off" /\ ~HasMessage("done")' /\ QueueTypes'
      /\ ~HasFrame(Asks) /\ ~HasFrame(Ends) /\ ~HasFrame({"reload"}) /\ ~HasFrame({"extract"})
      /\ \A i \in 1..Len(stack) : Then(i) = "nothing"
  BY DoneTaken
<1>3. stack' = stack
  BY DEF boxVars
<1>4. JobTypes' /\ ListTypes' /\ WalkTypes' /\ BoxTypes'
  BY <1>1 DEF JobTypes, ListTypes, WalkTypes, BoxTypes, boxVars, Results
<1>5. RunInv'
  BY <1>2 DEF RunInv, HasMessage
<1>6. FrameInv'
  <2>1. ~HasFrame(Asks)' /\ ~HasFrame({"reload"})' /\ ~HasFrame({"extract"})'
    BY <1>2, <1>3 DEF HasFrame, Then
  <2>2. \A i \in 1..Len(stack') : Then(i)' = "nothing"
    BY <1>2, <1>3 DEF Then
  <2> QED
    BY <2>1, <2>2 DEF FrameInv
<1>7. PutBackInv'
  BY <1>2, <1>3 DEF PutBackInv, Then
<1>8. WorkInv' /\ CancelKept' /\ KeyInv'
  BY <1>1, <1>2 DEF WorkInv, CancelKept, KeyInv
<1>9. ~SpawnFails => SpawnInv'
  BY <1>2 DEF SpawnInv
<1> QED
  BY <1>4, <1>2, <1>5, <1>6, <1>7, <1>8, <1>9 DEF IInv, Typed

\* The job is over and the user is told how it went.
LEMMA DoneTold ==
    ASSUME IInv, queue # <<>>, queue' = Tail(queue), Head(queue) = "done", mode # "drag",
           running' = FALSE, cancelled' = FALSE, abort' = FALSE, result' = EXIT_OK,
           asked' = NoAction, consent' = TRUE,
           UNCHANGED <<scanning, worker, action, scans, walk, packing, packed, makeZip>>,
           NEW then \in Ends, Tell(then),
           then = "reload" => container, job # 0 => then = "reload",
           UNCHANGED <<viewVars, enabled, job, pass, ready>>,
           inputs' \in Seq(Folders \cup {Archive}), Len(inputs') <= MaxInputs,
           container => Len(inputs') >= 1,
           caPos' \in 0..MaxInputs, caPos' <= Len(inputs'), caPos' # 0 => container,
           key' \in {key, FALSE}
    PROVE  IInv'
<1>1. /\ ViewTypes /\ JobTypes /\ SecretTypes /\ ListTypes /\ WalkTypes /\ BoxTypes /\ WorkInv
      /\ ModeInv
  BY DEF IInv, Typed
<1>2. /\ worker = "off" /\ ~HasMessage("done")' /\ QueueTypes'
      /\ ~HasFrame(Asks) /\ ~HasFrame(Ends) /\ ~HasFrame({"reload"}) /\ ~HasFrame({"extract"})
      /\ \A i \in 1..Len(stack) : Then(i) = "nothing"
      /\ mode = "main" /\ ~(key /\ ~container)
  BY DoneTaken
<1> DEFINE caller == [then |-> then]
<1>3. caller \in Callers /\ {"ok"} \in SUBSET Buttons /\ caller.then = then /\ OpenBox({"ok"}, caller)
  BY DEF Callers, Buttons, Tell
<1> HIDE DEF caller
<1>4. /\ BoxTypes' /\ \A T : HasFrame(T)' <=> then \in T \/ HasFrame(T)
      /\ \A i \in 1..Len(stack') : (i = 1 /\ stack'[i].caller.then = then) \/ Then(i)' = "nothing"
  <2>1. /\ BoxTypes' /\ \A T : HasFrame(T)' <=> caller.then \in T \/ HasFrame(T)
        /\ \A i \in 1..Len(stack') : \/ i = 1 /\ stack'[i].caller = caller
                                     \/ i - 1 \in 1..Len(stack) /\ stack'[i] = stack[i - 1]
    BY <1>1, <1>3, Opened, FramesOpened
  <2>2. \A i \in 1..Len(stack') : (i = 1 /\ stack'[i].caller.then = then) \/ Then(i)' = "nothing"
    BY <1>2, <1>3, <2>1 DEF Then
  <2>3. \A T : HasFrame(T)' <=> then \in T \/ HasFrame(T)
    BY <1>3, <2>1
  <2> QED
    BY <2>1, <2>2, <2>3
<1>5. ViewTypes' /\ SecretTypes' /\ JobTypes' /\ ListTypes' /\ WalkTypes'
  <2>1. ViewTypes'
    BY <1>1 DEF ViewTypes, viewVars, Actions
  <2>2. SecretTypes'
    BY <1>1 DEF SecretTypes
  <2>3. JobTypes'
    BY <1>1 DEF JobTypes, Results
  <2>4. ListTypes' /\ WalkTypes'
    BY <1>1 DEF ListTypes, WalkTypes
  <2> QED
    BY <2>1, <2>2, <2>3, <2>4
<1>6. RunInv'
  BY <1>2 DEF RunInv, HasMessage
<1>7. then \notin Asks /\ (then \in {"reload"} => container) /\ then \in Ends
  BY DEF Asks, Ends
<1>8. FrameInv'
  <2>1. ~HasFrame(Asks)' /\ ~HasFrame({"extract"})' /\ (HasFrame({"reload"})' => container')
    BY <1>2, <1>4, <1>7 DEF viewVars, Ends
  <2>2. \A i, j \in 1..Len(stack') : Then(i)' # "nothing" /\ Then(j)' # "nothing" => i = j
    BY <1>4 DEF Then
  <2> QED
    BY <2>1, <2>2 DEF FrameInv
<1>9. ModeInv'
  BY <1>1, <1>2 DEF ModeInv, viewVars
<1>10. PutBackInv'
  <2>1. \A i \in 1..Len(stack') : Then(i)' # "add"
    BY <1>4, <1>7 DEF Then, Asks
  <2> QED
    BY <2>1 DEF PutBackInv, viewVars
<1>11. WorkInv' /\ CancelKept' /\ KeyInv'
  <2>1. WorkInv' /\ CancelKept'
    BY <1>1, <1>2 DEF WorkInv, CancelKept
  <2>2. key' => container
    BY <1>1, <1>2 DEF SecretTypes
  <2> QED
    BY <2>1, <2>2 DEF KeyInv, viewVars
<1>12. SpawnInv'
  BY <1>2, <1>4, <1>7 DEF SpawnInv, viewVars
<1> QED
  BY <1>2, <1>4, <1>5, <1>6, <1>8, <1>9, <1>10, <1>11, <1>12 DEF IInv, Typed

\* What is left of the list when an add gives it back.
LEMMA PutBackIs ==
    ASSUME ListTypes, ViewTypes, PutBackInv, ModeInv, container
    PROVE  /\ PutBack \in Seq(Folders \cup {Archive}) /\ Len(PutBack) <= MaxInputs
           /\ Len(PutBack) >= 1
<1>1. /\ inputs \in Seq(Folders \cup {Archive}) /\ Len(inputs) \in Nat /\ Len(inputs) <= MaxInputs
      /\ \A k \in 1..Len(inputs) : inputs[k] \in Folders \cup {Archive}
      /\ Len(inputs) >= 1 /\ caPos \in Nat /\ caPos <= Len(inputs) /\ MaxInputs \in Nat
  BY LenProperties, WalkAssumption DEF ListTypes, ViewTypes, PutBackInv, ModeInv
<1>2. CASE caPos # 0
  <2>1. /\ SubSeq(inputs, 1, caPos) \in Seq(Folders \cup {Archive})
        /\ Len(SubSeq(inputs, 1, caPos)) = caPos
    <3>1. \A k \in 1..caPos : inputs[k] \in Folders \cup {Archive}
      BY <1>1
    <3> QED
      BY <1>1, <1>2, <3>1, SubSeqProperties
  <2> QED
    BY <1>1, <1>2, <2>1 DEF PutBack
<1> QED
  BY <1>1, <1>2 DEF PutBack

LEMMA OnDoneInv == ASSUME IInv, Dispatch, Head(queue) = "done" PROVE IInv'
<1>1. /\ queue # <<>> /\ queue' = Tail(queue) /\ OnDone
      /\ UNCHANGED <<scans, walk, packing, packed, makeZip>>
  BY DEF Dispatch, Taken
<1>2. /\ running' = FALSE /\ cancelled' = FALSE /\ abort' = FALSE /\ result' = EXIT_OK
      /\ asked' = NoAction /\ consent' = TRUE /\ UNCHANGED <<scanning, worker, action>>
      /\ \/ mode = "drag" /\ FinishDrag /\ UNCHANGED boxVars
         \/ mode # "drag" /\ job = 0 /\ JobDone
         \/ mode # "drag" /\ job # 0 /\ EditDone
  BY <1>1 DEF OnDone, Asked
<1>3. /\ ViewTypes /\ SecretTypes /\ ListTypes /\ PutBackInv /\ ModeInv
      /\ MaxInputs \in Nat \ {0}
  BY WalkAssumption DEF IInv, Typed
<1>4. mode \in {"main", "drag"} /\ ~(key /\ ~container)
  BY <1>1, DoneTaken
<1>5. /\ inputs \in Seq(Folders \cup {Archive}) /\ Len(inputs) \in Nat /\ Len(inputs) <= MaxInputs
      /\ caPos \in 0..MaxInputs /\ caPos <= Len(inputs) /\ (caPos # 0 => container)
      /\ NoAction \in Actions
  BY <1>3, LenProperties DEF ListTypes, PutBackInv, ViewTypes, Actions
<1>6. Wiped \in {"none", "typed", "wiped"}
  BY DEF Wiped
<1>7. CASE mode = "drag" /\ FinishDrag /\ UNCHANGED boxVars
  <2>1. /\ mode' \in {"drag", "closed"} /\ key' = FALSE /\ pass' = Wiped
        /\ UNCHANGED <<inputs, op, container, isZip, enabled, job, caPos, ready>>
    BY <1>7 DEF FinishDrag
  <2>2. ~container /\ job = 0
    BY <1>3, <1>7 DEF ModeInv
  <2>3. ViewTypes' /\ SecretTypes' /\ ModeInv'
    BY <1>1, <1>2, <1>3, <1>5, <1>6, <2>1, <2>2 DEF ViewTypes, SecretTypes, ModeInv
  <2> QED
    BY <1>1, <1>2, <1>5, <1>7, <2>1, <2>2, <2>3, DoneQuiet
<1>8. CASE mode # "drag" /\ job = 0 /\ JobDone
  <2>1. CASE Tell("restore") /\ UNCHANGED <<inputs, viewVars, enabled, job, caPos, secretVars>>
    <3>1. "restore" \in Ends /\ "restore" # "reload" /\ (container => Len(inputs) >= 1)
      BY <1>3 DEF Ends, ModeInv
    <3> QED
      BY <1>1, <1>2, <1>5, <1>8, <2>1, <3>1, DoneTold DEF secretVars
  <2>2. CASE op = 0 /\ SwitchToOutput /\ UNCHANGED boxVars
    <3>1. /\ inputs' = <<Archive>> /\ UNCHANGED <<mode, job, caPos, pass>>
          /\ key' \in BOOLEAN /\ ready' \in BOOLEAN /\ enabled' \in BOOLEAN
          /\ container' \in BOOLEAN /\ op' \in {0, 1} /\ isZip' \in BOOLEAN
      BY <1>3, <2>2 DEF SwitchToOutput, ViewTypes, SecretTypes
    <3>2. ~container /\ caPos = 0 /\ mode = "main"
      BY <1>3, <1>4, <1>5, <1>8, <2>2 DEF ModeInv
    <3>3. (container' => op' = 1 /\ enabled') /\ (~container' => key' = key)
      BY <2>2 DEF SwitchToOutput
    <3>4. inputs' \in Seq(Folders \cup {Archive}) /\ Len(inputs') = 1
      BY <3>1
    <3>5. ViewTypes' /\ SecretTypes' /\ ModeInv'
      BY <1>1, <1>2, <1>3, <1>5, <1>8, <3>1, <3>2, <3>3, <3>4 DEF ViewTypes, SecretTypes, ModeInv
    <3>6. key' => container'
      BY <1>4, <3>1, <3>2, <3>3
    <3>7. /\ Len(inputs') <= MaxInputs /\ caPos' <= Len(inputs') /\ (caPos' # 0 => container')
          /\ job' = 0 /\ (container' => enabled')
      BY <1>3, <1>8, <3>1, <3>2, <3>3, <3>4
    <3> QED
      BY <1>1, <1>2, <2>2, <3>4, <3>5, <3>6, <3>7, DoneQuiet
  <2>3. CASE op # 0 /\ Restore /\ UNCHANGED boxVars
    <3>1. /\ enabled' = TRUE /\ pass' = Wiped
          /\ UNCHANGED <<inputs, mode, op, container, isZip, job, caPos, ready, key>>
      BY <2>3 DEF Restore, ActionRestored
    <3>2. ViewTypes' /\ SecretTypes' /\ ModeInv'
      BY <1>1, <1>2, <1>3, <1>4, <1>5, <1>6, <1>8, <3>1 DEF ViewTypes, SecretTypes, ModeInv
    <3> QED
      BY <1>1, <1>2, <1>4, <1>5, <1>8, <2>3, <3>1, <3>2, DoneQuiet
  <2> QED
    BY <1>8, <2>1, <2>2, <2>3 DEF JobDone
<1>9. CASE mode # "drag" /\ job # 0 /\ EditDone
  <2>1. container /\ mode = "main"
    BY <1>3, <1>4, <1>9 DEF ModeInv
  <2>2. /\ inputs' \in Seq(Folders \cup {Archive}) /\ Len(inputs') <= MaxInputs
        /\ Len(inputs') >= 1 /\ caPos' = 0
    BY <1>3, <1>9, <2>1, PutBackIs DEF EditDone
  <2>3. Len(inputs') \in Nat
    BY <2>2, LenProperties
  <2>4. CASE Reload /\ UNCHANGED boxVars
    <3>1. /\ job' = 0 /\ enabled' = TRUE /\ key' \in BOOLEAN
          /\ UNCHANGED <<mode, op, container, isZip, pass, ready>>
      BY <1>3, <2>4 DEF Reload, KeyAfterLoad, SecretTypes
    <3>2. ViewTypes' /\ SecretTypes' /\ ModeInv'
      BY <1>1, <1>2, <1>3, <1>5, <2>1, <2>2, <3>1 DEF ViewTypes, SecretTypes, ModeInv
    <3>3. /\ caPos' <= Len(inputs') /\ (caPos' # 0 => container')
          /\ job' = 0 /\ (container' => enabled') /\ (key' => container')
      BY <2>1, <2>2, <2>3, <3>1
    <3> QED
      BY <1>1, <1>2, <2>2, <2>4, <3>2, <3>3, DoneQuiet
  <2>5. CASE Tell("reload") /\ key' = FALSE /\ UNCHANGED <<viewVars, enabled, job, pass, ready>>
    <3>1. "reload" \in Ends /\ caPos' \in 0..MaxInputs /\ caPos' <= Len(inputs')
      BY <1>3, <2>2, <2>3 DEF Ends
    <3> QED
      BY <1>1, <1>2, <1>9, <2>1, <2>2, <2>5, <3>1, DoneTold
  <2> QED
    BY <1>9, <2>4, <2>5 DEF EditDone
<1> QED
  BY <1>2, <1>7, <1>8, <1>9

\* A message other than done is taken: the job goes on as it did.
LEMMA OtherTaken ==
    ASSUME QueueTypes, RunInv, queue # <<>>, queue' = Tail(queue), Head(queue) # "done",
           UNCHANGED <<running, worker>>
    PROVE  QueueTypes' /\ RunInv'
<1>1. /\ Len(queue) \in Nat \ {0} /\ Len(queue') = Len(queue) - 1 /\ QueueTypes'
      /\ \A i \in 1..Len(queue') : queue'[i] = queue[i + 1]
  BY MessageTaken
<1>2. HasMessage("done")' <=> HasMessage("done")
  BY OthersStay
<1>3. \A i, j \in 1..Len(queue') : queue'[i] = "done" /\ queue'[j] = "done" => i = j
  <2> TAKE i, j \in 1..Len(queue')
  <2> SUFFICES ASSUME queue'[i] = "done", queue'[j] = "done" PROVE i = j
    OBVIOUS
  <2>1. /\ i + 1 \in 1..Len(queue) /\ j + 1 \in 1..Len(queue)
        /\ queue[i + 1] = "done" /\ queue[j + 1] = "done"
    BY <1>1
  <2>2. i + 1 = j + 1
    BY <2>1 DEF RunInv
  <2> QED
    BY <1>1, <2>2
<1> QED
  BY <1>1, <1>2, <1>3 DEF RunInv

LEMMA OnIndexDoneInv == ASSUME IInv, Dispatch, Head(queue) = "indexed" PROVE IInv'
<1>1. /\ queue # <<>> /\ queue' = Tail(queue) /\ scanning' = FALSE
      /\ enabled' = Strength(inputs, FALSE)
      /\ UNCHANGED <<inputs, boxVars, viewVars, jobVars, job, caPos, secretVars, asked, consent,
                     scans, walk, packing, packed, makeZip>>
  BY DEF Dispatch, Taken, OnIndexDone
<1>2. /\ ViewTypes /\ JobTypes /\ SecretTypes /\ ListTypes /\ WalkTypes /\ BoxTypes /\ QueueTypes
      /\ RunInv /\ FrameInv /\ ModeInv /\ PutBackInv /\ WorkInv /\ CancelKept /\ KeyInv
      /\ ~SpawnFails => SpawnInv
  BY DEF IInv, Typed
<1>3. QueueTypes' /\ RunInv' /\ \A m : HasMessage(m)' => HasMessage(m)
  BY <1>1, <1>2, OtherTaken, OthersStay DEF jobVars
<1>4. enabled' = (inputs # <<>>)
  BY <1>1 DEF Strength
<1>5. Typed'
  <2>1. enabled' \in BOOLEAN
    <3>1. Strength(inputs, FALSE) \in BOOLEAN
      BY DEF Strength
    <3>2. enabled' = Strength(inputs, FALSE)
      BY <1>1
    <3> QED
      BY <3>1, <3>2
  <2>2. ViewTypes' /\ JobTypes' /\ SecretTypes'
    <3>1. UNCHANGED <<mode, op, container, isZip, makeZip, job, caPos, asked, consent>>
      BY <1>1 DEF viewVars
    <3>2. ViewTypes'
      BY <1>2, <2>1, <3>1 DEF ViewTypes
    <3>3. JobTypes' /\ SecretTypes'
      BY <1>1, <1>2 DEF JobTypes, SecretTypes, jobVars, secretVars
    <3> QED
      BY <3>2, <3>3
  <2>3. ListTypes' /\ WalkTypes' /\ BoxTypes'
    BY <1>1, <1>2 DEF ListTypes, WalkTypes, BoxTypes, boxVars
  <2> QED
    BY <1>3, <2>2, <2>3 DEF Typed
<1>6. FrameInv' /\ ModeInv' /\ PutBackInv'
  BY <1>1, <1>2, <1>3 DEF FrameInv, HasFrame, Then, ModeInv, PutBackInv, viewVars, jobVars, boxVars
<1>7. WorkInv' /\ CancelKept' /\ KeyInv'
  BY <1>1, <1>2 DEF WorkInv, Chosen, CancelKept, KeyInv, viewVars, jobVars, secretVars
<1>8. SpawnInv => SpawnInv'
  <2>1. container => enabled'
    <3>1. Len(<<>>) = 0
      OBVIOUS
    <3>2. container => inputs # <<>>
      BY <1>2, <3>1 DEF ModeInv
    <3> QED
      BY <1>4, <3>2
  <2> QED
    BY <1>1, <2>1 DEF SpawnInv, Chosen, HasFrame, Then, viewVars, jobVars, boxVars
<1> QED
  BY <1>2, <1>3, <1>5, <1>6, <1>7, <1>8 DEF IInv

LEMMA OnAddWarnInv == ASSUME IInv, Dispatch, Head(queue) = "addwarn" PROVE IInv'
<1>1. /\ queue # <<>> /\ queue' = Tail(queue) /\ Tell("nothing")
      /\ UNCHANGED <<inputs, scanning, viewVars, enabled, jobVars, job, caPos, secretVars,
                     asked, consent, scans, walk, packing, packed, makeZip>>
  BY DEF Dispatch, Taken, OnAddWarn
<1>2. QueueTypes /\ RunInv /\ ModeInv
  BY DEF IInv, Typed
<1>3. QueueTypes' /\ RunInv'
  BY <1>1, <1>2, OtherTaken DEF jobVars
<1>4. HasMessage("indexed") => HasMessage("indexed")'
  BY <1>1, <1>2, OthersStay
<1>5. mode \notin {"launch", "dragged"}
  <2>1. HasMessage("addwarn")
    BY <1>1, <1>2, MessageTaken DEF HasMessage
  <2> QED
    BY <1>2, <2>1 DEF ModeInv
<1>6. UNCHANGED walkVars
  BY <1>1 DEF walkVars
<1> QED
  BY <1>1, <1>3, <1>4, <1>5, <1>6, ToldInv

LEMMA DispatchInv == ASSUME IInv, Dispatch PROVE IInv'
<1>1. Head(queue) \in Messages
  BY MessageTaken DEF IInv, Typed, Dispatch, Taken
<1> QED
  BY <1>1, OnDoneInv, OnIndexDoneInv, OnAddWarnInv DEF Messages

-----------------------------------------------------------------------------
(* A box returns, and whoever opened it goes on.                           *)

\* The stack and what is said of it, with no job running and the view as it was.
LEMMA ReturnedInv ==
    ASSUME IInv, PopBox, NEW then, then = Head(stack).caller.then,
           running' = running, mode' = mode, op' = op, container' = container,
           inputs' = inputs \/ (then = "add" /\ Len(inputs') >= Head(stack).caller.pos
                                             /\ Head(stack).caller.pos \in Nat
                                             /\ inputs' \in Seq(Folders \cup {Archive})),
           caPos' = caPos
    PROVE  BoxTypes' /\ FrameInv' /\ PutBackInv'
<1>1. /\ BoxTypes /\ FrameInv /\ PutBackInv /\ ListTypes /\ ViewTypes
  BY DEF IInv, Typed
<1>2. /\ BoxTypes' /\ Len(stack) \in Nat \ {0} /\ Len(stack') = Len(stack) - 1
      /\ Head(stack) = stack[1]
      /\ \A i \in 1..Len(stack') : stack'[i] = stack[i + 1]
  BY <1>1, Returned
<1>3. /\ \A T : HasFrame(T)' => HasFrame(T)
      /\ \A i, j \in 1..Len(stack') : Then(i)' # "nothing" /\ Then(j)' # "nothing" => i = j
      /\ then # "nothing" => ~HasFrame(Waits)'
  BY <1>1, FramesReturned
<1>4. FrameInv'
  BY <1>1, <1>3 DEF FrameInv
<1>5. PutBackInv'
  <2>1. CASE inputs' = inputs
    <3>1. \A i \in 1..Len(stack') : i + 1 \in 1..Len(stack) /\ stack'[i] = stack[i + 1]
      BY <1>2
    <3> QED
      BY <1>1, <2>1, <3>1 DEF PutBackInv, Then
  <2>2. CASE then = "add" /\ Len(inputs') >= Head(stack).caller.pos /\ Head(stack).caller.pos \in Nat
             /\ inputs' \in Seq(Folders \cup {Archive})
    <3>1. \A i \in 1..Len(stack') : Then(i)' # "add"
      BY <1>3, <2>2 DEF HasFrame, Waits, Asks
    <3>2. caPos <= Head(stack).caller.pos
      BY <1>1, <1>2, <2>2 DEF PutBackInv, Then
    <3>3. caPos \in Nat /\ Len(inputs') \in Nat
      BY <1>1, <2>2, LenProperties, WalkAssumption DEF ViewTypes
    <3>4. caPos' <= Len(inputs')
      BY <2>2, <3>2, <3>3
    <3> QED
      BY <1>1, <3>1, <3>4 DEF PutBackInv
  <2> QED
    BY <2>1, <2>2
<1> QED
  BY <1>2, <1>4, <1>5

LEMMA BoxReturnsInv == ASSUME IInv, BoxReturns PROVE IInv'
<1> DEFINE then == Head(stack).caller.then
           pos  == Head(stack).caller.pos
           box  == Head(stack).box
<1>1. /\ PopBox
      /\ UNCHANGED <<scanning, scans, walk, packing, packed, makeZip, queue>>
      /\ \/ then = "restore" /\ Restore /\ UNCHANGED <<jobVars, asked, consent>>
         \/ then = "reload" /\ Reload /\ UNCHANGED <<inputs, caPos, jobVars, asked, consent>>
         \/ /\ then = "add"
            /\ AddConfirmed(inputs, pos) /\ Asked("add", clicked = box)
            /\ UNCHANGED <<viewVars, secretVars>>
         \/ /\ then = "add"
            /\ inputs' = SubSeq(inputs, 1, pos)
            /\ UNCHANGED <<viewVars, enabled, jobVars, job, caPos, secretVars, asked, consent>>
         \/ /\ then = "remove"
            /\ RemoveConfirmed /\ Asked("remove", clicked = box)
            /\ UNCHANGED <<inputs, viewVars, caPos, secretVars>>
         \/ /\ then = "remove"
            /\ key' = (isZip /\ key)
            /\ UNCHANGED <<inputs, viewVars, enabled, jobVars, job, caPos, pass, ready,
                           asked, consent>>
         \/ /\ then = "extract"
            /\ EnterRunning /\ Asked("extract", clicked = box)
            /\ UNCHANGED <<inputs, viewVars, job, caPos, secretVars>>
         \/ /\ then = "extract" /\ pass' = Wiped
            /\ UNCHANGED <<inputs, viewVars, enabled, jobVars, job, caPos, ready, key,
                           asked, consent>>
         \/ /\ then \notin {"restore", "reload", "add", "remove"}
            /\ UNCHANGED <<inputs, viewVars, enabled, jobVars, job, caPos, secretVars,
                           asked, consent>>
  BY DEF BoxReturns
<1>2. /\ ViewTypes /\ JobTypes /\ SecretTypes /\ ListTypes /\ WalkTypes /\ BoxTypes /\ QueueTypes
      /\ RunInv /\ FrameInv /\ ModeInv /\ PutBackInv /\ WorkInv /\ CancelKept /\ KeyInv
      /\ ~SpawnFails => SpawnInv
  BY DEF IInv, Typed
<1>3. /\ BoxTypes' /\ Len(stack) \in Nat \ {0} /\ Head(stack) = stack[1] /\ Head(stack) \in Frames
  BY <1>1, <1>2, Returned
<1>4. /\ \A T : HasFrame(T)' => HasFrame(T)
      /\ \A T : HasFrame(T) => HasFrame(T)' \/ then \in T
      /\ then # "nothing" => ~HasFrame(Waits)'
      /\ \A i, j \in 1..Len(stack') : Then(i)' # "nothing" /\ Then(j)' # "nothing" => i = j
      /\ \A T : then \in T => HasFrame(T)
  BY <1>1, <1>2, FramesReturned
<1>5. /\ mode \notin {"launch", "dragged"}
      /\ then \in Waits => ~running /\ worker = "off" /\ ~packing.named
      /\ then \in Asks => mode = "main" /\ container
      /\ then = "reload" => container
  <2>1. stack # <<>>
    BY <1>1 DEF PopBox, Pumping
  <2>2. then \in Waits => ~running
    BY <1>2, <1>4 DEF FrameInv
  <2>3. ~running => worker = "off" /\ ~packing.named
    BY <1>2 DEF RunInv, JobTypes, WorkInv
  <2> QED
    BY <1>2, <1>4, <2>1, <2>2, <2>3 DEF FrameInv, ModeInv
<1>6. then = "add" => /\ pos \in 1..MaxInputs /\ caPos <= pos /\ pos <= Len(inputs)
  <2>1. CASE then = "add"
    <3>1. pos >= 1 /\ caPos <= pos /\ pos <= Len(inputs)
      BY <1>2, <1>3, <2>1 DEF PutBackInv, Then
    <3>2. Head(stack).caller \in Callers
      BY <1>3 DEF Frames
    <3>3. pos \in 0..MaxInputs
      BY <2>1, <3>2 DEF Callers, Ends
    <3> QED
      BY <3>1, <3>3, WalkAssumption
  <2> QED
    BY <2>1
<1>7. /\ inputs \in Seq(Folders \cup {Archive}) /\ Len(inputs) \in Nat /\ Len(inputs) <= MaxInputs
      /\ MaxInputs \in Nat /\ caPos \in 0..MaxInputs /\ caPos <= Len(inputs)
  BY <1>2, LenProperties, WalkAssumption DEF ListTypes, PutBackInv, ViewTypes
<1>8. QueueTypes' /\ WalkTypes' /\ \A m : HasMessage(m)' <=> HasMessage(m)
  BY <1>1, <1>2 DEF QueueTypes, WalkTypes, HasMessage
<1>9. ASSUME UNCHANGED jobVars PROVE JobTypes' /\ RunInv'
  BY <1>1, <1>2, <1>9 DEF JobTypes, RunInv, HasMessage, jobVars
<1> HIDE DEF then, pos, box
<1>10. CASE then = "restore" /\ Restore /\ UNCHANGED <<jobVars, asked, consent>>
  <2>1. /\ pass' = Wiped /\ enabled' = (op = 0 => Strength(inputs, scanning))
        /\ UNCHANGED <<inputs, mode, op, container, isZip, job, caPos, ready, key>>
    BY <1>10 DEF Restore, ActionRestored
  <2>2. Wiped \in {"none", "typed", "wiped"} /\ enabled' \in BOOLEAN
    BY <2>1 DEF Wiped
  <2>3. ViewTypes' /\ SecretTypes' /\ ListTypes'
    BY <1>1, <1>2, <1>10, <2>1, <2>2 DEF ViewTypes, SecretTypes, ListTypes
  <2>4. FrameInv' /\ PutBackInv'
    BY <1>1, <1>10, <2>1, ReturnedInv DEF jobVars, then
  <2>5. ModeInv' /\ WorkInv' /\ CancelKept' /\ KeyInv'
    BY <1>1, <1>2, <1>5, <1>10, <2>1 DEF ModeInv, WorkInv, CancelKept, KeyInv, jobVars, Chosen
  <2>6. SpawnInv => SpawnInv'
    <3>1. container => enabled'
      <4>1. op # 0 => enabled' = TRUE
        BY <1>10 DEF Restore, ActionRestored
      <4>2. container => op # 0
        BY <1>2 DEF ModeInv
      <4> QED
        BY <4>1, <4>2
    <3>2. "reload" # then /\ then \in Waits
      BY <1>10 DEF Waits, Ends
    <3> QED
      BY <1>1, <1>4, <1>5, <1>10, <2>1, <3>1, <3>2 DEF SpawnInv, jobVars
  <2> QED
    BY <1>2, <1>3, <1>8, <1>9, <1>10, <2>3, <2>4, <2>5, <2>6 DEF IInv, Typed
<1>11. CASE then = "reload" /\ Reload /\ UNCHANGED <<inputs, caPos, jobVars, asked, consent>>
  <2>1. /\ job' = 0 /\ enabled' = TRUE /\ key' \in BOOLEAN
        /\ UNCHANGED <<inputs, caPos, mode, op, container, isZip, pass, ready>>
    BY <1>2, <1>11 DEF Reload, KeyAfterLoad, SecretTypes
  <2>2. ViewTypes' /\ SecretTypes' /\ ListTypes'
    BY <1>1, <1>2, <1>11, <2>1 DEF ViewTypes, SecretTypes, ListTypes
  <2>3. FrameInv' /\ PutBackInv'
    BY <1>1, <1>11, <2>1, ReturnedInv DEF jobVars, then
  <2>4. then \in Waits
    BY <1>11 DEF Waits, Ends
  <2>5. ModeInv' /\ WorkInv' /\ CancelKept' /\ KeyInv'
    BY <1>1, <1>2, <1>5, <1>11, <2>1, <2>4 DEF ModeInv, WorkInv, CancelKept, KeyInv, jobVars
  <2>6. SpawnInv'
    BY <1>5, <1>11, <2>1, <2>4 DEF SpawnInv, jobVars
  <2> QED
    BY <1>2, <1>3, <1>8, <1>9, <1>11, <2>2, <2>3, <2>5, <2>6 DEF IInv, Typed
<1>12. ASSUME then \in Asks PROVE \A T : T \subseteq Waits => ~HasFrame(T)'
  <2>1. then # "nothing"
    BY <1>12 DEF Asks
  <2> QED
    BY <1>4, <2>1 DEF HasFrame
<1>13. CASE /\ then = "add"
            /\ AddConfirmed(inputs, pos) /\ Asked("add", clicked = box)
            /\ UNCHANGED <<viewVars, secretVars>>
  <2>1. /\ EnterRunning /\ job' = 1 /\ inputs' = inputs /\ caPos' = pos
        /\ asked' = "add" /\ consent' \in BOOLEAN
    BY <1>13 DEF AddConfirmed, Asked
  <2>2. then \in Asks /\ then \in Waits
    BY <1>13 DEF Asks, Waits
  <2>3. ~running /\ mode = "main" /\ container
    BY <1>5, <2>2
  <2>4. /\ pass' \in {"none", "typed", "wiped"} /\ ready' = ready /\ key' \in BOOLEAN
    BY <1>2, <1>13 DEF SecretTypes, secretVars
  <2>5. /\ Len(inputs') >= 1 /\ Len(inputs') <= MaxInputs /\ caPos' \in 0..MaxInputs
        /\ caPos' <= Len(inputs') /\ inputs' \in Seq(Folders \cup {Archive})
    BY <1>6, <1>7, <1>13, <2>1
  <2>6. 1 \in {1, 2} /\ asked' = (IF 1 = 1 THEN "add" ELSE "remove")
    BY <2>1
  <2> QED
    BY <1>1, <1>3, <1>4, <1>8, <1>12, <1>13, <2>1, <2>2, <2>3, <2>4, <2>5, <2>6, EditStarted
<1>14. CASE /\ then = "add"
            /\ inputs' = SubSeq(inputs, 1, pos)
            /\ UNCHANGED <<viewVars, enabled, jobVars, job, caPos, secretVars, asked, consent>>
  <2>1. then \in Asks /\ then \in Waits /\ then \notin Ends /\ then # "reload"
    BY <1>14 DEF Asks, Ends, Waits
  <2>2. pos \in 1..MaxInputs /\ pos <= Len(inputs)
    BY <1>6, <1>14
  <2>3. inputs' \in Seq(Folders \cup {Archive}) /\ Len(inputs') = pos
    <3>1. \A k \in 1..pos : inputs[k] \in Folders \cup {Archive}
      BY <1>7, <2>2
    <3> QED
      BY <1>7, <1>14, <2>2, <3>1, SubSeqProperties
  <2>4. ListTypes' /\ ViewTypes' /\ SecretTypes'
    BY <1>1, <1>2, <1>7, <1>14, <2>2, <2>3 DEF ViewTypes, SecretTypes, ListTypes, viewVars, secretVars
  <2>5. FrameInv' /\ PutBackInv'
    <3>1. Len(inputs') >= pos /\ pos \in Nat
      BY <2>2, <2>3
    <3> QED
      BY <1>1, <1>14, <2>3, <3>1, ReturnedInv DEF viewVars, jobVars, then, pos
  <2>6. ModeInv'
    BY <1>1, <1>2, <1>5, <1>14, <2>2, <2>3 DEF ModeInv, viewVars, jobVars
  <2>7. WorkInv' /\ CancelKept' /\ KeyInv'
    BY <1>1, <1>2, <1>5, <1>14, <2>1 DEF WorkInv, CancelKept, KeyInv, viewVars, jobVars, secretVars
  <2>8. SpawnInv => SpawnInv'
    BY <1>1, <1>4, <1>5, <1>8, <1>14, <2>1 DEF SpawnInv, viewVars, jobVars
  <2> QED
    BY <1>2, <1>3, <1>8, <1>9, <1>14, <2>4, <2>5, <2>6, <2>7, <2>8 DEF IInv, Typed
<1>15. CASE /\ then = "remove"
            /\ RemoveConfirmed /\ Asked("remove", clicked = box)
            /\ UNCHANGED <<inputs, viewVars, caPos, secretVars>>
  <2>1. /\ EnterRunning /\ job' = 2 /\ asked' = "remove" /\ consent' \in BOOLEAN
    BY <1>15 DEF RemoveConfirmed, Asked
  <2>2. then \in Asks /\ then \in Waits
    BY <1>15 DEF Asks, Waits
  <2>3. ~running /\ mode = "main" /\ container /\ Len(inputs) >= 1
    BY <1>2, <1>5, <2>2 DEF ModeInv
  <2>4. /\ pass' \in {"none", "typed", "wiped"} /\ ready' = ready /\ key' \in BOOLEAN
    BY <1>2, <1>15 DEF SecretTypes, secretVars
  <2>5. /\ Len(inputs') >= 1 /\ Len(inputs') <= MaxInputs /\ caPos' \in 0..MaxInputs
        /\ caPos' <= Len(inputs') /\ inputs' \in Seq(Folders \cup {Archive})
    BY <1>7, <1>15, <2>3
  <2>6. 2 \in {1, 2} /\ asked' = (IF 2 = 1 THEN "add" ELSE "remove")
    BY <2>1
  <2> QED
    BY <1>1, <1>3, <1>4, <1>8, <1>12, <1>15, <2>1, <2>2, <2>3, <2>4, <2>5, <2>6, EditStarted
<1>17. CASE /\ then = "extract"
            /\ EnterRunning /\ Asked("extract", clicked = box)
            /\ UNCHANGED <<inputs, viewVars, job, caPos, secretVars>>
  <2>1. asked' = "extract" /\ consent' \in BOOLEAN
    BY <1>17 DEF Asked
  <2>2. then \in Waits /\ then \in {"extract"} /\ then \notin {"reload"} /\ then # "nothing"
    BY <1>17 DEF Waits
  <2>3. ~running /\ worker = "off" /\ ~packing.named /\ op # 0 /\ mode # "closed"
        /\ ~HasFrame({"reload"})'
    BY <1>2, <1>4, <1>5, <2>2 DEF FrameInv, HasFrame, Waits, Ends
  <2>4. /\ JobTypes' /\ RunInv' /\ worker' \in {"off", "start"}
        /\ ~cancelled' /\ ~enabled' /\ enabled' \in BOOLEAN /\ (~SpawnFails => running')
    BY <1>2, <1>8, <1>17, <2>3, Entered
  <2>5. ViewTypes' /\ SecretTypes' /\ ListTypes'
    BY <1>1, <1>2, <1>17, <2>1, <2>4 DEF ViewTypes, SecretTypes, ListTypes, viewVars, secretVars, Actions
  <2>6. FrameInv'
    <3>1. ~HasFrame(Asks)' /\ ~HasFrame({"extract"})' /\ ~HasFrame(Waits)'
      BY <1>4, <2>2 DEF HasFrame, Waits
    <3> QED
      BY <1>4, <2>3, <3>1 DEF FrameInv
  <2>7. PutBackInv'
    <3>1. \A i \in 1..Len(stack') : Then(i)' # "add"
      BY <1>4, <2>2 DEF HasFrame, Waits, Asks
    <3> QED
      BY <1>2, <1>17, <3>1 DEF PutBackInv, viewVars
  <2>8. ModeInv'
    BY <1>1, <1>2, <1>5, <1>17, <2>3 DEF ModeInv, viewVars
  <2>9. WorkInv' /\ CancelKept' /\ KeyInv'
    BY <1>1, <1>2, <1>17, <2>3, <2>4 DEF WorkInv, CancelKept, KeyInv, viewVars, secretVars
  <2>10. ~SpawnFails => SpawnInv'
    <3> SUFFICES ASSUME ~SpawnFails PROVE SpawnInv'
      OBVIOUS
    <3>1. ~HasFrame({"reload"})
      BY <1>4, <2>2, <2>3
    <3>2. job = 0
      BY <1>2, <2>3, <3>1 DEF SpawnInv
    <3>3. Chosen' = "extract"
      BY <1>1, <1>17, <2>3, <3>2 DEF Chosen, viewVars
    <3> QED
      BY <1>17, <2>1, <2>4, <3>2, <3>3 DEF SpawnInv
  <2> QED
    BY <1>3, <1>8, <2>4, <2>5, <2>6, <2>7, <2>8, <2>9, <2>10 DEF IInv, Typed
<1>16. CASE \/ /\ then = "remove"
               /\ key' = (isZip /\ key)
               /\ UNCHANGED <<inputs, viewVars, enabled, jobVars, job, caPos, pass, ready,
                              asked, consent>>
            \/ /\ then = "extract" /\ pass' = Wiped
               /\ UNCHANGED <<inputs, viewVars, enabled, jobVars, job, caPos, ready, key,
                              asked, consent>>
            \/ /\ then \notin {"restore", "reload", "add", "remove"}
               /\ UNCHANGED <<inputs, viewVars, enabled, jobVars, job, caPos, secretVars,
                              asked, consent>>
  <2>1. /\ then \notin Ends
        /\ then = "remove" \/ key' = key
        /\ UNCHANGED <<inputs, viewVars, enabled, jobVars, job, caPos, ready, asked, consent>>
    BY <1>16 DEF Ends, secretVars
  <2>2. key' \in BOOLEAN /\ pass' \in {"none", "typed", "wiped"}
    BY <1>2, <1>16 DEF SecretTypes, ViewTypes, secretVars, Wiped
  <2>3. ViewTypes' /\ SecretTypes' /\ ListTypes'
    BY <1>1, <1>2, <2>1, <2>2 DEF ViewTypes, SecretTypes, ListTypes, viewVars
  <2>4. FrameInv' /\ PutBackInv'
    BY <1>1, <2>1, ReturnedInv DEF viewVars, jobVars
  <2>5. ModeInv' /\ WorkInv' /\ CancelKept'
    BY <1>1, <1>2, <1>5, <2>1 DEF ModeInv, WorkInv, Chosen, CancelKept, viewVars, jobVars
  <2>6. KeyInv'
    <3>1. then = "remove" => container
      BY <1>5 DEF Asks
    <3> QED
      BY <1>2, <2>1, <3>1 DEF KeyInv, viewVars, jobVars
  <2>7. SpawnInv => SpawnInv'
    <3>1. then # "reload"
      BY <2>1 DEF Ends
    <3>2. Chosen' = Chosen
      BY <1>1, <2>1 DEF Chosen, viewVars
    <3> QED
      BY <1>1, <1>4, <1>8, <2>1, <3>1, <3>2 DEF SpawnInv, viewVars, jobVars
  <2>8. JobTypes' /\ RunInv'
    BY <1>9, <2>1
  <2> QED
    BY <1>2, <1>3, <1>8, <2>3, <2>4, <2>5, <2>6, <2>7, <2>8 DEF IInv, Typed
<1> QED
  BY <1>1, <1>10, <1>11, <1>13, <1>14, <1>15, <1>16, <1>17

-----------------------------------------------------------------------------
(* The whole.                                                              *)

LEMMA StutterInv == ASSUME IInv, UNCHANGED vars PROVE IInv'
<1>1. Typed'
  BY DEF IInv, Typed, ViewTypes, JobTypes, SecretTypes, ListTypes, WalkTypes, BoxTypes,
         QueueTypes, vars, walkVars, boxVars, viewVars, jobVars, secretVars
<1>2. RunInv' /\ FrameInv' /\ ModeInv' /\ PutBackInv'
  BY DEF IInv, RunInv, HasMessage, FrameInv, HasFrame, Then, ModeInv, PutBackInv,
         vars, walkVars, boxVars, viewVars, jobVars
<1>3. WorkInv' /\ CancelKept' /\ KeyInv'
  BY DEF IInv, WorkInv, Chosen, CancelKept, KeyInv, vars, walkVars, viewVars, jobVars, secretVars
<1>4. SpawnInv => SpawnInv'
  BY DEF SpawnInv, Chosen, HasFrame, HasMessage, Then, vars, walkVars, boxVars, viewVars, jobVars
<1> QED
  BY <1>1, <1>2, <1>3, <1>4 DEF IInv

LEMMA NextInv == IInv /\ [Next]_vars => IInv'
<1> SUFFICES ASSUME IInv, [Next]_vars PROVE IInv'
  OBVIOUS
<1>1. CASE User
  BY <1>1, ActInv, LaunchInv, DeclineInv, AddInputsInv, RemoveInputsInv, SetFormatInv,
     ContainerAddInv, ContainerRemoveInv, ExitInv, AboutInv, AnswerInv DEF User
<1>2. CASE Thread
  BY <1>2, DispatchInv, BoxReturnsInv DEF Thread
<1>3. CASE Worker
  BY <1>3, WorkerStartInv, WorkerBeginInv, WorkerPackInv, WorkerStopInv, WorkerEndInv DEF Worker
<1>4. CASE \E s \in Scanners : IndexerStep(s)
  BY <1>4, IndexerInv
<1>5. CASE UNCHANGED vars
  BY <1>5, StutterInv
<1> QED
  BY <1>1, <1>2, <1>3, <1>4, <1>5 DEF Next

\* The inductive invariant holds throughout: what keeps the thread of the window, its
\* message boxes, the worker and the indexers from getting in each other's way.
THEOREM Invariant == Spec => []IInv
<1>1. Init => IInv
  BY InitInv
<1>2. IInv /\ [Next]_vars => IInv'
  BY NextInv
<1> QED
  BY <1>1, <1>2, PTL DEF Spec

\* Every global the model keeps has its type, whatever is posted, answered or cancelled when.
THEOREM TypeCorrect == Spec => []TypeOK
<1>1. IInv => TypeOK
  <2> SUFFICES ASSUME IInv PROVE TypeOK
    OBVIOUS
  <2>1. packing.done \in 0..MaxInputs /\ packing.named \in BOOLEAN /\ mb.hwnd \in {0} \cup Ids
    BY DEF IInv, Typed, WalkTypes, BoxTypes
  <2>2. Len(packed) <= MaxInputs
    <3>1. Len(packed) \in Nat /\ Len(packed) <= packing.done
      BY LenProperties DEF IInv, Typed, WalkTypes, WorkInv
    <3> QED
      BY <2>1, <3>1, WalkAssumption
  <2> QED
    BY <2>1, <2>2 DEF IInv, Typed, ViewTypes, JobTypes, SecretTypes, ListTypes, WalkTypes,
       BoxTypes, QueueTypes, Messages, Results, TypeOK
<1> QED
  BY <1>1, Invariant, PTL

\* A cancel that came before the rewrite of a container began is still raised when
\* it looks (progress_begin_rewrite keeps g_prog_abort), however many boxes were open.
THEOREM CancelIsKept == Spec => []CancelKept
<1>1. IInv => CancelKept
  BY DEF IInv
<1> QED
  BY <1>1, Invariant, PTL

\* g_key holds a key only while an archive is browsed or a worker is there.
THEOREM KeyIsInUse == Spec => []KeyOnlyInUse
<1>1. IInv => KeyOnlyInUse
  BY DEF IInv, KeyInv, KeyOnlyInUse
<1> QED
  BY <1>1, Invariant, PTL

\* wp_close, wp_cancel and pgw_close never end the program under its worker.
THEOREM NoExit == Spec => []NoExitUnderWorker
<1>1. IInv => NoExitUnderWorker
  BY DEF IInv, ModeInv, RunInv, NoExitUnderWorker
<1> QED
  BY <1>1, Invariant, PTL

\* The worker does what the user asked for, from the click to its end, when
\* CreateThread does not fail: no global it reads late has changed in between.
THEOREM JobAsAsked == ASSUME ~SpawnFails PROVE Spec => []JobIsTheOneAsked
<1>1. IInv => JobIsTheOneAsked
  BY DEF IInv, WorkInv, SpawnInv, JobIsTheOneAsked
<1> QED
  BY <1>1, Invariant, PTL

\* An archive that is shown can be acted on, when CreateThread does not fail: no end
\* of a job, no box and no late WM_APP_INDEXED leaves its button disabled.
THEOREM ArchiveStaysUsable == ASSUME ~SpawnFails PROVE Spec => []ArchiveUsable
<1>1. IInv => ArchiveUsable
  <2> SUFFICES ASSUME IInv, container, Attends, ~running, ~scanning PROVE enabled
    BY DEF ArchiveUsable
  <2>1. ~HasMessage("indexed") /\ ~HasFrame(Ends)
    BY DEF Attends, HasMessage, HasFrame
  <2> QED
    BY <2>1 DEF IInv, SpawnInv
<1> QED
  BY <1>1, Invariant, PTL

\* Nothing touches the list of inputs while a worker walks it.
THEOREM InputsStand == Spec => InputsStandStill
<1>1. IInv /\ [Next]_vars => [worker # "off" => inputs' = inputs]_vars
  <2> SUFFICES ASSUME IInv, [Next]_vars, worker # "off" PROVE inputs' = inputs
    OBVIOUS
  <2>1. running /\ ~HasMessage("done")
    BY DEF IInv, RunInv
  <2>2. mode \notin {"launch", "dragged"} /\ ~HasFrame(Waits)
    BY <2>1 DEF IInv, ModeInv, FrameInv
  <2>3. CASE User
    BY <2>1, <2>2, <2>3 DEF User, Act, Launch, Decline, AddInputs, RemoveInputs, SetFormat, ContainerAdd,
       ContainerRemove, Exit, About, Answer, NoJob, FormatMayChange, walkVars, boxless
  <2>4. CASE Dispatch
    <3>1. Head(queue) # "done"
      BY <2>1, <2>4, MessageTaken DEF IInv, Typed, Dispatch, Taken, HasMessage
    <3> QED
      BY <2>4, <3>1 DEF Dispatch, OnIndexDone, OnAddWarn
  <2>5. CASE BoxReturns
    <3>1. Head(stack).caller.then \notin Waits
      BY <2>2, <2>5, FramesReturned DEF IInv, Typed, BoxReturns
    <3> QED
      BY <2>5, <3>1 DEF BoxReturns, Waits, Asks, Ends
  <2>6. CASE Worker
    BY <2>6 DEF Worker, WorkerStart, WorkerBegin, WorkerPack, PackTop, PackNode, WorkerStop, WorkerEnd,
       walkVars, listVars
  <2>7. CASE \E s \in Scanners : IndexerStep(s)
    BY <2>7 DEF IndexerStep, ScanInput, ScanEnd
  <2>8. CASE UNCHANGED vars
    BY <2>8 DEF vars, walkVars
  <2> QED
    BY <2>3, <2>4, <2>5, <2>6, <2>7, <2>8 DEF Next, Thread
<1> QED
  BY <1>1, Invariant, PTL DEF Spec, InputsStandStill

=============================================================================

--------------------------- MODULE ModelSwitchProofs --------------------------
(***************************************************************************)
(* One model on the GPU, no job killed, text stopped only when drained,    *)
(* idle stops that are idle, and one media mode per process, for any       *)
(* number of workflows, turns, clients, media modes, queued jobs and       *)
(* failures.                                                               *)
(***************************************************************************)
EXTENDS ModelSwitch, TLAPS

-----------------------------------------------------------------------------
(* The inductive invariant, in parts that are proved one after another.    *)

\* The phases of a switch to a media mode between its look at the containers
\* and the first stop, while it stops, and while ComfyUI comes up.
Draining == {"waiting_workflows", "closing_gate", "draining_text", "leases"}
Stopping == {"stopping_media", "stopping_text"}
Loading == {"waiting_comfyui", "record", "activate"}
\* The worker has looked at the queue and nothing can enter it since.
QueueSeen == Draining \cup Stopping \cup Loading
                \cup {"starting_comfyui", "undo", "stopping_comfyui", "starting_text",
                      "waiting_text"}
\* Phases in which the requested mode is not decided yet.
Underway == Phases \ {"off", "failed", "finally"}

\* Only a switch to a media mode gets as far as ComfyUI.
Aimed ==
    switch.phase \in Draining \cup Stopping \cup Loading
                        \cup {"inspecting", "starting_comfyui", "undo"} => switch.to \in MediaModes

\* Each of the three holders of the admission lock is where the lock says, and
\* nothing runs before recovery.
Locks ==
    /\ prompt # "none" <=> admission = "prompt"
    /\ tick # "off" <=> admission = "tick"
    /\ switch.phase \notin {"off", "begin"} <=> admission = "switch"
    /\ mode = "recovering" => switch.phase = "off" /\ admission = "free"
    /\ switch.phase \in Underway => mode \in {"starting", "stopping"}

\* Jobs belong to a process that is ready, and none enters during a switch but
\* one whose client has given up.
Jobs ==
    /\ comfy # "ready" => queue = 0
    /\ comfy = "down" => loaded = {}
    /\ switch.phase \in QueueSeen => queue = 0 \/ late = "queued"

\* No container comes up behind the worker's back.
Alone ==
    /\ switch.phase = "starting_text" => comfy = "down"
    /\ switch.phase = "starting_comfyui" => text = "down"
    /\ switch.phase \in Draining => switch.hadText
    /\ switch.phase \in Stopping /\ ~switch.hadText => text = "down"

\* The process of a new mode has not served before.
Fresh ==
    /\ switch.phase \in Loading \cup {"stopping_text", "starting_comfyui"} =>
          switch.fresh /\ loaded = {}
    /\ switch.phase \in Draining \cup {"stopping_media"} /\ ~switch.hadMedia =>
          switch.fresh /\ comfy = "down"

\* Nobody is told to use text, no workflow that was told so is left, and
\* behind the closed gate the leases run out.
Drained ==
    LET past == switch.phase \in Draining \/ (switch.phase \in Stopping /\ switch.hadText) IN
    /\ switch.phase \in Underway => ~advertised
    /\ past /\ switch.phase # "waiting_workflows" => \A w \in Workflows : work[w] # "active"
    /\ past /\ switch.phase \notin {"waiting_workflows", "closing_gate"} => ~available
    /\ switch.phase \in Stopping /\ switch.hadText => Leases = {}

\* A lease that has run out saw the last job, or will see that it did not; the
\* monitor acts on a sample that is still true.
SeesJobs(l) == l.idle /\ recent => queue > 0 \/ l.seen # SeenNow
Leased ==
    /\ SeesJobs(memory) /\ SeesJobs(disk)
    /\ tick # "off" /\ data.queue = 0 => queue = 0 \/ late = "queued"
    /\ tick = "known" /\ data.queue = 0 /\ memory.idle => ~recent \/ late = "queued"

\* The media mode is the one in memory; the one on disk differs only after a
\* failed write, beside a running process only after a second failure, and
\* beside a process that has served only after a third.
OneMode ==
    /\ mode \in MediaModes => mode = memory.media
    /\ prompt # "none" => prompt = memory.media
    /\ switch.phase = "activate" => memory.media = switch.to
    /\ memory.media # disk.media =>
          \/ switch.phase = "activate"
          \/ faults >= 2
          \/ /\ faults = 1
             /\ \/ comfy = "down" \/ switch.phase \in {"waiting_comfyui", "record"}
                \/ switch.phase = "undo" /\ switch.fresh
    /\ faults <= 2 => loaded \subseteq {disk.media}
    /\ faults <= 3 => loaded \subseteq {memory.media}

SwitchInv ==
    /\ TypeOK /\ Aimed
    /\ Locks /\ Jobs /\ Alone /\ Fresh /\ Drained /\ Leased /\ OneMode

\* The steps of workflows, turns, clients, the text container and the
\* collector, as Next has them.
IntakeStep ==
    \/ \E w \in Workflows : Intake(WakesUp(w)) \/ Intake(CheckReadiness(w))
    \/ \E t \in Turns : Intake(TurnPasses(t)) \/ Intake(TurnBegins(t))
    \/ \E c \in Workflows \cup Turns : Intake(Ends(c))
    \/ \E c \in Clients : Intake(Enter(c)) \/ Intake(RequestStep(c)) \/ Intake(HangsUp(c))
    \/ Intake(TextLoads) \/ Intake(TextCrashes) \/ Intake(Collect) \/ Intake(CollectFails)

-----------------------------------------------------------------------------
(* Types.                                                                  *)

SwitchType == [phase : Phases, to : Modes, hadMedia : BOOLEAN, hadText : BOOLEAN,
               fresh : BOOLEAN, undoing : BOOLEAN, zero : BOOLEAN, later : BOOLEAN,
               renewed : BOOLEAN, starting : BOOLEAN]

\* What the steps below use of the types.
LEMMA Typed ==
  ASSUME SwitchAssumption, TypeOK
  PROVE  /\ switch \in SwitchType
         /\ prompt \in MediaModes \cup {"none"}
         /\ MaxQueue \in Nat /\ queue \in 0..MaxQueue /\ faults \in Nat
         /\ memory \in Lease /\ disk \in Lease
         /\ data \in [text : Container, comfy : Container, queue : 0..Unknown]
  BY DEF SwitchAssumption, TypeOK, IntakeTypeOK, SwitchType

\* What the intake may do to the variables of the switch's argument.
LEMMA IntakeFacts ==
  ASSUME IntakeStep, TypeOK, IntakeAssumption
  PROVE  /\ UNCHANGED <<comfy, queue, loaded, history, recent, late, memory, disk, mode, data, admission,
                        switch, tick, prompt, available, advertised>>
         /\ text = "down" => text' = "down"
         /\ faults' = faults \/ faults' = faults + 1
         /\ LlmAvailable \/ \A w \in Workflows : work'[w] = "active" => work[w] = "active"
         /\ available \/ Leases' \subseteq Leases
  <1> USE DEF Intake, media, lease, threads, gateVars, activityVars
  <1>1. UNCHANGED <<comfy, queue, loaded, history, recent, late, memory, disk, mode, data, admission,
                    switch, tick, prompt, available, advertised>>
    BY DEF IntakeStep, WakesUp, CheckReadiness, TurnPasses, TurnBegins, Ends, Moves, Enter, RequestStep,
           Forward, Answered, Aborted, HangsUp, Request, TextLoads, TextCrashes, Collect, CollectFails
  <1>2. /\ text = "down" => text' = "down"
        /\ faults' = faults \/ faults' = faults + 1
    BY DEF IntakeStep, WakesUp, CheckReadiness, TurnPasses, TurnBegins, Ends, Moves, Enter, RequestStep,
           Forward, Answered, Aborted, HangsUp, Request, TextLoads, TextCrashes, Collect, CollectFails,
           Fault
  <1>3. LlmAvailable \/ \A w \in Workflows : work'[w] = "active" => work[w] = "active"
    <2>1. \/ work' = work
          \/ \E w \in Workflows : work' = [work EXCEPT ![w] = "checking"]
          \/ \E w \in Workflows : work' = [work EXCEPT ![w] = IF LlmAvailable THEN "active" ELSE "idle"]
          \/ \E t \in Turns : work' = [work EXCEPT ![t] = "passed"]
          \/ \E t \in Turns : work' = [work EXCEPT ![t] = "active"]
          \/ \E c \in Workflows \cup Turns : work' = [work EXCEPT ![c] = "idle"]
      BY DEF IntakeStep, WakesUp, CheckReadiness, TurnPasses, TurnBegins, Ends, Moves, Enter, RequestStep,
             Forward, Answered, Aborted, HangsUp, Request, TextLoads, TextCrashes, Collect, CollectFails
    <2> QED BY <2>1 DEF TypeOK, IntakeTypeOK, IntakeAssumption
  <1>4. available \/ Leases' \subseteq Leases
    <2>1. \/ available \/ req' = req \/ req' = EngineGone
          \/ \E c \in Clients : req[c] = "leased" /\ req' = [req EXCEPT ![c] = "upstream"]
          \/ \E c \in Clients : req' = [req EXCEPT ![c] = "none"]
          \/ \E c \in Clients : req' = [req EXCEPT ![c] = "orphan"]
      BY DEF IntakeStep, WakesUp, CheckReadiness, TurnPasses, TurnBegins, Ends, Moves, Enter, RequestStep,
             Forward, Answered, Aborted, HangsUp, Request, TextLoads, TextCrashes, Collect, CollectFails
    <2> QED BY <2>1 DEF TypeOK, IntakeTypeOK, Leases, EngineGone
  <1> QED BY <1>1, <1>2, <1>3, <1>4

\* sample: what it writes into the status and into the lease.
LEMMA Sampled ==
  ASSUME NEW got, Sample(got), memory \in Lease, disk \in Lease, faults \in Nat, queue \in Nat
  PROVE  /\ data' = [text |-> text, comfy |-> comfy,
                     queue |-> IF comfy = "ready" /\ got # "nothing" THEN queue ELSE Unknown]
         /\ memory'.media = memory.media
         /\ \/ memory' = memory /\ disk' = disk
            \/ disk' = memory' /\ ~memory'.idle
         /\ HistoryKnown(got) /\ memory'.idle => queue = 0 /\ memory.idle /\ memory.seen = SeenNow
         /\ faults' = faults \/ faults' = faults + 1
  <1>1. data' = [text |-> text, comfy |-> comfy,
                 queue |-> IF comfy = "ready" /\ got # "nothing" THEN queue ELSE Unknown]
    BY DEF Sample
  <1>2. faults' = faults \/ faults' = faults + 1
    BY DEF Sample, Read, Fault
  <1>3. CASE HistoryKnown(got) /\ (queue > 0 \/ memory.seen # SeenNow)
    BY <1>1, <1>2, <1>3 DEF Sample, Lease
  <1>4. CASE ~(HistoryKnown(got) /\ (queue > 0 \/ memory.seen # SeenNow))
    <2>1. memory' = memory /\ disk' = disk
      BY <1>4 DEF Sample, lease
    <2>2. HistoryKnown(got) /\ memory'.idle => queue = 0 /\ memory.idle /\ memory.seen = SeenNow
      BY <1>4, <2>1
    <2> QED BY <1>1, <1>2, <2>1, <2>2
  <1> QED BY <1>3, <1>4

\* Rollback stops the process, fails to, or leaves it with its jobs.
LEMMA UndoFacts ==
  ASSUME Undo, switch \in SwitchType
  PROVE  /\ switch.phase = "undo" /\ switch'.phase \in {"checking_queue", "failed"}
         /\ UNCHANGED <<text, work, req, mode, admission, tick, prompt, available, advertised, data>>
         /\ \/ UNCHANGED <<comfy, queue, loaded, history, recent, late, memory, disk>>
            \/ ComfyDown
         /\ \/ comfy' = "down"
            \/ faults < MaxFaults /\ faults' = faults + 1
            \/ ~switch.fresh /\ UNCHANGED faults
         /\ faults' = faults \/ faults' = faults + 1
         /\ comfy' = "down" => queue = 0 \/ switch.fresh \/ comfy = "down"
  BY DEF Undo, At, Goto, Outside, NoData, NoEffect, NoHost, StopComfy, Fault, QueueEmpty, SwitchType,
         Phases, media, lease, gateVars, activityVars, ComfyDown


-----------------------------------------------------------------------------
(* The parts of the invariant.                                             *)

\* The locks are where they should be.
LEMMA LocksStep ==
  ASSUME IntakeAssumption, SwitchAssumption, TypeOK, Locks, Next
  PROVE  Locks'
  <1>a. /\ switch \in SwitchType /\ prompt \in MediaModes \cup {"none"}
        /\ queue \in Nat /\ MaxQueue \in Nat /\ faults \in Nat /\ memory \in Lease /\ disk \in Lease
        /\ data \in [text : Container, comfy : Container, queue : 0..Unknown]
    BY Typed
  <1> USE DEF Locks, Underway, Phases, SwitchType, SwitchAssumption, Modes, Lease, At, Goto,
             Outside, NoHost, NoData, Fault, gateVars, activityVars, intakeVars, media, lease,
             threads
  <1>1. CASE IntakeStep
    BY <1>a, <1>1, IntakeFacts
  <1>2. CASE ActivityPublished \/ Clock
    BY <1>a, <1>2 DEF ActivityPublished, Publish, Clock, Ages
  <1>3. CASE JobDone \/ ComfyLoads \/ ComfyCrashes \/ IdleTimePasses
    BY <1>a, <1>3 DEF JobDone, ComfyLoads, ComfyCrashes, ComfyDown, IdleTimePasses
  <1>4. CASE \E to \in Modes : UserSubmits(to)
    BY <1>a, <1>4 DEF UserSubmits, Submit, Accepts, Started, NoSwitch, Switching
  <1>5. CASE Recover
    BY <1>a, <1>5 DEF Recover, Sample, Read, HistoryKnown, Gate, Started, NoSwitch, Readings
  <1>6. CASE RecoverFails
    BY <1>a, <1>6 DEF RecoverFails
  <1>7. CASE Restart
    BY <1>a, <1>7 DEF Restart, NoSwitch, Gate
  <1>8. CASE Begin \/ Inspecting
    BY <1>a, <1>8 DEF Begin, Inspecting, QueueEmpty
  <1>9. CASE DrainWorkflows
    BY <1>a, <1>9 DEF DrainWorkflows
  <1>10. CASE CloseGate
    BY <1>a, <1>10 DEF CloseGate
  <1>11. CASE ReadMetrics
    BY <1>a, <1>11 DEF ReadMetrics
  <1>12. CASE ReadLeases
    BY <1>a, <1>12 DEF ReadLeases
  <1>13. CASE StoppingMedia
    BY <1>a, <1>13 DEF StoppingMedia, StopComfy, ComfyDown, NoEffect, NoMedia
  <1>14. CASE StoppingText \/ Skipping \/ StartingComfy
    BY <1>a, <1>14 DEF StoppingText, Command, StopText, NoEffect, Skipping, StartingComfy,
       StartComfy
  <1>15. CASE WaitingComfy \/ Record \/ Activate
    BY <1>a, <1>15 DEF WaitingComfy, Record, Activate
  <1>16. CASE Undo
    BY <1>a, <1>16, UndoFacts
    DEF Locks, Underway, Phases
  <1>17. CASE CheckingQueue
    BY <1>a, <1>17 DEF CheckingQueue, QueueEmpty, NoQueue, NoMedia
  <1>18. CASE StoppingComfy
    BY <1>a, <1>18 DEF StoppingComfy, Command, StopComfy, ComfyDown, NoEffect, NoQueue, NoMedia
  <1>19. CASE StartingText \/ WaitingText
    BY <1>a, <1>19 DEF StartingText, Command, StartText, NoEffect, WaitingText, Gate
  <1>20. CASE HostRaises \/ SampleRaises
    BY <1>a, <1>20 DEF HostRaises, SampleRaises, Gate, Released, NoSwitch
  <1>21. CASE Failed
    BY <1>a, <1>21 DEF Failed, Sample, Read, HistoryKnown, Readings
  <1>22. CASE Finally
    BY <1>a, <1>22 DEF Finally, Sample, Read, HistoryKnown, Gate, Released, NoSwitch, Readings
  <1>23. CASE (\E m \in MediaModes : PromptEnters(m)) \/ PromptAccepted \/ PromptFails
             \/ LateJob
    BY <1>a, <1>23 DEF PromptEnters, PromptAccepted, Queued, Sent, PromptLeaves, PromptFails, LateJob
  <1>24. CASE TickSamples \/ TickFails
    BY <1>a, <1>24 DEF TickSamples, TickFrame, Sample, Read, HistoryKnown, Readings, TickFails,
       Gate
  <1>25. CASE TickStops
    BY <1>a, <1>25 DEF TickStops, TickFrame, TickLeaves, Submit, Accepts, Started, NoSwitch,
       Switching
  <1>26. CASE TickAdjusts
    BY <1>a, <1>26 DEF TickAdjusts, TickFrame, TickLeaves, Gate, Switching
  <1>27. CASE TickYields
    BY <1>a, <1>27 DEF TickYields, TickFrame, TickLeaves, Switching
  <1> QED BY <1>1, <1>2, <1>3, <1>4, <1>5, <1>6, <1>7, <1>8, <1>9, <1>10, <1>11, <1>12, <1>13,
             <1>14, <1>15, <1>16, <1>17, <1>18, <1>19, <1>20, <1>21, <1>22, <1>23, <1>24, <1>25,
             <1>26, <1>27 DEF Next, SwitchStep, TickStep, IntakeStep

\* No job enters the queue during a switch.
LEMMA JobsStep ==
  ASSUME IntakeAssumption, SwitchAssumption, TypeOK, Locks, Jobs, Next
  PROVE  Jobs'
  <1>a. /\ switch \in SwitchType /\ prompt \in MediaModes \cup {"none"}
        /\ queue \in Nat /\ MaxQueue \in Nat /\ faults \in Nat /\ memory \in Lease /\ disk \in Lease
        /\ data \in [text : Container, comfy : Container, queue : 0..Unknown]
    BY Typed
  <1> USE DEF Jobs, Locks, Underway, QueueSeen, Draining, Stopping, Loading, Phases, SwitchType,
             SwitchAssumption, Modes, Lease, At, Goto, Outside, NoHost, NoData, Fault, gateVars,
             activityVars, intakeVars, media, lease, threads
  <1>1. CASE IntakeStep
    BY <1>a, <1>1, IntakeFacts
  <1>2. CASE ActivityPublished \/ Clock
    BY <1>a, <1>2 DEF ActivityPublished, Publish, Clock, Ages
  <1>3. CASE JobDone \/ ComfyLoads \/ ComfyCrashes \/ IdleTimePasses
    BY <1>a, <1>3 DEF JobDone, ComfyLoads, ComfyCrashes, ComfyDown, IdleTimePasses
  <1>4. CASE \E to \in Modes : UserSubmits(to)
    BY <1>a, <1>4 DEF UserSubmits, Submit, Accepts, Started, NoSwitch, Switching
  <1>5. CASE Recover
    BY <1>a, <1>5 DEF Recover, Sample, Read, HistoryKnown, Gate, Started, NoSwitch, Readings
  <1>6. CASE RecoverFails
    BY <1>a, <1>6 DEF RecoverFails
  <1>7. CASE Restart
    BY <1>a, <1>7 DEF Restart, NoSwitch, Gate
  <1>8. CASE Begin
    BY <1>a, <1>8 DEF Begin
  <1>9. CASE Inspecting
    <2>1. CASE comfy # "down" /\ ~QueueEmpty
      <3>1. switch'.phase = "failed"
        BY <1>a, <1>9, <2>1 DEF Inspecting, SwitchType
      <3> QED BY <1>a, <1>9, <3>1
              DEF Inspecting, Outside, NoHost, media, Jobs, QueueSeen, Draining, Stopping, Loading
    <2>2. CASE ~(comfy # "down" /\ ~QueueEmpty)
      BY <1>a, <1>9, <2>2 DEF Inspecting, Outside, NoHost, media, Jobs, QueueEmpty
    <2> QED BY <2>1, <2>2
  <1>10. CASE DrainWorkflows
    BY <1>a, <1>10 DEF DrainWorkflows
  <1>11. CASE CloseGate
    BY <1>a, <1>11 DEF CloseGate
  <1>12. CASE ReadMetrics
    BY <1>a, <1>12 DEF ReadMetrics
  <1>13. CASE ReadLeases
    BY <1>a, <1>13 DEF ReadLeases
  <1>14. CASE StoppingMedia
    BY <1>a, <1>14 DEF StoppingMedia, StopComfy, ComfyDown, NoEffect, NoMedia
  <1>15. CASE StoppingText \/ Skipping \/ StartingComfy
    BY <1>a, <1>15 DEF StoppingText, Command, StopText, NoEffect, Skipping, StartingComfy,
       StartComfy
  <1>16. CASE WaitingComfy \/ Record \/ Activate
    BY <1>a, <1>16 DEF WaitingComfy, Record, Activate
  <1>17. CASE Undo
    BY <1>a, <1>17 DEF Undo, StopComfy, ComfyDown, NoEffect, QueueEmpty
  <1>18. CASE CheckingQueue
    BY <1>a, <1>18 DEF CheckingQueue, QueueEmpty, NoQueue, NoMedia
  <1>19. CASE StoppingComfy
    BY <1>a, <1>19 DEF StoppingComfy, Command, StopComfy, ComfyDown, NoEffect, NoQueue, NoMedia
  <1>20. CASE StartingText \/ WaitingText
    BY <1>a, <1>20 DEF StartingText, Command, StartText, NoEffect, WaitingText, Gate
  <1>21. CASE HostRaises \/ SampleRaises
    BY <1>a, <1>21 DEF HostRaises, SampleRaises, Gate, Released, NoSwitch
  <1>22. CASE Failed
    BY <1>a, <1>22 DEF Failed, Sample, Read, HistoryKnown, Readings
  <1>23. CASE Finally
    BY <1>a, <1>23 DEF Finally, Sample, Read, HistoryKnown, Gate, Released, NoSwitch, Readings
  <1>24. CASE (\E m \in MediaModes : PromptEnters(m)) \/ PromptAccepted \/ PromptFails
             \/ LateJob
    BY <1>a, <1>24 DEF PromptEnters, PromptAccepted, Queued, Sent, PromptLeaves, PromptFails, LateJob
  <1>25. CASE TickSamples \/ TickFails
    BY <1>a, <1>25 DEF TickSamples, TickFrame, Sample, Read, HistoryKnown, Readings, TickFails,
       Gate
  <1>26. CASE TickStops
    BY <1>a, <1>26 DEF TickStops, TickFrame, TickLeaves, Submit, Accepts, Started, NoSwitch,
       Switching
  <1>27. CASE TickAdjusts
    BY <1>a, <1>27 DEF TickAdjusts, TickFrame, TickLeaves, Gate, Switching
  <1>28. CASE TickYields
    BY <1>a, <1>28 DEF TickYields, TickFrame, TickLeaves, Switching
  <1> QED BY <1>1, <1>2, <1>3, <1>4, <1>5, <1>6, <1>7, <1>8, <1>9, <1>10, <1>11, <1>12, <1>13,
             <1>14, <1>15, <1>16, <1>17, <1>18, <1>19, <1>20, <1>21, <1>22, <1>23, <1>24, <1>25,
             <1>26, <1>27, <1>28 DEF Next, SwitchStep, TickStep, IntakeStep

\* No container comes up behind the worker's back.
LEMMA AloneStep ==
  ASSUME IntakeAssumption, SwitchAssumption, TypeOK, Locks, Jobs, Alone, Next
  PROVE  Alone'
  <1>a. /\ switch \in SwitchType /\ prompt \in MediaModes \cup {"none"}
        /\ queue \in Nat /\ MaxQueue \in Nat /\ faults \in Nat /\ memory \in Lease /\ disk \in Lease
        /\ data \in [text : Container, comfy : Container, queue : 0..Unknown]
    BY Typed
  <1> USE DEF Alone, Jobs, Locks, Underway, Draining, Stopping, Loading, Phases, SwitchType,
             SwitchAssumption, Modes, Lease, At, Goto, Outside, NoHost, NoData, Fault, gateVars,
             activityVars, intakeVars, media, lease, threads
  <1>1. CASE IntakeStep
    BY <1>1, IntakeFacts DEF Alone, Draining, Stopping
  <1>2. CASE ActivityPublished \/ Clock
    BY <1>a, <1>2 DEF ActivityPublished, Publish, Clock, Ages
  <1>3. CASE JobDone \/ ComfyLoads \/ ComfyCrashes \/ IdleTimePasses
    BY <1>a, <1>3 DEF JobDone, ComfyLoads, ComfyCrashes, ComfyDown, IdleTimePasses
  <1>4. CASE \E to \in Modes : UserSubmits(to)
    BY <1>a, <1>4 DEF UserSubmits, Submit, Accepts, Started, NoSwitch, Switching
  <1>5. CASE Recover
    BY <1>a, <1>5 DEF Recover, Sample, Read, HistoryKnown, Gate, Started, NoSwitch, Readings
  <1>6. CASE RecoverFails
    BY <1>a, <1>6 DEF RecoverFails
  <1>7. CASE Restart
    BY <1>a, <1>7 DEF Restart, NoSwitch, Gate
  <1>8. CASE Begin
    BY <1>a, <1>8 DEF Begin
  <1>9. CASE Inspecting
    BY <1>a, <1>9 DEF Inspecting, QueueEmpty
  <1>10. CASE DrainWorkflows
    BY <1>a, <1>10 DEF DrainWorkflows
  <1>11. CASE CloseGate
    BY <1>a, <1>11 DEF CloseGate
  <1>12. CASE ReadMetrics
    BY <1>a, <1>12 DEF ReadMetrics
  <1>13. CASE ReadLeases
    BY <1>a, <1>13 DEF ReadLeases
  <1>14. CASE StoppingMedia
    BY <1>a, <1>14 DEF StoppingMedia, StopComfy, ComfyDown, NoEffect, NoMedia
  <1>15. CASE StoppingText \/ Skipping \/ StartingComfy
    BY <1>a, <1>15 DEF StoppingText, Command, StopText, NoEffect, Skipping, StartingComfy,
       StartComfy
  <1>16. CASE WaitingComfy \/ Record \/ Activate
    BY <1>a, <1>16 DEF WaitingComfy, Record, Activate
  <1>17. CASE Undo
    BY <1>a, <1>17, UndoFacts
    DEF Alone, Draining, Stopping, Phases
  <1>18. CASE CheckingQueue
    BY <1>a, <1>18 DEF CheckingQueue, QueueEmpty, NoQueue, NoMedia
  <1>19. CASE StoppingComfy
    BY <1>a, <1>19 DEF StoppingComfy, Command, StopComfy, ComfyDown, NoEffect, NoQueue, NoMedia
  <1>20. CASE StartingText \/ WaitingText
    BY <1>a, <1>20 DEF StartingText, Command, StartText, NoEffect, WaitingText, Gate
  <1>21. CASE HostRaises \/ SampleRaises
    BY <1>a, <1>21 DEF HostRaises, SampleRaises, Gate, Released, NoSwitch
  <1>22. CASE Failed
    BY <1>a, <1>22 DEF Failed, Sample, Read, HistoryKnown, Readings
  <1>23. CASE Finally
    BY <1>a, <1>23 DEF Finally, Sample, Read, HistoryKnown, Gate, Released, NoSwitch, Readings
  <1>24. CASE (\E m \in MediaModes : PromptEnters(m)) \/ PromptAccepted \/ PromptFails
             \/ LateJob
    BY <1>a, <1>24 DEF PromptEnters, PromptAccepted, Queued, Sent, PromptLeaves, PromptFails, LateJob
  <1>25. CASE TickSamples \/ TickFails
    BY <1>a, <1>25 DEF TickSamples, TickFrame, Sample, Read, HistoryKnown, Readings, TickFails,
       Gate
  <1>26. CASE TickStops
    BY <1>a, <1>26 DEF TickStops, TickFrame, TickLeaves, Submit, Accepts, Started, NoSwitch,
       Switching
  <1>27. CASE TickAdjusts
    BY <1>a, <1>27 DEF TickAdjusts, TickFrame, TickLeaves, Gate, Switching
  <1>28. CASE TickYields
    BY <1>a, <1>28 DEF TickYields, TickFrame, TickLeaves, Switching
  <1> QED BY <1>1, <1>2, <1>3, <1>4, <1>5, <1>6, <1>7, <1>8, <1>9, <1>10, <1>11, <1>12, <1>13,
             <1>14, <1>15, <1>16, <1>17, <1>18, <1>19, <1>20, <1>21, <1>22, <1>23, <1>24, <1>25,
             <1>26, <1>27, <1>28 DEF Next, SwitchStep, TickStep, IntakeStep

\* The process of a new mode has not served before.
LEMMA FreshStep ==
  ASSUME IntakeAssumption, SwitchAssumption, TypeOK, Locks, Jobs, Fresh, Next
  PROVE  Fresh'
  <1>a. /\ switch \in SwitchType /\ prompt \in MediaModes \cup {"none"}
        /\ queue \in Nat /\ MaxQueue \in Nat /\ faults \in Nat /\ memory \in Lease /\ disk \in Lease
        /\ data \in [text : Container, comfy : Container, queue : 0..Unknown]
    BY Typed
  <1> USE DEF Fresh, Jobs, Locks, Underway, Draining, Stopping, Loading, Phases, SwitchType,
             SwitchAssumption, Modes, Lease, At, Goto, Outside, NoHost, NoData, Fault, gateVars,
             activityVars, intakeVars, media, lease, threads
  <1>1. CASE IntakeStep
    BY <1>a, <1>1, IntakeFacts
  <1>2. CASE ActivityPublished \/ Clock
    BY <1>a, <1>2 DEF ActivityPublished, Publish, Clock, Ages
  <1>3. CASE JobDone \/ ComfyLoads \/ ComfyCrashes \/ IdleTimePasses
    BY <1>a, <1>3 DEF JobDone, ComfyLoads, ComfyCrashes, ComfyDown, IdleTimePasses
  <1>4. CASE \E to \in Modes : UserSubmits(to)
    BY <1>a, <1>4 DEF UserSubmits, Submit, Accepts, Started, NoSwitch, Switching
  <1>5. CASE Recover
    BY <1>a, <1>5 DEF Recover, Sample, Read, HistoryKnown, Gate, Started, NoSwitch, Readings
  <1>6. CASE RecoverFails
    BY <1>a, <1>6 DEF RecoverFails
  <1>7. CASE Restart
    BY <1>a, <1>7 DEF Restart, NoSwitch, Gate
  <1>8. CASE Begin
    BY <1>a, <1>8 DEF Begin
  <1>9. CASE Inspecting
    BY <1>a, <1>9 DEF Inspecting, QueueEmpty
  <1>10. CASE DrainWorkflows
    BY <1>a, <1>10 DEF DrainWorkflows
  <1>11. CASE CloseGate
    BY <1>a, <1>11 DEF CloseGate
  <1>12. CASE ReadMetrics
    BY <1>a, <1>12 DEF ReadMetrics
  <1>13. CASE ReadLeases
    BY <1>a, <1>13 DEF ReadLeases
  <1>14. CASE StoppingMedia
    BY <1>a, <1>14 DEF StoppingMedia, StopComfy, ComfyDown, NoEffect, NoMedia
  <1>15. CASE StoppingText \/ Skipping \/ StartingComfy
    BY <1>a, <1>15 DEF StoppingText, Command, StopText, NoEffect, Skipping, StartingComfy,
       StartComfy
  <1>16. CASE WaitingComfy \/ Record \/ Activate
    BY <1>a, <1>16 DEF WaitingComfy, Record, Activate
  <1>17. CASE Undo
    BY <1>a, <1>17, UndoFacts
    DEF Fresh, Draining, Stopping, Loading, Phases
  <1>18. CASE CheckingQueue
    BY <1>a, <1>18 DEF CheckingQueue, QueueEmpty, NoQueue, NoMedia
  <1>19. CASE StoppingComfy
    BY <1>a, <1>19 DEF StoppingComfy, Command, StopComfy, ComfyDown, NoEffect, NoQueue, NoMedia
  <1>20. CASE StartingText \/ WaitingText
    BY <1>a, <1>20 DEF StartingText, Command, StartText, NoEffect, WaitingText, Gate
  <1>21. CASE HostRaises \/ SampleRaises
    BY <1>a, <1>21 DEF HostRaises, SampleRaises, Gate, Released, NoSwitch
  <1>22. CASE Failed
    BY <1>a, <1>22 DEF Failed, Sample, Read, HistoryKnown, Readings
  <1>23. CASE Finally
    BY <1>a, <1>23 DEF Finally, Sample, Read, HistoryKnown, Gate, Released, NoSwitch, Readings
  <1>24. CASE (\E m \in MediaModes : PromptEnters(m)) \/ PromptAccepted \/ PromptFails
             \/ LateJob
    BY <1>a, <1>24 DEF PromptEnters, PromptAccepted, Queued, Sent, PromptLeaves, PromptFails, LateJob
  <1>25. CASE TickSamples \/ TickFails
    BY <1>a, <1>25 DEF TickSamples, TickFrame, Sample, Read, HistoryKnown, Readings, TickFails,
       Gate
  <1>26. CASE TickStops
    BY <1>a, <1>26 DEF TickStops, TickFrame, TickLeaves, Submit, Accepts, Started, NoSwitch,
       Switching
  <1>27. CASE TickAdjusts
    BY <1>a, <1>27 DEF TickAdjusts, TickFrame, TickLeaves, Gate, Switching
  <1>28. CASE TickYields
    BY <1>a, <1>28 DEF TickYields, TickFrame, TickLeaves, Switching
  <1> QED BY <1>1, <1>2, <1>3, <1>4, <1>5, <1>6, <1>7, <1>8, <1>9, <1>10, <1>11, <1>12, <1>13,
             <1>14, <1>15, <1>16, <1>17, <1>18, <1>19, <1>20, <1>21, <1>22, <1>23, <1>24, <1>25,
             <1>26, <1>27, <1>28 DEF Next, SwitchStep, TickStep, IntakeStep

\* Text drains and stays drained.
LEMMA DrainedStep ==
  ASSUME IntakeAssumption, SwitchAssumption, TypeOK, Locks, Drained, Next
  PROVE  Drained'
  <1>a. /\ switch \in SwitchType /\ prompt \in MediaModes \cup {"none"}
        /\ queue \in Nat /\ MaxQueue \in Nat /\ faults \in Nat /\ memory \in Lease /\ disk \in Lease
        /\ data \in [text : Container, comfy : Container, queue : 0..Unknown]
    BY Typed
  <1> USE DEF Drained, Locks, Underway, Draining, Stopping, Loading, Leases, Phases, SwitchType,
             SwitchAssumption, Modes, Lease, At, Goto, Outside, NoHost, NoData, Fault, gateVars,
             activityVars, intakeVars, media, lease, threads
  <1>1. CASE IntakeStep
    BY <1>a, <1>1, IntakeFacts DEF Drained, LlmAvailable, Draining, Stopping, Underway, Phases
  <1>2. CASE ActivityPublished \/ Clock
    BY <1>a, <1>2 DEF ActivityPublished, Publish, Clock, Ages
  <1>3. CASE JobDone \/ ComfyLoads \/ ComfyCrashes \/ IdleTimePasses
    BY <1>a, <1>3 DEF JobDone, ComfyLoads, ComfyCrashes, ComfyDown, IdleTimePasses
  <1>4. CASE \E to \in Modes : UserSubmits(to)
    BY <1>a, <1>4 DEF UserSubmits, Submit, Accepts, Started, NoSwitch, Switching
  <1>5. CASE Recover
    BY <1>a, <1>5 DEF Recover, Sample, Read, HistoryKnown, Gate, Started, NoSwitch, Readings
  <1>6. CASE RecoverFails
    BY <1>a, <1>6 DEF RecoverFails
  <1>7. CASE Restart
    BY <1>a, <1>7 DEF Restart, NoSwitch, Gate
  <1>8. CASE Begin
    BY <1>a, <1>8 DEF Begin
  <1>9. CASE Inspecting
    BY <1>a, <1>9 DEF Inspecting, QueueEmpty
  <1>10. CASE DrainWorkflows
    <2>1. UNCHANGED <<advertised, available, work, req>> /\ switch.phase = "waiting_workflows"
      BY <1>10 DEF DrainWorkflows, At, Outside, NoHost, gateVars
    <2>2. CASE switch'.phase = "closing_gate"
      <3>1. \A w \in Workflows : work[w] # "active"
        BY <1>a, <1>10, <2>2, <2>1 DEF DrainWorkflows, SwitchType, ReportZero, RunningWorkflows
      <3> QED BY <2>1, <2>2, <3>1 DEF Drained, Draining, Stopping, Underway, Leases, Phases
    <2>3. CASE switch'.phase # "closing_gate"
      <3>1. switch'.phase \in {"failed", "waiting_workflows"}
        BY <1>a, <1>10, <2>3, <2>1 DEF DrainWorkflows, SwitchType
      <3> QED BY <2>1, <2>3, <3>1 DEF Drained, Draining, Stopping, Underway, Leases, Phases
    <2> QED BY <2>2, <2>3
  <1>11. CASE CloseGate
    BY <1>a, <1>11 DEF CloseGate
  <1>12. CASE ReadMetrics
    BY <1>a, <1>12 DEF ReadMetrics
  <1>13. CASE ReadLeases
    BY <1>a, <1>13 DEF ReadLeases
  <1>14. CASE StoppingMedia
    BY <1>a, <1>14 DEF StoppingMedia, StopComfy, ComfyDown, NoEffect, NoMedia
  <1>15. CASE StoppingText \/ Skipping \/ StartingComfy
    BY <1>a, <1>15 DEF StoppingText, Command, StopText, NoEffect, Skipping, StartingComfy,
       StartComfy
  <1>16. CASE WaitingComfy \/ Record \/ Activate
    BY <1>a, <1>16 DEF WaitingComfy, Record, Activate
  <1>17. CASE Undo
    BY <1>a, <1>17, UndoFacts
    DEF Drained, Draining, Stopping, Underway, Leases, Phases
  <1>18. CASE CheckingQueue
    BY <1>a, <1>18 DEF CheckingQueue, QueueEmpty, NoQueue, NoMedia
  <1>19. CASE StoppingComfy
    BY <1>a, <1>19 DEF StoppingComfy, Command, StopComfy, ComfyDown, NoEffect, NoQueue, NoMedia
  <1>20. CASE StartingText \/ WaitingText
    BY <1>a, <1>20 DEF StartingText, Command, StartText, NoEffect, WaitingText, Gate
  <1>21. CASE HostRaises \/ SampleRaises
    BY <1>a, <1>21 DEF HostRaises, SampleRaises, Gate, Released, NoSwitch
  <1>22. CASE Failed
    BY <1>a, <1>22 DEF Failed, Sample, Read, HistoryKnown, Readings
  <1>23. CASE Finally
    BY <1>a, <1>23 DEF Finally, Sample, Read, HistoryKnown, Gate, Released, NoSwitch, Readings
  <1>24. CASE (\E m \in MediaModes : PromptEnters(m)) \/ PromptAccepted \/ PromptFails
             \/ LateJob
    BY <1>a, <1>24 DEF PromptEnters, PromptAccepted, Queued, Sent, PromptLeaves, PromptFails, LateJob
  <1>25. CASE TickSamples \/ TickFails
    BY <1>a, <1>25 DEF TickSamples, TickFrame, Sample, Read, HistoryKnown, Readings, TickFails,
       Gate
  <1>26. CASE TickStops
    BY <1>a, <1>26 DEF TickStops, TickFrame, TickLeaves, Submit, Accepts, Started, NoSwitch,
       Switching
  <1>27. CASE TickAdjusts
    BY <1>a, <1>27 DEF TickAdjusts, TickFrame, TickLeaves, Gate, Switching
  <1>28. CASE TickYields
    BY <1>a, <1>28 DEF TickYields, TickFrame, TickLeaves, Switching
  <1> QED BY <1>1, <1>2, <1>3, <1>4, <1>5, <1>6, <1>7, <1>8, <1>9, <1>10, <1>11, <1>12, <1>13,
             <1>14, <1>15, <1>16, <1>17, <1>18, <1>19, <1>20, <1>21, <1>22, <1>23, <1>24, <1>25,
             <1>26, <1>27, <1>28 DEF Next, SwitchStep, TickStep, IntakeStep

\* An expired lease is that of an idle process.
LEMMA LeasedStep ==
  ASSUME IntakeAssumption, SwitchAssumption, TypeOK, Locks, Jobs, Leased, Next
  PROVE  Leased'
  <1>a. /\ switch \in SwitchType /\ prompt \in MediaModes \cup {"none"}
        /\ queue \in Nat /\ MaxQueue \in Nat /\ faults \in Nat /\ memory \in Lease /\ disk \in Lease
        /\ data \in [text : Container, comfy : Container, queue : 0..Unknown]
    BY Typed
  <1> USE DEF Leased, SeesJobs, SeenNow, Jobs, Locks, Outdated, Unknown, Phases, SwitchType,
             SwitchAssumption, Modes, Lease, At, Goto, Outside, NoHost, NoData, Fault, gateVars,
             activityVars, intakeVars, media, lease, threads
  <1>1. CASE IntakeStep
    BY <1>a, <1>1, IntakeFacts
  <1>2. CASE ActivityPublished \/ Clock
    BY <1>a, <1>2 DEF ActivityPublished, Publish, Clock, Ages
  <1>3. CASE JobDone
    BY <1>a, <1>3 DEF JobDone
  <1>4. CASE ComfyLoads
    BY <1>a, <1>4 DEF ComfyLoads
  <1>5. CASE ComfyCrashes
    BY <1>a, <1>5 DEF ComfyCrashes, ComfyDown
  <1>6. CASE IdleTimePasses
    BY <1>a, <1>6 DEF IdleTimePasses
  <1>7. CASE \E to \in Modes : UserSubmits(to)
    BY <1>a, <1>7 DEF UserSubmits, Submit, Accepts, Started, NoSwitch, Switching
  <1>8. CASE Recover
    <2>1. PICK got \in Readings : Sample(got)
      BY <1>8 DEF Recover
    <2>2. UNCHANGED <<comfy, queue, history, recent, late, tick>>
      BY <1>8 DEF Recover, NoHost, media
    <2>3. tick = "off"
      BY <1>a, <1>8 DEF Recover, At, Locks, SwitchType
    <2> QED BY <1>a, <2>1, <2>2, <2>3, Sampled DEF Leased, SeesJobs, SeenNow
  <1>9. CASE RecoverFails
    BY <1>a, <1>9 DEF RecoverFails
  <1>10. CASE Restart
    BY <1>a, <1>10 DEF Restart, NoSwitch, Gate
  <1>11. CASE Begin
    BY <1>a, <1>11 DEF Begin
  <1>12. CASE Inspecting
    BY <1>a, <1>12 DEF Inspecting, QueueEmpty
  <1>13. CASE DrainWorkflows
    BY <1>a, <1>13 DEF DrainWorkflows
  <1>14. CASE CloseGate
    BY <1>a, <1>14 DEF CloseGate
  <1>15. CASE ReadMetrics
    BY <1>a, <1>15 DEF ReadMetrics
  <1>16. CASE ReadLeases
    BY <1>a, <1>16 DEF ReadLeases
  <1>17. CASE StoppingMedia
    BY <1>a, <1>17 DEF StoppingMedia, StopComfy, ComfyDown, NoEffect, NoMedia
  <1>18. CASE StoppingText \/ Skipping \/ StartingComfy
    BY <1>a, <1>18 DEF StoppingText, Command, StopText, NoEffect, Skipping, StartingComfy,
       StartComfy
  <1>19. CASE WaitingComfy
    BY <1>a, <1>19 DEF WaitingComfy
  <1>20. CASE Record
    BY <1>a, <1>20 DEF Record
  <1>21. CASE Activate
    BY <1>a, <1>21 DEF Activate
  <1>22. CASE Undo
    BY <1>a, <1>22 DEF Undo, StopComfy, ComfyDown, NoEffect, QueueEmpty
  <1>23. CASE CheckingQueue
    BY <1>a, <1>23 DEF CheckingQueue, QueueEmpty, NoQueue, NoMedia
  <1>24. CASE StoppingComfy
    BY <1>a, <1>24 DEF StoppingComfy, Command, StopComfy, ComfyDown, NoEffect, NoQueue, NoMedia
  <1>25. CASE StartingText \/ WaitingText
    BY <1>a, <1>25 DEF StartingText, Command, StartText, NoEffect, WaitingText, Gate
  <1>26. CASE HostRaises \/ SampleRaises
    BY <1>a, <1>26 DEF HostRaises, SampleRaises, Gate, Released, NoSwitch
  <1>27. CASE Failed
    <2>1. PICK got \in Readings : Sample(got)
      BY <1>27 DEF Failed
    <2>2. UNCHANGED <<comfy, queue, history, recent, late, tick>>
      BY <1>27 DEF Failed, NoHost, media
    <2>3. tick = "off"
      BY <1>a, <1>27 DEF Failed, At, Locks, SwitchType
    <2> QED BY <1>a, <2>1, <2>2, <2>3, Sampled DEF Leased, SeesJobs, SeenNow
  <1>28. CASE Finally
    <2>1. PICK got \in Readings : Sample(got)
      BY <1>28 DEF Finally
    <2>2. UNCHANGED <<comfy, queue, history, recent, late, tick>>
      BY <1>28 DEF Finally, NoHost, media
    <2>3. tick = "off"
      BY <1>a, <1>28 DEF Finally, At, Locks, SwitchType
    <2> QED BY <1>a, <2>1, <2>2, <2>3, Sampled DEF Leased, SeesJobs, SeenNow
  <1>29. CASE \E m \in MediaModes : PromptEnters(m)
    BY <1>a, <1>29 DEF PromptEnters
  <1>30. CASE PromptAccepted
    BY <1>a, <1>30 DEF PromptAccepted, Queued, Sent, PromptLeaves
  <1>31. CASE PromptFails \/ LateJob
    BY <1>a, <1>31 DEF PromptFails, Queued, Sent, PromptLeaves, LateJob
  <1>32. CASE TickFails
    BY <1>a, <1>32 DEF TickFails, TickFrame, Gate
  <1>33. CASE TickSamples
    <2>1. PICK got \in Readings : Sample(got) /\ tick' = IF HistoryKnown(got) THEN "known" ELSE "unknown"
      BY <1>33 DEF TickSamples
    <2>2. UNCHANGED <<comfy, queue, history, recent, late>>
      BY <1>33 DEF TickSamples, TickFrame, media
    <2>3. data'.queue = 0 => queue = 0
      BY <1>a, <2>1, Sampled DEF Unknown
    <2>4. SeesJobs(memory)' /\ SeesJobs(disk)'
      BY <1>a, <2>1, <2>2, Sampled DEF Leased, SeesJobs, SeenNow
    <2>5. tick' = "known" /\ memory'.idle => ~recent'
      BY <1>a, <2>1, <2>2, Sampled DEF Leased, SeesJobs
    <2> QED BY <2>2, <2>3, <2>4, <2>5 DEF Leased
  <1>34. CASE TickStops
    BY <1>a, <1>34 DEF TickStops, TickFrame, TickLeaves, Submit, Accepts, Started, NoSwitch,
       Switching
  <1>35. CASE TickAdjusts
    BY <1>a, <1>35 DEF TickAdjusts, TickFrame, TickLeaves, Gate, Switching
  <1>36. CASE TickYields
    BY <1>a, <1>36 DEF TickYields, TickFrame, TickLeaves, Switching
  <1> QED BY <1>1, <1>2, <1>3, <1>4, <1>5, <1>6, <1>7, <1>8, <1>9, <1>10, <1>11, <1>12, <1>13,
             <1>14, <1>15, <1>16, <1>17, <1>18, <1>19, <1>20, <1>21, <1>22, <1>23, <1>24, <1>25,
             <1>26, <1>27, <1>28, <1>29, <1>30, <1>31, <1>32, <1>33, <1>34, <1>35, <1>36 DEF Next,
             SwitchStep, TickStep, IntakeStep


\* A new job makes last_history another one; the rest of a lease stays.
LEMMA Ageing ==
  ASSUME NEW l \in Lease
  PROVE  /\ Outdated(l) \in Lease
         /\ Outdated(l).media = l.media /\ Outdated(l).idle = l.idle
  BY DEF Outdated, Lease

\* The process serves the mode of the lease.
LEMMA OneModeStep ==
  ASSUME IntakeAssumption, SwitchAssumption, TypeOK, Locks, Jobs, Fresh, OneMode, Next
  PROVE  OneMode'
  <1>a. /\ switch \in SwitchType /\ prompt \in MediaModes \cup {"none"}
        /\ queue \in Nat /\ MaxQueue \in Nat /\ faults \in Nat /\ memory \in Lease /\ disk \in Lease
        /\ data \in [text : Container, comfy : Container, queue : 0..Unknown]
    BY Typed
  <1> USE DEF OneMode, Jobs, Fresh, Locks, Outdated, Underway, Draining, Stopping, Loading,
             Phases, SwitchType, SwitchAssumption, Modes, Lease, At, Goto, Outside, NoHost,
             NoData, Fault, gateVars, activityVars, intakeVars, media, lease, threads
  <1>1. CASE IntakeStep
    BY <1>a, <1>1, IntakeFacts DEF OneMode
  <1>2. CASE ActivityPublished \/ Clock
    BY <1>a, <1>2 DEF ActivityPublished, Publish, Clock, Ages
  <1>3. CASE JobDone
    BY <1>a, <1>3 DEF JobDone
  <1>4. CASE ComfyLoads
    BY <1>a, <1>4 DEF ComfyLoads
  <1>5. CASE ComfyCrashes
    BY <1>a, <1>5 DEF ComfyCrashes, ComfyDown
  <1>6. CASE IdleTimePasses
    BY <1>a, <1>6 DEF IdleTimePasses
  <1>7. CASE \E to \in Modes : UserSubmits(to)
    BY <1>a, <1>7 DEF UserSubmits, Submit, Accepts, Started, NoSwitch, Switching
  <1>8. CASE Recover
    <2>1. PICK got \in Readings : Sample(got)
      BY <1>8 DEF Recover
    <2>2. UNCHANGED <<comfy, loaded, prompt>>
      BY <1>8 DEF Recover, NoHost, TickFrame, media
    <2>3. switch.phase = "off" /\ switch'.phase # "activate" /\ prompt = "none"
      BY <1>a, <1>8 DEF Recover, At, Goto, Released, NoSwitch, Started, SwitchType, Locks
    <2>4. mode' \in MediaModes => mode' = memory.media
      BY <1>a, <1>8 DEF Recover, OneMode, SwitchAssumption
    <2> QED BY <1>a, <2>1, <2>2, <2>3, <2>4, Sampled DEF OneMode
  <1>9. CASE RecoverFails
    BY <1>a, <1>9 DEF RecoverFails
  <1>10. CASE Restart
    BY <1>a, <1>10 DEF Restart, NoSwitch, Gate
  <1>11. CASE Begin
    BY <1>a, <1>11 DEF Begin
  <1>12. CASE Inspecting
    BY <1>a, <1>12 DEF Inspecting, QueueEmpty
  <1>13. CASE DrainWorkflows
    BY <1>a, <1>13 DEF DrainWorkflows
  <1>14. CASE CloseGate
    BY <1>a, <1>14 DEF CloseGate
  <1>15. CASE ReadMetrics
    BY <1>a, <1>15 DEF ReadMetrics
  <1>16. CASE ReadLeases
    BY <1>a, <1>16 DEF ReadLeases
  <1>17. CASE StoppingMedia
    <2>1. ComfyDown \/ UNCHANGED <<comfy, loaded, memory, disk>>
      BY <1>17 DEF StoppingMedia, StopComfy, NoEffect, NoHost, media, lease
    <2>2. UNCHANGED <<mode, prompt>> /\ (faults' = faults \/ faults' = faults + 1)
      BY <1>17 DEF StoppingMedia, Outside, Fault
    <2>3. switch.phase = "stopping_media" /\ switch'.phase \in {"stopping_text", "undo"}
      BY <1>a, <1>17 DEF StoppingMedia, At, Goto, SwitchType
    <2>4. memory'.media = memory.media /\ disk'.media = disk.media
      BY <1>a, <2>1, Ageing DEF ComfyDown
    <2>5. loaded' \subseteq loaded /\ (comfy = "down" => comfy' = "down")
      BY <2>1 DEF ComfyDown
    <2> QED BY <1>a, <2>2, <2>3, <2>4, <2>5 DEF OneMode
  <1>18. CASE StoppingText \/ Skipping \/ StartingComfy
    BY <1>a, <1>18 DEF StoppingText, Command, StopText, NoEffect, Skipping, StartingComfy,
       StartComfy
  <1>19. CASE WaitingComfy
    BY <1>a, <1>19 DEF WaitingComfy
  <1>20. CASE Record
    BY <1>a, <1>20 DEF Record
  <1>21. CASE Activate
    BY <1>a, <1>21 DEF Activate
  <1>22. CASE Undo
    <2>1. memory'.media = memory.media /\ disk'.media = disk.media
      BY <1>a, <1>22, UndoFacts, Ageing DEF ComfyDown
    <2>2. loaded' \subseteq loaded /\ (comfy = "down" => comfy' = "down")
      BY <1>a, <1>22, UndoFacts DEF ComfyDown
    <2> QED BY <1>a, <1>22, <2>1, <2>2, UndoFacts DEF OneMode
  <1>23. CASE CheckingQueue
    BY <1>a, <1>23 DEF CheckingQueue, QueueEmpty, NoQueue, NoMedia
  <1>24. CASE StoppingComfy
    BY <1>a, <1>24 DEF StoppingComfy, Command, StopComfy, ComfyDown, NoEffect, NoQueue, NoMedia
  <1>25. CASE StartingText \/ WaitingText
    BY <1>a, <1>25 DEF StartingText, Command, StartText, NoEffect, WaitingText, Gate
  <1>26. CASE HostRaises \/ SampleRaises
    BY <1>a, <1>26 DEF HostRaises, SampleRaises, Gate, Released, NoSwitch
  <1>27. CASE Failed
    <2>1. PICK got \in Readings : Sample(got)
      BY <1>27 DEF Failed
    <2>2. UNCHANGED <<comfy, loaded, prompt>>
      BY <1>27 DEF Failed, NoHost, TickFrame, media
    <2>3. switch.phase = "failed" /\ switch'.phase # "activate" /\ prompt = "none"
      BY <1>a, <1>27 DEF Failed, At, Goto, Released, NoSwitch, Started, SwitchType, Locks
    <2>4. mode' \in MediaModes => mode' = memory.media
      BY <1>a, <1>27 DEF Failed, OneMode, SwitchAssumption
    <2> QED BY <1>a, <2>1, <2>2, <2>3, <2>4, Sampled DEF OneMode
  <1>28. CASE Finally
    <2>1. PICK got \in Readings : Sample(got)
      BY <1>28 DEF Finally
    <2>2. UNCHANGED <<comfy, loaded, prompt>>
      BY <1>28 DEF Finally, NoHost, TickFrame, media
    <2>3. switch.phase = "finally" /\ switch'.phase # "activate" /\ prompt = "none"
      BY <1>a, <1>28 DEF Finally, At, Goto, Released, NoSwitch, Started, SwitchType, Locks
    <2>4. mode' \in MediaModes => mode' = memory.media
      BY <1>a, <1>28 DEF Finally, OneMode, SwitchAssumption
    <2> QED BY <1>a, <2>1, <2>2, <2>3, <2>4, Sampled DEF OneMode
  <1>29. CASE \E m \in MediaModes : PromptEnters(m)
    BY <1>a, <1>29 DEF PromptEnters
  <1>30. CASE PromptAccepted
    BY <1>a, <1>30 DEF PromptAccepted, Queued, Sent, PromptLeaves
  <1>31. CASE PromptFails \/ LateJob
    BY <1>a, <1>31 DEF PromptFails, Queued, Sent, PromptLeaves, LateJob
  <1>32. CASE TickFails
    BY <1>a, <1>32 DEF TickFails, TickFrame, Gate
  <1>33. CASE TickSamples
    <2>1. PICK got \in Readings : Sample(got)
      BY <1>33 DEF TickSamples
    <2>2. UNCHANGED <<comfy, loaded, prompt>>
      BY <1>33 DEF TickSamples, NoHost, TickFrame, media
    <2>3. switch' = switch /\ switch.phase \in {"off", "begin"}
      BY <1>a, <1>33 DEF TickSamples, At, Goto, Released, NoSwitch, Started, SwitchType, Locks
    <2>4. mode' \in MediaModes => mode' = memory.media
      BY <1>a, <1>33 DEF TickSamples, OneMode, SwitchAssumption
    <2> QED BY <1>a, <2>1, <2>2, <2>3, <2>4, Sampled DEF OneMode
  <1>34. CASE TickStops
    BY <1>a, <1>34 DEF TickStops, TickFrame, TickLeaves, Submit, Accepts, Started, NoSwitch,
       Switching
  <1>35. CASE TickAdjusts
    BY <1>a, <1>35 DEF TickAdjusts, TickFrame, TickLeaves, Gate, Switching
  <1>36. CASE TickYields
    BY <1>a, <1>36 DEF TickYields, TickFrame, TickLeaves, Switching
  <1> QED BY <1>1, <1>2, <1>3, <1>4, <1>5, <1>6, <1>7, <1>8, <1>9, <1>10, <1>11, <1>12, <1>13,
             <1>14, <1>15, <1>16, <1>17, <1>18, <1>19, <1>20, <1>21, <1>22, <1>23, <1>24, <1>25,
             <1>26, <1>27, <1>28, <1>29, <1>30, <1>31, <1>32, <1>33, <1>34, <1>35, <1>36 DEF Next,
             SwitchStep, TickStep, IntakeStep


\* The worker at rest and the worker just started are values of its type.
LEMMA SwitchValues ==
  ASSUME SwitchAssumption
  PROVE  /\ NoSwitch \in SwitchType
         /\ \A to \in Modes : Started(to) \in SwitchType
  BY DEF NoSwitch, Started, SwitchType, Phases, Modes

\* The worker's variables keep their types.
LEMMA SwitchTyped ==
  ASSUME IntakeAssumption, SwitchAssumption, TypeOK, Next
  PROVE  switch' \in SwitchType
  <1>a. /\ switch \in SwitchType /\ prompt \in MediaModes \cup {"none"}
        /\ queue \in Nat /\ MaxQueue \in Nat /\ faults \in Nat /\ memory \in Lease /\ disk \in Lease
        /\ data \in [text : Container, comfy : Container, queue : 0..Unknown]
    BY Typed
  <1> USE DEF SwitchType, Phases, At, Goto, Outside, NoHost, NoData, Fault, gateVars,
             activityVars, intakeVars, media, lease, threads
  <1>1. CASE IntakeStep
    BY <1>a, <1>1, IntakeFacts
  <1>2. CASE ActivityPublished \/ Clock
    BY <1>a, <1>2 DEF ActivityPublished, Publish, Clock, Ages
  <1>3. CASE JobDone \/ ComfyLoads \/ ComfyCrashes \/ IdleTimePasses
    BY <1>a, <1>3 DEF JobDone, ComfyLoads, ComfyCrashes, ComfyDown, IdleTimePasses
  <1>4. CASE \E to \in Modes : UserSubmits(to)
    BY <1>4, SwitchValues DEF UserSubmits, Submit
  <1>5. CASE Recover
    BY <1>a, <1>5, SwitchValues DEF Recover, Modes
  <1>6. CASE RecoverFails
    BY <1>a, <1>6 DEF RecoverFails
  <1>7. CASE Restart
    BY <1>a, <1>7, SwitchValues DEF Restart
  <1>8. CASE Begin
    BY <1>a, <1>8 DEF Begin
  <1>9. CASE Inspecting
    <2>1. PICK m, f, t \in BOOLEAN, p \in {"failed", "waiting_workflows", "stopping_media"} :
             switch' = [switch EXCEPT !.hadMedia = m, !.fresh = f, !.hadText = t, !.phase = p]
      BY <1>9 DEF Inspecting
    <2> QED BY <1>a, <2>1
  <1>10. CASE DrainWorkflows
    BY <1>a, <1>10 DEF DrainWorkflows
  <1>11. CASE CloseGate
    BY <1>a, <1>11 DEF CloseGate
  <1>12. CASE ReadMetrics
    BY <1>a, <1>12 DEF ReadMetrics
  <1>13. CASE ReadLeases
    BY <1>a, <1>13 DEF ReadLeases
  <1>14. CASE StoppingMedia
    <2>1. switch' = [switch EXCEPT !.phase = "undo"] \/ switch' = [switch EXCEPT !.phase = "stopping_text", !.fresh = TRUE]
      BY <1>14 DEF StoppingMedia
    <2> QED BY <1>a, <2>1
  <1>15. CASE StoppingText \/ Skipping \/ StartingComfy
    BY <1>a, <1>15 DEF StoppingText, Command, StopText, NoEffect, Skipping, StartingComfy,
       StartComfy
  <1>16. CASE WaitingComfy \/ Record \/ Activate
    BY <1>a, <1>16 DEF WaitingComfy, Record, Activate
  <1>17. CASE Undo
    <2>1. \/ switch' = [switch EXCEPT !.phase = "failed"]
          \/ switch' = [switch EXCEPT !.phase = "checking_queue", !.undoing = TRUE]
      BY <1>17 DEF Undo
    <2> QED BY <1>a, <2>1
  <1>18. CASE CheckingQueue
    BY <1>a, <1>18 DEF CheckingQueue, QueueEmpty, NoQueue, NoMedia
  <1>19. CASE StoppingComfy
    BY <1>a, <1>19 DEF StoppingComfy, Command, StopComfy, ComfyDown, NoEffect, NoQueue, NoMedia
  <1>20. CASE StartingText \/ WaitingText
    BY <1>a, <1>20 DEF StartingText, Command, StartText, NoEffect, WaitingText, Gate
  <1>21. CASE HostRaises
    BY <1>a, <1>21 DEF HostRaises
  <1>22. CASE SampleRaises
    BY <1>a, <1>22, SwitchValues DEF SampleRaises, Released
  <1>23. CASE Failed
    BY <1>a, <1>23 DEF Failed
  <1>24. CASE Finally
    BY <1>24, SwitchValues DEF Finally, Released
  <1>25. CASE (\E m \in MediaModes : PromptEnters(m)) \/ PromptAccepted \/ PromptFails
             \/ LateJob
    BY <1>a, <1>25 DEF PromptEnters, PromptAccepted, Queued, Sent, PromptLeaves, PromptFails, LateJob
  <1>26. CASE TickSamples \/ TickFails
    BY <1>a, <1>26 DEF TickSamples, TickFrame, Sample, Read, HistoryKnown, Readings, TickFails,
       Gate
  <1>27. CASE TickStops
    BY <1>a, <1>27, SwitchValues DEF TickStops, Submit, Modes
  <1>28. CASE TickAdjusts
    BY <1>a, <1>28 DEF TickAdjusts, TickFrame, TickLeaves, Gate, Switching
  <1>29. CASE TickYields
    BY <1>a, <1>29 DEF TickYields, TickFrame, TickLeaves, Switching
  <1> QED BY <1>1, <1>2, <1>3, <1>4, <1>5, <1>6, <1>7, <1>8, <1>9, <1>10, <1>11, <1>12, <1>13,
             <1>14, <1>15, <1>16, <1>17, <1>18, <1>19, <1>20, <1>21, <1>22, <1>23, <1>24, <1>25,
             <1>26, <1>27, <1>28, <1>29 DEF Next, SwitchStep, TickStep, IntakeStep


\* Variables whose new values are written out in the steps.
LEMMA PlainTypes ==
  ASSUME TypeOK, Next
  PROVE  /\ text' \in {"down", "up", "ready"}
         /\ available' \in BOOLEAN
         /\ advertised' \in BOOLEAN
         /\ work' \in [Workflows \cup Turns -> {"idle", "checking", "passed", "active"}]
         /\ comfy' \in Container
         /\ loaded' \subseteq MediaModes
         /\ history' \in {"empty", "some"}
         /\ late' \in {"none", "sent", "queued"}
         /\ mode' \in Modes \cup {"starting", "stopping", "error", "recovering"}
         /\ admission' \in {"free", "switch", "tick", "prompt"}
         /\ tick' \in {"off", "known", "unknown"}
         /\ prompt' \in MediaModes \cup {"none"}
  <1> USE DEF Next, Intake, WakesUp, CheckReadiness, TurnPasses, TurnBegins, Ends, Moves, Enter,
             RequestStep, Forward, Answered, Aborted, HangsUp, Request, TextLoads, TextCrashes,
             Collect, CollectFails, ActivityPublished, Publish, Clock, Ages, JobDone, ComfyLoads,
             ComfyCrashes, ComfyDown, IdleTimePasses, UserSubmits, Submit, Recover, RecoverFails,
             Restart, SwitchStep, TickStep, Begin, Inspecting, DrainWorkflows, CloseGate,
             ReadMetrics, ReadLeases, StoppingMedia, StoppingText, Skipping, StartingComfy,
             WaitingComfy, Record, Activate, Undo, CheckingQueue, StoppingComfy, StartingText,
             WaitingText, HostRaises, Failed, Finally, SampleRaises, TickSamples, TickFails,
             TickStops, TickAdjusts, TickYields, TickLeaves, PromptEnters, PromptAccepted,
             PromptFails, Command, StopComfy, StopText, StartComfy, StartText, NoEffect, NoHost,
             NoData, Outside, TickFrame, Queued, Sent, LateJob, PromptLeaves, Released, intakeVars, activityVars,
             gateVars, media, lease, threads
  <1>1. text' \in {"down", "up", "ready"}
    BY DEF TypeOK, IntakeTypeOK
  <1>2. available' \in BOOLEAN
    BY DEF TypeOK, IntakeTypeOK, Gate
  <1>3. advertised' \in BOOLEAN
    BY DEF TypeOK, IntakeTypeOK, Gate
  <1>4. work' \in [Workflows \cup Turns -> {"idle", "checking", "passed", "active"}]
    BY DEF TypeOK, IntakeTypeOK, LlmAvailable
  <1>5. comfy' \in Container
    BY DEF TypeOK, IntakeTypeOK, Container
  <1>6. loaded' \subseteq MediaModes
    BY DEF TypeOK, IntakeTypeOK
  <1>7. history' \in {"empty", "some"}
    BY DEF TypeOK, IntakeTypeOK
  <1>8. mode' \in Modes \cup {"starting", "stopping", "error", "recovering"}
    BY DEF TypeOK, IntakeTypeOK, Modes, Lease
  <1>9. admission' \in {"free", "switch", "tick", "prompt"}
    BY DEF TypeOK, IntakeTypeOK
  <1>10. tick' \in {"off", "known", "unknown"}
    BY DEF TypeOK, IntakeTypeOK
  <1>11. prompt' \in MediaModes \cup {"none"}
    BY DEF TypeOK, IntakeTypeOK
  <1>12. late' \in {"none", "sent", "queued"}
    BY DEF TypeOK, IntakeTypeOK
  <1> QED BY <1>1, <1>2, <1>3, <1>4, <1>5, <1>6, <1>7, <1>8, <1>9, <1>10, <1>11, <1>12


\* What the steps do to the others.
USE DEF Next, Intake, WakesUp, CheckReadiness, TurnPasses, TurnBegins, Ends, Moves, Enter,
        RequestStep, Forward, Answered, Aborted, HangsUp, Request, TextLoads, TextCrashes,
        Collect, CollectFails, ActivityPublished, Publish, Clock, Ages, JobDone, ComfyLoads,
        ComfyCrashes, ComfyDown, IdleTimePasses, UserSubmits, Submit, Recover, RecoverFails,
        Restart, SwitchStep, TickStep, Begin, Inspecting, DrainWorkflows, CloseGate, ReadMetrics,
        ReadLeases, StoppingMedia, StoppingText, Skipping, StartingComfy, WaitingComfy, Record,
        Activate, Undo, CheckingQueue, StoppingComfy, StartingText, WaitingText, HostRaises,
        Failed, Finally, SampleRaises, TickSamples, TickFails, TickStops, TickAdjusts, TickYields,
        TickLeaves, PromptEnters, PromptAccepted, PromptFails, Command, StopComfy, StopText,
        StartComfy, StartText, NoEffect, NoHost, NoData, Outside, TickFrame, Queued, Sent, LateJob, PromptLeaves,
        Released, intakeVars, activityVars, gateVars, media, lease, threads

HIDE DEF Restart

\* How a step may change the requests behind the proxy: one of them moves, the
\* engine drops them all, or the controller restarts.
LEMMA ReqChange ==
  ASSUME Next
  PROVE  \/ req' = req \/ req' = EngineGone \/ Restart
         \/ \E c \in Clients, v \in {"none", "leased", "upstream", "orphan"} : req' = [req EXCEPT ![c] = v]
  OBVIOUS

USE DEF Restart

\* The pause between two drain reports is set or used up.
LEMMA RestChange ==
  ASSUME Next
  PROVE  rest' = rest \/ rest' = 0 \/ rest' = 1
  OBVIOUS

\* Activity reports are collected, lost, published or grow older.
LEMMA PollChange ==
  ASSUME Next
  PROVE  /\ poll' = poll \/ poll' = None \/ poll' = Older(poll) \/ poll' = [busy |-> ActiveTurns # {}, age |-> 0]
         /\ native' = native \/ native' = poll \/ native' = None \/ native' = Older(native)
  OBVIOUS

\* A step meets at most one fault.
LEMMA FaultsChange ==
  ASSUME Next
  PROVE  faults' = faults \/ (faults < MaxFaults /\ faults' = faults + 1)
  BY DEF Fault, Sample, Read

\* The media queue is emptied, or changes by one job within its limit.
LEMMA QueueChange ==
  ASSUME Next
  PROVE  \/ queue' = queue \/ queue' = 0 \/ (queue > 0 /\ queue' = queue - 1)
         \/ (queue < MaxQueue /\ queue' = queue + 1)
  OBVIOUS

\* How the history of recent jobs may change.
LEMMA RecentChange ==
  ASSUME Next
  PROVE  \/ recent' = recent \/ recent' = TRUE \/ recent' = FALSE \/ recent' = (queue > 0)
  OBVIOUS

\* What the last sample may become: a read of the containers, part of one, or
\* one that failed.
LEMMA DataChange ==
  ASSUME Next
  PROVE  \/ data' = data
         \/ data' = [text |-> text, comfy |-> comfy, queue |-> queue]
         \/ data' = [text |-> text, comfy |-> comfy, queue |-> Unknown]
         \/ data' = [text |-> "down", comfy |-> "down", queue |-> Unknown]
         \/ data' = NoMedia \/ data' = NoQueue
         \/ data' = [data EXCEPT !.comfy = comfy]
         \/ data' = [data EXCEPT !.text = text]
         \/ data' = [data EXCEPT !.text = "down"]
  BY DEF Sample

\* The idle lease in memory: reloaded, outdated, renewed, or rewritten by the
\* worker that records its new mode.
LEMMA MemoryChange ==
  ASSUME Next
  PROVE  \/ memory' = memory \/ memory' = disk \/ memory' = Outdated(memory)
         \/ memory' = [memory EXCEPT !.idle = TRUE] \/ memory' = [memory EXCEPT !.idle = FALSE]
         \/ memory' = [memory EXCEPT !.idle = FALSE, !.seen = SeenNow]
         \/ (At("record") /\ memory' = [media |-> switch.to, idle |-> FALSE, seen |-> SeenNow])
  BY DEF Sample

\* The idle lease on disk: saved from memory, outdated, or marked idle.
LEMMA DiskChange ==
  ASSUME Next
  PROVE  \/ disk' = disk \/ disk' = memory \/ disk' = memory' \/ disk' = Outdated(disk)
         \/ disk' = [disk EXCEPT !.idle = TRUE]
  BY DEF Sample

HIDE DEF Next, Intake, WakesUp, CheckReadiness, TurnPasses, TurnBegins, Ends, Moves, Enter,
         RequestStep, Forward, Answered, Aborted, HangsUp, Request, TextLoads, TextCrashes,
         Collect, CollectFails, ActivityPublished, Publish, Clock, Ages, JobDone, ComfyLoads,
         ComfyCrashes, ComfyDown, IdleTimePasses, UserSubmits, Submit, Recover, RecoverFails,
         Restart, SwitchStep, TickStep, Begin, Inspecting, DrainWorkflows, CloseGate, ReadMetrics,
         ReadLeases, StoppingMedia, StoppingText, Skipping, StartingComfy, WaitingComfy, Record,
         Activate, Undo, CheckingQueue, StoppingComfy, StartingText, WaitingText, HostRaises,
         Failed, Finally, SampleRaises, TickSamples, TickFails, TickStops, TickAdjusts,
         TickYields, TickLeaves, PromptEnters, PromptAccepted, PromptFails, Command, StopComfy,
         StopText, StartComfy, StartText, NoEffect, NoHost, NoData, Outside, TickFrame, Queued,
         Sent, LateJob, PromptLeaves, Released, intakeVars, activityVars, gateVars, media, lease, threads

\* The worker's goal decides its way.
LEMMA AimedStep ==
  ASSUME IntakeAssumption, SwitchAssumption, TypeOK, Aimed, Next
  PROVE  Aimed'
  <1>a. /\ switch \in SwitchType /\ prompt \in MediaModes \cup {"none"}
        /\ queue \in Nat /\ MaxQueue \in Nat /\ faults \in Nat /\ memory \in Lease /\ disk \in Lease
        /\ data \in [text : Container, comfy : Container, queue : 0..Unknown]
    BY Typed
  <1> USE DEF Aimed, Draining, Stopping, Loading, Phases, SwitchType, SwitchAssumption, Modes,
             Lease, At, Goto, Outside, NoHost, NoData, Fault, gateVars, activityVars, intakeVars,
             media, lease, threads
  <1>1. CASE IntakeStep
    BY <1>a, <1>1, IntakeFacts
  <1>2. CASE ActivityPublished \/ Clock
    BY <1>a, <1>2 DEF ActivityPublished, Publish, Clock, Ages
  <1>3. CASE JobDone \/ ComfyLoads \/ ComfyCrashes \/ IdleTimePasses
    BY <1>a, <1>3 DEF JobDone, ComfyLoads, ComfyCrashes, ComfyDown, IdleTimePasses
  <1>4. CASE \E to \in Modes : UserSubmits(to)
    BY <1>a, <1>4 DEF UserSubmits, Submit, Accepts, Started, NoSwitch, Switching
  <1>5. CASE Recover
    BY <1>a, <1>5 DEF Recover, Sample, Read, HistoryKnown, Gate, Started, NoSwitch, Readings
  <1>6. CASE RecoverFails
    BY <1>a, <1>6 DEF RecoverFails
  <1>7. CASE Restart
    BY <1>a, <1>7 DEF Restart, NoSwitch, Gate
  <1>8. CASE Inspecting
    BY <1>a, <1>8 DEF Inspecting, QueueEmpty
  <1>9. CASE Begin
    BY <1>a, <1>9 DEF Begin
  <1>10. CASE DrainWorkflows
    BY <1>a, <1>10 DEF DrainWorkflows
  <1>11. CASE CloseGate
    BY <1>a, <1>11 DEF CloseGate
  <1>12. CASE ReadMetrics
    BY <1>a, <1>12 DEF ReadMetrics
  <1>13. CASE ReadLeases
    BY <1>a, <1>13 DEF ReadLeases
  <1>14. CASE StoppingMedia
    BY <1>a, <1>14 DEF StoppingMedia, StopComfy, ComfyDown, NoEffect, NoMedia
  <1>15. CASE StoppingText \/ Skipping \/ StartingComfy
    BY <1>a, <1>15 DEF StoppingText, Command, StopText, NoEffect, Skipping, StartingComfy,
       StartComfy
  <1>16. CASE WaitingComfy \/ Record \/ Activate
    BY <1>a, <1>16 DEF WaitingComfy, Record, Activate
  <1>17. CASE Undo
    BY <1>a, <1>17, UndoFacts
  <1>18. CASE CheckingQueue
    BY <1>a, <1>18 DEF CheckingQueue, QueueEmpty, NoQueue, NoMedia
  <1>19. CASE StoppingComfy
    BY <1>a, <1>19 DEF StoppingComfy, Command, StopComfy, ComfyDown, NoEffect, NoQueue, NoMedia
  <1>20. CASE StartingText \/ WaitingText
    BY <1>a, <1>20 DEF StartingText, Command, StartText, NoEffect, WaitingText, Gate
  <1>21. CASE HostRaises
    BY <1>a, <1>21 DEF HostRaises
  <1>22. CASE SampleRaises
    BY <1>a, <1>22 DEF SampleRaises, Gate, Released, NoSwitch
  <1>23. CASE Failed
    BY <1>a, <1>23 DEF Failed, Sample, Read, HistoryKnown, Readings
  <1>24. CASE Finally
    BY <1>a, <1>24 DEF Finally, Sample, Read, HistoryKnown, Gate, Released, NoSwitch, Readings
  <1>25. CASE (\E m \in MediaModes : PromptEnters(m)) \/ PromptAccepted \/ PromptFails
             \/ LateJob
    BY <1>a, <1>25 DEF PromptEnters, PromptAccepted, Queued, Sent, PromptLeaves, PromptFails, LateJob
  <1>26. CASE TickSamples \/ TickFails
    BY <1>a, <1>26 DEF TickSamples, TickFrame, Sample, Read, HistoryKnown, Readings, TickFails,
       Gate
  <1>27. CASE TickStops
    BY <1>a, <1>27 DEF TickStops, TickFrame, TickLeaves, Submit, Accepts, Started, NoSwitch,
       Switching
  <1>28. CASE TickAdjusts
    BY <1>a, <1>28 DEF TickAdjusts, TickFrame, TickLeaves, Gate, Switching
  <1>29. CASE TickYields
    BY <1>a, <1>29 DEF TickYields, TickFrame, TickLeaves, Switching
  <1> QED BY <1>1, <1>2, <1>3, <1>4, <1>5, <1>6, <1>7, <1>8, <1>9, <1>10, <1>11, <1>12, <1>13,
             <1>14, <1>15, <1>16, <1>17, <1>18, <1>19, <1>20, <1>21, <1>22, <1>23, <1>24, <1>25,
             <1>26, <1>27, <1>28, <1>29 DEF Next, SwitchStep, TickStep, IntakeStep


\* The type invariant is preserved.
LEMMA TypeStep ==
  ASSUME IntakeAssumption, SwitchAssumption, TypeOK, Aimed, Next
  PROVE  TypeOK'
  <1>1. /\ queue \in 0..MaxQueue /\ MaxQueue \in Nat /\ faults \in 0..MaxFaults /\ MaxFaults \in Nat
        /\ memory \in Lease /\ disk \in Lease /\ poll \in Reports /\ native \in Reports /\ rest \in 0..1
        /\ recent \in BOOLEAN /\ text \in Container /\ comfy \in Container
        /\ data \in [text : Container, comfy : Container, queue : 0..Unknown]
        /\ req \in [Clients -> {"none", "leased", "upstream", "orphan"}]
    BY DEF TypeOK, IntakeTypeOK, IntakeAssumption, SwitchAssumption, Container
  <1>2. /\ None \in Reports /\ [busy |-> ActiveTurns # {}, age |-> 0] \in Reports
        /\ \A r \in Reports : Older(r) \in Reports
    <2>1. None \in Reports /\ \A b \in BOOLEAN : [busy |-> b, age |-> 0] \in Reports
      BY DEF Reports, None, MaxAge
    <2>2. (ActiveTurns # {}) \in BOOLEAN
      OBVIOUS
    <2>3. ASSUME NEW r \in Reports PROVE Older(r) \in Reports
      BY DEF Older, Reports, MaxAge
    <2> QED BY <2>1, <2>2, <2>3
  <1>3. /\ \A x \in Lease : Outdated(x) \in Lease
        /\ \A x \in Lease, b \in BOOLEAN : [x EXCEPT !.idle = b] \in Lease
        /\ \A x \in Lease : [x EXCEPT !.idle = FALSE, !.seen = SeenNow] \in Lease
        /\ \A m \in MediaModes : [media |-> m, idle |-> FALSE, seen |-> SeenNow] \in Lease
    BY Ageing DEF Lease, SeenNow
  <1>4. req' \in [Clients -> {"none", "leased", "upstream", "orphan"}]
    BY <1>1, ReqChange DEF EngineGone, Restart
  <1>5. rest' \in 0..1
    BY <1>1, RestChange
  <1>6. poll' \in Reports /\ native' \in Reports
    BY <1>1, <1>2, PollChange
  <1>7. faults' \in 0..MaxFaults
    BY <1>1, FaultsChange
  <1>8. queue' \in 0..MaxQueue
    BY <1>1, QueueChange
  <1>9. recent' \in BOOLEAN
    <2>1. (queue > 0) \in BOOLEAN
      BY <1>1
    <2> QED BY <1>1, <2>1, RecentChange
  <1>10. data' \in [text : Container, comfy : Container, queue : 0..Unknown]
    <2>1. Unknown \in 0..Unknown /\ queue \in 0..Unknown /\ "down" \in Container
      BY <1>1 DEF Unknown, Container
    <2> DEFINE D == [text : Container, comfy : Container, queue : 0..Unknown]
    <2>2. \A t, c \in Container, q \in 0..Unknown : [text |-> t, comfy |-> c, queue |-> q] \in D
      OBVIOUS
    <2>3. \A d \in D, c \in Container : [d EXCEPT !.text = c] \in D /\ [d EXCEPT !.comfy = c] \in D
      OBVIOUS
    <2>4. NoMedia \in D /\ NoQueue \in D
      BY <1>1, <2>1 DEF NoMedia, NoQueue
    <2>5. data \in D
      BY <1>1
    <2> HIDE DEF D
    <2>6. data' \in D
      BY <1>1, <2>1, <2>2, <2>3, <2>4, <2>5, DataChange
    <2> QED BY <2>6 DEF D
  <1>11. memory' \in Lease
    BY <1>1, <1>3, MemoryChange DEF Aimed, At, Loading
  <1>12. disk' \in Lease
    BY <1>1, <1>3, <1>11, DiskChange
  <1>13. switch' \in SwitchType
    BY SwitchTyped
  <1> QED BY <1>1, <1>2, <1>3, <1>4, <1>5, <1>6, <1>7, <1>8, <1>9, <1>10, <1>11, <1>12, <1>13,
             PlainTypes DEF TypeOK, IntakeTypeOK, SwitchType


-----------------------------------------------------------------------------
(* The invariant holds.                                                    *)

\* The controller starts in the invariant.
LEMMA InitInv ==
  ASSUME IntakeAssumption, SwitchAssumption, Init
  PROVE  SwitchInv
  <1>1. TypeOK
    <2>1. /\ text \in Container /\ comfy \in Container /\ None \in Reports
          /\ data \in [text : Container, comfy : Container, queue : 0..Unknown]
      BY DEF Init, Container, None, Reports, MaxAge, SwitchAssumption, Unknown
    <2>2. IntakeTypeOK
      <3>1. work \in [Workflows \cup Turns -> {"idle", "checking", "passed", "active"}]
        BY DEF Init
      <3>2. req \in [Clients -> {"none", "leased", "upstream", "orphan"}]
        BY DEF Init
      <3>3. faults \in 0..MaxFaults /\ rest \in 0..1
        BY DEF Init, IntakeAssumption
      <3> QED BY <2>1, <3>1, <3>2, <3>3 DEF Init, IntakeTypeOK
    <2>3. memory \in Lease /\ disk \in Lease
      <3>1. PICK m \in MediaModes : memory = [media |-> m, idle |-> FALSE, seen |-> "other"]
        BY DEF Init
      <3> QED BY <3>1 DEF Init, Lease
    <2>4. switch \in SwitchType
      BY SwitchValues DEF Init
    <2>5. queue \in 0..MaxQueue /\ prompt \in MediaModes \cup {"none"} /\ loaded \subseteq MediaModes
      BY DEF Init, SwitchAssumption
    <2> QED BY <2>1, <2>2, <2>3, <2>4, <2>5 DEF TypeOK, SwitchType, Init
  <1>2. Aimed /\ Locks
    BY DEF Init, Aimed, Locks, NoSwitch, Underway, Phases, Draining, Stopping, Loading
  <1>3. Jobs /\ Alone /\ Fresh
    BY DEF Init, Jobs, Alone, Fresh, NoSwitch, QueueSeen, Draining, Stopping, Loading
  <1>4. Drained
    BY DEF Init, Drained, NoSwitch, Underway, Phases, Draining, Stopping
  <1>5. Leased
    BY DEF Init, Leased, SeesJobs
  <1>6. OneMode
    BY DEF Init, OneMode, NoSwitch, SwitchAssumption
  <1> QED BY <1>1, <1>2, <1>3, <1>4, <1>5, <1>6 DEF SwitchInv

\* Every step keeps the invariant, one lemma for each of its parts.
LEMMA StepInv ==
  ASSUME IntakeAssumption, SwitchAssumption, SwitchInv, [Next]_vars
  PROVE  SwitchInv'
  <1>1. CASE Next
    BY <1>1, TypeStep, AimedStep, LocksStep, JobsStep, AloneStep, FreshStep, DrainedStep, LeasedStep,
       OneModeStep DEF SwitchInv
  <1>2. CASE UNCHANGED vars
    <2> USE <1>2 DEF vars, intakeVars, media, lease, threads
    <2>1. TypeOK' /\ Aimed' /\ Locks'
      BY DEF SwitchInv, TypeOK, IntakeTypeOK, Aimed, Locks
    <2>2. Jobs' /\ Alone' /\ Fresh'
      BY DEF SwitchInv, Jobs, Alone, Fresh
    <2>3. Drained' /\ OneMode'
      BY DEF SwitchInv, Drained, OneMode, Leases
    <2>4. Leased'
      BY DEF SwitchInv, Leased, SeesJobs, SeenNow
    <2> QED BY <2>1, <2>2, <2>3, <2>4 DEF SwitchInv
  <1> QED BY <1>1, <1>2

\* The parts hold together in every reachable state.
THEOREM Invariance == Spec => []SwitchInv
  BY InitInv, StepInv, IntakeAssumption, SwitchAssumption, PTL DEF Spec


-----------------------------------------------------------------------------
(* The properties.                                                         *)

\* Which steps start and stop a container.
USE DEF Next, Intake, WakesUp, CheckReadiness, TurnPasses, TurnBegins, Ends, Moves, Enter,
        RequestStep, Forward, Answered, Aborted, HangsUp, Request, TextLoads, TextCrashes,
        Collect, CollectFails, ActivityPublished, Publish, Clock, Ages, JobDone, ComfyLoads,
        ComfyCrashes, ComfyDown, IdleTimePasses, UserSubmits, Submit, Recover, RecoverFails,
        Restart, SwitchStep, TickStep, Begin, Inspecting, DrainWorkflows, CloseGate, ReadMetrics,
        ReadLeases, StoppingMedia, StoppingText, Skipping, StartingComfy, WaitingComfy, Record,
        Activate, Undo, CheckingQueue, StoppingComfy, StartingText, WaitingText, HostRaises,
        Failed, Finally, SampleRaises, TickSamples, TickFails, TickStops, TickAdjusts, TickYields,
        TickLeaves, PromptEnters, PromptAccepted, PromptFails, Command, StopComfy, StopText,
        StartComfy, StartText, NoEffect, NoHost, NoData, Outside, TickFrame, Queued, Sent, LateJob, PromptLeaves,
        Released, intakeVars, activityVars, gateVars, media, lease, threads

\* Only the worker's own step starts the text engine, and touches nothing else.
LEMMA TextStarts ==
  ASSUME Next, text = "down", text' # "down"
  PROVE  switch.phase = "starting_text" /\ UNCHANGED comfy
  BY DEF At

\* Only the worker's own step starts ComfyUI, and touches nothing else.
LEMMA ComfyStarts ==
  ASSUME Next, comfy = "down", comfy' # "down"
  PROVE  switch.phase = "starting_comfyui" /\ UNCHANGED text
  BY DEF At

\* A worker that moves on stopped ComfyUI in one of three phases.
LEMMA ComfyStops ==
  ASSUME Next, comfy # "down", comfy' = "down", switch' # switch
  PROVE  switch.phase \in {"stopping_media", "undo", "stopping_comfyui"}
  BY DEF At

\* The text engine stops only in the phase meant for it.
LEMMA TextStops ==
  ASSUME Next, text # "down", text' = "down"
  PROVE  switch.phase = "stopping_text" /\ switch.hadText
  BY DEF At

HIDE DEF Next, Intake, WakesUp, CheckReadiness, TurnPasses, TurnBegins, Ends, Moves, Enter,
         RequestStep, Forward, Answered, Aborted, HangsUp, Request, TextLoads, TextCrashes,
         Collect, CollectFails, ActivityPublished, Publish, Clock, Ages, JobDone, ComfyLoads,
         ComfyCrashes, ComfyDown, IdleTimePasses, UserSubmits, Submit, Recover, RecoverFails,
         Restart, SwitchStep, TickStep, Begin, Inspecting, DrainWorkflows, CloseGate, ReadMetrics,
         ReadLeases, StoppingMedia, StoppingText, Skipping, StartingComfy, WaitingComfy, Record,
         Activate, Undo, CheckingQueue, StoppingComfy, StartingText, WaitingText, HostRaises,
         Failed, Finally, SampleRaises, TickSamples, TickFails, TickStops, TickAdjusts,
         TickYields, TickLeaves, PromptEnters, PromptAccepted, PromptFails, Command, StopComfy,
         StopText, StartComfy, StartText, NoEffect, NoHost, NoData, Outside, TickFrame, Queued,
         Sent, LateJob, PromptLeaves, Released, intakeVars, activityVars, gateVars, media, lease, threads

\* The controller's variables, those of its threads and the intake's keep
\* their types; a lease always names a media mode (controller.json).
THEOREM TypeCorrect == Spec => []TypeOK
  <1>1. SwitchInv => TypeOK
    BY DEF SwitchInv
  <1> QED BY <1>1, Invariance, PTL

\* to_text and to_media never start a container beside the other one,
\* whatever crashed, was asked for or failed before.
THEOREM OneModel == Spec => ExclusiveStart
  <1>1. ASSUME SwitchInv, [Next]_vars
        PROVE  [ /\ text = "down" /\ text' # "down" => comfy' = "down"
                 /\ comfy = "down" /\ comfy' # "down" => text' = "down" ]_vars
    <2>1. CASE Next
      BY <1>1, <2>1, TextStarts, ComfyStarts DEF SwitchInv, Alone
    <2>2. CASE UNCHANGED vars
      BY <2>2
    <2> QED BY <1>1, <2>1, <2>2
  <1> QED BY <1>1, Invariance, PTL DEF Spec, ExclusiveStart

\* The worker's look at the queue, in to_text, to_media and in rollback, still
\* holds when it stops ComfyUI: `admission` keeps prompts out in between, but
\* those whose client has given up.
THEOREM NoJobIsKilled == Spec => NoJobKilled
  <1>1. ASSUME SwitchInv, [Next]_vars
        PROVE  [ comfy # "down" /\ comfy' = "down" /\ switch' # switch =>
                 queue = 0 \/ late = "queued" ]_vars
    <2>1. CASE Next
      BY <1>1, <2>1, ComfyStops DEF SwitchInv, Jobs, QueueSeen, Stopping
    <2>2. CASE UNCHANGED vars
      BY <2>2
    <2> QED BY <1>1, <2>1, <2>2
  <1> QED BY <1>1, Invariance, PTL DEF Spec, NoJobKilled

\* When to_media stops text, drain_workflows and drain_text have seen to it
\* that no admitted workflow and no leased request is left.
THEOREM TextStopsDrained == Spec => DrainedBeforeStop
  <1>1. ASSUME SwitchInv, [Next]_vars
        PROVE  [ text # "down" /\ text' = "down" =>
                 Leases = {} /\ \A w \in Workflows : work[w] # "active" ]_vars
    <2>1. CASE Next
      BY <1>1, <2>1, TextStops DEF SwitchInv, Drained, Stopping
    <2>2. CASE UNCHANGED vars
      <3>1. text' = text
        BY <2>2 DEF vars, intakeVars
      <3> QED BY <3>1
    <2> QED BY <1>1, <2>1, <2>2
  <1> QED BY <1>1, Invariance, PTL DEF Spec, DrainedBeforeStop

\* tick ends a media session only when no job ran for IDLE_TIMEOUT: the lease
\* notices a job even if it came and went between two samples, unless its
\* client had given up on it.
THEOREM IdleStops == Spec => IdleStopIsIdle
  <1>1. ASSUME SwitchInv, [Next]_vars
        PROVE  [TickStops /\ IdleStop => ~recent \/ late = "queued"]_vars
    BY <1>1 DEF SwitchInv, Leased, IdleStop
  <1> QED BY <1>1, Invariance, PTL DEF Spec, IdleStopIsIdle

\* Up to three failures no process is used for two media modes.  A fourth can
\* break this: the mode in memory and the one of controller.json part when a
\* write fails in to_media, and a restart then takes the older one.
THEOREM OneModeUpToThree == Spec => [](faults <= 3 => OneModePerProcess)
  <1>1. SwitchInv => (faults <= 3 => OneModePerProcess)
    BY DEF SwitchInv, OneMode, OneModePerProcess
  <1> QED BY <1>1, Invariance, PTL
=============================================================================

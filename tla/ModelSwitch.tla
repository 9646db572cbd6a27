------------------------------ MODULE ModelSwitch -----------------------------
(***************************************************************************)
(* The lifecycle controller of scripts/comfyui_lifecycle.py: one GPU that  *)
(* serves text, image or video.  Its threads are the switch worker, the    *)
(* monitor (`tick`), prompts and requests to switch; they share the        *)
(* `admission` lock, the `guard` lock and two containers.                  *)
(*                                                                         *)
(* A block under `guard` is one step, and so is one call to the host.      *)
(* `admission` is a variable: it is held over many steps.  The switch      *)
(* worker's steps are named after the progress phases of the code.         *)
(***************************************************************************)
EXTENDS TextIntake

CONSTANTS MediaModes,   \* image and video
          MaxQueue      \* bound on jobs in ComfyUI's queue

ASSUME SwitchAssumption ==
    /\ MaxQueue \in Nat
    /\ MediaModes \cap {"text", "starting", "stopping", "error", "recovering", "none"} = {}

Modes == MediaModes \cup {"text"}
Unknown == MaxQueue + 1

VARIABLES
    comfy,      \* the ComfyUI container: down, up or ready
    queue,      \* jobs in its queue, running or pending
    loaded,     \* modes of the jobs this process of it was sent
    history,    \* the history of that process: empty or some
    recent,     \* it had a job within the last IDLE_TIMEOUT
    late,       \* a job whose client gave up: it may be on its way, or queued
    mode,       \* data['mode']
    data,       \* what the last sample saw: containers and queue
    memory,     \* the idle lease and the media mode, in memory
    disk,       \* and in controller.json
    admission,  \* the holder of the admission lock
    switch,     \* the switch worker: step and local variables
    tick,       \* the monitor: step and whether the history is known
    prompt      \* the mode of the prompt that is being submitted

media == <<comfy, queue, loaded, history, recent, late>>
lease == <<memory, disk>>
threads == <<admission, switch, tick, prompt>>
vars == <<intakeVars, media, lease, mode, data, threads>>

Container == {"down", "up", "ready"}
Phases == {"off", "begin", "inspecting", "waiting_workflows", "closing_gate",
           "draining_text", "leases", "stopping_media", "stopping_text", "starting_comfyui", "waiting_comfyui",
           "record", "activate", "undo", "checking_queue", "stopping_comfyui",
           "starting_text", "waiting_text", "failed", "finally"}

\* media: the mode to resume; idle: IDLE_TIMEOUT passed since last_activity;
\* seen: last_history is that of an empty history, the present one or another.
Lease == [media : MediaModes, idle : BOOLEAN, seen : {"empty", "present", "other"}]
Outdated(l) == IF l.seen = "present" THEN [l EXCEPT !.seen = "other"] ELSE l
SeenNow == IF history = "empty" THEN "empty" ELSE "present"

TypeOK ==
    /\ IntakeTypeOK
    /\ comfy \in Container /\ queue \in 0..MaxQueue
    /\ loaded \subseteq MediaModes /\ history \in {"empty", "some"} /\ recent \in BOOLEAN
    /\ late \in {"none", "sent", "queued"}
    /\ mode \in Modes \cup {"starting", "stopping", "error", "recovering"}
    /\ data \in [text : Container, comfy : Container, queue : 0..Unknown]
    /\ memory \in Lease /\ disk \in Lease
    /\ admission \in {"free", "switch", "tick", "prompt"}
    /\ switch \in [phase : Phases, to : Modes, hadMedia : BOOLEAN, hadText : BOOLEAN,
                   fresh : BOOLEAN, undoing : BOOLEAN, zero : BOOLEAN, later : BOOLEAN,
                   renewed : BOOLEAN, starting : BOOLEAN]
    /\ tick \in {"off", "known", "unknown"}
    /\ prompt \in MediaModes \cup {"none"}

NoSwitch == [phase |-> "off", to |-> "text", hadMedia |-> FALSE, hadText |-> FALSE,
             fresh |-> FALSE, undoing |-> FALSE, zero |-> FALSE, later |-> FALSE,
             renewed |-> FALSE, starting |-> FALSE]

Started(to) == [NoSwitch EXCEPT !.phase = "begin", !.to = to]
Switching == mode \in {"starting", "stopping"} \/ switch.phase # "off"

\* zero, later, renewed: a report said zero, five seconds passed since, and a
\* newer one was collected; hadMedia to undoing are the code's local variables.
At(phase) == switch.phase = phase
Goto(phase) == switch' = [switch EXCEPT !.phase = phase]

Init ==
    /\ text \in {"ready", "down"} /\ comfy \in {"ready", "down"}
    /\ available = FALSE /\ advertised = FALSE
    /\ work = [c \in Workflows \cup Turns |-> "idle"]
    /\ req = [c \in Clients |-> "none"]
    /\ poll = None /\ native = None /\ rest = 1
    /\ faults = 0
    /\ queue = 0 /\ loaded = {} /\ history = "empty" /\ recent = FALSE
    /\ late = "none"
    /\ mode = "recovering"
    /\ data = [text |-> "down", comfy |-> "down", queue |-> Unknown]
    /\ memory \in {[media |-> m, idle |-> FALSE, seen |-> "other"] : m \in MediaModes}
    /\ disk = memory
    /\ admission = "free" /\ switch = NoSwitch /\ tick = "off" /\ prompt = "none"
-----------------------------------------------------------------------------
(* The surroundings: jobs, the ComfyUI container and the clock.            *)

\* What the intake does leaves the controller alone.
Intake(A) == A /\ UNCHANGED <<media, lease, mode, data, threads>>

\* A job completes: it leaves the queue and is in the history.
JobDone ==
    /\ comfy = "ready" /\ queue > 0
    /\ queue' = queue - 1
    /\ history' = "some" /\ recent' = TRUE
    /\ memory' = Outdated(memory) /\ disk' = Outdated(disk)
    /\ UNCHANGED <<intakeVars, comfy, loaded, late, mode, data, threads>>

ComfyLoads ==
    /\ comfy = "up"
    /\ comfy' = "ready"
    /\ UNCHANGED <<intakeVars, queue, loaded, history, recent, late, lease, mode, data, threads>>

\* A stopped or dead process has no queue and no history and has loaded nothing.
ComfyDown ==
    /\ comfy' = "down" /\ queue' = 0 /\ loaded' = {}
    /\ history' = "empty" /\ recent' = FALSE /\ late' = "none"
    /\ memory' = Outdated(memory) /\ disk' = Outdated(disk)

\* Restart policy no.
ComfyCrashes ==
    /\ comfy # "down"
    /\ Fault
    /\ ComfyDown
    /\ UNCHANGED <<text, gateVars, work, req, activityVars, mode, data, threads>>

\* Half an hour passes since last_activity.
IdleTimePasses ==
    /\ ~memory.idle \/ recent
    /\ memory' = [memory EXCEPT !.idle = TRUE]
    /\ disk' = [disk EXCEPT !.idle = TRUE]
    /\ recent' = (queue > 0)
    /\ UNCHANGED <<intakeVars, comfy, queue, loaded, history, late, mode, data, threads>>

\* Five seconds pass: longer than a turn takes from its readiness check, which
\* is cut off after four, to its beginning.
Clock ==
    /\ \A t \in Turns : work[t] # "passed"
    /\ Ages
    /\ switch' = [switch EXCEPT !.later = switch.zero]
    /\ UNCHANGED <<text, gateVars, work, req, faults, media, lease, mode, data,
                   admission, tick, prompt>>

\* A collection ends: the next report is newer than the ones before.
ActivityPublished ==
    /\ Publish
    /\ switch' = [switch EXCEPT !.renewed = switch.zero]
    /\ UNCHANGED <<media, lease, mode, data, admission, tick, prompt>>
-----------------------------------------------------------------------------
(* Requests to switch.                                                     *)

\* submit, under guard.  It trusts the last sample; the worker looks again.
Accepts(to) ==
    /\ ~Switching
    /\ ~(to \in MediaModes /\ mode = to /\ data.comfy = "ready")
    /\ data.comfy # "down" => data.queue = 0

\* Faulty variant: the advertisement stays up until the gate closes.
SubmitStillAdvertises(to) ==
    /\ Accepts(to)
    /\ available' = (available /\ to # "text")
    /\ mode' = IF to = "text" THEN "stopping" ELSE "starting"
    /\ switch' = Started(to)
    /\ UNCHANGED advertised

Submit(to) ==
    /\ Accepts(to)
    /\ advertised' = FALSE
    /\ available' = (available /\ to # "text")
    /\ mode' = IF to = "text" THEN "stopping" ELSE "starting"
    /\ switch' = Started(to)

UserSubmits(to) ==
    /\ mode # "recovering"
    /\ Submit(to)
    /\ UNCHANGED <<text, work, req, activityVars, faults, media, lease, data,
                   admission, tick, prompt>>
-----------------------------------------------------------------------------
(* Samples.  A sample reads both containers, the queue and the history; it *)
(* may raise, or fail to read the last two.                                *)

Readings == {"all", "queue", "nothing"}
Read(got) == IF got = "all" THEN UNCHANGED faults ELSE comfy = "ready" /\ Fault

HistoryKnown(got) == comfy = "ready" /\ got = "all"

\* Faulty variant: only the queue counts as activity.
SampleIgnoresHistory(got) ==
    /\ Read(got)
    /\ data' = [text |-> text, comfy |-> comfy,
                queue |-> IF comfy = "ready" /\ got # "nothing" THEN queue ELSE Unknown]
    /\ IF HistoryKnown(got) /\ queue > 0
       THEN memory' = [memory EXCEPT !.idle = FALSE, !.seen = SeenNow] /\ disk' = memory'
       ELSE UNCHANGED lease

Sample(got) ==
    /\ Read(got)
    /\ data' = [text |-> text, comfy |-> comfy,
                queue |-> IF comfy = "ready" /\ got # "nothing" THEN queue ELSE Unknown]
    /\ IF HistoryKnown(got) /\ (queue > 0 \/ memory.seen # SeenNow)
       THEN /\ memory' = [memory EXCEPT !.idle = FALSE, !.seen = SeenNow]
            /\ disk' = memory'
       ELSE UNCHANGED lease

Gate(open) == available' = open /\ advertised' = open
-----------------------------------------------------------------------------
(* Start and restart of the controller.                                    *)

Recover ==
    /\ mode = "recovering"
    /\ \E got \in Readings : Sample(got)
    /\ Gate(comfy = "down" /\ text = "ready")
    /\ mode' = CASE text # "down" /\ comfy # "down" -> "error"
                 [] text = "down" /\ comfy # "down" -> memory.media
                 [] text = "ready" /\ comfy = "down" -> "text"
                 [] OTHER -> "stopping"
    /\ switch' = IF comfy = "down" /\ text # "ready" THEN Started("text") ELSE switch
    /\ UNCHANGED <<text, work, req, activityVars, media, admission, tick, prompt>>

RecoverFails ==
    /\ mode = "recovering"
    /\ Fault
    /\ mode' = "error"
    /\ UNCHANGED <<text, gateVars, work, req, activityVars, media, lease, data, threads>>

\* systemd restarts the process.  The proxy's clients lose their connections.
Restart ==
    /\ mode # "recovering"
    /\ Fault
    /\ mode' = "recovering"
    /\ data' = [text |-> "down", comfy |-> "down", queue |-> Unknown]
    /\ memory' = disk
    /\ Gate(FALSE)
    /\ req' = [c \in Clients |-> CASE req[c] = "leased" -> "none"
                                  [] req[c] = "upstream" -> "orphan"
                                  [] OTHER -> req[c]]
    /\ admission' = "free" /\ switch' = NoSwitch /\ tick' = "off" /\ prompt' = "none"
    /\ UNCHANGED <<text, work, activityVars, media, disk>>
-----------------------------------------------------------------------------
(* The switch worker.                                                      *)

\* Everything but the containers, the gate and what the worker knows.
Outside == UNCHANGED <<work, activityVars, tick, prompt>>
NoHost == UNCHANGED <<text, req, media>>
NoData == UNCHANGED <<mode, data, admission>>

Begin ==
    /\ At("begin") /\ admission = "free"
    /\ admission' = "switch"
    /\ Goto(IF switch.to = "text" THEN "checking_queue" ELSE "inspecting")
    /\ Outside /\ NoHost
    /\ UNCHANGED <<gateVars, faults, lease, mode, data>>

\* host.queue() raises unless ComfyUI answers.
QueueEmpty == comfy = "ready" /\ queue = 0

\* Faulty variant: the running process is kept for the other mode.
InspectingKeepsProcess ==
    /\ At("inspecting")
    /\ switch' = [switch EXCEPT
           !.hadMedia = FALSE, !.fresh = comfy = "down",
           !.hadText = text # "down",
           !.phase = IF comfy # "down" /\ ~QueueEmpty THEN "failed"
                     ELSE IF text # "down" THEN "waiting_workflows" ELSE "stopping_media"]
    /\ Outside /\ NoHost /\ NoData
    /\ UNCHANGED <<gateVars, faults, lease>>

Inspecting ==
    /\ At("inspecting")
    /\ switch' = [switch EXCEPT
           !.hadMedia = comfy # "down", !.fresh = comfy = "down",
           !.hadText = text # "down",
           !.phase = IF comfy # "down" /\ ~QueueEmpty THEN "failed"
                     ELSE IF text # "down" THEN "waiting_workflows" ELSE "stopping_media"]
    /\ Outside /\ NoHost /\ NoData
    /\ UNCHANGED <<gateVars, faults, lease>>

\* drain_workflows: zero twice, five seconds apart, the second time in a newer
\* report.
DrainWorkflows ==
    /\ At("waiting_workflows")
    /\ LET drained == ReportZero /\ switch.later /\ switch.renewed
       IN  switch' = CASE ~ReportValid -> [switch EXCEPT !.phase = "failed"]
                       [] ReportValid /\ drained -> [switch EXCEPT !.phase = "closing_gate"]
                       [] ReportValid /\ ReportZero /\ ~drained ->
                              [switch EXCEPT !.zero = TRUE]
                       [] OTHER -> [switch EXCEPT !.zero = FALSE, !.later = FALSE,
                                                  !.renewed = FALSE]
    /\ Outside /\ NoHost /\ NoData
    /\ UNCHANGED <<gateVars, faults, lease>>

\* Only after the report does the gate close.
CloseGate ==
    /\ At("closing_gate")
    /\ available' = FALSE
    /\ Goto("draining_text")
    /\ Outside /\ NoHost /\ NoData
    /\ UNCHANGED <<advertised, faults, lease>>

\* drain_text reads the engine's metrics first and the leases afterwards.
ReadMetrics ==
    /\ At("draining_text")
    /\ text = "ready" /\ Busy = {}
    /\ Goto("leases")
    /\ Outside /\ NoHost /\ NoData
    /\ UNCHANGED <<gateVars, faults, lease>>

ReadLeases ==
    /\ At("leases")
    /\ Goto(IF Leases = {} THEN "stopping_media" ELSE "draining_text")
    /\ Outside /\ NoHost /\ NoData
    /\ UNCHANGED <<gateVars, faults, lease>>

StopComfy == ComfyDown /\ UNCHANGED <<text, req>>
StopText == text' = "down" /\ req' = EngineGone /\ UNCHANGED <<media, lease>>
NoEffect == NoHost /\ UNCHANGED lease
StartComfy ==
    /\ comfy' = IF comfy = "down" THEN "up" ELSE comfy
    /\ UNCHANGED <<queue, loaded, history, recent, late, lease, text, req>>
StartText ==
    /\ text' = IF text = "down" THEN "up" ELSE text
    /\ UNCHANGED <<req, media, lease>>

\* A command to Docker succeeds, or raises with or without having had its
\* effect.
Command(phase, Effect, seen, next, onError) ==
    /\ At(phase)
    /\ \/ Effect /\ data' = seen /\ Goto(next) /\ UNCHANGED faults
       \/ Fault /\ (Effect \/ NoEffect) /\ Goto(onError) /\ UNCHANGED data
    /\ Outside
    /\ UNCHANGED <<gateVars, mode, admission>>

NoMedia == [data EXCEPT !.comfy = "down"]
NoQueue == [NoMedia EXCEPT !.queue = Unknown]

\* Every exception from here on belongs to rollback.
StoppingMedia ==
    /\ At("stopping_media") /\ switch.hadMedia
    /\ \/ /\ StopComfy /\ data' = NoMedia /\ UNCHANGED faults
          /\ switch' = [switch EXCEPT !.phase = "stopping_text", !.fresh = TRUE]
       \/ Fault /\ (StopComfy \/ NoEffect) /\ Goto("undo") /\ UNCHANGED data
    /\ Outside
    /\ UNCHANGED <<gateVars, mode, admission>>

StoppingText ==
    switch.hadText /\ Command("stopping_text", StopText, [data EXCEPT !.text = "down"],
                              "starting_comfyui", "undo")

\* Nothing to stop.
Skipping ==
    /\ \/ At("stopping_media") /\ ~switch.hadMedia /\ Goto("stopping_text")
       \/ At("stopping_text") /\ ~switch.hadText /\ Goto("starting_comfyui")
    /\ Outside /\ NoHost /\ NoData
    /\ UNCHANGED <<gateVars, faults, lease>>

StartingComfy == Command("starting_comfyui", StartComfy, data, "waiting_comfyui", "undo")

\* wait_ready: ready, or the deadline passes.
WaitingComfy ==
    /\ At("waiting_comfyui")
    /\ data' = [data EXCEPT !.comfy = comfy]
    /\ Goto(IF comfy = "ready" THEN "record" ELSE "undo")
    /\ Outside /\ NoHost
    /\ UNCHANGED <<gateVars, faults, mode, memory, disk, admission>>

\* The new lease is in memory before it is on disk.
Record ==
    /\ At("record")
    /\ IF comfy = "ready"
       THEN /\ memory' = [media |-> switch.to, idle |-> FALSE, seen |-> SeenNow]
            /\ Goto("activate")
       ELSE UNCHANGED memory /\ Goto("undo")
    /\ Outside /\ NoHost
    /\ UNCHANGED <<gateVars, faults, mode, data, disk, admission>>

Activate ==
    /\ At("activate")
    /\ \/ /\ disk' = memory /\ mode' = switch.to
          /\ Goto("finally") /\ UNCHANGED faults
       \/ Fault /\ Goto("undo") /\ UNCHANGED <<disk, mode>>
    /\ Outside /\ NoHost
    /\ UNCHANGED <<gateVars, data, memory, admission>>

\* Rollback: stop what was started, then to_text.
Undo ==
    /\ At("undo")
    /\ LET busy == comfy # "down" /\ ~switch.fresh /\ ~QueueEmpty
       IN  \/ /\ IF busy THEN NoEffect /\ Goto("failed")
                ELSE StopComfy /\ switch' = [switch EXCEPT !.phase = "checking_queue",
                                                           !.undoing = TRUE]
             /\ UNCHANGED faults
          \/ /\ ~busy /\ Fault /\ (StopComfy \/ NoEffect) /\ Goto("failed")
    /\ Outside /\ NoData
    /\ UNCHANGED gateVars

\* Faulty variant: text is started beside the idle process.
CheckingQueueKeepsComfy ==
    /\ At("checking_queue")
    /\ switch' = [switch EXCEPT
           !.starting = text = "down",
           !.phase = IF comfy = "down" \/ QueueEmpty THEN "starting_text" ELSE "failed"]
    /\ data' = IF comfy = "down" THEN NoQueue ELSE data
    /\ Outside /\ NoHost
    /\ UNCHANGED <<gateVars, faults, mode, memory, disk, admission>>

\* Faulty variant: the queue of the last sample is trusted.
CheckingNoQueue ==
    /\ At("checking_queue")
    /\ switch' = [switch EXCEPT
           !.starting = text = "down",
           !.phase = IF comfy = "down" THEN "starting_text" ELSE "stopping_comfyui"]
    /\ data' = IF comfy = "down" THEN NoQueue ELSE data
    /\ Outside /\ NoHost
    /\ UNCHANGED <<gateVars, faults, mode, memory, disk, admission>>

\* to_text.  It remembers whether the text container runs already.
CheckingQueue ==
    /\ At("checking_queue")
    /\ switch' = [switch EXCEPT
           !.starting = text = "down",
           !.phase = CASE comfy = "down" -> "starting_text"
                       [] QueueEmpty -> "stopping_comfyui"
                       [] OTHER -> "failed"]
    /\ data' = IF comfy = "down" THEN NoQueue ELSE data
    /\ Outside /\ NoHost
    /\ UNCHANGED <<gateVars, faults, mode, memory, disk, admission>>

StoppingComfy == Command("stopping_comfyui", StopComfy, NoQueue, "starting_text", "failed")
StartingText == Command("starting_text", StartText, data, "waiting_text", "failed")

\* A start is recorded, and the lease is saved with the record.
WaitingText ==
    /\ At("waiting_text")
    /\ data' = [data EXCEPT !.text = text]
    /\ IF text = "ready"
       THEN /\ mode' = "text" /\ Gate(TRUE)
            /\ disk' = IF switch.starting THEN memory ELSE disk
            /\ Goto(IF switch.undoing THEN "failed" ELSE "finally")
       ELSE Goto("failed") /\ UNCHANGED <<mode, gateVars, disk>>
    /\ Outside /\ NoHost
    /\ UNCHANGED <<faults, memory, admission>>

\* A call that can raise does.
HostRaises ==
    /\ switch.phase \in {"inspecting", "waiting_workflows", "checking_queue",
                         "waiting_text", "waiting_comfyui", "record"}
    /\ Fault
    /\ Goto(IF switch.phase \in {"waiting_comfyui", "record"} THEN "undo" ELSE "failed")
    /\ Outside /\ NoHost /\ NoData
    /\ UNCHANGED <<gateVars, lease>>

\* The handler of the exception: whichever service runs alone is the mode.
Failed ==
    /\ At("failed")
    /\ \E got \in Readings : Sample(got)
    /\ mode' = CASE comfy # "down" /\ text = "down" -> memory.media
                 [] comfy = "down" /\ text # "down" -> "text"
                 [] OTHER -> "error"
    /\ Goto("finally")
    /\ NoHost
    /\ UNCHANGED <<gateVars, work, activityVars, admission, tick, prompt>>

Released == admission' = "free" /\ switch' = NoSwitch

Finally ==
    /\ At("finally")
    /\ \E got \in Readings : Sample(got)
    /\ Gate(mode = "text" /\ text = "ready" /\ comfy = "down")
    /\ Released
    /\ NoHost
    /\ UNCHANGED <<work, activityVars, mode, tick, prompt>>

SampleRaises ==
    /\ Fault
    /\ mode' = "error"
    /\ \/ At("failed") /\ Goto("finally") /\ UNCHANGED <<gateVars, admission>>
       \/ At("finally") /\ Gate(FALSE) /\ Released
    /\ Outside /\ NoHost
    /\ UNCHANGED <<data, memory, disk>>
-----------------------------------------------------------------------------
(* Prompts.  Anything but a ready service in the right mode is refused.    *)

PromptEnters(m) ==
    /\ prompt = "none" /\ admission = "free"
    /\ mode = m /\ data.comfy = "ready"
    /\ prompt' = m /\ admission' = "prompt"
    /\ UNCHANGED <<intakeVars, media, lease, mode, data, switch, tick>>

Queued ==
    /\ comfy = "ready" /\ queue < MaxQueue
    /\ queue' = queue + 1
    /\ recent' = TRUE
    /\ UNCHANGED <<comfy, history>>

Sent == loaded' = loaded \cup {prompt}

PromptLeaves == prompt' = "none" /\ admission' = "free"

PromptAccepted ==
    /\ prompt # "none"
    /\ Queued /\ Sent
    /\ memory' = [memory EXCEPT !.idle = FALSE]
    /\ disk' = memory'
    /\ PromptLeaves
    /\ UNCHANGED <<intakeVars, late, mode, data, switch, tick>>

\* ComfyUI refuses the job or is gone, or its answer is lost, or it does not
\* answer within 30 seconds and has yet to read the request.
PromptFails ==
    /\ prompt # "none"
    /\ \/ UNCHANGED <<media, faults>>
       \/ Queued /\ Sent /\ Fault /\ UNCHANGED late
       \/ /\ comfy = "ready" /\ late = "none" /\ Sent /\ Fault
          /\ late' = "sent"
          /\ UNCHANGED <<comfy, queue, history, recent>>
    /\ PromptLeaves
    /\ UNCHANGED <<text, gateVars, work, req, activityVars, memory, disk, mode, data,
                   switch, tick>>

\* It reads it after all.  Nobody holds the admission lock for this job.
LateJob ==
    /\ late = "sent"
    /\ Queued
    /\ late' = "queued"
    /\ UNCHANGED <<intakeVars, loaded, lease, mode, data, threads>>
-----------------------------------------------------------------------------
(* The monitor.                                                            *)

TickFrame == UNCHANGED <<text, work, req, activityVars, media, prompt>>

TickSamples ==
    /\ admission = "free" /\ mode \notin {"recovering", "starting", "stopping"}
    /\ admission' = "tick"
    /\ \E got \in Readings :
          /\ Sample(got)
          /\ tick' = IF HistoryKnown(got) THEN "known" ELSE "unknown"
    /\ TickFrame
    /\ UNCHANGED <<gateVars, mode, switch>>

TickFails ==
    /\ admission = "free" /\ mode \notin {"recovering", "starting", "stopping"}
    /\ Fault
    /\ Gate(FALSE)
    /\ TickFrame
    /\ UNCHANGED <<lease, mode, data, admission, switch, tick>>

\* It acts on its sample, unless a switch was requested meanwhile.
TickLeaves == tick # "off" /\ tick' = "off" /\ admission' = "free"

IdleStop ==
    /\ mode \in MediaModes /\ data.comfy # "down" /\ data.text = "down"
    /\ tick = "known" /\ data.queue = 0 /\ memory.idle

TextLost == data.comfy = "down" /\ data.text = "down" /\ mode # "error"

TickStops ==
    /\ TickLeaves
    /\ IdleStop \/ TextLost
    /\ Submit("text")
    /\ TickFrame
    /\ UNCHANGED <<faults, lease, data>>

TickAdjusts ==
    /\ TickLeaves
    /\ ~Switching /\ ~IdleStop /\ ~TextLost
    /\ CASE data.comfy # "down" /\ data.text # "down" -> Gate(FALSE) /\ mode' = "error"
         [] data.comfy = "down" /\ data.text = "ready" -> Gate(TRUE) /\ mode' = "text"
         [] data.comfy = "down" /\ data.text = "up" ->
                available' = FALSE /\ UNCHANGED <<advertised, mode>>
         [] OTHER -> UNCHANGED <<gateVars, mode>>
    /\ TickFrame
    /\ UNCHANGED <<faults, lease, data, switch>>

TickYields ==
    /\ TickLeaves
    /\ Switching
    /\ TickFrame
    /\ UNCHANGED <<gateVars, faults, lease, mode, data, switch>>
-----------------------------------------------------------------------------
SwitchStep ==
    \/ Begin \/ Inspecting \/ DrainWorkflows \/ CloseGate \/ ReadMetrics \/ ReadLeases
    \/ StoppingMedia \/ StoppingText \/ Skipping \/ StartingComfy \/ WaitingComfy
    \/ Record \/ Activate \/ Undo \/ CheckingQueue \/ StoppingComfy \/ StartingText
    \/ WaitingText \/ HostRaises \/ Failed \/ Finally \/ SampleRaises

TickStep == TickSamples \/ TickFails \/ TickStops \/ TickAdjusts \/ TickYields

RequestStep(c) == Forward(c) \/ Answered(c) \/ Aborted(c)

Next ==
    \/ \E w \in Workflows :
          Intake(WakesUp(w)) \/ Intake(CheckReadiness(w))
    \/ \E t \in Turns : Intake(TurnPasses(t)) \/ Intake(TurnBegins(t))
    \/ \E c \in Workflows \cup Turns : Intake(Ends(c))
    \/ \E c \in Clients : Intake(Enter(c)) \/ Intake(RequestStep(c)) \/ Intake(HangsUp(c))
    \/ Intake(TextLoads) \/ Intake(TextCrashes)
    \/ Intake(Collect) \/ Intake(CollectFails) \/ ActivityPublished \/ Clock
    \/ JobDone \/ ComfyLoads \/ ComfyCrashes \/ IdleTimePasses
    \/ \E to \in Modes : UserSubmits(to)
    \/ Recover \/ RecoverFails \/ Restart
    \/ SwitchStep \/ TickStep
    \/ \E m \in MediaModes : PromptEnters(m)
    \/ PromptAccepted \/ PromptFails \/ LateJob

Spec == Init /\ [][Next]_vars

\* Threads go on, the restarted process recovers, a model loads, a request
\* ends, the collector and the clock run.  Nothing is assumed of users,
\* prompts and failures.
FairSpec ==
    /\ Spec
    /\ WF_vars(SwitchStep) /\ WF_vars(TickStep) /\ WF_vars(PromptFails)
    /\ WF_vars(Recover)
    /\ WF_vars(Intake(TextLoads))
    /\ WF_vars(Intake(Collect)) /\ WF_vars(ActivityPublished) /\ WF_vars(Clock)
    /\ \A c \in Clients : WF_vars(Intake(RequestStep(c)))
-----------------------------------------------------------------------------
(* Properties.                                                             *)

\* The GPU holds one model: no container is started while the other one runs
\* (the module's first line, "Exclusive text/image/video profiles").
ExclusiveStart ==
    [][ /\ text = "down" /\ text' # "down" => comfy' = "down"
        /\ comfy = "down" /\ comfy' # "down" => text' = "down" ]_vars

\* No step of the switch worker stops ComfyUI while a job is in its queue,
\* however prompts, samples and rollbacks interleave with the request to stop.
\* A job that came in after its client's timeout is not protected: the worker
\* looks at the queue once, under a lock this job does not wait for
\* (MCModelSwitch_late.cfg).
NoJobKilled ==
    [][ comfy # "down" /\ comfy' = "down" /\ switch' # switch =>
        queue = 0 \/ late = "queued" ]_vars

\* The text container is stopped only when no workflow that passed its
\* readiness gate is under way and no client waits for an answer.
DrainedBeforeStop ==
    [][ text # "down" /\ text' = "down" =>
        Leases = {} /\ \A w \in Workflows : work[w] # "active" ]_vars

\* One ComfyUI process serves one media mode: a change of mode, a rollback or
\* a restart of the controller never lets a process load both models, unless
\* four failures come together (MCModelSwitch_modes.cfg).
OneModePerProcess == \A m, n \in loaded : m = n

\* The monitor ends a media session only after a full idle period without a
\* job, also when jobs come and go between two samples; again but for a job
\* that came in after its client's timeout, between the sample and the stop.
IdleStopIsIdle == [][ TickStops /\ IdleStop => ~recent \/ late = "queued" ]_vars

\* A switch ends.
SwitchEnds == mode \in {"starting", "stopping"} ~> mode \notin {"starting", "stopping"}

\* Text mode does not leave the gate closed for good, whatever closed it.
TextBecomesAvailable == mode = "text" ~> LlmAvailable \/ mode # "text"

\* NoJobKilled for late jobs too.
NoJobKilledAtAll ==
    [][ comfy # "down" /\ comfy' = "down" /\ switch' # switch => queue = 0 ]_vars

\* What the controls promise of agent turns: they are waited for as well.
TurnsDrained ==
    [][ text # "down" /\ text' = "down" => \A t \in Turns : work[t] # "active" ]_vars

\* What drain_text promises of abandoned requests: the engine is idle.
EngineIdle == [][ text = "ready" /\ text' = "down" => Busy = {} ]_vars
=============================================================================

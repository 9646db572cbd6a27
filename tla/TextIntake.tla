------------------------------ MODULE TextIntake ------------------------------
(***************************************************************************)
(* Who uses the text model, and how they learn that it goes away: the      *)
(* intake gate of scripts/llm_admission.py with its leased requests, the   *)
(* n8n workflows behind the readiness gates of llm_workflow_queue.py, the  *)
(* native agent turns behind deploy/openclaw/safety-plugin/llm-queue.mjs,  *)
(* and the activity report of llm_workflow_activity.py.  ModelSwitch adds  *)
(* the controller that closes the gate and stops the model.                *)
(*                                                                         *)
(* Time advances in units of five seconds, the period of the pollers.  All *)
(* events happen at such instants, so that an age in units is exact.       *)
(***************************************************************************)
EXTENDS Naturals

CONSTANTS Workflows,    \* n8n executions of protected workflows
          Turns,        \* native agent turns
          Clients,      \* requests to the model; the gate does not know whose they are
          MaxFaults     \* bound on failures of every kind

\* Fifteen seconds and eight seconds in units: the oldest report that counts
\* and the longest run of the command that collects one.
MaxAge == 3
CollectTimeout == 1

ASSUME IntakeAssumption ==
    /\ Workflows \cap Turns = {}
    /\ MaxFaults \in Nat

VARIABLES
    text,       \* the text container: down, up (loading) or ready
    available,  \* IntakeGate.available
    advertised, \* Controller.llm_available
    work,       \* per workflow or turn: where it is
    req,        \* per client: its request to the model
    poll,       \* the collection under way, or None
    native,     \* NativeActivity.value
    rest,       \* units since the last collection ended
    faults      \* failures so far

intakeVars == <<text, available, advertised, work, req, poll, native, rest, faults>>
activityVars == <<poll, native, rest>>
gateVars == <<available, advertised>>

\* Counts of turns matter only as zero or not; a report that is missing is as
\* good as one that is too old.
Reports == [busy : BOOLEAN, age : 0..MaxAge + 1]
None == [busy |-> FALSE, age |-> MaxAge + 1]

IntakeTypeOK ==
    /\ text \in {"down", "up", "ready"}
    /\ available \in BOOLEAN /\ advertised \in BOOLEAN
    /\ work \in [Workflows \cup Turns -> {"idle", "checking", "passed", "active"}]
    /\ req \in [Clients -> {"none", "leased", "upstream", "orphan"}]
    /\ poll \in Reports /\ native \in Reports
    /\ rest \in 0..1
    /\ faults \in 0..MaxFaults

Fault == faults < MaxFaults /\ faults' = faults + 1

\* What /llm/status says to everyone who asks before using the model.
LlmAvailable == advertised /\ available

Leases == {c \in Clients : req[c] \in {"leased", "upstream"}}
Busy == {c \in Clients : req[c] \in {"upstream", "orphan"}}

\* Everyone the report counts as using the model.
RunningWorkflows == {w \in Workflows : work[w] \in {"checking", "active"}}
ActiveTurns == {t \in Turns : work[t] = "active"}
-----------------------------------------------------------------------------
(* Workflows.  An execution counts as running from its trigger on, except  *)
(* while it sleeps in the durable Wait node; asleep it is as idle as one   *)
(* that was not triggered.                                                 *)

Moves(c, from, to) ==
    /\ work[c] = from
    /\ work' = [work EXCEPT ![c] = to]
    /\ UNCHANGED <<text, gateVars, req, activityVars, faults>>

WakesUp(w) == Moves(w, "idle", "checking")
CheckReadiness(w) == Moves(w, "checking", IF LlmAvailable THEN "active" ELSE "idle")

\* A turn leaves the durable queue when the check succeeds; the native
\* gateway counts it once its work begins.
TurnPasses(t) == LlmAvailable /\ Moves(t, "idle", "passed")
TurnBegins(t) == Moves(t, "passed", "active")

Ends(c) == Moves(c, "active", "idle")
-----------------------------------------------------------------------------
(* Requests through the proxy.                                             *)

Request(c, from, to) ==
    /\ req[c] \in from
    /\ req' = [req EXCEPT ![c] = to]
    /\ UNCHANGED <<text, gateVars, work, activityVars, faults>>

\* gate.enter: a closed gate answers 503 and changes nothing.
Enter(c) == available /\ Request(c, {"none"}, "leased")

\* The request goes upstream, or there is no one to take it.
Forward(c) == Request(c, {"leased"}, IF text = "ready" THEN "upstream" ELSE "none")
Answered(c) == Request(c, {"upstream"}, "none")

\* The client hangs up.  The lease ends, the engine notices later.
HangsUp(c) ==
    \/ Request(c, {"leased"}, "none")
    \/ Request(c, {"upstream"}, "orphan")
Aborted(c) == Request(c, {"orphan"}, "none")
-----------------------------------------------------------------------------
(* The text container has the restart policy unless-stopped: a crash takes *)
(* the engine's requests with it and the model loads again.                *)

TextLoads ==
    /\ text = "up"
    /\ text' = "ready"
    /\ UNCHANGED <<gateVars, work, req, activityVars, faults>>

EngineGone == [c \in Clients |-> IF req[c] = "leased" THEN "leased" ELSE "none"]

TextCrashes ==
    /\ text = "ready"
    /\ Fault
    /\ text' = "up"
    /\ req' = EngineGone
    /\ UNCHANGED <<gateVars, work, activityVars>>
-----------------------------------------------------------------------------
(* The activity report.  Counts of workflows are read when the report is   *)
(* asked for; those of native turns are the last that was collected.       *)

Collecting == poll # None

Collect ==
    /\ ~Collecting /\ rest = 1
    /\ poll' = [busy |-> ActiveTurns # {}, age |-> 0]
    /\ rest' = 0
    /\ UNCHANGED <<text, gateVars, work, req, native, faults>>

Publish ==
    /\ Collecting
    /\ native' = poll
    /\ poll' = None /\ rest' = 0
    /\ UNCHANGED <<text, gateVars, work, req, faults>>

CollectFails ==
    /\ Collecting
    /\ Fault
    /\ native' = None /\ poll' = None /\ rest' = 0
    /\ UNCHANGED <<text, gateVars, work, req>>

\* snapshot and the checks of its age: what a reader of /llm/activity gets.
ReportValid == native.age <= MaxAge
ReportZero == RunningWorkflows = {} /\ ~native.busy

\* One unit passes for the reports.  A collection ends within its timeout.
Older(r) == [r EXCEPT !.age = IF @ > MaxAge THEN @ ELSE @ + 1]
Ages ==
    /\ Collecting => poll.age < CollectTimeout
    /\ poll' = IF Collecting THEN Older(poll) ELSE poll
    /\ native' = Older(native)
    /\ rest' = IF Collecting THEN 0 ELSE 1
=============================================================================

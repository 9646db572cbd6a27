---------------------------- MODULE PolicyInstaller ----------------------------
(***************************************************************************)
(* PolicyInstaller of scripts/assistant_context_improvements.py on top of    *)
(* the improvement controller: a reconciled candidate is planned against     *)
(* the installed policy, and `apply` stops the context service, replaces     *)
(* the one policy file, starts the service and probes its health.  Every     *)
(* phase is recorded in the transaction's result file first, so that a       *)
(* second `apply` can go on where a dead one stopped; a failure restores     *)
(* the preimage.  Nothing excludes two installers from each other.           *)
(*                                                                           *)
(* The service is reached through SystemdPolicyOps, which turns every        *)
(* non-zero exit of systemctl into an exception.  `systemctl is-active`      *)
(* exits with 3 for a unit that is down, so active() returns True or raises  *)
(* and the two calls of start() behind `if not self.ops.active()` are never  *)
(* reached: they have no action here.  What starts a stopped unit is         *)
(* somebody else.                                                            *)
(***************************************************************************)
EXTENDS ImprovementController

CONSTANTS Transactions,  \* transaction ids
          Installers,    \* processes that run apply and rollback
          MaxFaults      \* bound on deaths, reboots and failed unit commands

ASSUME InstallerAssumption == MaxFaults \in Nat

VARIABLES
    target,    \* the managed policy file, as a set of at most one policy
    owned,     \* it has the owner and mode the service and installer need
    selected,  \* the service's command line selects the managed file
    up,        \* the context service is active
    loaded,    \* the managed policy it read when it started, as such a set
    plan,      \* plan.json of each transaction
    result,    \* status in result.json
    inst,      \* step of each installer
    faults,
    writer     \* history: the transaction that last wrote the target

installerVars == <<target, owned, selected, up, loaded, plan, result, inst, faults, writer>>
vars == <<controllerVars, installerVars>>

NoPlan == [kind |-> "none"]
Plans == {NoPlan}
    \cup [kind : {"initialize"}, after : Policies]
    \cup [kind : {"apply"}, of : Candidates, before : Policies, after : Policies]

\* Statuses a second apply goes on from, and the ones it restores from.
Forward == {"applying", "stopping", "stopped", "installed", "starting"}
Restoring == {"rollback_pending", "recovery_required"}
Statuses == {"none", "initialized_not_active", "applied", "rolled_back"}
                \cup Forward \cup Restoring

\* at: the step; tx: the transaction; old: the target read at the start was
\* the preimage.
NoStep == [at |-> "idle"]
StepNames == {"check", "stop", "stopped", "write", "written", "start",
              "own", "reown", "health", "healthy", "record", "failed", "restore", "unload",
              "putback", "restart", "probe", "settle", "settled"}
Steps == {NoStep} \cup [at : StepNames, tx : Transactions, old : BOOLEAN]

InstallerTypeOK ==
    /\ target \subseteq Policies /\ Cardinality(target) <= 1
    /\ owned \in BOOLEAN /\ selected \in BOOLEAN /\ up \in BOOLEAN
    /\ loaded \subseteq Policies
    /\ plan \in [Transactions -> Plans]
    /\ result \in [Transactions -> Statuses]
    /\ inst \in [Installers -> Steps]
    /\ faults \in 0..MaxFaults
    /\ writer \subseteq Transactions

Init ==
    /\ ControllerInit
    /\ target = {} /\ owned = TRUE /\ selected = FALSE /\ up = TRUE /\ loaded = {}
    /\ plan = [t \in Transactions |-> NoPlan]
    /\ result = [t \in Transactions |-> "none"]
    /\ inst = [i \in Installers |-> NoStep]
    /\ faults = 0 /\ writer = {}

Before(t) == {plan[t].before}
After(t) == {plan[t].after}
Unplanned(t) == plan[t] = NoPlan

-----------------------------------------------------------------------------
(* The service, seen through SystemdPolicyOps *)

\* ops.active() returns, and then it returns True.
ActiveAnswers == up

\* The server reads its policy once, when it starts; a file without its
\* owner it cannot read.
StartsWith(policy) == owned /\ up' = TRUE /\ loaded' = policy

\* Somebody else starts or restarts the unit: the sync unit requires it and
\* runs from a timer every 15 minutes, a deployment, a restart on failure.
ServiceStarts ==
    /\ StartsWith(IF selected THEN target ELSE {})
    /\ UNCHANGED <<controllerVars, target, owned, selected, plan, result, inst,
                   faults, writer>>

\* ops.stop() returns when the unit is down.
Stops == up' = FALSE /\ loaded' = {}

-----------------------------------------------------------------------------
(* Plans *)

\* plan_initialize: only while the service does not select the file.
PlanInitialize(t) ==
    /\ Unplanned(t) /\ target = {} /\ ~selected
    /\ \E r \in 1..known :
          plan' = [plan EXCEPT ![t] = [kind |-> "initialize",
                                       after |-> history[r]]]
    /\ UNCHANGED <<controllerVars, target, owned, selected, up, loaded, result, inst,
                   faults, writer>>

\* apply of such a plan: write the file, set its owner, then the result.  A
\* crash before the owner is set leaves a file no command will read; one
\* before the result is repaired by the next apply, and nothing reads that
\* result in between.
Initialize(t) ==
    /\ plan[t].kind = "initialize" /\ ~selected
    /\ owned /\ target \in {{}, After(t)}
    /\ target' = After(t)
    /\ \/ /\ result' = [result EXCEPT ![t] = "initialized_not_active"]
          /\ UNCHANGED owned
       \/ target = {} /\ owned' = FALSE /\ UNCHANGED result
    /\ UNCHANGED <<controllerVars, selected, up, loaded, plan, inst, faults, writer>>

\* The operator turns the managedBriefings option on: the unit restarts.
Select ==
    /\ target # {} /\ ~selected
    /\ selected' = TRUE /\ StartsWith(target)
    /\ UNCHANGED <<controllerVars, target, owned, plan, result, inst, faults, writer>>

\* plan_candidate binds the merged policy to the one installed now.
PlanCandidate(t, c) ==
    /\ Unplanned(t) /\ selected /\ target # {} /\ owned
    /\ cand[c].state = "reconciled" /\ HoldsReviewed(c, cand[c].merged)
    /\ plan' = [plan EXCEPT ![t] =
          [kind |-> "apply", of |-> c,
           before |-> CHOOSE p \in target : TRUE,
           after |-> history[cand[c].merged]]]
    /\ UNCHANGED <<controllerVars, target, owned, selected, up, loaded, result, inst,
                   faults, writer>>

-----------------------------------------------------------------------------
(* apply *)

At(i, step) == inst[i].at = step
Goes(i, step) == inst' = [inst EXCEPT ![i].at = step]
Enters(i, t, step) ==
    inst' = [inst EXCEPT ![i] = [at |-> step, tx |-> t, old |-> target = Before(t)]]
Returns(i) == inst' = [inst EXCEPT ![i] = NoStep]
Records(t, status) == result' = [result EXCEPT ![t] = status]

\* What apply, and a rollback that goes on, ask of the plan and the file.
Admits(t) ==
    /\ plan[t].kind = "apply" /\ selected /\ owned
    /\ target \in {Before(t), After(t)}

\* The checks before the first phase, and where the recorded status leads.
\* An applied or rolled back transaction returns without an effect.
Apply(i, t) ==
    /\ At(i, "idle") /\ Admits(t)
    /\ \/ /\ result[t] = "none" /\ target = Before(t) /\ up
          /\ Records(t, "applying") /\ Enters(i, t, "check")
       \/ /\ result[t] \in Forward
          /\ Enters(i, t, "check") /\ UNCHANGED result
       \/ /\ result[t] \in Restoring
          /\ Enters(i, t, "restore") /\ UNCHANGED result
    /\ UNCHANGED <<controllerVars, target, owned, selected, up, loaded, plan, faults, writer>>

\* Before the write: an active unit is stopped; the file already in place
\* skips to the start.
Check(i) ==
    /\ At(i, "check")
    /\ \/ ~inst[i].old /\ Goes(i, "start") /\ UNCHANGED result
       \/ /\ inst[i].old /\ ActiveAnswers
          /\ Records(inst[i].tx, "stopping") /\ Goes(i, "stop")
       \/ inst[i].old /\ ~ActiveAnswers /\ Goes(i, "failed") /\ UNCHANGED result
    /\ UNCHANGED <<controllerVars, target, owned, selected, up, loaded, plan, faults, writer>>

\* Faulty variant: the stop is requested and not waited for.
StopUnawaited(i) ==
    /\ At(i, "stop") /\ Goes(i, "stopped")
    /\ UNCHANGED <<controllerVars, target, owned, selected, up, loaded, plan, result, faults, writer>>

Stop(i) ==
    /\ At(i, "stop")
    /\ Stops /\ Goes(i, "stopped")
    /\ UNCHANGED <<controllerVars, target, owned, selected, plan, result, faults, writer>>

RecordStopped(i) ==
    /\ At(i, "stopped")
    /\ Records(inst[i].tx, "stopped") /\ Goes(i, "write")
    /\ UNCHANGED <<controllerVars, target, owned, selected, up, loaded, plan, faults, writer>>

\* _atomic_write: the new file replaces the old one in one rename, and gets
\* its owner and mode afterwards.
Write(i) ==
    /\ At(i, "write")
    /\ target' = After(inst[i].tx) /\ writer' = {inst[i].tx}
    /\ owned' = FALSE /\ Goes(i, "own")
    /\ UNCHANGED <<controllerVars, selected, up, loaded, plan, result, faults>>

Own(i) ==
    /\ \/ At(i, "own") /\ Goes(i, "written")
       \/ At(i, "reown") /\ Goes(i, "restart")
    /\ owned' = TRUE
    /\ UNCHANGED <<controllerVars, target, selected, up, loaded, plan, result, faults, writer>>

RecordInstalled(i) ==
    /\ At(i, "written")
    /\ Records(inst[i].tx, "installed") /\ Goes(i, "start")
    /\ UNCHANGED <<controllerVars, target, owned, selected, up, loaded, plan, faults, writer>>

\* The check before the start: a unit that is up is probed as it is, and one
\* that is down ends the apply.
CheckStarted(i) ==
    /\ At(i, "start")
    /\ Goes(i, IF ActiveAnswers THEN "health" ELSE "failed")
    /\ UNCHANGED <<controllerVars, target, owned, selected, up, loaded, plan, result, faults, writer>>

\* The health probe: a service that is down or not ready fails it.
Probe(i) ==
    /\ At(i, "health")
    /\ \/ up /\ Goes(i, "healthy")
       \/ Goes(i, "failed")
    /\ UNCHANGED <<controllerVars, target, owned, selected, up, loaded, plan, result, faults, writer>>

\* mark_applied; a candidate in another stage is an error after the fact.
MarkApplied(i) ==
    /\ At(i, "healthy")
    /\ LET c == plan[inst[i].tx].of IN
       \/ /\ cand[c].state \in {"reconciled", "applied"}
          /\ cand' = [cand EXCEPT ![c].state = "applied"]
          /\ Goes(i, "record")
       \/ /\ cand[c].state \notin {"reconciled", "applied"}
          /\ Returns(i) /\ UNCHANGED cand
    /\ UNCHANGED <<history, known, pr, work, target, owned, selected, up, loaded, plan, result,
                   faults, writer>>

RecordApplied(i) ==
    /\ At(i, "record")
    /\ Records(inst[i].tx, "applied") /\ Returns(i)
    /\ UNCHANGED <<controllerVars, target, owned, selected, up, loaded, plan, faults, writer>>

RecordPending(i) ==
    /\ At(i, "failed")
    /\ Records(inst[i].tx, "rollback_pending") /\ Goes(i, "restore")
    /\ UNCHANGED <<controllerVars, target, owned, selected, up, loaded, plan, faults, writer>>

-----------------------------------------------------------------------------
(* rollback and _restore_preimage *)

\* rollback starts from the exact planned policy, or goes on with a restore.
Rollback(i, t) ==
    /\ At(i, "idle") /\ Admits(t)
    /\ \/ result[t] \in Restoring /\ UNCHANGED result
       \/ /\ result[t] \notin Restoring \cup {"rolled_back"}
          /\ target = After(t)
          /\ Records(t, "rollback_pending")
    /\ Enters(i, t, "restore")
    /\ UNCHANGED <<controllerVars, target, owned, selected, up, loaded, plan, faults, writer>>

\* Faulty variant: a restore that failed is reported as done.
RecordRestored(i) == Records(inst[i].tx, "rolled_back") /\ Returns(i)

\* Any exception of the restore.
RecordRecovery(i) == Records(inst[i].tx, "recovery_required") /\ Returns(i)

RestoreReads(i) ==
    /\ At(i, "restore")
    /\ LET t == inst[i].tx IN
       \/ /\ owned /\ target = Before(t)
          /\ Goes(i, "restart") /\ UNCHANGED result
       \/ /\ owned /\ target # Before(t) /\ target = After(t) /\ ActiveAnswers
          /\ Goes(i, "unload") /\ UNCHANGED result
       \/ /\ \/ ~owned \/ target \notin {Before(t), After(t)}
             \/ target # Before(t) /\ ~ActiveAnswers
          /\ RecordRecovery(i)
    /\ UNCHANGED <<controllerVars, target, owned, selected, up, loaded, plan, faults, writer>>

RestoreStops(i) ==
    /\ At(i, "unload")
    /\ Stops /\ Goes(i, "putback")
    /\ UNCHANGED <<controllerVars, target, owned, selected, plan, result, faults, writer>>

RestoreWrites(i) ==
    /\ At(i, "putback")
    /\ target' = Before(inst[i].tx) /\ writer' = {inst[i].tx}
    /\ owned' = FALSE /\ Goes(i, "reown")
    /\ UNCHANGED <<controllerVars, selected, up, loaded, plan, result, faults>>

RestoreStarts(i) ==
    /\ At(i, "restart")
    /\ \/ ActiveAnswers /\ Goes(i, "probe") /\ UNCHANGED result
       \/ ~ActiveAnswers /\ RecordRecovery(i)
    /\ UNCHANGED <<controllerVars, target, owned, selected, up, loaded, plan, faults, writer>>

RestoreProbes(i) ==
    /\ At(i, "probe")
    /\ \/ up /\ Goes(i, "settle") /\ UNCHANGED result
       \/ RecordRecovery(i)
    /\ UNCHANGED <<controllerVars, target, owned, selected, up, loaded, plan, faults, writer>>

\* Faulty variant: the candidate keeps its stage.
KeepsStage(c) == UNCHANGED cand

\* mark_rolled_back, for a candidate that had been applied.
MarksRolledBack(c) == Moves(c, "applied", "rolled_back")

Settle(i) ==
    /\ At(i, "settle")
    /\ MarksRolledBack(plan[inst[i].tx].of) /\ Goes(i, "settled")
    /\ UNCHANGED <<history, known, pr, work, target, owned, selected, up, loaded, plan, result,
                   faults, writer>>

RecordRolledBack(i) ==
    /\ At(i, "settled")
    /\ Records(inst[i].tx, "rolled_back") /\ Returns(i)
    /\ UNCHANGED <<controllerVars, target, owned, selected, up, loaded, plan, faults, writer>>

-----------------------------------------------------------------------------
(* Faults *)

Fault == faults < MaxFaults /\ faults' = faults + 1

\* systemctl, a read or write of the file or its chown raises; a stop that
\* timed out may still take effect.
CommandFails(i) ==
    /\ Fault
    /\ \/ /\ inst[i].at \in {"check", "stop", "write", "own", "start"}
          /\ Goes(i, "failed") /\ UNCHANGED result
       \/ /\ inst[i].at \in {"restore", "unload", "putback", "reown", "restart"}
          /\ RecordRecovery(i)
    /\ \/ UNCHANGED <<up, loaded>>
       \/ inst[i].at \in {"stop", "unload"} /\ Stops
    /\ UNCHANGED <<controllerVars, target, owned, selected, plan, writer>>

InstallerDies(i) ==
    /\ Fault /\ ~At(i, "idle") /\ Returns(i)
    /\ UNCHANGED <<controllerVars, target, owned, selected, up, loaded, plan, result, writer>>

\* The host restarts: the unit is wanted by multi-user.target, and comes up
\* if it can read its policy.
Reboot ==
    /\ Fault
    /\ inst' = [i \in Installers |-> NoStep]
    /\ work' = [w \in Workers |-> NoWork]
    /\ up' = (owned \/ ~selected)
    /\ loaded' = IF owned /\ selected THEN target ELSE {}
    /\ UNCHANGED <<cand, history, known, pr, target, owned, selected, plan, result, writer>>

InstallerStep(i) ==
    \/ Check(i) \/ Stop(i) \/ RecordStopped(i) \/ Write(i) \/ Own(i)
    \/ RecordInstalled(i) \/ CheckStarted(i) \/ Probe(i)
    \/ MarkApplied(i) \/ RecordApplied(i) \/ RecordPending(i)
    \/ RestoreReads(i) \/ RestoreStops(i) \/ RestoreWrites(i)
    \/ RestoreStarts(i) \/ RestoreProbes(i) \/ Settle(i)
    \/ RecordRolledBack(i)

Next ==
    \/ ControllerNext /\ UNCHANGED installerVars
    \/ \E t \in Transactions :
          \/ PlanInitialize(t) \/ Initialize(t)
          \/ \E c \in Candidates : PlanCandidate(t, c)
          \/ \E i \in Installers : Apply(i, t) \/ Rollback(i, t)
    \/ Select \/ ServiceStarts
    \/ \E i \in Installers :
          InstallerStep(i) \/ CommandFails(i) \/ InstallerDies(i)
    \/ Reboot

Spec == Init /\ [][Next]_vars

-----------------------------------------------------------------------------
(* Properties *)

\* No apply or restore of the transaction is under way or owed.
Settled(t) == result[t] \notin Forward \cup Restoring

InstallersIdle == \A i \in Installers : At(i, "idle")

\* A policy that was tested, reviewed and merged as it is, or the published
\* policy the target was initialised with.
Vetted(p) ==
    \E t \in Transactions :
       \/ plan[t].kind = "initialize" /\ p = plan[t].after
       \/ /\ plan[t].kind = "apply" /\ p = plan[t].after
          /\ cand[plan[t].of].state \in {"reconciled", "applied", "rolled_back"}
          /\ cand[plan[t].of].after = p

\* Whatever races the workers, the reviewers and the installers run, crash and
\* repeat, the managed file holds a policy that passed the independent
\* evaluation and was merged byte for byte (reconcile, plan_candidate, apply,
\* _restore_preimage): never one of a rejected candidate and never the mixture
\* that a merge onto a moved master produces.
InstalledIsVetted == \A p \in target : Vetted(p)

\* When no installer is at work and the service is down, result.json of some
\* transaction says that it is open, and apply and rollback admit that
\* transaction: no crash, failed command or refused restore leaves the service
\* down with a record that calls everything done, or with a file the open
\* transaction does not know (the phases of apply and _restore_preimage).  It
\* does not say that the command brings the service up: active() raises on
\* the stopped unit and the transaction ends in recovery_required again, until
\* somebody else has started the unit (ApplyEndsUp).  The one exception is a
\* death, or a failed chown, between the rename and the chown of
\* _atomic_write: no command of the installer reads that file any more.
DownIsAccounted ==
    InstallersIdle /\ ~up /\ owned =>
        \E t \in Transactions : ~Settled(t) /\ Admits(t)

\* A plan made while its candidate's policy is already in place, because the
\* apply of another plan of it has written the file and not yet marked it.
EmptyPlan(t) == plan[t].kind = "apply" /\ Before(t) = After(t)

\* Once every transaction is settled, the file, the result of the transaction
\* that wrote it last and the stage of its candidate agree: the new policy
\* with an applied candidate, or the preimage with one that is not applied,
\* however often apply and rollback were interrupted and repeated.  Empty
\* plans are left out: the rollback of one marks the candidate rolled back
\* and changes no file.  Two installers at once break it (MCPolicy_two.cfg).
SettledAgrees ==
    InstallersIdle /\ (\A t \in Transactions : Settled(t) /\ ~EmptyPlan(t)) =>
        \A t \in writer :
            \/ /\ target = After(t) /\ result[t] = "applied"
               /\ cand[plan[t].of].state = "applied"
            \/ /\ target = Before(t) /\ result[t] = "rolled_back"
               /\ cand[plan[t].of].state \in {"reconciled", "rolled_back"}

\* The running service has read the installed policy, or the other image of
\* the transaction that wrote the file last: it is at most one write behind,
\* whoever starts and restarts the unit between the steps of apply and
\* _restore_preimage and wherever they are interrupted.  Both write only after
\* they have stopped the unit themselves, so what is running then was started
\* in between and has read the file that is being replaced.
AtMostOneBehind ==
    selected /\ up =>
        loaded = target \/ \E t \in writer : loaded \in {Before(t), After(t)}

\* As long as no process died, no command failed and the host stayed up, every
\* apply and rollback, also one whose health probe fails, ends with the
\* service started again.
ApplyEndsUp == InstallersIdle /\ faults = 0 => up

\* A transaction that ended as applied or rolled back, without a fault, leaves
\* the service running with the installed policy: apply stops it before the
\* file is replaced and starts it afterwards.
SettledIsLoaded ==
    InstallersIdle /\ faults = 0 /\ selected /\ up
        /\ (\A t \in Transactions : Settled(t)) => loaded = target
==============================================================================

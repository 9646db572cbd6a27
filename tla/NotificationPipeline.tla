------------------------ MODULE NotificationPipeline ------------------------
(***************************************************************************)
(* From an accepted source revision to at most one owner notification.     *)
(* Two processes share the context store, the attention ledger and the     *)
(* delivery outbox, three SQLite files:                                    *)
(*                                                                         *)
(*   "service"  ContextService (scripts/assistant_context_api.py).  Its    *)
(*              RLock runs one request at a time; the process may crash    *)
(*              between any two transactions and is restarted.             *)
(*   "cli"      scripts/assistant-context-deliver.py, an operator's        *)
(*              one-shot process.  Its file lock excludes other CLIs only, *)
(*              so it interleaves with the service transaction by          *)
(*              transaction.                                               *)
(*                                                                         *)
(* Policy evaluation (coverage, freshness, quiet hours, grant expiry)      *)
(* depends on the clock; wherever the code evaluates it the model may let  *)
(* the gate close.  Reads of one decision and of its source are one step:  *)
(* the decision is recorded while its revision is served and revisions     *)
(* only grow, so reading both in turn tells as much as reading them at     *)
(* once.                                                                   *)
(***************************************************************************)
EXTENDS SourceJournal, FiniteSets

CONSTANTS MaxDay,        \* bound on local days
          DailyLimit,    \* daily_discretionary_notification_limit
          Texts,         \* message texts
          ServiceText,   \* the text dispatch_attention composes
          Modes,         \* policy modes the service may start with
          Actors,        \* the processes of this instance
          MaxCrashes,    \* bound on service crashes
          MaxErrors,     \* bound on requests aborted by a storage error
          Null

ASSUME PipelineAssumption ==
    /\ MaxRevision \in Nat /\ MaxDay \in Nat \ {0} /\ DailyLimit \in Nat
    /\ MaxCrashes \in Nat /\ MaxErrors \in Nat
    /\ ServiceText \in Texts /\ Null \notin Texts /\ Null \notin Objects
    /\ Modes \subseteq {"shadow", "active"} /\ Actors \subseteq {"service", "cli"}

VARIABLES decisions,      \* attention.sqlite3
          outbox,         \* delivery.sqlite3
          actor,          \* control state of each process
          mode,           \* policy mode the service runs with
          today,          \* local day
          crashes,        \* service crashes so far
          errors,         \* aborted requests so far
          sends,          \* history: transport calls per occurrence
          interruptions   \* history: transport calls per local day

INSTANCE AttentionLedger
INSTANCE DeliveryOutbox

vars == <<rev, live, review, notices, decisions, outbox, actor, mode, today,
          crashes, errors, sends, interruptions>>
history == <<sends, interruptions>>
faults == <<crashes, errors>>

ServicePcs == {"down", "idle", "clean", "purgeAttention", "ackNotice", "control",
               "review", "ackReview", "dispatch"}
SendPcs == {"insert", "admitted", "vetted", "cleared", "claimed", "current", "sending",
            "answered", "finished"}
Answers == {"accepted", "delivered", "uncertain", "held"}

\* goal: what follows cleanup (service), or "apply" / "dry" (cli).  day: the
\* local day of the "now" a process passed to admit or send_once.
ActorRows == [pc : ServicePcs \cup SendPcs \cup {"start"},
              goal : {"idle", "review", "control", "apply", "dry"},
              obj : Objects \cup {Null}, rev : 0..MaxRevision, day : 0..MaxDay,
              text : Texts \cup {Null}, ans : Answers \cup {Null}]

At(pc, goal) == [pc |-> pc, goal |-> goal, obj |-> Null, rev |-> 0, day |-> 0,
                 text |-> Null, ans |-> Null]

PipelineTypeOK ==
    /\ JournalTypeOK /\ LedgerTypeOK /\ OutboxTypeOK
    /\ actor \in [Actors -> ActorRows]
    /\ mode \in Modes
    /\ today \in 1..MaxDay
    /\ crashes \in 0..MaxCrashes /\ errors \in 0..MaxErrors
    /\ sends \in [Objects -> Nat]
    /\ interruptions \in [1..MaxDay -> Nat]

Init ==
    /\ JournalInit /\ LedgerInit /\ OutboxInit
    /\ actor = [a \in Actors |-> At(IF a = "service" THEN "down" ELSE "idle", "idle")]
    /\ mode \in Modes
    /\ today = 1
    /\ crashes = 0 /\ errors = 0
    /\ sends = [o \in Objects |-> 0]
    /\ interruptions = [d \in 1..MaxDay |-> 0]

\* A service step on revision r of object o.
Handling(pc, goal, o, r) ==
    [pc |-> pc, goal |-> goal, obj |-> o, rev |-> r, day |-> 0, text |-> Null, ans |-> Null]

\* The row of a process on the send path, at its next step.
Sending(pc, me, day, ans) ==
    [pc |-> pc, goal |-> me.goal, obj |-> me.obj, rev |-> me.rev, day |-> day,
     text |-> me.text, ans |-> ans]

Become(a, row) == actor' = [actor EXCEPT ![a] = row]
Goto(a, pc) == Become(a, Sending(pc, actor[a], actor[a].day, actor[a].ans))

\* Leave the send path: the dispatch loop goes on, the CLI exits.
Return(a) == Become(a, IF a = "service" THEN At("dispatch", "idle") ELSE At("idle", "idle"))

service == actor["service"]

-----------------------------------------------------------------------------
(* The service: start, crash, requests.                                    *)

\* ContextService.__init__: claims left by an earlier process are recovered.
ServiceStart ==
    /\ service.pc = "down"
    /\ RecoverInflight
    /\ mode' \in Modes
    /\ Become("service", At("idle", "idle"))
    /\ UNCHANGED <<rev, live, review, notices, decisions, today, faults, history>>

ServiceCrash ==
    /\ service.pc # "down"
    /\ crashes < MaxCrashes
    /\ crashes' = crashes + 1
    /\ Become("service", At("down", "idle"))
    /\ UNCHANGED <<rev, live, review, notices, decisions, outbox, mode, today, errors, history>>

\* A storage error aborts the request (HTTP 503); the process lives on, and
\* nothing recovers what the request left behind.
RequestFails ==
    /\ service.pc \notin {"down", "idle"}
    /\ errors < MaxErrors
    /\ errors' = errors + 1
    /\ Become("service", At("idle", "idle"))
    /\ UNCHANGED <<rev, live, review, notices, decisions, outbox, mode, today, crashes, history>>

\* POST /v1/events: the store's transaction, then cleanup under the same lock.
IngestRequest(o, r) ==
    /\ service.pc = "idle"
    /\ Publish(o, r) \/ Withdraw(o, r)
    /\ Become("service", At("clean", "idle"))
    /\ UNCHANGED <<decisions, outbox, mode, today, faults, history>>

\* POST /v1/coverage, /v1/review (goal "review"), /v1/tools decision
\* operations (goal "control"; every other tool, and an event the journal
\* does not accept, is a refused control): cleanup runs first.
Request(goal) ==
    /\ service.pc = "idle"
    /\ Become("service", At("clean", goal))
    /\ UNCHANGED <<rev, live, review, notices, decisions, outbox, mode, today, faults, history>>

-----------------------------------------------------------------------------
(* cleanup: per notice three transactions in three files.                  *)

CurrentNotice(n) == n.obj = service.obj /\ n.rev = service.rev

CleanOutbox(n) ==
    /\ service.pc = "clean"
    /\ \A other \in notices : other.obj = n.obj => other.rev >= n.rev
    /\ PurgeRow(n.obj)
    /\ Become("service", Handling("purgeAttention", service.goal, n.obj, n.rev))
    /\ UNCHANGED <<rev, live, review, notices, decisions, mode, today, faults, history>>

CleanAttention(n) ==
    /\ service.pc = "purgeAttention"
    /\ CurrentNotice(n)
    /\ PurgeDecisions(n.obj, n.op = "upsert")
    /\ Become("service", Handling("ackNotice", service.goal, n.obj, n.rev))
    /\ UNCHANGED <<rev, live, review, notices, outbox, mode, today, faults, history>>

CleanAck(n) ==
    /\ service.pc = "ackNotice"
    /\ CurrentNotice(n)
    /\ Purged(n)
    /\ Become("service", At("clean", service.goal))
    /\ UNCHANGED <<decisions, outbox, mode, today, faults, history>>

\* Faulty variant: the request goes on while purges are queued.
CleanSkipped ==
    /\ service.pc = "clean"
    /\ Become("service", At(service.goal, "idle"))
    /\ UNCHANGED <<rev, live, review, notices, decisions, outbox, mode, today, faults, history>>

CleanDone ==
    /\ service.pc = "clean"
    /\ notices = {}
    /\ Become("service", At(service.goal, "idle"))
    /\ UNCHANGED <<rev, live, review, notices, decisions, outbox, mode, today, faults, history>>

-----------------------------------------------------------------------------
(* Requests proper.                                                        *)

\* homecompute_context_decision: the owner snoozes, dismisses or stops.
ControlDecision(o, r, op) ==
    /\ service.pc = "control"
    /\ ApplyDecision(o, r, op)
    /\ Become("service", At("idle", "idle"))
    /\ UNCHANGED <<rev, live, review, notices, outbox, mode, today, faults, history>>

ControlRefused ==
    /\ service.pc = "control"
    /\ Become("service", At("idle", "idle"))
    /\ UNCHANGED <<rev, live, review, notices, decisions, outbox, mode, today, faults, history>>

\* review: a durable decision first, the acknowledgement after it.  "digest"
\* stands for every outcome that is not dispatched.
ReviewRecord(o, r) ==
    /\ service.pc = "review"
    /\ \E outcome \in {"digest", "notify"}, snoozeOver \in BOOLEAN :
          RecordDecision(o, r, outcome, today, mode = "shadow", snoozeOver)
    /\ Become("service", Handling("ackReview", "idle", o, r))
    /\ UNCHANGED <<rev, live, review, notices, outbox, mode, today, faults, history>>

ReviewAck ==
    /\ service.pc = "ackReview"
    /\ Reviewed(<<service.obj, service.rev>>)
    /\ Become("service", At("review", "idle"))
    /\ UNCHANGED <<decisions, outbox, mode, today, faults, history>>

\* What is left belongs to sources without coverage.
ReviewDone ==
    /\ service.pc = "review"
    /\ Become("service", At(IF mode = "active" THEN "dispatch" ELSE "idle", "idle"))
    /\ UNCHANGED <<rev, live, review, notices, decisions, outbox, mode, today, faults, history>>

DispatchDone ==
    /\ service.pc = "dispatch"
    /\ Become("service", At("idle", "idle"))
    /\ UNCHANGED <<rev, live, review, notices, decisions, outbox, mode, today, faults, history>>

-----------------------------------------------------------------------------
(* Admission: the checks of admit, then its transaction.                   *)

WithinBudget(day) == Spent(day) <= DailyLimit

Admissible(o, r, states, day) ==
    /\ decisions[o][r].outcome = "notify"
    /\ decisions[o][r].state \in states
    /\ decisions[o][r].cited
    /\ Served(o, r)
    /\ WithinBudget(day)

Inserting(goal, o, r, day, text) ==
    [pc |-> "insert", goal |-> goal, obj |-> o, rev |-> r, day |-> day, text |-> text,
     ans |-> Null]

\* dispatch_attention skips a decision whose row is no longer pending.
DispatchCheck(o, r) ==
    /\ service.pc = "dispatch"
    /\ RowStatus(o, r) \in {"none", "pending"}
    /\ Admissible(o, r, {"pending"}, today)
    /\ Become("service", Inserting("apply", o, r, today, ServiceText))
    /\ UNCHANGED <<rev, live, review, notices, decisions, outbox, mode, today, faults, history>>

\* The CLI takes its time stamp, then recovers the claims it finds, under the
\* lock that excludes other CLIs.  It loads the policy file itself, whatever
\* mode the service runs with.
CliStart ==
    /\ actor["cli"].pc = "idle"
    /\ RecoverInflight
    /\ Become("cli", [At("start", "idle") EXCEPT !.day = today])
    /\ UNCHANGED <<rev, live, review, notices, decisions, mode, today, faults, history>>

CliCheck(o, r, text, goal) ==
    LET day == actor["cli"].day
    IN  /\ actor["cli"].pc = "start"
        /\ Admissible(o, r, IF goal = "dry" THEN {"shadow", "pending"} ELSE {"pending"}, day)
        /\ Become("cli", Inserting(goal, o, r, day, text))
        /\ UNCHANGED <<rev, live, review, notices, decisions, outbox, mode, today, faults,
                       history>>

\* The CLI is refused, interrupted or killed, at any point.
CliExit ==
    /\ actor["cli"].pc # "idle"
    /\ Become("cli", At("idle", "idle"))
    /\ UNCHANGED <<rev, live, review, notices, decisions, outbox, mode, today, faults, history>>

\* admit's transaction.  The service reads the clock again for send_once.
AdmitInsert(a) ==
    LET me == actor[a]
        row == AdmittedRow(me.obj, me.rev, me.text, me.goal = "dry")
        now == IF a = "service" THEN today ELSE me.day
    IN  /\ me.pc = "insert"
        /\ \/ /\ Admit(me.obj, me.rev, me.text, me.goal = "dry")
              /\ IF row.status = "pending" /\ me.goal = "apply"
                 THEN Become(a, Sending("admitted", me, now, Null)) ELSE Return(a)
           \/ /\ AdmitRefused(me.obj, me.rev, me.text, me.goal = "dry")
              /\ UNCHANGED outbox
              /\ Return(a)
        /\ UNCHANGED <<rev, live, review, notices, decisions, mode, today, faults, history>>

-----------------------------------------------------------------------------
(* send_once.                                                              *)

\* A decision that changed, or a grant that expired, raises.
SendVet(a) ==
    LET d == decisions[actor[a].obj][actor[a].rev]
    IN  /\ actor[a].pc = "admitted"
        /\ \/ d.state = "pending" /\ d.outcome = "notify" /\ d.cited /\ Goto(a, "vetted")
           \/ Return(a)
        /\ UNCHANGED <<rev, live, review, notices, decisions, outbox, mode, today, faults,
                       history>>

\* A changed source, a closed gate or a spent budget holds the row and raises.
SendGate(a) ==
    LET o == actor[a].obj
        r == actor[a].rev
    IN  /\ actor[a].pc = "vetted"
        /\ \/ /\ Served(o, r) /\ WithinBudget(actor[a].day)
              /\ Goto(a, "cleared")
              /\ UNCHANGED outbox
           \/ Hold(o, r) /\ Return(a)
        /\ UNCHANGED <<rev, live, review, notices, decisions, mode, today, faults, history>>

SendClaim(a) ==
    LET o == actor[a].obj
        r == actor[a].rev
    IN  /\ actor[a].pc = "cleared"
        /\ \/ Claim(o, r) /\ Goto(a, "claimed")
           \/ RowStatus(o, r) # "pending" /\ UNCHANGED outbox /\ Return(a)
        /\ UNCHANGED <<rev, live, review, notices, decisions, mode, today, faults, history>>

\* After the claim the decision and the source are read again.
SendRecheck(a) ==
    LET o == actor[a].obj
        r == actor[a].rev
        unchanged == decisions[o][r].state = "pending" /\ Served(o, r)
    IN  /\ actor[a].pc = "claimed"
        /\ \/ unchanged /\ Goto(a, "current") /\ UNCHANGED outbox
           \/ ~unchanged /\ Finish(o, r, "held") /\ Return(a)
           \/ ~unchanged /\ RowStatus(o, r) # "claimed" /\ UNCHANGED outbox /\ Return(a)
        /\ UNCHANGED <<rev, live, review, notices, decisions, mode, today, faults, history>>

\* Last gates before I/O, on a fresh clock; a closed one finishes the row held.
SendLastGate(a) ==
    LET o == actor[a].obj
        r == actor[a].rev
    IN  /\ actor[a].pc = "current"
        /\ \/ WithinBudget(today) /\ Goto(a, "sending") /\ UNCHANGED outbox
           \/ Finish(o, r, "held") /\ Return(a)
           \/ RowStatus(o, r) # "claimed" /\ UNCHANGED outbox /\ Return(a)
        /\ UNCHANGED <<rev, live, review, notices, decisions, mode, today, faults, history>>

\* The one transport call; its answer, or its absence, is classified.
SendTransport(a) ==
    /\ actor[a].pc = "sending"
    /\ sends' = [sends EXCEPT ![actor[a].obj] = @ + 1]
    /\ interruptions' = [interruptions EXCEPT ![today] = @ + 1]
    /\ \E answer \in Answers :
          Become(a, Sending("answered", actor[a], actor[a].day, answer))
    /\ UNCHANGED <<rev, live, review, notices, decisions, outbox, mode, today, faults>>

SendFinish(a) ==
    LET o == actor[a].obj
        r == actor[a].rev
    IN  /\ actor[a].pc = "answered"
        /\ \/ Finish(o, r, actor[a].ans) /\ Goto(a, "finished")
           \/ RowStatus(o, r) # "claimed" /\ UNCHANGED outbox /\ Return(a)
        /\ UNCHANGED <<rev, live, review, notices, decisions, mode, today, faults, history>>

SendMark(a) ==
    /\ actor[a].pc = "finished"
    /\ MarkDelivery(actor[a].obj, actor[a].rev, actor[a].ans)
    /\ Return(a)
    /\ UNCHANGED <<rev, live, review, notices, outbox, mode, today, faults, history>>

SendStep(a) ==
    \/ AdmitInsert(a) \/ SendVet(a) \/ SendGate(a) \/ SendClaim(a) \/ SendRecheck(a)
    \/ SendLastGate(a) \/ SendTransport(a) \/ SendFinish(a) \/ SendMark(a)

-----------------------------------------------------------------------------
NextDay ==
    /\ today < MaxDay
    /\ today' = today + 1
    /\ UNCHANGED <<rev, live, review, notices, decisions, outbox, actor, mode, faults, history>>

Clean ==
    CleanDone \/ \E n \in notices : CleanOutbox(n) \/ CleanAttention(n) \/ CleanAck(n)

ServiceNext ==
    \/ ServiceStart \/ ServiceCrash \/ RequestFails \/ Clean \/ ControlRefused
    \/ ReviewAck \/ ReviewDone \/ DispatchDone
    \/ Request("review") \/ Request("control")
    \/ \E p \in review : ReviewRecord(p[1], p[2])
    \/ \E o \in Objects, r \in Revisions :
          \/ IngestRequest(o, r) \/ DispatchCheck(o, r)
          \/ \E op \in {"snooze", "dismiss", "stop"} : ControlDecision(o, r, op)

CliNext ==
    \/ CliStart \/ CliExit
    \/ \E o \in Objects, r \in Revisions, text \in Texts, goal \in {"apply", "dry"} :
          CliCheck(o, r, text, goal)

Next ==
    \/ "service" \in Actors /\ ServiceNext
    \/ "cli" \in Actors /\ CliNext
    \/ \E a \in Actors : SendStep(a)
    \/ NextDay

Spec == Init /\ [][Next]_vars

\* The service is restarted after a crash and finishes the request it serves
\* (systemd Restart=on-failure); collectors post coverage on a timer.
ServiceProgress ==
    \/ ServiceStart \/ Clean \/ ControlRefused \/ ReviewAck \/ ReviewDone \/ DispatchDone
    \/ Request("review") \/ SendStep("service")

FairSpec == Spec /\ WF_vars(ServiceProgress)

-----------------------------------------------------------------------------
(* Properties.                                                             *)

\* One effective notification per occurrence: whatever the two processes,
\* crashes, restarts and recoveries do, the transport is called at most once
\* for an object ("Accepted or uncertain sends are never retried").
AtMostOneSend == \A o \in Objects : sends[o] <= 1

\* A call that was made is never forgotten: its row is claimed or ended in a
\* state that says the message may be out, so nothing can admit it afresh.
SentIsOnRecord ==
    \A o \in Objects :
        /\ sends[o] > 0 => outbox[o].status \in {"claimed", "accepted", "delivered",
                                                 "uncertain", "held"}
        /\ outbox[o].status \in {"accepted", "delivered"} => sends[o] > 0

\* A dispatchable decision speaks for the served revision, or the purge of
\* its object is queued: cleanup and review recover across crashes.
PendingDecisionIsCurrent ==
    \A o \in Objects, r \in Revisions :
        decisions[o][r].state = "pending" =>
            Served(o, r) \/ \E n \in notices : n.obj = o

\* No accepted revision is lost between the store and the ledger: the served
\* revision is queued for review or has its decision, whatever crashed or
\* was purged in between (review: "ack only after durable decision
\* admission").
AcceptedIsReviewed ==
    \A o \in Objects, r \in Revisions :
        Served(o, r) => <<o, r>> \in review \/ decisions[o][r].state # "none"

\* A message body in the outbox belongs to the served revision, or its purge
\* is queued or under way: source deletion reaches every copy of the text.
BodyFollowsSource ==
    \A o \in Objects :
        outbox[o].body => Served(o, outbox[o].rev) \/ \E n \in notices : n.obj = o

\* Terminal rows never change status (recover_inflight: "never retried").
FinalStaysFinal ==
    [][\A o \in Objects :
          outbox[o].status \in Final => outbox'[o].status = outbox[o].status]_vars

\* The owner is interrupted at most DailyLimit times on a local day
\* (docs/proactive-personal-assistant-plan.md: "at most two discretionary
\* interruptions per day").
SendsWithinDailyLimit == \A d \in 1..MaxDay : interruptions[d] <= DailyLimit

\* Every claim of the service reaches a terminal status, through crashes and
\* restarts (recover_inflight).  An aborted request may leave its claim open
\* until the next start, so it is excepted.
ClaimsResolve == \A o \in Objects :
    (outbox[o].status = "claimed") ~> (outbox[o].status # "claimed" \/ errors > 0)
=============================================================================

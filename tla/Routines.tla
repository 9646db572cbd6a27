------------------------------ MODULE Routines ------------------------------
(***************************************************************************)
(* Scheduled briefings: OccurrenceLedger and run_routine of                *)
(* scripts/assistant_context_briefings.py inside ContextService, and the   *)
(* retrieval cache of scripts/assistant_context_retrieval.py, the two      *)
(* derived stores NotificationPipeline leaves out.                         *)
(*                                                                         *)
(* The service's RLock runs one request at a time; every transaction and   *)
(* every external call is a step, the process may crash between any two of *)
(* them, and a storage error may end any request.  One routine is          *)
(* modelled: its occurrence key is the local day, and a run is accepted    *)
(* only for the current day.                                               *)
(*                                                                         *)
(* Source coverage and the standing grant lapse with time: wherever the    *)
(* code reads them the model may let the gate close.  A briefing is the    *)
(* set of <<object, revision>> pairs it cites; its wording (a language     *)
(* model's, or the deterministic fallback's) may differ from run to run    *)
(* over the same citations.  Request ids and expected revisions make a     *)
(* repeated or outdated control a refusal, which changes nothing.          *)
(***************************************************************************)
EXTENDS SourceJournal, FiniteSets

CONSTANTS MaxDay,      \* bound on local days
          MaxCrashes,  \* bound on service crashes
          MaxErrors,   \* bound on requests ended by a storage error
          NoticeBatch  \* notices one cleanup handles (100 in the code)

ASSUME RoutineAssumption ==
    /\ MaxRevision \in Nat /\ MaxDay \in Nat \ {0}
    /\ MaxCrashes \in Nat /\ MaxErrors \in Nat /\ NoticeBatch \in Nat \ {0}

VARIABLES vectors,    \* retrieval.sqlite3: cached <<object, revision>> vectors
          occ,        \* routine_occurrences, per day
          dlv,        \* routine_deliveries, per day
          control,    \* routine_controls of the routine
          today,      \* local day
          call,       \* the request under the lock
          crashes, errors,
          shown       \* history: briefings the route posted, per day

faults == <<crashes, errors>>
ledgers == <<occ, dlv, control>>
routineVars == <<rev, live, review, notices, vectors, occ, dlv, control, today,
                 call, crashes, errors, shown>>

Days == 1..MaxDay
Pairs == Objects \X Revisions

Statuses == {"none", "accepted", "sending", "completed", "uncertain", "suppressed",
             "cancelled", "snoozed"}
DeliveryStatuses == {"none", "claimed", "delivered", "accepted", "uncertain", "held"}
Goals == {"idle", "search", "routine", "run"}
Pcs == Goals \cup {"down", "clean", "purgeRoutine", "ackNotice", "build", "claim",
                   "recheck", "send", "finish"}

\* asleep: the occurrence's own snooze lies in the future.
OccRows == [status : Statuses, asleep : BOOLEAN]
DlvRows == [status : DeliveryStatuses, refs : SUBSET Pairs]
Calls == [pc : Pcs, goal : Goals, key : 0..MaxDay, cites : SUBSET Pairs,
          notice : SUBSET Notices, left : 0..NoticeBatch, ans : DeliveryStatuses]

At(pc, goal) == [pc |-> pc, goal |-> goal, key |-> 0, cites |-> {}, notice |-> {},
                 left |-> 0, ans |-> "none"]
Idle == At("idle", "idle")
Running(pc, key, cites, ans) ==
    [pc |-> pc, goal |-> "run", key |-> key, cites |-> cites, notice |-> {},
     left |-> 0, ans |-> ans]
\* A cleanup with the given notice in hand and a bound on those still to come.
Cleaning(pc, goal, notice, left) ==
    [pc |-> pc, goal |-> goal, key |-> 0, cites |-> {}, notice |-> notice,
     left |-> left, ans |-> "none"]
Cleanup(goal) == Cleaning("clean", goal, {}, NoticeBatch)

Occ(status, asleep) == [status |-> status, asleep |-> asleep]
Dlv(status, refs) == [status |-> status, refs |-> refs]

RoutineTypeOK ==
    /\ JournalTypeOK
    /\ vectors \in SUBSET Pairs
    /\ occ \in [Days -> OccRows]
    /\ dlv \in [Days -> DlvRows]
    /\ control \in {"open", "blocked", "snoozed"}
    /\ today \in Days
    /\ call \in Calls
    /\ crashes \in 0..MaxCrashes /\ errors \in 0..MaxErrors
    /\ shown \in [Days -> Nat]

RoutineInit ==
    /\ JournalInit
    /\ vectors = {}
    /\ occ = [d \in Days |-> Occ("none", FALSE)]
    /\ dlv = [d \in Days |-> Dlv("none", {})]
    /\ control = "open"
    /\ today = 1
    /\ call = At("down", "idle")
    /\ crashes = 0 /\ errors = 0
    /\ shown = [d \in Days |-> 0]

-----------------------------------------------------------------------------
(* Time, process life and requests.                                        *)

NewDay ==
    /\ today < MaxDay
    /\ today' = today + 1
    /\ UNCHANGED <<journal, vectors, ledgers, call, faults, shown>>

\* The routine's snooze, or one occurrence's, runs out.
SnoozeEnds ==
    /\ \/ control = "snoozed" /\ control' = "open" /\ occ' = occ
       \/ \E d \in Days : /\ occ[d].asleep
                          /\ occ' = [occ EXCEPT ![d] = Occ(occ[d].status, FALSE)]
                          /\ control' = control
    /\ UNCHANGED <<journal, vectors, dlv, today, call, faults, shown>>

\* Faulty variant: an interrupted claim is handed back for another try.
RecoverReleases ==
    /\ dlv' = [d \in Days |-> IF dlv[d].status = "claimed" THEN Dlv("none", {}) ELSE dlv[d]]
    /\ occ' = [d \in Days |-> IF dlv[d].status = "claimed"
                              THEN Occ("accepted", occ[d].asleep) ELSE occ[d]]

\* recover_inflight: claims left by an earlier process, whatever their day.
RecoverInflight ==
    /\ dlv' = [d \in Days |-> IF dlv[d].status = "claimed"
                              THEN Dlv("uncertain", dlv[d].refs) ELSE dlv[d]]
    /\ occ' = [d \in Days |-> IF dlv[d].status = "claimed"
                              THEN Occ("uncertain", occ[d].asleep) ELSE occ[d]]

ServiceStart ==
    /\ call.pc = "down"
    /\ RecoverInflight
    /\ call' = Idle
    /\ UNCHANGED <<journal, vectors, control, today, faults, shown>>

ServiceCrash ==
    /\ call.pc # "down"
    /\ crashes < MaxCrashes
    /\ crashes' = crashes + 1
    /\ call' = At("down", "idle")
    /\ UNCHANGED <<journal, vectors, ledgers, today, errors, shown>>

\* A storage error ends the request; the process lives on, and a claim the
\* request committed stays until a restart, a purge or another run meets it.
RequestFails ==
    /\ call.pc \notin {"down", "idle"}
    /\ errors < MaxErrors
    /\ errors' = errors + 1
    /\ call' = Idle
    /\ UNCHANGED <<journal, vectors, ledgers, today, crashes, shown>>

\* Faulty variant: events are admitted without taking the service's lock.
IngestUnlocked(o, r) ==
    /\ call.pc # "down"
    /\ Publish(o, r) \/ Withdraw(o, r)
    /\ UNCHANGED <<vectors, ledgers, today, call, faults, shown>>

\* POST /v1/events: the store's transaction, then cleanup under the lock.
IngestRequest(o, r) ==
    /\ call.pc = "idle"
    /\ Publish(o, r) \/ Withdraw(o, r)
    /\ call' = Cleanup("idle")
    /\ UNCHANGED <<vectors, ledgers, today, faults, shown>>

\* POST /v1/tools (search, routine, and with goal "idle" any tool that
\* leaves this state alone) and POST /v1/routines/run: cleanup first.
Request(goal) ==
    /\ call.pc = "idle"
    /\ call' = Cleanup(goal)
    /\ UNCHANGED <<journal, vectors, ledgers, today, faults, shown>>

-----------------------------------------------------------------------------
(* cleanup: the notices of an object in revision order; the attention,     *)
(* outbox and delegation purges are in NotificationPipeline and Delegation.*)

CleanVectors(n) ==
    /\ call.pc = "clean" /\ call.left > 0
    /\ n \in notices
    /\ \A other \in notices : other.obj = n.obj => other.rev >= n.rev
    /\ vectors' = {p \in vectors : p[1] # n.obj}
    /\ call' = Cleaning("purgeRoutine", call.goal, {n}, call.left - 1)
    /\ UNCHANGED <<journal, ledgers, today, faults, shown>>

\* Faulty variant: only receipts of the notice's new revision are scrubbed.
CitesRevision(d, n) == <<n.obj, n.rev>> \in dlv[d].refs

\* A receipt cites the notice's object, at whatever revision.
CitesObject(d, n) == \E p \in dlv[d].refs : p[1] = n.obj

\* OccurrenceLedger.purge_source: receipts citing the object lose their
\* references; a claim among them ends as uncertain.
CleanRoutine(n) ==
    /\ call.pc = "purgeRoutine"
    /\ n \in call.notice
    /\ dlv' = [d \in Days |->
                 IF CitesObject(d, n)
                 THEN Dlv(IF dlv[d].status = "claimed" THEN "uncertain" ELSE dlv[d].status, {})
                 ELSE dlv[d]]
    /\ occ' = [d \in Days |->
                 IF CitesObject(d, n) /\ dlv[d].status = "claimed"
                 THEN Occ("uncertain", occ[d].asleep) ELSE occ[d]]
    /\ call' = Cleaning("ackNotice", call.goal, {n}, call.left)
    /\ UNCHANGED <<journal, vectors, control, today, faults, shown>>

CleanAck(n) ==
    /\ call.pc = "ackNotice"
    /\ n \in call.notice
    /\ Purged(n)
    /\ call' = Cleaning("clean", call.goal, {}, call.left)
    /\ UNCHANGED <<vectors, ledgers, today, faults, shown>>

\* Faulty variant: the request goes on while purges are queued.
CleanSkipped ==
    /\ call.pc = "clean"
    /\ call' = At(call.goal, "idle")
    /\ UNCHANGED <<journal, vectors, ledgers, today, faults, shown>>

CleanDone ==
    /\ call.pc = "clean"
    /\ notices = {}
    /\ call' = At(call.goal, "idle")
    /\ UNCHANGED <<journal, vectors, ledgers, today, faults, shown>>

\* More notices than one cleanup handles: the request is refused.
CleanOverflow ==
    /\ call.pc = "clean" /\ call.left = 0
    /\ notices # {}
    /\ call' = Idle
    /\ UNCHANGED <<journal, vectors, ledgers, today, faults, shown>>

-----------------------------------------------------------------------------
(* Search, and the owner's controls.                                       *)

ServedPairs == {p \in Pairs : Served(p[1], p[2])}

\* search caches vectors of some current projections (none when the embedding
\* service fails) and may evict old ones.
Search ==
    /\ call.pc = "search"
    /\ vectors' \in SUBSET (vectors \cup ServedPairs)
    /\ call' = Idle
    /\ UNCHANGED <<journal, ledgers, today, faults, shown>>

Finished == call' = Idle /\ UNCHANGED <<journal, vectors, today, faults, shown>>

\* control: pause and cancel block the routine, resume opens it.
Control ==
    /\ call.pc = "routine"
    /\ control' \in {"open", "blocked", "snoozed"}
    /\ Finished
    /\ UNCHANGED <<occ, dlv>>

\* transition: the owner cancels or snoozes one occurrence.
Transition(d) ==
    /\ call.pc = "routine"
    /\ \/ /\ occ[d].status \in {"accepted", "snoozed"}
          /\ occ' = [occ EXCEPT ![d] = Occ("cancelled", FALSE)]
       \/ /\ occ[d].status = "accepted"
          /\ occ' = [occ EXCEPT ![d] = Occ("snoozed", TRUE)]
    /\ Finished
    /\ UNCHANGED <<dlv, control>>

Refused ==
    /\ call.pc = "routine"
    /\ Finished
    /\ UNCHANGED ledgers

-----------------------------------------------------------------------------
(* run_routine: admit, build, send_once.                                   *)

\* Faulty variant: a snoozed routine is not held back.
PauseBlocks(c) == c = "blocked"

\* _control_blocks
ControlBlocks(c) == c \in {"blocked", "snoozed"}

\* The occurrence row admit leaves, from the row it finds.
Admitted(d) ==
    LET found == IF occ[d].status # "none" THEN occ[d]
                 ELSE Occ(IF ControlBlocks(control) THEN "suppressed" ELSE "accepted", FALSE)
    IN  IF /\ ~ControlBlocks(control) /\ ~found.asleep
           /\ found.status \in {"suppressed", "snoozed"}
           /\ dlv[d].status = "none"
        THEN Occ("accepted", FALSE)
        ELSE found

\* What admit tells its caller: go no further.
Held(d) ==
    LET row == Admitted(d)
    IN  \/ row.status = "suppressed"
        \/ /\ ControlBlocks(control) \/ row.asleep
           /\ row.status \in {"accepted", "snoozed"}

Admit(d) ==
    /\ call.pc = "run"
    /\ d = today
    /\ occ' = [occ EXCEPT ![d] = Admitted(d)]
    /\ call' = IF Held(d) THEN Idle ELSE Running("build", d, {}, "none")
    /\ UNCHANGED <<journal, vectors, dlv, control, today, faults, shown>>

\* builder.build and the checks of send_once before its transaction: current
\* citations, fresh coverage, an active grant.
Build ==
    /\ call.pc = "build"
    /\ \E cites \in SUBSET ServedPairs \ {{}} : call' = Running("claim", call.key, cites, "none")
    /\ UNCHANGED <<journal, vectors, ledgers, today, faults, shown>>

\* One of those checks raises, or delivery is not enabled (a shadow draft).
BuildRefused ==
    /\ call.pc = "build"
    /\ Finished
    /\ UNCHANGED ledgers

\* The claim transaction, on an occurrence without a receipt.
Claim(d) ==
    /\ call.pc = "claim"
    /\ d = call.key
    /\ ~ControlBlocks(control)
    /\ dlv[d].status = "none"
    /\ occ[d].status = "accepted"
    /\ dlv' = [dlv EXCEPT ![d] = Dlv("claimed", call.cites)]
    /\ occ' = [occ EXCEPT ![d] = Occ("sending", occ[d].asleep)]
    /\ call' = Running("recheck", d, call.cites, "none")
    /\ UNCHANGED <<journal, vectors, control, today, faults, shown>>

\* The same briefing meets a claim left behind: it ends as uncertain.
ClaimInterrupted(d) ==
    /\ call.pc = "claim"
    /\ d = call.key
    /\ ~ControlBlocks(control)
    /\ dlv[d].status = "claimed" /\ dlv[d].refs = call.cites
    /\ dlv' = [dlv EXCEPT ![d] = Dlv("uncertain", dlv[d].refs)]
    /\ occ' = [occ EXCEPT ![d] = Occ("uncertain", occ[d].asleep)]
    /\ Finished
    /\ UNCHANGED control

\* The routine is blocked, the receipt is settled or of another briefing, or
\* the occurrence is not accepted.
ClaimRefused(d) ==
    /\ call.pc = "claim"
    /\ d = call.key
    /\ ControlBlocks(control) \/ dlv[d].status # "none" \/ occ[d].status # "accepted"
    /\ Finished
    /\ UNCHANGED ledgers

\* After the commit: coverage, revisions and grant once more.
Recheck ==
    /\ call.pc = "recheck"
    /\ \/ /\ call.cites \subseteq ServedPairs
          /\ call' = Running("send", call.key, call.cites, "none")
       \/ call' = Running("finish", call.key, call.cites, "held")
    /\ UNCHANGED <<journal, vectors, ledgers, today, faults, shown>>

\* Faulty variant: an answer that never arrived counts as a refusal.
AnswersOptimist(posted) == IF posted THEN {"delivered", "accepted", "held"} ELSE {"held"}

\* classify_hermes_response on what comes back: an exception, a 5xx or a
\* duplicate tells nothing; only a refusal is known not to be posted.
Answers(posted) ==
    IF posted THEN {"delivered", "accepted", "uncertain"} ELSE {"accepted", "uncertain", "held"}

\* The transport call: the route posts the briefing or does not.
Send(d) ==
    /\ call.pc = "send"
    /\ d = call.key
    /\ \E posted \in BOOLEAN :
          /\ shown' = IF posted THEN [shown EXCEPT ![d] = shown[d] + 1] ELSE shown
          /\ \E ans \in Answers(posted) : call' = Running("finish", d, call.cites, ans)
    /\ UNCHANGED <<journal, vectors, ledgers, today, faults>>

\* Faulty variant: the route's admission counts as completion.
FinalEager(ans) ==
    CASE ans \in {"delivered", "accepted"} -> "completed"
      [] ans = "uncertain" -> "uncertain"
      [] OTHER -> "suppressed"

FinalOccurrence(ans) ==
    CASE ans = "delivered" -> "completed"
      [] ans \in {"uncertain", "accepted"} -> ans
      [] OTHER -> "suppressed"

\* The last transaction; each update is guarded by the state the claim left.
Finish(d) ==
    /\ call.pc = "finish"
    /\ d = call.key
    /\ dlv' = IF dlv[d].status = "claimed"
              THEN [dlv EXCEPT ![d] = Dlv(call.ans, dlv[d].refs)] ELSE dlv
    /\ occ' = IF occ[d].status = "sending"
              THEN [occ EXCEPT ![d] = Occ(FinalOccurrence(call.ans), occ[d].asleep)] ELSE occ
    /\ Finished
    /\ UNCHANGED control

-----------------------------------------------------------------------------
\* What the thread holding the lock does next.
Step ==
    \/ \E n \in notices : CleanVectors(n) \/ CleanRoutine(n) \/ CleanAck(n)
    \/ CleanDone \/ CleanOverflow
    \/ Search \/ Control \/ Refused \/ \E d \in Days : Transition(d)
    \/ Build \/ BuildRefused \/ Recheck
    \/ \E d \in Days : \/ Admit(d) \/ Claim(d) \/ ClaimInterrupted(d) \/ ClaimRefused(d)
                       \/ Send(d) \/ Finish(d)

RoutineNext ==
    \/ NewDay \/ SnoozeEnds
    \/ ServiceStart \/ ServiceCrash \/ RequestFails
    \/ \E o \in Objects, r \in Revisions : IngestRequest(o, r)
    \/ \E goal \in Goals : Request(goal)
    \/ Step

RoutineSpec == RoutineInit /\ [][RoutineNext]_routineVars

\* systemd restarts the service, a request that holds the lock goes on (its
\* external calls have timeouts), and callers keep coming (timers of the
\* collectors and of the workflows).
FairRoutineSpec ==
    /\ RoutineSpec
    /\ WF_routineVars(ServiceStart)
    /\ WF_routineVars(Step)
    /\ WF_routineVars(\E goal \in Goals : Request(goal))

-----------------------------------------------------------------------------
(* Properties.                                                             *)

\* The route posts at most one briefing per occurrence, whatever crashes,
\* storage errors, lost answers and re-triggered runs come between the claim
\* and its settlement ("a committed claim is terminal on interruption").
AtMostOneBriefing == \A d \in Days : shown[d] <= 1

\* The delivery status each occurrence status goes with: "completed" only
\* over a delivery the route confirmed, "sending" exactly while a claim is
\* open, a held one suppressed for good.  A posted briefing is never filed as
\* unsent or held.
LedgersAgree ==
    \A d \in Days :
        /\ occ[d].status = "sending" <=> dlv[d].status = "claimed"
        /\ occ[d].status = "completed" <=> dlv[d].status = "delivered"
        /\ occ[d].status = "uncertain" <=> dlv[d].status = "uncertain"
        /\ dlv[d].status = "held" => occ[d].status = "suppressed"
        /\ shown[d] > 0 => dlv[d].status \in {"claimed", "delivered", "accepted", "uncertain"}

\* Every cached vector and every citation on a receipt is of a revision still
\* served, unless a queued notice will purge that object's copies.
CopiesAreCurrent ==
    \A p \in vectors \cup UNION {dlv[d].refs : d \in Days} :
        Served(p[1], p[2]) \/ \E n \in notices : n.obj = p[1]

\* A briefing is posted only for citations that are served at that moment, and
\* never while the owner has the routine paused, cancelled or snoozed or for an
\* occurrence the owner cancelled or snoozed, though sources and controls may
\* change between admission, composition and the call.
PostingIsWarranted ==
    [][\A d \in Days : shown'[d] # shown[d] =>
          /\ \A p \in call.cites : Served(p[1], p[2])
          /\ control = "open"
          /\ occ[d].status \notin {"cancelled", "snoozed"}]_routineVars

\* What was derived from a deleted object is eventually gone from the cache
\* and from the receipts, unless the object is recreated.
DeletedCopiesVanish ==
    \A o \in Objects, r \in Revisions :
        (rev[o] = r /\ ~live[o]) ~>
            \/ rev[o] > r
            \/ \A p \in vectors \cup UNION {dlv[d].refs : d \in Days} : p[1] # o
=============================================================================

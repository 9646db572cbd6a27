# HomeCompute assistant context: TLA+ specifications and proofs

HomeCompute is the configuration and tooling of a private home server.  Most of
the repository deploys third-party services.  Its own long-lived, stateful core
is the *proactive assistant context* (`scripts/assistant_context_*.py`,
`scripts/assistant_attention.py`): a private service that journals what household
sources report, decides what deserves the owner's attention, and turns a few of
those decisions into notifications, briefings and delegated analyses.  Everything
it derives from a source must disappear when the source deletes or replaces it,
and every external effect must happen at most once although processes crash and
answers get lost.  That is what this project specifies first.  The second
stateful part is *model serving*: one GPU that is switched between a text model and
media models while workflows, agent turns and other clients use it.

## 1. Inventory

| Component | State | Operations | Interacts with |
|---|---|---|---|
| Context store (`assistant_context_store.py`) | SQLite: events, current rows, review queue, invalidations, deletion floors, memories, receipts, reference tombstones | ingest, ack, ack_invalidation, replay_tombstones, propose/confirm/correct/update memory | service, recovery |
| Attention ledger (`assistant_attention.py`) | SQLite: decisions, feedback, learning candidates | record_decision, apply_decision, mark_delivery, purge_source, candidates | service, outbox, improvements |
| Delivery outbox (`assistant_context_delivery.py`) | SQLite: one row per occurrence | admit, claim, finish, hold, send_once, recover_inflight, purge_source | service, CLI, Hermes webhook |
| Context service (`assistant_context_api.py`) | coverage table, process state, one RLock | events, coverage, review, tools, routines; cleanup before each | all of the above |
| Delivery CLI (`assistant-context-deliver.py`) | a lock file | recover, admit, dry run, send | outbox, ledger, store |
| Delegation (`assistant_context_delegation.py`, `assistant-context-worker.py`) | SQLite: one row per request | submit, dispatch, status, cancel, purge_source | service; guest worker over ssh |
| Recovery (`assistant_context_recovery.py`, `restore-assistant-context-nas.py`) | restore fence, deletion ledger, scratch target | export, stage, complete (replay, scrub, open the fence) | store, every derived ledger, service start |
| Cold backup (`application-recovery.py`) | deploy lock, marker in `/run`, resume journal | prepare, quiesce, archive, resume | systemd units, containers, VM backup, deployments |
| Sources and sync (`assistant_context_sources.py`, `assistant-context-sync.py`) | SQLite: revision ledger, outbox, cursors | read, assign revisions, drain, report coverage | providers; service over HTTP |
| Briefings and routines (`assistant_context_briefings.py`) | SQLite: occurrences, deliveries, controls | admit, send_once, control, transition, recover, purge | service, model gateway, Hermes webhook |
| Improvement controller (`assistant_context_improvements.py`) | SQLite: candidates, grant usage | prepare, test, canary, promote, publish, reconcile | ledger, GitHub, evaluator |
| Policy installer (same file) | plan and result files, the managed policy file | plan, initialise, apply, restore, roll back | systemd, context service, controller |
| Retrieval (`assistant_context_retrieval.py`) | SQLite: vector cache | search, invalidate, drop after a restore | store, service |
| Text intake (`llm_admission.py`, `llm_workflow_activity.py`, `native_llm_activity.py`, `llm-queue.mjs`, gates of `llm_workflow_queue.py`) | open or closed gate, leased requests, last activity report | enter, forward, leave, readiness checks, collect and report activity | n8n, agent gateway, text engine, lifecycle controller |
| Model lifecycle (`comfyui_lifecycle.py`) | mode, last sample, idle lease (saved), two locks, switch worker | submit, switch, roll back, prompt, tick, recover | Docker, ComfyUI, text engine, text intake |

What is hard here:

* **Two processes on the same files.**  The service and the delivery CLI share
  three SQLite databases.  The service's lock is a thread lock and the CLI's file
  lock excludes CLIs only, so they interleave transaction by transaction.
* **Protocols over several databases.**  Cleanup of one invalidation touches
  outbox, ledger, cache, routines and delegation, then acknowledges in the store;
  review records a decision, then acknowledges; sending claims, calls, finishes,
  marks.  A crash or an error can fall between any two of these transactions.
* **Unreliable effects.**  The notification transport and the native worker may
  answer, not answer, or act after the caller gave up.
* **Out-of-order input.**  Sources deliver late, twice and out of order around
  deletions; a restore replays old tombstones over newer state.
* **Counting.**  The daily budget is a count of rows that other operations delete.
* **Units that stop each other.**  The cold backup, the VM backup and deployments
  stop and start the same units; a reboot loses the marker and keeps the journal.
* **Long transactions on the host.**  Restoring state and installing a policy take
  many steps over files and systemd commands, each of which may be the last.
* **Threads around two slow containers.**  A switch of the GPU takes minutes, holds
  one lock and releases another between its steps, decides on samples and reports
  taken earlier, and rolls back when any command fails.

What makes the components correct: deleted content never comes back and is
forgotten everywhere (store, ledger, outbox, delegation); what is served is the
newest accepted revision; no accepted revision is lost before review; an effect
happens at most once and is never forgotten; ended rows stay ended; queued work
drains; limits on interruptions and on concurrent runs hold; a restore brings
back no proved deletion; a backup is cold and puts everything back; only a
reviewed policy is installed, and a service left down is on file as unfinished; the GPU
holds one model at a time, and a switch neither kills jobs nor cuts off admitted work.

`PROJECT.json` lists the hazards line by line, with the properties aimed at them.

## 2. Modules

| Module | Models | Built from |
|---|---|---|
| `SourceJournal` | the promise of the store to everyone else: growing revisions, served or deleted, a review queue, invalidation notices | — |
| `ContextStore` | the store's tables and transactions | refines `SourceJournal` |
| `AttentionLedger` | the decision table | — |
| `DeliveryOutbox` | the outbox table | — |
| `NotificationPipeline` | service and CLI as processes | `SourceJournal`, `AttentionLedger`, `DeliveryOutbox` |
| `Delegation` | delegation controller, guest worker, gateway | `SourceJournal` |
| `Routines` | briefings, routine ledger, retrieval cache inside the service | `SourceJournal` |
| `SourceSync` | the collector, posting to the store | `ContextStore` |
| `Recovery` | archive, staging, completion, fence, cutover | outcome rules of `ContextStore` and `SourceSync` per object |
| `ColdBackup` | prepare and resume around VM backup, jobs and deployments | — |
| `ImprovementController` | candidates from proposal to reconciliation | — |
| `PolicyInstaller` | plans, apply, restore, rollback on the host | `ImprovementController` |
| `TextIntake` | users of the text model, the intake gate and the activity report | — |
| `ModelSwitch` | the lifecycle controller and its containers | `TextIntake` |
| `MCContextStore`, `MCNotificationPipeline`, `MCDelegation`, `MCRoutines`, `MCSourceSync`, `MCRecovery`, `MCColdBackup`, `MCPolicyInstaller`, `MCModelSwitch` | TLC instances | |
| `ContextStoreProofs`, `NotificationPipelineProofs`, `DelegationProofs`, `RoutinesProofs`, `RecoveryProofs`, `ColdBackupProofs`, `PolicyInstallerProofs`, `ModelSwitchProofs` | theorems | the module named; `ContextStoreProofs` also has those about `SourceSync` |

Operators whose comment starts with "Faulty variant" are not part of the system:
each is a plausible mistake in the definition that follows it, and the property
`PROJECT.json` pairs it with fails when it takes that definition's place.

**ContextStore.**  Each public operation of the class is one `BEGIN IMMEDIATE`
transaction and hence one action.  One scope is modelled, since every statement
carries the scope key.  An event is a journal row with its operation, reference
and content; `content` plays the payload hash kept for replay detection and
`payload` the stored text, so that scrubbing is visible.  A memory is its status,
references and a flag telling whether text is left.  The transitive scrub of
`_scrub_memory_source_hash` is the least set of memories closed under sharing a
reference.  Optimistic revision checks appear as guards: a caller whose revision is
outdated gets an error and changes nothing.

**NotificationPipeline.**  The store appears through `SourceJournal`, justified by the
refinement theorem.  Each process has a control state; one action is one transaction
(or one group of reads) of `send_once`, `admit`, `cleanup`, `review` or
`dispatch_attention`.  Policy evaluation depends on the clock, so every gate may also
close.  Reads of a decision and of its source are one step: a decision is recorded
while its revision is served and revisions only grow, so reading them in turn tells as
much as reading them at once; the budget count is read in that step too.  Of the
outbox's `TERMINAL` states, `Final` leaves out "shadow", the row of a dry run that the
next `admit` replaces.  Crashes lose the control state and keep the tables;
`RequestFails` is a storage error, after which the process lives on.  `sends` and
`interruptions` are history variables counting transport calls per occurrence and per
day.

**Delegation.**  The service serves one request at a time, remote calls included. A
remote command is outstanding until the guest carries it out (with an answer that may
be lost), or the caller times out, errs or crashes, in which case the command may
still arrive at any later time (`late`) or never.  The gateway keeps one run per
request id (the `idempotencyKey` the adapter passes); it is external code, modelled
from how the adapter and the controller use it.  The time of a request may be over
whenever it comes to dispatch, right after its row was inserted too (`Expire`).  A
service started without native delegation cleans up over a transport that always
fails.

**SourceSync.**  A timer runs one cycle at a time: read every source, then per
source drain the outbox, apply the snapshot in one transaction, drain again and
report coverage.  "calendar" stands for the sources whose complete scans imply
deletions, "daythread" for the one that asks a resolver about a rotating batch of
known ids.  A scan shows any part of what exists and is complete only when it shows
all of it.  A fingerprint is the content; `key` is the coverage key, which moves with
the date when the calendar's window rolls.  The resolver's answer is read in a step
of its own, after the cursor was committed.  Every post may be lost before or after
the store has carried it out.  The store is `ContextStore` itself, conflicts included.
A snapshot that would assign a revision above `MaxRevision` is not applied.

**Routines.**  One routine whose occurrences are the local days.  A request holds
the service's lock from cleanup to its end; each transaction and external call of
`run_routine` is a step.  Cleanup handles at most `NoticeBatch` notices and refuses
the request when more are left.  Coverage and grant are read where the code reads
them and may have lapsed.  `shown` counts what the route posted.

**Recovery.**  Per object the model keeps what matters to a restore: current row,
floor, the collector's last revision and undelivered event, the revision each
derived ledger and the cache cite, and a queued purge.  The live store goes on
between archive, export, admission and cutover.  A fence carries the floors its
admission proved (in the code, their hashes).  An interrupted command leaves the
target as it is; only a target whose staging reported success is cut over.

**ColdBackup.**  `prepare` visits the recovery sources in order and records each in
the journal before it stops it; `resume` runs at the end of prepare and once more
after every attempt (`ExecStopPost`).  The VM backup looks at the marker twice and
stops and starts the VM on its own.  A job is any assistant unit that writes while
it runs.  Crash, reboot and failed start share one bound.  The VM backup's own stop may
fail after the VM went down, and its own start may fail; its script removes the
was-active marker either way (`agents-vm-backup.nix:104`, 129), and nobody knows any more
that the VM was running.  `vmlost` records it: `DownIsOnRecord` and
`EverythingComesBack` except that VM.

**ImprovementController and PolicyInstaller.**  A policy is the set of changes it
contains; a merge lands a change on whatever master holds by then, so a merge onto
a moved master is a mixture nobody evaluated.  `known` is the position of the
checkout's `origin/master`, which lags until something fetches.  Workers interleave
between the read of a candidate's stage and the guarded update of it.  An installer
step is one systemd command, one write of the file (rename, then owner and mode) or
one write of the result.  The unit is reached as `SystemdPolicyOps` reaches it:
`active()` returns True or raises, so the two `start()` calls behind a negative answer
are unreachable and have no action.  `ServiceStarts` is everybody else who starts the
unit: the collector's unit requires it and runs from a timer, a deployment, a restart.
The server reads the policy once, at its start; `loaded` is what it read.

**TextIntake and ModelSwitch.**  A block under the controller's `guard` lock is one
step and so is one call to Docker or to an HTTP resource; the `admission` lock is a
variable, since it is held over many steps.  The switch worker's steps carry the names
of the progress phases.  A command succeeds, or raises with or without its effect.
Time exists where the code compares times: the age of an activity report, the five
seconds between two reports (units of five seconds) and the idle period (expired or
not).  A request through the proxy is leased, then upstream; when its client hangs up
the lease ends and the engine works on it until it notices (`orphan`).  `loaded` and
`recent` are history variables: the modes a ComfyUI process has accepted jobs of, and
whether it had one within the idle period.  A prompt that timed out may be read by
ComfyUI later, when nobody holds the admission lock for it (`late`).

## 3. Runs

| Run | Configuration | Shows |
|---|---|---|
| `store` | 1 object, 2 references, 2 contents, 3 revisions, 2 memories, 2 requests | deletion is final in journal and memories, newest is served, no regression, refinement of `SourceJournal` |
| `race` | service and CLI, 2 revisions, 2 texts, a crash and an error | at most one send, sends on record, decisions current, no revision lost, ended rows stay |
| `service` | service alone, 2 revisions, 2 days, a crash and an error, fairness | message bodies follow their source, claims resolve |
| `delegation` | 2 requests, 2 revisions, a crash and an error | never resent, closed rows have no run, cited text is current, closed stays closed |
| `collector` | 1 calendar and 2 daythread objects, 2 contents, 3 edits, batch of 1, a fault, fairness | revisions fit the store, coverage after admission, no stale recreation, gone is withdrawn |
| `routines` | 1 object, 2 revisions, 2 days, notice batch of 1, a crash and an error, fairness | one briefing per occurrence, ledgers agree, copies current, posting warranted by citations and owner, copies vanish |
| `backup` | timer, VM, proxy, watcher and a container of `RESUME_FIRST`, 2 faults, a deployment, fairness | downtime on record, archive cold, everything comes back |
| `recovery` | 1 object, 2 scopes, 1 derived ledger, 3 revisions, an interrupted command | nothing proved deleted resurfaces, newer recreations survive |
| `policy` | 2 candidates, 3 revisions of master, 3 transactions, 2 faults while master has moved at most once | only vetted policies installed, downtime has an open transaction on file, file, result and stage agree, the service has read the installed policy or the one it replaced |
| `switch` | a workflow, an agent turn, a client, image and video, queue of 1, a fault of any kind | one model at a time, no job killed, one mode per process, idle stop only when idle, admitted workflows and leased requests are waited for |
| `policy_systemd` (violation) | 1 candidate, no fault | see finding 1 |
| `collector_rolling` (violation) | 1 object, rolling window, no fault | see finding 2 |

Type invariants are not part of the runs: all of them are theorems.

Bounds.  Three revisions are needed for delete, recreate and a late event below both;
with two references and two contents a duplicate, a conflicting duplicate and a memory
that cites something else all occur.  The pipeline's protocols are per object and a
claim involves at most one revision of it, so one object with two revisions (one
superseding the other, or deleting it) and one crash reaches every pair of interfering
steps; the budget is the one property across objects and gets two.  Two texts let the
CLI's message differ from the service's.  The unbounded cases of the safety properties
are what the proofs are for.  Symmetry is used for objects, references, contents,
memories, requests, CLI texts, candidates, transactions and media modes, only in runs
without liveness.  Deadlock is checked where the system never stops (`routines`,
`backup`); elsewhere counters are bounded and the last revision, day, edit or crash
ends the behaviour.

The collector needs two daythread objects and a batch of one for the rotation to
matter, three edits for show, remove and show again, and one fault, which is a lost
request, a lost answer, a failed read or a crash in the middle of a cycle; with three
edits no snapshot meets the cap on revisions.  A notice
batch of one with two revisions makes cleanup overflow.  Two faults of the backup
are a crash of prepare and a failed start of the resume that follows.  Three
revisions let a restore meet an object that was deleted, recreated and deleted again
after the archive was taken, and two scopes a ledger that omits one.  Two candidates
and three revisions of master give a merge onto a moved master; three transactions
an initialisation and two plans, also of the same candidate.  Faults meet the steps of one
installation and do not depend on how master got there, so `FaultBound` follows them only
while master has moved at most once.  Two media modes are
needed for a process to be reused by the wrong one; one job and one client are enough,
since every check of the queue and of the leases is a comparison with zero.  The one fault
of `switch` is a command that fails with or without its effect, a failed read, a crash of
a container or a restart of the controller, at any step.

Fairness.  `FairSpec` assumes weak fairness of one action, `ServiceProgress`: the
service is started when it is down (`Restart = "on-failure"`,
`modules/nixos/assistant-context.nix`), finishes the request it serves, and gets
review requests again and again (collectors report coverage from a timer,
`OnUnitInactiveSec = "15min"`).  Nothing is assumed of the CLI, of ingestion, of the
clock, or of the owner.  Crashes and errors are bounded, so the service is
eventually left alone long enough.  `ClaimsResolve` excepts claims whose request was
aborted by a storage error: nothing but the next start, or a CLI run, recovers them.
`FairRoutineSpec` makes the same assumptions for the routines' requests.
`FairSyncSpec` assumes that the timer starts a cycle after the last one ended and
that a started cycle goes on; nothing is assumed of providers and faults.  The
`FairSpec` of `ColdBackup` assumes that the nightly timer starts an attempt, that
`ExecStopPost` runs resume after it (`modules/nixos/nas-recovery-backup.nix`), that the
VM backup and deployments end, and that steps once begun are taken.  The `FairSpec` of
`ModelSwitch` assumes that threads go on, a restarted controller recovers, the text
model loads, requests end, and the collector and the clock run; the code bounds
loading of ComfyUI by a deadline, so nothing is assumed of it, nor of users and faults.
The drain loops have no deadline: that requests end is an assumption.

### Findings

1. **`policy_systemd`** — `SystemdPolicyOps.active()` turns the non-zero exit of
   `systemctl is-active` into an exception, so it never answers False.  Apply stops the
   service, installs the file and fails at the check before the start; the restore
   fails at the same check.  The transaction ends in `recovery_required` with the
   service down, and so does every further apply or rollback of it, until somebody else
   has started the unit.  The tests' operations answer False instead.
2. **`collector_rolling`** — revisions are numbered per coverage key, and a rolling
   calendar window gives a new key every day.  The object starts again at revision 1,
   the store refuses the conflict, and the refused row blocks the outbox of every
   source.  With a fixed window the property holds (`collector`).

`deploy/homepage/README.md:61` gives the idle period as an hour; `IDLE_TIMEOUT` is half
an hour.  No property depends on its length.

More configurations give counterexamples to properties that a document states or that
one might expect (`tlc -config <cfg> <MC module>`):

* `MCPipeline_body.cfg` (`BodyFollowsSource` with the CLI): `admit` reads decision and
  source before it opens the outbox transaction.  When the service ingests a deletion
  and cleans up in between, the CLI stores the message of a deleted source and nothing
  scrubs the row.  With the service alone the property holds (`service`).
* `MCPipeline_budget_refund.cfg` (`SendsWithinDailyLimit`): the purge caused by a source
  revision deletes the delivered decision (`assistant_attention.py:353`) and with it the
  booking on the day's budget (322), so one more interruption goes out that day.
  `tests/assistant-attention-test.py:191` says "User cancellation or dismissal cannot
  refund an already consumed decision budget."
* `MCPipeline_budget_midnight.cfg` (`SendsWithinDailyLimit`): a decision booked
  yesterday and sent today counts on neither side of today's limit.
* `MCDelegation_runs.cfg` (`OneActiveRun`): the limit of one native run is checked only
  when a row is inserted; a row a crash left undispatched is dispatched later whatever
  is running, and a purge with an unconfirmed abort frees the slot.
* `MCRecovery_collector.cfg` (`CollectorIsAhead`): the archived revision ledger is
  restored with the store, but only the store learns the deletions made since.  The
  collector then numbers a genuine recreation at or below the floor, and the store
  files it as late until the numbers have caught up.
* `MCModelSwitch_turns.cfg` (`TurnsDrained`): the drain compares two activity reports with
  each other, not with the moment the advertisement was withdrawn
  (`comfyui_lifecycle.py:288`).  A report may be 15 seconds old and a collection may take
  eight: both reports that say zero can be older than an agent turn that passed its
  readiness check just before the switch was requested.  `deploy/homepage/README.md:58`
  says the start "waits for protected workflows, Mattermost turns, and text requests to
  finish".
* `MCModelSwitch_engine.cfg` (`EngineIdle`): the engine's metrics are read before the
  leases (302, 304).  A request forwarded after the first read and abandoned before the
  second is in neither.
* `MCModelSwitch_modes.cfg` (`OneModePerProcess` with four failures): the write of the new
  mode fails (`comfyui_lifecycle.py:360`), the rollback's stop fails, the answer to a prompt
  is lost after ComfyUI took the job, and the controller restarts.  Memory says the new
  mode, disk the old one, and the process has a job of the first when the second is
  resumed.  With three failures it cannot happen (`OneModeUpToThree`).
* `MCPolicy_loaded.cfg` (`SettledIsLoaded`): somebody else starts the unit between the stop
  and the write of an apply (`assistant_context_improvements.py:1199`, 1201); the
  collector's unit requires it and runs every 15 minutes
  (`modules/nixos/assistant-context.nix:143`).  The server has read the old file, the check
  before the start answers True, the probe finds it ready, and "applied" is recorded while
  the old policy is in use.  `improvement-policy-apply-contract.md:35` says the installer
  "stops the active service before replacing the one JSON policy file, starts it, and
  probes".  The running policy is never older than that (`AtMostOneBehind`).  With finding
  1, an apply succeeds only if this happens or if somebody starts the unit between the
  write and the check.
* `MCPolicy_two.cfg` (`SettledAgrees` with two installers): nothing excludes two commands
  on one transaction.  The second one's rollback begins after the first one's write; the
  unit is started by somebody else, the first one's probe succeeds, the second one puts
  the preimage back, and the first one then records "applied" over it.  No fault is
  needed.  With one installer at a time the property holds (`RecordsAgree`).

* `MCModelSwitch_late.cfg` (`NoJobKilledAtAll`): a prompt times out after 30 seconds
  (`comfyui_lifecycle.py:93`) and the admission lock is released (421) while ComfyUI has
  yet to read the request.  A switch finds the queue empty, ComfyUI takes the job, and the
  switch stops it.  `NoJobKilled` and `IdleStopIsIdle` except such a job.

`MCModelSwitch_ends.cfg` passes: with one client, one media mode, a fault and fairness, a
switch ends (`SwitchEnds`) and text mode does not leave its gate closed
(`TextBecomesAvailable`).

More is excepted from a property: the lost VM and the late job above, and two states
of the installer.  `DownIsAccounted` excepts a death between the rename and the chown
of `_atomic_write`: the file then has the wrong owner, every installer command refuses
it and the service cannot read it.  `SettledAgrees` excepts a second plan made while
the candidate's file is already in place.

## 4. Proofs

TLAPS checks the following for every value of the constants: any number of objects,
revisions, days, requests, resources, candidates, clients, crashes and errors.  The
assumptions are named where the constants are declared (`StoreAssumption`,
`PipelineAssumption`, `DelegationAssumption`, `RoutineAssumption`,
`RecoveryAssumption`, `BackupAssumption`, `ControllerAssumption`,
`InstallerAssumption`, `IntakeAssumption`, `SwitchAssumption`, `SyncAssumption`).
They say that bounds are natural numbers, that `Null` and mode names are none of the
values they are mixed with, that candidates and the collector's objects are finitely
many, that daythread ids are ordered, and every object has a scope, and, of the
backup, that units and containers differ and the stop order lists every resource and
starts with the timer.  TLC evaluates them on every run.  Every module proves
`TypeCorrect`; the other theorems are these.

* `ContextStoreProofs` — `DeletionIsFinal`, `NewestIsServed`, `PendingIsServed`,
  `MemoryForgets`, `NothingRegresses` and `Refinement` (`Spec => Journal!JournalSpec`).
  One inductive invariant, `StoreInv`, is behind all of them: the four checked
  invariants depend on each other (a late event is content-free only because the
  current tombstone equals the floor; the served payload is that of the event row only
  because scrubs stay at or below the floor) and on the shape of a row (a stale or
  scrubbed row stores no payload, a deletion carries none).  The memory half says that
  live rows cite something and cite nothing tombstoned; the least fixed point of the
  scrub enters through two lemmas: it contains what shares a tombstoned reference, and
  what is outside it does not.
* `ContextStoreProofs`, second half, about the collector — `CollectorTypeCorrect`;
  `CollectorUsesStore` (`SyncSpec => Spec`: whatever the collector does is a use of the
  store, so the theorems above hold behind it); `NothingIsRefused`,
  `DaythreadReportsAreServed` and `WithdrawnStaysWithdrawn`, which hold with any coverage
  window; and `FixedWindowIsAdmitted` and `FixedWindowReportsAreServed`, which state
  `HeadIsAdmissible` and `ReportedIsServed` as they stand under `~Rolling` and are false
  without it (finding 2).  None of the three properties is inductive: each depends on what
  ledger, outbox and store say about the same revision.  `AgreementInv` relates them for
  the objects whose coverage key never moves (`Steady`): the store's journal has no gaps
  and no late rows (`StoreShape`); the outbox lists what the ledger assigned and the store
  has not admitted, in order and without omissions (`Ascending`, `NothingSkipped`), and
  only its first row may have been admitted already, with the same envelope (`Ahead`); the
  ledger's row says what the last revision was (`LedgerShape`); a daythread tombstone
  follows the version it withdrew and the next revision is another one (`NeverRepeated`);
  and after a snapshot was applied the ledger shows it (`ScanApplied`).  What makes it
  work is that posting changes none of what was *said* (`PostSays`: a row moves from
  outbox to journal), lost answers and repeated posts included, and that a snapshot is
  applied only with an empty outbox, when the store is where the ledger is (`CaughtUp`).
  The order in which `apply` queues the objects of a snapshot does not matter
  (`EnqueuedFacts`), and the resolver's rotation always has a first and a last id
  (`RotationEnds`).
* `NotificationPipelineProofs` — `OneSend`, `SendsAreRecorded`, `EndedRowsStay`.
  `AtMostOneSend` is not inductive: `SendInv` adds that at most one process is past the
  claim of an occurrence and before its transport call, that the row is then claimed or
  already ended by the other process's recovery, that an occurrence with a call on
  record has a row which is neither free nor waiting, and that a process past its call
  has that call counted.  `DecisionsFollowSource` and `NothingGoesUnreviewed` rest on
  `FollowInv`, which adds what the service knows between two of its transactions: it
  reviews with no purge queued, a review it is about to acknowledge has its decision, and
  a notice it is about to acknowledge has left no pending decision of its object; and of
  the journal, that an object with a queued notice is deleted or waits for review.
  `BodiesFollowSource` has the hypothesis `Actors = {"service"}`: with the CLI it is
  false (`MCPipeline_body.cfg`).  `BodyInv` says that the revision the service
  is sending is served until the request ends, since its lock excludes ingestion, and that
  a purge past the outbox has left no message.
* `DelegationProofs` — `SubmittedOnce`, `ClosedRunsStopped`, `ClosedForGood`.  The
  invariant `RunInv` says a row that was not dispatched has no command and no run; a
  submit command is outstanding only while the gateway has no run of it; and a reply
  that closes a row was given by a run that is over.  `CitationsAreCurrent` adds
  `CiteInv`: between the scrub of a notice and its acknowledgement, with remote stops in
  between, no row cites what the notice is about.
* `RoutinesProofs` — `OneBriefing`, `LedgersStayInStep`, `CopiesFollowSources` and
  `NoUnwarrantedPost`, from `RoutineInv`: the run that holds a claim owns it and has
  posted nothing before its call, the citations it read stay served because the lock
  excludes ingestion, and a cleanup about to acknowledge has removed the copies it says.
* `RecoveryProofs` — `DeletionsHold` and `RecreationsSurvive`.  What makes
  `NothingResurfaces` inductive is that *every* tree with an open fence keeps the fence's
  promise (`Faithful`: live root, archive and target), that a completion carries its
  progress object by object and ledger by ledger (`Progress`), and that everything served
  is above its floor (`AboveFloor`); then a replay, a scrub or a late event can be
  interrupted and repeated anywhere.
* `ColdBackupProofs` — `NothingIsForgotten` and `ColdArchive`, from `BackupInv`: the
  journal on disk is the list in memory while sources are being stopped (`SameList`), the
  marker keeps the VM backup from going on once it was seen idle (`Exclusion`), only what
  is still to be visited runs and no job starts after the timer, the first of the list,
  went down (`Visited`), and a resume without a failure has started all but what is still
  to do (`Resuming`), so that it may drop the journal.
* `PolicyInstallerProofs` — `OnlyVettedPolicies` holds for any number of installers,
  workers and reviewers (`VettedInv`: a plan holds the policy of a merged candidate and
  goes back to a vetted one).  `DownIsOnFile`, `RecordsAgree` and `OneBehind` have the
  hypothesis `Alone`, one installer at a time, as the runs do; without it they are not
  what the code gives (`MCPolicy_two.cfg`).  `AloneInv` says what an installer may rely on
  at each of its steps (`OnTask`) and that the last writer of the file left one of its two
  images.  `DownIsOnFile` says that a service that is down has an open transaction which
  apply and rollback admit; it does not say that they bring the service up, which they do
  not (finding 1).  `OneBehind` rests on the stop before each write: whatever runs at the
  write was started since, on the image being replaced.
* `ModelSwitchProofs` — `OneModel`, `NoJobIsKilled`, `TextStopsDrained`, `IdleStops` and
  `OneModeUpToThree`, from `SwitchInv`, whose parts are proved one after another: who
  holds the admission lock (`Locks`), that nothing enters the media queue once the worker
  has looked at it (`Jobs`), that no container comes up behind its back (`Alone`), that a
  new mode gets a process that has not served (`Fresh`), what the drain has established
  at each phase (`Drained`), and that a lease that has run out has seen the last job
  (`Leased`).  `OneModePerProcess` is a question of how many failures come together:
  memory and disk differ after one, beside a running process after two, beside one that
  has served after three (`OneMode`), and the fourth breaks it.

Each inductive invariant was model-checked before it was proved, on the bounds of its
component's run or close to them.  The proofs corrected the models in one place: two
expressions of `ModelSwitch` had `CASE` guards that overlap, of which TLC takes the
first and the semantics any; they are `IF` now, in the order of the code.
`ColdBackup` states the order of the resume as a relation between resources instead of
computing a sorted list, which says the same and can be reasoned about.  The cap on
revisions in `SourceSync` bounded what could be posted; it bounds what the ledger
assigns now, so that the type invariant is inductive.

Model-checked only: liveness (`ClaimsResolve`, `GoneIsWithdrawn`, `DeletedCopiesVanish`,
`EverythingComesBack`, `SwitchEnds`, `TextBecomesAvailable`), which is outside the
prover's reach.  Every safety property of a passing run is a theorem.

## 5. Not modelled

* Feedback and learning candidates of the attention ledger, and the coverage state
  inside the notification policy (a free choice when a decision is made; the reports
  themselves are in `SourceSync`).
* The window of 100 decisions in the budget gates and the bound of 2000 known ids:
  both need more rows than a model holds.
* Content of archives: packing, hashing, verification, retention and off-site copies.
* The installer's two calls of `start()`, which `SystemdPolicyOps` makes unreachable
  (finding 1).
* Two installers at once are modelled, but the runs use one and three of the theorems
  assume it.  Nothing in the code excludes the sweep's apply and the operator's from each
  other; `MCPolicy_two.cfg` shows what they do to the record.
* Aula and Home Assistant adapters beyond the two kinds of scans.
* Validation, HTTP, signing, prompts and formatting: no property is about them.
* In `ModelSwitch`, more than one late job at a time, a Docker command that has its
  effect after its 180-second timeout, and the SQLite table behind `active_turns` next to the native count (a turn is counted
  once).
* Everything else in the repository: the migration tools of workflows and models, device
  actions, the OpenClaw gateway, deployment and third-party services.  They share no
  state with the assistant context.
* The Codex broker (`deploy/codex-worker/`): a separate deployment with two ledgers of its
  own, whose publication and repair operations claim, act and settle like the outbox, and
  whose restart ends every open row.  It is the next candidate for a module.

## 6. Plan

Done: the assistant context (`SourceJournal`, `ContextStore`, `AttentionLedger`,
`DeliveryOutbox`, `NotificationPipeline`, `Delegation`, with proofs), its collector
(`SourceSync`), routines and cache (`Routines`), backup and restore (`ColdBackup`,
`Recovery`), policy improvement (`ImprovementController`, `PolicyInstaller`) and model
serving (`TextIntake`, `ModelSwitch`), and the proofs of every safety property of these.
Next:

1. Feedback and candidates of `AttentionLedger`, feeding `ImprovementController`.
2. The Codex broker and worker (`deploy/codex-worker/`) as a component of its own.

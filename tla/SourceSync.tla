----------------------------- MODULE SourceSync -----------------------------
(***************************************************************************)
(* The collector: scripts/assistant-context-sync.py (sync, Ingest) with    *)
(* the RevisionLedger of scripts/assistant_context_sources.py, posting to  *)
(* the context store.                                                      *)
(*                                                                         *)
(* A timer runs one cycle at a time.  A cycle reads every source, then for *)
(* each source replays the durable outbox, turns the snapshot into         *)
(* revisions and outbox rows in one transaction, drains the outbox, and    *)
(* reports the source's coverage.  Two sources are modelled: "calendar",   *)
(* whose complete scans imply deletions, and "daythread", which never      *)
(* infers one and asks a resolver about a rotating batch of known ids      *)
(* instead.  Aula scans like the calendar; Home Assistant like a calendar  *)
(* whose scans are never complete.                                         *)
(*                                                                         *)
(* The store is the one of ContextStore; what its service does with the    *)
(* pending and invalidation queues is left to NotificationPipeline.        *)
(***************************************************************************)
EXTENDS ContextStore, SequencesExt

CONSTANTS DaythreadObjects,  \* the objects of source "daythread"
          Rolling,           \* config.calendar has a rolling window
          MaxDay,            \* bound on local dates seen
          BatchSize,         \* known_ids limit (100 in the code)
          MaxChanges,        \* bound on edits at the providers
          MaxFaults          \* bound on lost calls, failed reads and crashes

\* An object's source_ref is derived from its id (the object stands for it);
\* daythread ids are ordered, as ORDER BY object_id needs.
ASSUME SyncAssumption ==
    /\ DaythreadObjects \subseteq Objects /\ DaythreadObjects \subseteq Nat
    /\ IsFiniteSet(Objects)
    /\ Objects \subseteq Refs
    /\ Rolling \in BOOLEAN
    /\ MaxDay \in Nat /\ MaxChanges \in Nat /\ MaxFaults \in Nat
    /\ BatchSize \in Nat \ {0}

VARIABLES world,    \* what each provider shows now (Null = no such object)
          day,      \* local date
          changes,  \* edits at the providers so far
          faults,   \* faults so far
          rows,     \* source_objects, per object and coverage key
          outbox,   \* source_outbox
          cursor,   \* source_cursors["daythread", "resolver-batch"]
          batch,    \* known_ids selected for this cycle
          scans,    \* snapshots of this cycle still to be applied, in order
          pc,       \* where the cycle stands
          cover     \* the service's coverage state of each source

providerVars == <<world, day, changes>>
ledgerVars == <<rows, outbox, cursor>>
cycleVars == <<batch, scans, pc>>
syncVars == <<vars, world, day, changes, faults, rows, outbox, cursor,
              batch, scans, pc, cover>>

Sources == {"calendar", "daythread"}
ObjectsOf(src) == IF src = "daythread" THEN DaythreadObjects ELSE Objects \ DaythreadObjects
Keys == 0..MaxDay
Views == [Objects -> Contents \cup {Null}]

\* source_objects; rev 0 = no row, seen = the fingerprint ('' is Null).
LedgerRows == [rev : 0..MaxRevision, seen : Contents \cup {Null}, current : BOOLEAN]
NoRow == [rev |-> 0, seen |-> Null, current |-> FALSE]

OutboxRows == [obj : Objects, rev : Revisions, env : Envelopes]

\* A Snapshot; ok is FALSE when the reader raised.
Scans == [src : Sources, key : Keys, ok : BOOLEAN, complete : BOOLEAN,
          view : Views, gone : SUBSET DaythreadObjects]

SyncTypeOK ==
    /\ world \in Views
    /\ day \in Keys
    /\ changes \in 0..MaxChanges
    /\ faults \in 0..MaxFaults
    /\ rows \in [Objects -> [Keys -> LedgerRows]]
    /\ outbox \in Seq(OutboxRows)
    /\ cursor \in DaythreadObjects \cup {0}
    /\ batch \in SUBSET DaythreadObjects
    /\ scans \in Seq(Scans)
    /\ pc \in {"idle", "resolve", "replay", "send", "report", "failed"}
    /\ cover \in [Sources -> {"unavailable", "partial", "fresh"}]

SyncInit ==
    /\ Init
    /\ world = [o \in Objects |-> Null]
    /\ day = 0
    /\ changes = 0
    /\ faults = 0
    /\ rows = [o \in Objects |-> [k \in Keys |-> NoRow]]
    /\ outbox = <<>>
    /\ cursor = 0
    /\ batch = {}
    /\ scans = <<>>
    /\ pc = "idle"
    /\ cover = [s \in Sources |-> "unavailable"]

-----------------------------------------------------------------------------
(* The providers.                                                          *)

Edit(o, c) ==
    /\ changes < MaxChanges
    /\ c # world[o]
    /\ world' = [world EXCEPT ![o] = c]
    /\ changes' = changes + 1
    /\ UNCHANGED <<vars, day, faults, ledgerVars, cycleVars, cover>>

NewDay ==
    /\ day < MaxDay
    /\ day' = day + 1
    /\ UNCHANGED <<vars, world, changes, faults, ledgerVars, cycleVars, cover>>

-----------------------------------------------------------------------------
(* Reading the sources.                                                    *)

\* A reader that raises, a lost request or answer, a crash: at most MaxFaults.
Fault == faults < MaxFaults /\ faults' = faults + 1

\* The part of the provider's state that a read of S returns.
ShownOf(S) == [o \in Objects |-> IF o \in S THEN world[o] ELSE Null]
Existing(src) == {o \in ObjectsOf(src) : world[o] # Null}

\* The calendar's coverage key is its alias and window: f"{alias}:{start}:{end}".
CoverageKey == IF Rolling THEN day ELSE 0

CalendarScan(S, ok) ==
    [src |-> "calendar", key |-> CoverageKey, ok |-> ok,
     complete |-> ok /\ S = Existing("calendar"), view |-> ShownOf(S), gone |-> {}]

\* Before Resolve, the daythread scan holds the pages of the export.
DaythreadScan(view, gone, ok) ==
    [src |-> "daythread", key |-> 0, ok |-> ok, complete |-> FALSE, view |-> view, gone |-> gone]

KnownIds == {o \in DaythreadObjects : \E k \in Keys : rows[o][k].current}

\* p comes before o in the rotation that starts after the cursor.
Before(p, o) == IF (p > cursor) = (o > cursor) THEN p < o ELSE p > cursor

NextBatch == {o \in KnownIds : Cardinality({p \in KnownIds : Before(p, o)}) < BatchSize}

\* Faulty variant: the rotation is not recorded.
BatchCursorKept == cursor

BatchCursor ==
    IF KnownIds = {} THEN cursor
    ELSE CHOOSE o \in NextBatch : \A p \in NextBatch : p = o \/ Before(p, o)

\* Provider reads are independent: one that fails leaves its source out.
StartCycle ==
    /\ pc = "idle"
    /\ \E S \in SUBSET Existing("calendar"), E \in SUBSET Existing("daythread") :
          \/ /\ scans' = <<CalendarScan(S, TRUE), DaythreadScan(ShownOf(E), {}, TRUE)>>
             /\ UNCHANGED faults
          \/ /\ scans' = <<CalendarScan({}, FALSE), DaythreadScan(ShownOf(E), {}, TRUE)>>
             /\ Fault
          \/ /\ scans' = <<CalendarScan(S, TRUE), DaythreadScan(ShownOf({}), {}, FALSE)>>
             /\ Fault
    /\ batch' = NextBatch
    /\ cursor' = BatchCursor
    /\ pc' = "resolve"
    /\ UNCHANGED <<vars, providerVars, rows, outbox, cover>>

\* The resolver answers for each id of the batch: valid, with the item, or gone.
Resolve ==
    /\ pc = "resolve"
    /\ LET s == scans[2]
           resolved == [s EXCEPT !.view = [o \in Objects |->
                                             IF o \in batch /\ world[o] # Null
                                             THEN world[o] ELSE s.view[o]],
                                 !.gone = {o \in batch : world[o] = Null}]
       IN  \/ scans' = <<scans[1], IF s.ok THEN resolved ELSE s>> /\ UNCHANGED faults
           \/ scans' = <<scans[1], [s EXCEPT !.ok = FALSE]>> /\ s.ok /\ Fault
    /\ batch' = {}
    /\ pc' = IF scans[1].ok THEN "replay" ELSE "failed"
    /\ UNCHANGED <<vars, providerVars, ledgerVars, cover>>

-----------------------------------------------------------------------------
(* RevisionLedger.apply.                                                   *)

Shown(s) == {o \in ObjectsOf(s.src) : s.view[o] # Null}

\* Faulty variant: a tombstoned daythread version may come back.
UnchangedLive(s, o) ==
    LET row == rows[o][s.key]
    IN  row.rev > 0 /\ row.seen = s.view[o] /\ row.current

\* "A resolver tombstone blocks replay of the same version."
Unchanged(s, o) ==
    LET row == rows[o][s.key]
    IN  /\ row.rev > 0 /\ row.seen = s.view[o]
        /\ row.current \/ s.src = "daythread"

Upserted(s) == {o \in Shown(s) : ~Unchanged(s, o)}

\* Faulty variant: a changed object keeps its revision.
RevisionKept(row) == IF row.rev = 0 THEN 1 ELSE row.rev

NextRevision(row) == row.rev + 1

\* The row after the snapshot's objects were gone through.
Observed(s, o) ==
    LET row == rows[o][s.key]
    IN  IF o \in Upserted(s)
        THEN [rev |-> NextRevision(row), seen |-> s.view[o], current |-> TRUE]
        ELSE row

\* What the resolver called gone, and what a complete scan no longer shows.
Deleted(s) ==
    {o \in ObjectsOf(s.src) :
        /\ Observed(s, o).current
        /\ o \in s.gone \/ (s.complete /\ o \notin Shown(s))}

\* A complete scan forgets the fingerprint, the resolver keeps it.
Tombstoned(s, o) ==
    [rev |-> NextRevision(Observed(s, o)), current |-> FALSE,
     seen |-> IF o \in s.gone THEN Observed(s, o).seen ELSE Null]

Applied(s) ==
    [o \in Objects |->
        IF o \notin ObjectsOf(s.src) THEN rows[o]
        ELSE [rows[o] EXCEPT ![s.key] =
                 IF o \in Deleted(s) THEN Tombstoned(s, o) ELSE Observed(s, o)]]

UpsertEvent(s, o) ==
    [obj |-> o, rev |-> Observed(s, o).rev,
     env |-> [op |-> "upsert", ref |-> o, content |-> s.view[o]]]

DeleteEvent(s, o) ==
    [obj |-> o, rev |-> Tombstoned(s, o).rev,
     env |-> [op |-> "delete", ref |-> o, content |-> Null]]

Enqueued(s) ==
    SetToSeq({UpsertEvent(s, o) : o \in Upserted(s)})
        \o SetToSeq({DeleteEvent(s, o) : o \in Deleted(s)})

\* Faulty variant: the loop stops after the first row.
DrainStops == TRUE

\* drain's loop ends when there is no row left.
DrainDone == outbox = <<>>

\* MaxRevision caps the revisions the ledger assigns.
Apply ==
    /\ pc = "replay"
    /\ outbox = <<>>
    /\ \A o \in Objects : Applied(Head(scans))[o][Head(scans).key].rev <= MaxRevision
    /\ rows' = Applied(Head(scans))
    /\ outbox' = outbox \o Enqueued(Head(scans))
    /\ pc' = "send"
    /\ UNCHANGED <<vars, providerVars, faults, cursor, batch, scans, cover>>

-----------------------------------------------------------------------------
(* RevisionLedger.drain and Ingest._post.                                  *)

Draining == pc \in {"replay", "send"} /\ outbox # <<>>

Outcome(e) == IngestOutcome(e.obj, e.rev, e.env)

\* The store's side of one POST /v1/events.
StoreIngests(e) ==
    \/ Ingest(e.obj, e.rev, e.env)
    \/ Outcome(e) \in {"duplicate", "fenced", "conflict"} /\ UNCHANGED vars

\* "accepted": true comes back for all but a conflict (HTTP 400).
Answers(e) == Outcome(e) # "conflict"

Deliver ==
    /\ Draining
    /\ Answers(Head(outbox))
    /\ StoreIngests(Head(outbox))
    /\ outbox' = Tail(outbox)
    /\ UNCHANGED <<providerVars, faults, rows, cursor, cycleVars, cover>>

\* The request or its answer is lost, or the store refuses the row: the row
\* stays and the source has failed.
FailPost ==
    /\ Draining
    /\ Answers(Head(outbox)) => faults < MaxFaults
    /\ faults' = IF Answers(Head(outbox)) THEN faults + 1 ELSE faults
    /\ StoreIngests(Head(outbox)) \/ UNCHANGED vars
    /\ pc' = "failed"
    /\ UNCHANGED <<providerVars, ledgerVars, batch, scans, cover>>

Drained ==
    /\ pc = "send"
    /\ DrainDone
    /\ pc' = "report"
    /\ UNCHANGED <<vars, providerVars, faults, ledgerVars, batch, scans, cover>>

-----------------------------------------------------------------------------
(* Reports: update_coverage and fail_coverage of the service.  Reports of  *)
(* one source arrive in the order of their time stamps.                    *)

NextSource ==
    /\ scans' = Tail(scans)
    /\ pc' = IF Tail(scans) = <<>> THEN "idle"
             ELSE IF scans[2].ok THEN "replay" ELSE "failed"

Covers(src, state) == cover' = [cover EXCEPT ![src] = state]

ReportCoverage ==
    /\ pc = "report"
    /\ Covers(Head(scans).src, IF Head(scans).complete THEN "fresh" ELSE "partial")
    /\ NextSource
    /\ UNCHANGED <<vars, providerVars, faults, ledgerVars, batch>>

LoseReport ==
    /\ pc = "report"
    /\ Fault
    /\ \/ Covers(Head(scans).src, IF Head(scans).complete THEN "fresh" ELSE "partial")
       \/ UNCHANGED cover
    /\ pc' = "failed"
    /\ UNCHANGED <<vars, providerVars, ledgerVars, batch, scans>>

ReportFailure ==
    /\ pc = "failed"
    /\ Covers(Head(scans).src, "unavailable")
    /\ NextSource
    /\ UNCHANGED <<vars, providerVars, faults, ledgerVars, batch>>

\* The report of a failure is lost as well: it costs no fault of its own.
LoseFailure ==
    /\ pc = "failed"
    /\ NextSource
    /\ UNCHANGED <<vars, providerVars, faults, ledgerVars, batch, cover>>

\* The process dies; only the SQLite ledger survives.
Crash ==
    /\ pc # "idle"
    /\ Fault
    /\ pc' = "idle"
    /\ scans' = <<>>
    /\ batch' = {}
    /\ UNCHANGED <<vars, providerVars, ledgerVars, cover>>

-----------------------------------------------------------------------------
CycleStep ==
    StartCycle \/ Resolve \/ Apply \/ Deliver \/ Drained \/ ReportCoverage \/ ReportFailure

SyncNext ==
    \/ \E o \in Objects, c \in Contents \cup {Null} : Edit(o, c)
    \/ NewDay
    \/ StartCycle \/ Resolve
    \/ Apply
    \/ Deliver \/ FailPost \/ Drained
    \/ ReportCoverage \/ LoseReport \/ ReportFailure \/ LoseFailure
    \/ Crash

SyncSpec == SyncInit /\ [][SyncNext]_syncVars

\* The timer starts a cycle after the last has ended, and a cycle goes on.
FairSyncSpec == SyncSpec /\ WF_syncVars(CycleStep)

-----------------------------------------------------------------------------
(* Properties.                                                             *)

Serves(o) == IF current[o].op = "upsert" THEN current[o].payload ELSE Null

\* The store never refuses the row at the head of the outbox and never files
\* it as late: revisions of an object only grow, and a row posted again after
\* a lost answer or a crash is the one the store already has ("replay that
\* exact envelope before creating any newer local revision").
HeadIsAdmissible ==
    outbox # <<>> => Outcome(Head(outbox)) \in {"accepted", "duplicate"}

\* "Coverage is posted after event admission": when a source is about to be
\* reported, the store serves every object of it as the scan showed it, and
\* nothing that the scan found gone; only a daythread version that the
\* resolver has tombstoned before stays withdrawn.
ReportedIsServed ==
    pc = "report" =>
        LET s == Head(scans)
        IN  \A o \in ObjectsOf(s.src) :
               /\ o \in Shown(s) \ s.gone =>
                     \/ Serves(o) = s.view[o]
                     \/ /\ s.src = "daythread" /\ current[o].op = "delete"
                        /\ rows[o][s.key].seen = s.view[o]
               /\ o \in s.gone \/ (s.complete /\ o \notin Shown(s)) => Serves(o) = Null

\* The journal's row that was served before the deletion of o.
Withdrawn(o) == events[o][current[o].rev - 1].content

RecreatedIsNew ==
    \A o \in DaythreadObjects :
        current[o].op = "delete" /\ current'[o].op = "upsert" =>
            current'[o].payload # Withdrawn(o)

\* A version that the resolver has withdrawn is not served again by a stale
\* page, a retry or a restart; only another version recreates the object.
NoStaleRecreation == [][RecreatedIsNew]_syncVars

\* Every known object that daythread no longer has is withdrawn from the
\* store in the end, though one cycle asks about BatchSize ids only.
GoneIsWithdrawn ==
    \A o \in DaythreadObjects :
        (world[o] = Null /\ Serves(o) # Null) ~> (Serves(o) = Null \/ world[o] # Null)
=============================================================================

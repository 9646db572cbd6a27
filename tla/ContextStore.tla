---------------------------- MODULE ContextStore ----------------------------
(***************************************************************************)
(* The versioned SQLite journal behind the private assistant context:      *)
(* scripts/assistant_context_store.py, class ContextStore.                 *)
(*                                                                         *)
(* Every public operation of the class is one BEGIN IMMEDIATE ... COMMIT   *)
(* transaction, so it is one action here.  The tables of one scope are     *)
(* modelled; every statement of the code carries the scope key in its      *)
(* WHERE clause.  A pair (source, object_id) is one member of Objects.     *)
(***************************************************************************)
EXTENDS Naturals

CONSTANTS Objects,      \* (source, object_id) pairs of one scope
          Refs,         \* source_ref URIs (the code compares their hashes)
          Contents,     \* everything else an envelope carries
          MaxRevision,  \* bound on source revisions (2^63 - 1 in the code)
          MemoryIds,    \* UUIDs of assistant_memories rows
          RequestIds,   \* UUIDs of assistant_memory_requests rows
          Null          \* SQL NULL, and "no such row"

ASSUME StoreAssumption ==
    /\ MaxRevision \in Nat
    /\ Null \notin Refs \cup Contents \cup MemoryIds

VARIABLES events,         \* context_events, keyed by object and revision
          current,        \* context_current, keyed by object
          pending,        \* context_pending: <<object, revision>>
          invalidations,  \* context_invalidations
          floor,          \* context_source_tombstones.min_revision, 0 = no row
          memories,       \* assistant_memories
          receipts,       \* assistant_memory_requests: request -> memory
          refTombs        \* assistant_memory_tombstones.source_ref_hash

journalVars == <<events, current, pending, invalidations, floor>>
memoryVars == <<memories, receipts, refTombs>>
vars == <<events, current, pending, invalidations, floor,
          memories, receipts, refTombs>>

Revisions == 1..MaxRevision

EventRows == [status : {"none", "accepted", "stale"},
              op : {"none", "upsert", "delete"},
              ref : Refs \cup {Null},
              content : Contents \cup {Null},
              payload : Contents \cup {Null}]

CurrentRows == [rev : 0..MaxRevision,
                op : {"none", "upsert", "delete"},
                ref : Refs \cup {Null},
                payload : Contents \cup {Null}]

InvalidationRows == [obj : Objects, rev : Revisions, prev : 0..MaxRevision,
                     op : {"upsert", "delete"}]

MemoryStatuses == {"none", "candidate", "active", "corrected", "expired", "deleted"}

\* A memory row; "text" says whether the statement column still holds content.
MemoryRows == [status : MemoryStatuses, rev : Nat, text : BOOLEAN,
               refs : SUBSET Refs, supersedes : MemoryIds \cup {Null}]

NoEvent == [status |-> "none", op |-> "none", ref |-> Null,
            content |-> Null, payload |-> Null]
NoCurrent == [rev |-> 0, op |-> "none", ref |-> Null, payload |-> Null]
NoMemory == [status |-> "none", rev |-> 0, text |-> FALSE, refs |-> {},
             supersedes |-> Null]

TypeOK ==
    /\ events \in [Objects -> [Revisions -> EventRows]]
    /\ current \in [Objects -> CurrentRows]
    /\ pending \in SUBSET (Objects \X Revisions)
    /\ invalidations \in SUBSET InvalidationRows
    /\ floor \in [Objects -> 0..MaxRevision]
    /\ memories \in [MemoryIds -> MemoryRows]
    /\ receipts \in [RequestIds -> MemoryIds \cup {Null}]
    /\ refTombs \in SUBSET Refs

Init ==
    /\ events = [o \in Objects |-> [r \in Revisions |-> NoEvent]]
    /\ current = [o \in Objects |-> NoCurrent]
    /\ pending = {}
    /\ invalidations = {}
    /\ floor = [o \in Objects |-> 0]
    /\ memories = [m \in MemoryIds |-> NoMemory]
    /\ receipts = [q \in RequestIds |-> Null]
    /\ refTombs = {}

-----------------------------------------------------------------------------
(* Memory scrubbing.                                                       *)

\* C holds every memory that shares a reference with S or with a member of C.
Closed(S, C) ==
    \A m \in MemoryIds :
        (memories[m].refs \cap (S \cup UNION {memories[n].refs : n \in C})) # {} => m \in C

\* _scrub_memory_source_hash follows references to a fixed point: the least
\* closed set of memories.
Linked(S) ==
    {m \in MemoryIds : \A C \in SUBSET MemoryIds : Closed(S, C) => m \in C}

\* The row a scrub leaves behind: content and references gone, revision bumped.
Erased(row) == [status |-> "deleted", rev |-> row.rev + 1, text |-> FALSE, refs |-> {},
                supersedes |-> row.supersedes]

\* Erase the memories linked to the references S and tombstone S.
ScrubMemorySources(S) ==
    /\ refTombs' = refTombs \cup S
    /\ memories' = [m \in MemoryIds |->
                       IF m \in Linked(S) THEN Erased(memories[m]) ELSE memories[m]]

-----------------------------------------------------------------------------
(* Source events.                                                          *)

Larger(a, b) == IF a >= b THEN a ELSE b

\* A canonical envelope; a delete carries no payload content.
Envelopes == [op : {"upsert"}, ref : Refs, content : Contents]
                 \cup [op : {"delete"}, ref : Refs, content : {Null}]

\* Faulty variant: only the deletion floor is consulted.
IsStaleFloorOnly(o, r) == r <= floor[o]

\* A revision that may not become current.
IsStale(o, r) ==
    \/ r <= floor[o]
    \/ /\ current[o].rev > 0
       /\ \/ r < current[o].rev
          \/ current[o].op = "delete" /\ r <= current[o].rev

\* Faulty variant: a late event keeps its payload.
ContentAlwaysAllowed(o, r) == TRUE

\* "Never let a late event repopulate content after a tombstone."
ContentAllowed(o, r) ==
    ~(r <= floor[o] \/ (IsStale(o, r) /\ current[o].op = "delete"))

\* The receipt ingest returns, "conflict" standing for the ValueError.
IngestOutcome(o, r, env) ==
    LET row == events[o][r]
        same == /\ row.op = env.op
                /\ row.ref = env.ref
                /\ row.content = env.content
    IN  IF row.status = "none"
        THEN IF IsStale(o, r) THEN "stale" ELSE "accepted"
        ELSE IF same THEN "duplicate" ELSE IF r <= floor[o] THEN "fenced" ELSE "conflict"

StoredRow(o, r, env, status) ==
    [status |-> status, op |-> env.op, ref |-> env.ref, content |-> env.content,
     payload |-> IF env.op = "upsert" /\ ContentAllowed(o, r) THEN env.content ELSE Null]

\* payload_json=NULL; the row and its payload hash stay for replay detection.
Scrubbed(row) == [row EXCEPT !.payload = Null]

WithEvent(o, r, row) == [events EXCEPT ![o][r] = row]

\* Faulty variant: only the references of deletions are followed.
EventRefsOfDeletes(o, journal) ==
    {journal[o][r].ref : r \in {s \in Revisions : journal[o][s].op = "delete"}}

\* Every reference the journal holds for object o.
EventRefs(o, journal) ==
    {journal[o][r].ref : r \in {s \in Revisions : journal[o][s].status # "none"}}

\* An event that arrives too late is journalled and changes nothing else.
IngestStale(o, r, env) ==
    /\ IngestOutcome(o, r, env) = "stale"
    /\ events' = WithEvent(o, r, StoredRow(o, r, env, "stale"))
    /\ UNCHANGED <<current, pending, invalidations, floor, memories, receipts, refTombs>>

\* Faulty variant: a superseded revision is not announced.
InvalidateDeletesOnly(o, r, op) ==
    invalidations' = IF op = "delete"
                     THEN invalidations \cup
                            {[obj |-> o, rev |-> r, prev |-> current[o].rev, op |-> op]}
                     ELSE invalidations

Invalidate(o, r, op) ==
    invalidations' = IF current[o].rev > 0 \/ op = "delete"
                     THEN invalidations \cup
                            {[obj |-> o, rev |-> r, prev |-> current[o].rev, op |-> op]}
                     ELSE invalidations

\* Faulty variant: the superseded reference stays queued.
PendingAll(o) == pending

PendingOthers(o) == {p \in pending : p[1] # o}

IngestUpsert(o, r, env) ==
    /\ env.op = "upsert"
    /\ IngestOutcome(o, r, env) = "accepted"
    /\ LET row == StoredRow(o, r, env, "accepted")
       IN  /\ events' = WithEvent(o, r, row)
           /\ current' = [current EXCEPT ![o] =
                 [rev |-> r, op |-> "upsert", ref |-> env.ref, payload |-> row.payload]]
    /\ Invalidate(o, r, "upsert")
    /\ pending' = PendingOthers(o) \cup {<<o, r>>}
    /\ UNCHANGED <<floor, memories, receipts, refTombs>>

\* A deletion scrubs every online copy of the object's content.
IngestDelete(o, r, env) ==
    /\ env.op = "delete"
    /\ IngestOutcome(o, r, env) = "accepted"
    /\ LET journal == WithEvent(o, r, StoredRow(o, r, env, "accepted"))
       IN  /\ events' = [journal EXCEPT ![o] =
                            [s \in Revisions |-> Scrubbed(journal[o][s])]]
           /\ ScrubMemorySources(EventRefs(o, journal))
    /\ floor' = [floor EXCEPT ![o] = Larger(@, r)]
    /\ current' = [current EXCEPT ![o] =
          [rev |-> r, op |-> "delete", ref |-> env.ref, payload |-> Null]]
    /\ Invalidate(o, r, "delete")
    /\ pending' = PendingOthers(o)
    /\ UNCHANGED receipts

Ingest(o, r, env) ==
    IngestStale(o, r, env) \/ IngestUpsert(o, r, env) \/ IngestDelete(o, r, env)

\* ack: the reviewer's durable decision exists, drop the pending reference.
Ack(p) ==
    /\ p \in pending
    /\ pending' = pending \ {p}
    /\ UNCHANGED <<events, current, invalidations, floor, memories, receipts, refTombs>>

\* ack_invalidation: derived copies were purged.
AckInvalidation(i) ==
    /\ i \in invalidations
    /\ invalidations' = invalidations \ {i}
    /\ UNCHANGED <<events, current, pending, floor, memories, receipts, refTombs>>

-----------------------------------------------------------------------------
(* Restore: merging a content-free tombstone ledger.                       *)

\* Faulty variant: an off-by-one fence.
MergedFloorTooHigh(o, rev) == IF rev = 0 THEN floor[o] ELSE Larger(rev, floor[o]) + 1

\* The floor of o after a ledger with min_revision rev (0 = o is not listed).
MergedFloor(o, rev) ==
    IF rev = 0 THEN floor[o]
    ELSE Larger(rev, Larger(floor[o], IF current[o].op = "delete" THEN current[o].rev ELSE 0))

\* A recreation newer than the deletion survives the replay.
PreserveNewer(o, f) == current[o].op = "upsert" /\ current[o].rev > f

\* The events of o that the ledger's entry for o covers.
Fenced(floors, o, r) == floors[o] > 0 /\ r <= MergedFloor(o, floors[o])

FencedRefs(floors) ==
    UNION {{events[o][r].ref : r \in {s \in Revisions :
                Fenced(floors, o, s) /\ events[o][s].status # "none"}} : o \in Objects}

ReplayTombstones(floors, hashes) ==
    /\ floor' = [o \in Objects |-> MergedFloor(o, floors[o])]
    /\ events' = [o \in Objects |-> [r \in Revisions |->
                     IF Fenced(floors, o, r) THEN Scrubbed(events[o][r]) ELSE events[o][r]]]
    /\ pending' = {p \in pending : ~Fenced(floors, p[1], p[2])}
    /\ current' = [o \in Objects |->
                     IF floors[o] = 0 \/ PreserveNewer(o, MergedFloor(o, floors[o]))
                     THEN current[o]
                     ELSE [rev |-> MergedFloor(o, floors[o]), op |-> "delete", ref |-> Null,
                           payload |-> Null]]
    /\ ScrubMemorySources(FencedRefs(floors) \cup hashes)
    /\ UNCHANGED <<invalidations, receipts>>

-----------------------------------------------------------------------------
(* Personal memory.  A request id that already has a receipt is answered   *)
(* from it (or refused, if its content differs) and writes nothing; the    *)
(* actions below are the first use of a request id.                        *)

FirstUse(q, m) == receipts[q] = Null /\ receipts' = [receipts EXCEPT ![q] = m]

Unused(m) == memories[m].status = "none"

ProposeMemory(q, m, ref) ==
    /\ FirstUse(q, m)
    /\ Unused(m)
    /\ ref \notin refTombs
    /\ memories' = [memories EXCEPT ![m] =
          [status |-> "candidate", rev |-> 1, text |-> TRUE, refs |-> {ref}, supersedes |-> Null]]
    /\ UNCHANGED <<events, current, pending, invalidations, floor, refTombs>>

\* UPDATE ... SET revision=revision+1,status=...
Restated(row, status) ==
    [status |-> status, rev |-> row.rev + 1, text |-> row.text, refs |-> row.refs,
     supersedes |-> row.supersedes]

\* Faulty variant: any existing memory may be changed.
ChangeableAlways(m) == memories[m].status # "none"

\* The optimistic revision check passed: the caller saw the row as it is now.
Changeable(m) == memories[m].status \in {"candidate", "active"}

ExpireMemory(q, m) ==
    /\ FirstUse(q, m)
    /\ Changeable(m)
    /\ memories' = [memories EXCEPT ![m] = Restated(@, "expired")]
    /\ UNCHANGED <<events, current, pending, invalidations, floor, refTombs>>

\* Deleting a memory tombstones its references and erases the rows sharing one.
DeleteMemory(q, m) ==
    /\ FirstUse(q, m)
    /\ Changeable(m)
    /\ refTombs' = refTombs \cup memories[m].refs
    /\ memories' = [n \in MemoryIds |->
                       IF n = m \/ memories[n].refs \cap memories[m].refs # {}
                       THEN Erased(memories[n]) ELSE memories[n]]
    /\ UNCHANGED <<events, current, pending, invalidations, floor>>

ConfirmMemory(q, m) ==
    /\ FirstUse(q, m)
    /\ memories[m].status = "candidate"
    /\ memories' = [memories EXCEPT ![m] = Restated(@, "active")]
    /\ UNCHANGED <<events, current, pending, invalidations, floor, refTombs>>

\* A correction supersedes the row with a fresh one that inherits its references.
CorrectMemory(q, m, new) ==
    /\ FirstUse(q, new)
    /\ Changeable(m)
    /\ Unused(new)
    /\ memories' = [memories EXCEPT
          ![m] = Restated(@, "corrected"),
          ![new] = [status |-> "active", rev |-> 1, text |-> TRUE,
                    refs |-> memories[m].refs, supersedes |-> m]]
    /\ UNCHANGED <<events, current, pending, invalidations, floor, refTombs>>

-----------------------------------------------------------------------------
MemoryStep(q) ==
    \E m \in MemoryIds :
        \/ \E ref \in Refs : ProposeMemory(q, m, ref)
        \/ ExpireMemory(q, m)
        \/ DeleteMemory(q, m)
        \/ ConfirmMemory(q, m)
        \/ \E new \in MemoryIds : CorrectMemory(q, m, new)

Next ==
    \/ \E o \in Objects, r \in Revisions, env \in Envelopes : Ingest(o, r, env)
    \/ \E p \in pending : Ack(p)
    \/ \E i \in invalidations : AckInvalidation(i)
    \/ \E floors \in [Objects -> 0..MaxRevision], hashes \in SUBSET Refs :
           ReplayTombstones(floors, hashes)
    \/ \E q \in RequestIds : MemoryStep(q)

Spec == Init /\ [][Next]_vars

-----------------------------------------------------------------------------
(* The journal as its readers see it.                                      *)

Journal == INSTANCE SourceJournal WITH
    rev <- [o \in Objects |-> current[o].rev],
    live <- [o \in Objects |-> current[o].op = "upsert"],
    review <- pending,
    notices <- invalidations

\* ContextStore implements SourceJournal: late, duplicated and reordered
\* events and tombstone replays only ever show as newer revisions, deletions
\* and acknowledgements ("Only a strictly newer source revision can recreate
\* a deleted object", deploy/assistant-context/README.md).
ImplementsJournal == Journal!JournalSpec

-----------------------------------------------------------------------------
(* Properties.                                                             *)

\* No table serves or stores content of a revision at or below the object's
\* deletion floor, whatever order deletions, replays, late and recreated
\* revisions arrive in (ingest's content_allowed, replay_tombstones).
DeletedContentStaysGone ==
    \A o \in Objects :
        /\ \A r \in Revisions : r <= floor[o] =>
              events[o][r].payload = Null /\ <<o, r>> \notin pending
        /\ current[o].payload # Null => current[o].rev > floor[o]

\* The three journal tables agree: current is the newest accepted revision or
\* a tombstone at or above it, and what get() serves is that event's payload.
CurrentIsNewestAccepted ==
    \A o \in Objects :
        /\ \A r \in Revisions : events[o][r].status = "accepted" => r <= current[o].rev
        /\ current[o].op = "upsert" =>
              LET row == events[o][current[o].rev]
              IN  /\ row.status = "accepted" /\ row.op = "upsert"
                  /\ current[o].payload = row.payload /\ row.payload = row.content
        /\ current[o].op = "delete" => floor[o] = current[o].rev

\* The join in pending() never hides a row: a pending reference always names
\* the served upsert of its object, so no reviewer waits on a dead row.
PendingIsCurrent ==
    \A p \in pending : current[p[1]].op = "upsert" /\ current[p[1]].rev = p[2]

\* Deleting a source reaches what was remembered from it: the reference of
\* every accepted revision that the deletion covers is tombstoned, and no
\* memory with text, whatever its status, cites a tombstoned reference.
DeletedSourceIsForgotten ==
    /\ \A o \in Objects, r \in Revisions :
          events[o][r].status = "accepted" /\ r <= floor[o] => events[o][r].ref \in refTombs
    /\ \A m \in MemoryIds :
          memories[m].refs \cap refTombs = {} /\ (memories[m].text => memories[m].refs # {})

\* A step never lowers a deletion floor, never serves an older revision than
\* it did, and never brings an erased memory back.
KeepsGround ==
    /\ \A o \in Objects : floor'[o] >= floor[o] /\ current'[o].rev >= current[o].rev
    /\ refTombs \subseteq refTombs'
    /\ \A m \in MemoryIds : memories[m].status = "deleted" => memories'[m] = memories[m]

\* Late, duplicated and replayed input never undoes a deletion or a newer
\* revision (ContextStore.ingest, replay_tombstones, update_memory).
NoRegression == [][KeepsGround]_vars
=============================================================================

------------------------------- MODULE Recovery -------------------------------
(***************************************************************************)
(* Restoring the assistant's state: scripts/assistant_context_recovery.py  *)
(* and scripts/restore-assistant-context-nas.py.                           *)
(*                                                                         *)
(* A cold archive (ColdBackup) holds the context store, the ledgers and    *)
(* vectors derived from it and the collector's revision ledger.  A restore *)
(* extracts it into a scratch target and fences the target; completion     *)
(* replays the deletions the live store has made since, proved current by  *)
(* a separate admission, scrubs what was derived, drops the vectors and    *)
(* opens the fence.  The service refuses to start on a closed fence.       *)
(*                                                                         *)
(* Per object the store keeps the current row and the deletion floor; what *)
(* the store does with revisions is in ContextStore, and only the outcome  *)
(* for the current row is repeated here.                                   *)
(***************************************************************************)
EXTENDS Integers, FiniteSets

CONSTANTS Objects,
          Scopes,
          ScopeOf,      \* the scope an object's rows are stored under
          Ledgers,      \* attention, delivery, routine and delegation ledgers
          MaxRevision,  \* bound on revisions
          MaxCrashes,   \* bound on interrupted commands
          MaxRestores   \* bound on restored targets

ASSUME RecoveryAssumption ==
    /\ ScopeOf \in [Objects -> Scopes]
    /\ MaxRevision \in Nat /\ MaxCrashes \in Nat /\ MaxRestores \in Nat

Revs == 0..MaxRevision
Floors == [Objects -> Revs]

\* What is kept of one object: the current row, the floor, the collector's
\* last revision, whether it was a live one and its undelivered event, the
\* revision each derived ledger and the vector cache cite (0 = none), and a
\* purge still to be done.
ObjectRows == [rev : Revs, op : {"none", "upsert", "delete"}, floor : Revs,
               seq : Revs, shown : BOOLEAN, out : {"none", "upsert", "delete"},
               copies : [Ledgers -> Revs], vector : Revs, notice : BOOLEAN]

\* restore-fence.json: phase "none" is a missing file.
Fences == [phase : {"none", "pending", "ready"}, scopes : SUBSET Scopes,
           floors : Floors]

Roots == [rows : [Objects -> ObjectRows], fence : Fences]

VARIABLES live,      \* /srv/state
          serving,   \* the context service runs on it
          restored,  \* it came from a restore
          archive,   \* the cold archive, or None
          target,    \* the scratch target, or None
          staged,    \* its staging command has reported success
          ledger,    \* the exported deletion ledger, or None
          admission, \* the admission of a ledger, or None
          pc,        \* what the restore command is doing
          todo,      \* scopes to replay, or objects and ledgers to scrub
          used,      \* the ledger it has read, and the one that was admitted
          crashes, restores

vars == <<live, serving, restored, archive, target, staged, ledger, admission,
          pc, todo, used, crashes, restores>>
liveVars == <<live, serving, restored>>
proofVars == <<ledger, admission>>
jobVars == <<pc, todo, used>>

None == [none |-> TRUE]

NoFence == [phase |-> "none", scopes |-> {}, floors |-> [o \in Objects |-> 0]]
Pending == [NoFence EXCEPT !.phase = "pending"]
Ready(scopes, floors) == [phase |-> "ready", scopes |-> scopes, floors |-> floors]

NewRow == [rev |-> 0, op |-> "none", floor |-> 0, seq |-> 0, shown |-> FALSE, out |-> "none",
           copies |-> [l \in Ledgers |-> 0], vector |-> 0, notice |-> FALSE]

RecoveryTypeOK ==
    /\ live \in Roots
    /\ serving \in BOOLEAN /\ restored \in BOOLEAN /\ staged \in BOOLEAN
    /\ archive \in Roots \cup {None} /\ target \in Roots \cup {None}
    /\ pc \in {"idle", "fence", "replay", "scrub", "open"}
    /\ crashes \in 0..MaxCrashes /\ restores \in 0..MaxRestores

\* A store that has never been restored, or that was before and serves behind
\* an open fence.
Init ==
    /\ \E fence \in {NoFence, Ready(Scopes, NoFence.floors)} :
          live = [rows |-> [o \in Objects |-> NewRow], fence |-> fence]
    /\ serving = TRUE /\ restored = FALSE
    /\ archive = None /\ target = None /\ staged = FALSE
    /\ ledger = None /\ admission = None
    /\ pc = "idle" /\ todo = {} /\ used = None
    /\ crashes = 0 /\ restores = 0

-----------------------------------------------------------------------------
(* The live service and its collector *)

SetRow(root, o, row) == [root EXCEPT !.rows[o] = row]

\* The collector sees a new or changed object, or misses one it has shown,
\* and queues the next revision.
Observe(o) ==
    LET row == live.rows[o] IN
    /\ serving /\ row.out = "none" /\ row.seq < MaxRevision
    /\ \E op \in {"upsert"} \cup (IF row.shown THEN {"delete"} ELSE {}) :
          live' = SetRow(live, o, [row EXCEPT !.seq = @ + 1, !.out = op,
                                              !.shown = (op = "upsert")])
    /\ UNCHANGED <<serving, restored, archive, target, staged, proofVars,
                   jobVars, crashes, restores>>

\* ContextStore.ingest: a revision at or below the floor or the current row
\* is stale.
Ingested(row) ==
    IF row.seq <= row.floor \/ row.seq <= row.rev
    THEN [row EXCEPT !.out = "none"]
    ELSE [row EXCEPT !.out = "none", !.rev = row.seq, !.op = row.out,
                     !.floor = IF row.out = "delete" THEN row.seq ELSE @,
                     !.notice = row.rev > 0 \/ @]

Deliver(o) ==
    /\ serving /\ live.rows[o].out # "none"
    /\ live' = SetRow(live, o, Ingested(live.rows[o]))
    /\ UNCHANGED <<serving, restored, archive, target, staged, proofVars,
                   jobVars, crashes, restores>>

\* cleanup: the notice of a changed object purges what was derived from it.
Cleanup(o) ==
    /\ serving /\ live.rows[o].notice
    /\ live' = SetRow(live, o, [live.rows[o] EXCEPT !.notice = FALSE,
                  !.copies = [l \in Ledgers |-> 0], !.vector = 0])
    /\ UNCHANGED <<serving, restored, archive, target, staged, proofVars,
                   jobVars, crashes, restores>>

\* A decision, message, briefing or task citing the current revision.
Derive(o) ==
    LET row == live.rows[o] IN
    /\ serving /\ row.op = "upsert" /\ ~row.notice
    /\ \/ \E l \in Ledgers : live' = SetRow(live, o, [row EXCEPT !.copies[l] = row.rev])
       \/ live' = SetRow(live, o, [row EXCEPT !.vector = row.rev])
    /\ UNCHANGED <<serving, restored, archive, target, staged, proofVars,
                   jobVars, crashes, restores>>

\* assert_restore_ready: no fence, or one that is ready.
MayStart(fence) == fence.phase \in {"none", "ready"}

StartService ==
    /\ ~serving /\ MayStart(live.fence)
    /\ serving' = TRUE
    /\ UNCHANGED <<live, restored, archive, target, staged, proofVars,
                   jobVars, crashes, restores>>

\* The operator stops the service (to cut over), or it dies.
StopService ==
    /\ serving
    /\ serving' = FALSE
    /\ UNCHANGED <<live, restored, archive, target, staged, proofVars,
                   jobVars, crashes, restores>>

\* The archive is a cut of the whole live tree, fence file included.
TakeArchive ==
    /\ archive = None
    /\ archive' = live
    /\ UNCHANGED <<liveVars, target, staged, proofVars, jobVars, crashes,
                   restores>>

-----------------------------------------------------------------------------
(* Deletion ledger and admission *)

LedgerOf(root, scopes) ==
    [scopes |-> scopes,
     floors |-> [o \in Objects |-> IF ScopeOf[o] \in scopes THEN root.rows[o].floor ELSE 0]]

\* Nobody exports a ledger before there is an archive to restore.
Export ==
    /\ archive # None
    /\ \E scopes \in SUBSET Scopes \ {{}} : ledger' = LedgerOf(live, scopes)
    /\ UNCHANGED <<liveVars, archive, target, staged, admission, jobVars,
                   crashes, restores>>

\* The source controller confirms that the ledger is the live store's.
Admit ==
    /\ ledger # None /\ ledger = LedgerOf(live, ledger.scopes)
    /\ admission' = [ledger |-> ledger, fresh |-> TRUE]
    /\ UNCHANGED <<liveVars, archive, target, staged, ledger, jobVars,
                   crashes, restores>>

\* A day passes.
AdmissionAges ==
    /\ admission # None /\ admission.fresh
    /\ admission' = [admission EXCEPT !.fresh = FALSE]
    /\ UNCHANGED <<liveVars, archive, target, staged, ledger, jobVars,
                   crashes, restores>>

-----------------------------------------------------------------------------
(* Staging *)

\* stage_restore: verify extracts the archive, its fence included, into a new
\* target.
Extract ==
    /\ pc = "idle" /\ archive # None /\ target = None /\ restores < MaxRestores
    /\ target' = archive /\ staged' = FALSE
    /\ pc' = "fence"
    /\ restores' = restores + 1
    /\ UNCHANGED <<liveVars, archive, proofVars, todo, used, crashes>>

WriteFence ==
    /\ pc = "fence"
    /\ target' = [target EXCEPT !.fence = Pending]
    /\ staged' = TRUE
    /\ pc' = "idle"
    /\ UNCHANGED <<liveVars, archive, proofVars, todo, used, crashes,
                   restores>>

\* stage_verified_extracted: an extraction that has a fence is refused.
StageExtracted ==
    /\ pc = "idle" /\ target # None /\ target.fence.phase = "none"
    /\ target' = [target EXCEPT !.fence = Pending]
    /\ staged' = TRUE
    /\ UNCHANGED <<liveVars, archive, proofVars, jobVars, crashes, restores>>

\* extract_assistant writes the fence first and skips the archived one; a
\* target interrupted half way stays fenced and is good for nothing.
ExtractFenced ==
    /\ pc = "idle" /\ archive # None /\ target = None /\ restores < MaxRestores
    /\ target' = [archive EXCEPT !.fence = Pending]
    /\ staged' = TRUE
    /\ restores' = restores + 1
    /\ UNCHANGED <<liveVars, archive, proofVars, jobVars, crashes>>

-----------------------------------------------------------------------------
(* Completion *)

\* _stored_scopes: every scope any database of the target has rows of.
Present(row) == row.op # "none" \/ row.floor > 0
StoredScopes(root) == {ScopeOf[o] : o \in {p \in Objects : Present(root.rows[p])}}

\* Faulty variant: any admission will do.
AnyAdmission(l, a) == a.fresh

\* _validate_admission: it names this ledger and is less than a day old.
Admitted(l, a) == a.ledger = l /\ a.fresh

\* Every check of complete_restore, then the fence notes that replay began.
BeginComplete ==
    /\ pc = "idle" /\ target # None /\ target.fence.phase = "pending"
    /\ ledger # None /\ admission # None
    /\ Admitted(ledger, admission)
    /\ StoredScopes(target) \subseteq ledger.scopes
    /\ used' = [ledger |-> ledger, proof |-> admission.ledger]
    /\ todo' = ledger.scopes
    /\ pc' = "replay"
    /\ UNCHANGED <<liveVars, archive, target, staged, proofVars, crashes,
                   restores>>

Larger(a, b) == IF a > b THEN a ELSE b

\* Faulty variant: a listed object is deleted, whatever revision it is at.
ReplacesAll(row, floor) == TRUE

\* A recreation newer than the floor survives.
Replaces(row, floor) == ~(row.op = "upsert" /\ row.rev > floor)

\* replay_tombstones, for one object of the ledger.
Replayed(row, min) ==
    LET floor == Larger(min, Larger(row.floor, IF row.op = "delete" THEN row.rev ELSE 0))
    IN IF min = 0 THEN row
       ELSE IF Replaces(row, floor)
            THEN [row EXCEPT !.floor = floor, !.rev = floor, !.op = "delete"]
            ELSE [row EXCEPT !.floor = floor]

Replay ==
    /\ pc = "replay"
    /\ \E s \in todo :
        /\ target' = [target EXCEPT !.rows = [o \in Objects |->
               IF ScopeOf[o] = s THEN Replayed(target.rows[o], used.ledger.floors[o])
               ELSE target.rows[o]]]
        /\ IF todo = {s}
           THEN /\ pc' = "scrub"
                /\ todo' = {o \in Objects : used.ledger.floors[o] > 0} \X Ledgers
           ELSE todo' = todo \ {s} /\ UNCHANGED pc
    /\ UNCHANGED <<liveVars, archive, staged, proofVars, used, crashes,
                   restores>>

\* purge_source of one ledger.
Purged(row, l) == [row.copies EXCEPT ![l] = 0]

\* _derived_scrub: one tombstone, one ledger.
Scrub ==
    /\ pc = "scrub"
    /\ \E item \in todo :
        /\ target' = [target EXCEPT !.rows[item[1]].copies =
                         Purged(target.rows[item[1]], item[2])]
        /\ todo' = todo \ {item}
    /\ UNCHANGED <<liveVars, archive, staged, proofVars, pc, used, crashes,
                   restores>>

\* invalidate_all_after_restore.
DropVectors ==
    /\ pc = "scrub" /\ todo = {}
    /\ target' = [target EXCEPT !.rows =
                     [o \in Objects |-> [target.rows[o] EXCEPT !.vector = 0]]]
    /\ pc' = "open"
    /\ UNCHANGED <<liveVars, archive, staged, proofVars, todo, used, crashes,
                   restores>>

OpenFence ==
    /\ pc = "open"
    /\ target' = [target EXCEPT !.fence = Ready(used.proof.scopes, used.proof.floors)]
    /\ pc' = "idle" /\ used' = None
    /\ UNCHANGED <<liveVars, archive, staged, proofVars, todo, crashes,
                   restores>>

\* The command dies; the target stays as it is.
Crash ==
    /\ pc # "idle" /\ crashes < MaxCrashes
    /\ crashes' = crashes + 1
    /\ pc' = "idle" /\ todo' = {} /\ used' = None
    /\ UNCHANGED <<liveVars, archive, target, staged, proofVars, restores>>

\* The operator installs a staged target, whatever its fence says.
CutOver ==
    /\ ~serving /\ target # None /\ staged /\ pc = "idle"
    /\ live' = target /\ restored' = TRUE
    /\ target' = None /\ staged' = FALSE
    /\ UNCHANGED <<serving, archive, proofVars, jobVars, crashes, restores>>

-----------------------------------------------------------------------------
Next ==
    \/ \E o \in Objects : Observe(o) \/ Deliver(o) \/ Cleanup(o) \/ Derive(o)
    \/ StartService \/ StopService \/ TakeArchive
    \/ Export \/ Admit \/ AdmissionAges
    \/ Extract \/ WriteFence \/ StageExtracted \/ ExtractFenced
    \/ BeginComplete \/ Replay \/ Scrub \/ DropVectors \/ OpenFence
    \/ Crash \/ CutOver

Spec == Init /\ [][Next]_vars

-----------------------------------------------------------------------------
(* Properties *)

\* A restored service that runs has every deletion its admission proved: no
\* row, ledger or vector holds a revision at or below a proved floor, and a
\* late event cannot bring one back, wherever a completion was interrupted
\* and whichever ledgers earlier attempts replayed (complete_restore).
NothingResurfaces ==
    serving /\ restored =>
      /\ live.fence.phase = "ready"
      /\ \A o \in {p \in Objects : ScopeOf[p] \in live.fence.scopes} :
           LET row == live.rows[o]
               f   == live.fence.floors[o]
           IN /\ row.floor >= f
              /\ row.op = "upsert" => row.rev > f
              /\ \A l \in Ledgers : row.copies[l] = 0 \/ row.copies[l] > f
              /\ row.vector = 0 \/ row.vector > f

\* Replay deletes no more than it must: what the archive holds above every
\* replayed floor is in the completed target (replay_tombstones: "without
\* erasing a genuinely newer recreation already present in this archive").
NewerSurvives ==
    target # None /\ target.fence.phase = "ready" /\ staged =>
      \A o \in Objects :
        LET old == archive.rows[o]
            new == target.rows[o]
        IN old.op = "upsert" /\ old.rev > new.floor => new.op = "upsert" /\ new.rev = old.rev

\* The collector is ahead of the store it posts to: the next revision it
\* assigns to an object is above the object's deletion floor, so a genuine
\* recreation is served ("Only a strictly newer source revision can recreate
\* a deleted object.  Source connectors must distinguish genuine recreation
\* from backup replay", deploy/assistant-context/README.md:146).
CollectorIsAhead ==
    serving => \A o \in Objects : live.rows[o].seq >= live.rows[o].floor
=============================================================================

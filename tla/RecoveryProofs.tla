--------------------------- MODULE RecoveryProofs ---------------------------
(***************************************************************************)
(* Proofs about Recovery: however often a completion is interrupted and    *)
(* begun again, whatever ledgers earlier attempts replayed and whatever    *)
(* the live service does meanwhile, a restored service that runs has every *)
(* deletion its admission proved, and nothing newer than the replayed      *)
(* floors is lost.                                                         *)
(***************************************************************************)
EXTENDS Recovery, TLAPS

-----------------------------------------------------------------------------
(* The inductive invariant.                                                *)

\* Exported ledgers.
LedgerRecs == [scopes : SUBSET Scopes, floors : Floors]

\* The steps of a completion after its checks.
Completing == {"replay", "scrub", "open"}

ProofTypeOK ==
    /\ ledger \in LedgerRecs \cup {None}
    /\ admission \in [ledger : LedgerRecs, fresh : BOOLEAN] \cup {None}
    /\ pc \in Completing =>
         used \in [ledger : LedgerRecs, proof : LedgerRecs] /\ used.proof = used.ledger

\* What is served of an object is above its floor: the store refuses the
\* rest, and replay deletes it.
AboveFloor(root) == \A o \in Objects : root.rows[o].op = "upsert" => root.rows[o].rev > root.rows[o].floor

\* The deletion at f holds for the row, for its copies and for its vector.
Replaced(row, f) == row.floor >= f /\ (row.op = "upsert" => row.rev > f)
Scrubbed(row, f, l) == row.copies[l] = 0 \/ row.copies[l] > f
Dropped(row, f) == row.vector = 0 \/ row.vector > f

Fenced(row, f) == Replaced(row, f) /\ (\A l \in Ledgers : Scrubbed(row, f, l)) /\ Dropped(row, f)

\* An open fence keeps its promise, in every tree that has one.
Faithful(root) ==
    root.fence.phase = "ready" =>
        \A o \in Objects : ScopeOf[o] \in root.fence.scopes => Fenced(root.rows[o], root.fence.floors[o])

\* How the trees relate: no restored or staged tree is without a fence, no
\* service runs behind a pending one, and the archive is older than any
\* restore.
Phases ==
    /\ restored => live.fence.phase # "none"
    /\ serving => live.fence.phase # "pending"
    /\ staged /\ target # None => target.fence.phase # "none"
    /\ target # None => archive # None
    /\ pc = "fence" => target # None
    /\ pc \in Completing => target # None /\ target.fence.phase = "pending"

\* How far the completion has come.
Progress ==
    /\ pc = "replay" => todo \subseteq Scopes
    /\ pc = "scrub" => todo \subseteq Objects \X Ledgers
    /\ pc \in Completing =>
         \A o \in Objects : ScopeOf[o] \in used.ledger.scopes =>
           \/ pc = "replay" /\ ScopeOf[o] \in todo
           \/ Replaced(target.rows[o], used.ledger.floors[o])
    /\ pc \in {"scrub", "open"} =>
         \A o \in Objects, l \in Ledgers :
           \/ pc = "scrub" /\ <<o, l>> \in todo
           \/ Scrubbed(target.rows[o], used.ledger.floors[o], l)
    /\ pc = "open" => \A o \in Objects : target.rows[o].vector = 0

\* What the archive holds above the floor of a row is in the row.
Survives(old, new) == old.op = "upsert" /\ old.rev > new.floor => new.op = "upsert" /\ new.rev = old.rev

RootOK(root) == AboveFloor(root) /\ Faithful(root)

TargetOK == RootOK(target) /\ \A o \in Objects : Survives(archive.rows[o], target.rows[o])

RecoveryInv ==
    /\ RecoveryTypeOK /\ ProofTypeOK /\ Phases /\ Progress
    /\ RootOK(live)
    /\ archive # None => RootOK(archive)
    /\ target # None => TargetOK

-----------------------------------------------------------------------------
(* Rows and trees.                                                         *)

\* None is not a tree.
LEMMA NoneIsNoRoot == \A root \in Roots : root # None
  <1>1. ASSUME NEW root \in Roots PROVE root # None
    <2>1. DOMAIN root = {"rows", "fence"}
      BY DEF Roots
    <2>2. DOMAIN None = {"none"}
      BY DEF None
    <2>3. "rows" \in DOMAIN root /\ "rows" \notin DOMAIN None
      BY <2>1, <2>2
    <2> QED BY <2>3
  <1> QED BY <1>1

\* One row of a tree is replaced.
LEMMA SetRowFacts ==
  ASSUME NEW root \in Roots, NEW o \in Objects, NEW row \in ObjectRows
  PROVE  /\ SetRow(root, o, row) \in Roots
         /\ SetRow(root, o, row).fence = root.fence
         /\ SetRow(root, o, row).rows[o] = row
         /\ \A p \in Objects \ {o} : SetRow(root, o, row).rows[p] = root.rows[p]
  BY DEF SetRow, Roots

\* A new row that keeps what any fence may have promised.
LEMMA SetRowOK ==
  ASSUME NEW root \in Roots, RootOK(root), NEW o \in Objects, NEW row \in ObjectRows,
         row.op = "upsert" => row.rev > row.floor,
         \A f \in Revs : Fenced(root.rows[o], f) => Fenced(row, f)
  PROVE  RootOK(SetRow(root, o, row))
  <1> DEFINE new == SetRow(root, o, row)
  <1>1. /\ new.fence = root.fence /\ new.rows[o] = row
        /\ \A p \in Objects \ {o} : new.rows[p] = root.rows[p]
    BY SetRowFacts
  <1>2. \A p \in Objects : root.fence.floors[p] \in Revs
    BY DEF Roots, Fences, Floors
  <1> HIDE DEF new
  <1>3. AboveFloor(new)
    BY <1>1 DEF RootOK, AboveFloor
  <1>4. Faithful(new)
    BY <1>1, <1>2 DEF RootOK, Faithful
  <1> QED BY <1>3, <1>4 DEF RootOK, new

\* The fence of a tree is replaced by a pending one.
LEMMA PendingFacts ==
  ASSUME RecoveryAssumption, NEW root \in Roots, AboveFloor(root)
  PROVE  /\ [root EXCEPT !.fence = Pending] \in Roots
         /\ [root EXCEPT !.fence = Pending].fence.phase = "pending"
         /\ [root EXCEPT !.fence = Pending].rows = root.rows
         /\ RootOK([root EXCEPT !.fence = Pending])
  <1> DEFINE new == [root EXCEPT !.fence = Pending]
  <1>1. Pending \in Fences /\ Pending.phase = "pending"
    BY DEF Pending, NoFence, Fences, Floors, Revs, RecoveryAssumption
  <1>2. new \in Roots /\ new.fence = Pending /\ new.rows = root.rows
    BY <1>1 DEF Roots
  <1> HIDE DEF new
  <1>3. RootOK(new)
    BY <1>1, <1>2 DEF RootOK, AboveFloor, Faithful
  <1> QED BY <1>1, <1>2, <1>3 DEF new

\* The rows of a tree behind a pending fence are replaced.
LEMMA PendingRows ==
  ASSUME NEW root \in Roots, root.fence.phase = "pending", NEW rows \in [Objects -> ObjectRows],
         \A o \in Objects : rows[o].op = "upsert" => rows[o].rev > rows[o].floor
  PROVE  /\ [root EXCEPT !.rows = rows] \in Roots
         /\ [root EXCEPT !.rows = rows].fence = root.fence
         /\ [root EXCEPT !.rows = rows].rows = rows
         /\ RootOK([root EXCEPT !.rows = rows])
  <1> DEFINE new == [root EXCEPT !.rows = rows]
  <1>1. new \in Roots /\ new.fence = root.fence /\ new.rows = rows
    BY DEF Roots
  <1> HIDE DEF new
  <1>2. RootOK(new)
    BY <1>1 DEF RootOK, AboveFloor, Faithful
  <1> QED BY <1>1, <1>2 DEF new

-----------------------------------------------------------------------------
(* The live service.                                                       *)

\* What the collector, the store and the ledgers do to a row.
LiveRowStep(row, new) ==
    \/ \E op \in {"upsert", "delete"} :
         /\ row.seq < MaxRevision
         /\ new = [row EXCEPT !.seq = @ + 1, !.out = op, !.shown = (op = "upsert")]
    \/ row.out # "none" /\ new = Ingested(row)
    \/ new = [row EXCEPT !.notice = FALSE, !.copies = [k \in Ledgers |-> 0], !.vector = 0]
    \/ \E l \in Ledgers : row.op = "upsert" /\ new = [row EXCEPT !.copies[l] = row.rev]
    \/ row.op = "upsert" /\ new = [row EXCEPT !.vector = row.rev]

\* It stays above its floor and keeps what a fence promised.
LEMMA LiveRowOK ==
  ASSUME RecoveryAssumption, NEW row \in ObjectRows, row.op = "upsert" => row.rev > row.floor,
         NEW new, LiveRowStep(row, new)
  PROVE  /\ new \in ObjectRows
         /\ new.op = "upsert" => new.rev > new.floor
         /\ \A f \in Revs : Fenced(row, f) => Fenced(new, f)
  <1> USE DEF ObjectRows, Revs, RecoveryAssumption
  <1> DEFINE P == /\ new \in ObjectRows
                  /\ new.op = "upsert" => new.rev > new.floor
                  /\ \A f \in Revs : Fenced(row, f) => Fenced(new, f)
  <1>1. ASSUME NEW op \in {"upsert", "delete"}, row.seq < MaxRevision,
               new = [row EXCEPT !.seq = @ + 1, !.out = op, !.shown = (op = "upsert")]
        PROVE  P
    <2>1. row.seq + 1 \in Revs
      BY <1>1
    <2>2. (op = "upsert") \in BOOLEAN
      OBVIOUS
    <2>3. /\ new \in ObjectRows /\ new.op = row.op /\ new.rev = row.rev /\ new.floor = row.floor
          /\ new.copies = row.copies /\ new.vector = row.vector
      BY <1>1, <2>1, <2>2
    <2> QED BY <2>3 DEF Fenced, Replaced, Scrubbed, Dropped
  <1>2. CASE row.out # "none" /\ new = Ingested(row)
    <2>1. CASE row.seq <= row.floor \/ row.seq <= row.rev
      <3>1. new = [row EXCEPT !.out = "none"]
        BY <1>2, <2>1 DEF Ingested
      <3> QED BY <3>1 DEF Fenced, Replaced, Scrubbed, Dropped
    <2>2. CASE ~(row.seq <= row.floor \/ row.seq <= row.rev)
      <3> DEFINE floor == IF row.out = "delete" THEN row.seq ELSE row.floor
                 notice == row.rev > 0 \/ row.notice
      <3>1. floor \in Revs /\ floor >= row.floor /\ (row.out = "upsert" => floor = row.floor)
        BY <2>2
      <3>2. notice \in BOOLEAN
        OBVIOUS
      <3>3. new = [row EXCEPT !.out = "none", !.rev = row.seq, !.op = row.out,
                              !.floor = floor, !.notice = notice]
        BY <1>2, <2>2 DEF Ingested
      <3> HIDE DEF floor, notice
      <3>4. /\ new \in ObjectRows /\ new.op = row.out /\ new.rev = row.seq /\ new.floor = floor
            /\ new.copies = row.copies /\ new.vector = row.vector
        BY <3>1, <3>2, <3>3
      <3> QED BY <2>2, <3>1, <3>4 DEF Fenced, Replaced, Scrubbed, Dropped
    <2> QED BY <2>1, <2>2
  <1>3. CASE new = [row EXCEPT !.notice = FALSE, !.copies = [k \in Ledgers |-> 0], !.vector = 0]
    <2>1. 0 \in Revs
      OBVIOUS
    <2>2. /\ new \in ObjectRows /\ new.op = row.op /\ new.rev = row.rev /\ new.floor = row.floor
          /\ new.copies = [k \in Ledgers |-> 0] /\ new.vector = 0
      BY <1>3, <2>1
    <2> QED BY <2>2 DEF Fenced, Replaced, Scrubbed, Dropped
  <1>4. ASSUME NEW l \in Ledgers, row.op = "upsert", new = [row EXCEPT !.copies[l] = row.rev]
        PROVE  P
    <2>1. /\ new \in ObjectRows /\ new.op = row.op /\ new.rev = row.rev /\ new.floor = row.floor
          /\ new.copies = [row.copies EXCEPT ![l] = row.rev] /\ new.vector = row.vector
      BY <1>4
    <2> QED BY <1>4, <2>1 DEF Fenced, Replaced, Scrubbed, Dropped
  <1>5. CASE row.op = "upsert" /\ new = [row EXCEPT !.vector = row.rev]
    BY <1>5 DEF Fenced, Replaced, Scrubbed, Dropped
  <1> QED BY <1>1, <1>2, <1>3, <1>4, <1>5 DEF LiveRowStep

\* Each of the four actions takes such a step.
LEMMA LiveSteps ==
  ASSUME RecoveryInv, NEW o \in Objects, Observe(o) \/ Deliver(o) \/ Cleanup(o) \/ Derive(o)
  PROVE  /\ \E new : LiveRowStep(live.rows[o], new) /\ live' = SetRow(live, o, new)
         /\ UNCHANGED <<serving, restored, archive, target, staged, ledger, admission, pc, todo,
                        used, crashes, restores>>
  <1> USE DEF proofVars, jobVars
  <1>1. CASE Observe(o)
    <2>1. PICK op \in {"upsert", "delete"} :
             /\ live.rows[o].seq < MaxRevision
             /\ live' = SetRow(live, o, [live.rows[o] EXCEPT !.seq = @ + 1, !.out = op,
                                                            !.shown = (op = "upsert")])
      BY <1>1 DEF Observe
    <2> QED BY <1>1, <2>1 DEF Observe, LiveRowStep
  <1>2. CASE Deliver(o)
    BY <1>2 DEF Deliver, LiveRowStep
  <1>3. CASE Cleanup(o)
    BY <1>3 DEF Cleanup, LiveRowStep
  <1>4. CASE Derive(o)
    <2>1. CASE \E l \in Ledgers :
                 live' = SetRow(live, o, [live.rows[o] EXCEPT !.copies[l] = live.rows[o].rev])
      BY <1>4, <2>1 DEF Derive, LiveRowStep
    <2>2. CASE live' = SetRow(live, o, [live.rows[o] EXCEPT !.vector = live.rows[o].rev])
      BY <1>4, <2>2 DEF Derive, LiveRowStep
    <2> QED BY <1>4, <2>1, <2>2 DEF Derive
  <1> QED BY <1>1, <1>2, <1>3, <1>4

\* What collector, store and cleanup do to the live root keeps the invariant.
LEMMA LiveInv ==
  ASSUME RecoveryAssumption, RecoveryInv, NEW o \in Objects,
         Observe(o) \/ Deliver(o) \/ Cleanup(o) \/ Derive(o)
  PROVE  RecoveryInv'
  <1>1. PICK new : LiveRowStep(live.rows[o], new) /\ live' = SetRow(live, o, new)
    BY LiveSteps
  <1>2. UNCHANGED <<serving, restored, archive, target, staged, ledger, admission, pc, todo,
                    used, crashes, restores>>
    BY LiveSteps
  <1>3. live \in Roots /\ live.rows[o] \in ObjectRows
    BY DEF RecoveryInv, RecoveryTypeOK, Roots
  <1>4. /\ new \in ObjectRows
        /\ new.op = "upsert" => new.rev > new.floor
        /\ \A f \in Revs : Fenced(live.rows[o], f) => Fenced(new, f)
    BY <1>1, <1>3, LiveRowOK DEF RecoveryInv, RootOK, AboveFloor
  <1>5. live' \in Roots /\ live'.fence = live.fence
    BY <1>1, <1>3, <1>4, SetRowFacts
  <1>6. RootOK(live')
    BY <1>1, <1>3, <1>4, SetRowOK DEF RecoveryInv
  <1>7. RecoveryTypeOK' /\ ProofTypeOK'
    BY <1>2, <1>5 DEF RecoveryInv, RecoveryTypeOK, ProofTypeOK
  <1>8. Phases' /\ Progress'
    BY <1>2, <1>5 DEF RecoveryInv, Phases, Progress
  <1>9. (archive # None => RootOK(archive))' /\ (target # None => TargetOK)'
    BY <1>2 DEF RecoveryInv, TargetOK, RootOK, AboveFloor, Faithful
  <1> QED BY <1>6, <1>7, <1>8, <1>9 DEF RecoveryInv, RootOK, AboveFloor, Faithful

-----------------------------------------------------------------------------
(* Archives, ledgers and admissions.                                       *)

\* Every tree in sight is one that was there.
LEMMA SameRoots ==
  ASSUME RecoveryInv, UNCHANGED <<live, target>>, archive' = archive \/ (archive = None /\ archive' = live)
  PROVE  /\ RootOK(live)' /\ (archive # None => RootOK(archive))' /\ (target # None => TargetOK)'
         /\ live' \in Roots /\ archive' \in Roots \cup {None} /\ target' \in Roots \cup {None}
  <1>1. RootOK(live)'
    BY DEF RecoveryInv, RootOK, AboveFloor, Faithful
  <1>2. (archive # None => RootOK(archive))'
    BY DEF RecoveryInv, RootOK, AboveFloor, Faithful
  <1>3. target # None => archive' = archive
    BY DEF RecoveryInv, Phases
  <1>4. (target # None => TargetOK)'
    BY <1>3 DEF RecoveryInv, TargetOK, RootOK, AboveFloor, Faithful
  <1> QED BY <1>1, <1>2, <1>4 DEF RecoveryInv, RecoveryTypeOK

\* So do starts and stops of the service and the archive.
LEMMA ServiceInv ==
  ASSUME RecoveryAssumption, RecoveryInv, StartService \/ StopService \/ TakeArchive
  PROVE  RecoveryInv'
  <1> USE DEF proofVars, jobVars, liveVars
  <1>1. /\ UNCHANGED <<live, restored, target, staged, ledger, admission, pc, todo, used, crashes, restores>>
        /\ archive' = archive \/ (archive = None /\ archive' = live)
        /\ serving' \in BOOLEAN
    BY DEF StartService, StopService, TakeArchive, RecoveryInv, RecoveryTypeOK
  <1>2. (serving => live.fence.phase # "pending")'
    BY DEF StartService, StopService, TakeArchive, MayStart, RecoveryInv, Phases
  <1>3. (target # None => archive # None)'
    BY <1>1 DEF RecoveryInv, Phases
  <1>4. Phases'
    BY <1>1, <1>2, <1>3 DEF RecoveryInv, Phases
  <1>5. ProofTypeOK' /\ Progress'
    BY <1>1 DEF RecoveryInv, ProofTypeOK, Progress
  <1>6. RecoveryTypeOK'
    BY <1>1, SameRoots DEF RecoveryInv, RecoveryTypeOK
  <1> QED BY <1>1, <1>4, <1>5, <1>6, SameRoots DEF RecoveryInv

\* The deletion floors of some scopes.
LEMMA LedgerFacts ==
  ASSUME RecoveryAssumption, live \in Roots, NEW scopes \in SUBSET Scopes
  PROVE  LedgerOf(live, scopes) \in LedgerRecs
  BY DEF LedgerOf, LedgerRecs, Floors, Roots, ObjectRows, Revs, RecoveryAssumption

\* So do exports and the admission of a ledger.
LEMMA AdmissionInv ==
  ASSUME RecoveryAssumption, RecoveryInv, Export \/ Admit \/ AdmissionAges
  PROVE  RecoveryInv'
  <1> USE DEF jobVars, liveVars
  <1>1. UNCHANGED <<live, serving, restored, archive, target, staged, pc, todo, used, crashes, restores>>
    BY DEF Export, Admit, AdmissionAges
  <1>2. ledger' \in LedgerRecs \cup {None}
    BY LedgerFacts DEF Export, Admit, AdmissionAges, RecoveryInv, RecoveryTypeOK, ProofTypeOK
  <1>3. admission' \in [ledger : LedgerRecs, fresh : BOOLEAN] \cup {None}
    <2>1. CASE Export
      BY <2>1 DEF Export, RecoveryInv, ProofTypeOK
    <2>2. CASE Admit
      BY <2>2 DEF Admit, RecoveryInv, ProofTypeOK
    <2>3. CASE AdmissionAges
      BY <2>3 DEF AdmissionAges, RecoveryInv, ProofTypeOK
    <2> QED BY <2>1, <2>2, <2>3
  <1>4. ProofTypeOK'
    BY <1>1, <1>2, <1>3 DEF RecoveryInv, ProofTypeOK
  <1>5. Phases' /\ Progress' /\ RecoveryTypeOK'
    BY <1>1 DEF RecoveryInv, Phases, Progress, RecoveryTypeOK
  <1> QED BY <1>1, <1>4, <1>5, SameRoots DEF RecoveryInv

\* The checks of a completion pin down the ledger it replays, and its death
\* leaves a target behind the pending fence.
LEMMA BeginInv ==
  ASSUME RecoveryAssumption, RecoveryInv, BeginComplete \/ Crash
  PROVE  RecoveryInv'
  <1> USE DEF liveVars, proofVars
  <1>1. UNCHANGED <<live, serving, restored, archive, target, staged, ledger, admission, restores>>
    BY DEF BeginComplete, Crash
  <1>2. CASE BeginComplete
    <2>1. /\ ledger \in LedgerRecs /\ admission.ledger = ledger
          /\ target # None /\ target.fence.phase = "pending"
      BY <1>2 DEF BeginComplete, Admitted, RecoveryInv, ProofTypeOK
    <2>2. pc' = "replay" /\ todo' = ledger.scopes /\ used' = [ledger |-> ledger, proof |-> ledger]
      BY <1>2, <2>1 DEF BeginComplete
    <2>3. used' \in [ledger : LedgerRecs, proof : LedgerRecs] /\ used'.proof = used'.ledger
          /\ used'.ledger = ledger
      BY <2>1, <2>2
    <2>4. ProofTypeOK'
      BY <1>1, <2>3 DEF RecoveryInv, ProofTypeOK
    <2>5. Phases' /\ RecoveryTypeOK'
      BY <1>1, <1>2, <2>1, <2>2 DEF RecoveryInv, Phases, RecoveryTypeOK, BeginComplete
    <2>6. Progress'
      BY <1>1, <2>1, <2>2, <2>3 DEF Progress, LedgerRecs
    <2> QED BY <1>1, <2>4, <2>5, <2>6, SameRoots DEF RecoveryInv
  <1>3. CASE Crash
    <2>1. pc' = "idle" /\ crashes' \in 0..MaxCrashes
      BY <1>3 DEF Crash, RecoveryInv, RecoveryTypeOK, RecoveryAssumption
    <2>2. ProofTypeOK' /\ Progress'
      BY <1>1, <2>1 DEF RecoveryInv, ProofTypeOK, Progress, Completing
    <2>3. Phases' /\ RecoveryTypeOK'
      BY <1>1, <2>1 DEF RecoveryInv, Phases, RecoveryTypeOK, Completing
    <2> QED BY <1>1, <2>2, <2>3, SameRoots DEF RecoveryInv
  <1> QED BY <1>2, <1>3

-----------------------------------------------------------------------------
(* Staging.                                                                *)

\* A step that replaces the target only.
LEMMA NewTarget ==
  ASSUME RecoveryInv, UNCHANGED <<live, serving, restored, archive, ledger, admission, crashes>>,
         target' \in Roots, archive # None, staged' \in BOOLEAN, restores' \in 0..MaxRestores,
         RootOK(target'), \A o \in Objects : Survives(archive.rows[o], target'.rows[o]),
         staged' => target'.fence.phase # "none",
         pc' \in {"idle", "fence", "replay", "scrub", "open"},
         pc' \in Completing => /\ pc \in Completing /\ used' = used
                               /\ target'.fence.phase = "pending",
         Progress'
  PROVE  RecoveryInv'
  <1>1. target' # None
    BY NoneIsNoRoot
  <1>2. RecoveryTypeOK' /\ ProofTypeOK'
    BY DEF RecoveryInv, RecoveryTypeOK, ProofTypeOK
  <1>3. Phases'
    BY <1>1 DEF RecoveryInv, Phases
  <1>4. RootOK(live)' /\ (archive # None => RootOK(archive))'
    BY DEF RecoveryInv, RootOK, AboveFloor, Faithful
  <1>5. TargetOK'
    BY DEF TargetOK, RootOK, AboveFloor, Faithful, Survives
  <1> QED BY <1>2, <1>3, <1>4, <1>5 DEF RecoveryInv

\* A tree newly extracted, and a fence put before one, with no completion
\* under way.
LEMMA StagingInv ==
  ASSUME RecoveryAssumption, RecoveryInv, Extract \/ WriteFence \/ StageExtracted \/ ExtractFenced
  PROVE  RecoveryInv'
  <1> USE DEF liveVars, proofVars, jobVars
  <1>1. UNCHANGED <<live, serving, restored, archive, ledger, admission, crashes>>
    BY DEF Extract, WriteFence, StageExtracted, ExtractFenced
  <1>2. staged' \in BOOLEAN /\ pc' \in {"idle", "fence"}
    BY DEF Extract, WriteFence, StageExtracted, ExtractFenced
  <1>3. restores' \in 0..MaxRestores
    BY DEF Extract, WriteFence, StageExtracted, ExtractFenced, RecoveryInv, RecoveryTypeOK, RecoveryAssumption
  <1>4. Progress'
    BY <1>2 DEF Progress, Completing
  <1>5. CASE Extract
    <2>1. archive \in Roots /\ archive # None /\ RootOK(archive) /\ target' = archive /\ ~staged'
      BY <1>5 DEF Extract, RecoveryInv, RecoveryTypeOK
    <2>2. \A o \in Objects : Survives(archive.rows[o], target'.rows[o])
      BY <2>1 DEF Survives
    <2> QED BY <1>1, <1>2, <1>3, <1>4, <2>1, <2>2, NewTarget DEF Completing
  <1>6. CASE WriteFence \/ StageExtracted
    <2>1. target \in Roots /\ target # None /\ TargetOK /\ archive # None
      BY <1>6 DEF WriteFence, StageExtracted, RecoveryInv, RecoveryTypeOK, Phases
    <2>2. target' = [target EXCEPT !.fence = Pending]
      BY <1>6 DEF WriteFence, StageExtracted
    <2>3. /\ target' \in Roots /\ target'.fence.phase = "pending" /\ target'.rows = target.rows
          /\ RootOK(target')
      BY <2>1, <2>2, PendingFacts DEF TargetOK, RootOK
    <2>4. \A o \in Objects : Survives(archive.rows[o], target'.rows[o])
      BY <2>1, <2>3 DEF TargetOK
    <2> QED BY <1>1, <1>2, <1>3, <1>4, <2>1, <2>3, <2>4, NewTarget DEF Completing
  <1>7. CASE ExtractFenced
    <2>1. archive \in Roots /\ archive # None /\ RootOK(archive)
      BY <1>7 DEF ExtractFenced, RecoveryInv, RecoveryTypeOK
    <2>2. target' = [archive EXCEPT !.fence = Pending]
      BY <1>7 DEF ExtractFenced
    <2>3. /\ target' \in Roots /\ target'.fence.phase = "pending" /\ target'.rows = archive.rows
          /\ RootOK(target')
      BY <2>1, <2>2, PendingFacts DEF RootOK
    <2>4. \A o \in Objects : Survives(archive.rows[o], target'.rows[o])
      BY <2>3 DEF Survives
    <2> QED BY <1>1, <1>2, <1>3, <1>4, <2>1, <2>3, <2>4, NewTarget DEF Completing
  <1> QED BY <1>5, <1>6, <1>7

-----------------------------------------------------------------------------
(* Completion.                                                             *)

\* What is known while a completion goes on.
LEMMA CompletionFacts ==
  ASSUME RecoveryInv, pc \in Completing
  PROVE  /\ target \in Roots /\ target # None /\ target.fence.phase = "pending"
         /\ archive # None /\ TargetOK
         /\ used \in [ledger : LedgerRecs, proof : LedgerRecs] /\ used.proof = used.ledger
         /\ \A o \in Objects : target.rows[o] \in ObjectRows /\ used.ledger.floors[o] \in Revs
  <1>1. target \in Roots /\ target # None /\ target.fence.phase = "pending" /\ archive # None /\ TargetOK
    BY DEF RecoveryInv, RecoveryTypeOK, Phases
  <1>2. used \in [ledger : LedgerRecs, proof : LedgerRecs] /\ used.proof = used.ledger
    BY DEF RecoveryInv, ProofTypeOK
  <1>3. \A o \in Objects : target.rows[o] \in ObjectRows
    BY <1>1 DEF Roots
  <1>4. \A o \in Objects : used.ledger.floors[o] \in Revs
    BY <1>2 DEF LedgerRecs, Floors
  <1> QED BY <1>1, <1>2, <1>3, <1>4

\* Replay of one tombstone: the deletion holds, a newer recreation is left,
\* and no earlier deletion is undone.
LEMMA ReplayedFacts ==
  ASSUME RecoveryAssumption, NEW row \in ObjectRows, row.op = "upsert" => row.rev > row.floor,
         NEW min \in Revs
  PROVE  /\ Replayed(row, min) \in ObjectRows
         /\ Replayed(row, min).op = "upsert" => Replayed(row, min).rev > Replayed(row, min).floor
         /\ Replaced(Replayed(row, min), min)
         /\ \A old : old.rev \in Revs /\ Survives(old, row) => Survives(old, Replayed(row, min))
  <1> USE DEF ObjectRows, Revs, RecoveryAssumption
  <1> DEFINE floor == Larger(min, Larger(row.floor, IF row.op = "delete" THEN row.rev ELSE 0))
             new == Replayed(row, min)
  <1>1. floor \in Revs /\ floor >= min /\ floor >= row.floor
    BY DEF Larger
  <1>2. CASE min = 0
    <2>1. new = row
      BY <1>2 DEF Replayed
    <2> QED BY <1>2, <2>1 DEF Replaced
  <1>3. CASE min # 0 /\ Replaces(row, floor)
    <2>1. new = [row EXCEPT !.floor = floor, !.rev = floor, !.op = "delete"]
      BY <1>3 DEF Replayed
    <2> HIDE DEF floor, new
    <2>2. new \in ObjectRows /\ new.floor = floor /\ new.rev = floor /\ new.op = "delete"
      BY <1>1, <2>1
    <2>3. ASSUME NEW old, old.rev \in Revs, Survives(old, row) PROVE Survives(old, new)
      BY <1>1, <1>3, <2>2, <2>3 DEF Survives, Replaces
    <2>4. Replaced(new, min)
      BY <1>1, <2>2 DEF Replaced
    <2> QED BY <2>2, <2>3, <2>4 DEF new
  <1>4. CASE min # 0 /\ ~Replaces(row, floor)
    <2>1. new = [row EXCEPT !.floor = floor]
      BY <1>4 DEF Replayed
    <2> HIDE DEF floor, new
    <2>2. new \in ObjectRows /\ new.floor = floor /\ new.rev = row.rev /\ new.op = row.op
      BY <1>1, <2>1
    <2>3. row.op = "upsert" /\ row.rev > floor
      BY <1>4 DEF Replaces
    <2>4. ASSUME NEW old, old.rev \in Revs, Survives(old, row) PROVE Survives(old, new)
      BY <1>1, <2>2, <2>3, <2>4 DEF Survives
    <2>5. Replaced(new, min)
      BY <1>1, <2>2, <2>3 DEF Replaced
    <2> QED BY <2>2, <2>3, <2>4, <2>5 DEF new
  <1> QED BY <1>2, <1>3, <1>4

\* With the last scope every object of the ledger has been replayed, and the
\* scrub of the listed ones begins.
LEMMA ReplayInv ==
  ASSUME RecoveryAssumption, RecoveryInv, Replay
  PROVE  RecoveryInv'
  <1> USE DEF liveVars, proofVars
  <1>1. UNCHANGED <<live, serving, restored, archive, staged, ledger, admission, used, crashes, restores>>
        /\ pc = "replay"
    BY DEF Replay
  <1>2. PICK s \in todo :
          /\ target' = [target EXCEPT !.rows = [o \in Objects |->
               IF ScopeOf[o] = s THEN Replayed(target.rows[o], used.ledger.floors[o])
               ELSE target.rows[o]]]
          /\ IF todo = {s}
             THEN /\ pc' = "scrub"
                  /\ todo' = {o \in Objects : used.ledger.floors[o] > 0} \X Ledgers
             ELSE todo' = todo \ {s} /\ UNCHANGED pc
    BY DEF Replay
  <1> DEFINE rows == [o \in Objects |->
               IF ScopeOf[o] = s THEN Replayed(target.rows[o], used.ledger.floors[o])
               ELSE target.rows[o]]
  <1>3. /\ target \in Roots /\ target.fence.phase = "pending" /\ archive # None /\ TargetOK
        /\ \A o \in Objects : target.rows[o] \in ObjectRows /\ used.ledger.floors[o] \in Revs
    BY <1>1, CompletionFacts DEF Completing
  <1>4. archive \in Roots /\ \A o \in Objects : archive.rows[o].rev \in Revs
    BY <1>3 DEF RecoveryInv, RecoveryTypeOK, Roots, ObjectRows
  <1>5. \A o \in Objects : /\ rows[o] \in ObjectRows
                           /\ rows[o].op = "upsert" => rows[o].rev > rows[o].floor
                           /\ Survives(archive.rows[o], rows[o])
                           /\ ScopeOf[o] = s => Replaced(rows[o], used.ledger.floors[o])
                           /\ ScopeOf[o] # s => rows[o] = target.rows[o]
    <2>1. TAKE o \in Objects
    <2>2. /\ target.rows[o].op = "upsert" => target.rows[o].rev > target.rows[o].floor
          /\ Survives(archive.rows[o], target.rows[o])
      BY <1>3 DEF TargetOK, RootOK, AboveFloor
    <2>3. CASE ScopeOf[o] = s
      <3>1. rows[o] = Replayed(target.rows[o], used.ledger.floors[o])
        BY <2>3
      <3> QED BY <1>3, <1>4, <2>2, <2>3, <3>1, ReplayedFacts
    <2>4. CASE ScopeOf[o] # s
      BY <1>3, <2>2, <2>4
    <2> QED BY <2>3, <2>4
  <1>6. target' = [target EXCEPT !.rows = rows]
    BY <1>2
  <1>7. rows \in [Objects -> ObjectRows]
    BY <1>5
  <1> HIDE DEF rows
  <1>8. target' \in Roots /\ target'.fence = target.fence /\ target'.rows = rows /\ RootOK(target')
    BY <1>3, <1>5, <1>6, <1>7, PendingRows
  <1>9. pc' \in {"replay", "scrub"}
    BY <1>1, <1>2
  <1>10. /\ pc' = "replay" => todo' \subseteq Scopes
         /\ pc' = "scrub" => todo' \subseteq Objects \X Ledgers
    BY <1>1, <1>2 DEF RecoveryInv, Progress
  <1>11. ASSUME NEW o \in Objects, ScopeOf[o] \in used.ledger.scopes
         PROVE  \/ pc' = "replay" /\ ScopeOf[o] \in todo'
                \/ Replaced(rows[o], used.ledger.floors[o])
    <2>1. CASE ScopeOf[o] = s
      BY <1>5, <2>1
    <2>2. CASE ScopeOf[o] # s
      <3>1. rows[o] = target.rows[o]
        BY <1>5, <2>2
      <3>2. ScopeOf[o] \in todo \/ Replaced(target.rows[o], used.ledger.floors[o])
        BY <1>1, <1>11 DEF RecoveryInv, Progress, Completing
      <3> QED BY <1>1, <1>2, <2>2, <3>1, <3>2
    <2> QED BY <2>1, <2>2
  <1>12. ASSUME pc' = "scrub", NEW o \in Objects, NEW l \in Ledgers
         PROVE  <<o, l>> \in todo' \/ Scrubbed(rows[o], used.ledger.floors[o], l)
    <2>1. CASE used.ledger.floors[o] > 0
      BY <1>1, <1>2, <1>12, <2>1
    <2>2. CASE used.ledger.floors[o] = 0
      BY <1>7, <2>2, RecoveryAssumption DEF Scrubbed, ObjectRows, Revs
    <2> QED BY <1>3, <2>1, <2>2 DEF Revs
  <1>13. Progress'
    BY <1>1, <1>8, <1>9, <1>10, <1>11, <1>12 DEF Progress, Completing, Replaced, Scrubbed
  <1>14. staged' \in BOOLEAN /\ restores' \in 0..MaxRestores
    BY <1>1 DEF RecoveryInv, RecoveryTypeOK
  <1>15. staged' => target'.fence.phase # "none"
    BY <1>3, <1>8
  <1>16. \A o \in Objects : Survives(archive.rows[o], target'.rows[o])
    BY <1>5, <1>8
  <1> QED BY <1>1, <1>3, <1>8, <1>9, <1>13, <1>14, <1>15, <1>16, NewTarget DEF Completing

\* One ledger forgets one object.
LEMMA ScrubInv ==
  ASSUME RecoveryAssumption, RecoveryInv, Scrub
  PROVE  RecoveryInv'
  <1> USE DEF liveVars, proofVars
  <1>1. UNCHANGED <<live, serving, restored, archive, staged, ledger, admission, pc, used, crashes, restores>>
        /\ pc = "scrub"
    BY DEF Scrub
  <1>2. PICK item \in todo :
          /\ target' = [target EXCEPT !.rows[item[1]].copies = Purged(target.rows[item[1]], item[2])]
          /\ todo' = todo \ {item}
    BY DEF Scrub
  <1>3. PICK o \in Objects, l \in Ledgers : item = <<o, l>>
    BY <1>1, <1>2 DEF RecoveryInv, Progress
  <1>4. /\ target \in Roots /\ target.fence.phase = "pending" /\ archive # None /\ TargetOK
        /\ \A p \in Objects : target.rows[p] \in ObjectRows
    BY <1>1, CompletionFacts DEF Completing
  <1> DEFINE row == [target.rows[o] EXCEPT !.copies = Purged(target.rows[o], l)]
             rows == [target.rows EXCEPT ![o] = row]
  <1>5. target' = [target EXCEPT !.rows = rows]
    BY <1>2, <1>3, <1>4 DEF Roots, ObjectRows
  <1>6. /\ row \in ObjectRows /\ row.op = target.rows[o].op /\ row.rev = target.rows[o].rev
        /\ row.floor = target.rows[o].floor /\ row.copies[l] = 0
        /\ \A k \in Ledgers \ {l} : row.copies[k] = target.rows[o].copies[k]
    BY <1>4 DEF ObjectRows, Purged, Revs, RecoveryAssumption
  <1> HIDE DEF row
  <1>7. /\ rows \in [Objects -> ObjectRows] /\ rows[o] = row
        /\ \A p \in Objects \ {o} : rows[p] = target.rows[p]
    BY <1>4, <1>6 DEF Roots
  <1> HIDE DEF rows
  <1>8. \A p \in Objects : /\ rows[p].op = target.rows[p].op /\ rows[p].rev = target.rows[p].rev
                           /\ rows[p].floor = target.rows[p].floor
    BY <1>6, <1>7
  <1>9. \A p \in Objects : /\ rows[p].op = "upsert" => rows[p].rev > rows[p].floor
                           /\ Survives(archive.rows[p], rows[p])
    BY <1>4, <1>8 DEF TargetOK, RootOK, AboveFloor, Survives
  <1>10. target' \in Roots /\ target'.fence = target.fence /\ target'.rows = rows /\ RootOK(target')
    BY <1>4, <1>5, <1>7, <1>9, PendingRows
  <1>11. \A p \in Objects : ScopeOf[p] \in used.ledger.scopes => Replaced(rows[p], used.ledger.floors[p])
    BY <1>1, <1>8 DEF RecoveryInv, Progress, Completing, Replaced
  <1>12. ASSUME NEW p \in Objects, NEW k \in Ledgers
         PROVE  <<p, k>> \in todo' \/ Scrubbed(rows[p], used.ledger.floors[p], k)
    <2>1. <<p, k>> \in todo \/ Scrubbed(target.rows[p], used.ledger.floors[p], k)
      BY <1>1 DEF RecoveryInv, Progress
    <2>2. CASE p = o /\ k = l
      BY <1>6, <1>7, <2>2 DEF Scrubbed
    <2>3. CASE ~(p = o /\ k = l)
      <3>1. rows[p].copies[k] = target.rows[p].copies[k]
        BY <1>6, <1>7, <2>3
      <3> QED BY <1>2, <1>3, <2>1, <2>3, <3>1 DEF Scrubbed
    <2> QED BY <2>2, <2>3
  <1>13. todo' \subseteq Objects \X Ledgers
    BY <1>1, <1>2 DEF RecoveryInv, Progress
  <1>14. Progress'
    BY <1>1, <1>10, <1>11, <1>12, <1>13 DEF Progress, Completing, Replaced, Scrubbed
  <1>15. staged' \in BOOLEAN /\ restores' \in 0..MaxRestores
    BY <1>1 DEF RecoveryInv, RecoveryTypeOK
  <1>16. staged' => target'.fence.phase # "none"
    BY <1>4, <1>10
  <1>17. \A p \in Objects : Survives(archive.rows[p], target'.rows[p])
    BY <1>9, <1>10
  <1> QED BY <1>1, <1>4, <1>10, <1>14, <1>15, <1>16, <1>17, NewTarget DEF Completing

\* The vectors go all at once.
LEMMA DropVectorsInv ==
  ASSUME RecoveryAssumption, RecoveryInv, DropVectors
  PROVE  RecoveryInv'
  <1> USE DEF liveVars, proofVars
  <1>1. UNCHANGED <<live, serving, restored, archive, staged, ledger, admission, todo, used, crashes, restores>>
        /\ pc = "scrub" /\ todo = {} /\ pc' = "open"
    BY DEF DropVectors
  <1> DEFINE rows == [o \in Objects |-> [target.rows[o] EXCEPT !.vector = 0]]
  <1>2. target' = [target EXCEPT !.rows = rows]
    BY DEF DropVectors
  <1>3. /\ target \in Roots /\ target.fence.phase = "pending" /\ archive # None /\ TargetOK
        /\ \A o \in Objects : target.rows[o] \in ObjectRows
    BY <1>1, CompletionFacts DEF Completing
  <1>4. \A o \in Objects : /\ rows[o] \in ObjectRows /\ rows[o].vector = 0
                           /\ rows[o].op = target.rows[o].op /\ rows[o].rev = target.rows[o].rev
                           /\ rows[o].floor = target.rows[o].floor
                           /\ rows[o].copies = target.rows[o].copies
    BY <1>3 DEF ObjectRows, Revs, RecoveryAssumption
  <1>5. rows \in [Objects -> ObjectRows]
    BY <1>4
  <1> HIDE DEF rows
  <1>6. \A o \in Objects : /\ rows[o].op = "upsert" => rows[o].rev > rows[o].floor
                           /\ Survives(archive.rows[o], rows[o])
    BY <1>3, <1>4 DEF TargetOK, RootOK, AboveFloor, Survives
  <1>7. target' \in Roots /\ target'.fence = target.fence /\ target'.rows = rows /\ RootOK(target')
    BY <1>2, <1>3, <1>5, <1>6, PendingRows
  <1>8. \A o \in Objects : ScopeOf[o] \in used.ledger.scopes => Replaced(rows[o], used.ledger.floors[o])
    BY <1>1, <1>4 DEF RecoveryInv, Progress, Completing, Replaced
  <1>9. \A o \in Objects, l \in Ledgers : Scrubbed(rows[o], used.ledger.floors[o], l)
    BY <1>1, <1>4 DEF RecoveryInv, Progress, Scrubbed
  <1>10. Progress'
    BY <1>1, <1>4, <1>7, <1>8, <1>9 DEF Progress, Completing, Replaced, Scrubbed
  <1>11. staged' \in BOOLEAN /\ restores' \in 0..MaxRestores
    BY <1>1 DEF RecoveryInv, RecoveryTypeOK
  <1>12. staged' => target'.fence.phase # "none"
    BY <1>3, <1>7
  <1>13. \A o \in Objects : Survives(archive.rows[o], target'.rows[o])
    BY <1>6, <1>7
  <1> QED BY <1>1, <1>3, <1>7, <1>10, <1>11, <1>12, <1>13, NewTarget DEF Completing

\* The fence opens on the floors of the admission, all of which hold by now.
LEMMA OpenFenceInv ==
  ASSUME RecoveryAssumption, RecoveryInv, OpenFence
  PROVE  RecoveryInv'
  <1> USE DEF liveVars, proofVars
  <1>1. UNCHANGED <<live, serving, restored, archive, staged, ledger, admission, todo, crashes, restores>>
        /\ pc = "open" /\ pc' = "idle"
    BY DEF OpenFence
  <1> DEFINE fence == Ready(used.proof.scopes, used.proof.floors)
  <1>2. target' = [target EXCEPT !.fence = fence]
    BY DEF OpenFence
  <1>3. /\ target \in Roots /\ archive # None /\ TargetOK
        /\ used \in [ledger : LedgerRecs, proof : LedgerRecs] /\ used.proof = used.ledger
    BY <1>1, CompletionFacts DEF Completing
  <1>4. /\ fence \in Fences /\ fence.phase = "ready" /\ fence.scopes = used.ledger.scopes
        /\ fence.floors = used.ledger.floors
    BY <1>3 DEF Ready, Fences, LedgerRecs
  <1> HIDE DEF fence
  <1>5. target' \in Roots /\ target'.fence = fence /\ target'.rows = target.rows
    BY <1>2, <1>3, <1>4 DEF Roots
  <1>6. \A o \in Objects : ScopeOf[o] \in fence.scopes => Fenced(target.rows[o], fence.floors[o])
    BY <1>1, <1>4 DEF RecoveryInv, Progress, Completing, Fenced, Dropped
  <1>7. RootOK(target')
    BY <1>3, <1>5, <1>6 DEF TargetOK, RootOK, AboveFloor, Faithful
  <1>8. Progress'
    BY <1>1 DEF Progress, Completing
  <1>9. staged' \in BOOLEAN /\ restores' \in 0..MaxRestores
    BY <1>1 DEF RecoveryInv, RecoveryTypeOK
  <1>10. target'.fence.phase # "none"
    BY <1>4, <1>5
  <1>11. \A o \in Objects : Survives(archive.rows[o], target'.rows[o])
    BY <1>3, <1>5 DEF TargetOK
  <1> QED BY <1>1, <1>3, <1>5, <1>7, <1>8, <1>9, <1>10, <1>11, NewTarget DEF Completing

\* A staged target becomes the live tree: it has a fence, pending or kept.
LEMMA CutOverInv ==
  ASSUME RecoveryAssumption, RecoveryInv, CutOver
  PROVE  RecoveryInv'
  <1> USE DEF proofVars, jobVars
  <1>1. /\ UNCHANGED <<serving, archive, ledger, admission, pc, todo, used, crashes, restores>>
        /\ ~serving /\ target # None /\ staged /\ pc = "idle"
        /\ live' = target /\ restored' = TRUE /\ target' = None /\ staged' = FALSE
    BY DEF CutOver
  <1>2. target \in Roots /\ TargetOK /\ target.fence.phase # "none"
    BY <1>1 DEF RecoveryInv, RecoveryTypeOK, Phases
  <1>3. RecoveryTypeOK' /\ ProofTypeOK' /\ Progress'
    BY <1>1, <1>2 DEF RecoveryInv, RecoveryTypeOK, ProofTypeOK, Progress, Completing
  <1>4. Phases'
    BY <1>1, <1>2 DEF RecoveryInv, Phases, Completing
  <1>5. RootOK(live)'
    BY <1>1, <1>2 DEF TargetOK, RootOK, AboveFloor, Faithful
  <1>6. (archive # None => RootOK(archive))'
    BY <1>1 DEF RecoveryInv, RootOK, AboveFloor, Faithful
  <1> QED BY <1>1, <1>3, <1>4, <1>5, <1>6 DEF RecoveryInv

-----------------------------------------------------------------------------
(* The theorems.                                                           *)

\* It holds at first.
LEMMA InitInv == ASSUME RecoveryAssumption, Init PROVE RecoveryInv
  <1> USE DEF RecoveryAssumption, Revs
  <1>1. NewRow \in ObjectRows /\ NewRow.op # "upsert" /\ NewRow.floor = 0 /\ NewRow.vector = 0
        /\ \A l \in Ledgers : NewRow.copies[l] = 0
    BY DEF NewRow, ObjectRows
  <1>2. NoFence \in Fences /\ NoFence.phase = "none" /\ NoFence.floors \in Floors
    BY DEF NoFence, Fences, Floors
  <1>3. PICK fence \in {NoFence, Ready(Scopes, NoFence.floors)} :
          live = [rows |-> [o \in Objects |-> NewRow], fence |-> fence]
    BY DEF Init
  <1>4. fence \in Fences /\ fence.phase # "pending" /\ fence.floors = NoFence.floors
    BY <1>2 DEF Ready, Fences
  <1>5. live \in Roots /\ live.fence = fence /\ \A o \in Objects : live.rows[o] = NewRow
    BY <1>1, <1>3, <1>4 DEF Roots
  <1>6. \A o \in Objects : fence.floors[o] = 0
    BY <1>4 DEF NoFence
  <1>7. RootOK(live)
    BY <1>1, <1>5, <1>6 DEF RootOK, AboveFloor, Faithful, Fenced, Replaced, Scrubbed, Dropped
  <1>8. RecoveryTypeOK /\ ProofTypeOK /\ Progress
    <2>0. /\ serving \in BOOLEAN /\ restored \in BOOLEAN /\ staged \in BOOLEAN
          /\ pc \in {"idle", "fence", "replay", "scrub", "open"}
      BY Zenon DEF Init
    <2>1. RecoveryTypeOK
      BY <1>5, <2>0 DEF Init, RecoveryTypeOK
    <2>2. ProofTypeOK /\ Progress
      BY DEF Init, ProofTypeOK, Progress, Completing
    <2> QED BY <2>1, <2>2
  <1>9. Phases
    BY <1>4, <1>5 DEF Init, Phases, Completing
  <1> QED BY <1>7, <1>8, <1>9 DEF RecoveryInv, Init

\* Every step keeps it.
LEMMA NextInv == ASSUME RecoveryAssumption, RecoveryInv, [Next]_vars PROVE RecoveryInv'
  <1>1. CASE UNCHANGED vars
    <2>1. RecoveryTypeOK' /\ ProofTypeOK' /\ Phases' /\ Progress'
      BY <1>1 DEF vars, RecoveryInv, RecoveryTypeOK, ProofTypeOK, Phases, Progress
    <2> QED BY <1>1, <2>1, SameRoots DEF vars, RecoveryInv
  <1>2. CASE Next
    BY <1>2, LiveInv, ServiceInv, AdmissionInv, StagingInv, BeginInv, ReplayInv, ScrubInv,
       DropVectorsInv, OpenFenceInv, CutOverInv DEF Next
  <1> QED BY <1>1, <1>2

\* The recovery invariant holds.
LEMMA Invariance == Spec => []RecoveryInv
  <1>1. Init => RecoveryInv
    BY InitInv, RecoveryAssumption
  <1>2. RecoveryInv /\ [Next]_vars => RecoveryInv'
    BY NextInv, RecoveryAssumption
  <1> QED BY <1>1, <1>2, PTL DEF Spec

\* The trees, fences and commands have the shapes the restore code reads and
\* writes.
THEOREM TypeCorrect == Spec => []RecoveryTypeOK
  <1>1. RecoveryInv => RecoveryTypeOK
    BY DEF RecoveryInv
  <1> QED BY <1>1, Invariance, PTL

\* A restored service that runs has every deletion its admission proved, in
\* its rows, ledgers and vectors, for any number of objects, scopes, ledgers,
\* revisions, restores and interruptions (complete_restore,
\* replay_tombstones, _derived_scrub, assert_restore_ready).
THEOREM DeletionsHold == Spec => []NothingResurfaces
  <1>1. RecoveryInv => NothingResurfaces
    <2>1. SUFFICES ASSUME RecoveryInv, serving, restored
                   PROVE  /\ live.fence.phase = "ready"
                          /\ \A o \in Objects : ScopeOf[o] \in live.fence.scopes =>
                               Fenced(live.rows[o], live.fence.floors[o])
      BY DEF NothingResurfaces, Fenced, Replaced, Scrubbed, Dropped
    <2>2. live.fence.phase \in {"none", "pending", "ready"}
      BY <2>1 DEF RecoveryInv, RecoveryTypeOK, Roots, Fences
    <2>3. live.fence.phase = "ready"
      BY <2>1, <2>2 DEF RecoveryInv, Phases
    <2> QED BY <2>1, <2>3 DEF RecoveryInv, RootOK, Faithful
  <1> QED BY <1>1, Invariance, PTL

\* Replay loses nothing newer than the floors it replays, over any number of
\* interrupted and repeated completions (replay_tombstones: "without erasing
\* a genuinely newer recreation already present in this archive").
THEOREM RecreationsSurvive == Spec => []NewerSurvives
  <1>1. RecoveryInv => NewerSurvives
    BY DEF RecoveryInv, TargetOK, Survives, NewerSurvives
  <1> QED BY <1>1, Invariance, PTL
=============================================================================

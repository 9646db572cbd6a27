--------------------------- MODULE RoutinesProofs ---------------------------
(***************************************************************************)
(* One briefing per occurrence, ledgers that agree, derived copies that    *)
(* follow their sources and no posting against the owner, for any number   *)
(* of objects, revisions, days, notices, crashes and storage errors.       *)
(***************************************************************************)
EXTENDS Routines, TLAPS

-----------------------------------------------------------------------------
(* The inductive invariant.                                                *)

\* The steps of send_once between the claim and its settlement.
ClaimPcs == {"recheck", "send", "finish"}
RunPcs == ClaimPcs \cup {"build", "claim"}

\* A run has its occurrence, a cleanup step its notice, a settlement its answer.
CallShape ==
    /\ call.pc \in RunPcs => call.key \in Days
    /\ call.pc = "finish" => call.ans \in {"delivered", "accepted", "uncertain", "held"}

\* The lock excludes ingestion: citations read by a run stay served.
CitesServed == call.pc \in {"claim", "recheck", "send"} => call.cites \subseteq ServedPairs

\* The run that holds a claim owns it, and counts what it has posted.
ClaimHeld ==
    call.pc \in ClaimPcs =>
        /\ dlv[call.key].status = "claimed"
        /\ call.pc \in {"recheck", "send"} => shown[call.key] = 0 /\ control = "open"
        /\ call.ans = "held" => shown[call.key] = 0

\* A pair that is served, or whose object has a purge queued.
Covered(p) == Served(p[1], p[2]) \/ \E n \in notices : n.obj = p[1]

\* CopiesAreCurrent, cache and receipts apart.
VectorsCovered == \A p \in vectors : Covered(p)
RefsCovered == \A d \in Days : \A p \in dlv[d].refs : Covered(p)

\* What a cleanup has already removed when it comes to acknowledge.
PurgeProgress ==
    /\ call.pc \in {"purgeRoutine", "ackNotice"} =>
          \A n \in call.notice : \A p \in vectors : p[1] # n.obj
    /\ call.pc = "ackNotice" =>
          \A n \in call.notice, d \in Days : \A p \in dlv[d].refs : p[1] # n.obj

RoutineInv ==
    /\ RoutineTypeOK
    /\ CallShape /\ CitesServed /\ ClaimHeld
    /\ AtMostOneBriefing /\ LedgersAgree
    /\ VectorsCovered /\ RefsCovered /\ PurgeProgress

-----------------------------------------------------------------------------
(* Types.                                                                  *)

\* The three shapes of a request are requests.
LEMMA CallRows ==
  ASSUME RoutineAssumption
  PROVE  /\ \A pc \in Pcs, goal \in Goals : At(pc, goal) \in Calls
         /\ \A pc \in Pcs, key \in 0..MaxDay, cites \in SUBSET Pairs, ans \in DeliveryStatuses :
               Running(pc, key, cites, ans) \in Calls
         /\ \A pc \in Pcs, goal \in Goals, notice \in SUBSET Notices, left \in 0..NoticeBatch :
               Cleaning(pc, goal, notice, left) \in Calls
         /\ Idle \in Calls
         /\ \A goal \in Goals : Cleanup(goal) \in Calls
  <1>1. "none" \in DeliveryStatuses /\ "run" \in Goals /\ "idle" \in Goals
        /\ "idle" \in Pcs /\ "clean" \in Pcs /\ {} \in SUBSET Pairs /\ {} \in SUBSET Notices
    BY DEF DeliveryStatuses, Goals, Pcs
  <1>2. 0 \in 0..MaxDay /\ 0 \in 0..NoticeBatch /\ NoticeBatch \in 0..NoticeBatch
    BY DEF RoutineAssumption
  <1>3. \A pc \in Pcs, goal \in Goals : At(pc, goal) \in Calls
    BY <1>1, <1>2 DEF At, Calls
  <1>4. \A pc \in Pcs, goal \in Goals, notice \in SUBSET Notices, left \in 0..NoticeBatch :
               Cleaning(pc, goal, notice, left) \in Calls
    BY <1>1, <1>2 DEF Cleaning, Calls
  <1>5. \A pc \in Pcs, key \in 0..MaxDay, cites \in SUBSET Pairs, ans \in DeliveryStatuses :
               Running(pc, key, cites, ans) \in Calls
    BY <1>1, <1>2 DEF Running, Calls
  <1> QED BY <1>1, <1>2, <1>3, <1>4, <1>5 DEF Idle, Cleanup

\* An accepted event keeps the journal's types.
LEMMA JournalTypes ==
  ASSUME JournalTypeOK, MaxRevision \in Nat, NEW o \in Objects, NEW r \in Revisions,
         Publish(o, r) \/ Withdraw(o, r)
  PROVE  JournalTypeOK'
  <1>1. rev[o] \in 0..MaxRevision /\ r \in 0..MaxRevision
    BY DEF JournalTypeOK, Revisions
  <1>2. Notice(o, r, "upsert") \in Notices /\ Notice(o, r, "delete") \in Notices
    BY <1>1 DEF Notice, Notices
  <1>3. rev' \in [Objects -> 0..MaxRevision] /\ live' \in [Objects -> BOOLEAN]
    BY <1>1 DEF JournalTypeOK, Publish, Withdraw
  <1>4. review' \in SUBSET (Objects \X Revisions)
    BY DEF JournalTypeOK, Publish, Withdraw, ReviewOf
  <1>5. notices' \in SUBSET Notices
    BY <1>2 DEF JournalTypeOK, Publish, Withdraw
  <1> QED BY <1>3, <1>4, <1>5 DEF JournalTypeOK

\* Rows made by the ledger are rows.
LEMMA LedgerRows ==
  /\ \A s \in Statuses, a \in BOOLEAN : Occ(s, a) \in OccRows
  /\ \A s \in DeliveryStatuses, refs \in SUBSET Pairs : Dlv(s, refs) \in DlvRows
  BY DEF Occ, Dlv, OccRows, DlvRows

\* The fresh tables satisfy the invariant.
LEMMA InitInv == RoutineAssumption /\ RoutineInit => RoutineInv
  <1> SUFFICES ASSUME RoutineAssumption, RoutineInit PROVE RoutineInv
    OBVIOUS
  <1>1. "none" \in Statuses /\ "none" \in DeliveryStatuses /\ "down" \in Pcs /\ "idle" \in Goals
    BY DEF Statuses, DeliveryStatuses, Pcs, Goals
  <1>2. RoutineTypeOK
    <2>1. JournalTypeOK
      BY DEF RoutineInit, JournalInit, JournalTypeOK, RoutineAssumption
    <2>2. call \in Calls
      BY <1>1, CallRows DEF RoutineInit
    <2>3. occ \in [Days -> OccRows] /\ dlv \in [Days -> DlvRows]
      BY <1>1, LedgerRows DEF RoutineInit
    <2>4. today \in Days /\ crashes \in 0..MaxCrashes /\ errors \in 0..MaxErrors
      BY DEF RoutineInit, RoutineAssumption, Days
    <2>5. shown \in [Days -> Nat] /\ vectors \in SUBSET Pairs
          /\ control \in {"open", "blocked", "snoozed"}
      BY DEF RoutineInit
    <2> QED BY <2>1, <2>2, <2>3, <2>4, <2>5 DEF RoutineTypeOK
  <1>3. call.pc = "down"
    BY DEF RoutineInit, At
  <1>4. \A d \in Days : occ[d].status = "none" /\ dlv[d].status = "none" /\ dlv[d].refs = {}
                        /\ shown[d] = 0
    BY DEF RoutineInit, Occ, Dlv
  <1>5. CallShape /\ CitesServed /\ ClaimHeld /\ PurgeProgress
    BY <1>3 DEF CallShape, CitesServed, ClaimHeld, PurgeProgress, RunPcs, ClaimPcs
  <1>6. AtMostOneBriefing /\ LedgersAgree
    BY <1>4 DEF AtMostOneBriefing, LedgersAgree
  <1>7. VectorsCovered /\ RefsCovered
    BY <1>4 DEF VectorsCovered, RefsCovered, RoutineInit
  <1> QED BY <1>2, <1>5, <1>6, <1>7 DEF RoutineInv

\* Every step keeps the types.
LEMMA TypeStep ==
  ASSUME RoutineAssumption, RoutineTypeOK, RoutineNext
  PROVE  RoutineTypeOK'
  <1> DEFINE Fixed == <<journal, vectors, ledgers, today, faults, shown>>
  <1>0. /\ call.goal \in Goals /\ call.pc \in Pcs /\ call.key \in 0..MaxDay
        /\ call.cites \in SUBSET Pairs /\ call.notice \in SUBSET Notices
        /\ call.left \in 0..NoticeBatch /\ call.ans \in DeliveryStatuses
        /\ Goals \subseteq Pcs
    BY DEF RoutineTypeOK, Calls, Pcs
  <1>1. \A d \in Days : /\ occ[d].status \in Statuses /\ occ[d].asleep \in BOOLEAN
                        /\ dlv[d].status \in DeliveryStatuses /\ dlv[d].refs \in SUBSET Pairs
                        /\ d \in 0..MaxDay
    BY DEF RoutineTypeOK, OccRows, DlvRows, Days
  <1>2. /\ \A pc \in {"down", "clean", "purgeRoutine", "ackNotice", "build", "claim",
                   "recheck", "send", "finish", "idle"} : pc \in Pcs
        /\ \A s \in {"uncertain", "held", "claimed", "accepted", "delivered", "none"} :
              s \in DeliveryStatuses
        /\ \A s \in {"accepted", "sending", "completed", "uncertain", "suppressed", "cancelled",
                     "snoozed", "none"} : s \in Statuses
        /\ "idle" \in Goals
    BY DEF Pcs, Goals, DeliveryStatuses, Statuses
  <1>3. CASE NewDay
    BY <1>3 DEF NewDay, RoutineTypeOK, JournalTypeOK, journal, ledgers, faults, Days,
               RoutineAssumption
  <1>4. CASE SnoozeEnds
    <2>1. occ' \in [Days -> OccRows]
      BY <1>1, <1>4, LedgerRows DEF SnoozeEnds, RoutineTypeOK
    <2>2. control' \in {"open", "blocked", "snoozed"}
      BY <1>4 DEF SnoozeEnds, RoutineTypeOK
    <2> QED BY <1>4, <2>1, <2>2 DEF SnoozeEnds, RoutineTypeOK, JournalTypeOK, journal, faults
  <1>5. CASE ServiceStart
    <2>1. occ' \in [Days -> OccRows] /\ dlv' \in [Days -> DlvRows]
      BY <1>1, <1>2, <1>5, LedgerRows DEF ServiceStart, RecoverInflight, RoutineTypeOK
    <2> QED BY <1>5, <2>1, CallRows DEF ServiceStart, RoutineTypeOK, JournalTypeOK, journal, faults
  <1>6. CASE ServiceCrash
    <2>1. call' \in Calls
      BY <1>2, <1>6, CallRows DEF ServiceCrash
    <2> QED BY <1>6, <2>1 DEF ServiceCrash, RoutineTypeOK, JournalTypeOK, journal, ledgers, faults,
                              RoutineAssumption
  <1>7. CASE RequestFails
    BY <1>7, CallRows DEF RequestFails, RoutineTypeOK, JournalTypeOK, journal, ledgers, faults,
                              RoutineAssumption
  <1>8. ASSUME NEW o \in Objects, NEW r \in Revisions, IngestRequest(o, r) PROVE RoutineTypeOK'
    <2>1. JournalTypeOK'
      BY <1>8, JournalTypes DEF IngestRequest, RoutineTypeOK, RoutineAssumption
    <2>2. call' \in Calls
      BY <1>2, <1>8, CallRows DEF IngestRequest
    <2> QED BY <1>8, <2>1, <2>2 DEF IngestRequest, RoutineTypeOK, ledgers, faults
  \* Most steps of a request leave the tables alone.
  <1>9. ASSUME UNCHANGED Fixed, call' \in Calls PROVE RoutineTypeOK'
    BY <1>9 DEF RoutineTypeOK, JournalTypeOK, journal, ledgers, faults
  <1>10. ASSUME NEW goal \in Goals, Request(goal) PROVE RoutineTypeOK'
    BY <1>9, <1>10, CallRows DEF Request
  <1>11. ASSUME NEW n \in notices, CleanVectors(n) PROVE RoutineTypeOK'
    <2>1. n \in Notices /\ call.left - 1 \in 0..NoticeBatch
      BY <1>0, <1>11 DEF RoutineTypeOK, JournalTypeOK, CleanVectors, RoutineAssumption
    <2>2. call' \in Calls
      BY <1>0, <1>2, <1>11, <2>1, CallRows DEF CleanVectors
    <2> QED BY <1>11, <2>2 DEF CleanVectors, RoutineTypeOK, JournalTypeOK, journal, ledgers, faults
  <1>12. ASSUME NEW n \in notices, CleanRoutine(n) PROVE RoutineTypeOK'
    <2>1. n \in Notices
      BY DEF RoutineTypeOK, JournalTypeOK
    <2>2. call' \in Calls
      BY <1>0, <1>2, <1>12, <2>1, CallRows DEF CleanRoutine
    <2>3. occ' \in [Days -> OccRows] /\ dlv' \in [Days -> DlvRows]
      BY <1>1, <1>2, <1>12, LedgerRows DEF CleanRoutine, RoutineTypeOK
    <2> QED BY <1>12, <2>2, <2>3 DEF CleanRoutine, RoutineTypeOK, JournalTypeOK, journal, faults
  <1>13. ASSUME NEW n \in notices, CleanAck(n) PROVE RoutineTypeOK'
    <2>1. call' \in Calls
      BY <1>0, <1>2, <1>13, CallRows DEF CleanAck
    <2> QED BY <1>13, <2>1 DEF CleanAck, Purged, RoutineTypeOK, JournalTypeOK, ledgers, faults
  <1>14. CASE CleanDone \/ CleanOverflow
    <2>1. call' \in Calls
      BY <1>0, <1>2, <1>14, CallRows DEF CleanDone, CleanOverflow
    <2> QED BY <1>9, <1>14, <2>1 DEF CleanDone, CleanOverflow
  <1>15. CASE Search
    <2>1. vectors' \in SUBSET Pairs
      BY <1>15 DEF Search, ServedPairs, RoutineTypeOK
    <2> QED BY <1>15, <2>1, CallRows DEF Search, RoutineTypeOK, JournalTypeOK, journal, ledgers,
                                        faults
  <1>16. CASE Control
    BY <1>16, CallRows DEF Control, Finished, RoutineTypeOK, JournalTypeOK, journal, faults
  <1>17. CASE Refused \/ BuildRefused \/ \E d \in Days : ClaimRefused(d)
    BY <1>9, <1>17, CallRows DEF Refused, BuildRefused, ClaimRefused, Finished
  <1>18. ASSUME NEW d \in Days, Transition(d) PROVE RoutineTypeOK'
    <2>1. occ' \in [Days -> OccRows]
      BY <1>2, <1>18, LedgerRows DEF Transition, RoutineTypeOK
    <2> QED BY <1>18, <2>1, CallRows DEF Transition, Finished, RoutineTypeOK, JournalTypeOK,
                                        journal, faults
  <1>19. CASE Build
    <2>1. call' \in Calls
      BY <1>0, <1>2, <1>19, CallRows DEF Build, ServedPairs
    <2> QED BY <1>9, <1>19, <2>1 DEF Build
  <1>20. CASE Recheck
    <2>1. call' \in Calls
      BY <1>0, <1>2, <1>20, CallRows DEF Recheck
    <2> QED BY <1>9, <1>20, <2>1 DEF Recheck
  <1>21. ASSUME NEW d \in Days, Admit(d) PROVE RoutineTypeOK'
    <2>1. Admitted(d) \in OccRows
      <3>1. occ[d] \in OccRows /\ Occ("suppressed", FALSE) \in OccRows /\ Occ("accepted", FALSE) \in OccRows
        BY <1>2, LedgerRows DEF RoutineTypeOK
      <3> QED BY <3>1 DEF Admitted
    <2>2. call' \in Calls
      BY <1>1, <1>2, <1>21, CallRows DEF Admit
    <2> QED BY <1>21, <2>1, <2>2 DEF Admit, RoutineTypeOK, JournalTypeOK, journal, faults
  <1>22. ASSUME NEW d \in Days, Claim(d) PROVE RoutineTypeOK'
    <2>1. occ' \in [Days -> OccRows] /\ dlv' \in [Days -> DlvRows]
      BY <1>0, <1>1, <1>2, <1>22, LedgerRows DEF Claim, RoutineTypeOK
    <2>2. call' \in Calls
      BY <1>0, <1>1, <1>2, <1>22, CallRows DEF Claim
    <2> QED BY <1>22, <2>1, <2>2 DEF Claim, RoutineTypeOK, JournalTypeOK, journal, faults
  <1>23. ASSUME NEW d \in Days, ClaimInterrupted(d) PROVE RoutineTypeOK'
    <2>1. occ' \in [Days -> OccRows] /\ dlv' \in [Days -> DlvRows]
      BY <1>1, <1>2, <1>23, LedgerRows DEF ClaimInterrupted, RoutineTypeOK
    <2> QED BY <1>23, <2>1, CallRows DEF ClaimInterrupted, Finished, RoutineTypeOK, JournalTypeOK,
                                        journal, faults
  <1>24. ASSUME NEW d \in Days, Send(d) PROVE RoutineTypeOK'
    <2>1. shown' \in [Days -> Nat]
      BY <1>24 DEF Send, RoutineTypeOK
    <2>2. call' \in Calls
      BY <1>0, <1>1, <1>2, <1>24, CallRows DEF Send, Answers
    <2> QED BY <1>24, <2>1, <2>2 DEF Send, RoutineTypeOK, JournalTypeOK, journal, ledgers, faults
  <1>25. ASSUME NEW d \in Days, Finish(d) PROVE RoutineTypeOK'
    <2>1. FinalOccurrence(call.ans) \in Statuses
      BY <1>2 DEF FinalOccurrence
    <2>2. occ' \in [Days -> OccRows] /\ dlv' \in [Days -> DlvRows]
      BY <1>0, <1>1, <1>25, <2>1, LedgerRows DEF Finish, RoutineTypeOK
    <2> QED BY <1>25, <2>2, CallRows DEF Finish, Finished, RoutineTypeOK, JournalTypeOK, journal,
                                        faults
  <1> QED BY <1>3, <1>4, <1>5, <1>6, <1>7, <1>8, <1>10, <1>11, <1>12, <1>13, <1>14, <1>15, <1>16,
             <1>17, <1>18, <1>19, <1>20, <1>21, <1>22, <1>23, <1>24, <1>25
          DEF RoutineNext, Step

-----------------------------------------------------------------------------
(* What keeps each part of the invariant.                                  *)

\* A request outside of runs and purges has nothing to answer for.
LEMMA QuietCall ==
  ASSUME call'.pc \notin RunPcs, call'.pc \notin {"purgeRoutine", "ackNotice"}
  PROVE  CallShape' /\ CitesServed' /\ ClaimHeld' /\ PurgeProgress'
  BY DEF CallShape, CitesServed, ClaimHeld, PurgeProgress, RunPcs, ClaimPcs

\* The ledgers agree as long as nothing happens to them.
LEMMA SameLedgers ==
  ASSUME AtMostOneBriefing, LedgersAgree, UNCHANGED shown, dlv' = dlv,
         \A d \in Days : occ'[d].status = occ[d].status
  PROVE  AtMostOneBriefing' /\ LedgersAgree'
  BY DEF AtMostOneBriefing, LedgersAgree

\* Copies stay covered when the journal stands still and none is added.
LEMMA SameCopies ==
  ASSUME VectorsCovered, RefsCovered, UNCHANGED journal, vectors' \subseteq vectors,
         \A d \in Days : dlv'[d].refs \subseteq dlv[d].refs
  PROVE  VectorsCovered' /\ RefsCovered'
  <1>1. \A p : Covered(p) => Covered(p)'
    BY DEF Covered, Served, journal
  <1> QED BY <1>1 DEF VectorsCovered, RefsCovered

\* Every event leaves the copies of the other objects as covered as they were
\* and queues a purge for its own object, unless that was never seen.
LEMMA IngestCovers ==
  ASSUME JournalTypeOK, NEW o \in Objects, NEW r \in Revisions,
         Publish(o, r) \/ Withdraw(o, r),
         NEW p \in Pairs, Covered(p)
  PROVE  Covered(p)'
  <1>1. PICK x \in Objects, s \in Revisions : p = <<x, s>>
    BY DEF Pairs
  <1>2. p[1] = x /\ p[2] = s
    BY <1>1
  <1>3. notices \subseteq notices'
    BY DEF Publish, Withdraw
  <1>4. CASE \E n \in notices : n.obj = x
    BY <1>2, <1>3, <1>4 DEF Covered
  <1>5. CASE Served(x, s) /\ x # o
    <2>1. rev'[x] = rev[x] /\ live'[x] = live[x]
      BY <1>5 DEF Publish, Withdraw, JournalTypeOK
    <2> QED BY <1>2, <1>5, <2>1 DEF Covered, Served
  <1>6. CASE Served(x, s) /\ x = o
    <2>1. rev[o] # 0
      BY <1>6 DEF Served, Revisions
    <2>2. \E op \in {"upsert", "delete"} : Notice(o, r, op) \in notices'
      BY <2>1 DEF Publish, Withdraw
    <2>3. \A op : Notice(o, r, op).obj = o
      BY DEF Notice
    <2> QED BY <1>2, <1>6, <2>2, <2>3 DEF Covered
  <1> QED BY <1>2, <1>4, <1>5, <1>6 DEF Covered

-----------------------------------------------------------------------------
(* Every step keeps the invariant.                                         *)

\* Every step keeps the routine invariant.
LEMMA NextInv ==
  ASSUME RoutineAssumption, RoutineInv, RoutineNext
  PROVE  RoutineInv'
  <1> DEFINE Fixed == <<journal, vectors, ledgers, today, faults, shown>>
  <1> DEFINE Calm == CallShape' /\ CitesServed' /\ ClaimHeld' /\ PurgeProgress'
  <1> USE DEF RoutineInv
  <1>0. RoutineTypeOK'
    BY TypeStep
  <1>a. /\ occ \in [Days -> OccRows] /\ dlv \in [Days -> DlvRows] /\ shown \in [Days -> Nat]
        /\ JournalTypeOK /\ vectors \subseteq Pairs
        /\ \A d \in Days : dlv[d].refs \subseteq Pairs
    BY DEF RoutineTypeOK, DlvRows
  <1>b. /\ \A pc, goal : At(pc, goal).pc = pc
        /\ \A pc, goal, notice, left : Cleaning(pc, goal, notice, left).pc = pc
                                       /\ Cleaning(pc, goal, notice, left).notice = notice
        /\ \A pc, key, cites, ans : /\ Running(pc, key, cites, ans).pc = pc
                                    /\ Running(pc, key, cites, ans).key = key
                                    /\ Running(pc, key, cites, ans).cites = cites
                                    /\ Running(pc, key, cites, ans).ans = ans
        /\ Idle.pc = "idle" /\ \A goal : Cleanup(goal).pc = "clean"
    BY DEF At, Cleaning, Running, Idle, Cleanup
  <1>c. /\ \A s, a : Occ(s, a).status = s
        /\ \A s, refs : Dlv(s, refs).status = s /\ Dlv(s, refs).refs = refs
    BY DEF Occ, Dlv
  <1>d. Goals \cap RunPcs = {} /\ Goals \cap {"purgeRoutine", "ackNotice"} = {}
        /\ {"idle", "down", "clean"} \cap RunPcs = {}
    BY DEF Goals, RunPcs, ClaimPcs
  \* A step of the lock's holder that touches no table.
  <1>1. ASSUME UNCHANGED Fixed, Calm PROVE RoutineInv'
    <2>1. UNCHANGED <<journal, vectors, occ, dlv, shown>>
      BY <1>1 DEF ledgers
    <2> QED BY <1>0, <1>1, <2>1, SameLedgers, SameCopies
  <1>2. ASSUME UNCHANGED Fixed, call' = Idle PROVE RoutineInv'
    <2>1. Calm
      BY <1>2, <1>b, <1>d, QuietCall
    <2> QED BY <1>1, <1>2, <2>1
  <1>3. CASE NewDay
    <2>1. UNCHANGED <<journal, vectors, occ, dlv, control, shown, call>>
      BY <1>3 DEF NewDay, ledgers
    <2>2. Calm
      BY <2>1 DEF CallShape, CitesServed, ClaimHeld, PurgeProgress, ServedPairs, Served, journal
    <2> QED BY <1>0, <2>1, <2>2, SameLedgers, SameCopies
  <1>4. CASE SnoozeEnds
    <2>1. UNCHANGED <<journal, vectors, dlv, shown, call>> /\ (control' = control \/ control' = "open")
      BY <1>4 DEF SnoozeEnds
    <2>2. Calm
      BY <2>1 DEF CallShape, CitesServed, ClaimHeld, PurgeProgress, ServedPairs, Served, journal
    <2>3. \A d \in Days : occ'[d].status = occ[d].status
      BY <1>4, <1>a DEF SnoozeEnds, Occ
    <2> QED BY <1>0, <2>1, <2>2, <2>3, SameLedgers, SameCopies
  <1>5. CASE ServiceStart
    <2>1. Calm
      BY <1>5, <1>b, <1>d, QuietCall DEF ServiceStart
    <2>2. AtMostOneBriefing'
      BY <1>5 DEF ServiceStart, AtMostOneBriefing
    <2>3. LedgersAgree'
      BY <1>5, <1>a, <1>c DEF ServiceStart, RecoverInflight, LedgersAgree
    <2>4. \A d \in Days : dlv'[d].refs \subseteq dlv[d].refs
      BY <1>5, <1>c DEF ServiceStart, RecoverInflight
    <2> QED BY <1>0, <1>5, <2>1, <2>2, <2>3, <2>4, SameCopies DEF ServiceStart
  <1>6. CASE ServiceCrash
    <2>1. Calm
      BY <1>6, <1>b, <1>d, QuietCall DEF ServiceCrash
    <2>2. UNCHANGED <<journal, vectors, occ, dlv, shown>>
      BY <1>6 DEF ServiceCrash, ledgers
    <2> QED BY <1>0, <2>1, <2>2, SameLedgers, SameCopies
  <1>7. CASE RequestFails
    <2>1. Calm
      BY <1>7, <1>b, <1>d, QuietCall DEF RequestFails
    <2>2. UNCHANGED <<journal, vectors, occ, dlv, shown>>
      BY <1>7 DEF RequestFails, ledgers
    <2> QED BY <1>0, <2>1, <2>2, SameLedgers, SameCopies
  <1>8. ASSUME NEW o \in Objects, NEW r \in Revisions, IngestRequest(o, r) PROVE RoutineInv'
    <2>1. Calm
      BY <1>8, <1>b, <1>d, QuietCall DEF IngestRequest
    <2>2. UNCHANGED <<vectors, occ, dlv, shown>>
      BY <1>8 DEF IngestRequest, ledgers
    <2>3. \A p \in Pairs : Covered(p) => Covered(p)'
      BY <1>8, <1>a, IngestCovers DEF IngestRequest
    <2>4. VectorsCovered' /\ RefsCovered'
      BY <1>a, <2>2, <2>3 DEF VectorsCovered, RefsCovered
    <2> QED BY <1>0, <2>1, <2>2, <2>4, SameLedgers
  <1>9. ASSUME NEW goal \in Goals, Request(goal) PROVE RoutineInv'
    <2>1. Calm
      BY <1>9, <1>b, <1>d, QuietCall DEF Request
    <2> QED BY <1>1, <1>9, <2>1 DEF Request
  <1>10. ASSUME NEW n \in notices, CleanVectors(n) PROVE RoutineInv'
    <2>1. call'.pc = "purgeRoutine" /\ call'.notice = {n}
      BY <1>10, <1>b DEF CleanVectors
    <2>2. UNCHANGED <<journal, occ, dlv, shown>> /\ vectors' = {p \in vectors : p[1] # n.obj}
      BY <1>10 DEF CleanVectors, ledgers
    <2>3. Calm
      BY <2>1, <2>2 DEF CallShape, CitesServed, ClaimHeld, PurgeProgress, RunPcs, ClaimPcs
    <2> QED BY <1>0, <2>2, <2>3, SameLedgers, SameCopies
  <1>11. ASSUME NEW n \in notices, CleanRoutine(n) PROVE RoutineInv'
    <2>1. call'.pc = "ackNotice" /\ call'.notice = {n} /\ n \in call.notice
      BY <1>11, <1>b DEF CleanRoutine
    <2>2. UNCHANGED <<journal, vectors, shown>>
      BY <1>11 DEF CleanRoutine
    <2>3. \A d \in Days : dlv'[d].refs = IF CitesObject(d, n) THEN {} ELSE dlv[d].refs
      BY <1>11, <1>c DEF CleanRoutine
    <2>4. \A d \in Days : \A p \in dlv'[d].refs : p[1] # n.obj
      BY <2>3 DEF CitesObject
    <2>5. PurgeProgress'
      BY <1>11, <2>1, <2>2, <2>4 DEF CleanRoutine, PurgeProgress
    <2>6. CallShape' /\ CitesServed' /\ ClaimHeld'
      BY <2>1 DEF CallShape, CitesServed, ClaimHeld, RunPcs, ClaimPcs
    <2>7. LedgersAgree'
      BY <1>11, <1>a, <1>c DEF CleanRoutine, LedgersAgree
    <2>8. AtMostOneBriefing'
      BY <2>2 DEF AtMostOneBriefing
    <2>9. VectorsCovered' /\ RefsCovered'
      BY <2>2, <2>3, SameCopies
    <2> QED BY <1>0, <2>5, <2>6, <2>7, <2>8, <2>9
  \* Only copies of other objects are left when a notice is acknowledged.
  <1>12. ASSUME NEW n \in notices, CleanAck(n) PROVE RoutineInv'
    <2>1. Calm
      BY <1>12, <1>b, <1>d, QuietCall DEF CleanAck
    <2>2. UNCHANGED <<rev, live, vectors, occ, dlv, shown>> /\ notices' = notices \ {n}
      BY <1>12 DEF CleanAck, Purged, ledgers
    <2>3. \A p : Covered(p) /\ p[1] # n.obj => Covered(p)'
      BY <2>2 DEF Covered, Served
    <2>4. \A p \in vectors : p[1] # n.obj
      BY <1>12 DEF CleanAck, PurgeProgress
    <2>5. \A d \in Days : \A p \in dlv[d].refs : p[1] # n.obj
      BY <1>12 DEF CleanAck, PurgeProgress
    <2>6. VectorsCovered' /\ RefsCovered'
      BY <2>2, <2>3, <2>4, <2>5 DEF VectorsCovered, RefsCovered
    <2> QED BY <1>0, <2>1, <2>2, <2>6, SameLedgers
  <1>13. CASE CleanDone
    <2>1. call.goal \in Goals
      BY DEF RoutineTypeOK, Calls
    <2>2. Calm
      BY <1>13, <1>b, <1>d, <2>1, QuietCall DEF CleanDone
    <2> QED BY <1>1, <1>13, <2>2 DEF CleanDone
  <1>14. CASE CleanOverflow \/ Refused \/ BuildRefused \/ \E d \in Days : ClaimRefused(d)
    BY <1>2, <1>14 DEF CleanOverflow, Refused, BuildRefused, ClaimRefused, Finished
  <1>15. CASE Search
    <2>1. Calm
      BY <1>15, <1>b, <1>d, QuietCall DEF Search
    <2>2. UNCHANGED <<journal, occ, dlv, shown>> /\ vectors' \subseteq vectors \cup ServedPairs
      BY <1>15 DEF Search, ledgers
    <2>3. \A p \in vectors \cup ServedPairs : Covered(p)
      BY DEF VectorsCovered, ServedPairs, Covered
    <2>4. \A p : Covered(p) => Covered(p)'
      BY <2>2 DEF Covered, Served, journal
    <2>5. VectorsCovered' /\ RefsCovered'
      BY <2>2, <2>3, <2>4 DEF VectorsCovered, RefsCovered
    <2> QED BY <1>0, <2>1, <2>2, <2>5, SameLedgers
  <1>16. CASE Control
    <2>1. Calm
      BY <1>16, <1>b, <1>d, QuietCall DEF Control, Finished
    <2>2. UNCHANGED <<journal, vectors, occ, dlv, shown>>
      BY <1>16 DEF Control, Finished
    <2> QED BY <1>0, <2>1, <2>2, SameLedgers, SameCopies
  <1>17. ASSUME NEW d \in Days, Transition(d) PROVE RoutineInv'
    <2>1. Calm
      BY <1>17, <1>b, <1>d, QuietCall DEF Transition, Finished
    <2>2. UNCHANGED <<journal, vectors, dlv, shown>>
      BY <1>17 DEF Transition, Finished
    <2>3. LedgersAgree'
      BY <1>17, <1>a, <2>2 DEF Transition, LedgersAgree, Occ
    <2>4. AtMostOneBriefing'
      BY <2>2 DEF AtMostOneBriefing
    <2> QED BY <1>0, <2>1, <2>2, <2>3, <2>4, SameCopies
  <1>18. ASSUME NEW d \in Days, Admit(d) PROVE RoutineInv'
    <2>1. UNCHANGED <<journal, vectors, dlv, shown>> /\ occ' = [occ EXCEPT ![d] = Admitted(d)]
      BY <1>18 DEF Admit
    <2>2. \/ call'.pc = "idle"
          \/ call'.pc = "build" /\ call'.key = d
      BY <1>18, <1>b DEF Admit
    <2>3. Calm
      BY <2>2 DEF CallShape, CitesServed, ClaimHeld, PurgeProgress, RunPcs, ClaimPcs
    <2>4. \/ Admitted(d) = occ[d]
          \/ /\ occ[d].status \in {"none", "suppressed", "snoozed"}
             /\ Admitted(d).status \in {"accepted", "suppressed"}
             /\ dlv[d].status = "none" \/ occ[d].status = "none"
      BY <1>c DEF Admitted
    <2>5. LedgersAgree'
      BY <1>a, <2>1, <2>4 DEF LedgersAgree
    <2>6. AtMostOneBriefing'
      BY <2>1 DEF AtMostOneBriefing
    <2> QED BY <1>0, <2>1, <2>3, <2>5, <2>6, SameCopies
  <1>19. CASE Build
    <2>1. PICK cites \in SUBSET ServedPairs : call' = Running("claim", call.key, cites, "none")
      BY <1>19 DEF Build
    <2>2. UNCHANGED Fixed
      BY <1>19 DEF Build
    <2>3. UNCHANGED ServedPairs
      BY <2>2 DEF ServedPairs, Served, journal
    <2>4. call.key \in Days
      BY <1>19 DEF Build, CallShape, RunPcs
    <2>5. Calm
      BY <1>b, <2>1, <2>3, <2>4
      DEF CallShape, CitesServed, ClaimHeld, PurgeProgress, RunPcs, ClaimPcs
    <2> QED BY <1>1, <2>2, <2>5
  \* The claim: its citations are served, and nothing was posted before.
  <1>20. ASSUME NEW d \in Days, Claim(d) PROVE RoutineInv'
    <2>1. UNCHANGED <<journal, vectors, shown, control>>
      BY <1>20 DEF Claim
    <2>2. /\ call'.pc = "recheck" /\ call'.key = d /\ call'.cites = call.cites
          /\ call'.ans = "none"
      BY <1>20, <1>b DEF Claim
    <2>3. dlv'[d].status = "claimed" /\ dlv'[d].refs = call.cites
          /\ \A e \in Days \ {d} : dlv'[e] = dlv[e]
      BY <1>20, <1>a, <1>c DEF Claim
    <2>4. occ'[d].status = "sending" /\ \A e \in Days \ {d} : occ'[e] = occ[e]
      BY <1>20, <1>a, <1>c DEF Claim
    <2>5. shown[d] = 0
      BY <1>20, <1>a DEF Claim, LedgersAgree, AtMostOneBriefing
    <2>6. control = "open"
      BY <1>20 DEF Claim, ControlBlocks, RoutineTypeOK
    <2>7. call.cites \subseteq ServedPairs /\ UNCHANGED ServedPairs
      BY <1>20, <2>1 DEF Claim, CitesServed, ServedPairs, Served, journal
    <2>8. Calm
      BY <2>1, <2>2, <2>3, <2>5, <2>6, <2>7
      DEF CallShape, CitesServed, ClaimHeld, PurgeProgress, RunPcs, ClaimPcs
    <2>9. LedgersAgree'
      BY <2>1, <2>3, <2>4, <2>5 DEF LedgersAgree
    <2>10. AtMostOneBriefing'
      BY <2>1 DEF AtMostOneBriefing
    <2>11. \A p : Covered(p) => Covered(p)'
      BY <2>1 DEF Covered, Served, journal
    <2>12. VectorsCovered'
      BY <2>1, <2>11 DEF VectorsCovered
    <2>13. \A p \in ServedPairs : Covered(p)
      BY DEF ServedPairs, Covered
    <2>14. RefsCovered'
      BY <2>3, <2>7, <2>11, <2>13 DEF RefsCovered
    <2> QED BY <1>0, <2>8, <2>9, <2>10, <2>12, <2>14
  <1>21. ASSUME NEW d \in Days, ClaimInterrupted(d) PROVE RoutineInv'
    <2>1. Calm
      BY <1>21, <1>b, <1>d, QuietCall DEF ClaimInterrupted, Finished
    <2>2. UNCHANGED <<journal, vectors, shown>>
      BY <1>21 DEF ClaimInterrupted, Finished
    <2>3. LedgersAgree'
      BY <1>21, <1>a, <1>c, <2>2 DEF ClaimInterrupted, LedgersAgree
    <2>4. AtMostOneBriefing'
      BY <2>2 DEF AtMostOneBriefing
    <2>5. \A e \in Days : dlv'[e].refs \subseteq dlv[e].refs
      BY <1>21, <1>a, <1>c DEF ClaimInterrupted
    <2> QED BY <1>0, <2>1, <2>2, <2>3, <2>4, <2>5, SameCopies
  <1>22. CASE Recheck
    <2>1. UNCHANGED Fixed
      BY <1>22 DEF Recheck
    <2>2. UNCHANGED <<ServedPairs, dlv, shown, control>>
      BY <2>1 DEF ServedPairs, Served, journal, ledgers
    <2>3. /\ call'.key = call.key /\ call'.cites = call.cites
          /\ \/ call'.pc = "send" /\ call'.ans = "none" /\ call.cites \subseteq ServedPairs
             \/ call'.pc = "finish" /\ call'.ans = "held"
      BY <1>22, <1>b DEF Recheck
    <2>4. /\ call.key \in Days /\ dlv[call.key].status = "claimed" /\ shown[call.key] = 0
          /\ control = "open"
      BY <1>22 DEF Recheck, CallShape, ClaimHeld, RunPcs, ClaimPcs
    <2>5. Calm
      BY <2>2, <2>3, <2>4 DEF CallShape, CitesServed, ClaimHeld, PurgeProgress, RunPcs, ClaimPcs
    <2> QED BY <1>1, <2>1, <2>5
  \* The transport call: the first post of this occurrence, under its claim.
  <1>23. ASSUME NEW d \in Days, Send(d) PROVE RoutineInv'
    <2>1. UNCHANGED <<journal, vectors, occ, dlv, control>>
      BY <1>23 DEF Send, ledgers
    <2>2. call.pc = "send" /\ d = call.key /\ dlv[d].status = "claimed" /\ shown[d] = 0
      BY <1>23 DEF Send, ClaimHeld, ClaimPcs
    <2>3. PICK posted \in BOOLEAN :
             /\ shown' = IF posted THEN [shown EXCEPT ![d] = shown[d] + 1] ELSE shown
             /\ \E ans \in Answers(posted) : call' = Running("finish", d, call.cites, ans)
      BY <1>23 DEF Send
    <2>4. PICK ans \in Answers(posted) : call' = Running("finish", d, call.cites, ans)
      BY <2>3
    <2>5. call'.pc = "finish" /\ call'.key = d /\ call'.ans = ans
      BY <1>b, <2>4
    <2>6. ans \in {"delivered", "accepted", "uncertain", "held"} /\ (ans = "held" => ~posted)
      BY <2>4 DEF Answers
    <2>7. (posted => shown'[d] = 1) /\ (~posted => shown'[d] = 0)
          /\ \A e \in Days \ {d} : shown'[e] = shown[e]
      BY <1>a, <2>2, <2>3
    <2>8. Calm
      BY <2>1, <2>2, <2>5, <2>6, <2>7
      DEF CallShape, CitesServed, ClaimHeld, PurgeProgress, RunPcs, ClaimPcs
    <2>9. AtMostOneBriefing' /\ LedgersAgree'
      BY <2>1, <2>2, <2>7 DEF AtMostOneBriefing, LedgersAgree
    <2>10. VectorsCovered' /\ RefsCovered'
      BY <2>1, SameCopies
    <2> QED BY <1>0, <2>8, <2>9, <2>10
  <1>24. ASSUME NEW d \in Days, Finish(d) PROVE RoutineInv'
    <2>1. Calm
      BY <1>24, <1>b, <1>d, QuietCall DEF Finish, Finished
    <2>2. UNCHANGED <<journal, vectors, shown>>
      BY <1>24 DEF Finish, Finished
    <2>3. /\ call.ans \in {"delivered", "accepted", "uncertain", "held"}
          /\ dlv[d].status = "claimed" /\ (call.ans = "held" => shown[d] = 0)
      BY <1>24 DEF Finish, CallShape, ClaimHeld, ClaimPcs, RunPcs
    <2>4. occ[d].status = "sending"
      BY <2>3 DEF LedgersAgree
    <2>5. /\ dlv'[d].status = call.ans /\ dlv'[d].refs = dlv[d].refs
          /\ occ'[d].status = FinalOccurrence(call.ans)
          /\ \A e \in Days \ {d} : dlv'[e] = dlv[e] /\ occ'[e] = occ[e]
      BY <1>24, <1>a, <1>c, <2>3, <2>4 DEF Finish
    <2>6. LedgersAgree'
      BY <1>a, <2>2, <2>3, <2>5 DEF LedgersAgree, FinalOccurrence
    <2>7. AtMostOneBriefing'
      BY <2>2 DEF AtMostOneBriefing
    <2>8. \A e \in Days : dlv'[e].refs \subseteq dlv[e].refs
      BY <2>5
    <2> QED BY <1>0, <2>1, <2>2, <2>6, <2>7, <2>8, SameCopies
  <1> QED BY <1>3, <1>4, <1>5, <1>6, <1>7, <1>8, <1>9, <1>10, <1>11, <1>12, <1>13, <1>14, <1>15,
             <1>16, <1>17, <1>18, <1>19, <1>20, <1>21, <1>22, <1>23, <1>24
          DEF RoutineNext, Step

\* The invariant holds throughout.
LEMMA Invariance == RoutineSpec => []RoutineInv
  <1>1. RoutineInv /\ UNCHANGED routineVars => RoutineInv'
    BY DEF RoutineInv, routineVars, RoutineTypeOK, JournalTypeOK, CallShape, CitesServed, ClaimHeld,
           AtMostOneBriefing, LedgersAgree, VectorsCovered, RefsCovered, Covered, PurgeProgress,
           ServedPairs, Served
  <1>2. RoutineInv /\ [RoutineNext]_routineVars => RoutineInv'
    BY <1>1, NextInv, RoutineAssumption
  <1>3. RoutineInit => RoutineInv
    BY InitInv, RoutineAssumption
  <1> QED BY <1>2, <1>3, PTL DEF RoutineSpec

-----------------------------------------------------------------------------
(* The theorems.                                                           *)

\* The ledger's rows, the receipts, the vector cache and the request under the
\* service's lock keep their types.
THEOREM TypeCorrect == RoutineSpec => []RoutineTypeOK
  <1>1. RoutineInv => RoutineTypeOK
    BY DEF RoutineInv
  <1> QED BY <1>1, Invariance, PTL

\* send_once posts at most one briefing per occurrence, however often the run
\* is triggered again, the answer is lost, a transaction fails or the process
\* dies between the claim and its settlement.
THEOREM OneBriefing == RoutineSpec => []AtMostOneBriefing
  <1>1. RoutineInv => AtMostOneBriefing
    BY DEF RoutineInv
  <1> QED BY <1>1, Invariance, PTL

\* routine_occurrences and routine_deliveries tell the same story: the claim,
\* recover_inflight, purge_source and the guarded settlement move them together.
THEOREM LedgersStayInStep == RoutineSpec => []LedgersAgree
  <1>1. RoutineInv => LedgersAgree
    BY DEF RoutineInv
  <1> QED BY <1>1, Invariance, PTL

\* Vectors cached by search and citations kept on receipts are of served
\* revisions, or a notice that will purge them is queued.
THEOREM CopiesFollowSources == RoutineSpec => []CopiesAreCurrent
  <1>1. RoutineInv => CopiesAreCurrent
    BY DEF RoutineInv, CopiesAreCurrent, VectorsCovered, RefsCovered, Covered
  <1> QED BY <1>1, Invariance, PTL

\* The transport call of send_once happens only with citations served at that
\* moment, with the routine open, and for an occurrence the owner left alone.
THEOREM NoUnwarrantedPost == RoutineSpec => PostingIsWarranted
  <1> DEFINE Warranted == \A d \in Days : shown'[d] # shown[d] =>
                             /\ \A p \in call.cites : Served(p[1], p[2])
                             /\ control = "open"
                             /\ occ[d].status \notin {"cancelled", "snoozed"}
  <1>1. RoutineInv /\ [RoutineNext]_routineVars => [Warranted]_routineVars
    <2> SUFFICES ASSUME RoutineInv, RoutineNext PROVE Warranted
      OBVIOUS
    <2>1. ASSUME NEW e \in Days, Send(e) PROVE Warranted
      <3>1. \A d \in Days \ {e} : shown'[d] = shown[d]
        BY <2>1 DEF Send, RoutineInv, RoutineTypeOK
      <3>2. \A p \in call.cites : Served(p[1], p[2])
        BY <2>1 DEF Send, RoutineInv, CitesServed, ServedPairs
      <3>3. control = "open" /\ dlv[e].status = "claimed"
        BY <2>1 DEF Send, RoutineInv, ClaimHeld, ClaimPcs
      <3>4. occ[e].status = "sending"
        BY <3>3 DEF RoutineInv, LedgersAgree
      <3> QED BY <3>1, <3>2, <3>3, <3>4
    <2>2. (\E e \in Days : Send(e)) \/ shown' = shown
      BY DEF RoutineNext, Step, NewDay, SnoozeEnds, ServiceStart, ServiceCrash, RequestFails,
             IngestRequest, Request, CleanVectors, CleanRoutine, CleanAck, CleanDone, CleanOverflow,
             Search, Control, Refused, Transition, Build, BuildRefused, Recheck, Admit, Claim,
             ClaimInterrupted, ClaimRefused, Finish, Finished
    <2> QED BY <2>1, <2>2
  <1> QED BY <1>1, Invariance, PTL DEF RoutineSpec, PostingIsWarranted
=============================================================================

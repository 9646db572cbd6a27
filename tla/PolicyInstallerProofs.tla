----------------------- MODULE PolicyInstallerProofs -----------------------
(***************************************************************************)
(* Proofs about PolicyInstaller, on top of the improvement controller.     *)
(* What is installed was vetted, however many workers and installers race. *)
(* One installer at a time leaves no service down off the record, never    *)
(* leaves record, file and candidate in disagreement, and never lets the   *)
(* running service fall behind by more than one write.                     *)
(***************************************************************************)
EXTENDS PolicyInstaller, FiniteSetTheorems, TLAPS

-----------------------------------------------------------------------------
(* The inductive invariants.                                               *)

\* Stages a candidate reaches only with a merge of exactly its policy.
Merged == {"reconciled", "applied", "rolled_back"}

\* A plan carries a merged candidate's policy, and goes back to a vetted one.
PlanOK(t) ==
    plan[t].kind = "apply" =>
        /\ cand[plan[t].of].state \in Merged
        /\ cand[plan[t].of].after = plan[t].after
        /\ Vetted(plan[t].before)

\* Installers work on planned applications, and only those leave a record.
Planned ==
    /\ \A i \in Installers : ~At(i, "idle") => plan[inst[i].tx].kind = "apply"
    /\ \A t \in Transactions :
          result[t] \notin {"none", "initialized_not_active"} => plan[t].kind = "apply"

VettedInv ==
    /\ ControllerTypeOK /\ InstallerTypeOK
    /\ \A t \in Transactions : PlanOK(t)
    /\ Planned
    /\ InstalledIsVetted

\* One installer at a time.
Alone == \A i, j \in Installers : i = j

NewSteps == {"own", "written", "start", "health", "healthy", "record"}
OldSteps == {"reown", "restart", "probe", "settle", "settled"}
FreshSteps == {"stopped", "write", "putback"}
UpSteps == {"health", "healthy", "record", "probe", "settle", "settled"}

\* What an installer at work may rely on.
OnTask(i) ==
    LET at == inst[i].at
        t  == inst[i].tx
    IN  at # "idle" =>
          /\ selected /\ ~Settled(t)
          /\ target \in {Before(t), After(t)}
          /\ at \in NewSteps => target = After(t)
          /\ at \in OldSteps => target = Before(t)
          /\ at = "check" => inst[i].old = (target = Before(t))
          /\ at \in UpSteps => up
          /\ at \in FreshSteps /\ up => loaded = target
          /\ at = "record" => cand[plan[t].of].state = "applied"
          /\ at = "settled" => cand[plan[t].of].state # "applied"

\* The last writer left one of its two images.
LastWriter ==
    \A t \in writer : /\ result[t] \notin {"none", "initialized_not_active"}
                      /\ target \in {Before(t), After(t)}

Agrees(t) ==
    /\ result[t] = "applied" => target = After(t) /\ cand[plan[t].of].state = "applied"
    /\ result[t] = "rolled_back" => target = Before(t) /\ cand[plan[t].of].state # "applied"

NoEmptyPlan == \A t \in Transactions : ~EmptyPlan(t)

\* Before the file is selected no installer has touched anything.
Unselected == ~selected => up /\ writer = {}

Agree == NoEmptyPlan => \A t \in writer : Agrees(t)

AloneInv ==
    /\ Unselected
    /\ \A i \in Installers : OnTask(i)
    /\ LastWriter
    /\ DownIsAccounted
    /\ Agree
    /\ AtMostOneBehind

-----------------------------------------------------------------------------
(* Types.                                                                  *)

\* What the three kinds of plan hold.
LEMMA PlanFacts ==
  ASSUME NEW p \in Plans
  PROVE  /\ p.kind \in {"none", "initialize", "apply"}
         /\ p.kind = "none" <=> p = NoPlan
         /\ p.kind = "initialize" => p.after \in Policies
         /\ p.kind = "apply" => p.of \in Candidates /\ p.before \in Policies /\ p.after \in Policies
  <1>1. CASE p = NoPlan
    BY <1>1 DEF NoPlan
  <1>2. CASE p \in [kind : {"initialize"}, after : Policies]
    <2>1. p.kind = "initialize" /\ p.after \in Policies
      BY <1>2
    <2> QED BY <2>1 DEF NoPlan
  <1>3. CASE p \in [kind : {"apply"}, of : Candidates, before : Policies, after : Policies]
    <2>1. p.kind = "apply" /\ p.of \in Candidates /\ p.before \in Policies /\ p.after \in Policies
      BY <1>3
    <2> QED BY <2>1 DEF NoPlan
  <1> QED BY <1>1, <1>2, <1>3 DEF Plans

\* An installer that is not idle works on a transaction.
LEMMA StepFacts ==
  ASSUME NEW s \in Steps
  PROVE  /\ s.at \in StepNames \cup {"idle"}
         /\ s.at = "idle" <=> s = NoStep
         /\ s.at # "idle" => s \in [at : StepNames, tx : Transactions, old : BOOLEAN]
  <1>1. "idle" \notin StepNames
    BY DEF StepNames
  <1> QED BY <1>1 DEF Steps, NoStep

\* An installer that goes on keeps its transaction and what it saw.
LEMMA GoesFacts ==
  ASSUME InstallerTypeOK, NEW i \in Installers, inst[i].at # "idle", NEW step \in StepNames, Goes(i, step)
  PROVE  /\ inst' \in [Installers -> Steps]
         /\ inst'[i].at = step /\ inst'[i].tx = inst[i].tx /\ inst'[i].old = inst[i].old
         /\ \A j \in Installers \ {i} : inst'[j] = inst[j]
  <1>1. inst \in [Installers -> Steps]
    BY DEF InstallerTypeOK
  <1>2. inst[i] \in [at : StepNames, tx : Transactions, old : BOOLEAN]
    BY <1>1, StepFacts
  <1> DEFINE s == [inst[i] EXCEPT !.at = step]
  <1>3. /\ s \in [at : StepNames, tx : Transactions, old : BOOLEAN]
        /\ s.at = step /\ s.tx = inst[i].tx /\ s.old = inst[i].old
    BY <1>2
  <1>4. inst' = [inst EXCEPT ![i] = s]
    BY DEF Goes
  <1> HIDE DEF s
  <1>5. s \in Steps
    BY <1>3 DEF Steps
  <1> QED BY <1>1, <1>3, <1>4, <1>5

\* An installer that enters a transaction notes whether the old file is in place.
LEMMA EntersFacts ==
  ASSUME InstallerTypeOK, NEW i \in Installers, NEW t \in Transactions, NEW step \in StepNames,
         Enters(i, t, step)
  PROVE  /\ inst' \in [Installers -> Steps]
         /\ inst'[i].at = step /\ inst'[i].tx = t /\ inst'[i].old = (target = Before(t))
         /\ \A j \in Installers \ {i} : inst'[j] = inst[j]
  <1>1. inst \in [Installers -> Steps]
    BY DEF InstallerTypeOK
  <1>2. PICK b \in BOOLEAN : b = (target = Before(t))
    OBVIOUS
  <1> DEFINE s == [at |-> step, tx |-> t, old |-> b]
  <1>3. /\ s \in [at : StepNames, tx : Transactions, old : BOOLEAN]
        /\ s.at = step /\ s.tx = t /\ s.old = b
    OBVIOUS
  <1>4. inst' = [inst EXCEPT ![i] = s]
    BY <1>2 DEF Enters
  <1> HIDE DEF s
  <1>5. s \in Steps
    BY <1>3 DEF Steps
  <1> QED BY <1>1, <1>2, <1>3, <1>4, <1>5

\* An installer whose command ended is idle.
LEMMA ReturnsFacts ==
  ASSUME InstallerTypeOK, NEW i \in Installers, Returns(i)
  PROVE  /\ inst' \in [Installers -> Steps] /\ inst'[i].at = "idle"
         /\ \A j \in Installers \ {i} : inst'[j] = inst[j]
  <1>1. NoStep \in Steps /\ NoStep.at = "idle"
    BY DEF Steps, NoStep
  <1> QED BY <1>1 DEF Returns, InstallerTypeOK

\* One result is recorded.
LEMMA RecordsFacts ==
  ASSUME InstallerTypeOK, NEW t \in Transactions, NEW status \in Statuses, Records(t, status)
  PROVE  /\ result' \in [Transactions -> Statuses] /\ result'[t] = status
         /\ \A u \in Transactions \ {t} : result'[u] = result[u]
  BY DEF Records, InstallerTypeOK

\* The candidates a step may touch, and how.
CandKept(c) == cand[c].state \in Merged => cand'[c] = cand[c]
CandMoved(c) == /\ cand[c].state \in Merged => cand'[c].state \in Merged
                /\ cand'[c].after = cand[c].after

\* The guarded update of a stage touches one candidate, and only in that stage.
LEMMA MovesFacts ==
  ASSUME ControllerTypeOK, NEW c \in Candidates, NEW from, NEW to \in Stages, Moves(c, from, to)
  PROVE  /\ cand' \in [Candidates -> CandidateRows]
         /\ \A d \in Candidates \ {c} : cand'[d] = cand[d]
         /\ cand'[c].state = IF cand[c].state = from THEN to ELSE cand[c].state
         /\ cand'[c].after = cand[c].after
         /\ cand[c].state # from => cand'[c] = cand[c]
  <1>1. cand \in [Candidates -> CandidateRows] /\ cand[c] \in CandidateRows
    BY DEF ControllerTypeOK
  <1> DEFINE row == [cand[c] EXCEPT !.state = to]
  <1>2. row \in CandidateRows /\ row.state = to /\ row.after = cand[c].after
    BY <1>1 DEF CandidateRows
  <1>3. cand' = IF cand[c].state = from THEN [cand EXCEPT ![c] = row] ELSE cand
    BY DEF Moves
  <1> HIDE DEF row
  <1> QED BY <1>1, <1>2, <1>3

-----------------------------------------------------------------------------
(* The controller.                                                         *)

\* A call begins or ends.
LEMMA WorkFacts ==
  ASSUME ControllerTypeOK, NEW w \in Workers, NEW c \in Candidates,
         \/ \E call \in {"test", "canary", "push", "pushed"} : Starts(w, call, c)
         \/ Ends(w) \/ UNCHANGED work
  PROVE  work' \in [Workers -> Calls]
  <1>1. work \in [Workers -> Calls]
    BY DEF ControllerTypeOK
  <1>2. ASSUME NEW call \in {"test", "canary", "push", "pushed"}, Starts(w, call, c)
        PROVE  work' \in [Workers -> Calls]
    <2>1. [call |-> call, of |-> c] \in Calls
      BY DEF Calls
    <2> QED BY <1>1, <1>2, <2>1 DEF Starts
  <1>3. NoWork \in Calls
    BY DEF Calls
  <1> QED BY <1>1, <1>2, <1>3 DEF Ends

\* Master gets a new revision.
LEMMA HistoryFacts ==
  ASSUME ControllerTypeOK, NEW p \in Policies, Len(history) < MaxCommits, MaxCommits \in Nat,
         history' = Append(history, p)
  PROVE  /\ history' \in Seq(Policies) /\ Len(history') \in 1..MaxCommits
         /\ Len(history') = Len(history) + 1
  BY DEF ControllerTypeOK

\* What master held or holds is a policy.
LEMMA PolicyFacts ==
  ASSUME ControllerTypeOK
  PROVE  /\ Len(history) \in Nat /\ Len(history) >= 1 /\ known \in 1..Len(history)
         /\ \A r \in 1..Len(history) : history[r] \in Policies
         /\ Latest \in Policies /\ Base \in Policies
  BY DEF ControllerTypeOK, Latest, Base, Revisions

\* The controller keeps its types, and leaves a candidate alone once its
\* policy has been merged.
LEMMA ControllerStep ==
  ASSUME ControllerAssumption, ControllerTypeOK, ControllerNext
  PROVE  ControllerTypeOK' /\ \A c \in Candidates : CandKept(c)
  <1>0. MaxCommits \in Nat
    BY DEF ControllerAssumption
  <1>1. /\ cand \in [Candidates -> CandidateRows] /\ history \in Seq(Policies)
        /\ Len(history) \in 1..MaxCommits /\ known \in 1..Len(history)
        /\ pr \in [Candidates -> {-1} \cup Nat] /\ work \in [Workers -> Calls]
    BY DEF ControllerTypeOK, Revisions
  <1>2. ASSUME UNCHANGED cand PROVE \A c \in Candidates : CandKept(c)
    BY <1>2 DEF CandKept
  <1>3. ASSUME NEW c \in Candidates, Merge(c)
        PROVE  ControllerTypeOK' /\ UNCHANGED cand
    <2>1. Latest \cup {c} \in Policies
      BY PolicyFacts DEF Policies
    <2>2. history' \in Seq(Policies) /\ Len(history') \in 1..MaxCommits /\ Len(history') = Len(history) + 1
      BY <1>0, <1>3, <2>1, HistoryFacts DEF Merge
    <2>3. pr' \in [Candidates -> {-1} \cup Nat] /\ UNCHANGED <<cand, known, work>>
      BY <1>1, <1>3 DEF Merge
    <2> QED BY <1>1, <2>2, <2>3 DEF ControllerTypeOK, Revisions
  <1>4. ASSUME NEW x \in Candidates \cup {ByHand}, Edit(x)
        PROVE  ControllerTypeOK' /\ UNCHANGED cand
    <2>1. (IF x \in Latest THEN Latest \ {x} ELSE Latest \cup {x}) \in Policies
      BY PolicyFacts DEF Policies
    <2>2. history' \in Seq(Policies) /\ Len(history') \in 1..MaxCommits /\ Len(history') = Len(history) + 1
      BY <1>0, <1>4, <2>1, HistoryFacts DEF Edit
    <2>3. UNCHANGED <<cand, known, pr, work>>
      BY <1>4 DEF Edit
    <2> QED BY <1>1, <2>2, <2>3 DEF ControllerTypeOK, Revisions
  <1>5. CASE Fetch
    <2>1. known' \in 1..Len(history) /\ UNCHANGED <<cand, history, pr, work>>
      BY <1>1, <1>5 DEF Fetch
    <2> QED BY <1>1, <1>2, <2>1 DEF ControllerTypeOK, Revisions
  <1>6. ASSUME NEW w \in Workers, NEW c \in Candidates, Prepare(w, c)
        PROVE  ControllerTypeOK' /\ \A d \in Candidates : CandKept(d)
    <2> DEFINE row == [state |-> "prepared", before |-> Base, after |-> Base \cup {c}, merged |-> 0]
    <2>1. Base \in Policies /\ Base \cup {c} \in Policies
      BY PolicyFacts DEF Policies
    <2>2. row \in CandidateRows
      BY <2>1 DEF CandidateRows, Stages
    <2>3. cand' = [cand EXCEPT ![c] = row] /\ cand[c].state = "none" /\ UNCHANGED <<history, known, pr, work>>
      BY <1>6 DEF Prepare
    <2> HIDE DEF row
    <2>4. cand' \in [Candidates -> CandidateRows] /\ \A d \in Candidates : CandKept(d)
      BY <1>1, <2>2, <2>3 DEF CandKept, Merged
    <2> QED BY <1>1, <2>3, <2>4 DEF ControllerTypeOK, Revisions
  <1>7. ASSUME NEW w \in Workers, NEW c \in Candidates, Evaluate(w, c) \/ Push(w, c)
        PROVE  ControllerTypeOK' /\ UNCHANGED cand
    <2>1. work' \in [Workers -> Calls]
      BY <1>7, WorkFacts DEF Evaluate, Push
    <2>2. pr' \in [Candidates -> {-1} \cup Nat] /\ UNCHANGED <<cand, history, known>>
      BY <1>1, <1>7 DEF Evaluate, Push
    <2> QED BY <1>1, <2>1, <2>2 DEF ControllerTypeOK, Revisions
  <1>8. ASSUME NEW w \in Workers, NEW c \in Candidates,
               EvaluationPasses(w, c) \/ EvaluationFails(w, c) \/ Promote(w, c) \/ Publish(w, c) \/ Published(w, c)
        PROVE  ControllerTypeOK' /\ \A d \in Candidates : CandKept(d)
    <2>1. work' \in [Workers -> Calls]
      BY <1>8, WorkFacts DEF EvaluationPasses, EvaluationFails, Promote, Publish, Published
    <2>2. UNCHANGED <<history, known, pr>>
      BY <1>8 DEF EvaluationPasses, EvaluationFails, Promote, Publish, Published
    <2>3. \/ Rejects(c)
          \/ \E from \in Stages \ Merged, to \in Stages : Moves(c, from, to)
      BY <1>8 DEF EvaluationPasses, EvaluationFails, Promote, Publish, Published, Stages, Merged
    <2>4. CASE Rejects(c)
      <3> DEFINE row == [cand[c] EXCEPT !.state = "rejected"]
      <3>1. row \in CandidateRows
        BY <1>1 DEF CandidateRows, Stages
      <3>2. \/ cand' = cand
            \/ cand' = [cand EXCEPT ![c] = row] /\ cand[c].state \notin Merged
        BY <2>4 DEF Rejects, Merged
      <3> HIDE DEF row
      <3>3. cand' \in [Candidates -> CandidateRows] /\ \A d \in Candidates : CandKept(d)
        BY <1>1, <3>1, <3>2 DEF CandKept
      <3> QED BY <1>1, <2>1, <2>2, <3>3 DEF ControllerTypeOK, Revisions
    <2>5. ASSUME NEW from \in Stages \ Merged, NEW to \in Stages, Moves(c, from, to)
          PROVE  ControllerTypeOK' /\ \A d \in Candidates : CandKept(d)
      <3>1. cand' \in [Candidates -> CandidateRows] /\ \A d \in Candidates : CandKept(d)
        BY <2>5, MovesFacts DEF CandKept
      <3> QED BY <1>1, <2>1, <2>2, <3>1 DEF ControllerTypeOK, Revisions
    <2> QED BY <2>3, <2>4, <2>5
  <1>9. ASSUME NEW w \in Workers, NEW c \in Candidates, Reconcile(w, c)
        PROVE  ControllerTypeOK' /\ \A d \in Candidates : CandKept(d)
    <2> DEFINE row == [cand[c] EXCEPT !.state = "reconciled", !.merged = pr[c]]
    <2>1. /\ known' = Len(history) /\ UNCHANGED <<history, pr, work>> /\ cand[c].state = "published"
          /\ cand' = cand \/ (pr[c] > 0 /\ cand' = [cand EXCEPT ![c] = row])
      BY <1>1, <1>9 DEF Reconcile
    <2>2. pr[c] > 0 => row \in CandidateRows
      <3>1. cand[c] \in CandidateRows /\ (pr[c] > 0 => pr[c] \in Nat)
        BY <1>1
      <3>2. "reconciled" \in Stages
        BY DEF Stages
      <3> QED BY <3>1, <3>2 DEF CandidateRows
    <2> HIDE DEF row
    <2>3. cand' \in [Candidates -> CandidateRows] /\ \A d \in Candidates : CandKept(d)
      BY <1>1, <2>1, <2>2 DEF CandKept, Merged
    <2> QED BY <1>1, <2>1, <2>3 DEF ControllerTypeOK, Revisions
  <1>10. ASSUME NEW w \in Workers, WorkerDies(w) PROVE ControllerTypeOK' /\ UNCHANGED cand
    <2>1. work' \in [Workers -> Calls]
      BY <1>1, <1>10 DEF WorkerDies, Ends, Calls
    <2> QED BY <1>1, <1>10, <2>1 DEF WorkerDies, ControllerTypeOK, Revisions
  <1> QED BY <1>2, <1>3, <1>4, <1>5, <1>6, <1>7, <1>8, <1>9, <1>10 DEF ControllerNext

-----------------------------------------------------------------------------
(* Frames.  Plans are written once, a merged candidate keeps its policy.   *)

PlansKept == \A t \in Transactions : plan[t] # NoPlan => plan'[t] = plan[t]

\* So what was vetted stays vetted.
LEMMA VettedStays ==
  ASSUME InstallerTypeOK, PlansKept, \A c \in Candidates : CandMoved(c) \/ CandKept(c), NEW p, Vetted(p)
  PROVE  Vetted(p)'
  <1>1. PICK t \in Transactions :
          \/ plan[t].kind = "initialize" /\ p = plan[t].after
          \/ /\ plan[t].kind = "apply" /\ p = plan[t].after
             /\ cand[plan[t].of].state \in Merged
             /\ cand[plan[t].of].after = p
    BY DEF Vetted, Merged
  <1>2. plan[t] \in Plans /\ plan'[t] = plan[t]
    BY <1>1, PlanFacts DEF InstallerTypeOK, PlansKept
  <1>3. CASE plan[t].kind = "initialize" /\ p = plan[t].after
    BY <1>2, <1>3 DEF Vetted
  <1>4. CASE plan[t].kind = "apply"
    <2>1. plan[t].of \in Candidates
      BY <1>2, <1>4, PlanFacts
    <2>2. cand'[plan[t].of].state \in Merged /\ cand'[plan[t].of].after = p
      BY <1>1, <1>4, <2>1 DEF CandMoved, CandKept
    <2> QED BY <1>1, <1>2, <1>4, <2>2 DEF Vetted, Merged
  <1> QED BY <1>1, <1>3, <1>4

\* Who changes a candidate: the controller, not a merged one, and the
\* installer, between stages of a merged one.
LEMMA StepCand ==
  ASSUME ControllerAssumption, VettedInv, Next
  PROVE  \A c \in Candidates : CandMoved(c) \/ CandKept(c)
  <1>1. ASSUME UNCHANGED cand PROVE \A c \in Candidates : CandMoved(c) \/ CandKept(c)
    BY <1>1 DEF CandKept
  <1>2. CASE ControllerNext
    BY <1>2, ControllerStep DEF VettedInv
  <1>3. ASSUME NEW i \in Installers, MarkApplied(i) \/ Settle(i)
        PROVE  \A c \in Candidates : CandMoved(c) \/ CandKept(c)
    <2>1. /\ inst[i].at # "idle" /\ inst[i] \in Steps /\ inst[i].tx \in Transactions
          /\ plan[inst[i].tx].kind = "apply" /\ plan[inst[i].tx] \in Plans
      <3>1. inst[i].at # "idle" /\ inst[i] \in Steps
        BY <1>3 DEF MarkApplied, Settle, At, VettedInv, InstallerTypeOK
      <3>2. inst[i].tx \in Transactions
        BY <3>1, StepFacts
      <3> QED BY <3>1, <3>2 DEF VettedInv, Planned, At, InstallerTypeOK
    <2> DEFINE c == plan[inst[i].tx].of
    <2>2. c \in Candidates
      BY <2>1, PlanFacts
    <2> HIDE DEF c
    <2>3. \/ UNCHANGED cand
          \/ \E from \in Merged, to \in Merged : Moves(c, from, to)
      <3>1. cand \in [Candidates -> CandidateRows]
        BY DEF VettedInv, ControllerTypeOK
      <3>2. cand[c].state \in {"reconciled", "applied"} /\ cand' = [cand EXCEPT ![c].state = "applied"]
            => Moves(c, cand[c].state, "applied")
        BY DEF Moves
      <3> QED BY <1>3, <3>2 DEF MarkApplied, Settle, MarksRolledBack, Merged, c
    <2>4. ASSUME NEW from \in Merged, NEW to \in Merged, Moves(c, from, to)
          PROVE  \A d \in Candidates : CandMoved(d) \/ CandKept(d)
      <3>1. to \in Stages
        BY DEF Merged, Stages
      <3> QED BY <2>2, <2>4, <3>1, MovesFacts DEF VettedInv, CandMoved, CandKept
    <2> QED BY <1>1, <2>3, <2>4
  <1>4. \/ UNCHANGED cand \/ ControllerNext
        \/ \E i \in Installers : MarkApplied(i) \/ Settle(i)
    BY DEF Next, PlanInitialize, Initialize, PlanCandidate, Apply, Rollback, Select, ServiceStarts,
           InstallerStep, Check, Stop, RecordStopped, Write, Own, RecordInstalled, CheckStarted,
           Probe, RecordApplied, RecordPending, RestoreReads, RestoreStops, RestoreWrites, RestoreStarts,
           RestoreProbes, RecordRolledBack, CommandFails, InstallerDies, Reboot, controllerVars
  <1> QED BY <1>1, <1>2, <1>3, <1>4

\* Who writes a plan.
LEMMA StepPlan ==
  ASSUME VettedInv, Next
  PROVE  \/ UNCHANGED plan
         \/ \E t \in Transactions : PlanInitialize(t) \/ \E c \in Candidates : PlanCandidate(t, c)
  BY DEF Next, Initialize, Apply, Rollback, Select, ServiceStarts, installerVars,
         InstallerStep, Check, Stop, RecordStopped, Write, Own, RecordInstalled, CheckStarted,
         Probe, MarkApplied, RecordApplied, RecordPending, RestoreReads, RestoreStops, RestoreWrites,
         RestoreStarts, RestoreProbes, Settle, RecordRolledBack, CommandFails, InstallerDies, Reboot

\* Who writes the file.
LEMMA StepTarget ==
  ASSUME VettedInv, Next
  PROVE  \/ UNCHANGED target
         \/ \E t \in Transactions : Initialize(t)
         \/ \E i \in Installers : Write(i) \/ RestoreWrites(i)
  BY DEF Next, PlanInitialize, PlanCandidate, Apply, Rollback, Select, ServiceStarts, installerVars,
         InstallerStep, Check, Stop, RecordStopped, Own, RecordInstalled, CheckStarted,
         Probe, MarkApplied, RecordApplied, RecordPending, RestoreReads, RestoreStops,
         RestoreStarts, RestoreProbes, Settle, RecordRolledBack, CommandFails, InstallerDies, Reboot

\* A new plan, and what it holds.
LEMMA NewPlan ==
  ASSUME VettedInv, NEW t \in Transactions,
         PlanInitialize(t) \/ \E c \in Candidates : PlanCandidate(t, c)
  PROVE  /\ plan' \in [Transactions -> Plans] /\ PlansKept
         /\ \A u \in Transactions \ {t} : plan'[u] = plan[u]
         /\ plan[t].kind = "none"
         /\ plan'[t].kind = "apply" => /\ cand[plan'[t].of].state = "reconciled"
                                       /\ cand[plan'[t].of].after = plan'[t].after
                                       /\ plan'[t].before \in target
  <1>1. plan \in [Transactions -> Plans] /\ target \subseteq Policies /\ plan[t].kind = "none" /\ Unplanned(t)
    BY PlanFacts DEF VettedInv, InstallerTypeOK, PlanInitialize, PlanCandidate, Unplanned
  <1>2. CASE PlanInitialize(t)
    <2>1. PICK r \in 1..known : plan' = [plan EXCEPT ![t] = [kind |-> "initialize", after |-> history[r]]]
      BY <1>2 DEF PlanInitialize
    <2>2. r \in 1..Len(history)
      BY <2>1, PolicyFacts DEF VettedInv
    <2>3. history[r] \in Policies
      BY <2>2, PolicyFacts DEF VettedInv
    <2> DEFINE p == [kind |-> "initialize", after |-> history[r]]
    <2>4. p \in Plans /\ p.kind = "initialize"
      BY <2>3 DEF Plans
    <2> HIDE DEF p
    <2>5. plan' = [plan EXCEPT ![t] = p]
      BY <2>1 DEF p
    <2> QED BY <1>1, <2>4, <2>5 DEF PlansKept, Unplanned
  <1>3. ASSUME NEW c \in Candidates, PlanCandidate(t, c)
        PROVE  /\ plan' \in [Transactions -> Plans] /\ PlansKept
               /\ \A u \in Transactions \ {t} : plan'[u] = plan[u]
               /\ plan'[t].kind = "apply" => /\ cand[plan'[t].of].state = "reconciled"
                                             /\ cand[plan'[t].of].after = plan'[t].after
                                             /\ plan'[t].before \in target
    <2> DEFINE b == CHOOSE q \in target : TRUE
               a == history[cand[c].merged]
               p == [kind |-> "apply", of |-> c, before |-> b, after |-> a]
    <2>1. b \in target
      BY <1>3 DEF PlanCandidate
    <2>2. a = cand[c].after /\ cand[c].state = "reconciled"
      BY <1>3 DEF PlanCandidate, HoldsReviewed
    <2>3. a \in Policies /\ b \in Policies
      BY <1>1, <2>1, <2>2 DEF VettedInv, ControllerTypeOK, CandidateRows
    <2>4. plan' = [plan EXCEPT ![t] = p]
      BY <1>3 DEF PlanCandidate
    <2> HIDE DEF a, b
    <2>5. p \in Plans /\ p.of = c /\ p.before = b /\ p.after = a
      BY <2>3 DEF Plans
    <2> HIDE DEF p
    <2> QED BY <1>1, <2>1, <2>2, <2>4, <2>5 DEF PlansKept, Unplanned
  <1> QED BY <1>1, <1>2, <1>3

-----------------------------------------------------------------------------
(* What is installed was vetted.                                           *)

\* Statuses the phases of apply and restore record.
Recorded == Statuses \ {"none", "initialized_not_active"}

\* An installer at work: its transaction is planned.
LEMMA BusyFacts ==
  ASSUME VettedInv, NEW i \in Installers, inst[i].at # "idle"
  PROVE  /\ inst[i] \in [at : StepNames, tx : Transactions, old : BOOLEAN]
         /\ inst[i].tx \in Transactions
         /\ plan[inst[i].tx] \in Plans /\ plan[inst[i].tx].kind = "apply"
         /\ plan[inst[i].tx].of \in Candidates
         /\ plan[inst[i].tx].before \in Policies /\ plan[inst[i].tx].after \in Policies
  <1>1. inst[i] \in Steps
    BY DEF VettedInv, InstallerTypeOK
  <1>2. inst[i] \in [at : StepNames, tx : Transactions, old : BOOLEAN]
    BY <1>1, StepFacts
  <1>3. inst[i].tx \in Transactions
    BY <1>2
  <1>4. plan[inst[i].tx] \in Plans /\ plan[inst[i].tx].kind = "apply"
    BY <1>3 DEF VettedInv, InstallerTypeOK, Planned, At
  <1> QED BY <1>2, <1>3, <1>4, PlanFacts

\* Every step of an installer goes on or returns, and records nothing but a
\* phase of its own transaction.
LEMMA StepShape ==
  ASSUME VettedInv, NEW i \in Installers, InstallerStep(i) \/ CommandFails(i) \/ InstallerDies(i)
  PROVE  /\ inst[i].at # "idle"
         /\ (\E step \in StepNames : Goes(i, step)) \/ Returns(i)
         /\ UNCHANGED result \/ \E s \in Recorded : Records(inst[i].tx, s)
         /\ UNCHANGED <<history, known, pr, work, selected, plan>>
  <1> USE DEF At, StepNames, Recorded, Statuses, Forward, Restoring, controllerVars
  <1>1. CASE Check(i) \/ Stop(i) \/ RecordStopped(i) \/ Write(i)
    BY <1>1 DEF Check, Stop, RecordStopped, Write
  <1>2. CASE Own(i) \/ RecordInstalled(i) \/ CheckStarted(i) \/ Probe(i)
    BY <1>2 DEF Own, RecordInstalled, CheckStarted, Probe
  <1>3. CASE MarkApplied(i) \/ RecordApplied(i) \/ RecordPending(i)
    BY <1>3 DEF MarkApplied, RecordApplied, RecordPending
  <1>4. CASE RestoreReads(i)
    BY <1>4 DEF RestoreReads, RecordRecovery
  <1>5. CASE RestoreStops(i) \/ RestoreWrites(i) \/ RestoreStarts(i) \/ RestoreProbes(i)
    BY <1>5 DEF RestoreStops, RestoreWrites, RestoreStarts, RestoreProbes, RecordRecovery
  <1>6. CASE Settle(i) \/ RecordRolledBack(i)
    BY <1>6 DEF Settle, RecordRolledBack
  <1>7. CASE CommandFails(i) \/ InstallerDies(i)
    BY <1>7 DEF CommandFails, InstallerDies, RecordRecovery
  <1> QED BY <1>1, <1>2, <1>3, <1>4, <1>5, <1>6, <1>7 DEF InstallerStep

\* How the steps and results of installers change.
LEMMA StepInst ==
  ASSUME VettedInv, Next
  PROVE  /\ inst' \in [Installers -> Steps] /\ result' \in [Transactions -> Statuses]
         /\ Planned'
  <1> DEFINE Q == inst' \in [Installers -> Steps] /\ result' \in [Transactions -> Statuses] /\ Planned'
  <1>1. inst \in [Installers -> Steps] /\ result \in [Transactions -> Statuses] /\ InstallerTypeOK
    BY DEF VettedInv, InstallerTypeOK
  <1>2. PlansKept
    BY StepPlan, NewPlan DEF PlansKept
  <1>3. \A t \in Transactions : plan[t].kind = "apply" => plan'[t].kind = "apply"
    BY <1>2 DEF PlansKept, NoPlan
  <1>4. CASE UNCHANGED <<inst, result>>
    <2>1. \A i \in Installers : inst[i].at # "idle" => inst[i].tx \in Transactions
      BY BusyFacts
    <2> QED BY <1>1, <1>3, <1>4, <2>1 DEF VettedInv, Planned, At
  <1>5. ASSUME NEW t \in Transactions, Initialize(t) PROVE Q
    <2>1. plan[t].kind = "initialize" /\ UNCHANGED <<inst, plan>>
      BY <1>5 DEF Initialize
    <2>2. UNCHANGED result \/ Records(t, "initialized_not_active")
      BY <1>5 DEF Initialize, Records
    <2>3. "initialized_not_active" \in Statuses
      BY DEF Statuses
    <2>4. /\ result' \in [Transactions -> Statuses]
          /\ \A u \in Transactions : result'[u] \in {result[u], "initialized_not_active"}
      BY <1>1, <2>2, <2>3, RecordsFacts
    <2> QED BY <1>1, <2>1, <2>4 DEF VettedInv, Planned, At
  <1>6. ASSUME NEW t \in Transactions, NEW i \in Installers, Apply(i, t) \/ Rollback(i, t) PROVE Q
    <2>1. plan[t].kind = "apply" /\ UNCHANGED plan
      BY <1>6 DEF Apply, Rollback, Admits
    <2>2. \E step \in StepNames : Enters(i, t, step)
      BY <1>6 DEF Apply, Rollback, StepNames
    <2>3. /\ inst' \in [Installers -> Steps] /\ inst'[i].tx = t
          /\ \A j \in Installers \ {i} : inst'[j] = inst[j]
      BY <1>1, <2>2, EntersFacts
    <2>4. UNCHANGED result \/ \E s \in Statuses : Records(t, s)
      BY <1>6 DEF Apply, Rollback, Statuses, Forward, Restoring
    <2>5. result' \in [Transactions -> Statuses] /\ \A u \in Transactions \ {t} : result'[u] = result[u]
      BY <1>1, <2>4, RecordsFacts
    <2> QED BY <2>1, <2>3, <2>5 DEF VettedInv, Planned, At
  <1>7. ASSUME NEW i \in Installers, InstallerStep(i) \/ CommandFails(i) \/ InstallerDies(i) PROVE Q
    <2>1. UNCHANGED plan /\ inst[i].tx \in Transactions /\ plan[inst[i].tx].kind = "apply"
      BY <1>7, StepShape, BusyFacts
    <2>2. /\ inst' \in [Installers -> Steps]
          /\ inst'[i].at = "idle" \/ inst'[i].tx = inst[i].tx
          /\ \A j \in Installers \ {i} : inst'[j] = inst[j]
      BY <1>1, <1>7, StepShape, GoesFacts, ReturnsFacts
    <2>3. /\ result' \in [Transactions -> Statuses]
          /\ \A u \in Transactions \ {inst[i].tx} : result'[u] = result[u]
      BY <1>1, <1>7, <2>1, StepShape, RecordsFacts DEF Recorded
    <2> QED BY <2>1, <2>2, <2>3 DEF VettedInv, Planned, At
  <1>8. CASE Reboot
    <2>1. inst' = [i \in Installers |-> NoStep] /\ UNCHANGED <<plan, result>>
      BY <1>8 DEF Reboot
    <2>2. NoStep \in Steps /\ NoStep.at = "idle"
      BY DEF Steps, NoStep
    <2> QED BY <1>1, <2>1, <2>2 DEF VettedInv, Planned, At
  <1>9. ASSUME ~ UNCHANGED <<inst, result>>
        PROVE  \/ \E t \in Transactions : Initialize(t)
               \/ \E t \in Transactions, i \in Installers : Apply(i, t) \/ Rollback(i, t)
               \/ \E i \in Installers : InstallerStep(i) \/ CommandFails(i) \/ InstallerDies(i)
               \/ Reboot
    BY <1>9 DEF Next, PlanInitialize, PlanCandidate, Select, ServiceStarts, installerVars
  <1> QED BY <1>4, <1>5, <1>6, <1>7, <1>8, <1>9

\* The types of the rest.
LEMMA StepTypes ==
  ASSUME ControllerAssumption, InstallerAssumption, VettedInv, Next
  PROVE  ControllerTypeOK' /\ InstallerTypeOK'
  <1>1. ControllerTypeOK'
    <2>1. CASE ControllerNext
      BY <2>1, ControllerStep DEF VettedInv
    <2>2. CASE UNCHANGED controllerVars
      BY <2>2 DEF VettedInv, ControllerTypeOK, Revisions, controllerVars
    <2>3. CASE Reboot
      <3>1. work' \in [Workers -> Calls]
        BY <2>3 DEF Reboot, Calls
      <3> QED BY <2>3, <3>1 DEF Reboot, VettedInv, ControllerTypeOK, Revisions
    <2>4. ASSUME NEW i \in Installers, MarkApplied(i) \/ Settle(i) PROVE ControllerTypeOK'
      <3> DEFINE c == plan[inst[i].tx].of
      <3>1. c \in Candidates
        BY <2>4, BusyFacts DEF MarkApplied, Settle, At
      <3>2. cand \in [Candidates -> CandidateRows]
        BY DEF VettedInv, ControllerTypeOK
      <3> HIDE DEF c
      <3>3. UNCHANGED cand \/ \E from, to \in Stages : Moves(c, from, to)
        <4>1. cand[c].state \in Stages
          BY <3>1, <3>2 DEF CandidateRows
        <4>2. cand' = [cand EXCEPT ![c].state = "applied"] => Moves(c, cand[c].state, "applied")
          BY DEF Moves
        <4> QED BY <2>4, <4>1, <4>2 DEF MarkApplied, Settle, MarksRolledBack, Stages, c
      <3>4. cand' \in [Candidates -> CandidateRows]
        BY <3>1, <3>2, <3>3, MovesFacts DEF VettedInv
      <3>5. UNCHANGED <<history, known, pr, work>>
        BY <2>4 DEF MarkApplied, Settle
      <3> QED BY <3>4, <3>5 DEF VettedInv, ControllerTypeOK, Revisions
    <2>5. \/ ControllerNext \/ Reboot \/ UNCHANGED controllerVars
          \/ \E i \in Installers : MarkApplied(i) \/ Settle(i)
      BY DEF Next, PlanInitialize, Initialize, PlanCandidate, Apply, Rollback, Select, ServiceStarts,
             InstallerStep, Check, Stop, RecordStopped, Write, Own, RecordInstalled, CheckStarted,
             Probe, RecordApplied, RecordPending, RestoreReads, RestoreStops, RestoreWrites, RestoreStarts,
             RestoreProbes, RecordRolledBack, CommandFails, InstallerDies
    <2> QED BY <2>1, <2>2, <2>3, <2>4, <2>5
  <1>2. plan' \in [Transactions -> Plans]
    BY StepPlan, NewPlan DEF VettedInv, InstallerTypeOK
  <1>3. target' \subseteq Policies /\ Cardinality(target') <= 1
    <2>1. CASE UNCHANGED target
      BY <2>1 DEF VettedInv, InstallerTypeOK
    <2>2. CASE target' # target
      <3>1. \E p \in Policies : target' = {p}
        <4>1. ASSUME NEW t \in Transactions, Initialize(t) PROVE \E p \in Policies : target' = {p}
          BY <4>1, PlanFacts DEF Initialize, After, VettedInv, InstallerTypeOK
        <4>2. ASSUME NEW i \in Installers, Write(i) \/ RestoreWrites(i)
              PROVE  \E p \in Policies : target' = {p}
          BY <4>2, BusyFacts DEF Write, RestoreWrites, At, Before, After
        <4> QED BY <2>2, <4>1, <4>2, StepTarget
      <3>2. PICK p \in Policies : target' = {p}
        BY <3>1
      <3>3. Cardinality({p}) = 1
        BY FS_Singleton
      <3> QED BY <3>2, <3>3
    <2> QED BY <2>1, <2>2
  <1>4. writer' \subseteq Transactions
    <2>1. writer' = writer \/ \E i \in Installers : Write(i) \/ RestoreWrites(i)
      BY DEF Next, PlanInitialize, Initialize, PlanCandidate, Apply, Rollback, Select, ServiceStarts,
             installerVars, InstallerStep, Check, Stop, RecordStopped, Own, RecordInstalled, CheckStarted,
             Probe, MarkApplied, RecordApplied, RecordPending, RestoreReads, RestoreStops,
             RestoreStarts, RestoreProbes, Settle, RecordRolledBack, CommandFails, InstallerDies, Reboot
    <2>2. ASSUME NEW i \in Installers, Write(i) \/ RestoreWrites(i) PROVE writer' \subseteq Transactions
      BY <2>2, BusyFacts DEF Write, RestoreWrites, At
    <2> QED BY <2>1, <2>2 DEF VettedInv, InstallerTypeOK
  <1>5. faults' \in 0..MaxFaults
    <2>1. UNCHANGED faults \/ Fault
      BY DEF Next, PlanInitialize, Initialize, PlanCandidate, Apply, Rollback, Select, ServiceStarts,
             installerVars, InstallerStep, Check, Stop, RecordStopped, Write, Own, RecordInstalled,
             CheckStarted, Probe, MarkApplied, RecordApplied, RecordPending, RestoreReads,
             RestoreStops, RestoreWrites, RestoreStarts, RestoreProbes, Settle, RecordRolledBack,
             CommandFails, InstallerDies, Reboot
    <2> QED BY <2>1 DEF Fault, VettedInv, InstallerTypeOK, InstallerAssumption
  <1>6. loaded' \subseteq Policies
    <2>1. loaded' \in {loaded, target, {}}
      BY DEF Next, PlanInitialize, Initialize, PlanCandidate, Apply, Rollback, Select, ServiceStarts,
             StartsWith, Stops, installerVars, InstallerStep, Check, Stop, RecordStopped, Write, Own,
             RecordInstalled, CheckStarted, Probe, MarkApplied, RecordApplied, RecordPending,
             RestoreReads, RestoreStops, RestoreWrites, RestoreStarts, RestoreProbes, Settle,
             RecordRolledBack, CommandFails, InstallerDies, Reboot
    <2> QED BY <2>1 DEF VettedInv, InstallerTypeOK
  <1>7. owned' \in BOOLEAN /\ selected' \in BOOLEAN /\ up' \in BOOLEAN
    <2>1. owned' \in {owned, TRUE, FALSE} /\ selected' \in {selected, TRUE}
      BY DEF Next, PlanInitialize, Initialize, PlanCandidate, Apply, Rollback, Select, ServiceStarts,
             installerVars, InstallerStep, Check, Stop, RecordStopped, Write, Own, RecordInstalled,
             CheckStarted, Probe, MarkApplied, RecordApplied, RecordPending, RestoreReads,
             RestoreStops, RestoreWrites, RestoreStarts, RestoreProbes, Settle, RecordRolledBack,
             CommandFails, InstallerDies, Reboot
    <2>2. up' \in {up, TRUE, FALSE, owned \/ ~selected}
      BY DEF Next, PlanInitialize, Initialize, PlanCandidate, Apply, Rollback, Select, ServiceStarts,
             StartsWith, Stops, installerVars, InstallerStep, Check, Stop, RecordStopped, Write, Own, RecordInstalled,
             CheckStarted, Probe, MarkApplied, RecordApplied, RecordPending, RestoreReads,
             RestoreStops, RestoreWrites, RestoreStarts, RestoreProbes, Settle,
             RecordRolledBack, CommandFails, InstallerDies, Reboot
    <2> QED BY <2>1, <2>2 DEF VettedInv, InstallerTypeOK
  <1> QED BY <1>1, <1>2, <1>3, <1>4, <1>5, <1>6, <1>7, StepInst DEF InstallerTypeOK

\* Every step keeps the invariant.
LEMMA VettedStep ==
  ASSUME ControllerAssumption, InstallerAssumption, VettedInv, [Next]_vars
  PROVE  VettedInv'
  <1>1. CASE UNCHANGED vars
    <2>1. ControllerTypeOK' /\ InstallerTypeOK'
      BY <1>1 DEF vars, controllerVars, installerVars, VettedInv, ControllerTypeOK, Revisions, InstallerTypeOK
    <2>2. (\A t \in Transactions : PlanOK(t))' /\ Planned' /\ InstalledIsVetted'
      BY <1>1 DEF vars, controllerVars, installerVars, VettedInv, PlanOK, Planned, InstalledIsVetted,
                  Vetted, At
    <2> QED BY <2>1, <2>2 DEF VettedInv
  <1>2. CASE Next
    <2>1. \A c \in Candidates : CandMoved(c) \/ CandKept(c)
      BY <1>2, StepCand
    <2>2. PlansKept
      BY <1>2, StepPlan, NewPlan DEF PlansKept
    <2>3. \A p : Vetted(p) => Vetted(p)'
      BY <2>1, <2>2, VettedStays DEF VettedInv
    <2>4. ASSUME NEW t \in Transactions, plan'[t].kind = "apply"
          PROVE  /\ cand'[plan'[t].of].state \in Merged
                 /\ cand'[plan'[t].of].after = plan'[t].after
                 /\ \E p : p = plan'[t].before /\ Vetted(p)'
      <3>1. CASE plan'[t] = plan[t]
        <4>1. plan[t].of \in Candidates
          BY <2>4, <3>1, PlanFacts DEF VettedInv, InstallerTypeOK
        <4>2. /\ cand[plan[t].of].state \in Merged /\ cand[plan[t].of].after = plan[t].after
              /\ Vetted(plan[t].before)
          BY <2>4, <3>1 DEF VettedInv, PlanOK
        <4>3. PICK p : p = plan[t].before
          OBVIOUS
        <4>4. Vetted(p)'
          BY <2>3, <4>2, <4>3
        <4> QED BY <2>1, <3>1, <4>1, <4>2, <4>3, <4>4 DEF CandMoved, CandKept
      <3>2. CASE plan'[t] # plan[t]
        <4>1. PlanInitialize(t) \/ \E c \in Candidates : PlanCandidate(t, c)
          BY <1>2, <3>2, StepPlan, NewPlan
        <4>2. /\ UNCHANGED cand /\ cand[plan'[t].of].state = "reconciled"
              /\ cand[plan'[t].of].after = plan'[t].after /\ plan'[t].before \in target
          BY <2>4, <4>1, NewPlan DEF PlanInitialize, PlanCandidate, controllerVars
        <4>3. PICK p : p = plan'[t].before
          OBVIOUS
        <4>4. Vetted(p)'
          BY <2>3, <4>2, <4>3 DEF VettedInv, InstalledIsVetted
        <4> QED BY <4>2, <4>3, <4>4 DEF Merged
      <3> QED BY <3>1, <3>2
    <2>5. (\A t \in Transactions : PlanOK(t))'
      BY <2>4 DEF PlanOK, Vetted
    <2>6. InstalledIsVetted'
      <3>1. CASE UNCHANGED target
        BY <2>3, <3>1 DEF VettedInv, InstalledIsVetted, Vetted
      <3>2. ASSUME NEW t \in Transactions, Initialize(t) PROVE InstalledIsVetted'
        <4>1. target' = {plan[t].after} /\ plan[t].kind = "initialize" /\ UNCHANGED plan
          BY <3>2 DEF Initialize, After
        <4> QED BY <4>1 DEF InstalledIsVetted, Vetted
      <3>3. ASSUME NEW i \in Installers, Write(i) \/ RestoreWrites(i) PROVE InstalledIsVetted'
        <4> DEFINE t == inst[i].tx
        <4>1. t \in Transactions /\ plan[t].kind = "apply"
          BY <3>3, BusyFacts DEF Write, RestoreWrites, At
        <4>2. target' \in {{plan[t].before}, {plan[t].after}}
          BY <3>3 DEF Write, RestoreWrites, Before, After
        <4> HIDE DEF t
        <4>3. Vetted(plan[t].before) /\ Vetted(plan[t].after)
          BY <4>1 DEF VettedInv, PlanOK, Vetted, Merged
        <4> QED BY <2>3, <4>2, <4>3 DEF InstalledIsVetted, Vetted
      <3> QED BY <1>2, <3>1, <3>2, <3>3, StepTarget
    <2> QED BY <1>2, <2>5, <2>6, StepTypes, StepInst DEF VettedInv
  <1> QED BY <1>1, <1>2

\* It holds at first.
LEMMA VettedInit == ASSUME ControllerAssumption, InstallerAssumption, Init PROVE VettedInv
  <1>1. ControllerTypeOK
    <2>1. [state |-> "none", before |-> {}, after |-> {}, merged |-> 0] \in CandidateRows
      BY DEF CandidateRows, Stages, Policies
    <2>2. cand \in [Candidates -> CandidateRows]
      BY <2>1 DEF Init, ControllerInit
    <2>3. history \in Seq(Policies) /\ Len(history) = 1 /\ known = 1
      BY DEF Init, ControllerInit, Policies
    <2>4. pr \in [Candidates -> {-1} \cup Nat] /\ work \in [Workers -> Calls]
      BY DEF Init, ControllerInit, Calls
    <2> QED BY <2>2, <2>3, <2>4 DEF ControllerTypeOK, Revisions, ControllerAssumption
  <1>2. NoStep \in Steps /\ NoStep.at = "idle" /\ NoPlan \in Plans /\ NoPlan.kind = "none"
    BY DEF Steps, NoStep, Plans, NoPlan
  <1>3. owned \in BOOLEAN /\ selected \in BOOLEAN /\ up \in BOOLEAN
    BY Zenon DEF Init
  <1>4. /\ inst \in [Installers -> Steps] /\ plan \in [Transactions -> Plans]
        /\ result \in [Transactions -> Statuses]
    BY <1>2 DEF Init, Statuses
  <1>5. target = {} /\ Cardinality(target) = 0 /\ loaded = {} /\ faults = 0 /\ writer = {}
    BY FS_EmptySet DEF Init
  <1>6. InstallerTypeOK
    BY <1>3, <1>4, <1>5 DEF InstallerTypeOK, InstallerAssumption
  <1>7. (\A t \in Transactions : PlanOK(t)) /\ Planned /\ InstalledIsVetted
    BY <1>2 DEF Init, PlanOK, Planned, InstalledIsVetted, At
  <1> QED BY <1>1, <1>6, <1>7 DEF VettedInv

\* Plans and the installed policy stay vetted, for any number of installers.
LEMMA VettedInvariance == Spec => []VettedInv
  <1>1. Init => VettedInv
    BY VettedInit, ControllerAssumption, InstallerAssumption
  <1>2. VettedInv /\ [Next]_vars => VettedInv'
    BY VettedStep, ControllerAssumption, InstallerAssumption
  <1> QED BY <1>1, <1>2, PTL DEF Spec

\* The tables and files of the controller and the installer have the shapes
\* the code writes.
THEOREM TypeCorrect == Spec => [](ControllerTypeOK /\ InstallerTypeOK)
  <1>1. VettedInv => ControllerTypeOK /\ InstallerTypeOK
    BY DEF VettedInv
  <1> QED BY <1>1, VettedInvariance, PTL

\* Whatever workers, reviewers and installers do at once, crash and repeat,
\* and however many there are, the managed file holds a policy that was
\* evaluated and merged as it is, or the published one it was initialised
\* with (reconcile, plan_candidate, apply, _restore_preimage).
THEOREM OnlyVettedPolicies == Spec => []InstalledIsVetted
  <1>1. VettedInv => InstalledIsVetted
    BY DEF VettedInv
  <1> QED BY <1>1, VettedInvariance, PTL

-----------------------------------------------------------------------------
(* One installer at a time.                                                *)

Open == Forward \cup Restoring

\* Nothing an installer or its record depends on changes.
LEMMA AloneFrame ==
  ASSUME VettedInv, AloneInv,
         UNCHANGED <<target, owned, selected, result, inst, writer>>,
         UNCHANGED <<up, loaded>> \/ (up' /\ (selected => loaded' = target)),
         \A t \in Transactions : plan[t].kind = "apply" =>
            plan'[t] = plan[t] /\ cand'[plan[t].of] = cand[plan[t].of]
  PROVE  AloneInv'
  <1>1. \A t \in Transactions : result[t] \notin {"none", "initialized_not_active"} =>
          plan[t].kind = "apply" /\ plan'[t] = plan[t] /\ cand'[plan[t].of] = cand[plan[t].of]
    BY DEF VettedInv, Planned
  <1>2. \A i \in Installers : OnTask(i)'
    <2>1. TAKE i \in Installers
    <2>2. CASE inst[i].at = "idle"
      BY <2>2 DEF OnTask
    <2>3. CASE inst[i].at # "idle"
      <3>1. inst[i].tx \in Transactions /\ plan[inst[i].tx].kind = "apply"
        BY <2>3, BusyFacts
      <3>2. plan'[inst[i].tx] = plan[inst[i].tx]
            /\ cand'[plan[inst[i].tx].of] = cand[plan[inst[i].tx].of]
        BY <3>1
      <3>3. OnTask(i)
        BY DEF AloneInv
      <3> QED BY <3>2, <3>3 DEF OnTask, Settled, Before, After
    <2> QED BY <2>2, <2>3
  <1>3. writer \subseteq Transactions
    BY DEF VettedInv, InstallerTypeOK
  <1>4. LastWriter'
    BY <1>1, <1>3 DEF AloneInv, LastWriter, Before, After
  <1>5. Agree'
    <2>1. NoEmptyPlan' => NoEmptyPlan
      BY DEF NoEmptyPlan, EmptyPlan, Before, After
    <2>2. \A t \in writer : Agrees(t) => Agrees(t)'
      BY <1>1, <1>3 DEF Agrees, Before, After
    <2> QED BY <2>1, <2>2 DEF AloneInv, Agree
  <1>6. DownIsAccounted'
    <2>1. SUFFICES ASSUME InstallersIdle', ~up', owned'
                   PROVE  (\E t \in Transactions : ~Settled(t) /\ Admits(t))'
      BY DEF DownIsAccounted
    <2>2. PICK t \in Transactions : ~Settled(t) /\ Admits(t)
      BY <2>1 DEF AloneInv, DownIsAccounted, InstallersIdle, At
    <2>3. plan'[t] = plan[t]
      BY <1>1, <2>2 DEF Settled, Forward, Restoring
    <2> QED BY <2>2, <2>3 DEF Settled, Admits, Before, After
  <1>7. Unselected' /\ AtMostOneBehind'
    <2>1. \A t \in writer : plan'[t] = plan[t]
      BY <1>1, <1>3 DEF AloneInv, LastWriter
    <2> QED BY <2>1 DEF AloneInv, Unselected, AtMostOneBehind, Before, After
  <1> QED BY <1>2, <1>4, <1>5, <1>6, <1>7 DEF AloneInv

\* A step of an installer that leaves the file and the candidates alone and
\* its own transaction open.
QuietStep(i) ==
    /\ UNCHANGED <<selected, plan, target, writer, cand>>
    /\ UNCHANGED <<up, loaded>> \/ ~up'
    /\ UNCHANGED result \/ \E s \in Open : Records(inst[i].tx, s)

Continues(i, step) ==
    /\ Goes(i, step)
    /\ step \in NewSteps => target = After(inst[i].tx)
    /\ step \in OldSteps => target = Before(inst[i].tx)
    /\ step \in UpSteps => up'
    /\ step \in FreshSteps => ~up' \/ inst[i].at \in FreshSteps
    /\ step \notin {"check", "record", "settled"}

\* What the transaction at work satisfies, and the last writer.
LEMMA QuietFacts ==
  ASSUME VettedInv, AloneInv, NEW i \in Installers, inst[i].at # "idle", QuietStep(i)
  PROVE  /\ selected' /\ result'[inst[i].tx] \in Open
         /\ target \in {Before(inst[i].tx), After(inst[i].tx)}
         /\ Unselected' /\ LastWriter' /\ Agree' /\ DownIsAccounted' /\ AtMostOneBehind'
  <1> DEFINE t == inst[i].tx
  <1>1. t \in Transactions /\ plan[t].kind = "apply"
    BY BusyFacts
  <1>2. selected /\ result[t] \in Open /\ target \in {Before(t), After(t)}
    BY DEF AloneInv, OnTask, Settled, Open
  <1>3. /\ result'[t] \in Open
        /\ \A u \in Transactions \ {t} : result'[u] = result[u]
    BY <1>1, <1>2, RecordsFacts DEF QuietStep, VettedInv, Open, Statuses
  <1> HIDE DEF t
  <1>4. writer \subseteq Transactions
    BY DEF VettedInv, InstallerTypeOK
  <1>5. {"none", "initialized_not_active", "applied", "rolled_back"} \cap Open = {}
    BY DEF Open, Forward, Restoring
  <1>6. Unselected' /\ LastWriter'
    BY <1>2, <1>3, <1>4, <1>5 DEF QuietStep, AloneInv, Unselected, LastWriter, Before, After
  <1>7. Agree'
    <2>1. NoEmptyPlan' => NoEmptyPlan
      BY DEF QuietStep, NoEmptyPlan, EmptyPlan, Before, After
    <2>2. \A u \in writer : Agrees(u) => Agrees(u)'
      BY <1>3, <1>4, <1>5 DEF QuietStep, Agrees, Before, After
    <2> QED BY <2>1, <2>2 DEF AloneInv, Agree, QuietStep
  <1>8. DownIsAccounted'
    BY <1>1, <1>2, <1>3 DEF DownIsAccounted, Admits, Settled, Open, QuietStep, Before, After
  <1>9. AtMostOneBehind'
    BY DEF QuietStep, AloneInv, AtMostOneBehind, Before, After
  <1> QED BY <1>2, <1>3, <1>6, <1>7, <1>8, <1>9 DEF QuietStep, t

\* A step that writes neither policy nor result keeps the lone installer's
\* invariant.
LEMMA QuietInv ==
  ASSUME VettedInv, Alone, AloneInv, NEW i \in Installers, inst[i].at # "idle", QuietStep(i),
         (\E step \in StepNames : Continues(i, step)) \/ Returns(i)
  PROVE  AloneInv'
  <1> DEFINE t == inst[i].tx
  <1>1. \A j \in Installers : j = i
    BY DEF Alone
  <1>2. InstallerTypeOK /\ OnTask(i) /\ selected /\ t \in Transactions
    BY BusyFacts DEF VettedInv, AloneInv, OnTask
  <1>3. CASE \E step \in StepNames : Continues(i, step)
    <2>1. PICK step \in StepNames : Continues(i, step)
      BY <1>3
    <2>2. inst'[i].at = step /\ inst'[i].tx = t
      BY <1>2, <2>1, GoesFacts DEF Continues
    <2>3. step # "idle"
      BY DEF StepNames
    <2>4. OnTask(i)'
      BY <1>2, <2>1, <2>2, <2>3, QuietFacts DEF Continues, OnTask, Settled, Open, QuietStep, Before, After
    <2> QED BY <1>1, <2>4, QuietFacts DEF AloneInv
  <1>4. CASE Returns(i)
    <2>1. inst'[i].at = "idle"
      BY <1>2, <1>4, ReturnsFacts
    <2>2. OnTask(i)'
      BY <2>1 DEF OnTask
    <2> QED BY <1>1, <2>2, QuietFacts DEF AloneInv
  <1> QED BY <1>3, <1>4

\* The steps of apply that leave the file alone.
LEMMA ForwardInv ==
  ASSUME VettedInv, Alone, AloneInv, NEW i \in Installers,
         \/ Check(i) \/ Stop(i) \/ RecordStopped(i) \/ Own(i) \/ RecordInstalled(i)
         \/ CheckStarted(i) \/ Probe(i) \/ RecordPending(i)
  PROVE  AloneInv'
  <1> USE DEF At, QuietStep, Continues, NewSteps, OldSteps, UpSteps, FreshSteps, StepNames,
              Open, Forward, Restoring, controllerVars
  <1>1. OnTask(i)
    BY DEF AloneInv
  <1>2. inst[i].at # "idle" /\ QuietStep(i)
    <2>1. CASE Check(i) \/ Stop(i) \/ RecordStopped(i)
      BY <2>1 DEF Check, Stop, Stops, RecordStopped
    <2>2. CASE Own(i) \/ RecordInstalled(i) \/ CheckStarted(i)
      BY <2>2 DEF Own, RecordInstalled, CheckStarted
    <2>3. CASE Probe(i) \/ RecordPending(i)
      BY <2>3 DEF Probe, RecordPending
    <2> QED BY <2>1, <2>2, <2>3
  <1>3. \E step \in StepNames : Continues(i, step)
    <2>1. CASE Check(i)
      <3>1. ~inst[i].old => target = After(inst[i].tx)
        BY <1>1, <2>1 DEF Check, OnTask
      <3>2. \/ ~inst[i].old /\ Goes(i, "start")
            \/ Goes(i, "stop") \/ Goes(i, "failed")
        BY <2>1 DEF Check
      <3> QED BY <3>1, <3>2
    <2>2. CASE Stop(i) \/ RecordStopped(i)
      BY <2>2 DEF Stop, Stops, RecordStopped
    <2>3. CASE Own(i)
      BY <1>1, <2>3 DEF Own, OnTask
    <2>4. CASE RecordInstalled(i)
      BY <1>1, <2>4 DEF RecordInstalled, OnTask
    <2>5. CASE CheckStarted(i)
      BY <1>1, <2>5 DEF CheckStarted, ActiveAnswers, OnTask
    <2>6. CASE Probe(i)
      BY <1>1, <2>6 DEF Probe, OnTask
    <2>7. CASE RecordPending(i)
      BY <2>7 DEF RecordPending
    <2> QED BY <2>1, <2>2, <2>3, <2>4, <2>5, <2>6, <2>7
  <1> QED BY <1>2, <1>3, QuietInv

\* The steps of a restore that leave the file alone.
LEMMA RestoreInv ==
  ASSUME VettedInv, Alone, AloneInv, NEW i \in Installers,
         RestoreReads(i) \/ RestoreStops(i) \/ RestoreStarts(i) \/ RestoreProbes(i)
  PROVE  AloneInv'
  <1> USE DEF At, QuietStep, Continues, NewSteps, OldSteps, UpSteps, FreshSteps, StepNames,
              Open, Forward, Restoring, controllerVars, RecordRecovery, ActiveAnswers
  <1>1. OnTask(i)
    BY DEF AloneInv
  <1>2. inst[i].at # "idle" /\ QuietStep(i)
    BY DEF RestoreReads, RestoreStops, Stops, RestoreStarts, RestoreProbes
  <1>3. (\E step \in StepNames : Continues(i, step)) \/ Returns(i)
    <2>1. CASE RestoreReads(i)
      <3>1. \/ target = Before(inst[i].tx) /\ Goes(i, "restart")
            \/ Goes(i, "unload") \/ Returns(i)
        BY <2>1 DEF RestoreReads
      <3> QED BY <3>1
    <2>2. CASE RestoreStops(i)
      BY <2>2 DEF RestoreStops, Stops
    <2>3. CASE RestoreStarts(i)
      BY <1>1, <2>3 DEF RestoreStarts, OnTask
    <2>4. CASE RestoreProbes(i)
      BY <1>1, <2>4 DEF RestoreProbes, OnTask
    <2> QED BY <2>1, <2>2, <2>3, <2>4
  <1> QED BY <1>2, <1>3, QuietInv

\* Failed commands and dead installers.
LEMMA FaultInv ==
  ASSUME VettedInv, Alone, AloneInv, NEW i \in Installers, CommandFails(i) \/ InstallerDies(i)
  PROVE  AloneInv'
  <1> USE DEF At, QuietStep, Continues, NewSteps, OldSteps, UpSteps, FreshSteps, StepNames,
              Open, Forward, Restoring, controllerVars, RecordRecovery
  <1>1. inst[i].at # "idle" /\ QuietStep(i)
    BY DEF CommandFails, Stops, InstallerDies
  <1>2. Goes(i, "failed") \/ Returns(i)
    BY DEF CommandFails, InstallerDies
  <1> QED BY <1>1, <1>2, QuietInv

\* The two writes: the transaction at work becomes the last writer.
LEMMA WriteInv ==
  ASSUME VettedInv, Alone, AloneInv, NEW i \in Installers, Write(i) \/ RestoreWrites(i)
  PROVE  AloneInv'
  <1> DEFINE t == inst[i].tx
  <1>1. /\ OnTask(i) /\ InstallerTypeOK /\ inst[i].at # "idle" /\ t \in Transactions
        /\ \A j \in Installers : j = i
    BY BusyFacts DEF AloneInv, Alone, VettedInv, Write, RestoreWrites, At
  <1>2. selected /\ result[t] \in Open
    BY <1>1 DEF OnTask, Settled, Open
  <1>3. /\ UNCHANGED <<selected, plan, result, cand, up, loaded>> /\ writer' = {t}
        /\ \/ target' = After(t) /\ Goes(i, "own")
           \/ target' = Before(t) /\ Goes(i, "reown")
    BY DEF Write, RestoreWrites, controllerVars
  <1>4. /\ inst'[i].tx = t
        /\ \/ target' = After(t) /\ inst'[i].at = "own"
           \/ target' = Before(t) /\ inst'[i].at = "reown"
    BY <1>1, <1>3, GoesFacts DEF StepNames
  <1> HIDE DEF t
  <1>5. OnTask(i)'
    BY <1>2, <1>3, <1>4 DEF OnTask, Settled, Open, Before, After, NewSteps, OldSteps, UpSteps, FreshSteps
  <1>6. Unselected' /\ LastWriter' /\ Agree'
    BY <1>2, <1>3, <1>4 DEF Unselected, LastWriter, Agree, Agrees, Before, After, Open, Forward, Restoring
  <1>7. ~InstallersIdle'
    BY <1>4 DEF InstallersIdle, At
  <1>8. up => loaded = target /\ target \in {Before(t), After(t)}
    BY <1>1 DEF OnTask, FreshSteps, Write, RestoreWrites, At, t
  <1>9. AtMostOneBehind'
    BY <1>3, <1>8 DEF AtMostOneBehind, Before, After
  <1> QED BY <1>1, <1>5, <1>6, <1>7, <1>9 DEF AloneInv, DownIsAccounted

\* Two plans of one candidate write the same policy.
LEMMA SameAfter ==
  ASSUME VettedInv, NEW t \in Transactions, NEW u \in Transactions,
         plan[t].kind = "apply", plan[u].kind = "apply", plan[t].of = plan[u].of
  PROVE  After(t) = After(u)
  BY DEF VettedInv, PlanOK, After

\* The candidate is marked while its policy is in place, and unmarked while
\* the preimage is: with no empty plan, the last writer cannot disagree.
LEMMA MarkInv ==
  ASSUME VettedInv, Alone, AloneInv, NEW i \in Installers, MarkApplied(i) \/ Settle(i)
  PROVE  AloneInv'
  <1> DEFINE t == inst[i].tx
             c == plan[t].of
  <1>1. /\ OnTask(i) /\ InstallerTypeOK /\ inst[i].at # "idle" /\ t \in Transactions
        /\ plan[t].kind = "apply" /\ c \in Candidates /\ \A j \in Installers : j = i
    BY BusyFacts DEF AloneInv, Alone, VettedInv, MarkApplied, Settle, At
  <1>2. selected /\ result[t] \in Open /\ up
    BY <1>1 DEF OnTask, Settled, Open, MarkApplied, Settle, At, UpSteps
  <1>3. UNCHANGED <<target, owned, selected, up, loaded, plan, result, writer>>
    BY DEF MarkApplied, Settle
  <1>4. cand \in [Candidates -> CandidateRows] /\ ControllerTypeOK
    BY DEF VettedInv, ControllerTypeOK
  <1>5. CASE inst[i].at = "healthy" /\ Returns(i) /\ UNCHANGED cand
    <2>1. QuietStep(i)
      BY <1>3, <1>5 DEF QuietStep
    <2> QED BY <1>1, <1>5, <2>1, QuietInv
  <1>6. ASSUME \/ /\ inst[i].at = "healthy" /\ Goes(i, "record")
                  /\ cand' = [cand EXCEPT ![c].state = "applied"]
               \/ /\ inst[i].at = "settle" /\ Goes(i, "settled")
                  /\ Moves(c, "applied", "rolled_back")
        PROVE  AloneInv'
    <2>1. inst'[i].tx = t /\ inst'[i].at \in {"record", "settled"}
          /\ (inst'[i].at = "record" <=> inst[i].at = "healthy")
      BY <1>1, <1>6, GoesFacts DEF StepNames
    <2>2. /\ \A d \in Candidates \ {c} : cand'[d] = cand[d]
          /\ inst[i].at = "healthy" => cand'[c].state = "applied"
          /\ inst[i].at = "settle" => cand'[c].state # "applied"
      <3>1. "applied" \in Stages /\ "rolled_back" \in Stages
        BY DEF Stages
      <3>2. CASE inst[i].at = "healthy"
        <4>1. Moves(c, cand[c].state, "applied")
          BY <1>6, <3>2 DEF Moves
        <4> QED BY <1>1, <1>4, <3>1, <3>2, <4>1, MovesFacts
      <3>3. CASE inst[i].at = "settle"
        BY <1>1, <1>4, <1>6, <3>1, <3>3, MovesFacts
      <3> QED BY <1>6, <3>2, <3>3
    <2>3. /\ inst[i].at = "healthy" => target = After(t)
          /\ inst[i].at = "settle" => target = Before(t)
      BY <1>1 DEF OnTask, NewSteps, OldSteps
    <2> HIDE DEF t, c
    <2>4. OnTask(i)'
      <3>1. plan'[t].of = c
        BY <1>3 DEF c
      <3> QED BY <1>2, <1>3, <1>6, <2>1, <2>2, <2>3, <3>1
              DEF OnTask, Settled, Open, Before, After, NewSteps, OldSteps, UpSteps, FreshSteps
    <2>5. Agree'
      <3>1. SUFFICES ASSUME NoEmptyPlan', NEW u \in writer PROVE Agrees(u)'
        BY <1>3 DEF Agree
      <3>2. NoEmptyPlan /\ Agrees(u)
        BY <1>3, <3>1 DEF NoEmptyPlan, EmptyPlan, Before, After, AloneInv, Agree
      <3>3. u \in Transactions /\ plan[u].kind = "apply" /\ plan[u].of \in Candidates
        <4>1. u \in Transactions
          BY DEF VettedInv, InstallerTypeOK
        <4>2. plan[u].kind = "apply"
          BY <4>1 DEF AloneInv, LastWriter, VettedInv, Planned
        <4> QED BY <4>1, <4>2, PlanFacts DEF VettedInv, InstallerTypeOK
      <3>4. CASE plan[u].of # c
        BY <1>3, <2>2, <3>2, <3>3, <3>4 DEF Agrees, Before, After
      <3>5. CASE plan[u].of = c
        <4>1. After(u) = After(t)
          BY <1>1, <3>3, <3>5, SameAfter DEF c
        <4>2. Before(u) # After(u) /\ Before(t) # After(t)
          BY <1>1, <3>2, <3>3 DEF NoEmptyPlan, EmptyPlan
        <4>3. CASE inst[i].at = "healthy"
          <5>1. result[u] # "rolled_back"
            BY <2>3, <3>2, <4>1, <4>2, <4>3 DEF Agrees
          <5> QED BY <1>3, <2>2, <3>2, <3>5, <4>3, <5>1 DEF Agrees, Before, After
        <4>4. CASE inst[i].at = "settle"
          <5>1. result[u] # "applied"
            BY <2>3, <3>2, <4>1, <4>2, <4>4 DEF Agrees
          <5> QED BY <1>3, <2>2, <3>2, <3>5, <4>4, <5>1 DEF Agrees, Before, After
        <4> QED BY <1>6, <4>3, <4>4
      <3> QED BY <3>4, <3>5
    <2>6. Unselected' /\ LastWriter'
      BY <1>3 DEF AloneInv, Unselected, LastWriter, Before, After
    <2>7. AtMostOneBehind'
      BY <1>3 DEF AloneInv, AtMostOneBehind, Before, After
    <2>8. DownIsAccounted'
      BY <1>2, <1>3 DEF DownIsAccounted
    <2> QED BY <1>1, <2>4, <2>5, <2>6, <2>7, <2>8 DEF AloneInv
  <1> QED BY <1>5, <1>6 DEF MarkApplied, Settle, At, MarksRolledBack

\* The two records that settle a transaction.
LEMMA SettleInv ==
  ASSUME VettedInv, Alone, AloneInv, NEW i \in Installers, RecordApplied(i) \/ RecordRolledBack(i)
  PROVE  AloneInv'
  <1> DEFINE t == inst[i].tx
  <1>1. /\ OnTask(i) /\ InstallerTypeOK /\ inst[i].at # "idle" /\ t \in Transactions
        /\ \A j \in Installers : j = i
    BY BusyFacts DEF AloneInv, Alone, VettedInv, RecordApplied, RecordRolledBack, At
  <1>2. UNCHANGED <<cand, target, owned, selected, up, loaded, plan, writer>> /\ Returns(i)
    BY DEF RecordApplied, RecordRolledBack, controllerVars
  <1>3. \/ /\ Records(t, "applied") /\ inst[i].at = "record"
        \/ /\ Records(t, "rolled_back") /\ inst[i].at = "settled"
    BY DEF RecordApplied, RecordRolledBack, At
  <1>4. \/ result'[t] = "applied" /\ inst[i].at = "record"
        \/ result'[t] = "rolled_back" /\ inst[i].at = "settled"
    BY <1>1, <1>3, RecordsFacts DEF Statuses
  <1>5. \A u \in Transactions \ {t} : result'[u] = result[u]
    BY <1>1, <1>3, RecordsFacts DEF Statuses
  <1>6. up /\ selected /\ inst'[i].at = "idle"
    BY <1>1, <1>2, <1>3, ReturnsFacts DEF OnTask, UpSteps
  <1>7. /\ inst[i].at = "record" => target = After(t) /\ cand[plan[t].of].state = "applied"
        /\ inst[i].at = "settled" => target = Before(t) /\ cand[plan[t].of].state # "applied"
    BY <1>1 DEF OnTask, NewSteps, OldSteps
  <1>8. writer \subseteq Transactions
    BY DEF VettedInv, InstallerTypeOK
  <1> HIDE DEF t
  <1>9. Unselected' /\ LastWriter'
    BY <1>2, <1>4, <1>5, <1>6, <1>8 DEF AloneInv, Unselected, LastWriter, Before, After
  <1>10. Agree'
    <2>1. NoEmptyPlan' => NoEmptyPlan
      BY <1>2 DEF NoEmptyPlan, EmptyPlan, Before, After
    <2>2. \A u \in writer : Agrees(u) => Agrees(u)'
      <3>1. TAKE u \in writer
      <3>2. CASE u = t
        BY <1>2, <1>4, <1>7, <3>2 DEF Agrees, Before, After
      <3>3. CASE u # t
        BY <1>2, <1>5, <1>8, <3>3 DEF Agrees, Before, After
      <3> QED BY <3>2, <3>3
    <2> QED BY <1>2, <2>1, <2>2 DEF AloneInv, Agree
  <1>11. OnTask(i)' /\ AtMostOneBehind'
    BY <1>2, <1>6 DEF OnTask, AloneInv, AtMostOneBehind, Before, After
  <1>12. DownIsAccounted'
    BY <1>2, <1>6 DEF DownIsAccounted
  <1> QED BY <1>1, <1>9, <1>10, <1>11, <1>12 DEF AloneInv

\* Before the file is selected, and when it is.
LEMMA SelectInv ==
  ASSUME VettedInv, AloneInv, Select \/ \E t \in Transactions : Initialize(t)
  PROVE  AloneInv'
  <1>1. ~selected /\ up /\ writer = {} /\ UNCHANGED <<inst, writer>>
    BY DEF AloneInv, Unselected, Select, Initialize
  <1>2. \A i \in Installers : inst[i].at = "idle"
    BY <1>1 DEF AloneInv, OnTask
  <1>3. up' /\ (selected' => loaded' = target')
    <2>1. CASE Select
      BY <2>1 DEF Select, StartsWith
    <2>2. CASE \E t \in Transactions : Initialize(t)
      BY <1>1, <2>2 DEF Initialize
    <2> QED BY <2>1, <2>2
  <1> QED BY <1>1, <1>2, <1>3 DEF AloneInv, Unselected, OnTask, LastWriter, DownIsAccounted, Agree,
                                  AtMostOneBehind

\* An installer begins, or goes on where another one stopped.
LEMMA BeginInv ==
  ASSUME VettedInv, Alone, AloneInv, NEW i \in Installers, NEW t \in Transactions,
         Apply(i, t) \/ Rollback(i, t)
  PROVE  AloneInv'
  <1>1. InstallerTypeOK /\ writer \subseteq Transactions /\ \A j \in Installers : j = i
    BY DEF VettedInv, InstallerTypeOK, Alone
  <1>2. /\ UNCHANGED <<cand, target, owned, selected, up, loaded, plan, writer>>
        /\ selected /\ target \in {Before(t), After(t)}
    BY DEF Apply, Rollback, Admits, controllerVars
  <1>3. Enters(i, t, "check") \/ Enters(i, t, "restore")
    BY DEF Apply, Rollback
  <1>4. (result[t] \in Open /\ UNCHANGED result) \/ \E s \in Open : Records(t, s)
    BY DEF Apply, Rollback, Open, Forward, Restoring
  <1>5. result'[t] \in Open /\ \A u \in Transactions \ {t} : result'[u] = result[u]
    BY <1>1, <1>4, RecordsFacts DEF Open, Statuses
  <1>6. inst'[i].at \in {"check", "restore"} /\ inst'[i].tx = t /\ inst'[i].old = (target = Before(t))
    BY <1>1, <1>3, EntersFacts DEF StepNames
  <1>7. {"none", "initialized_not_active", "applied", "rolled_back"} \cap Open = {}
    BY DEF Open, Forward, Restoring
  <1>8. OnTask(i)'
    BY <1>2, <1>5, <1>6 DEF OnTask, Settled, Open, Before, After, NewSteps, OldSteps, UpSteps, FreshSteps
  <1>9. Unselected' /\ LastWriter'
    BY <1>1, <1>2, <1>5, <1>7 DEF AloneInv, Unselected, LastWriter, Before, After
  <1>10. Agree'
    <2>1. NoEmptyPlan' => NoEmptyPlan
      BY <1>2 DEF NoEmptyPlan, EmptyPlan, Before, After
    <2>2. \A u \in writer : Agrees(u) => Agrees(u)'
      BY <1>1, <1>2, <1>5, <1>7 DEF Agrees, Before, After
    <2> QED BY <1>2, <2>1, <2>2 DEF AloneInv, Agree
  <1>11. AtMostOneBehind' /\ ~InstallersIdle'
    BY <1>2, <1>6 DEF AloneInv, AtMostOneBehind, InstallersIdle, At, Before, After
  <1> QED BY <1>1, <1>8, <1>9, <1>10, <1>11 DEF AloneInv, DownIsAccounted

\* After a reboot the unit is down only if it cannot read its policy.
LEMMA RebootInv ==
  ASSUME VettedInv, AloneInv, Reboot
  PROVE  AloneInv'
  <1>1. /\ \A i \in Installers : inst'[i].at = "idle"
        /\ up' <=> (owned \/ ~selected)
        /\ owned /\ selected => loaded' = target
        /\ UNCHANGED <<cand, target, owned, selected, plan, result, writer>>
    <2>1. \A i \in Installers : inst'[i].at = "idle"
      BY DEF Reboot, NoStep
    <2>2. up' = (owned \/ ~selected)
      BY DEF Reboot
    <2> QED BY <2>1, <2>2 DEF Reboot
  <1>2. LastWriter' /\ Agree'
    BY <1>1 DEF AloneInv, LastWriter, Agree, NoEmptyPlan, EmptyPlan, Agrees, Before, After
  <1>3. DownIsAccounted'
    BY <1>1 DEF DownIsAccounted
  <1> QED BY <1>1, <1>2, <1>3 DEF AloneInv, Unselected, OnTask, AtMostOneBehind

\* Every step keeps the invariant.
LEMMA AloneStep ==
  ASSUME ControllerAssumption, VettedInv, Alone, AloneInv, [Next]_vars
  PROVE  AloneInv'
  <1>1. \A t \in Transactions : plan[t].kind = "apply" => plan[t].of \in Candidates /\ plan[t] # NoPlan
    BY PlanFacts DEF VettedInv, InstallerTypeOK, NoPlan
  <1>2. \A t \in Transactions : plan[t].kind = "apply" => cand[plan[t].of].state \in Merged
    BY DEF VettedInv, PlanOK
  <1>3. CASE UNCHANGED vars
    BY <1>3, AloneFrame DEF vars, controllerVars, installerVars
  <1>4. CASE ControllerNext /\ UNCHANGED installerVars
    <2>1. \A c \in Candidates : CandKept(c)
      BY <1>4, ControllerStep DEF VettedInv
    <2> QED BY <1>1, <1>2, <1>4, <2>1, AloneFrame DEF CandKept, installerVars
  <1>5. ASSUME NEW t \in Transactions, PlanInitialize(t) \/ \E c \in Candidates : PlanCandidate(t, c)
        PROVE  AloneInv'
    <2>1. UNCHANGED <<cand, target, owned, selected, up, loaded, result, inst, writer>> /\ PlansKept
      BY <1>5, NewPlan DEF PlanInitialize, PlanCandidate, controllerVars
    <2> QED BY <1>1, <2>1, AloneFrame DEF PlansKept
  <1>6. CASE ServiceStarts
    <2>1. /\ UNCHANGED <<cand, plan, target, owned, selected, result, inst, writer>>
          /\ up' /\ (selected => loaded' = target)
      BY <1>6 DEF ServiceStarts, StartsWith, controllerVars
    <2> QED BY <2>1, AloneFrame
  <1>7. ASSUME NEW i \in Installers, InstallerStep(i) PROVE AloneInv'
    BY <1>7, ForwardInv, RestoreInv, WriteInv, MarkInv, SettleInv DEF InstallerStep
  <1> QED BY <1>3, <1>4, <1>5, <1>6, <1>7, SelectInv, BeginInv, FaultInv, RebootInv DEF Next

\* It holds at first.
LEMMA AloneInit == ASSUME Init PROVE AloneInv
  <1>1. \A i \in Installers : inst[i].at = "idle"
    BY DEF Init, NoStep
  <1>2. up /\ ~selected /\ writer = {}
    BY DEF Init
  <1> QED BY <1>1, <1>2 DEF AloneInv, Unselected, OnTask, LastWriter, DownIsAccounted, Agree,
                            AtMostOneBehind

\* The invariant of a lone installer.
LEMMA AloneInvariance == Spec => [](Alone => AloneInv)
  <1>1. Init => (Alone => AloneInv)
    BY AloneInit
  <1>2. VettedInv /\ (Alone => AloneInv) /\ [Next]_vars => (Alone => AloneInv)'
    BY AloneStep, ControllerAssumption DEF Alone
  <1> QED BY <1>1, <1>2, VettedInvariance, PTL DEF Spec

\* One installer at a time leaves no service down off the record: whenever
\* it is down, nobody is at work and the file is readable, some transaction's
\* result.json is open, and the checks of apply and rollback admit that
\* transaction, for any number of transactions, candidates and faults.  That
\* a further command then gets past active() is not claimed.
THEOREM DownIsOnFile == Spec => [](Alone => DownIsAccounted)
  <1>1. (Alone => AloneInv) => (Alone => DownIsAccounted)
    BY DEF AloneInv
  <1> QED BY <1>1, AloneInvariance, PTL

\* Once everything is settled, the file, the result of its last writer and
\* the stage of the candidate agree (mark_applied, mark_rolled_back, apply,
\* _restore_preimage), however often one installer after another was
\* interrupted.
THEOREM RecordsAgree == Spec => [](Alone => SettledAgrees)
  <1>1. VettedInv /\ (Alone => AloneInv) => (Alone => SettledAgrees)
    <2>1. SUFFICES ASSUME VettedInv, AloneInv, \A t \in Transactions : Settled(t) /\ ~EmptyPlan(t),
                          NEW t \in writer
                   PROVE  \/ /\ target = After(t) /\ result[t] = "applied"
                             /\ cand[plan[t].of].state = "applied"
                          \/ /\ target = Before(t) /\ result[t] = "rolled_back"
                             /\ cand[plan[t].of].state \in {"reconciled", "rolled_back"}
      BY DEF SettledAgrees
    <2>2. t \in Transactions /\ result[t] \in Statuses
      BY <2>1 DEF VettedInv, InstallerTypeOK
    <2>3. result[t] \in {"applied", "rolled_back"}
      BY <2>1, <2>2 DEF AloneInv, LastWriter, Settled, Statuses
    <2>4. Agrees(t)
      BY <2>1 DEF AloneInv, Agree, NoEmptyPlan
    <2>5. cand[plan[t].of].state \in Merged
      BY <2>1, <2>2, <2>3 DEF VettedInv, Planned, PlanOK
    <2> QED BY <2>3, <2>4, <2>5 DEF Agrees, Merged
  <1> QED BY <1>1, VettedInvariance, AloneInvariance, PTL

\* The running service is at most one write behind the file: it has read the
\* installed policy or the other image of the last writer (the stops of apply
\* and _restore_preimage before their writes), whoever starts the unit in
\* between, for any number of transactions and faults and one installer at a
\* time.
THEOREM OneBehind == Spec => [](Alone => AtMostOneBehind)
  <1>1. (Alone => AloneInv) => (Alone => AtMostOneBehind)
    BY DEF AloneInv
  <1> QED BY <1>1, AloneInvariance, PTL
=============================================================================

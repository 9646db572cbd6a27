--------------------- MODULE NotificationPipelineProofs ---------------------
(***************************************************************************)
(* At most one transport call per occurrence, decisions and messages that  *)
(* follow their source, and no accepted revision without review, for any   *)
(* number of objects, revisions, days, texts, crashes and storage errors,  *)
(* and for every interleaving of the service with the delivery CLI.        *)
(***************************************************************************)
EXTENDS NotificationPipeline, TLAPS

-----------------------------------------------------------------------------
(* The inductive invariant.  AtMostOneSend alone is not inductive: a       *)
(* process about to send must be the only one, for a row that can no       *)
(* longer be claimed, and a row that was sent must never look unsent.      *)

\* A claim is held and the transport was not called yet.
FlightPcs == {"claimed", "current", "sending"}

\* Cleanup is under way; the goal is what the service does next.
CleanPcs == {"clean", "purgeAttention", "ackNotice"}

\* The statuses of a row whose message has certainly not left.
Unsent == {"none", "shadow", "pending", "cancelled"}

\* The statuses that report a transport answer.
Reported == {"accepted", "delivered"}

InFlight(a, o) == actor[a].pc \in FlightPcs /\ actor[a].obj = o

\* A process on the send path names a decision, and has an answer after I/O.
PathShape ==
    \A a \in Actors :
        /\ actor[a].pc \in SendPcs => actor[a].obj \in Objects /\ actor[a].rev \in Revisions
        /\ actor[a].pc \in {"answered", "finished"} => actor[a].ans \in Answers
        /\ actor[a].pc \in CleanPcs => actor[a].goal \in {"idle", "review", "control"}

SendInv ==
    /\ PipelineTypeOK
    /\ PathShape
    /\ \A o \in Objects : /\ outbox[o].status \in Unsent => sends[o] = 0
                          /\ outbox[o].status \in Reported => sends[o] > 0
                          /\ sends[o] <= 1
    /\ \A a \in Actors, o \in Objects :
          InFlight(a, o) => sends[o] = 0 /\ outbox[o].status \notin Unsent
    /\ \A a, b \in Actors, o \in Objects : InFlight(a, o) /\ InFlight(b, o) => a = b
    /\ \A a \in Actors : actor[a].pc = "answered" => sends[actor[a].obj] > 0

\* The fresh tables satisfy the invariant.
LEMMA InitInv == PipelineAssumption /\ Init => SendInv
  <1> SUFFICES ASSUME PipelineAssumption, Init PROVE SendInv
    OBVIOUS
  <1>1. \A a \in Actors : actor[a] \in ActorRows /\ actor[a].pc \in {"down", "idle"}
    BY DEF Init, At, ActorRows, ServicePcs, PipelineAssumption
  <1>2. PipelineTypeOK
    <2>1. JournalTypeOK
      BY DEF Init, JournalInit, JournalTypeOK, PipelineAssumption
    <2>2. LedgerTypeOK
      BY DEF Init, LedgerInit, LedgerTypeOK, NoDecision, DecisionRows, States, Outcomes,
             PipelineAssumption
    <2>3. OutboxTypeOK
      BY DEF Init, OutboxInit, OutboxTypeOK, NoRow, OutboxRows, Statuses, PipelineAssumption
    <2>4. actor \in [Actors -> ActorRows]
      BY <1>1 DEF Init
    <2> QED BY <2>1, <2>2, <2>3, <2>4 DEF Init, PipelineTypeOK, PipelineAssumption
  <1>3. PathShape
    BY <1>1 DEF PathShape, SendPcs, CleanPcs
  <1>4. \A o \in Objects : outbox[o].status = "none" /\ sends[o] = 0
    BY DEF Init, OutboxInit, NoRow
  <1> QED BY <1>1, <1>2, <1>3, <1>4 DEF SendInv, InFlight, FlightPcs, Unsent, Reported

-----------------------------------------------------------------------------
(* The journal and the ledger keep their types.                            *)

\* An accepted event keeps the journal's types.
LEMMA JournalTypes ==
  ASSUME JournalTypeOK, MaxRevision \in Nat, NEW o \in Objects, NEW r \in Revisions,
         Publish(o, r) \/ Withdraw(o, r)
  PROVE  JournalTypeOK'
  <1>1. rev[o] \in 0..MaxRevision /\ r \in 0..MaxRevision
    BY DEF JournalTypeOK, Revisions
  <1>2. Notice(o, r, "upsert") \in Notices /\ Notice(o, r, "delete") \in Notices
    BY <1>1 DEF Notice, Notices
  <1>3. rev' \in [Objects -> 0..MaxRevision] /\ live' \in [Objects -> BOOLEAN]
    BY <1>1 DEF JournalTypeOK, Publish, Withdraw
  <1>4. review' \in SUBSET (Objects \X Revisions)
    BY DEF JournalTypeOK, Publish, Withdraw, ReviewOf
  <1>5. notices' \in SUBSET Notices
    BY <1>2 DEF JournalTypeOK, Publish, Withdraw
  <1> QED BY <1>3, <1>4, <1>5 DEF JournalTypeOK

\* What the two updates of a decision row leave.
LEMMA DecisionRowFacts ==
  ASSUME NEW d \in DecisionRows, NEW s \in States
  PROVE  InState(d, s) \in DecisionRows /\ Uncited(d) \in DecisionRows
  BY DEF InState, Uncited, DecisionRows

\* record_decision stores a well-formed decision.
LEMMA RecordTypes ==
  ASSUME LedgerTypeOK, NEW o \in Objects, NEW r \in Revs, NEW outcome \in Outcomes,
         NEW day \in 0..MaxDay, NEW shadow \in BOOLEAN, NEW over \in BOOLEAN,
         RecordDecision(o, r, outcome, day, shadow, over)
  PROVE  LedgerTypeOK'
  <1>1. CASE decisions' = decisions
    BY <1>1 DEF LedgerTypeOK
  <1>2. CASE decisions' # decisions
    <2>1. PICK s \in States, oc \in Outcomes : decisions' = [decisions EXCEPT ![o][r] =
                 [state |-> s, outcome |-> oc, day |-> day, cited |-> TRUE]]
      BY <1>2 DEF RecordDecision, States, Outcomes
    <2>2. [state |-> s, outcome |-> oc, day |-> day, cited |-> TRUE] \in DecisionRows
      BY DEF DecisionRows
    <2> QED BY <2>1, <2>2 DEF LedgerTypeOK
  <1> QED BY <1>1, <1>2

\* A purge leaves well-formed decisions.
LEMMA PurgeTypes ==
  ASSUME LedgerTypeOK, NEW o \in Objects, NEW keep \in BOOLEAN, PurgeDecisions(o, keep),
         MaxDay \in Nat
  PROVE  LedgerTypeOK'
  <1>1. NoDecision \in DecisionRows
    BY DEF NoDecision, DecisionRows, States, Outcomes
  <1>2. \A r \in Revs : Uncited(decisions[o][r]) \in DecisionRows
    BY DecisionRowFacts DEF LedgerTypeOK, States
  <1> QED BY <1>1, <1>2 DEF PurgeDecisions, LedgerTypeOK

\* The owner's reply leaves a well-formed decision.
LEMMA ControlTypes ==
  ASSUME LedgerTypeOK, NEW o \in Objects, NEW r \in Revs, NEW op, ApplyDecision(o, r, op)
  PROVE  LedgerTypeOK'
  <1>1. Controlled(op) \in States
    BY DEF Controlled, States
  <1>2. InState(decisions[o][r], Controlled(op)) \in DecisionRows
    BY <1>1, DecisionRowFacts DEF LedgerTypeOK
  <1> QED BY <1>2 DEF ApplyDecision, LedgerTypeOK

\* mark_delivery leaves a well-formed decision.
LEMMA MarkTypes ==
  ASSUME LedgerTypeOK, NEW o \in Objects, NEW r \in Revs, NEW status \in Answers,
         MarkDelivery(o, r, status)
  PROVE  LedgerTypeOK'
  <1>1. CASE decisions' = decisions
    BY <1>1 DEF LedgerTypeOK
  <1>2. CASE decisions' # decisions
    <2>1. decisions' = [decisions EXCEPT ![o][r] = InState(decisions[o][r], status)]
          /\ status \in States
      BY <1>2 DEF MarkDelivery, MarkAllowed, States
    <2>2. InState(decisions[o][r], status) \in DecisionRows
      BY <2>1, DecisionRowFacts DEF LedgerTypeOK
    <2> QED BY <2>1, <2>2 DEF LedgerTypeOK
  <1> QED BY <1>1, <1>2

-----------------------------------------------------------------------------
(* The outbox keeps its type and never moves backwards: no transaction     *)
(* makes a row look unsent again, and none but Finish reports an answer.   *)

\* What every outbox transaction but the claim's and the answer's respects.
Forward ==
    /\ OutboxTypeOK'
    /\ \A o \in Objects : /\ outbox'[o].status \in Unsent => outbox[o].status \in Unsent
                          /\ outbox'[o].status \in Reported =>
                                outbox[o].status \in Reported \/ sends[o] > 0

\* What the two updates of an outbox row leave.
LEMMA OutboxRowFacts ==
  ASSUME NEW row \in OutboxRows, NEW s \in Statuses
  PROVE  /\ InStatus(row, s) \in OutboxRows /\ InStatus(row, s).status = s
         /\ Scrubbed(row, s) \in OutboxRows /\ Scrubbed(row, s).status = s
  BY DEF InStatus, Scrubbed, OutboxRows

\* A transaction that leaves the outbox alone moves nothing backwards.
LEMMA SameOutbox == OutboxTypeOK /\ UNCHANGED outbox => Forward
  BY DEF OutboxTypeOK, Forward

\* A transaction on one row moves forward when that row does.
LEMMA OneRow ==
  ASSUME OutboxTypeOK, NEW o \in Objects, NEW row \in OutboxRows,
         outbox' = [outbox EXCEPT ![o] = row],
         row.status \in Unsent => outbox[o].status \in Unsent,
         row.status \in Reported => outbox[o].status \in Reported \/ sends[o] > 0
  PROVE  Forward
  BY DEF OutboxTypeOK, Forward

\* admit replaces at most a row that was never claimed.
LEMMA AdmitForward ==
  ASSUME OutboxTypeOK, NEW o \in Objects, NEW r \in 0..MaxRevision,
         NEW text \in Texts \cup {Null}, NEW dry \in BOOLEAN, Admit(o, r, text, dry)
  PROVE  Forward
  <1>1. outbox[o] \in OutboxRows
    BY DEF OutboxTypeOK
  <1>2. CASE AdmittedRow(o, r, text, dry) = outbox[o]
    BY <1>1, <1>2, OneRow DEF Admit
  <1>3. CASE AdmittedRow(o, r, text, dry) # outbox[o]
    <2>1. AdmittedRow(o, r, text, dry) = Fresh(r, text, dry)
      BY <1>3 DEF AdmittedRow
    <2>2. outbox[o].status \in {"none", "shadow"}
      BY <1>3 DEF Admit, AdmitRefused, AdmittedRow
    <2>3. Fresh(r, text, dry) \in OutboxRows /\ Fresh(r, text, dry).status \in {"shadow", "pending"}
      BY DEF Fresh, OutboxRows, Statuses, TERMINAL
    <2>4. outbox' = [outbox EXCEPT ![o] = Fresh(r, text, dry)]
      BY <2>1 DEF Admit
    <2> QED BY <2>2, <2>3, <2>4, OneRow DEF Unsent, Reported
  <1> QED BY <1>2, <1>3

\* A claim is finished with an answer only once the transport was called.
LEMMA FinishForward ==
  ASSUME OutboxTypeOK, NEW o \in Objects, NEW r, NEW status \in Answers, Finish(o, r, status),
         status \in Reported => sends[o] > 0
  PROVE  Forward
  <1>1. status \in Statuses /\ status \notin Unsent
    BY DEF Answers, Statuses, Final, TERMINAL, Unsent
  <1>2. outbox[o] \in OutboxRows
    BY DEF OutboxTypeOK
  <1>3. outbox' = [outbox EXCEPT ![o] = InStatus(outbox[o], status)]
    BY DEF Finish
  <1> QED BY <1>1, <1>2, <1>3, OutboxRowFacts, OneRow

\* recover_inflight turns claims into uncertain rows, never into pending ones.
LEMMA RecoverForward == OutboxTypeOK /\ RecoverInflight => Forward
  <1> SUFFICES ASSUME OutboxTypeOK, RecoverInflight PROVE Forward
    OBVIOUS
  <1>1. "uncertain" \in Statuses /\ "uncertain" \notin Unsent /\ "uncertain" \notin Reported
    BY DEF Statuses, Final, TERMINAL, Unsent, Reported
  <1>2. \A o \in Objects : outbox[o] \in OutboxRows
    BY DEF OutboxTypeOK
  <1>3. \A o \in Objects : outbox'[o] = outbox[o] \/ outbox'[o] = InStatus(outbox[o], "uncertain")
    BY DEF RecoverInflight
  <1>4. \A o \in Objects : outbox'[o] \in OutboxRows
    BY <1>1, <1>2, <1>3, OutboxRowFacts
  <1>5. OutboxTypeOK'
    BY <1>4 DEF OutboxTypeOK, RecoverInflight
  <1>6. \A o \in Objects : InStatus(outbox[o], "uncertain").status = "uncertain"
    BY <1>1, <1>2, OutboxRowFacts
  <1> QED BY <1>1, <1>3, <1>5, <1>6 DEF Forward

\* purge_source ends a row that was not sent, and only as cancelled.
LEMMA PurgeForward ==
  ASSUME OutboxTypeOK, NEW o \in Objects, PurgeRow(o)
  PROVE  Forward
  <1>1. outbox[o] \in OutboxRows
    BY DEF OutboxTypeOK
  <1>2. CASE ~outbox[o].body
    BY <1>2, SameOutbox DEF PurgeRow
  <1>3. CASE outbox[o].body
    <2> DEFINE ended == IF outbox[o].status = "claimed" THEN "uncertain"
                        ELSE IF outbox[o].status \in {"pending", "shadow"} THEN "cancelled"
                        ELSE outbox[o].status
    <2>1. ended \in Statuses
      BY <1>1 DEF OutboxRows, Statuses, Final, TERMINAL
    <2>2. ended \in Unsent => outbox[o].status \in Unsent
      BY DEF Unsent
    <2>3. ended \in Reported => outbox[o].status \in Reported
      BY DEF Reported
    <2>4. outbox' = [outbox EXCEPT ![o] = Scrubbed(outbox[o], ended)]
      BY <1>3 DEF PurgeRow
    <2> HIDE DEF ended
    <2> QED BY <1>1, <2>1, <2>2, <2>3, <2>4, OutboxRowFacts, OneRow
  <1> QED BY <1>2, <1>3

\* hold ends a row that waits, and never reports an answer.
LEMMA HoldForward ==
  ASSUME OutboxTypeOK, NEW o \in Objects, NEW r, Hold(o, r)
  PROVE  Forward
  <1>1. \A s \in {"held", "uncertain"} : s \in Statuses /\ s \notin Unsent /\ s \notin Reported
    BY DEF Statuses, Final, TERMINAL, Unsent, Reported
  <1>2. outbox[o] \in OutboxRows
    BY DEF OutboxTypeOK
  <1>3. CASE outbox' = outbox
    BY <1>3, SameOutbox
  <1>4. CASE outbox' # outbox
    <2>1. PICK s \in {"held", "uncertain"} :
             outbox' = [outbox EXCEPT ![o] = InStatus(outbox[o], s)]
      BY <1>4 DEF Hold
    <2> QED BY <1>1, <1>2, <2>1, OutboxRowFacts, OneRow
  <1> QED BY <1>3, <1>4

-----------------------------------------------------------------------------
(* One frame lemma for every step that neither claims nor sends.           *)

\* The control states a process may move to in such a step.
QuietRow(a, row) ==
    /\ row \in ActorRows
    /\ row.pc \in SendPcs => row.obj \in Objects /\ row.rev \in Revisions
    /\ row.pc = "finished" => row.ans \in Answers
    /\ row.pc # "answered"
    /\ row.pc \in CleanPcs => row.goal \in {"idle", "review", "control"}
    /\ row.pc \in FlightPcs => actor[a].pc \in FlightPcs /\ actor[a].obj = row.obj

\* The scalars keep their types.
ClockOK == /\ mode \in Modes /\ today \in 1..MaxDay
           /\ crashes \in 0..MaxCrashes /\ errors \in 0..MaxErrors

\* A quiet step of one process on tables that move forward keeps the invariant.
LEMMA QuietStep ==
  ASSUME SendInv, NEW a \in Actors, NEW row, QuietRow(a, row), Become(a, row),
         JournalTypeOK', LedgerTypeOK', Forward, ClockOK', UNCHANGED history
  PROVE  SendInv'
  <1>1. actor' \in [Actors -> ActorRows] /\ actor'[a] = row
    BY DEF SendInv, PipelineTypeOK, Become, QuietRow
  <1>2. \A b \in Actors : b # a => actor'[b] = actor[b]
    BY DEF SendInv, PipelineTypeOK, Become
  <1>3. sends' = sends /\ interruptions' = interruptions
    BY DEF history
  <1>4. PipelineTypeOK'
    BY <1>1, <1>3 DEF SendInv, PipelineTypeOK, Forward, ClockOK
  <1>5. PathShape'
    <2> SUFFICES ASSUME NEW b \in Actors
                 PROVE  /\ actor'[b].pc \in SendPcs =>
                              actor'[b].obj \in Objects /\ actor'[b].rev \in Revisions
                        /\ actor'[b].pc \in {"answered", "finished"} => actor'[b].ans \in Answers
                        /\ actor'[b].pc \in CleanPcs =>
                              actor'[b].goal \in {"idle", "review", "control"}
      BY DEF PathShape
    <2>1. CASE b = a
      BY <2>1, <1>1 DEF QuietRow
    <2>2. CASE b # a
      BY <2>2, <1>2 DEF SendInv, PathShape
    <2> QED BY <2>1, <2>2
  <1>6. \A o \in Objects : /\ outbox'[o].status \in Unsent => sends'[o] = 0
                           /\ outbox'[o].status \in Reported => sends'[o] > 0
                           /\ sends'[o] <= 1
    BY <1>3 DEF SendInv, Forward
  <1>7. \A b \in Actors, o \in Objects :
           actor'[b].pc \in FlightPcs /\ actor'[b].obj = o => InFlight(b, o)
    <2> SUFFICES ASSUME NEW b \in Actors, NEW o \in Objects,
                        actor'[b].pc \in FlightPcs, actor'[b].obj = o
                 PROVE  InFlight(b, o)
      OBVIOUS
    <2>1. CASE b = a
      BY <2>1, <1>1 DEF QuietRow, InFlight
    <2>2. CASE b # a
      BY <2>2, <1>2 DEF InFlight
    <2> QED BY <2>1, <2>2
  <1>8. \A b \in Actors, o \in Objects : InFlight(b, o)' => InFlight(b, o)
    BY <1>7 DEF InFlight
  <1>9. \A b \in Actors, o \in Objects :
           InFlight(b, o)' => sends'[o] = 0 /\ outbox'[o].status \notin Unsent
    <2> SUFFICES ASSUME NEW b \in Actors, NEW o \in Objects, InFlight(b, o)'
                 PROVE  sends'[o] = 0 /\ outbox'[o].status \notin Unsent
      OBVIOUS
    <2>1. sends[o] = 0 /\ outbox[o].status \notin Unsent
      BY <1>8 DEF SendInv
    <2> QED BY <2>1, <1>3 DEF Forward
  <1>10. \A b, c \in Actors, o \in Objects : InFlight(b, o)' /\ InFlight(c, o)' => b = c
    BY <1>8 DEF SendInv
  <1>11. \A b \in Actors : actor'[b].pc = "answered" => sends'[actor'[b].obj] > 0
    <2> SUFFICES ASSUME NEW b \in Actors, actor'[b].pc = "answered"
                 PROVE  sends'[actor'[b].obj] > 0
      OBVIOUS
    <2>1. b # a
      BY <1>1 DEF QuietRow
    <2> QED BY <2>1, <1>2, <1>3 DEF SendInv
  <1> QED BY <1>4, <1>5, <1>6, <1>9, <1>10, <1>11 DEF SendInv

\* A process at rest, or handling a notice or a review, is quiet.
LEMMA RestRow ==
  ASSUME PipelineAssumption, NEW a, NEW pc \in ServicePcs \cup {"start"},
         NEW goal \in {"idle", "review", "control"}
  PROVE  /\ QuietRow(a, At(pc, goal))
         /\ \A day \in 0..MaxDay : QuietRow(a, [At(pc, goal) EXCEPT !.day = day])
         /\ \A o \in Objects, r \in 0..MaxRevision : QuietRow(a, Handling(pc, goal, o, r))
  <1>1. pc \notin SendPcs /\ pc \notin FlightPcs /\ pc # "answered" /\ pc # "finished"
    BY DEF ServicePcs, SendPcs, FlightPcs
  <1>2. 0 \in 0..MaxDay /\ 0 \in 0..MaxRevision
    BY DEF PipelineAssumption
  <1>3. QuietRow(a, At(pc, goal))
    BY <1>1, <1>2 DEF QuietRow, At, ActorRows
  <1>4. ASSUME NEW day \in 0..MaxDay
        PROVE  QuietRow(a, [At(pc, goal) EXCEPT !.day = day])
    BY <1>1, <1>2 DEF QuietRow, At, ActorRows
  <1>5. ASSUME NEW o \in Objects, NEW r \in 0..MaxRevision
        PROVE  QuietRow(a, Handling(pc, goal, o, r))
    BY <1>1, <1>2 DEF QuietRow, Handling, ActorRows
  <1> QED BY <1>3, <1>4, <1>5

\* Starting an admission is quiet.
LEMMA InsertRow ==
  ASSUME NEW a, NEW goal \in {"apply", "dry"}, NEW o \in Objects, NEW r \in Revisions,
         NEW day \in 0..MaxDay, NEW text \in Texts, MaxRevision \in Nat
  PROVE  QuietRow(a, Inserting(goal, o, r, day, text))
  BY DEF QuietRow, Inserting, ActorRows, SendPcs, FlightPcs, CleanPcs, Revisions

\* Going on along the send path is quiet, unless it claims or sends.
LEMMA PathRow ==
  ASSUME NEW a, actor[a] \in ActorRows, actor[a].obj \in Objects, actor[a].rev \in Revisions,
         NEW day \in 0..MaxDay, NEW ans \in Answers \cup {Null}, NEW pc \in SendPcs,
         pc # "answered", pc = "finished" => ans \in Answers,
         pc \in FlightPcs => actor[a].pc \in FlightPcs
  PROVE  QuietRow(a, Sending(pc, actor[a], day, ans))
  <1>1. Sending(pc, actor[a], day, ans) \in ActorRows
    BY DEF Sending, ActorRows
  <1>2. pc \notin CleanPcs
    BY DEF SendPcs, CleanPcs
  <1> QED BY <1>1, <1>2 DEF QuietRow, Sending

\* Tables a step leaves alone keep their types.
LEMMA SameTables ==
  /\ JournalTypeOK /\ UNCHANGED <<rev, live, review, notices>> => JournalTypeOK'
  /\ LedgerTypeOK /\ UNCHANGED decisions => LedgerTypeOK'
  /\ ClockOK /\ UNCHANGED <<mode, today, faults>> => ClockOK'
  <1>1. JournalTypeOK /\ UNCHANGED <<rev, live, review, notices>> => JournalTypeOK'
    BY DEF JournalTypeOK
  <1>2. LedgerTypeOK /\ UNCHANGED decisions => LedgerTypeOK'
    BY DEF LedgerTypeOK
  <1>3. ClockOK /\ UNCHANGED <<mode, today, faults>> => ClockOK'
    BY DEF ClockOK, faults
  <1> QED BY <1>1, <1>2, <1>3

\* What the invariant says of the tables.
LEMMA Tables == SendInv => JournalTypeOK /\ LedgerTypeOK /\ OutboxTypeOK /\ ClockOK
  BY DEF SendInv, PipelineTypeOK, ClockOK

\* Leaving the send path is quiet.
LEMMA ReturnStep ==
  ASSUME PipelineAssumption, SendInv, NEW a \in Actors, Return(a),
         JournalTypeOK', LedgerTypeOK', Forward, ClockOK', UNCHANGED history
  PROVE  SendInv'
  <1>1. QuietRow(a, At("dispatch", "idle")) /\ QuietRow(a, At("idle", "idle"))
    BY RestRow DEF ServicePcs
  <1>2. Become(a, At("dispatch", "idle")) \/ Become(a, At("idle", "idle"))
    BY DEF Return
  <1> QED BY <1>1, <1>2, QuietStep

-----------------------------------------------------------------------------
(* The service.                                                            *)

\* Start, crash and abort: recovery moves claims forward only.
LEMMA ProcessInv ==
  ASSUME PipelineAssumption, SendInv, "service" \in Actors,
         ServiceStart \/ ServiceCrash \/ RequestFails
  PROVE  SendInv'
  <1>1. QuietRow("service", At("idle", "idle")) /\ QuietRow("service", At("down", "idle"))
    BY RestRow DEF ServicePcs
  <1>2. CASE ServiceStart
    <2>1. Forward
      BY <1>2, Tables, RecoverForward DEF ServiceStart
    <2>2. ClockOK'
      BY <1>2, Tables DEF ServiceStart, ClockOK, faults
    <2> QED BY <1>1, <1>2, <2>1, <2>2, Tables, SameTables, QuietStep DEF ServiceStart
  <1>3. CASE ServiceCrash
    <2>1. ClockOK'
      BY <1>3, Tables DEF ServiceCrash, ClockOK, PipelineAssumption
    <2>2. Forward
      BY <1>3, Tables, SameOutbox DEF ServiceCrash
    <2> QED BY <1>1, <1>3, <2>1, <2>2, Tables, SameTables, QuietStep DEF ServiceCrash
  <1>4. CASE RequestFails
    <2>1. ClockOK'
      BY <1>4, Tables DEF RequestFails, ClockOK, PipelineAssumption
    <2>2. Forward
      BY <1>4, Tables, SameOutbox DEF RequestFails
    <2> QED BY <1>1, <1>4, <2>1, <2>2, Tables, SameTables, QuietStep DEF RequestFails
  <1> QED BY <1>2, <1>3, <1>4

\* A step that only moves the service to another control state.
LEMMA ServiceMoves ==
  ASSUME PipelineAssumption, SendInv, "service" \in Actors, NEW row, QuietRow("service", row),
         Become("service", row),
         UNCHANGED <<rev, live, review, notices, decisions, outbox, mode, today, faults, history>>
  PROVE  SendInv'
  <1>1. Forward /\ JournalTypeOK' /\ LedgerTypeOK' /\ ClockOK' /\ UNCHANGED history
    BY Tables, SameTables, SameOutbox
  <1> QED BY <1>1, QuietStep

\* The goal of a service that is cleaning up.
LEMMA CleanGoal ==
  ASSUME SendInv, "service" \in Actors, service.pc \in CleanPcs
  PROVE  service.goal \in {"idle", "review", "control"}
  BY DEF SendInv, PathShape, service

\* cleanup: the purges in outbox and ledger, and the acknowledgement.
LEMMA CleanInv ==
  ASSUME PipelineAssumption, SendInv, "service" \in Actors, Clean
  PROVE  SendInv'
  <1>1. CASE CleanDone
    <2>1. service.goal \in {"idle", "review", "control"}
      BY <1>1, CleanGoal DEF CleanDone, CleanPcs
    <2>2. QuietRow("service", At(service.goal, "idle"))
      BY <2>1, RestRow DEF ServicePcs
    <2> QED BY <1>1, <2>2, ServiceMoves DEF CleanDone
  <1>2. ASSUME NEW n \in notices, CleanOutbox(n) \/ CleanAttention(n) \/ CleanAck(n)
        PROVE  SendInv'
    <2>1. n.obj \in Objects /\ n.rev \in 0..MaxRevision /\ (n.op = "upsert") \in BOOLEAN
      BY Tables DEF JournalTypeOK, Notices, Revisions, PipelineAssumption
    <2>2. service.goal \in {"idle", "review", "control"}
      BY <1>2, CleanGoal DEF CleanOutbox, CleanAttention, CleanAck, CleanPcs
    <2>3. /\ QuietRow("service", Handling("purgeAttention", service.goal, n.obj, n.rev))
          /\ QuietRow("service", Handling("ackNotice", service.goal, n.obj, n.rev))
          /\ QuietRow("service", At("clean", service.goal))
      BY <2>1, <2>2, RestRow DEF ServicePcs
    <2>4. CASE CleanOutbox(n)
      <3>1. Forward
        BY <2>1, <2>4, Tables, PurgeForward DEF CleanOutbox
      <3> QED BY <2>3, <2>4, <3>1, Tables, SameTables, QuietStep DEF CleanOutbox
    <2>5. CASE CleanAttention(n)
      <3>1. LedgerTypeOK'
        BY <2>1, <2>5, Tables, PurgeTypes DEF CleanAttention, PipelineAssumption
      <3>2. Forward
        BY <2>5, Tables, SameOutbox DEF CleanAttention
      <3> QED BY <2>3, <2>5, <3>1, <3>2, Tables, SameTables, QuietStep DEF CleanAttention
    <2>6. CASE CleanAck(n)
      <3>1. JournalTypeOK'
        BY <2>6, Tables DEF CleanAck, Purged, JournalTypeOK
      <3>2. Forward
        BY <2>6, Tables, SameOutbox DEF CleanAck
      <3> QED BY <2>3, <2>6, <3>1, <3>2, Tables, SameTables, QuietStep DEF CleanAck
    <2> QED BY <1>2, <2>4, <2>5, <2>6
  <1> QED BY <1>1, <1>2 DEF Clean

\* Requests: ingestion, the owner's controls, review and the dispatch loop.
LEMMA RequestInv ==
  ASSUME PipelineAssumption, SendInv, "service" \in Actors,
         \/ ControlRefused \/ ReviewAck \/ ReviewDone \/ DispatchDone
         \/ Request("review") \/ Request("control")
         \/ \E p \in review : ReviewRecord(p[1], p[2])
         \/ \E o \in Objects, r \in Revisions :
               \/ IngestRequest(o, r) \/ DispatchCheck(o, r)
               \/ \E op \in {"snooze", "dismiss", "stop"} : ControlDecision(o, r, op)
  PROVE  SendInv'
  <1>1. /\ \A pc \in {"idle", "review", "dispatch", "control"} : QuietRow("service", At(pc, "idle"))
        /\ \A goal \in {"idle", "review", "control"} : QuietRow("service", At("clean", goal))
    BY RestRow DEF ServicePcs
  <1>2. CASE ControlRefused
    BY <1>1, <1>2, ServiceMoves DEF ControlRefused
  <1>3. CASE ReviewDone
    BY <1>1, <1>3, ServiceMoves DEF ReviewDone
  <1>4. CASE DispatchDone
    BY <1>1, <1>4, ServiceMoves DEF DispatchDone
  <1>5. ASSUME NEW goal \in {"review", "control"}, Request(goal) PROVE SendInv'
    BY <1>1, <1>5, ServiceMoves DEF Request
  <1>6. CASE ReviewAck
    <2>1. JournalTypeOK'
      BY <1>6, Tables DEF ReviewAck, Reviewed, JournalTypeOK
    <2>2. Forward
      BY <1>6, Tables, SameOutbox DEF ReviewAck
    <2> QED BY <1>1, <1>6, <2>1, <2>2, Tables, SameTables, QuietStep DEF ReviewAck
  <1>7. ASSUME NEW p \in review, ReviewRecord(p[1], p[2]) PROVE SendInv'
    <2>1. p[1] \in Objects /\ p[2] \in Revisions
      BY Tables DEF JournalTypeOK
    <2>2. p[2] \in 0..MaxRevision /\ p[2] \in Revs /\ today \in 0..MaxDay
      BY <2>1, Tables DEF Revisions, Revs, ClockOK, PipelineAssumption
    <2>3. PICK outcome \in {"digest", "notify"}, over \in BOOLEAN :
             RecordDecision(p[1], p[2], outcome, today, mode = "shadow", over)
      BY <1>7 DEF ReviewRecord
    <2>4. LedgerTypeOK'
      <3>1. outcome \in Outcomes /\ (mode = "shadow") \in BOOLEAN
        BY DEF Outcomes
      <3>2. ASSUME NEW o \in Objects, NEW r \in Revs, NEW shadow \in BOOLEAN,
                   RecordDecision(o, r, outcome, today, shadow, over)
            PROVE  LedgerTypeOK'
        BY <2>2, <3>1, <3>2, Tables, RecordTypes
      <3> QED BY <2>1, <2>2, <2>3, <3>1, <3>2
    <2>5. QuietRow("service", Handling("ackReview", "idle", p[1], p[2]))
      BY <2>1, <2>2, RestRow DEF ServicePcs
    <2>6. Forward
      BY <1>7, Tables, SameOutbox DEF ReviewRecord
    <2> QED BY <1>7, <2>4, <2>5, <2>6, Tables, SameTables, QuietStep DEF ReviewRecord
  <1>8. ASSUME NEW o \in Objects, NEW r \in Revisions, IngestRequest(o, r) PROVE SendInv'
    <2>1. JournalTypeOK'
      BY <1>8, Tables, JournalTypes DEF IngestRequest, PipelineAssumption
    <2>2. Forward
      BY <1>8, Tables, SameOutbox DEF IngestRequest
    <2> QED BY <1>1, <1>8, <2>1, <2>2, Tables, SameTables, QuietStep DEF IngestRequest
  <1>9. ASSUME NEW o \in Objects, NEW r \in Revisions, DispatchCheck(o, r) PROVE SendInv'
    <2>1. today \in 0..MaxDay /\ ServiceText \in Texts /\ MaxRevision \in Nat
      BY Tables DEF ClockOK, PipelineAssumption
    <2>2. QuietRow("service", Inserting("apply", o, r, today, ServiceText))
      BY <2>1, InsertRow
    <2> QED BY <1>9, <2>2, ServiceMoves DEF DispatchCheck
  <1>10. ASSUME NEW o \in Objects, NEW r \in Revisions, NEW op, ControlDecision(o, r, op)
         PROVE  SendInv'
    <2>1. LedgerTypeOK'
      BY <1>10, Tables, ControlTypes DEF ControlDecision, Revs, Revisions
    <2>2. Forward
      BY <1>10, Tables, SameOutbox DEF ControlDecision
    <2> QED BY <1>1, <1>10, <2>1, <2>2, Tables, SameTables, QuietStep DEF ControlDecision
  <1> QED BY <1>2, <1>3, <1>4, <1>5, <1>6, <1>7, <1>8, <1>9, <1>10

\* The CLI: it recovers claims when it starts and leaves at any point.
LEMMA CliInv ==
  ASSUME PipelineAssumption, SendInv, "cli" \in Actors, CliNext
  PROVE  SendInv'
  <1>1. QuietRow("cli", At("idle", "idle"))
        /\ \A day \in 0..MaxDay : QuietRow("cli", [At("start", "idle") EXCEPT !.day = day])
    BY RestRow DEF ServicePcs
  <1>2. today \in 0..MaxDay /\ actor["cli"] \in ActorRows /\ MaxRevision \in Nat
    BY Tables DEF ClockOK, SendInv, PipelineTypeOK, PipelineAssumption
  <1>3. CASE CliStart
    <2>1. Forward
      BY <1>3, Tables, RecoverForward DEF CliStart
    <2> QED BY <1>1, <1>2, <1>3, <2>1, Tables, SameTables, QuietStep DEF CliStart
  <1>4. CASE CliExit
    <2>1. Forward
      BY <1>4, Tables, SameOutbox DEF CliExit
    <2> QED BY <1>1, <1>4, <2>1, Tables, SameTables, QuietStep DEF CliExit
  <1>5. ASSUME NEW o \in Objects, NEW r \in Revisions, NEW text \in Texts,
               NEW goal \in {"apply", "dry"}, CliCheck(o, r, text, goal)
        PROVE  SendInv'
    <2>1. actor["cli"].day \in 0..MaxDay
      BY <1>2 DEF ActorRows
    <2>2. QuietRow("cli", Inserting(goal, o, r, actor["cli"].day, text))
      BY <1>2, <2>1, InsertRow
    <2>3. Forward
      BY <1>5, Tables, SameOutbox DEF CliCheck
    <2> QED BY <1>5, <2>2, <2>3, Tables, SameTables, QuietStep DEF CliCheck
  <1> QED BY <1>3, <1>4, <1>5 DEF CliNext

-----------------------------------------------------------------------------
(* The send path.                                                          *)

\* A process on the send path works on a decision.
LEMMA OnPath ==
  ASSUME SendInv, NEW a \in Actors, actor[a].pc \in SendPcs
  PROVE  /\ actor[a] \in ActorRows
         /\ actor[a].obj \in Objects /\ actor[a].rev \in Revisions
         /\ actor[a].day \in 0..MaxDay /\ actor[a].ans \in Answers \cup {Null}
  <1>1. actor[a] \in ActorRows
    BY DEF SendInv, PipelineTypeOK
  <1>2. actor[a].obj \in Objects /\ actor[a].rev \in Revisions
    BY DEF SendInv, PathShape
  <1> QED BY <1>1, <1>2 DEF ActorRows

\* admit's transaction and the checks before the claim.
LEMMA BeforeClaimInv ==
  ASSUME PipelineAssumption, SendInv, NEW a \in Actors,
         AdmitInsert(a) \/ SendVet(a) \/ SendGate(a)
  PROVE  SendInv'
  <1>1. actor[a].pc \in {"insert", "admitted", "vetted"}
    BY DEF AdmitInsert, SendVet, SendGate
  <1>2. /\ actor[a] \in ActorRows
        /\ actor[a].obj \in Objects /\ actor[a].rev \in Revisions
        /\ actor[a].day \in 0..MaxDay /\ actor[a].ans \in Answers \cup {Null}
    BY <1>1, OnPath DEF SendPcs
  <1>3. \A day \in 0..MaxDay, ans \in Answers \cup {Null}, pc \in {"admitted", "vetted", "cleared"} :
           QuietRow(a, Sending(pc, actor[a], day, ans))
    <2>1. TAKE day \in 0..MaxDay, ans \in Answers \cup {Null},
               pc \in {"admitted", "vetted", "cleared"}
    <2>2. pc \in SendPcs /\ pc # "answered" /\ pc # "finished" /\ pc \notin FlightPcs
      BY DEF SendPcs, FlightPcs
    <2> QED BY <1>2, <2>2, PathRow
  <1>4. CASE AdmitInsert(a)
    <2> DEFINE now == IF a = "service" THEN today ELSE actor[a].day
    <2>1. now \in 0..MaxDay
      BY <1>2, Tables DEF ClockOK
    <2>2. UNCHANGED <<rev, live, review, notices, decisions, mode, today, faults, history>>
      BY <1>4 DEF AdmitInsert
    <2>3. Forward
      <3>1. actor[a].text \in Texts \cup {Null} /\ actor[a].rev \in 0..MaxRevision
        BY <1>2 DEF ActorRows
      <3>2. CASE Admit(actor[a].obj, actor[a].rev, actor[a].text, actor[a].goal = "dry")
        <4>1. ASSUME NEW dry \in BOOLEAN,
                     Admit(actor[a].obj, actor[a].rev, actor[a].text, dry)
              PROVE  Forward
          BY <1>2, <3>1, <4>1, Tables, AdmitForward
        <4> QED BY <3>2, <4>1
      <3>3. CASE UNCHANGED outbox
        BY <3>3, Tables, SameOutbox
      <3> QED BY <1>4, <3>2, <3>3 DEF AdmitInsert
    <2>4. Return(a) \/ Become(a, Sending("admitted", actor[a], now, Null))
      BY <1>4 DEF AdmitInsert
    <2> HIDE DEF now
    <2>5. QuietRow(a, Sending("admitted", actor[a], now, Null))
      BY <1>3, <2>1
    <2>6. JournalTypeOK' /\ LedgerTypeOK' /\ ClockOK' /\ UNCHANGED history
      BY <2>2, Tables, SameTables
    <2> QED BY <2>3, <2>4, <2>5, <2>6, ReturnStep, QuietStep
  <1>5. CASE SendVet(a)
    <2>1. Forward
      BY <1>5, Tables, SameOutbox DEF SendVet
    <2>2. JournalTypeOK' /\ LedgerTypeOK' /\ ClockOK' /\ UNCHANGED history
      BY <1>5, Tables, SameTables DEF SendVet
    <2>3. Return(a) \/ Goto(a, "vetted")
      BY <1>5 DEF SendVet
    <2> QED BY <1>2, <1>3, <2>1, <2>2, <2>3, ReturnStep, QuietStep DEF Goto
  <1>6. CASE SendGate(a)
    <2>1. Hold(actor[a].obj, actor[a].rev) \/ UNCHANGED outbox
      BY <1>6 DEF SendGate
    <2>2. Forward
      BY <1>2, <2>1, Tables, SameOutbox, HoldForward
    <2>3. JournalTypeOK' /\ LedgerTypeOK' /\ ClockOK' /\ UNCHANGED history
      BY <1>6, Tables, SameTables DEF SendGate
    <2>4. Return(a) \/ Goto(a, "cleared")
      BY <1>6 DEF SendGate
    <2> QED BY <1>2, <1>3, <2>2, <2>3, <2>4, ReturnStep, QuietStep DEF Goto
  <1> QED BY <1>4, <1>5, <1>6

\* The claim: whoever takes a pending row is alone with a message not sent.
LEMMA ClaimInv ==
  ASSUME PipelineAssumption, SendInv, NEW a \in Actors, SendClaim(a)
  PROVE  SendInv'
  <1> DEFINE o == actor[a].obj
             r == actor[a].rev
  <1>1. actor[a].pc = "cleared"
    BY DEF SendClaim
  <1>2. actor[a] \in ActorRows /\ o \in Objects /\ r \in Revisions
    BY <1>1, OnPath DEF SendPcs
  <1>3. UNCHANGED <<rev, live, review, notices, decisions, mode, today, faults, history>>
    BY DEF SendClaim
  <1>4. JournalTypeOK' /\ LedgerTypeOK' /\ ClockOK' /\ UNCHANGED history
    BY <1>3, Tables, SameTables
  <1>5. CASE UNCHANGED outbox /\ Return(a)
    BY <1>4, <1>5, Tables, SameOutbox, ReturnStep
  <1>6. CASE Claim(o, r) /\ Goto(a, "claimed")
    <2> DEFINE row == Sending("claimed", actor[a], actor[a].day, actor[a].ans)
    <2>1. row \in ActorRows /\ row.pc = "claimed" /\ row.obj = o /\ row.rev = r
      BY <1>2 DEF Sending, ActorRows, SendPcs
    <2>2. Become(a, row)
      BY <1>6 DEF Goto
    <2> HIDE DEF row
    <2>3. /\ actor' \in [Actors -> ActorRows] /\ actor'[a] = row
          /\ \A b \in Actors : b # a => actor'[b] = actor[b]
      BY <2>1, <2>2 DEF SendInv, PipelineTypeOK, Become
    <2>4. outbox[o].status = "pending" /\ outbox[o] \in OutboxRows
      BY <1>2, <1>6, Tables DEF Claim, RowStatus, OutboxTypeOK
    <2>5. outbox' = [outbox EXCEPT ![o] = InStatus(outbox[o], "claimed")]
      BY <1>6 DEF Claim
    <2>6. InStatus(outbox[o], "claimed") \in OutboxRows
          /\ InStatus(outbox[o], "claimed").status = "claimed"
      BY <2>4, OutboxRowFacts DEF Statuses
    <2>7. /\ OutboxTypeOK' /\ outbox'[o].status = "claimed"
          /\ \A p \in Objects : p # o => outbox'[p] = outbox[p]
      BY <1>2, <2>5, <2>6, Tables DEF OutboxTypeOK
    <2>8. sends' = sends /\ interruptions' = interruptions
      BY <1>4 DEF history
    <2>9. sends[o] = 0 /\ \A b \in Actors : ~InFlight(b, o)
      BY <1>2, <2>4 DEF SendInv, Unsent
    <2>10. PipelineTypeOK'
      BY <1>4, <2>3, <2>7, <2>8 DEF SendInv, PipelineTypeOK, ClockOK
    <2>11. PathShape'
      <3> SUFFICES ASSUME NEW b \in Actors
                   PROVE  /\ actor'[b].pc \in SendPcs =>
                                actor'[b].obj \in Objects /\ actor'[b].rev \in Revisions
                          /\ actor'[b].pc \in {"answered", "finished"} =>
                                actor'[b].ans \in Answers
                          /\ actor'[b].pc \in CleanPcs =>
                                actor'[b].goal \in {"idle", "review", "control"}
        BY DEF PathShape
      <3>1. CASE b = a
        BY <1>2, <2>1, <2>3, <3>1 DEF CleanPcs
      <3>2. CASE b # a
        BY <2>3, <3>2 DEF SendInv, PathShape
      <3> QED BY <3>1, <3>2
    <2>12. \A p \in Objects : /\ outbox'[p].status \in Unsent => sends'[p] = 0
                              /\ outbox'[p].status \in Reported => sends'[p] > 0
                              /\ sends'[p] <= 1
      <3>1. TAKE p \in Objects
      <3>2. CASE p = o
        BY <2>7, <2>8, <2>9, <3>2 DEF Unsent, Reported
      <3>3. CASE p # o
        BY <2>7, <2>8, <3>3 DEF SendInv
      <3> QED BY <3>2, <3>3
    <2>13. \A b \in Actors, p \in Objects :
              InFlight(b, p)' => IF p = o THEN b = a ELSE b # a /\ InFlight(b, p)
      <3>1. TAKE b \in Actors, p \in Objects
      <3>2. CASE b = a
        BY <2>1, <2>3, <3>2 DEF InFlight
      <3>3. CASE b # a
        BY <2>3, <2>9, <3>3 DEF InFlight
      <3> QED BY <3>2, <3>3
    <2>14. \A b \in Actors, p \in Objects :
              InFlight(b, p)' => sends'[p] = 0 /\ outbox'[p].status \notin Unsent
      <3>1. TAKE b \in Actors, p \in Objects
      <3>2. CASE p = o
        BY <2>7, <2>8, <2>9, <3>2 DEF Unsent
      <3>3. CASE p # o
        BY <2>7, <2>8, <2>13, <3>3 DEF SendInv
      <3> QED BY <3>2, <3>3
    <2>15. \A b, c \in Actors, p \in Objects : InFlight(b, p)' /\ InFlight(c, p)' => b = c
      BY <2>13 DEF SendInv
    <2>16. \A b \in Actors : actor'[b].pc = "answered" => sends'[actor'[b].obj] > 0
      BY <2>1, <2>3, <2>8 DEF SendInv
    <2> QED BY <2>10, <2>11, <2>12, <2>14, <2>15, <2>16 DEF SendInv
  <1> QED BY <1>5, <1>6 DEF SendClaim

\* The transport call: the claim holder's, on a message not sent before.
LEMMA TransportInv ==
  ASSUME PipelineAssumption, SendInv, NEW a \in Actors, SendTransport(a)
  PROVE  SendInv'
  <1> DEFINE o == actor[a].obj
  <1>1. actor[a].pc = "sending"
    BY DEF SendTransport
  <1>2. actor[a] \in ActorRows /\ o \in Objects /\ actor[a].rev \in Revisions
        /\ actor[a].day \in 0..MaxDay
    BY <1>1, OnPath DEF SendPcs
  <1>3. PICK answer \in Answers : Become(a, Sending("answered", actor[a], actor[a].day, answer))
    BY DEF SendTransport
  <1> DEFINE row == Sending("answered", actor[a], actor[a].day, answer)
  <1>4. row \in ActorRows /\ row.pc = "answered" /\ row.obj = o /\ row.rev = actor[a].rev
        /\ row.ans = answer
    BY <1>2 DEF Sending, ActorRows, SendPcs
  <1>5. Become(a, row)
    BY <1>3
  <1> HIDE DEF row
  <1>6. /\ actor' \in [Actors -> ActorRows] /\ actor'[a] = row
        /\ \A b \in Actors : b # a => actor'[b] = actor[b]
    BY <1>4, <1>5 DEF SendInv, PipelineTypeOK, Become
  <1>7. InFlight(a, o)
    BY <1>1 DEF InFlight, FlightPcs
  <1>8. sends[o] = 0 /\ outbox[o].status \notin Unsent
        /\ \A b \in Actors : InFlight(b, o) => b = a
    BY <1>2, <1>7 DEF SendInv
  <1>9. /\ sends' \in [Objects -> Nat] /\ sends'[o] = 1
        /\ \A p \in Objects : p # o => sends'[p] = sends[p]
    BY <1>2, <1>8 DEF SendTransport, SendInv, PipelineTypeOK
  <1>10. interruptions' \in [1..MaxDay -> Nat]
    BY DEF SendTransport, SendInv, PipelineTypeOK
  <1>11. outbox' = outbox /\ JournalTypeOK' /\ LedgerTypeOK' /\ ClockOK' /\ OutboxTypeOK'
    BY Tables, SameTables DEF SendTransport, OutboxTypeOK
  <1>12. PipelineTypeOK'
    BY <1>6, <1>9, <1>10, <1>11 DEF PipelineTypeOK, ClockOK
  <1>13. PathShape'
    <2> SUFFICES ASSUME NEW b \in Actors
                 PROVE  /\ actor'[b].pc \in SendPcs =>
                              actor'[b].obj \in Objects /\ actor'[b].rev \in Revisions
                        /\ actor'[b].pc \in {"answered", "finished"} => actor'[b].ans \in Answers
                        /\ actor'[b].pc \in CleanPcs =>
                              actor'[b].goal \in {"idle", "review", "control"}
      BY DEF PathShape
    <2>1. CASE b = a
      BY <1>2, <1>4, <1>6, <2>1 DEF CleanPcs
    <2>2. CASE b # a
      BY <1>6, <2>2 DEF SendInv, PathShape
    <2> QED BY <2>1, <2>2
  <1>14. \A p \in Objects : /\ outbox'[p].status \in Unsent => sends'[p] = 0
                            /\ outbox'[p].status \in Reported => sends'[p] > 0
                            /\ sends'[p] <= 1
    <2>1. TAKE p \in Objects
    <2>2. CASE p = o
      BY <1>8, <1>9, <1>11, <2>2
    <2>3. CASE p # o
      BY <1>9, <1>11, <2>3 DEF SendInv
    <2> QED BY <2>2, <2>3
  <1>15. \A b \in Actors, p \in Objects : InFlight(b, p)' => p # o /\ InFlight(b, p)
    <2>1. TAKE b \in Actors, p \in Objects
    <2>2. CASE b = a
      BY <1>4, <1>6, <2>2 DEF InFlight, FlightPcs
    <2>3. CASE b # a
      BY <1>6, <1>8, <2>3 DEF InFlight
    <2> QED BY <2>2, <2>3
  <1>16. \A b \in Actors, p \in Objects :
            InFlight(b, p)' => sends'[p] = 0 /\ outbox'[p].status \notin Unsent
    BY <1>9, <1>11, <1>15 DEF SendInv
  <1>17. \A b, c \in Actors, p \in Objects : InFlight(b, p)' /\ InFlight(c, p)' => b = c
    BY <1>15 DEF SendInv
  <1>18. \A b \in Actors : actor'[b].pc = "answered" => sends'[actor'[b].obj] > 0
    <2>1. TAKE b \in Actors
    <2>2. CASE b = a
      BY <1>4, <1>6, <1>9, <2>2
    <2>3. CASE b # a
      <3>1. actor[b].pc = "answered" => sends[actor[b].obj] > 0 /\ actor[b].obj \in Objects
        BY DEF SendInv, PathShape, SendPcs
      <3> QED BY <1>6, <1>9, <2>3, <3>1
    <2> QED BY <2>2, <2>3
  <1> QED BY <1>12, <1>13, <1>14, <1>16, <1>17, <1>18 DEF SendInv

\* Between the claim and the call, and after the call.
LEMMA AfterClaimInv ==
  ASSUME PipelineAssumption, SendInv, NEW a \in Actors,
         SendRecheck(a) \/ SendLastGate(a) \/ SendFinish(a) \/ SendMark(a)
  PROVE  SendInv'
  <1> DEFINE o == actor[a].obj
             r == actor[a].rev
  <1>1. actor[a].pc \in {"claimed", "current", "answered", "finished"}
    BY DEF SendRecheck, SendLastGate, SendFinish, SendMark
  <1>2. /\ actor[a] \in ActorRows /\ o \in Objects /\ r \in Revisions
        /\ actor[a].day \in 0..MaxDay /\ actor[a].ans \in Answers \cup {Null}
    BY <1>1, OnPath DEF SendPcs
  <1>3. Finish(o, r, "held") => Forward
    BY <1>2, Tables, FinishForward DEF Answers, Reported
  <1>4. CASE SendRecheck(a) \/ SendLastGate(a)
    <2>1. actor[a].pc \in FlightPcs
      BY <1>4 DEF SendRecheck, SendLastGate, FlightPcs
    <2>2. Finish(o, r, "held") \/ UNCHANGED outbox
      BY <1>4 DEF SendRecheck, SendLastGate
    <2>3. Forward
      BY <1>3, <2>2, Tables, SameOutbox
    <2>4. JournalTypeOK' /\ LedgerTypeOK' /\ ClockOK' /\ UNCHANGED history
      BY <1>4, Tables, SameTables DEF SendRecheck, SendLastGate
    <2>5. Return(a) \/ \E pc \in {"current", "sending"} : Goto(a, pc)
      BY <1>4 DEF SendRecheck, SendLastGate
    <2>6. ASSUME NEW pc \in {"current", "sending"}, Goto(a, pc) PROVE SendInv'
      <3>1. pc \in SendPcs /\ pc # "answered" /\ pc # "finished"
        BY DEF SendPcs
      <3>2. QuietRow(a, Sending(pc, actor[a], actor[a].day, actor[a].ans))
        BY <1>2, <2>1, <3>1, PathRow
      <3> QED BY <2>3, <2>4, <2>6, <3>2, QuietStep DEF Goto
    <2> QED BY <2>3, <2>4, <2>5, <2>6, ReturnStep
  <1>5. CASE SendFinish(a)
    <2>1. actor[a].ans \in Answers /\ sends[o] > 0
      BY <1>5 DEF SendFinish, SendInv, PathShape
    <2>2. Finish(o, r, actor[a].ans) \/ UNCHANGED outbox
      BY <1>5 DEF SendFinish
    <2>3. Forward
      BY <1>2, <2>1, <2>2, Tables, SameOutbox, FinishForward
    <2>4. JournalTypeOK' /\ LedgerTypeOK' /\ ClockOK' /\ UNCHANGED history
      BY <1>5, Tables, SameTables DEF SendFinish
    <2>5. Return(a) \/ Goto(a, "finished")
      BY <1>5 DEF SendFinish
    <2>6. QuietRow(a, Sending("finished", actor[a], actor[a].day, actor[a].ans))
      BY <1>2, <2>1, PathRow DEF SendPcs, FlightPcs
    <2> QED BY <2>3, <2>4, <2>5, <2>6, ReturnStep, QuietStep DEF Goto
  <1>6. CASE SendMark(a)
    <2>1. actor[a].ans \in Answers /\ r \in Revs
      BY <1>2, <1>6 DEF SendMark, SendInv, PathShape, Revs, Revisions
    <2>2. LedgerTypeOK'
      BY <1>2, <1>6, <2>1, Tables, MarkTypes DEF SendMark
    <2>3. Forward
      BY <1>6, Tables, SameOutbox DEF SendMark
    <2>4. JournalTypeOK' /\ ClockOK' /\ UNCHANGED history /\ Return(a)
      BY <1>6, Tables, SameTables DEF SendMark
    <2> QED BY <2>2, <2>3, <2>4, ReturnStep
  <1> QED BY <1>4, <1>5, <1>6

-----------------------------------------------------------------------------
(* The theorems.                                                           *)

\* The passing of time, and stuttering, keep the invariant.
LEMMA IdleInv ==
  ASSUME PipelineAssumption, SendInv, NextDay \/ UNCHANGED vars
  PROVE  SendInv'
  <1>1. UNCHANGED <<rev, live, review, notices, decisions, outbox, actor, mode, crashes, errors,
                    sends, interruptions>>
        /\ today' \in 1..MaxDay
    BY DEF NextDay, vars, faults, history, SendInv, PipelineTypeOK, PipelineAssumption
  <1>2. PipelineTypeOK'
    <2>1. JournalTypeOK' /\ LedgerTypeOK' /\ OutboxTypeOK'
      BY <1>1, Tables DEF JournalTypeOK, LedgerTypeOK, OutboxTypeOK
    <2> QED BY <1>1, <2>1 DEF PipelineTypeOK, SendInv
  <1>3. PathShape'
    BY <1>1 DEF PathShape, SendInv
  <1> QED BY <1>1, <1>2, <1>3 DEF SendInv, InFlight

\* Every step of either process keeps the invariant.
LEMMA NextInv == PipelineAssumption /\ SendInv /\ [Next]_vars => SendInv'
  <1> SUFFICES ASSUME PipelineAssumption, SendInv, [Next]_vars PROVE SendInv'
    OBVIOUS
  <1>1. ASSUME "service" \in Actors, ServiceNext PROVE SendInv'
    BY <1>1, ProcessInv, CleanInv, RequestInv DEF ServiceNext
  <1>2. ASSUME "cli" \in Actors, CliNext PROVE SendInv'
    BY <1>2, CliInv
  <1>3. ASSUME NEW a \in Actors, SendStep(a) PROVE SendInv'
    BY <1>3, BeforeClaimInv, ClaimInv, TransportInv, AfterClaimInv DEF SendStep
  <1>4. ASSUME NextDay \/ UNCHANGED vars PROVE SendInv'
    BY <1>4, IdleInv
  <1> QED BY <1>1, <1>2, <1>3, <1>4 DEF Next

\* The invariant holds throughout.
LEMMA Invariance == Spec => []SendInv
  <1>1. Init => SendInv
    BY InitInv, PipelineAssumption
  <1>2. SendInv /\ [Next]_vars => SendInv'
    BY NextInv, PipelineAssumption
  <1> QED BY <1>1, <1>2, PTL DEF Spec

\* The three tables, the processes and the clocks keep their types.
THEOREM TypeCorrect == Spec => []PipelineTypeOK
  <1>1. SendInv => PipelineTypeOK
    BY DEF SendInv
  <1> QED BY <1>1, Invariance, PTL

\* send_once, its claim and both recoveries together call the transport at
\* most once per occurrence.
THEOREM OneSend == Spec => []AtMostOneSend
  <1>1. SendInv => AtMostOneSend
    BY DEF SendInv, AtMostOneSend
  <1> QED BY <1>1, Invariance, PTL

\* A message that went out is on record for good, and only such a message is
\* recorded as accepted or delivered.
THEOREM SendsAreRecorded == Spec => []SentIsOnRecord
  <1>1. SendInv => SentIsOnRecord
    <2> SUFFICES ASSUME SendInv, NEW o \in Objects
                 PROVE  /\ sends[o] > 0 => outbox[o].status \in {"claimed", "accepted",
                                                 "delivered", "uncertain", "held"}
                        /\ outbox[o].status \in {"accepted", "delivered"} => sends[o] > 0
      BY DEF SentIsOnRecord
    <2>1. outbox[o].status \in Statuses /\ sends[o] \in Nat
      BY DEF SendInv, PipelineTypeOK, OutboxTypeOK, OutboxRows
    <2>2. outbox[o].status \in Unsent => sends[o] = 0
      BY DEF SendInv
    <2>3. outbox[o].status \in Reported => sends[o] > 0
      BY DEF SendInv
    <2> QED BY <2>1, <2>2, <2>3 DEF Statuses, Final, TERMINAL, Unsent, Reported
  <1> QED BY <1>1, Invariance, PTL

-----------------------------------------------------------------------------
(* Ended rows stay ended: the outbox changes through six transactions.     *)

\* A transaction on one row of the outbox.
RowStep(o) ==
    \/ PurgeRow(o)
    \/ \E r \in Revisions : Claim(o, r) \/ Hold(o, r) \/ \E s \in Answers : Finish(o, r, s)
    \/ \E r \in Revisions, text \in Texts \cup {Null}, dry \in BOOLEAN : Admit(o, r, text, dry)

\* No step of either process changes the outbox in any other way.
LEMMA OutboxSteps ==
  ASSUME PipelineAssumption, SendInv, [Next]_vars
  PROVE  UNCHANGED outbox \/ RecoverInflight \/ \E o \in Objects : RowStep(o)
  <1>1. CASE UNCHANGED vars \/ NextDay
    BY <1>1 DEF vars, NextDay
  <1>2. ASSUME ServiceNext
        PROVE  UNCHANGED outbox \/ RecoverInflight \/ \E o \in Objects : RowStep(o)
    <2>1. ASSUME NEW n \in notices, CleanOutbox(n) PROVE \E o \in Objects : RowStep(o)
      <3>1. n.obj \in Objects
        BY Tables DEF JournalTypeOK, Notices
      <3> QED BY <2>1, <3>1 DEF CleanOutbox, RowStep
    <2>2. ASSUME \/ ServiceCrash \/ RequestFails \/ CleanDone \/ ControlRefused
                 \/ ReviewAck \/ ReviewDone \/ DispatchDone
                 \/ Request("review") \/ Request("control")
          PROVE  UNCHANGED outbox
      BY <2>2 DEF ServiceCrash, RequestFails, CleanDone, ControlRefused, ReviewAck, ReviewDone,
                  DispatchDone, Request
    <2>3. ASSUME \/ \E n \in notices : CleanAttention(n) \/ CleanAck(n)
                 \/ \E p \in review : ReviewRecord(p[1], p[2])
                 \/ \E o \in Objects, r \in Revisions :
                       \/ IngestRequest(o, r) \/ DispatchCheck(o, r)
                       \/ \E op \in {"snooze", "dismiss", "stop"} : ControlDecision(o, r, op)
          PROVE  UNCHANGED outbox
      BY <2>3 DEF CleanAttention, CleanAck, ReviewRecord, IngestRequest, DispatchCheck,
                  ControlDecision
    <2> QED BY <1>2, <2>1, <2>2, <2>3 DEF ServiceNext, Clean, ServiceStart
  <1>3. ASSUME CliNext PROVE UNCHANGED outbox \/ RecoverInflight
    BY <1>3 DEF CliNext, CliStart, CliExit, CliCheck
  <1>4. ASSUME NEW a \in Actors, SendStep(a)
        PROVE  UNCHANGED outbox \/ \E o \in Objects : RowStep(o)
    <2> DEFINE o == actor[a].obj
               r == actor[a].rev
    <2>1. actor[a].pc \in SendPcs
      BY <1>4 DEF SendStep, AdmitInsert, SendVet, SendGate, SendClaim, SendRecheck, SendLastGate,
                  SendTransport, SendFinish, SendMark, SendPcs
    <2>2. o \in Objects /\ r \in Revisions /\ actor[a] \in ActorRows
      BY <2>1, OnPath
    <2>3. CASE AdmitInsert(a)
      <3>1. actor[a].text \in Texts \cup {Null} /\ (actor[a].goal = "dry") \in BOOLEAN
        BY <2>2 DEF ActorRows
      <3>2. UNCHANGED outbox \/ Admit(o, r, actor[a].text, actor[a].goal = "dry")
        BY <2>3 DEF AdmitInsert
      <3>3. ASSUME NEW dry \in BOOLEAN, Admit(o, r, actor[a].text, dry) PROVE RowStep(o)
        BY <2>2, <3>1, <3>3 DEF RowStep
      <3> QED BY <2>2, <3>1, <3>2, <3>3
    <2>4. CASE SendGate(a) \/ SendClaim(a)
      <3>1. UNCHANGED outbox \/ Hold(o, r) \/ Claim(o, r)
        BY <2>4 DEF SendGate, SendClaim
      <3> QED BY <2>2, <3>1 DEF RowStep
    <2>5. CASE SendRecheck(a) \/ SendLastGate(a)
      <3>1. UNCHANGED outbox \/ Finish(o, r, "held")
        BY <2>5 DEF SendRecheck, SendLastGate
      <3>2. "held" \in Answers
        BY DEF Answers
      <3> QED BY <2>2, <3>1, <3>2 DEF RowStep
    <2>6. CASE SendFinish(a)
      <3>1. UNCHANGED outbox \/ Finish(o, r, actor[a].ans)
        BY <2>6 DEF SendFinish
      <3>2. actor[a].ans \in Answers
        BY <2>6 DEF SendFinish, SendInv, PathShape
      <3> QED BY <2>2, <3>1, <3>2 DEF RowStep
    <2>7. CASE SendVet(a) \/ SendTransport(a) \/ SendMark(a)
      BY <2>7 DEF SendVet, SendTransport, SendMark
    <2> QED BY <1>4, <2>3, <2>4, <2>5, <2>6, <2>7 DEF SendStep
  <1> QED BY <1>1, <1>2, <1>3, <1>4 DEF Next

\* A transaction on a row that has ended leaves its status.
LEMMA RowStepEnds ==
  ASSUME OutboxTypeOK, NEW o \in Objects, RowStep(o), NEW p \in Objects,
         outbox[p].status \in Final
  PROVE  outbox'[p].status = outbox[p].status
  <1>1. outbox[p].status \notin {"none", "shadow", "pending", "claimed"}
    BY DEF Final, TERMINAL
  <1>2. CASE PurgeRow(o)
    <2>1. CASE p = o /\ outbox[o].body
      <3>1. outbox'[o] = Scrubbed(outbox[o], outbox[o].status)
        BY <1>1, <1>2, <2>1 DEF PurgeRow, OutboxTypeOK
      <3> QED BY <2>1, <3>1 DEF Scrubbed
    <2>2. CASE p # o \/ ~outbox[o].body
      BY <1>2, <2>2 DEF PurgeRow, OutboxTypeOK
    <2> QED BY <2>1, <2>2
  <1>3. ASSUME NEW r \in Revisions, Claim(o, r) \/ Hold(o, r) \/ \E s \in Answers : Finish(o, r, s)
        PROVE  outbox'[p].status = outbox[p].status
    <2>1. CASE p = o
      <3>1. RowStatus(o, r) \notin {"pending", "claimed"}
        BY <1>1, <2>1 DEF RowStatus
      <3> QED BY <1>3, <2>1, <3>1 DEF Claim, Hold, Finish
    <2>2. CASE p # o
      <3>1. outbox' = outbox \/ \E s : outbox' = [outbox EXCEPT ![o] = InStatus(outbox[o], s)]
        BY <1>3 DEF Claim, Hold, Finish
      <3> QED BY <2>2, <3>1 DEF OutboxTypeOK
    <2> QED BY <2>1, <2>2
  <1>4. ASSUME NEW r \in Revisions, NEW text \in Texts \cup {Null}, NEW dry \in BOOLEAN,
               Admit(o, r, text, dry)
        PROVE  outbox'[p].status = outbox[p].status
    <2>1. CASE p = o
      <3>1. AdmittedRow(o, r, text, dry) = outbox[o]
        BY <1>1, <1>4, <2>1 DEF Admit, AdmitRefused, AdmittedRow
      <3> QED BY <1>4, <2>1, <3>1 DEF Admit, OutboxTypeOK
    <2>2. CASE p # o
      BY <1>4, <2>2 DEF Admit, OutboxTypeOK
    <2> QED BY <2>1, <2>2
  <1> QED BY <1>2, <1>3, <1>4 DEF RowStep

\* No claim, hold, purge, recovery or replayed admission reopens or relabels
\* a row that reached a terminal status.
THEOREM EndedRowsStay == Spec => FinalStaysFinal
  <1> DEFINE Stay == \A o \in Objects :
                        outbox[o].status \in Final => outbox'[o].status = outbox[o].status
  <1>1. PipelineAssumption /\ SendInv /\ [Next]_vars => [Stay]_vars
    <2> SUFFICES ASSUME PipelineAssumption, SendInv, [Next]_vars,
                        NEW o \in Objects, outbox[o].status \in Final
                 PROVE  outbox'[o].status = outbox[o].status
      OBVIOUS
    <2>1. CASE UNCHANGED outbox
      BY <2>1
    <2>2. CASE RecoverInflight
      BY <2>2 DEF RecoverInflight, Final, TERMINAL
    <2>3. ASSUME NEW p \in Objects, RowStep(p) PROVE outbox'[o].status = outbox[o].status
      BY <2>3, Tables, RowStepEnds
    <2> QED BY <2>1, <2>2, <2>3, OutboxSteps
  <1>2. SendInv /\ [Next]_vars => [Stay]_vars
    BY <1>1, PipelineAssumption
  <1> QED BY <1>2, Invariance, PTL DEF Spec, FinalStaysFinal

-----------------------------------------------------------------------------
(* From the journal to the ledger and the outbox.  A crash may come between *)
(* any two of the transactions, so each is tied to what the service knows   *)
(* at its control point.                                                   *)

\* What the journal says of its queues: reviews and notices are about the
\* present revision, and a revision with a notice is still to be reviewed.
JournalFacts ==
    /\ \A o \in Objects : live[o] => rev[o] > 0
    /\ \A p \in review : Served(p[1], p[2])
    /\ \A n \in notices : /\ n.rev <= rev[n.obj]
                          /\ live[n.obj] => <<n.obj, rev[n.obj]>> \in review

\* The service reviews with no purge queued, acknowledges a review with its
\* decision made and a notice with the object's decisions purged.
ServiceFacts ==
    "service" \in Actors =>
        /\ service.pc \in {"ackReview", "ackNotice"} =>
              service.obj \in Objects /\ service.rev \in Revisions
        /\ service.pc \in {"review", "ackReview"} => notices = {}
        /\ service.pc = "ackReview" => decisions[service.obj][service.rev].state # "none"
        /\ service.pc = "ackNotice" =>
              \A r \in Revisions : decisions[service.obj][r].state # "pending"

FollowInv == JournalFacts /\ ServiceFacts /\ PendingDecisionIsCurrent /\ AcceptedIsReviewed

\* The control points ServiceFacts speaks of.
Knowing == {"review", "ackReview", "ackNotice"}

\* The service stays where it is or goes where nothing need be known.
Unknowing ==
    "service" \in Actors =>
        actor'["service"] = actor["service"] \/ actor'["service"].pc \notin Knowing

\* A step outside journal and ledger keeps the invariant.
LEMMA QuietFollow ==
  ASSUME FollowInv, UNCHANGED <<rev, live, review, notices, decisions>>, Unknowing
  PROVE  FollowInv'
  <1>1. JournalFacts' /\ PendingDecisionIsCurrent' /\ AcceptedIsReviewed'
    BY DEF FollowInv, JournalFacts, PendingDecisionIsCurrent, AcceptedIsReviewed, Served
  <1>2. ServiceFacts'
    BY DEF FollowInv, ServiceFacts, Unknowing, Knowing, service
  <1> QED BY <1>1, <1>2 DEF FollowInv

\* Where Become takes the service.
LEMMA BecomeService ==
  ASSUME SendInv, NEW a \in Actors, NEW row, Become(a, row)
  PROVE  /\ "service" \in Actors =>
               actor'["service"] = IF a = "service" THEN row ELSE actor["service"]
         /\ row.pc \notin Knowing => Unknowing
  BY DEF SendInv, PipelineTypeOK, Become, Unknowing

\* The rows the steps write.
LEMMA RowPcs ==
  /\ \A pc, goal : At(pc, goal).pc = pc
  /\ \A pc, goal, o, r : LET row == Handling(pc, goal, o, r) IN
        row.pc = pc /\ row.goal = goal /\ row.obj = o /\ row.rev = r
  /\ \A pc, me, day, ans : LET row == Sending(pc, me, day, ans) IN
        row.pc = pc /\ row.obj = me.obj /\ row.rev = me.rev
  /\ \A goal, o, r, day, text : LET row == Inserting(goal, o, r, day, text) IN
        row.pc = "insert" /\ row.obj = o /\ row.rev = r
  BY DEF At, Handling, Sending, Inserting

\* On the send path nothing but mark_delivery touches journal or ledger.
LEMMA PathQuiet ==
  ASSUME SendInv, NEW a \in Actors, SendStep(a)
  PROVE  /\ UNCHANGED <<rev, live, review, notices>>
         /\ UNCHANGED decisions \/ SendMark(a)
         /\ Unknowing
  <1>1. UNCHANGED <<rev, live, review, notices>>
    BY DEF SendStep, AdmitInsert, SendVet, SendGate, SendClaim, SendRecheck, SendLastGate,
           SendTransport, SendFinish, SendMark
  <1>2. UNCHANGED decisions \/ SendMark(a)
    BY DEF SendStep, AdmitInsert, SendVet, SendGate, SendClaim, SendRecheck, SendLastGate,
           SendTransport, SendFinish
  <1>3. \/ Return(a)
        \/ \E pc \in SendPcs : \E day, ans : Become(a, Sending(pc, actor[a], day, ans))
    BY DEF SendStep, AdmitInsert, SendVet, SendGate, SendClaim, SendRecheck, SendLastGate,
           SendTransport, SendFinish, SendMark, Goto, SendPcs
  <1>4. Unknowing
    BY <1>3, BecomeService, RowPcs DEF Return, SendPcs, Knowing
  <1> QED BY <1>1, <1>2, <1>4

\* Start, crash and abort, and the steps of a request without effect there.
LEMMA ServiceQuiet ==
  ASSUME SendInv, "service" \in Actors,
         \/ ServiceStart \/ ServiceCrash \/ RequestFails \/ ControlRefused \/ ReviewDone
         \/ DispatchDone \/ Request("review") \/ Request("control")
         \/ \E n \in notices : CleanOutbox(n)
         \/ \E o \in Objects, r \in Revisions : DispatchCheck(o, r)
  PROVE  UNCHANGED <<rev, live, review, notices, decisions>> /\ Unknowing
  <1>1. UNCHANGED <<rev, live, review, notices, decisions>>
    BY DEF ServiceStart, ServiceCrash, RequestFails, ControlRefused, ReviewDone, DispatchDone,
           Request, CleanOutbox, DispatchCheck
  <1>2. \/ \E pc \in {"idle", "down", "clean", "dispatch"} : \E goal : Become("service", At(pc, goal))
        \/ \E goal, o, r : Become("service", Handling("purgeAttention", goal, o, r))
        \/ \E goal, o, r, day, text : Become("service", Inserting(goal, o, r, day, text))
    BY DEF ServiceStart, ServiceCrash, RequestFails, ControlRefused, ReviewDone, DispatchDone,
           Request, CleanOutbox, DispatchCheck
  <1>3. Unknowing
    BY <1>2, BecomeService, RowPcs DEF Knowing
  <1> QED BY <1>1, <1>3

\* The CLI's own steps touch neither the journal nor the decisions.
LEMMA CliQuiet ==
  ASSUME SendInv, "cli" \in Actors, CliNext
  PROVE  UNCHANGED <<rev, live, review, notices, decisions>> /\ Unknowing
  <1>1. UNCHANGED <<rev, live, review, notices, decisions>>
    BY DEF CliNext, CliStart, CliExit, CliCheck
  <1>2. \E row : Become("cli", row)
    BY DEF CliNext, CliStart, CliExit, CliCheck
  <1>3. Unknowing
    BY <1>2, BecomeService DEF Unknowing
  <1> QED BY <1>1, <1>3

\* A decision that is marked was there before and waits no longer.
LEMMA MarkFollow ==
  ASSUME PipelineAssumption, SendInv, FollowInv, NEW a \in Actors, SendMark(a)
  PROVE  FollowInv'
  <1> DEFINE o == actor[a].obj
             r == actor[a].rev
  <1>1. o \in Objects /\ r \in Revs /\ UNCHANGED <<rev, live, review, notices>> /\ Unknowing
    BY PathQuiet DEF SendMark, SendStep, SendInv, PathShape, SendPcs, Revs, Revisions
  <1>2. \A p \in Objects, q \in Revs :
           /\ decisions'[p][q].state = "pending" => decisions[p][q].state = "pending"
           /\ decisions[p][q].state # "none" => decisions'[p][q].state # "none"
    <2>1. \/ decisions' = decisions
          \/ \E s \in {"held", "delivered", "uncertain"} :
                decisions' = [decisions EXCEPT ![o][r] = InState(decisions[o][r], s)]
      BY DEF SendMark, MarkDelivery, MarkAllowed
    <2>2. decisions \in [Objects -> [Revs -> DecisionRows]]
      BY DEF SendInv, PipelineTypeOK, LedgerTypeOK
    <2>3. \A s : InState(decisions[o][r], s).state = s
      BY <1>1, <2>2 DEF InState, DecisionRows
    <2> QED BY <1>1, <2>1, <2>2, <2>3
  <1>3. JournalFacts' /\ PendingDecisionIsCurrent' /\ AcceptedIsReviewed'
    BY <1>1, <1>2 DEF FollowInv, JournalFacts, PendingDecisionIsCurrent, AcceptedIsReviewed,
                      Served, Revs, Revisions
  <1>4. ServiceFacts'
    <2>1. CASE "service" \in Actors /\ actor'["service"] = actor["service"]
      BY <1>1, <1>2, <2>1 DEF FollowInv, ServiceFacts, service, Revs, Revisions
    <2>2. CASE "service" \in Actors /\ actor'["service"].pc \notin Knowing
      BY <2>2 DEF ServiceFacts, service, Knowing
    <2> QED BY <1>1, <2>1, <2>2 DEF Unknowing, ServiceFacts
  <1> QED BY <1>3, <1>4 DEF FollowInv

\* An accepted revision supersedes what was decided before: an object seen
\* for the first time has no decision, any other gets a notice.
LEMMA IngestFollow ==
  ASSUME PipelineAssumption, SendInv, FollowInv, "service" \in Actors,
         NEW o \in Objects, NEW r \in Revisions, IngestRequest(o, r)
  PROVE  FollowInv'
  <1>1. /\ JournalTypeOK /\ JournalTypeOK' /\ rev[o] \in Nat /\ r \in Nat /\ r > rev[o]
        /\ UNCHANGED decisions /\ Unknowing
    <2>1. JournalTypeOK /\ (Publish(o, r) \/ Withdraw(o, r)) /\ MaxRevision \in Nat
      BY DEF SendInv, PipelineTypeOK, IngestRequest, PipelineAssumption
    <2>2. Unknowing
      BY BecomeService, RowPcs DEF IngestRequest, Knowing
    <2> QED BY <2>1, <2>2, JournalTypes DEF IngestRequest, JournalTypeOK, Revisions, Publish, Withdraw
  <1>2. /\ rev' = [rev EXCEPT ![o] = r]
        /\ \E b \in BOOLEAN : live' = [live EXCEPT ![o] = b]
                              /\ (b => <<o, r>> \in review')
                              /\ (~b => \E n \in notices' : n.obj = o)
        /\ \A p \in review' : (p[1] # o /\ p \in review) \/ (p = <<o, r>> /\ live'[o])
        /\ \A p \in review : p[1] # o => p \in review'
        /\ rev[o] # 0 => \E n \in notices' : n.obj = o
        /\ notices \subseteq notices'
        /\ \A n \in notices' : n \in notices \/ (n.obj = o /\ n.rev = r)
    <2>1. PICK b \in BOOLEAN, op \in {"upsert", "delete"} :
             /\ rev' = [rev EXCEPT ![o] = r] /\ live' = [live EXCEPT ![o] = b]
             /\ review' = ReviewOf(Objects \ {o}) \cup (IF b THEN {<<o, r>>} ELSE {})
             /\ \/ notices' = notices \cup {Notice(o, r, op)}
                \/ b /\ rev[o] = 0 /\ notices' = notices
      BY DEF IngestRequest, Publish, Withdraw
    <2>2. live'[o] = b
      BY <1>1, <2>1 DEF JournalTypeOK
    <2>3. /\ \A p \in review' : (p[1] # o /\ p \in review) \/ (p = <<o, r>> /\ live'[o])
          /\ b => <<o, r>> \in review'
      BY <2>1, <2>2 DEF ReviewOf
    <2>4. \A p \in review : p[1] # o => p \in review'
      BY <1>1, <2>1 DEF ReviewOf, JournalTypeOK
    <2>5. Notice(o, r, op).obj = o /\ Notice(o, r, op).rev = r
      BY DEF Notice
    <2>6. /\ ~b \/ rev[o] # 0 => \E n \in notices' : n.obj = o
          /\ notices \subseteq notices'
          /\ \A n \in notices' : n \in notices \/ (n.obj = o /\ n.rev = r)
      BY <2>1, <2>5
    <2> QED BY <2>1, <2>3, <2>4, <2>6
  <1>3. \A p \in Objects : p # o => rev'[p] = rev[p] /\ live'[p] = live[p]
    BY <1>1, <1>2 DEF JournalTypeOK
  <1>4. rev'[o] = r
    BY <1>1, <1>2 DEF JournalTypeOK
  <1>5. \A n \in notices' : n.obj \in Objects /\ n.rev \in Nat
    BY <1>1 DEF JournalTypeOK, Notices, Revisions
  <1>6. JournalFacts'
    <2>1. \A p \in Objects : live'[p] => rev'[p] > 0
      BY <1>1, <1>3, <1>4 DEF FollowInv, JournalFacts
    <2>2. \A p \in review' : live'[p[1]] /\ rev'[p[1]] = p[2]
      BY <1>1, <1>2, <1>3, <1>4 DEF FollowInv, JournalFacts, Served, JournalTypeOK
    <2>3. ASSUME NEW n \in notices'
          PROVE  n.rev <= rev'[n.obj] /\ (live'[n.obj] => <<n.obj, rev'[n.obj]>> \in review')
      <3>1. CASE n.obj = o
        <4>1. n \in notices => n.rev <= rev[o]
          BY <3>1 DEF FollowInv, JournalFacts
        <4>2. n.rev <= r
          BY <1>1, <1>2, <1>5, <4>1
        <4> QED BY <1>1, <1>2, <1>4, <3>1, <4>2 DEF JournalTypeOK
      <3>2. CASE n.obj # o
        BY <1>2, <1>3, <1>5, <3>2 DEF FollowInv, JournalFacts
      <3> QED BY <3>1, <3>2
    <2> QED BY <2>1, <2>2, <2>3 DEF JournalFacts, Served
  <1>7. PendingDecisionIsCurrent'
    <2> SUFFICES ASSUME NEW p \in Objects, NEW q \in Revisions, decisions[p][q].state = "pending"
                 PROVE  Served(p, q)' \/ \E n \in notices' : n.obj = p
      BY <1>1 DEF PendingDecisionIsCurrent
    <2>1. Served(p, q) \/ \E n \in notices : n.obj = p
      BY DEF FollowInv, PendingDecisionIsCurrent
    <2>2. CASE p # o
      BY <1>2, <1>3, <2>1, <2>2 DEF Served
    <2>3. CASE p = o
      <3>1. CASE \E n \in notices : n.obj = p
        BY <1>2, <3>1
      <3>2. CASE Served(p, q)
        BY <1>2, <2>3, <3>2 DEF Served, FollowInv, JournalFacts
      <3> QED BY <2>1, <3>1, <3>2
    <2> QED BY <2>2, <2>3
  <1>8. AcceptedIsReviewed'
    <2> SUFFICES ASSUME NEW p \in Objects, NEW q \in Revisions, live'[p], rev'[p] = q
                 PROVE  <<p, q>> \in review' \/ decisions[p][q].state # "none"
      BY <1>1 DEF AcceptedIsReviewed, Served
    <2>1. CASE p # o
      BY <1>2, <1>3, <2>1 DEF FollowInv, AcceptedIsReviewed, Served
    <2>2. CASE p = o
      BY <1>1, <1>2, <1>4, <2>2 DEF JournalTypeOK
    <2> QED BY <2>1, <2>2
  <1>9. ServiceFacts'
    <2>1. actor'["service"].pc = "clean"
      BY BecomeService, RowPcs DEF IngestRequest
    <2> QED BY <2>1 DEF ServiceFacts, service
  <1> QED BY <1>6, <1>7, <1>8, <1>9 DEF FollowInv

\* cleanup's purge of the ledger: what it deletes of the served revision is
\* still to be reviewed.
LEMMA PurgeFollow ==
  ASSUME PipelineAssumption, SendInv, FollowInv, "service" \in Actors,
         NEW n \in notices, CleanAttention(n)
  PROVE  FollowInv'
  <1>1. /\ UNCHANGED <<rev, live, review, notices>>
        /\ n.obj \in Objects /\ n.rev \in Revisions /\ LedgerTypeOK
        /\ actor'["service"].pc = "ackNotice"
        /\ actor'["service"].obj = n.obj /\ actor'["service"].rev = n.rev
    <2>1. /\ UNCHANGED <<rev, live, review, notices>>
          /\ Become("service", Handling("ackNotice", service.goal, n.obj, n.rev))
      BY DEF CleanAttention
    <2>2. actor'["service"] = Handling("ackNotice", service.goal, n.obj, n.rev)
      BY <2>1, BecomeService
    <2>3. n.obj \in Objects /\ n.rev \in Revisions /\ LedgerTypeOK
      BY DEF SendInv, PipelineTypeOK, JournalTypeOK, Notices
    <2> QED BY <2>1, <2>2, <2>3, RowPcs
  <1>2. \A p \in Objects : p # n.obj => decisions'[p] = decisions[p]
    BY <1>1 DEF CleanAttention, PurgeDecisions, LedgerTypeOK
  <1>3. \A r \in Revs : decisions'[n.obj][r].state # "pending"
    <2> SUFFICES ASSUME NEW r \in Revs PROVE decisions'[n.obj][r].state # "pending"
      OBVIOUS
    <2>1. \/ decisions'[n.obj][r] = NoDecision
          \/ /\ decisions[n.obj][r].state \in {"stopped", "snoozed", "held"}
             /\ decisions'[n.obj][r] = Uncited(decisions[n.obj][r])
      BY <1>1 DEF CleanAttention, PurgeDecisions, LedgerTypeOK
    <2>2. Uncited(decisions[n.obj][r]).state = decisions[n.obj][r].state
      BY <1>1 DEF Uncited, LedgerTypeOK, DecisionRows
    <2> QED BY <2>1, <2>2 DEF NoDecision
  <1>4. JournalFacts'
    BY <1>1 DEF FollowInv, JournalFacts, Served
  <1>5. PendingDecisionIsCurrent'
    BY <1>1, <1>2, <1>3 DEF FollowInv, PendingDecisionIsCurrent, Served, Revs, Revisions
  <1>6. AcceptedIsReviewed'
    BY <1>1, <1>2 DEF FollowInv, AcceptedIsReviewed, JournalFacts, Served
  <1>7. ServiceFacts'
    BY <1>1, <1>3 DEF ServiceFacts, service, Revs, Revisions
  <1> QED BY <1>4, <1>5, <1>6, <1>7 DEF FollowInv

\* A notice goes when the object's decisions went.
LEMMA AckFollow ==
  ASSUME PipelineAssumption, SendInv, FollowInv, "service" \in Actors,
         NEW n \in notices, CleanAck(n)
  PROVE  FollowInv'
  <1>1. /\ UNCHANGED <<rev, live, review, decisions>> /\ notices' = notices \ {n}
        /\ service.pc = "ackNotice" /\ service.obj = n.obj
        /\ actor'["service"].pc = "clean"
    BY BecomeService, RowPcs DEF CleanAck, CurrentNotice, Purged
  <1>2. JournalFacts' /\ AcceptedIsReviewed'
    BY <1>1 DEF FollowInv, JournalFacts, AcceptedIsReviewed, Served
  <1>3. PendingDecisionIsCurrent'
    BY <1>1 DEF FollowInv, PendingDecisionIsCurrent, ServiceFacts, Served
  <1>4. ServiceFacts'
    BY <1>1 DEF ServiceFacts, service
  <1> QED BY <1>2, <1>3, <1>4 DEF FollowInv

\* A request goes on to its review with no purge queued.
LEMMA DoneFollow ==
  ASSUME SendInv, FollowInv, "service" \in Actors, CleanDone
  PROVE  FollowInv'
  <1>1. /\ UNCHANGED <<rev, live, review, notices, decisions>> /\ notices = {}
        /\ actor'["service"].pc = service.goal
    BY BecomeService, RowPcs DEF CleanDone
  <1>2. service.goal \in {"idle", "review", "control"}
    BY DEF CleanDone, SendInv, PathShape, CleanPcs, service
  <1>3. JournalFacts' /\ PendingDecisionIsCurrent' /\ AcceptedIsReviewed'
    BY <1>1 DEF FollowInv, JournalFacts, PendingDecisionIsCurrent, AcceptedIsReviewed, Served
  <1>4. ServiceFacts'
    BY <1>1, <1>2 DEF ServiceFacts, service
  <1> QED BY <1>3, <1>4 DEF FollowInv

\* The owner's reply makes no decision pending and deletes none.
LEMMA ControlFollow ==
  ASSUME PipelineAssumption, SendInv, FollowInv, "service" \in Actors,
         NEW o \in Objects, NEW r \in Revisions, NEW op, ControlDecision(o, r, op)
  PROVE  FollowInv'
  <1>1. UNCHANGED <<rev, live, review, notices>> /\ actor'["service"].pc = "idle"
    BY BecomeService, RowPcs DEF ControlDecision
  <1>2. \A p \in Objects, q \in Revisions :
           /\ decisions'[p][q].state = "pending" => decisions[p][q].state = "pending"
           /\ decisions[p][q].state # "none" => decisions'[p][q].state # "none"
    <2>1. decisions \in [Objects -> [Revisions -> DecisionRows]]
      BY DEF SendInv, PipelineTypeOK, LedgerTypeOK, Revs, Revisions
    <2>2. \A s : InState(decisions[o][r], s).state = s
      BY <2>1 DEF InState, DecisionRows
    <2>3. decisions' = [decisions EXCEPT ![o][r] = InState(decisions[o][r], Controlled(op))]
      BY DEF ControlDecision, ApplyDecision
    <2>4. Controlled(op) \notin {"pending", "none"}
      BY DEF Controlled
    <2> QED BY <2>1, <2>2, <2>3, <2>4
  <1>3. JournalFacts' /\ PendingDecisionIsCurrent' /\ AcceptedIsReviewed'
    BY <1>1, <1>2 DEF FollowInv, JournalFacts, PendingDecisionIsCurrent, AcceptedIsReviewed, Served
  <1>4. ServiceFacts'
    BY <1>1 DEF ServiceFacts, service
  <1> QED BY <1>3, <1>4 DEF FollowInv

\* A review records a decision of the served revision.
LEMMA RecordFollow ==
  ASSUME PipelineAssumption, SendInv, FollowInv, "service" \in Actors,
         NEW p \in review, ReviewRecord(p[1], p[2])
  PROVE  FollowInv'
  <1> DEFINE o == p[1]
             r == p[2]
  <1>1. /\ UNCHANGED <<rev, live, review, notices>> /\ o \in Objects /\ r \in Revisions
        /\ service.pc = "review" /\ actor'["service"].pc = "ackReview"
        /\ actor'["service"].obj = o /\ actor'["service"].rev = r
    BY BecomeService, RowPcs DEF ReviewRecord, SendInv, PipelineTypeOK, JournalTypeOK
  <1>2. Served(o, r)
    BY DEF FollowInv, JournalFacts
  <1>3. decisions \in [Objects -> [Revisions -> DecisionRows]]
    BY DEF SendInv, PipelineTypeOK, LedgerTypeOK, Revs, Revisions
  <1>4. /\ decisions'[o][r].state # "none"
        /\ \A q \in Objects, s \in Revisions : <<q, s>> # <<o, r>> => decisions'[q][s] = decisions[q][s]
    <2>1. CASE decisions[o][r].state # "none"
      BY <2>1 DEF ReviewRecord, RecordDecision
    <2>2. CASE decisions[o][r].state = "none"
      <3>0. PICK s \in {"stopped", "snoozed", "shadow", "pending"} : \E oc, day :
               decisions' = [decisions EXCEPT ![o][r] =
                     [state |-> s, outcome |-> oc, day |-> day, cited |-> TRUE]]
        BY <2>2 DEF ReviewRecord, RecordDecision
      <3>1. PICK oc, day :
               decisions' = [decisions EXCEPT ![o][r] =
                     [state |-> s, outcome |-> oc, day |-> day, cited |-> TRUE]]
        BY <3>0
      <3> DEFINE row == [state |-> s, outcome |-> oc, day |-> day, cited |-> TRUE]
      <3>2. row.state # "none" /\ decisions' = [decisions EXCEPT ![o][r] = row]
        BY <3>0, <3>1
      <3> HIDE DEF row
      <3> QED BY <1>1, <1>3, <3>2
    <2> QED BY <2>1, <2>2
  <1>5. JournalFacts'
    BY <1>1 DEF FollowInv, JournalFacts, Served
  <1>6. PendingDecisionIsCurrent' /\ AcceptedIsReviewed'
    BY <1>1, <1>2, <1>4 DEF FollowInv, PendingDecisionIsCurrent, AcceptedIsReviewed, Served
  <1>7. ServiceFacts'
    BY <1>1, <1>4 DEF FollowInv, ServiceFacts, service
  <1> QED BY <1>5, <1>6, <1>7 DEF FollowInv

\* A review is acknowledged when its decision is on disk.
LEMMA ReviewAckFollow ==
  ASSUME PipelineAssumption, SendInv, FollowInv, "service" \in Actors, ReviewAck
  PROVE  FollowInv'
  <1>1. /\ UNCHANGED <<rev, live, notices, decisions>>
        /\ review' = review \ {<<service.obj, service.rev>>}
        /\ service.pc = "ackReview" /\ actor'["service"].pc = "review"
    BY BecomeService, RowPcs DEF ReviewAck, Reviewed
  <1>2. notices = {} /\ decisions[service.obj][service.rev].state # "none"
    BY <1>1 DEF FollowInv, ServiceFacts
  <1>3. JournalFacts' /\ PendingDecisionIsCurrent'
    BY <1>1, <1>2 DEF FollowInv, JournalFacts, PendingDecisionIsCurrent, Served
  <1>4. AcceptedIsReviewed'
    BY <1>1, <1>2 DEF FollowInv, AcceptedIsReviewed, Served
  <1>5. ServiceFacts'
    BY <1>1, <1>2 DEF ServiceFacts, service
  <1> QED BY <1>3, <1>4, <1>5 DEF FollowInv

\* Every step keeps decisions and reviews in line with the journal.
LEMMA FollowStep ==
  ASSUME PipelineAssumption, SendInv, FollowInv, [Next]_vars
  PROVE  FollowInv'
  <1>1. CASE UNCHANGED vars
    BY <1>1, QuietFollow DEF vars, Unknowing
  <1>2. CASE "service" \in Actors /\ ServiceNext
    <2>1. CASE \E n \in notices : CleanAttention(n)
      BY <1>2, <2>1, PurgeFollow
    <2>2. CASE \E n \in notices : CleanAck(n)
      BY <1>2, <2>2, AckFollow
    <2>3. CASE CleanDone
      BY <1>2, <2>3, DoneFollow
    <2>4. CASE ReviewAck
      BY <1>2, <2>4, ReviewAckFollow
    <2>5. CASE \E p \in review : ReviewRecord(p[1], p[2])
      BY <1>2, <2>5, RecordFollow
    <2>6. CASE \E o \in Objects, r \in Revisions : IngestRequest(o, r)
      BY <1>2, <2>6, IngestFollow
    <2>7. CASE \E o \in Objects, r \in Revisions, op \in {"snooze", "dismiss", "stop"} :
                  ControlDecision(o, r, op)
      BY <1>2, <2>7, ControlFollow
    <2>8. CASE \/ ServiceStart \/ ServiceCrash \/ RequestFails \/ ControlRefused \/ ReviewDone
               \/ DispatchDone \/ Request("review") \/ Request("control")
               \/ \E n \in notices : CleanOutbox(n)
               \/ \E o \in Objects, r \in Revisions : DispatchCheck(o, r)
      BY <1>2, <2>8, ServiceQuiet, QuietFollow
    <2> QED BY <1>2, <2>1, <2>2, <2>3, <2>4, <2>5, <2>6, <2>7, <2>8 DEF ServiceNext, Clean
  <1>3. CASE "cli" \in Actors /\ CliNext
    BY <1>3, CliQuiet, QuietFollow
  <1>4. ASSUME NEW a \in Actors, SendStep(a) PROVE FollowInv'
    BY <1>4, PathQuiet, MarkFollow, QuietFollow
  <1>5. CASE NextDay
    BY <1>5, QuietFollow DEF NextDay, Unknowing
  <1> QED BY <1>1, <1>2, <1>3, <1>4, <1>5 DEF Next

\* An empty journal and an empty ledger are in line.
LEMMA FollowInit == PipelineAssumption /\ Init => FollowInv
  BY DEF Init, JournalInit, LedgerInit, At, NoDecision, FollowInv, JournalFacts, ServiceFacts, service,
         PendingDecisionIsCurrent, AcceptedIsReviewed, Served, Revs, Revisions, PipelineAssumption

\* Decisions and reviews stay in line with the journal.
LEMMA FollowInvariance == Spec => []FollowInv
  <1>1. SendInv /\ FollowInv /\ [Next]_vars => FollowInv'
    BY FollowStep, PipelineAssumption
  <1>2. Init => FollowInv
    BY FollowInit, PipelineAssumption
  <1> QED BY <1>1, <1>2, Invariance, PTL DEF Spec

\* A decision that dispatch_attention or the CLI may act on belongs to the
\* revision the store serves, unless the object's purge is queued and will
\* delete it: whatever crashed between ingestion, cleanup and review.
THEOREM DecisionsFollowSource == Spec => []PendingDecisionIsCurrent
  BY FollowInvariance, PTL DEF FollowInv

\* "Ack only after durable decision admission": neither a crash between the
\* decision and the acknowledgement nor a late purge loses a review.
THEOREM NothingGoesUnreviewed == Spec => []AcceptedIsReviewed
  BY FollowInvariance, PTL DEF FollowInv

-----------------------------------------------------------------------------
(* The message text in the outbox, for the service alone.  With the CLI    *)
(* beside it the text can come back after its purge (run pipeline_body).   *)

\* An admission of the service is about the served revision, and a purged
\* row stays without its message while the notice is being handled.
BodyFacts ==
    /\ service.pc \in SendPcs => Served(service.obj, service.rev)
    /\ service.pc \in {"purgeAttention", "ackNotice"} => ~outbox[service.obj].body
    /\ BodyFollowsSource

BodyInv == Actors = {"service"} => BodyFacts

\* No row gets a message in the step.
Shrinks ==
    \A o \in Objects : outbox'[o].body => outbox[o].body /\ outbox'[o].rev = outbox[o].rev

\* What the updates of a row leave of its message.
LEMMA RowBodies ==
  ASSUME OutboxTypeOK, NEW o \in Objects, NEW s
  PROVE  /\ InStatus(outbox[o], s).body = outbox[o].body
         /\ InStatus(outbox[o], s).rev = outbox[o].rev
         /\ ~Scrubbed(outbox[o], s).body
  BY DEF OutboxTypeOK, OutboxRows, InStatus, Scrubbed

\* Recovery, claims, holds and answers leave the messages as they are.
LEMMA RecoverBodies == OutboxTypeOK /\ (UNCHANGED outbox \/ RecoverInflight) => Shrinks
  BY RowBodies DEF RecoverInflight, Shrinks

\* A change of status leaves the message of the row as it is.
LEMMA StatusBodies ==
  ASSUME OutboxTypeOK, NEW o \in Objects, NEW r, NEW s, Claim(o, r) \/ Hold(o, r) \/ Finish(o, r, s)
  PROVE  Shrinks
  <1>1. ASSUME NEW t, outbox' = [outbox EXCEPT ![o] = InStatus(outbox[o], t)] PROVE Shrinks
    BY <1>1, RowBodies DEF Shrinks, OutboxTypeOK
  <1> QED BY <1>1, RecoverBodies DEF Claim, Hold, Finish

\* purge_source leaves no message.
LEMMA PurgeBodies ==
  ASSUME OutboxTypeOK, NEW o \in Objects, PurgeRow(o)
  PROVE  Shrinks /\ ~outbox'[o].body
  <1>1. CASE outbox[o].body
    <2>1. PICK s : outbox' = [outbox EXCEPT ![o] = Scrubbed(outbox[o], s)]
      BY <1>1 DEF PurgeRow
    <2> QED BY <2>1, RowBodies DEF Shrinks, OutboxTypeOK
  <1>2. CASE ~outbox[o].body
    BY <1>2, RecoverBodies DEF PurgeRow
  <1> QED BY <1>1, <1>2

\* A step that admits nothing, accepts no event and removes no notice.
LEMMA BodyQuiet ==
  ASSUME BodyFacts, UNCHANGED <<rev, live, notices>>, Shrinks, SendInv,
         actor'["service"].pc \in SendPcs =>
            /\ service.pc \in SendPcs
            /\ actor'["service"].obj = service.obj /\ actor'["service"].rev = service.rev,
         actor'["service"].pc \in {"purgeAttention", "ackNotice"} =>
            ~outbox'[actor'["service"].obj].body
  PROVE  BodyFacts'
  BY DEF BodyFacts, BodyFollowsSource, Served, Shrinks, service

\* The requests of the service.
LEMMA BodyService ==
  ASSUME PipelineAssumption, SendInv, FollowInv, BodyFacts, Actors = {"service"}, ServiceNext
  PROVE  BodyFacts'
  <1>1. OutboxTypeOK /\ "service" \in Actors
    BY Tables
  <1>2. ASSUME UNCHANGED <<rev, live, notices>>, UNCHANGED outbox \/ RecoverInflight,
               actor'["service"].pc \notin SendPcs \cup {"purgeAttention", "ackNotice"}
        PROVE  BodyFacts'
    BY <1>1, <1>2, RecoverBodies, BodyQuiet
  <1>3. CASE \/ ServiceStart \/ ServiceCrash \/ RequestFails \/ ControlRefused \/ ReviewDone
             \/ DispatchDone \/ Request("review") \/ Request("control") \/ ReviewAck
             \/ \E o \in Objects, r \in Revisions, op \in {"snooze", "dismiss", "stop"} :
                   ControlDecision(o, r, op)
    <2>1. UNCHANGED <<rev, live, notices>> /\ (UNCHANGED outbox \/ RecoverInflight)
      BY <1>3 DEF ServiceStart, ServiceCrash, RequestFails, ControlRefused, ReviewDone,
                  DispatchDone, Request, ReviewAck, Reviewed, ControlDecision
    <2>2. \E pc \in {"idle", "down", "clean", "dispatch", "review"} : \E goal :
             Become("service", At(pc, goal))
      BY <1>3 DEF ServiceStart, ServiceCrash, RequestFails, ControlRefused, ReviewDone, DispatchDone,
                  Request, ReviewAck, ControlDecision
    <2>3. actor'["service"].pc \in {"idle", "down", "clean", "dispatch", "review"}
      BY <1>1, <2>2, BecomeService, RowPcs
    <2> QED BY <1>2, <2>1, <2>3 DEF SendPcs
  <1>4. CASE CleanDone
    <2>1. /\ UNCHANGED <<rev, live, notices, outbox>>
          /\ actor'["service"].pc = service.goal
      BY <1>1, <1>4, BecomeService, RowPcs DEF CleanDone
    <2>2. service.goal \in {"idle", "review", "control"}
      BY <1>1, <1>4 DEF CleanDone, SendInv, PathShape, CleanPcs, service
    <2> QED BY <1>2, <2>1, <2>2 DEF SendPcs
  <1>5. CASE \E p \in review : ReviewRecord(p[1], p[2])
    <2>1. UNCHANGED <<rev, live, notices, outbox>> /\ actor'["service"].pc = "ackReview"
      BY <1>1, <1>5, BecomeService, RowPcs DEF ReviewRecord
    <2> QED BY <1>2, <2>1 DEF SendPcs
  <1>6. ASSUME NEW n \in notices, CleanOutbox(n) PROVE BodyFacts'
    <2>1. /\ UNCHANGED <<rev, live, notices>> /\ PurgeRow(n.obj) /\ n.obj \in Objects
          /\ actor'["service"].pc = "purgeAttention" /\ actor'["service"].obj = n.obj
      BY <1>1, <1>6, BecomeService, RowPcs
      DEF CleanOutbox, SendInv, PipelineTypeOK, JournalTypeOK, Notices
    <2> QED BY <1>1, <2>1, PurgeBodies, BodyQuiet DEF SendPcs
  <1>7. ASSUME NEW n \in notices, CleanAttention(n) PROVE BodyFacts'
    <2>1. /\ UNCHANGED <<rev, live, notices, outbox>> /\ service.pc = "purgeAttention"
          /\ actor'["service"].pc = "ackNotice" /\ actor'["service"].obj = service.obj
      BY <1>1, <1>7, BecomeService, RowPcs DEF CleanAttention, CurrentNotice
    <2> QED BY <1>1, <2>1, RecoverBodies, BodyQuiet DEF SendPcs, BodyFacts
  <1>8. ASSUME NEW n \in notices, CleanAck(n) PROVE BodyFacts'
    <2>1. /\ UNCHANGED <<rev, live, outbox>> /\ service.pc = "ackNotice" /\ service.obj = n.obj
          /\ notices' = notices \ {n} /\ actor'["service"].pc = "clean"
      BY <1>1, <1>8, BecomeService, RowPcs DEF CleanAck, CurrentNotice, Purged
    <2>2. BodyFollowsSource'
      BY <2>1 DEF BodyFacts, BodyFollowsSource, Served
    <2> QED BY <2>1, <2>2 DEF BodyFacts, service, SendPcs
  <1>9. ASSUME NEW o \in Objects, NEW r \in Revisions, IngestRequest(o, r) PROVE BodyFacts'
    <2>1. UNCHANGED outbox /\ actor'["service"].pc = "clean" /\ (Publish(o, r) \/ Withdraw(o, r))
      BY <1>1, <1>9, BecomeService, RowPcs DEF IngestRequest
    <2>2. JournalTypeOK
      BY Tables
    <2>3. \A p \in Objects : p # o => rev'[p] = rev[p] /\ live'[p] = live[p]
      BY <2>1, <2>2 DEF Publish, Withdraw, JournalTypeOK
    <2>4. /\ notices \subseteq notices'
          /\ rev[o] = 0 \/ \E n \in notices' : n.obj = o
          /\ live'[o] \/ \E n \in notices' : n.obj = o
      <3>1. \A op : Notice(o, r, op).obj = o
        BY DEF Notice
      <3>2. CASE Publish(o, r)
        BY <2>2, <3>1, <3>2 DEF Publish, JournalTypeOK
      <3>3. CASE Withdraw(o, r)
        BY <3>1, <3>3 DEF Withdraw
      <3> QED BY <2>1, <3>2, <3>3
    <2>5. BodyFollowsSource'
      <3> SUFFICES ASSUME NEW p \in Objects, outbox[p].body
                   PROVE  Served(p, outbox[p].rev)' \/ \E n \in notices' : n.obj = p
        BY <2>1 DEF BodyFollowsSource
      <3>1. Served(p, outbox[p].rev) \/ \E n \in notices : n.obj = p
        BY DEF BodyFacts, BodyFollowsSource
      <3>2. CASE p # o
        BY <2>1, <2>3, <2>4, <3>1, <3>2 DEF Served
      <3>3. CASE p = o
        BY <2>4, <3>1, <3>3 DEF Served, FollowInv, JournalFacts
      <3> QED BY <3>2, <3>3
    <2> QED BY <2>1, <2>5 DEF BodyFacts, service, SendPcs
  <1>10. ASSUME NEW o \in Objects, NEW r \in Revisions, DispatchCheck(o, r) PROVE BodyFacts'
    <2>1. /\ UNCHANGED <<rev, live, notices, outbox>> /\ Served(o, r)
          /\ actor'["service"].pc = "insert"
          /\ actor'["service"].obj = o /\ actor'["service"].rev = r
      BY <1>1, <1>10, BecomeService, RowPcs DEF DispatchCheck, Admissible
    <2> QED BY <2>1 DEF BodyFacts, BodyFollowsSource, Served, service
  <1> QED BY <1>3, <1>4, <1>5, <1>6, <1>7, <1>8, <1>9, <1>10 DEF ServiceNext, Clean

\* Along the send path the source does not move: the service is busy.
LEMMA BodyPath ==
  ASSUME PipelineAssumption, SendInv, FollowInv, BodyFacts, Actors = {"service"},
         NEW a \in Actors, SendStep(a)
  PROVE  BodyFacts'
  <1> DEFINE o == service.obj
             r == service.rev
  <1>1. a = "service" /\ OutboxTypeOK /\ o \in Objects /\ r \in Revisions /\ service.pc \in SendPcs
    <2>1. a = "service" /\ actor[a].pc \in SendPcs
      BY DEF SendStep, AdmitInsert, SendVet, SendGate, SendClaim, SendRecheck, SendLastGate,
             SendTransport, SendFinish, SendMark, SendPcs
    <2> QED BY <2>1, Tables DEF SendInv, PathShape, service
  <1>2. UNCHANGED <<rev, live, notices>>
    BY PathQuiet
  <1>3. \/ actor'["service"].pc = "dispatch"
        \/ /\ actor'["service"].pc \in SendPcs
           /\ actor'["service"].obj = o /\ actor'["service"].rev = r
    <2>1. \/ Return(a)
          \/ \E pc \in SendPcs : \E day, ans : Become(a, Sending(pc, actor[a], day, ans))
      BY DEF SendStep, AdmitInsert, SendVet, SendGate, SendClaim, SendRecheck, SendLastGate,
             SendTransport, SendFinish, SendMark, Goto, SendPcs
    <2> QED BY <1>1, <2>1, BecomeService, RowPcs DEF Return, service
  <1>4. CASE Shrinks
    BY <1>1, <1>2, <1>3, <1>4, BodyQuiet DEF SendPcs
  <1>5. CASE AdmitInsert(a)
    <2>1. UNCHANGED outbox \/ \E text, dry : Admit(o, r, text, dry)
      BY <1>1, <1>5 DEF AdmitInsert, service
    <2>2. ASSUME NEW text, NEW dry, Admit(o, r, text, dry)
          PROVE  BodyFollowsSource'
      <3>1. AdmittedRow(o, r, text, dry) = outbox[o] \/ AdmittedRow(o, r, text, dry).rev = r
        BY DEF AdmittedRow, Fresh
      <3>2. Served(o, r)
        BY <1>1 DEF BodyFacts
      <3> QED BY <1>1, <1>2, <2>2, <3>1, <3>2
              DEF Admit, BodyFacts, BodyFollowsSource, Served, OutboxTypeOK
    <2>3. CASE UNCHANGED outbox
      BY <1>1, <1>4, <2>3, RecoverBodies
    <2> QED BY <1>1, <1>2, <1>3, <2>1, <2>2, <2>3 DEF BodyFacts, Served, service, SendPcs
  <1>6. CASE ~AdmitInsert(a)
    <2>1. \/ UNCHANGED outbox
          \/ \E s : Claim(o, r) \/ Hold(o, r) \/ Finish(o, r, s)
      BY <1>1, <1>6 DEF SendStep, SendVet, SendGate, SendClaim, SendRecheck, SendLastGate,
             SendTransport, SendFinish, SendMark, service
    <2> QED BY <1>1, <1>4, <2>1, RecoverBodies, StatusBodies
  <1> QED BY <1>5, <1>6

\* Every step of a service alone keeps the messages in line with their source.
LEMMA BodyStep ==
  ASSUME PipelineAssumption, SendInv, FollowInv, BodyInv, [Next]_vars
  PROVE  BodyInv'
  <1> SUFFICES ASSUME Actors = {"service"} PROVE BodyFacts'
    BY DEF BodyInv
  <1>1. BodyFacts
    BY DEF BodyInv
  <1>2. CASE UNCHANGED vars \/ NextDay
    <2>1. UNCHANGED <<rev, live, notices, outbox, actor>>
      BY <1>2 DEF vars, NextDay
    <2> QED BY <1>1, <2>1 DEF BodyFacts, BodyFollowsSource, Served, service
  <1> QED BY <1>1, <1>2, BodyService, BodyPath DEF Next

\* Without a CLI at work, source deletion reaches every copy of a message:
\* the outbox keeps the text of the served revision only, or the purge that
\* removes it is queued, whatever crashed in between.
THEOREM BodiesFollowSource == Spec => [](Actors = {"service"} => BodyFollowsSource)
  <1>1. SendInv /\ FollowInv /\ BodyInv /\ [Next]_vars => BodyInv'
    BY BodyStep, PipelineAssumption
  <1>2. Init => BodyInv
    BY DEF Init, OutboxInit, NoRow, At, BodyInv, BodyFacts, BodyFollowsSource, service, SendPcs
  <1>3. BodyInv => (Actors = {"service"} => BodyFollowsSource)
    BY DEF BodyInv, BodyFacts
  <1> QED BY <1>1, <1>2, <1>3, Invariance, FollowInvariance, PTL DEF Spec
=============================================================================

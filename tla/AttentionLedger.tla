--------------------------- MODULE AttentionLedger ---------------------------
(***************************************************************************)
(* The decision table of scripts/assistant_attention.py, class             *)
(* AttentionLedger.  A decision is keyed by object and source revision     *)
(* (the dedupe key); the occurrence key is the object, one event type per  *)
(* object being modelled.  The row's own revision is left out: every       *)
(* writer bumps it, so a compare-and-swap that would fail sees a changed   *)
(* state here.  Feedback and learning candidates are not modelled.         *)
(***************************************************************************)
EXTENDS Naturals, FiniteSets

CONSTANTS Objects, MaxRevision, MaxDay, DailyLimit

VARIABLE decisions

Revs == 1..MaxRevision
Days == 1..MaxDay
Outcomes == {"retain", "digest", "prepare", "notify"}
States == {"none", "shadow", "pending", "held", "delivered", "uncertain",
           "snoozed", "dismissed", "stopped"}

\* "cited" is false once the row's source_ref was replaced by "[deleted]".
DecisionRows == [state : States, outcome : Outcomes, day : 0..MaxDay, cited : BOOLEAN]

NoDecision == [state |-> "none", outcome |-> "retain", day |-> 0, cited |-> FALSE]

LedgerTypeOK == decisions \in [Objects -> [Revs -> DecisionRows]]

LedgerInit == decisions = [o \in Objects |-> [r \in Revs |-> NoDecision]]

\* Faulty variant: only decisions still waiting count against the budget.
SpentPending(day) ==
    Cardinality({d \in Objects \X Revs :
        /\ decisions[d[1]][d[2]].state = "pending"
        /\ decisions[d[1]][d[2]].outcome = "notify"
        /\ decisions[d[1]][d[2]].day = day})

\* The notify decisions booked on a local day, whatever became of them.
Spent(day) ==
    Cardinality({d \in Objects \X Revs :
        /\ decisions[d[1]][d[2]].outcome = "notify"
        /\ decisions[d[1]][d[2]].day = day})

InState(d, state) == [d EXCEPT !.state = state]
Uncited(d) == [d EXCEPT !.cited = FALSE]

SomeInState(o, s) == \E r \in Revs : decisions[o][r].state = s

\* record_decision: a replay returns the first decision; a stopped or snoozed
\* occurrence is retained in that state; a notify beyond the day's budget is
\* stored as a digest.  snoozeOver: every snooze of the occurrence has expired.
RecordDecision(o, r, outcome, day, shadow, snoozeOver) ==
    LET forced == IF SomeInState(o, "stopped") THEN "stopped"
                  ELSE IF SomeInState(o, "snoozed") /\ ~snoozeOver THEN "snoozed"
                  ELSE "none"
        wanted == IF forced = "none" THEN outcome ELSE "retain"
        stored == IF wanted = "notify" /\ ~shadow /\ Spent(day) >= DailyLimit
                  THEN "digest" ELSE wanted
        state == IF forced # "none" THEN forced ELSE IF shadow THEN "shadow" ELSE "pending"
    IN  IF decisions[o][r].state # "none" THEN UNCHANGED decisions
        ELSE decisions' = [decisions EXCEPT ![o][r] =
                 [state |-> state, outcome |-> stored, day |-> day, cited |-> TRUE]]

\* Faulty variant: waiting decisions survive the purge.
PurgeSpentDecisions(o, preserveControls) ==
    LET kept(d) == \/ preserveControls /\ d.state \in {"stopped", "snoozed"}
                   \/ d.state \in {"held", "pending"}
    IN  decisions' = [decisions EXCEPT ![o] = [r \in Revs |->
            IF kept(decisions[o][r]) THEN Uncited(decisions[o][r])
            ELSE NoDecision]]

\* _purge_source_db: controls survive a revision, held rows survive anything,
\* every other decision of the object is deleted.
PurgeDecisions(o, preserveControls) ==
    LET kept(d) == \/ preserveControls /\ d.state \in {"stopped", "snoozed"}
                   \/ d.state = "held"
    IN  decisions' = [decisions EXCEPT ![o] = [r \in Revs |->
            IF kept(decisions[o][r]) THEN Uncited(decisions[o][r])
            ELSE NoDecision]]

\* Faulty variant: the operation is stored as the state.
ControlledVerbatim(op) == op

\* apply_decision: the owner's reply, allowed from every state.
Controlled(op) == IF op = "snooze" THEN "snoozed"
                  ELSE IF op = "dismiss" THEN "dismissed" ELSE "stopped"

ApplyDecision(o, r, op) ==
    /\ decisions[o][r].state # "none"
    /\ decisions' = [decisions EXCEPT ![o][r] = InState(@, Controlled(op))]

\* The transitions mark_delivery accepts.
MarkAllowed(from, to) ==
    \/ from = "pending" /\ to \in {"held", "delivered", "uncertain"}
    \/ from = "held" /\ to = "uncertain"
    \/ from = "uncertain" /\ to \in {"held", "delivered"}

\* mark_delivery, called best effort after a send.
MarkDelivery(o, r, status) ==
    decisions' = IF decisions[o][r].outcome = "notify"
                      /\ MarkAllowed(decisions[o][r].state, status)
                 THEN [decisions EXCEPT ![o][r] = InState(@, status)]
                 ELSE decisions
=============================================================================

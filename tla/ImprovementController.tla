------------------------ MODULE ImprovementController ------------------------
(***************************************************************************)
(* The improvement controller of scripts/assistant_context_improvements.py: *)
(* a proposed change of the briefing policy is evaluated, approved under    *)
(* the standing grant, published as a pull request, merged by a reviewer    *)
(* and reconciled with what was merged.  Two processes may work on the      *)
(* same candidate: the sweep of the systemd timer and the operator's        *)
(* command line; evaluation and publication take minutes between the read   *)
(* of the candidate's state and the transaction that moves it on.           *)
(*                                                                          *)
(* A policy is the set of the changes it contains, and a                    *)
(* revision of origin/master is a position in `history`.  The sweep is a    *)
(* loop over the same calls the command line makes, so a call is started    *)
(* by any worker at any time its first check allows.                        *)
(***************************************************************************)
EXTENDS Integers, Sequences, FiniteSets

CONSTANTS Candidates,   \* candidates the attention ledger proposes
          Workers,      \* processes that call the controller
          Quota,        \* max_candidates of the standing grant
          MaxCommits    \* bound on the revisions of the policy on master

ASSUME ControllerAssumption ==
    /\ IsFiniteSet(Candidates)
    /\ Quota \in Nat /\ MaxCommits \in Nat \ {0}

VARIABLES
    cand,      \* rows of the candidates table
    history,   \* the policy at each revision of origin/master
    known,     \* the revision the checkout's origin/master was fetched at
    pr,        \* pull requests: 0 none, -1 open, else the merged revision
    work       \* calls under way, by worker

controllerVars == <<cand, history, known, pr, work>>

\* A policy holds changes of candidates, and may hold edits by hand.
ByHand == "by hand"
Policies == SUBSET (Candidates \cup {ByHand})
Revisions == 1..Len(history)
Latest == history[Len(history)]

\* What the controller takes for master: _base_revision does not fetch.
Base == history[known]

Stages == {"none", "prepared", "tested", "canaried", "approved",
           "publishing", "published", "reconciled", "applied",
           "rolled_back", "rejected"}
CandidateRows == [state : Stages, before : Policies, after : Policies,
                  merged : Nat]
NoWork == [call |-> "none"]
Calls == {NoWork} \cup [call : {"test", "canary", "push", "pushed"},
                        of : Candidates]

ControllerTypeOK ==
    /\ cand \in [Candidates -> CandidateRows]
    /\ history \in Seq(Policies) /\ Len(history) \in 1..MaxCommits
    /\ known \in Revisions
    /\ pr \in [Candidates -> {-1} \cup Nat]
    /\ work \in [Workers -> Calls]

ControllerInit ==
    /\ cand = [c \in Candidates |-> [state |-> "none", before |-> {},
                                     after |-> {}, merged |-> 0]]
    /\ history = << {} >> /\ known = 1
    /\ pr = [c \in Candidates |-> 0]
    /\ work = [w \in Workers |-> NoWork]

-----------------------------------------------------------------------------
(* GitHub and its reviewers *)

\* A reviewer merges an open pull request: the change lands on whatever
\* master holds by then.
Merge(c) ==
    /\ pr[c] = -1 /\ Len(history) < MaxCommits
    /\ history' = Append(history, Latest \cup {c})
    /\ pr' = [pr EXCEPT ![c] = Len(history) + 1]
    /\ UNCHANGED <<cand, known, work>>

\* Somebody edits the policy on master, or takes a candidate's change back.
Edit(x) ==
    /\ x \in Latest \cup {ByHand} /\ Len(history) < MaxCommits
    /\ history' = Append(history, IF x \in Latest THEN Latest \ {x}
                                                 ELSE Latest \cup {x})
    /\ UNCHANGED <<cand, known, pr, work>>

\* Somebody fetches in the controller's checkout.
Fetch ==
    /\ known < Len(history) /\ known' = Len(history)
    /\ UNCHANGED <<cand, history, pr, work>>

-----------------------------------------------------------------------------
(* Calls of the controller *)

Idle(w) == work[w] = NoWork
Starts(w, call, c) == work' = [work EXCEPT ![w] = [call |-> call, of |-> c]]
Ends(w) == work' = [work EXCEPT ![w] = NoWork]
Doing(w, call, c) == work[w] = [call |-> call, of |-> c]

\* _transition: the new stage if the row is still at the expected one; a
\* stage conflict is an error that leaves the row alone.
Moves(c, from, to) ==
    cand' = IF cand[c].state = from THEN [cand EXCEPT ![c].state = to]
                                    ELSE cand

\* _reject_candidate
Rejects(c) ==
    cand' = IF cand[c].state \in {"prepared", "tested", "canaried"}
            THEN [cand EXCEPT ![c].state = "rejected"] ELSE cand

\* prepare: one transaction, under the write lock.
Prepare(w, c) ==
    /\ Idle(w) /\ cand[c].state = "none"
    /\ cand' = [cand EXCEPT ![c] = [state |-> "prepared", before |-> Base,
                                    after |-> Base \cup {c}, merged |-> 0]]
    /\ UNCHANGED <<history, known, pr, work>>

\* test and canary: read the stage, evaluate, then move or reject.
Evaluate(w, c) ==
    /\ Idle(w)
    /\ \/ cand[c].state = "prepared" /\ Starts(w, "test", c)
       \/ cand[c].state = "tested" /\ Starts(w, "canary", c)
    /\ UNCHANGED <<cand, history, known, pr>>

EvaluationPasses(w, c) ==
    /\ \/ Doing(w, "test", c) /\ Moves(c, "prepared", "tested")
       \/ Doing(w, "canary", c) /\ Moves(c, "tested", "canaried")
    /\ Ends(w)
    /\ UNCHANGED <<history, known, pr>>

EvaluationFails(w, c) ==
    /\ Doing(w, "test", c) \/ Doing(w, "canary", c)
    /\ Rejects(c) /\ Ends(w)
    /\ UNCHANGED <<history, known, pr>>

\* promote: the quota is counted in the transaction that uses it up.
Granted == {c \in Candidates : cand[c].state \in
                {"approved", "publishing", "published", "reconciled",
                 "applied", "rolled_back"}}

Promote(w, c) ==
    /\ Idle(w) /\ cand[c].state = "canaried"
    /\ Cardinality(Granted) < Quota
    /\ Moves(c, "canaried", "approved")
    /\ UNCHANGED <<history, known, pr, work>>

\* The policies master may hold when publication starts or is resumed.
AllowedLatest(c) ==
    IF cand[c].state = "approved" THEN {cand[c].before}
                                  ELSE {cand[c].before, cand[c].after}

\* publish, up to the call of the publisher: check master, record the intent.
Publish(w, c) ==
    /\ Idle(w) /\ cand[c].state \in {"approved", "publishing"}
    /\ Base \in AllowedLatest(c)
    /\ Moves(c, "approved", "publishing")
    /\ Starts(w, "push", c)
    /\ UNCHANGED <<history, known, pr>>

\* GitPublisher.publish pushes the branch and finds or opens its pull
\* request; a request that is already merged is neither found nor reopened.
Push(w, c) ==
    /\ Doing(w, "push", c)
    /\ \/ /\ pr[c] \in {0, -1}
          /\ pr' = [pr EXCEPT ![c] = -1]
          /\ Starts(w, "pushed", c)
       \/ /\ Ends(w) /\ UNCHANGED pr
    /\ UNCHANGED <<cand, history, known>>

Published(w, c) ==
    /\ Doing(w, "pushed", c)
    /\ Moves(c, "publishing", "published") /\ Ends(w)
    /\ UNCHANGED <<history, known, pr>>

\* Faulty variant: the revision need only contain the candidate's change.
HoldsChange(c, r) == c \in history[r]

\* The policy at a revision is the candidate's, byte for byte.
HoldsReviewed(c, r) == history[r] = cand[c].after

\* reconcile fetches first; a request that is not merged, or whose merge is
\* not the reviewed policy, is an error.
Reconcile(w, c) ==
    /\ Idle(w) /\ cand[c].state = "published"
    /\ known' = Len(history)
    /\ cand' = IF pr[c] > 0 /\ HoldsReviewed(c, pr[c])
               THEN [cand EXCEPT ![c].state = "reconciled", ![c].merged = pr[c]]
               ELSE cand
    /\ UNCHANGED <<history, pr, work>>

\* A process dies; the row keeps the stage it had reached.
WorkerDies(w) == ~Idle(w) /\ Ends(w) /\ UNCHANGED <<cand, history, known, pr>>

ControllerNext ==
    \/ \E c \in Candidates : Merge(c)
    \/ \E x \in Candidates \cup {ByHand} : Edit(x)
    \/ Fetch
    \/ \E w \in Workers, c \in Candidates :
          \/ Prepare(w, c) \/ Evaluate(w, c)
          \/ EvaluationPasses(w, c) \/ EvaluationFails(w, c)
          \/ Promote(w, c) \/ Publish(w, c) \/ Push(w, c)
          \/ Published(w, c) \/ Reconcile(w, c)
    \/ \E w \in Workers : WorkerDies(w)
==============================================================================

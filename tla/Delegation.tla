----------------------------- MODULE Delegation -----------------------------
(***************************************************************************)
(* Delegated analyses: scripts/assistant_context_delegation.py, class      *)
(* DelegationController, as ContextService drives it, against the guest    *)
(* adapter scripts/assistant-context-worker.py and the native gateway.     *)
(*                                                                         *)
(* The service's lock covers a whole request, remote calls included, so    *)
(* one request runs at a time; the process may crash between any two       *)
(* transactions and during a remote call.  A remote command may be lost,   *)
(* answered, answered into the void, or carried out long after the caller  *)
(* gave up.  Cleanup of the other derived ledgers is in                    *)
(* NotificationPipeline; here a notice reaches purge_source only.          *)
(***************************************************************************)
EXTENDS SourceJournal, FiniteSets

CONSTANTS Requests,     \* request UUIDs
          MaxCrashes,   \* bound on service crashes
          MaxErrors,    \* bound on requests aborted by a storage error
          Null

VARIABLES rows,      \* delegation_requests
          call,      \* the request the service is serving
          enabled,   \* native delegation is switched on in the source policy
          native,    \* the gateway's run per request id
          late,      \* commands whose caller gave up on them
          submits,   \* history: submit calls per request
          crashes,   \* service crashes so far
          errors     \* aborted requests so far

vars == <<rev, live, review, notices, rows, call, enabled, native, late, submits, crashes,
          errors>>
guest == <<native, late>>
faults == <<crashes, errors>>

Unresolved == {"dispatching", "accepted", "running", "cancel_requested", "uncertain"}
Ended == {"completed", "failed", "cancelled", "expired"}
Purging == {"purge_pending", "purged"}
RowStates == {"none", "pending_dispatch"} \cup Unresolved \cup Ended \cup Purging

Stopped == {"confirmed-aborted", "no-active-run", "not_needed-terminal"}
Citations == Objects \X Revisions

\* refs: source_refs_json; keys: purge_keys_json, revision 0 standing for a
\* purge of every revision; stop: native_cancel_status of the purge receipt.
Rows == [state : RowStates, refs : SUBSET Citations, text : BOOLEAN, result : BOOLEAN,
         asked : BOOLEAN, keys : SUBSET (Objects \X (0..MaxRevision)),
         stop : Stopped \cup {"unknown", Null}]

NoRow == [state |-> "none", refs |-> {}, text |-> FALSE, result |-> FALSE, asked |-> FALSE,
          keys |-> {}, stop |-> Null]

RemotePcs == {"submit", "status", "cancel", "stopping"}
Pcs == {"down", "idle", "clean", "stop", "serve", "dispatch"} \cup RemotePcs
Replies == {"accepted", "pending", "timeout", "ok", "unusable", "error", "aborted",
            "no-active-run", "lost"}

ASSUME DelegationAssumption ==
    /\ MaxRevision \in Nat /\ MaxCrashes \in Nat /\ MaxErrors \in Nat
    /\ Null \notin Requests /\ Null \notin Notices /\ Null \notin Replies
    /\ Null \notin Stopped /\ Null # "unknown"

\* goal: what follows cleanup.  todo: rows whose run cleanup has still to
\* stop, over: those of them that had already ended.
Calls == [pc : Pcs, goal : {"idle", "serve"}, notice : Notices \cup {Null},
          todo : SUBSET Requests, over : SUBSET Requests,
          req : Requests \cup {Null}, reply : Replies \cup {Null}]

At(pc, goal) == [pc |-> pc, goal |-> goal, notice |-> Null, todo |-> {}, over |-> {},
                 req |-> Null, reply |-> Null]

DelegationTypeOK ==
    /\ JournalTypeOK
    /\ rows \in [Requests -> Rows]
    /\ call \in Calls
    /\ enabled \in BOOLEAN
    /\ native \in [Requests -> {"none", "running", "ok", "error", "aborted"}]
    /\ late \in SUBSET ({"submit", "cancel"} \X Requests)
    /\ submits \in [Requests -> Nat]
    /\ crashes \in 0..MaxCrashes /\ errors \in 0..MaxErrors

Init ==
    /\ JournalInit
    /\ rows = [q \in Requests |-> NoRow]
    /\ call = At("down", "idle")
    /\ enabled \in BOOLEAN
    /\ native = [q \in Requests |-> "none"]
    /\ late = {}
    /\ submits = [q \in Requests |-> 0]
    /\ crashes = 0 /\ errors = 0

InState(row, state) == [row EXCEPT !.state = state]
SetState(q, state) == rows' = [rows EXCEPT ![q] = InState(@, state)]
Update(q, row) == rows' = [rows EXCEPT ![q] = row]

Done == call' = At("idle", "idle")

\* The caller waits for the reply to a remote call on q.
Remote(pc, q) == call' = [call EXCEPT !.pc = pc, !.req = q, !.reply = Null]

-----------------------------------------------------------------------------
(* The service process.                                                    *)

\* Faulty variant: an interrupted dispatch is tried again.
AfterRestartRetry(row) == IF row.state = "dispatching" THEN InState(row, "pending_dispatch") ELSE row

\* "A process killed during the remote call cannot know whether the guest
\* accepted it."
AfterRestart(row) == IF row.state = "dispatching" THEN InState(row, "uncertain") ELSE row

Start ==
    /\ call.pc = "down"
    /\ rows' = [q \in Requests |-> AfterRestart(rows[q])]
    /\ enabled' \in BOOLEAN
    /\ Done
    /\ UNCHANGED <<rev, live, review, notices, guest, submits, faults>>

\* The command of the call in progress that no guest has carried out yet.
Unheard ==
    IF call.reply # Null THEN {}
    ELSE IF call.pc = "submit" THEN {<<"submit", call.req>>}
    ELSE IF call.pc \in {"cancel", "stopping"} THEN {<<"cancel", call.req>>}
    ELSE {}

Crash ==
    /\ call.pc # "down"
    /\ crashes < MaxCrashes
    /\ crashes' = crashes + 1
    /\ late' = late \cup Unheard
    /\ call' = At("down", "idle")
    /\ UNCHANGED <<rev, live, review, notices, rows, enabled, native, submits, errors>>

\* A storage error aborts the request; the process, and a row left
\* dispatching, live on.
RequestFails ==
    /\ call.pc \notin {"down", "idle"}
    /\ call.pc \in RemotePcs => call.reply # Null
    /\ errors < MaxErrors
    /\ errors' = errors + 1
    /\ Done
    /\ UNCHANGED <<rev, live, review, notices, rows, enabled, guest, submits, crashes>>

\* POST /v1/events.
IngestRequest(o, r) ==
    /\ call.pc = "idle"
    /\ Publish(o, r) \/ Withdraw(o, r)
    /\ call' = At("clean", "idle")
    /\ UNCHANGED <<rows, enabled, guest, submits, faults>>

\* POST /v1/tools: cleanup first.
ToolRequest ==
    /\ call.pc = "idle"
    /\ call' = At("clean", "serve")
    /\ UNCHANGED <<rev, live, review, notices, rows, enabled, guest, submits, faults>>

ServeOther ==
    /\ call.pc = "serve"
    /\ Done
    /\ UNCHANGED <<rev, live, review, notices, rows, enabled, guest, submits, faults>>

-----------------------------------------------------------------------------
(* purge_source, once per notice: the local scrub, then one remote abort   *)
(* per row that may still be running, then the acknowledgement.            *)

\* Faulty variant: the key names the new revision.
PurgeKeyOfNew(n) == <<n.obj, IF n.op = "delete" THEN 0 ELSE n.rev>>

\* A new revision purges the previous one, a deletion purges them all.
PurgeKey(n) == <<n.obj, IF n.op = "delete" THEN 0 ELSE n.prev>>

Matches(row, key) ==
    \/ \E ref \in row.refs : ref[1] = key[1] /\ (key[2] = 0 \/ ref[2] = key[2])
    \/ key \in row.keys

Scrubbed(row, key) ==
    [state |-> IF row.state = "pending_dispatch" THEN "purged" ELSE "purge_pending",
     refs |-> {}, text |-> FALSE, result |-> FALSE, asked |-> TRUE,
     keys |-> row.keys \cup {key}, stop |-> row.stop]

PurgeLocal(n) ==
    LET hit == {q \in Requests : Matches(rows[q], PurgeKey(n))}
        over == {q \in hit : rows[q].state \in Ended}
        open == {q \in hit : /\ rows[q].state \notin Ended \cup {"pending_dispatch"}
                             /\ rows[q].stop \notin Stopped}
    IN  /\ call.pc = "clean"
        /\ \A other \in notices : other.obj = n.obj => other.rev >= n.rev
        /\ rows' = [q \in Requests |->
                       IF q \in hit THEN Scrubbed(rows[q], PurgeKey(n)) ELSE rows[q]]
        /\ call' = [call EXCEPT !.pc = "stop", !.notice = n, !.todo = over \cup open,
                                !.over = over]
        /\ UNCHANGED <<rev, live, review, notices, enabled, guest, submits, faults>>

Noted(q, status) ==
    /\ rows' = [rows EXCEPT ![q].stop = status]
    /\ call' = [call EXCEPT !.pc = "stop", !.todo = @ \ {q}, !.req = Null, !.reply = Null]

PurgeEnded(q) ==
    /\ call.pc = "stop"
    /\ q \in call.todo \cap call.over
    /\ Noted(q, "not_needed-terminal")
    /\ UNCHANGED <<rev, live, review, notices, enabled, guest, submits, faults>>

\* A service without native delegation cleans up over an offline transport.
PurgeStop(q) ==
    /\ call.pc = "stop"
    /\ q \in call.todo \ call.over
    /\ call' = [call EXCEPT !.pc = "stopping", !.req = q,
                            !.reply = IF enabled THEN Null ELSE "lost"]
    /\ UNCHANGED <<rev, live, review, notices, rows, enabled, guest, submits, faults>>

PurgeStopped ==
    /\ call.pc = "stopping"
    /\ call.reply # Null
    /\ Noted(call.req, CASE call.reply = "aborted" -> "confirmed-aborted"
                         [] call.reply = "no-active-run" -> "no-active-run"
                         [] OTHER -> "unknown")
    /\ UNCHANGED <<rev, live, review, notices, enabled, guest, submits, faults>>

PurgeAck ==
    /\ call.pc = "stop"
    /\ call.todo = {}
    /\ Purged(call.notice)
    /\ call' = At("clean", call.goal)
    /\ UNCHANGED <<rows, enabled, guest, submits, faults>>

CleanDone ==
    /\ call.pc = "clean"
    /\ notices = {}
    /\ call' = At(call.goal, "idle")
    /\ UNCHANGED <<rev, live, review, notices, rows, enabled, guest, submits, faults>>

-----------------------------------------------------------------------------
(* submit and dispatch.                                                    *)

Current(refs) == \A ref \in refs : Served(ref[1], ref[2])

Busy == \E q \in Requests : rows[q].state \in Unresolved

\* A new request: the durable row first, dispatch after it.
Submit(q, refs) ==
    /\ call.pc = "serve" /\ enabled
    /\ rows[q].state = "none"
    /\ Current(refs)
    /\ ~Busy
    /\ Update(q, [NoRow EXCEPT !.state = "pending_dispatch", !.refs = refs, !.text = TRUE])
    /\ call' = [At("dispatch", "idle") EXCEPT !.req = q]
    /\ UNCHANGED <<rev, live, review, notices, enabled, guest, submits, faults>>

\* The same content again finds the row a crash left undispatched.
Resubmit(q) ==
    /\ call.pc = "serve" /\ enabled
    /\ rows[q].state = "pending_dispatch"
    /\ Current(rows[q].refs)
    /\ call' = [At("dispatch", "idle") EXCEPT !.req = q]
    /\ UNCHANGED <<rev, live, review, notices, rows, enabled, guest, submits, faults>>

\* dispatch finds that the time of the request is over.
Expire ==
    /\ call.pc = "dispatch"
    /\ SetState(call.req, "expired")
    /\ Done
    /\ UNCHANGED <<rev, live, review, notices, enabled, guest, submits, faults>>

Dispatch ==
    /\ call.pc = "dispatch"
    /\ SetState(call.req, "dispatching")
    /\ submits' = [submits EXCEPT ![call.req] = @ + 1]
    /\ Remote("submit", call.req)
    /\ UNCHANGED <<rev, live, review, notices, enabled, guest, faults>>

Dispatched ==
    /\ call.pc = "submit"
    /\ call.reply # Null
    /\ rows' = IF rows[call.req].state = "dispatching"
               THEN [rows EXCEPT ![call.req] =
                        InState(@, IF call.reply = "accepted" THEN "accepted" ELSE "uncertain")]
               ELSE rows
    /\ Done
    /\ UNCHANGED <<rev, live, review, notices, enabled, guest, submits, faults>>

-----------------------------------------------------------------------------
(* status and cancel.                                                      *)

\* Faulty variant: only rows that ended are left alone.
OpenUnlessEnded(q) == rows[q].state \notin Ended \cup {"none", "pending_dispatch"}

\* Rows reconcile and cancel take to the gateway.
Open(q) == rows[q].state \notin Ended \cup Purging \cup {"none", "pending_dispatch"}

Reconcile(q) ==
    /\ call.pc = "serve" /\ enabled
    /\ Open(q)
    /\ Remote("status", q)
    /\ UNCHANGED <<rev, live, review, notices, rows, enabled, guest, submits, faults>>

\* Faulty variant: the gateway's word for a failed run becomes the state.
ReconciledVerbatim(row, reply) ==
    CASE reply = "pending" -> InState(row, IF row.asked THEN "cancel_requested" ELSE "running")
      [] reply = "ok" -> [row EXCEPT !.state = "completed", !.result = TRUE]
      [] reply \in {"unusable", "error"} -> [row EXCEPT !.state = reply, !.result = FALSE]
      [] OTHER -> row

\* The row after a status reply; a lost one and a bare timeout change nothing.
Reconciled(row, reply) ==
    CASE reply = "pending" -> InState(row, IF row.asked THEN "cancel_requested" ELSE "running")
      [] reply = "ok" -> [row EXCEPT !.state = "completed", !.result = TRUE]
      [] reply \in {"unusable", "error"} -> [row EXCEPT !.state = "failed", !.result = FALSE]
      [] OTHER -> row

StatusReply ==
    /\ call.pc = "status"
    /\ call.reply # Null
    /\ Update(call.req, Reconciled(rows[call.req], call.reply))
    /\ Done
    /\ UNCHANGED <<rev, live, review, notices, enabled, guest, submits, faults>>

CancelUnsent(q) ==
    /\ call.pc = "serve" /\ enabled
    /\ rows[q].state = "pending_dispatch"
    /\ SetState(q, "cancelled")
    /\ Done
    /\ UNCHANGED <<rev, live, review, notices, enabled, guest, submits, faults>>

Cancel(q) ==
    /\ call.pc = "serve" /\ enabled
    /\ Open(q)
    /\ Update(q, [rows[q] EXCEPT !.state = "cancel_requested", !.asked = TRUE])
    /\ Remote("cancel", q)
    /\ UNCHANGED <<rev, live, review, notices, enabled, guest, submits, faults>>

\* Faulty variant: a run the gateway does not know counts as cancelled.
ConfirmsLoosely(reply) == reply \in {"aborted", "no-active-run"}

\* Only an abort of this very run confirms the cancellation.
Confirms(reply) == reply = "aborted"

CancelReply ==
    /\ call.pc = "cancel"
    /\ call.reply # Null
    /\ rows' = IF Confirms(call.reply)
               THEN [rows EXCEPT ![call.req] = InState(@, "cancelled")] ELSE rows
    /\ Done
    /\ UNCHANGED <<rev, live, review, notices, enabled, guest, submits, faults>>

-----------------------------------------------------------------------------
(* The guest adapter and the gateway behind it.  A request id starts one   *)
(* run (idempotencyKey).                                                   *)

Started(q) == [native EXCEPT ![q] = IF @ = "none" THEN "running" ELSE @]
Aborted(q) == [native EXCEPT ![q] = IF @ = "running" THEN "aborted" ELSE @]

Answer(reply) == call' = [call EXCEPT !.reply = reply]

HandleSubmit ==
    /\ call.pc = "submit" /\ call.reply = Null
    /\ native' = Started(call.req)
    /\ Answer("accepted") \/ Answer("lost")
    /\ UNCHANGED <<rev, live, review, notices, rows, enabled, late, submits, faults>>

StatusReplies(run) ==
    CASE run = "none" -> {"timeout", "lost"}
      [] run = "running" -> {"pending", "timeout", "lost"}
      [] run = "ok" -> {"ok", "unusable", "lost"}
      [] OTHER -> {"error", "timeout", "lost"}

HandleStatus ==
    /\ call.pc = "status" /\ call.reply = Null
    /\ \E reply \in StatusReplies(native[call.req]) : Answer(reply)
    /\ UNCHANGED <<rev, live, review, notices, rows, enabled, guest, submits, faults>>

HandleCancel ==
    /\ call.pc \in {"cancel", "stopping"} /\ call.reply = Null
    /\ native' = Aborted(call.req)
    /\ \/ Answer(IF native[call.req] = "running" THEN "aborted" ELSE "no-active-run")
       \/ Answer("lost")
    /\ UNCHANGED <<rev, live, review, notices, rows, enabled, late, submits, faults>>

\* ssh fails or times out; the command may still arrive.
TimeOut ==
    /\ call.pc \in RemotePcs /\ call.reply = Null
    /\ late' = late \cup Unheard
    /\ Answer("lost")
    /\ UNCHANGED <<rev, live, review, notices, rows, enabled, native, submits, faults>>

Arrive(cmd) ==
    /\ cmd \in late
    /\ late' = late \ {cmd}
    /\ native' = IF cmd[1] = "submit" THEN Started(cmd[2]) ELSE Aborted(cmd[2])
    /\ UNCHANGED <<rev, live, review, notices, rows, call, enabled, submits, faults>>

RunEnds(q) ==
    /\ native[q] = "running"
    /\ native' \in {[native EXCEPT ![q] = "ok"], [native EXCEPT ![q] = "error"]}
    /\ UNCHANGED <<rev, live, review, notices, rows, call, enabled, late, submits, faults>>

-----------------------------------------------------------------------------
Serve(q) ==
    \/ \E refs \in SUBSET Citations : Submit(q, refs)
    \/ Resubmit(q) \/ Reconcile(q) \/ CancelUnsent(q) \/ Cancel(q)

ServiceStep ==
    \/ Start \/ Crash \/ RequestFails \/ ToolRequest \/ ServeOther
    \/ \E o \in Objects, r \in Revisions : IngestRequest(o, r)
    \/ \E n \in notices : PurgeLocal(n)
    \/ \E q \in Requests : PurgeEnded(q) \/ PurgeStop(q) \/ Serve(q)
    \/ PurgeStopped \/ PurgeAck \/ CleanDone
    \/ Expire \/ Dispatch \/ Dispatched \/ StatusReply \/ CancelReply \/ TimeOut

GuestStep ==
    \/ HandleSubmit \/ HandleStatus \/ HandleCancel
    \/ \E cmd \in late : Arrive(cmd)
    \/ \E q \in Requests : RunEnds(q)

Next == ServiceStep \/ GuestStep

Spec == Init /\ [][Next]_vars

-----------------------------------------------------------------------------
(* Properties.                                                             *)

\* A request is submitted to the gateway at most once, through crashes,
\* lost answers, restarts and resubmissions (dispatch, __init__;
\* config/assistant-delegation.json: "uncertain_runs_are_never_resent").
NeverResent == \A q \in Requests : submits[q] <= 1

\* A row is closed only on evidence: no run of it is going on, and none can
\* start, however late a command arrives (reconcile, cancel, purge_source).
EndedIsStopped ==
    \A q \in Requests :
        \/ rows[q].state \in Ended \cup {"purged"}
        \/ rows[q].stop \in {"confirmed-aborted", "not_needed-terminal"}
        => native[q] # "running" /\ <<"submit", q>> \notin late \cup Unheard

\* Text derived from a source is kept only while the cited revision is
\* served, or while the notice that will scrub it is queued (cleanup passes
\* the previous revision, or none for a deletion).
CitedTextIsCurrent ==
    \A q \in Requests : \A ref \in rows[q].refs :
        \/ Served(ref[1], ref[2])
        \/ \E n \in notices : n.obj = ref[1] /\ (n.op = "delete" \/ n.prev = ref[2])

\* What ended stays ended, and what was scrubbed stays scrubbed, whatever
\* replies were under way: no step leaves Ended but to be purged, and a
\* purged row never holds text, citations or a result again.
ClosedStaysClosed ==
    [][\A q \in Requests :
          /\ rows[q].state \in Ended => rows'[q].state \in {rows[q].state, "purge_pending"}
          /\ rows[q].state \in Purging =>
                /\ rows'[q].state \in Purging
                /\ ~rows'[q].text /\ ~rows'[q].result /\ rows'[q].refs = {}]_vars

\* At most one native run at a time (submit: "one native context worker run
\* is already unresolved"; config/assistant-delegation.json: "max_active_runs").
OneActiveRun == Cardinality({q \in Requests : native[q] = "running"}) <= 1
=============================================================================

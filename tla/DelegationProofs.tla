-------------------------- MODULE DelegationProofs --------------------------
(***************************************************************************)
(* Theorems about Delegation, for any number of requests, objects,         *)
(* revisions, crashes and aborted requests.                                *)
(***************************************************************************)
EXTENDS Delegation, TLAPS

\* The submit command of q is on its way and its caller is waiting.
Awaited(q) == call.pc = "submit" /\ call.reply = Null /\ call.req = q

\* The submit command of q may still be carried out.
Outstanding(q) == <<"submit", q>> \in late \/ Awaited(q)

\* No run of q is going on and none can start.
Quiet(q) == native[q] # "running" /\ ~Outstanding(q)

Undispatched == {"none", "pending_dispatch"}
Proven == {"confirmed-aborted", "not_needed-terminal"}

\* An undispatched row has reached nobody; an outstanding submit has no run
\* yet, and there is one of it; a closed row, or one whose run is known to be
\* stopped, is quiet; a row being purged holds nothing.
RowOK(q) ==
    /\ rows[q].state \in Undispatched => submits[q] = 0 /\ native[q] = "none" /\ ~Outstanding(q)
    /\ submits[q] <= 1
    /\ <<"submit", q>> \in late => native[q] = "none" /\ ~Awaited(q)
    /\ Awaited(q) => native[q] = "none"
    /\ rows[q].state \in Ended \cup {"purged"} => Quiet(q)
    /\ rows[q].stop \in Proven => Quiet(q)
    /\ rows[q].stop # Null => rows[q].state \in Purging
    /\ rows[q].state \in Purging => ~rows[q].text /\ ~rows[q].result /\ rows[q].refs = {}

\* The request in progress and the row it is about agree, and a reply that
\* closes the row came from a run that is over.
CallOK ==
    /\ call.pc \in {"dispatch"} \cup RemotePcs => call.req \in Requests
    /\ call.pc = "dispatch" => rows[call.req].state = "pending_dispatch"
    /\ call.pc = "submit" => rows[call.req].state = "dispatching"
    /\ call.pc \in {"status", "cancel"} => rows[call.req].state \in Unresolved
    /\ call.pc = "stopping" => call.req \in call.todo
    /\ call.pc \in {"stop", "stopping"} =>
          /\ \A q \in call.todo : rows[q].state \in Purging
          /\ \A q \in call.over : rows[q].state \in Purging /\ Quiet(q)
    /\ call.pc = "status" /\ call.reply \in {"ok", "unusable", "error"} => Quiet(call.req)
    /\ call.pc \in {"cancel", "stopping"} /\ call.reply = "aborted" => Quiet(call.req)

RunInv == DelegationTypeOK /\ (\A q \in Requests : RowOK(q)) /\ CallOK

-----------------------------------------------------------------------------
(* Type correctness.                                                       *)

\* InState keeps a row a row and changes its state only.
LEMMA InStateFacts ==
  ASSUME NEW row \in Rows, NEW state \in RowStates
  PROVE  /\ InState(row, state) \in Rows
         /\ InState(row, state).state = state
         /\ InState(row, state).stop = row.stop
         /\ InState(row, state).text = row.text
         /\ InState(row, state).result = row.result
         /\ InState(row, state).refs = row.refs
  BY DEF InState, Rows

\* A fresh request row is a row.
LEMMA FreshFacts ==
  ASSUME NEW refs \in SUBSET Citations
  PROVE  LET r == [NoRow EXCEPT !.state = "pending_dispatch", !.refs = refs, !.text = TRUE]
         IN  r \in Rows /\ r.state = "pending_dispatch" /\ r.stop = Null
  BY DEF NoRow, Rows, RowStates

\* A resting control state is a control state.
LEMMA AtFacts ==
  ASSUME NEW pc \in Pcs, NEW goal \in {"idle", "serve"}
  PROVE  /\ At(pc, goal) \in Calls /\ At(pc, goal).pc = pc /\ At(pc, goal).goal = goal
         /\ At(pc, goal).reply = Null /\ At(pc, goal).todo = {} /\ At(pc, goal).over = {}
         /\ \A q \in Requests : LET c == [At(pc, goal) EXCEPT !.req = q]
                              IN  c \in Calls /\ c.pc = pc /\ c.req = q /\ c.reply = Null
  BY DEF At, Calls

\* Turning to a remote call.
LEMMA RemoteFacts ==
  ASSUME call \in Calls, NEW pc \in Pcs, NEW q \in Requests, NEW reply \in Replies \cup {Null},
         call' = [call EXCEPT !.pc = pc, !.req = q, !.reply = reply]
  PROVE  /\ call' \in Calls /\ call'.pc = pc /\ call'.req = q /\ call'.reply = reply
         /\ call'.todo = call.todo /\ call'.over = call.over
  BY DEF Calls

\* An answer changes nothing but the reply.
LEMMA AnswerFacts ==
  ASSUME call \in Calls, NEW reply \in Replies, Answer(reply)
  PROVE  /\ call' \in Calls /\ call'.reply = reply /\ call'.pc = call.pc
         /\ call'.req = call.req /\ call'.todo = call.todo /\ call'.over = call.over
  BY DEF Answer, Calls

\* Noting how a run was stopped.
LEMMA NotedFacts ==
  ASSUME DelegationTypeOK, NEW q \in Requests, NEW status \in Stopped \cup {"unknown"},
         Noted(q, status)
  PROVE  /\ rows' = [rows EXCEPT ![q] = [rows[q] EXCEPT !.stop = status]]
         /\ [rows[q] EXCEPT !.stop = status] \in Rows
         /\ [rows[q] EXCEPT !.stop = status].stop = status
         /\ [rows[q] EXCEPT !.stop = status].state = rows[q].state
         /\ [rows[q] EXCEPT !.stop = status].text = rows[q].text
         /\ [rows[q] EXCEPT !.stop = status].result = rows[q].result
         /\ [rows[q] EXCEPT !.stop = status].refs = rows[q].refs
         /\ call' \in Calls /\ call'.pc = "stop" /\ call'.reply = Null
         /\ call'.todo = call.todo \ {q} /\ call'.over = call.over
  <1> USE DEF DelegationTypeOK
  <1>1. rows[q] \in Rows
    OBVIOUS
  <1>2. /\ [rows[q] EXCEPT !.stop = status] \in Rows
        /\ [rows[q] EXCEPT !.stop = status].stop = status
        /\ [rows[q] EXCEPT !.stop = status].state = rows[q].state
        /\ [rows[q] EXCEPT !.stop = status].text = rows[q].text
        /\ [rows[q] EXCEPT !.stop = status].result = rows[q].result
        /\ [rows[q] EXCEPT !.stop = status].refs = rows[q].refs
    BY <1>1 DEF Rows
  <1>3. rows' = [rows EXCEPT ![q] = [rows[q] EXCEPT !.stop = status]]
    BY DEF Noted
  <1>4. call' = [call EXCEPT !.pc = "stop", !.todo = @ \ {q}, !.req = Null, !.reply = Null]
    BY DEF Noted
  <1>5. /\ call' \in Calls /\ call'.pc = "stop" /\ call'.reply = Null
        /\ call'.todo = call.todo \ {q} /\ call'.over = call.over
    BY <1>4 DEF Calls, Pcs
  <1> QED BY <1>2, <1>3, <1>5

\* What the scrub of a row leaves behind.
LEMMA ScrubbedFacts ==
  ASSUME NEW row \in Rows, NEW key \in Objects \X (0..MaxRevision)
  PROVE  /\ Scrubbed(row, key) \in Rows
         /\ Scrubbed(row, key).state \in Purging
         /\ Scrubbed(row, key).state = "purged" => row.state = "pending_dispatch"
         /\ Scrubbed(row, key).stop = row.stop
         /\ ~Scrubbed(row, key).text /\ ~Scrubbed(row, key).result
         /\ Scrubbed(row, key).refs = {}
  BY DEF Scrubbed, Rows, RowStates, Purging

\* What a status reply leaves behind.
LEMMA ReconciledFacts ==
  ASSUME NEW row \in Rows, NEW reply \in Replies
  PROVE  /\ Reconciled(row, reply) \in Rows
         /\ Reconciled(row, reply).stop = row.stop
         /\ reply \notin {"ok", "unusable", "error"} =>
               Reconciled(row, reply).state \in Unresolved \cup {row.state}
         /\ reply \in {"ok", "unusable", "error"} =>
               Reconciled(row, reply).state \in {"completed", "failed"}
  <1>1. CASE reply = "pending"
    BY <1>1, InStateFacts DEF Reconciled, RowStates, Unresolved
  <1>2. CASE reply = "ok"
    BY <1>2 DEF Reconciled, Rows, RowStates, Ended
  <1>3. CASE reply \in {"unusable", "error"}
    BY <1>3 DEF Reconciled, Rows, RowStates, Ended
  <1>4. CASE reply \notin {"pending", "ok", "unusable", "error"}
    BY <1>4 DEF Reconciled
  <1> QED BY <1>1, <1>2, <1>3, <1>4

\* The journal's operations keep the journal's types.
LEMMA JournalTypes ==
  ASSUME DelegationAssumption, JournalTypeOK
  PROVE  /\ \A o \in Objects, r \in Revisions : Publish(o, r) \/ Withdraw(o, r) => JournalTypeOK'
         /\ \A n : Purged(n) => JournalTypeOK'
         /\ UNCHANGED <<rev, live, review, notices>> => JournalTypeOK'
  <1> USE DEF JournalTypeOK, DelegationAssumption, Revisions
  <1>1. ASSUME NEW o \in Objects, NEW r \in Revisions, NEW op \in {"upsert", "delete"}
        PROVE  Notice(o, r, op) \in Notices
    BY <1>1 DEF Notice, Notices
  <1>2. ASSUME NEW o \in Objects, NEW r \in Revisions, Publish(o, r) \/ Withdraw(o, r)
        PROVE  JournalTypeOK'
    <2>1. /\ Notice(o, r, "upsert") \in Notices /\ Notice(o, r, "delete") \in Notices
          /\ <<o, r>> \in Objects \X Revisions
      BY <1>1
    <2> DEFINE others == ReviewOf(Objects \ {o})
    <2>2. others \in SUBSET (Objects \X Revisions)
      BY DEF ReviewOf
    <2> HIDE DEF others
    <2>3. CASE Publish(o, r)
      <3>1. /\ rev' = [rev EXCEPT ![o] = r] /\ live' = [live EXCEPT ![o] = TRUE]
            /\ review' = others \cup {<<o, r>>}
            /\ notices' \in {notices, notices \cup {Notice(o, r, "upsert")}}
        BY <2>3 DEF Publish, others
      <3> QED BY <2>1, <2>2, <3>1
    <2>4. CASE Withdraw(o, r)
      <3>1. /\ rev' = [rev EXCEPT ![o] = r] /\ live' = [live EXCEPT ![o] = FALSE]
            /\ review' = others /\ notices' = notices \cup {Notice(o, r, "delete")}
        BY <2>4 DEF Withdraw, others
      <3> QED BY <2>1, <2>2, <3>1
    <2> QED BY <1>2, <2>3, <2>4
  <1>3. ASSUME NEW n, Purged(n) PROVE JournalTypeOK'
    BY <1>3 DEF Purged
  <1>4. UNCHANGED <<rev, live, review, notices>> => JournalTypeOK'
    OBVIOUS
  <1> QED BY <1>2, <1>3, <1>4

\* The key of a queued notice is a purge key.
LEMMA KeyFacts ==
  ASSUME DelegationAssumption, DelegationTypeOK, NEW n \in notices
  PROVE  PurgeKey(n) \in Objects \X (0..MaxRevision) /\ n \in Notices
  BY DEF DelegationAssumption, DelegationTypeOK, JournalTypeOK, Notices, PurgeKey, Revisions

\* The command a caller abandons is a command, and a submit only if awaited.
LEMMA UnheardFacts ==
  ASSUME call \in Calls, call.pc \in {"dispatch"} \cup RemotePcs => call.req \in Requests
  PROVE  /\ Unheard \in SUBSET ({"submit", "cancel"} \X Requests)
         /\ \A q \in Requests : <<"submit", q>> \in Unheard <=> Awaited(q)
  BY DEF Unheard, Awaited, RemotePcs

-----------------------------------------------------------------------------
(* Frames: what a step that leaves most of the state alone preserves.      *)

\* Quiet requests and sound rows survive a step that touches neither them
\* nor any outstanding submit.
LEMMA RowFrame ==
  ASSUME NEW q \in Requests, RowOK(q), rows'[q] = rows[q], native'[q] = native[q],
         submits'[q] = submits[q], late' = late, Awaited(q)' <=> Awaited(q)
  PROVE  RowOK(q)' /\ (Quiet(q) => Quiet(q)')
  BY DEF RowOK, Quiet, Outstanding

\* A step that writes one row, without any submit awaited before or after.
LEMMA OneRowFrame ==
  ASSUME RunInv, NEW p \in Requests, NEW row \in Rows,
         rows' = [rows EXCEPT ![p] = row], UNCHANGED <<native, late, submits>>,
         \A q \in Requests : ~Awaited(q), \A q \in Requests : ~Awaited(q)',
         row.state \in Undispatched => submits[p] = 0 /\ native[p] = "none" /\ ~Outstanding(p),
         row.state \in Ended \cup {"purged"} => Quiet(p),
         row.stop \in Proven => Quiet(p),
         row.stop # Null => row.state \in Purging,
         row.state \in Purging => ~row.text /\ ~row.result /\ row.refs = {}
  PROVE  \A q \in Requests : RowOK(q)' /\ (Quiet(q) => Quiet(q)')
  <1>1. rows'[p] = row /\ \A q \in Requests : q # p => rows'[q] = rows[q]
    BY DEF RunInv, DelegationTypeOK
  <1>2. ASSUME NEW q \in Requests, q # p
        PROVE  RowOK(q)' /\ (Quiet(q) => Quiet(q)')
    BY <1>1, <1>2, RowFrame DEF RunInv
  <1>3. RowOK(p)' /\ (Quiet(p) => Quiet(p)')
    <2>1. RowOK(p)
      BY DEF RunInv
    <2>2. Outstanding(p)' <=> Outstanding(p)
      BY DEF Outstanding
    <2>3. Quiet(p)' <=> Quiet(p)
      BY <2>2 DEF Quiet
    <2> QED BY <1>1, <2>1, <2>2, <2>3 DEF RowOK
  <1> QED BY <1>2, <1>3

\* A control state in which nothing is under way agrees with every table.
LEMMA Resting ==
  ASSUME call'.pc \in {"down", "idle", "clean", "serve"}
  PROVE  CallOK' /\ \A q \in Requests : ~Awaited(q)'
  BY DEF CallOK, RemotePcs, Awaited

-----------------------------------------------------------------------------
(* One lemma per action, or per group of actions alike.                    *)

\* Requests that arrive, end or fail, and acknowledgements.
LEMMA RestingSteps ==
  ASSUME DelegationAssumption, RunInv,
         \/ ToolRequest \/ ServeOther \/ CleanDone \/ RequestFails \/ PurgeAck
         \/ \E o \in Objects, r \in Revisions : IngestRequest(o, r)
  PROVE  RunInv'
  <1> USE DEF RunInv, DelegationTypeOK
  <1>1. /\ UNCHANGED <<rows, native, late, submits, enabled, crashes>>
        /\ errors' \in 0..MaxErrors
    BY DEF ToolRequest, ServeOther, CleanDone, RequestFails, PurgeAck, IngestRequest, guest,
           faults, DelegationAssumption
  <1>2. PICK pc \in {"idle", "clean", "serve"}, goal \in {"idle", "serve"} : call' = At(pc, goal)
    BY DEF ToolRequest, ServeOther, CleanDone, RequestFails, PurgeAck, IngestRequest, Done, Calls
  <1>3. call' \in Calls /\ call'.pc = pc
    BY <1>2, AtFacts DEF Pcs
  <1>4. ASSUME NEW q \in Requests PROVE ~Awaited(q)
    BY DEF ToolRequest, ServeOther, CleanDone, RequestFails, PurgeAck, IngestRequest, Awaited,
           RemotePcs
  <1>5. CallOK' /\ \A q \in Requests : ~Awaited(q)'
    BY <1>3, Resting
  <1>6. ASSUME NEW q \in Requests PROVE RowOK(q)'
    BY <1>1, <1>4, <1>5, RowFrame
  <1>7. JournalTypeOK'
    BY JournalTypes DEF ToolRequest, ServeOther, CleanDone, RequestFails, PurgeAck, IngestRequest
  <1> QED BY <1>1, <1>3, <1>5, <1>6, <1>7

\* A start makes interrupted dispatches uncertain.
LEMMA StartInv == ASSUME DelegationAssumption, RunInv, Start PROVE RunInv'
  <1> USE DEF RunInv, DelegationTypeOK
  <1>1. /\ UNCHANGED <<rev, live, review, notices, native, late, submits, crashes, errors>>
        /\ enabled' \in BOOLEAN /\ call' = At("idle", "idle")
        /\ rows' = [q \in Requests |-> AfterRestart(rows[q])] /\ call.pc = "down"
    BY DEF Start, Done, guest, faults
  <1>2. call' \in Calls /\ call'.pc = "idle"
    BY <1>1, AtFacts DEF Pcs
  <1>3. CallOK' /\ \A q \in Requests : ~Awaited(q)' /\ ~Awaited(q)
    BY <1>1, <1>2, Resting DEF Awaited
  <1>4. ASSUME NEW q \in Requests PROVE rows'[q] \in Rows /\ RowOK(q)'
    <2>1. rows'[q] = AfterRestart(rows[q])
      BY <1>1
    <2>2. CASE rows[q].state = "dispatching"
      <3>1. rows'[q] = InState(rows[q], "uncertain")
        BY <2>1, <2>2 DEF AfterRestart
      <3>2. /\ rows'[q] \in Rows /\ rows'[q].state = "uncertain"
            /\ rows'[q].stop = rows[q].stop
        BY <3>1, InStateFacts DEF RowStates, Unresolved
      <3> QED BY <1>1, <1>3, <2>2, <3>2
              DEF RowOK, Quiet, Outstanding, Undispatched, Ended, Purging
    <2>3. CASE rows[q].state # "dispatching"
      <3>1. rows'[q] = rows[q]
        BY <2>1, <2>3 DEF AfterRestart
      <3> QED BY <1>1, <1>3, <3>1, RowFrame
    <2> QED BY <2>2, <2>3
  <1>5. rows' \in [Requests -> Rows]
    BY <1>1, <1>4
  <1> QED BY <1>1, <1>2, <1>3, <1>4, <1>5, JournalTypes

\* A caller that crashes or times out leaves its command outstanding.
LEMMA AbandonInv == ASSUME DelegationAssumption, RunInv, Crash \/ TimeOut PROVE RunInv'
  <1> USE DEF RunInv, DelegationTypeOK
  <1>1. /\ UNCHANGED <<rev, live, review, notices, rows, enabled, native, submits>>
        /\ late' = late \cup Unheard
        /\ crashes' \in 0..MaxCrashes /\ errors' \in 0..MaxErrors
    BY DEF Crash, TimeOut, faults, DelegationAssumption
  <1>2. /\ Unheard \in SUBSET ({"submit", "cancel"} \X Requests)
        /\ \A q \in Requests : <<"submit", q>> \in Unheard <=> Awaited(q)
    BY UnheardFacts DEF CallOK
  <1>3. call' \in Calls /\ \A q \in Requests : ~Awaited(q)'
    <2>1. CASE Crash
      BY <2>1, AtFacts DEF Crash, Pcs, Awaited
    <2>2. CASE TimeOut
      <3>1. call' \in Calls /\ call'.reply = "lost"
        BY <2>2, AnswerFacts DEF TimeOut, Replies
      <3> QED BY <3>1 DEF Awaited, DelegationAssumption, Replies
    <2> QED BY <2>1, <2>2
  <1>4. ASSUME NEW q \in Requests PROVE Outstanding(q)' <=> Outstanding(q)
    BY <1>1, <1>2, <1>3 DEF Outstanding
  <1>5. ASSUME NEW q \in Requests PROVE RowOK(q)' /\ (Quiet(q)' <=> Quiet(q))
    BY <1>1, <1>2, <1>3, <1>4 DEF RowOK, Quiet
  <1>6. CallOK'
    <2>1. CASE Crash
      BY <2>1, AtFacts, Resting DEF Crash, Pcs
    <2>2. CASE TimeOut
      <3>1. /\ call'.pc = call.pc /\ call'.req = call.req /\ call'.reply = "lost"
            /\ call'.todo = call.todo /\ call'.over = call.over
        BY <2>2, AnswerFacts DEF TimeOut, Replies
      <3>2. call.over \in SUBSET Requests
        BY DEF Calls
      <3> QED BY <1>1, <1>5, <3>1, <3>2 DEF CallOK
    <2> QED BY <2>1, <2>2
  <1> QED BY <1>1, <1>2, <1>3, <1>5, <1>6, JournalTypes

\* A new row has reached nobody.
LEMMA SubmitInv ==
  ASSUME DelegationAssumption, RunInv, NEW p \in Requests, NEW refs \in SUBSET Citations,
         Submit(p, refs)
  PROVE  RunInv'
  <1> USE DEF RunInv, DelegationTypeOK
  <1> DEFINE row == [NoRow EXCEPT !.state = "pending_dispatch", !.refs = refs, !.text = TRUE]
  <1>1. /\ UNCHANGED <<rev, live, review, notices, enabled, native, late, submits, crashes, errors>>
        /\ rows' = [rows EXCEPT ![p] = row] /\ call' = [At("dispatch", "idle") EXCEPT !.req = p]
        /\ call.pc = "serve" /\ rows[p].state = "none"
    BY DEF Submit, Update, guest, faults
  <1>2. row \in Rows /\ row.state = "pending_dispatch" /\ row.stop = Null
    BY FreshFacts
  <1> HIDE DEF row
  <1>3. call' \in Calls /\ call'.pc = "dispatch" /\ call'.req = p
    BY <1>1, AtFacts DEF Pcs
  <1>4. \A q \in Requests : ~Awaited(q) /\ ~Awaited(q)'
    BY <1>1, <1>3 DEF Awaited
  <1>5. submits[p] = 0 /\ native[p] = "none" /\ ~Outstanding(p)
    BY <1>1 DEF RowOK, Undispatched
  <1>6. \A q \in Requests : RowOK(q)'
    BY <1>1, <1>2, <1>4, <1>5, OneRowFrame
       DEF Ended, Purging, Proven, DelegationAssumption, Stopped
  <1>7. rows'[p] = row /\ rows' \in [Requests -> Rows]
    BY <1>1, <1>2
  <1>8. CallOK'
    BY <1>2, <1>3, <1>7 DEF CallOK, RemotePcs
  <1> QED BY <1>1, <1>3, <1>6, <1>7, <1>8, JournalTypes

\* A resubmitted row goes to dispatch as it is.
LEMMA ResubmitInv ==
  ASSUME DelegationAssumption, RunInv, NEW p \in Requests, Resubmit(p)
  PROVE  RunInv'
  <1> USE DEF RunInv, DelegationTypeOK
  <1>1. /\ UNCHANGED <<rev, live, review, notices, rows, enabled, native, late, submits, crashes, errors>>
        /\ call.pc = "serve" /\ rows[p].state = "pending_dispatch"
        /\ call' = [At("dispatch", "idle") EXCEPT !.req = p]
    BY DEF Resubmit, guest, faults
  <1>2. call' \in Calls /\ call'.pc = "dispatch" /\ call'.req = p
    BY <1>1, AtFacts DEF Pcs
  <1>3. \A q \in Requests : ~Awaited(q) /\ ~Awaited(q)'
    BY <1>1, <1>2 DEF Awaited
  <1>4. \A q \in Requests : RowOK(q)'
    BY <1>1, <1>3, RowFrame
  <1>5. CallOK'
    BY <1>1, <1>2 DEF CallOK, RemotePcs
  <1> QED BY <1>1, <1>2, <1>4, <1>5, JournalTypes

\* A row that expires has reached nobody.
LEMMA ExpireInv == ASSUME DelegationAssumption, RunInv, Expire PROVE RunInv'
  <1> USE DEF RunInv, DelegationTypeOK
  <1>0. PICK p \in Requests : p = call.req
    BY DEF Expire, CallOK
  <1>1. /\ UNCHANGED <<rev, live, review, notices, enabled, native, late, submits, crashes, errors>>
        /\ call.pc = "dispatch" /\ SetState(p, "expired") /\ Done
    BY <1>0 DEF Expire, guest, faults
  <1>2. rows[p].state = "pending_dispatch" /\ rows[p] \in Rows
    BY <1>0, <1>1 DEF CallOK
  <1>3. RowOK(p) /\ Quiet(p)
    BY <1>2 DEF RowOK, Undispatched, Quiet
  <1> DEFINE row == InState(rows[p], "expired")
  <1>4. /\ row \in Rows /\ row.state = "expired" /\ row.stop = rows[p].stop
        /\ row.text = rows[p].text
    BY <1>2, InStateFacts DEF RowStates, Ended
  <1>5. rows' = [rows EXCEPT ![p] = row] /\ call' = At("idle", "idle")
    BY <1>1 DEF SetState, Done
  <1> HIDE DEF row
  <1>6. call' \in Calls /\ call'.pc = "idle"
    BY <1>5, AtFacts DEF Pcs
  <1>7. CallOK' /\ \A q \in Requests : ~Awaited(q)' /\ ~Awaited(q)
    BY <1>1, <1>6, Resting DEF Awaited
  <1>8. row.stop = Null
    BY <1>2, <1>3, <1>4 DEF RowOK, Purging
  <1>9. \A q \in Requests : RowOK(q)'
    BY <1>1, <1>2, <1>3, <1>4, <1>5, <1>7, <1>8, OneRowFrame
       DEF Undispatched, Purging, Proven
  <1>10. rows' \in [Requests -> Rows]
    BY <1>4, <1>5
  <1> QED BY <1>1, <1>6, <1>7, <1>9, <1>10, JournalTypes

\* dispatch sends the one submit command of a row.
LEMMA DispatchInv == ASSUME DelegationAssumption, RunInv, Dispatch PROVE RunInv'
  <1> USE DEF RunInv, DelegationTypeOK
  <1>0. PICK p \in Requests : p = call.req
    BY DEF Dispatch, CallOK
  <1> DEFINE row == InState(rows[p], "dispatching")
  <1>1. /\ UNCHANGED <<rev, live, review, notices, enabled, native, late, crashes, errors>>
        /\ rows' = [rows EXCEPT ![p] = row] /\ submits' = [submits EXCEPT ![p] = @ + 1]
        /\ call' = [call EXCEPT !.pc = "submit", !.req = p, !.reply = Null]
        /\ call.pc = "dispatch"
    BY <1>0 DEF Dispatch, SetState, Remote, guest, faults
  <1>2. rows[p].state = "pending_dispatch" /\ rows[p] \in Rows
    BY <1>0, <1>1 DEF CallOK
  <1>3. row \in Rows /\ row.state = "dispatching" /\ row.stop = rows[p].stop
    BY <1>2, InStateFacts DEF RowStates, Unresolved
  <1>4. call' \in Calls /\ call'.pc = "submit" /\ call'.req = p /\ call'.reply = Null
    BY <1>1, <1>2, RemoteFacts DEF Pcs, RemotePcs
  <1> HIDE DEF row
  <1>5. \A q \in Requests : ~Awaited(q) /\ (Awaited(q)' <=> q = p)
    BY <1>1, <1>4 DEF Awaited
  <1>6. rows'[p] = row /\ submits'[p] = submits[p] + 1 /\ rows' \in [Requests -> Rows]
        /\ submits' \in [Requests -> Nat]
    BY <1>1, <1>2, <1>3
  <1>7. /\ submits[p] = 0 /\ native[p] = "none" /\ ~Outstanding(p) /\ rows[p].stop = Null
    BY <1>2 DEF RowOK, Undispatched, Purging
  <1>8. RowOK(p)'
    <2>1. Awaited(p)' /\ <<"submit", p>> \notin late' /\ native'[p] = "none" /\ submits'[p] <= 1
      BY <1>1, <1>2, <1>5, <1>6, <1>7 DEF Outstanding
    <2>2. /\ rows'[p].state \notin Undispatched \cup Ended \cup Purging
          /\ rows'[p].state # "purged" /\ rows'[p].stop = Null
      BY <1>3, <1>6, <1>7 DEF Undispatched, Ended, Purging
    <2>3. Null \notin Proven
      BY DEF Proven, Stopped, DelegationAssumption
    <2> QED BY <2>1, <2>2, <2>3 DEF RowOK
  <1>9. ASSUME NEW q \in Requests, q # p PROVE RowOK(q)'
    <2>1. rows'[q] = rows[q] /\ submits'[q] = submits[q]
      BY <1>1, <1>9
    <2> QED BY <1>1, <1>5, <1>9, <2>1, RowFrame
  <1>10. CallOK'
    BY <1>2, <1>3, <1>4, <1>6 DEF CallOK, RemotePcs
  <1>11. \A q \in Requests : RowOK(q)'
    BY <1>8, <1>9
  <1>12. DelegationTypeOK'
    BY <1>1, <1>4, <1>6, JournalTypes
  <1> QED BY <1>10, <1>11, <1>12

\* The dispatching row is accepted or uncertain; either may have a run.
LEMMA DispatchedInv == ASSUME DelegationAssumption, RunInv, Dispatched PROVE RunInv'
  <1> USE DEF RunInv, DelegationTypeOK
  <1> DEFINE p == call.req
             state == IF call.reply = "accepted" THEN "accepted" ELSE "uncertain"
             row == InState(rows[p], state)
  <1>1. /\ UNCHANGED <<rev, live, review, notices, enabled, native, late, submits, crashes, errors>>
        /\ call' = At("idle", "idle") /\ call.pc = "submit" /\ call.reply # Null
    BY DEF Dispatched, Done, guest, faults
  <1>2. p \in Requests /\ rows[p].state = "dispatching" /\ rows[p] \in Rows
    BY <1>1 DEF CallOK, RemotePcs
  <1>3. rows' = [rows EXCEPT ![p] = row]
    BY <1>2 DEF Dispatched
  <1>4. row \in Rows /\ row.state \in {"accepted", "uncertain"} /\ row.stop = rows[p].stop
    BY <1>2, InStateFacts DEF RowStates, Unresolved
  <1> HIDE DEF p, row
  <1>5. call' \in Calls /\ call'.pc = "idle"
    BY <1>1, AtFacts DEF Pcs
  <1>6. CallOK' /\ \A q \in Requests : ~Awaited(q)' /\ ~Awaited(q)
    BY <1>1, <1>5, Resting DEF Awaited
  <1>7. row.stop = Null
    BY <1>2, <1>4 DEF RowOK, Purging
  <1>8. \A q \in Requests : RowOK(q)'
    BY <1>1, <1>2, <1>3, <1>4, <1>6, <1>7, OneRowFrame
       DEF Undispatched, Ended, Purging, Proven, DelegationAssumption, Stopped
  <1>9. rows' \in [Requests -> Rows]
    BY <1>2, <1>3, <1>4
  <1> QED BY <1>1, <1>5, <1>6, <1>8, <1>9, JournalTypes

\* A status call, and the guest's answer to it, change no table.
LEMMA ReconcileInv ==
  ASSUME DelegationAssumption, RunInv, NEW p \in Requests, Reconcile(p)
  PROVE  RunInv'
  <1> USE DEF RunInv, DelegationTypeOK
  <1>1. /\ UNCHANGED <<rev, live, review, notices, rows, enabled, native, late, submits, crashes,
                       errors>>
        /\ call' = [call EXCEPT !.pc = "status", !.req = p, !.reply = Null]
        /\ call.pc = "serve" /\ Open(p)
    BY DEF Reconcile, Remote, guest, faults
  <1>2. call' \in Calls /\ call'.pc = "status" /\ call'.req = p /\ call'.reply = Null
    BY <1>1, RemoteFacts DEF Pcs, RemotePcs
  <1>3. rows[p].state \in Unresolved
    BY <1>1 DEF Open, Rows, RowStates
  <1>4. \A q \in Requests : ~Awaited(q) /\ ~Awaited(q)'
    BY <1>1, <1>2 DEF Awaited
  <1>5. \A q \in Requests : RowOK(q)'
    BY <1>1, <1>4, RowFrame
  <1>6. CallOK'
    BY <1>1, <1>2, <1>3 DEF CallOK, RemotePcs, DelegationAssumption, Replies
  <1> QED BY <1>1, <1>2, <1>5, <1>6, JournalTypes

\* The gateway reports a run as over only when it is, and then no submit of
\* it is outstanding.
LEMMA HandleStatusInv == ASSUME DelegationAssumption, RunInv, HandleStatus PROVE RunInv'
  <1> USE DEF RunInv, DelegationTypeOK
  <1>1. /\ UNCHANGED <<rev, live, review, notices, rows, enabled, native, late, submits, crashes,
                       errors>>
        /\ call.pc = "status" /\ call.req \in Requests
    BY DEF HandleStatus, guest, faults, CallOK, RemotePcs
  <1>2. PICK reply \in StatusReplies(native[call.req]) : Answer(reply)
    BY DEF HandleStatus
  <1>3. /\ reply \in Replies
        /\ reply \in {"ok", "unusable", "error"} => native[call.req] \notin {"none", "running"}
    BY DEF StatusReplies, Replies
  <1>4. /\ call' \in Calls /\ call'.pc = "status" /\ call'.req = call.req /\ call'.reply = reply
    BY <1>1, <1>2, <1>3, AnswerFacts
  <1>5. \A q \in Requests : ~Awaited(q) /\ ~Awaited(q)'
    BY <1>1, <1>4 DEF Awaited
  <1>6. \A q \in Requests : RowOK(q)' /\ (Quiet(q) => Quiet(q)')
    BY <1>1, <1>5, RowFrame
  <1>7. reply \in {"ok", "unusable", "error"} => Quiet(call.req)
    BY <1>1, <1>3, <1>5 DEF RowOK, Quiet, Outstanding
  <1>8. PICK p \in Requests : p = call.req
    BY <1>1
  <1>9. /\ call'.req = p /\ rows'[p].state \in Unresolved
        /\ call'.reply \in {"ok", "unusable", "error"} => Quiet(p)'
    BY <1>1, <1>4, <1>6, <1>7, <1>8 DEF CallOK
  <1>10. CallOK'
    BY <1>4, <1>9 DEF CallOK
  <1> QED BY <1>1, <1>4, <1>6, <1>10, JournalTypes

\* A status reply closes a row only on the evidence CallOK keeps.
LEMMA StatusReplyInv == ASSUME DelegationAssumption, RunInv, StatusReply PROVE RunInv'
  <1> USE DEF RunInv, DelegationTypeOK
  <1>0. PICK p \in Requests : p = call.req
    BY DEF StatusReply, CallOK, RemotePcs
  <1> DEFINE row == Reconciled(rows[p], call.reply)
  <1>1. /\ UNCHANGED <<rev, live, review, notices, enabled, native, late, submits, crashes, errors>>
        /\ rows' = [rows EXCEPT ![p] = row] /\ call' = At("idle", "idle")
        /\ call.pc = "status" /\ call.reply # Null
    BY <1>0 DEF StatusReply, Update, Done, guest, faults
  <1>2. rows[p] \in Rows /\ rows[p].state \in Unresolved /\ call.reply \in Replies
    BY <1>0, <1>1 DEF CallOK, Calls
  <1>3. /\ row \in Rows /\ row.stop = rows[p].stop
        /\ call.reply \notin {"ok", "unusable", "error"} => row.state \in Unresolved
        /\ call.reply \in {"ok", "unusable", "error"} => row.state \in {"completed", "failed"}
    BY <1>2, ReconciledFacts
  <1> HIDE DEF row
  <1>4. call' \in Calls /\ call'.pc = "idle"
    BY <1>1, AtFacts DEF Pcs
  <1>5. CallOK' /\ \A q \in Requests : ~Awaited(q)' /\ ~Awaited(q)
    BY <1>1, <1>4, Resting DEF Awaited
  <1>6. row.stop = Null
    BY <1>2, <1>3 DEF RowOK, Purging, Unresolved
  <1>7. row.state \in Ended \cup {"purged"} => Quiet(p)
    BY <1>0, <1>1, <1>3 DEF CallOK, Ended, Unresolved
  <1>8. row.state \notin Undispatched /\ row.state \notin Purging /\ Null \notin Proven
    BY <1>3 DEF Undispatched, Purging, Unresolved, Proven, DelegationAssumption, Stopped
  <1>9. \A q \in Requests : RowOK(q)'
    BY <1>1, <1>3, <1>5, <1>6, <1>7, <1>8, OneRowFrame
  <1>10. rows' \in [Requests -> Rows]
    BY <1>1, <1>3
  <1> QED BY <1>1, <1>4, <1>5, <1>9, <1>10, JournalTypes

\* Cancelling a row that was never dispatched.
LEMMA CancelUnsentInv ==
  ASSUME DelegationAssumption, RunInv, NEW p \in Requests, CancelUnsent(p)
  PROVE  RunInv'
  <1> USE DEF RunInv, DelegationTypeOK
  <1> DEFINE row == InState(rows[p], "cancelled")
  <1>1. /\ UNCHANGED <<rev, live, review, notices, enabled, native, late, submits, crashes, errors>>
        /\ rows' = [rows EXCEPT ![p] = row] /\ call' = At("idle", "idle")
        /\ call.pc = "serve" /\ rows[p].state = "pending_dispatch" /\ rows[p] \in Rows
    BY DEF CancelUnsent, SetState, Done, guest, faults
  <1>2. row \in Rows /\ row.state = "cancelled" /\ row.stop = rows[p].stop
    BY <1>1, InStateFacts DEF RowStates, Ended
  <1> HIDE DEF row
  <1>3. call' \in Calls /\ call'.pc = "idle"
    BY <1>1, AtFacts DEF Pcs
  <1>4. CallOK' /\ \A q \in Requests : ~Awaited(q)' /\ ~Awaited(q)
    BY <1>1, <1>3, Resting DEF Awaited
  <1>5. row.stop = Null /\ Quiet(p)
    BY <1>1, <1>2 DEF RowOK, Purging, Undispatched, Quiet
  <1>6. row.state \notin Undispatched /\ row.state \notin Purging
    BY <1>2 DEF Undispatched, Purging
  <1>7. \A q \in Requests : RowOK(q)'
    BY <1>1, <1>2, <1>4, <1>5, <1>6, OneRowFrame
  <1>8. rows' \in [Requests -> Rows]
    BY <1>1, <1>2
  <1> QED BY <1>1, <1>3, <1>4, <1>7, <1>8, JournalTypes

\* Asking the gateway to abort a run.
LEMMA CancelInv ==
  ASSUME DelegationAssumption, RunInv, NEW p \in Requests, Cancel(p)
  PROVE  RunInv'
  <1> USE DEF RunInv, DelegationTypeOK
  <1> DEFINE row == [rows[p] EXCEPT !.state = "cancel_requested", !.asked = TRUE]
  <1>1. /\ UNCHANGED <<rev, live, review, notices, enabled, native, late, submits, crashes, errors>>
        /\ rows' = [rows EXCEPT ![p] = row]
        /\ call' = [call EXCEPT !.pc = "cancel", !.req = p, !.reply = Null]
        /\ call.pc = "serve" /\ Open(p) /\ rows[p] \in Rows
    BY DEF Cancel, Update, Remote, guest, faults
  <1>2. row \in Rows /\ row.state = "cancel_requested" /\ row.stop = rows[p].stop
    BY <1>1 DEF Rows, RowStates, Unresolved
  <1> HIDE DEF row
  <1>3. call' \in Calls /\ call'.pc = "cancel" /\ call'.req = p /\ call'.reply = Null
    BY <1>1, RemoteFacts DEF Pcs, RemotePcs
  <1>4. \A q \in Requests : ~Awaited(q) /\ ~Awaited(q)'
    BY <1>1, <1>3 DEF Awaited
  <1>5. row.stop = Null /\ row.state \in Unresolved
    BY <1>1, <1>2 DEF RowOK, Open, Unresolved
  <1>6. row.state \notin Undispatched \cup Purging \cup Ended /\ row.state # "purged"
        /\ Null \notin Proven
    BY <1>2 DEF Undispatched, Purging, Ended, Proven, DelegationAssumption, Stopped
  <1>7. \A q \in Requests : RowOK(q)'
    BY <1>1, <1>2, <1>4, <1>5, <1>6, OneRowFrame
  <1>8. rows' \in [Requests -> Rows] /\ rows'[p] = row
    BY <1>1, <1>2
  <1>9. CallOK'
    BY <1>3, <1>5, <1>8 DEF CallOK, RemotePcs, DelegationAssumption, Replies
  <1> QED BY <1>1, <1>3, <1>7, <1>8, <1>9, JournalTypes

\* Only a confirmed abort closes the row.
LEMMA CancelReplyInv == ASSUME DelegationAssumption, RunInv, CancelReply PROVE RunInv'
  <1> USE DEF RunInv, DelegationTypeOK
  <1>0. PICK p \in Requests : p = call.req
    BY DEF CancelReply, CallOK, RemotePcs
  <1> DEFINE row == InState(rows[p], "cancelled")
  <1>1. /\ UNCHANGED <<rev, live, review, notices, enabled, native, late, submits, crashes, errors>>
        /\ call' = At("idle", "idle") /\ call.pc = "cancel"
        /\ rows' = IF call.reply = "aborted" THEN [rows EXCEPT ![p] = row] ELSE rows
        /\ rows[p] \in Rows /\ rows[p].state \in Unresolved
    BY <1>0 DEF CancelReply, Confirms, Done, guest, faults, CallOK
  <1>2. row \in Rows /\ row.state = "cancelled" /\ row.stop = rows[p].stop
    BY <1>1, InStateFacts DEF RowStates, Ended
  <1> HIDE DEF row
  <1>3. call' \in Calls /\ call'.pc = "idle"
    BY <1>1, AtFacts DEF Pcs
  <1>4. CallOK' /\ \A q \in Requests : ~Awaited(q)' /\ ~Awaited(q)
    BY <1>1, <1>3, Resting DEF Awaited
  <1>5. CASE call.reply = "aborted"
    <2>1. row.stop = Null /\ Quiet(p)
      BY <1>0, <1>1, <1>2, <1>5 DEF RowOK, Purging, Unresolved, CallOK
    <2>2. row.state \notin Undispatched /\ row.state \notin Purging
      BY <1>2 DEF Undispatched, Purging
    <2>3. \A q \in Requests : RowOK(q)'
      BY <1>1, <1>2, <1>4, <1>5, <2>1, <2>2, OneRowFrame
    <2>4. rows' \in [Requests -> Rows]
      BY <1>1, <1>2, <1>5
    <2> QED BY <1>1, <1>3, <1>4, <2>3, <2>4, JournalTypes
  <1>6. CASE call.reply # "aborted"
    <2>1. \A q \in Requests : RowOK(q)'
      BY <1>1, <1>4, <1>6, RowFrame
    <2> QED BY <1>1, <1>3, <1>4, <1>6, <2>1, JournalTypes
  <1> QED BY <1>5, <1>6

\* Noting how the run of a purged row was stopped.
LEMMA NotedInv ==
  ASSUME DelegationAssumption, RunInv, NEW p \in Requests, NEW status \in Stopped \cup {"unknown"},
         call.pc \in {"stop", "stopping"}, p \in call.todo, status \in Proven => Quiet(p),
         Noted(p, status),
         UNCHANGED <<rev, live, review, notices, enabled, native, late, submits, crashes, errors>>
  PROVE  RunInv'
  <1> USE DEF RunInv, DelegationTypeOK
  <1> DEFINE row == [rows[p] EXCEPT !.stop = status]
  <1>1. /\ rows' = [rows EXCEPT ![p] = row] /\ row \in Rows /\ row.stop = status
        /\ row.state = rows[p].state /\ row.text = rows[p].text /\ row.result = rows[p].result
        /\ row.refs = rows[p].refs
        /\ call' \in Calls /\ call'.pc = "stop" /\ call'.reply = Null
        /\ call'.todo = call.todo \ {p} /\ call'.over = call.over
    BY NotedFacts
  <1> HIDE DEF row
  <1>2. \A q \in Requests : ~Awaited(q) /\ ~Awaited(q)'
    BY <1>1 DEF Awaited
  <1>3. rows[p].state \in Purging /\ RowOK(p)
    BY DEF CallOK
  <1>4. row.state \notin Undispatched /\ row.state \notin Ended
    BY <1>1, <1>3 DEF Purging, Undispatched, Ended
  <1>5. row.state = "purged" => Quiet(p)
    BY <1>1, <1>3 DEF RowOK
  <1>6. ~row.text /\ ~row.result /\ row.refs = {}
    BY <1>1, <1>3 DEF RowOK
  <1>7. \A q \in Requests : RowOK(q)' /\ (Quiet(q) => Quiet(q)')
    BY <1>1, <1>2, <1>3, <1>4, <1>5, <1>6, OneRowFrame
  <1>8. rows' \in [Requests -> Rows] /\ \A q \in Requests : rows'[q].state = rows[q].state
    BY <1>1
  <1>9. call.todo \in SUBSET Requests /\ call.over \in SUBSET Requests
    BY DEF Calls
  <1>10. \A q \in call'.todo : rows'[q].state \in Purging
    BY <1>1, <1>8, <1>9 DEF CallOK
  <1>11. \A q \in call'.over : rows'[q].state \in Purging /\ Quiet(q)'
    BY <1>1, <1>7, <1>8, <1>9 DEF CallOK
  <1>12. CallOK'
    BY <1>1, <1>10, <1>11 DEF CallOK, RemotePcs
  <1> QED BY <1>1, <1>7, <1>8, <1>12, JournalTypes

\* A row that had ended is quiet, and so is one whose abort was confirmed.
LEMMA PurgeNotes ==
  ASSUME DelegationAssumption, RunInv, PurgeStopped \/ \E q \in Requests : PurgeEnded(q)
  PROVE  RunInv'
  <1> USE DEF RunInv, DelegationTypeOK
  <1>1. ASSUME NEW q \in Requests, PurgeEnded(q) PROVE RunInv'
    <2>1. /\ call.pc = "stop" /\ q \in call.todo /\ Quiet(q) /\ Noted(q, "not_needed-terminal")
          /\ UNCHANGED <<rev, live, review, notices, enabled, native, late, submits, crashes,
                         errors>>
      BY <1>1 DEF PurgeEnded, guest, faults, CallOK
    <2> QED BY <2>1, NotedInv DEF Stopped
  <1>2. CASE PurgeStopped
    <2> DEFINE status == CASE call.reply = "aborted" -> "confirmed-aborted"
                           [] call.reply = "no-active-run" -> "no-active-run"
                           [] OTHER -> "unknown"
    <2>1. PICK p \in Requests : p = call.req
      BY <1>2 DEF PurgeStopped, CallOK, RemotePcs
    <2>2. /\ call.pc = "stopping" /\ p \in call.todo /\ Noted(p, status)
          /\ UNCHANGED <<rev, live, review, notices, enabled, native, late, submits, crashes,
                         errors>>
      BY <1>2, <2>1 DEF PurgeStopped, guest, faults, CallOK
    <2>3. status \in Stopped \cup {"unknown"} /\ (status \in Proven => call.reply = "aborted")
      BY DEF Stopped, Proven
    <2>4. status \in Proven => Quiet(p)
      BY <2>1, <2>2, <2>3 DEF CallOK
    <2> HIDE DEF status
    <2> QED BY <2>2, <2>3, <2>4, NotedInv
  <1> QED BY <1>1, <1>2

\* Asking the gateway to abort the run of a purged row.
LEMMA PurgeStopInv ==
  ASSUME DelegationAssumption, RunInv, NEW p \in Requests, PurgeStop(p)
  PROVE  RunInv'
  <1> USE DEF RunInv, DelegationTypeOK
  <1> DEFINE reply == IF enabled THEN Null ELSE "lost"
  <1>1. /\ UNCHANGED <<rev, live, review, notices, rows, enabled, native, late, submits, crashes,
                       errors>>
        /\ call' = [call EXCEPT !.pc = "stopping", !.req = p, !.reply = reply]
        /\ call.pc = "stop" /\ p \in call.todo
    BY DEF PurgeStop, guest, faults
  <1>2. reply \in Replies \cup {Null} /\ reply # "aborted"
    BY DEF Replies, DelegationAssumption
  <1> HIDE DEF reply
  <1>3. /\ call' \in Calls /\ call'.pc = "stopping" /\ call'.req = p /\ call'.reply # "aborted"
        /\ call'.todo = call.todo /\ call'.over = call.over
    BY <1>1, <1>2, RemoteFacts DEF Pcs, RemotePcs
  <1>4. \A q \in Requests : ~Awaited(q) /\ ~Awaited(q)'
    BY <1>1, <1>3 DEF Awaited
  <1>5. \A q \in Requests : RowOK(q)' /\ (Quiet(q) => Quiet(q)')
    BY <1>1, <1>4, RowFrame
  <1>6. call.todo \in SUBSET Requests /\ call.over \in SUBSET Requests
    BY DEF Calls
  <1>7. \A q \in call'.todo : rows'[q].state \in Purging
    BY <1>1, <1>3, <1>6 DEF CallOK
  <1>8. \A q \in call'.over : rows'[q].state \in Purging /\ Quiet(q)'
    BY <1>1, <1>3, <1>5, <1>6 DEF CallOK
  <1>9. CallOK'
    BY <1>1, <1>3, <1>7, <1>8 DEF CallOK, RemotePcs
  <1> QED BY <1>1, <1>3, <1>5, <1>9, JournalTypes

\* The scrub closes undispatched rows, which have reached nobody, and marks
\* the others; those that had ended are quiet.
LEMMA PurgeLocalInv ==
  ASSUME DelegationAssumption, RunInv, NEW n \in notices, PurgeLocal(n)
  PROVE  RunInv'
  <1> USE DEF RunInv, DelegationTypeOK
  <1> DEFINE key == PurgeKey(n)
             hit == {q \in Requests : Matches(rows[q], key)}
             over == {q \in hit : rows[q].state \in Ended}
             open == {q \in hit : /\ rows[q].state \notin Ended \cup {"pending_dispatch"}
                                  /\ rows[q].stop \notin Stopped}
  <1>1. /\ UNCHANGED <<rev, live, review, notices, enabled, native, late, submits, crashes, errors>>
        /\ rows' = [q \in Requests |-> IF q \in hit THEN Scrubbed(rows[q], key) ELSE rows[q]]
        /\ call' = [call EXCEPT !.pc = "stop", !.notice = n, !.todo = over \cup open,
                                !.over = over]
        /\ call.pc = "clean"
    BY DEF PurgeLocal, guest, faults
  <1>2. key \in Objects \X (0..MaxRevision) /\ n \in Notices
    BY KeyFacts
  <1>3. /\ over \in SUBSET hit /\ open \in SUBSET hit /\ hit \in SUBSET Requests
        /\ \A q \in over : rows[q].state \in Ended
        /\ \A q \in hit : Matches(rows[q], key)
    OBVIOUS
  <1> HIDE DEF key, hit, over, open
  <1>4. /\ call' \in Calls /\ call'.pc = "stop" /\ call'.todo = over \cup open
        /\ call'.over = over
    BY <1>1, <1>2, <1>3 DEF Calls, Pcs
  <1>5. \A q \in Requests : ~Awaited(q) /\ ~Awaited(q)'
    BY <1>1, <1>4 DEF Awaited
  <1>6. ASSUME NEW q \in hit
        PROVE  rows'[q] \in Rows /\ rows'[q].state \in Purging /\ RowOK(q)'
               /\ (Quiet(q) => Quiet(q)')
    <2>1. rows'[q] = Scrubbed(rows[q], key) /\ rows[q] \in Rows /\ q \in Requests
      BY <1>1, <1>3
    <2>2. /\ rows'[q] \in Rows /\ rows'[q].state \in Purging
          /\ rows'[q].state = "purged" => rows[q].state = "pending_dispatch"
          /\ rows'[q].stop = rows[q].stop
          /\ ~rows'[q].text /\ ~rows'[q].result /\ rows'[q].refs = {}
      BY <1>2, <2>1, ScrubbedFacts
    <2>3. rows'[q].state \notin Undispatched /\ rows'[q].state \notin Ended
      BY <2>2 DEF Purging, Undispatched, Ended
    <2>4. RowOK(q)
      BY <2>1
    <2>5. Quiet(q)' <=> Quiet(q)
      BY <1>1, <1>5, <2>1 DEF Quiet, Outstanding
    <2>6. rows'[q].state = "purged" => Quiet(q)
      BY <2>2, <2>4 DEF RowOK, Quiet, Undispatched
    <2>7. RowOK(q)'
      BY <1>1, <1>5, <2>1, <2>2, <2>3, <2>4, <2>5, <2>6 DEF RowOK
    <2> QED BY <2>2, <2>5, <2>7
  <1>7. ASSUME NEW q \in Requests, q \notin hit
        PROVE  rows'[q] \in Rows /\ RowOK(q)' /\ (Quiet(q) => Quiet(q)')
    <2>1. rows'[q] = rows[q]
      BY <1>1, <1>7
    <2> QED BY <1>1, <1>5, <2>1, RowFrame
  <1>8. \A q \in Requests : rows'[q] \in Rows /\ RowOK(q)' /\ (Quiet(q) => Quiet(q)')
    BY <1>6, <1>7
  <1>9. rows' \in [Requests -> Rows]
    BY <1>1, <1>8
  <1>10. \A q \in over : Quiet(q)
    BY <1>3 DEF RowOK
  <1>11. /\ \A q \in call'.todo : rows'[q].state \in Purging
         /\ \A q \in call'.over : rows'[q].state \in Purging /\ Quiet(q)'
    BY <1>3, <1>4, <1>6, <1>10
  <1>12. CallOK'
    BY <1>4, <1>11 DEF CallOK, RemotePcs
  <1> QED BY <1>1, <1>4, <1>8, <1>9, <1>12, JournalTypes

-----------------------------------------------------------------------------
(* The guest.                                                              *)

\* Steps of the gateway: an outstanding submit may turn into a run, but no
\* quiet request gets one.
LEMMA GuestFrame ==
  ASSUME RunInv, NEW p \in Requests, UNCHANGED <<rows, submits>>,
         \A q \in Requests : q # p => native'[q] = native[q],
         late' \in SUBSET late,
         \A q \in Requests : Awaited(q)' => Awaited(q),
         native'[p] = native[p] \/ (native[p] = "running" /\ native'[p] # "none")
            \/ (native[p] = "none" /\ Outstanding(p) /\ ~Outstanding(p)' /\ native'[p] = "running")
  PROVE  \A q \in Requests : RowOK(q)' /\ (Quiet(q) => Quiet(q)')
  <1>1. ASSUME NEW q \in Requests PROVE RowOK(q) /\ (Outstanding(q)' => Outstanding(q))
    BY DEF RunInv, Outstanding
  <1>2. ASSUME NEW q \in Requests, native'[q] = native[q]
        PROVE  RowOK(q)' /\ (Quiet(q) => Quiet(q)')
    BY <1>1, <1>2 DEF RowOK, Quiet, Outstanding
  <1>3. CASE native[p] = "running" /\ native'[p] # "none"
    <2>1. RowOK(p) /\ ~Quiet(p) /\ ~Outstanding(p)
      BY <1>1, <1>3 DEF RowOK, Quiet, Outstanding
    <2>2. ~Outstanding(p)'
      BY <1>1, <2>1
    <2>3. RowOK(p)'
      BY <1>3, <2>1, <2>2 DEF RowOK, Quiet, Outstanding
    <2> QED BY <1>2, <2>1, <2>3
  <1>4. CASE native[p] = "none" /\ Outstanding(p) /\ ~Outstanding(p)' /\ native'[p] = "running"
    <2>1. RowOK(p) /\ ~Quiet(p)
      BY <1>1, <1>4 DEF Quiet
    <2>2. RowOK(p)'
      BY <1>4, <2>1 DEF RowOK, Quiet, Outstanding
    <2> QED BY <1>2, <2>1, <2>2
  <1> QED BY <1>2, <1>3, <1>4

\* The gateway starts the run of an awaited submit.
LEMMA HandleSubmitInv == ASSUME DelegationAssumption, RunInv, HandleSubmit PROVE RunInv'
  <1> USE DEF RunInv, DelegationTypeOK
  <1>0. PICK p \in Requests : p = call.req
    BY DEF HandleSubmit, CallOK, RemotePcs
  <1>1. /\ UNCHANGED <<rev, live, review, notices, rows, enabled, late, submits, crashes, errors>>
        /\ native' = [native EXCEPT ![p] = IF @ = "none" THEN "running" ELSE @]
        /\ call.pc = "submit" /\ call.reply = Null
    BY <1>0 DEF HandleSubmit, Started, faults
  <1>2. PICK reply \in {"accepted", "lost"} : Answer(reply)
    BY DEF HandleSubmit
  <1>3. reply \in Replies /\ reply # Null
    BY DEF Replies, DelegationAssumption
  <1>4. call' \in Calls /\ call'.pc = "submit" /\ call'.req = p /\ call'.reply = reply
    BY <1>0, <1>1, <1>2, <1>3, AnswerFacts
  <1>5. Awaited(p) /\ \A q \in Requests : ~Awaited(q)'
    BY <1>0, <1>1, <1>3, <1>4 DEF Awaited
  <1>6. native[p] = "none" /\ <<"submit", p>> \notin late
    BY <1>5 DEF RowOK
  <1>7. /\ native'[p] = "running" /\ \A q \in Requests : q # p => native'[q] = native[q]
        /\ native' \in [Requests -> {"none", "running", "ok", "error", "aborted"}]
    BY <1>1, <1>6
  <1>8. Outstanding(p) /\ ~Outstanding(p)'
    BY <1>1, <1>5, <1>6 DEF Outstanding
  <1>9. \A q \in Requests : RowOK(q)'
    BY <1>1, <1>5, <1>6, <1>7, <1>8, GuestFrame
  <1>10. rows'[p].state = "dispatching"
    BY <1>0, <1>1 DEF CallOK
  <1>11. CallOK'
    BY <1>4, <1>10 DEF CallOK, RemotePcs
  <1> QED BY <1>1, <1>4, <1>7, <1>9, <1>11, JournalTypes

\* The gateway aborts a running run, and reports an abort only then.
LEMMA HandleCancelInv == ASSUME DelegationAssumption, RunInv, HandleCancel PROVE RunInv'
  <1> USE DEF RunInv, DelegationTypeOK
  <1>0. PICK p \in Requests : p = call.req
    BY DEF HandleCancel, CallOK, RemotePcs
  <1>1. /\ UNCHANGED <<rev, live, review, notices, rows, enabled, late, submits, crashes, errors>>
        /\ native' = [native EXCEPT ![p] = IF @ = "running" THEN "aborted" ELSE @]
        /\ call.pc \in {"cancel", "stopping"}
    BY <1>0 DEF HandleCancel, Aborted, faults
  <1>2. PICK reply \in {"aborted", "no-active-run", "lost"} :
             Answer(reply) /\ (reply = "aborted" => native[p] = "running")
    BY <1>0 DEF HandleCancel
  <1>3. reply \in Replies
    BY DEF Replies
  <1>4. /\ call' \in Calls /\ call'.pc = call.pc /\ call'.req = p /\ call'.reply = reply
        /\ call'.todo = call.todo /\ call'.over = call.over
    BY <1>0, <1>2, <1>3, AnswerFacts
  <1>5. \A q \in Requests : ~Awaited(q) /\ ~Awaited(q)'
    BY <1>1, <1>4 DEF Awaited
  <1>6. /\ native'[p] = IF native[p] = "running" THEN "aborted" ELSE native[p]
        /\ \A q \in Requests : q # p => native'[q] = native[q]
        /\ native' \in [Requests -> {"none", "running", "ok", "error", "aborted"}]
    BY <1>1
  <1>7. \A q \in Requests : RowOK(q)' /\ (Quiet(q) => Quiet(q)')
    BY <1>1, <1>5, <1>6, GuestFrame
  <1>8. reply = "aborted" => Quiet(p)'
    <2>1. ASSUME reply = "aborted" PROVE native'[p] # "running" /\ <<"submit", p>> \notin late'
      BY <1>1, <1>2, <1>6, <2>1 DEF RowOK
    <2> QED BY <1>5, <2>1 DEF Quiet, Outstanding
  <1>9. call.todo \in SUBSET Requests /\ call.over \in SUBSET Requests
    BY DEF Calls
  <1>10. call.pc = "stopping" =>
            /\ p \in call'.todo
            /\ \A q \in call'.todo : rows'[q].state \in Purging
            /\ \A q \in call'.over : rows'[q].state \in Purging /\ Quiet(q)'
    BY <1>0, <1>1, <1>4, <1>7, <1>9 DEF CallOK
  <1>11. call.pc = "cancel" => rows'[p].state \in Unresolved
    BY <1>0, <1>1 DEF CallOK
  <1>12. CallOK'
    BY <1>1, <1>4, <1>8, <1>10, <1>11 DEF CallOK
  <1> QED BY <1>1, <1>4, <1>6, <1>7, <1>12, JournalTypes

\* The control state agrees with the tables while rows and call stay, and
\* nothing quiet stirs.
LEMMA CallFrame ==
  ASSUME RunInv, UNCHANGED <<rows, call>>, \A q \in Requests : Quiet(q) => Quiet(q)'
  PROVE  CallOK'
  <1> USE DEF RunInv, DelegationTypeOK
  <1>1. call.todo \in SUBSET Requests /\ call.over \in SUBSET Requests
    BY DEF Calls
  <1>2. call.pc \in {"stop", "stopping"} =>
            \A q \in call.over : rows[q].state \in Purging /\ Quiet(q)'
    BY <1>1 DEF CallOK
  <1>3. ASSUME NEW q \in Requests, q = call.req
        PROVE  /\ call.pc = "status" /\ call.reply \in {"ok", "unusable", "error"} => Quiet(q)'
               /\ call.pc \in {"cancel", "stopping"} /\ call.reply = "aborted" => Quiet(q)'
    BY <1>3 DEF CallOK
  <1>4. CASE call.req \in Requests
    <2>1. PICK p \in Requests : p = call'.req
      BY <1>4
    <2> QED BY <1>2, <1>3, <2>1 DEF CallOK
  <1>5. CASE call.req \notin Requests
    <2>1. call.pc \notin {"dispatch"} \cup RemotePcs
      BY <1>5 DEF CallOK
    <2> QED BY <1>2, <2>1 DEF CallOK, RemotePcs
  <1> QED BY <1>4, <1>5

\* A command arrives after its caller gave up on it.
LEMMA ArriveInv ==
  ASSUME DelegationAssumption, RunInv, NEW cmd \in late, Arrive(cmd)
  PROVE  RunInv'
  <1> USE DEF RunInv, DelegationTypeOK
  <1>0. PICK p \in Requests : cmd \in {<<"submit", p>>, <<"cancel", p>>}
    OBVIOUS
  <1>1. /\ UNCHANGED <<rev, live, review, notices, rows, call, enabled, submits, crashes, errors>>
        /\ late' = late \ {cmd}
        /\ native' = IF cmd = <<"submit", p>>
                     THEN [native EXCEPT ![p] = IF @ = "none" THEN "running" ELSE @]
                     ELSE [native EXCEPT ![p] = IF @ = "running" THEN "aborted" ELSE @]
    <2>1. cmd[2] = p /\ (cmd[1] = "submit" <=> cmd = <<"submit", p>>)
      BY <1>0
    <2>2. /\ UNCHANGED <<rev, live, review, notices, rows, call, enabled, submits, faults>>
          /\ late' = late \ {cmd}
          /\ native' = IF cmd[1] = "submit" THEN Started(cmd[2]) ELSE Aborted(cmd[2])
      BY DEF Arrive
    <2>3. native' = IF cmd = <<"submit", p>> THEN Started(p) ELSE Aborted(p)
      BY <2>1, <2>2
    <2> QED BY <2>2, <2>3 DEF Started, Aborted, faults
  <1>2. \A q \in Requests : Awaited(q)' <=> Awaited(q)
    BY <1>1 DEF Awaited
  <1>3. /\ native' \in [Requests -> {"none", "running", "ok", "error", "aborted"}]
        /\ \A q \in Requests : q # p => native'[q] = native[q]
        /\ late' \in SUBSET late
    BY <1>1
  <1>4. CASE cmd = <<"submit", p>>
    <2>1. native[p] = "none" /\ ~Awaited(p) /\ Outstanding(p)
      BY <1>4 DEF RowOK, Outstanding
    <2>2. native'[p] = "running" /\ ~Outstanding(p)'
      BY <1>1, <1>2, <1>4, <2>1 DEF Outstanding
    <2> QED BY <1>1, <1>2, <1>3, <2>1, <2>2, GuestFrame, CallFrame, JournalTypes
  <1>5. CASE cmd # <<"submit", p>>
    <2>1. native'[p] = native[p] \/ (native[p] = "running" /\ native'[p] # "none")
      BY <1>1, <1>5
    <2> QED BY <1>1, <1>2, <1>3, <2>1, GuestFrame, CallFrame, JournalTypes
  <1> QED BY <1>4, <1>5

\* A run ends by itself.
LEMMA RunEndsInv ==
  ASSUME DelegationAssumption, RunInv, NEW p \in Requests, RunEnds(p)
  PROVE  RunInv'
  <1> USE DEF RunInv, DelegationTypeOK
  <1>1. /\ UNCHANGED <<rev, live, review, notices, rows, call, enabled, late, submits, crashes,
                       errors>>
        /\ native[p] = "running"
        /\ native' \in {[native EXCEPT ![p] = "ok"], [native EXCEPT ![p] = "error"]}
    BY DEF RunEnds, faults
  <1>2. \A q \in Requests : Awaited(q)' <=> Awaited(q)
    BY <1>1 DEF Awaited
  <1>3. /\ native' \in [Requests -> {"none", "running", "ok", "error", "aborted"}]
        /\ native'[p] # "none" /\ \A q \in Requests : q # p => native'[q] = native[q]
    BY <1>1
  <1> QED BY <1>1, <1>2, <1>3, GuestFrame, CallFrame, JournalTypes

-----------------------------------------------------------------------------
(* The theorems.                                                           *)

\* The initial state satisfies the invariant.
LEMMA InitInv == ASSUME DelegationAssumption, Init PROVE RunInv
  <1>1. /\ JournalInit /\ rows = [q \in Requests |-> NoRow] /\ call = At("down", "idle")
        /\ enabled \in BOOLEAN /\ native = [q \in Requests |-> "none"] /\ late = {}
        /\ submits = [q \in Requests |-> 0] /\ crashes = 0 /\ errors = 0
    BY DEF Init
  <1>2. call \in Calls /\ call.pc = "down"
    BY <1>1, AtFacts DEF Pcs
  <1>3. NoRow \in Rows /\ NoRow.state = "none" /\ NoRow.stop = Null
    BY DEF NoRow, Rows, RowStates
  <1>4. JournalTypeOK
    BY <1>1 DEF JournalInit, JournalTypeOK, DelegationAssumption, Notices
  <1>5. DelegationTypeOK
    BY <1>1, <1>2, <1>3, <1>4 DEF DelegationTypeOK, DelegationAssumption
  <1>6. \A q \in Requests : ~Outstanding(q)
    BY <1>1, <1>2 DEF Outstanding, Awaited
  <1>7. Null \notin Proven
    BY DEF Proven, Stopped, DelegationAssumption
  <1>8. ASSUME NEW q \in Requests PROVE RowOK(q)
    <2>1. rows[q] = NoRow /\ native[q] = "none" /\ submits[q] = 0
      BY <1>1
    <2> QED BY <1>3, <1>6, <1>7, <2>1 DEF RowOK, Outstanding, Ended, Purging
  <1>9. CallOK
    BY <1>2 DEF CallOK, RemotePcs
  <1> QED BY <1>5, <1>8, <1>9 DEF RunInv

\* Every step preserves the invariant.
LEMMA NextInv == ASSUME DelegationAssumption, RunInv, [Next]_vars PROVE RunInv'
  <1>1. ASSUME NEW q \in Requests, Serve(q) PROVE RunInv'
    BY <1>1, SubmitInv, ResubmitInv, ReconcileInv, CancelUnsentInv, CancelInv DEF Serve
  <1>2. CASE ServiceStep
    BY <1>1, <1>2, StartInv, AbandonInv, RestingSteps, PurgeLocalInv, PurgeNotes, PurgeStopInv,
       ExpireInv, DispatchInv, DispatchedInv, StatusReplyInv, CancelReplyInv DEF ServiceStep
  <1>3. CASE GuestStep
    BY <1>3, HandleSubmitInv, HandleStatusInv, HandleCancelInv, ArriveInv, RunEndsInv
       DEF GuestStep
  <1>4. CASE UNCHANGED vars
    <2>1. UNCHANGED vars
      BY <1>4
    <2>2. \A q \in Requests : (Awaited(q)' <=> Awaited(q)) /\ rows'[q] = rows[q]
      BY <2>1 DEF vars, Awaited
    <2>3. \A q \in Requests : RowOK(q)' /\ (Quiet(q) => Quiet(q)')
      BY <2>1, <2>2, RowFrame DEF vars, RunInv
    <2>4. CallOK'
      BY <2>1, <2>3, CallFrame DEF vars
    <2>5. DelegationTypeOK'
      BY <2>1, JournalTypes DEF vars, RunInv, DelegationTypeOK
    <2> QED BY <2>3, <2>4, <2>5 DEF RunInv
  <1> QED BY <1>2, <1>3, <1>4 DEF Next

\* RunInv holds throughout.
LEMMA RunInvariant == Spec => []RunInv
  <1>1. Init => RunInv
    BY InitInv, DelegationAssumption
  <1>2. RunInv /\ [Next]_vars => RunInv'
    BY NextInv, DelegationAssumption
  <1> QED BY <1>1, <1>2, PTL DEF Spec

\* Every request row, control state and remote command has its type,
\* whatever the guest answers and wherever the service crashes
\* (DelegationController's schema and state names).
THEOREM TypeCorrect == Spec => []DelegationTypeOK
  <1>1. RunInv => DelegationTypeOK
    BY DEF RunInv
  <1> QED BY <1>1, RunInvariant, PTL

\* No request is submitted to the gateway twice (dispatch, __init__).
THEOREM SubmittedOnce == Spec => []NeverResent
  <1>1. RunInv => NeverResent
    BY DEF RunInv, RowOK, NeverResent
  <1> QED BY <1>1, RunInvariant, PTL

\* A row is closed, or its purge recorded as stopped, only when no run of it
\* is going on and none can start (reconcile, cancel, purge_source).
THEOREM ClosedRunsStopped == Spec => []EndedIsStopped
  <1>1. ASSUME RunInv PROVE EndedIsStopped
    <2>1. call \in Calls /\ (call.pc \in {"dispatch"} \cup RemotePcs => call.req \in Requests)
      BY <1>1 DEF RunInv, DelegationTypeOK, CallOK
    <2>2. \A q \in Requests : <<"submit", q>> \in Unheard <=> Awaited(q)
      BY <2>1, UnheardFacts
    <2>3. ASSUME NEW q \in Requests, Quiet(q)
          PROVE  native[q] # "running" /\ <<"submit", q>> \notin late \cup Unheard
      BY <2>2, <2>3 DEF Quiet, Outstanding
    <2>4. ASSUME NEW q \in Requests,
                 rows[q].state \in Ended \cup {"purged"} \/ rows[q].stop \in Proven
          PROVE  Quiet(q)
      BY <1>1, <2>4 DEF RunInv, RowOK
    <2> QED BY <2>3, <2>4 DEF EndedIsStopped, Proven
  <1> QED BY <1>1, RunInvariant, PTL

\* How a step may change a closed row.
KeepsClosed(q) ==
    /\ rows[q].state \in Ended => rows'[q].state \in {rows[q].state, "purge_pending"}
    /\ rows[q].state \in Purging => rows'[q].state \in Purging

\* A step that writes one row, which was not closed, or keeps its state.
LEMMA OpenRowStep ==
  ASSUME RunInv, NEW p \in Requests, NEW row, rows' = [rows EXCEPT ![p] = row],
         rows[p].state \notin Ended \cup Purging \/ row.state = rows[p].state
  PROVE  \A q \in Requests : KeepsClosed(q)
  <1>1. rows'[p] = row /\ \A q \in Requests : q # p => rows'[q] = rows[q]
    BY DEF RunInv, DelegationTypeOK
  <1> QED BY <1>1 DEF KeepsClosed

\* No step reopens a closed row: CallOK keeps the row a reply will write
\* open until the reply is handled.
LEMMA StepKeepsClosed ==
  ASSUME DelegationAssumption, RunInv, [Next]_vars
  PROVE  \A q \in Requests : KeepsClosed(q)
  <1> USE DEF RunInv, DelegationTypeOK
  <1>1. ASSUME UNCHANGED rows PROVE \A q \in Requests : KeepsClosed(q)
    BY <1>1 DEF KeepsClosed
  <1>2. CASE Start
    <2>1. ASSUME NEW q \in Requests, rows[q].state \in Ended \cup Purging
          PROVE  rows'[q] = rows[q]
      BY <1>2, <2>1 DEF Start, AfterRestart, Ended, Purging
    <2> QED BY <2>1 DEF KeepsClosed
  <1>3. ASSUME NEW n \in notices, PurgeLocal(n) PROVE \A q \in Requests : KeepsClosed(q)
    <2>1. ASSUME NEW q \in Requests
          PROVE  rows'[q] \in {rows[q], Scrubbed(rows[q], PurgeKey(n))}
      BY <1>3 DEF PurgeLocal
    <2>2. ASSUME NEW q \in Requests
          PROVE  /\ Scrubbed(rows[q], PurgeKey(n)).state \in Purging
                 /\ rows[q].state \in Ended =>
                       Scrubbed(rows[q], PurgeKey(n)).state = "purge_pending"
      BY DEF Scrubbed, Purging, Ended
    <2> QED BY <2>1, <2>2 DEF KeepsClosed
  <1>4. ASSUME NEW q \in Requests, NEW status, Noted(q, status)
        PROVE  \A p \in Requests : KeepsClosed(p)
    <2>1. rows[q] \in Rows /\ rows' = [rows EXCEPT ![q] = [rows[q] EXCEPT !.stop = status]]
      BY <1>4 DEF Noted
    <2>2. [rows[q] EXCEPT !.stop = status].state = rows[q].state
      BY <2>1 DEF Rows
    <2> QED BY <2>1, <2>2, OpenRowStep
  <1>5. ASSUME NEW q \in Requests, PurgeEnded(q) PROVE \A p \in Requests : KeepsClosed(p)
    BY <1>4, <1>5 DEF PurgeEnded
  <1>6. CASE PurgeStopped
    <2>1. call.req \in Requests
      BY <1>6 DEF PurgeStopped, CallOK, RemotePcs
    <2> QED BY <1>4, <1>6, <2>1 DEF PurgeStopped
  <1>7. ASSUME NEW q \in Requests, Serve(q) PROVE \A p \in Requests : KeepsClosed(p)
    <2>1. CASE \E refs \in SUBSET Citations : Submit(q, refs)
      BY <2>1, OpenRowStep DEF Submit, Update, Ended, Purging
    <2>2. CASE Resubmit(q)
      BY <1>1, <2>2 DEF Resubmit
    <2>3. CASE Reconcile(q)
      BY <1>1, <2>3 DEF Reconcile
    <2>4. CASE CancelUnsent(q)
      BY <2>4, OpenRowStep DEF CancelUnsent, SetState, Ended, Purging
    <2>5. CASE Cancel(q)
      BY <2>5, OpenRowStep DEF Cancel, Update, Open
    <2> QED BY <1>7, <2>1, <2>2, <2>3, <2>4, <2>5 DEF Serve
  <1>8. CASE Expire \/ Dispatch
    <2>1. call.req \in Requests /\ rows[call.req].state = "pending_dispatch"
      BY <1>8 DEF Expire, Dispatch, CallOK
    <2> QED BY <1>8, <2>1, OpenRowStep DEF Expire, Dispatch, SetState, Ended, Purging
  <1>9. CASE Dispatched
    <2>1. call.req \in Requests /\ rows[call.req].state = "dispatching"
      BY <1>9 DEF Dispatched, CallOK, RemotePcs
    <2> QED BY <1>9, <2>1, OpenRowStep DEF Dispatched, Ended, Purging
  <1>10. CASE StatusReply
    <2>1. call.req \in Requests /\ rows[call.req].state \in Unresolved
      BY <1>10 DEF StatusReply, CallOK, RemotePcs
    <2> QED BY <1>10, <2>1, OpenRowStep DEF StatusReply, Update, Unresolved, Ended, Purging
  <1>11. CASE CancelReply
    <2>1. call.req \in Requests /\ rows[call.req].state \in Unresolved
      BY <1>11 DEF CancelReply, CallOK, RemotePcs
    <2> QED BY <1>1, <1>11, <2>1, OpenRowStep DEF CancelReply, Unresolved, Ended, Purging
  <1>12. CASE Crash \/ RequestFails \/ ToolRequest \/ ServeOther \/ PurgeAck \/ CleanDone \/ TimeOut
    BY <1>1, <1>12 DEF Crash, RequestFails, ToolRequest, ServeOther, PurgeAck, CleanDone, TimeOut
  <1>13. ASSUME NEW o \in Objects, NEW r \in Revisions, IngestRequest(o, r)
         PROVE  \A q \in Requests : KeepsClosed(q)
    BY <1>1, <1>13 DEF IngestRequest
  <1>14. ASSUME NEW q \in Requests, PurgeStop(q) PROVE \A p \in Requests : KeepsClosed(p)
    BY <1>1, <1>14 DEF PurgeStop
  <1>15. CASE GuestStep
    BY <1>1, <1>15 DEF GuestStep, HandleSubmit, HandleStatus, HandleCancel, Arrive, RunEnds
  <1>16. CASE UNCHANGED vars
    BY <1>1, <1>16 DEF vars
  <1> QED BY <1>2, <1>3, <1>5, <1>6, <1>7, <1>8, <1>9, <1>10, <1>11, <1>12, <1>13, <1>14, <1>15,
             <1>16 DEF Next, ServiceStep

\* What ended stays ended but for being purged, and what was scrubbed never
\* holds text, citations or a result again (reconcile, cancel, dispatch,
\* purge_source).
THEOREM ClosedForGood == Spec => ClosedStaysClosed
  <1> DEFINE Step == \A q \in Requests :
                /\ rows[q].state \in Ended => rows'[q].state \in {rows[q].state, "purge_pending"}
                /\ rows[q].state \in Purging =>
                      /\ rows'[q].state \in Purging
                      /\ ~rows'[q].text /\ ~rows'[q].result /\ rows'[q].refs = {}
  <1>1. RunInv /\ [Next]_vars => Step
    <2> SUFFICES ASSUME RunInv, [Next]_vars, NEW q \in Requests
                 PROVE  /\ KeepsClosed(q)
                        /\ rows'[q].state \in Purging =>
                              ~rows'[q].text /\ ~rows'[q].result /\ rows'[q].refs = {}
      BY DEF KeepsClosed
    <2>1. KeepsClosed(q)
      BY StepKeepsClosed, DelegationAssumption
    <2>2. RowOK(q)'
      BY NextInv, DelegationAssumption DEF RunInv
    <2> QED BY <2>1, <2>2 DEF RowOK
  <1> HIDE DEF Step
  <1>2. Spec => [][Step]_vars
    BY <1>1, RunInvariant, PTL DEF Spec
  <1> QED BY <1>2 DEF ClosedStaysClosed, Step

-----------------------------------------------------------------------------
(* Citations.  A notice may go once no row cites what it is about; that    *)
(* must still hold when the remote aborts between scrub and                *)
(* acknowledgement are over.                                               *)

\* What purge_source removes for a notice.
About(n, ref) == n.obj = ref[1] /\ (n.op = "delete" \/ n.prev = ref[2])

\* The aborts of purge_source, between its scrub and its acknowledgement.
StopPcs == {"stop", "stopping"}

CiteInv ==
    /\ CitedTextIsCurrent
    /\ call.pc \in StopPcs => \A q \in Requests : \A ref \in rows[q].refs : ~About(call.notice, ref)

\* No row cites more than before.
RefsShrink == \A q \in Requests : rows'[q].refs \subseteq rows[q].refs

\* A step that leaves the journal alone and goes on with its notice.
LEMMA QuietCite ==
  ASSUME CiteInv, UNCHANGED <<rev, live, notices>>, RefsShrink,
         call'.pc \in StopPcs => call.pc \in StopPcs /\ call'.notice = call.notice
  PROVE  CiteInv'
  <1>1. CitedTextIsCurrent'
    BY DEF CiteInv, CitedTextIsCurrent, Served, RefsShrink
  <1>2. call'.pc \in StopPcs => \A q \in Requests : \A ref \in rows'[q].refs : ~About(call'.notice, ref)
    BY DEF CiteInv, RefsShrink, About
  <1> QED BY <1>1, <1>2 DEF CiteInv, About

\* An update of one row that adds no citation.
LEMMA OneRowRefs ==
  ASSUME DelegationTypeOK, NEW q \in Requests, NEW row, row.refs \subseteq rows[q].refs,
         rows' = [rows EXCEPT ![q] = row]
  PROVE  RefsShrink
  BY DEF DelegationTypeOK, RefsShrink

\* Only a new request cites something.
LEMMA StepRefs ==
  ASSUME RunInv, Next
  PROVE  \/ RefsShrink
         \/ \E q \in Requests, refs \in SUBSET Citations : Submit(q, refs)
  <1> USE DEF RunInv
  <1>1. ASSUME UNCHANGED rows PROVE RefsShrink
    BY <1>1 DEF RefsShrink
  <1>2. ASSUME NEW q \in Requests, NEW state,
               rows' = [rows EXCEPT ![q] = InState(rows[q], state)]
        PROVE  RefsShrink
    <2>1. InState(rows[q], state).refs = rows[q].refs
      BY DEF DelegationTypeOK, InState, Rows
    <2> QED BY <1>2, <2>1, OneRowRefs
  <1>3. CASE Start
    <2>1. \A q \in Requests : AfterRestart(rows[q]).refs = rows[q].refs
      BY DEF AfterRestart, InState, DelegationTypeOK, Rows
    <2> QED BY <1>3, <2>1 DEF Start, RefsShrink
  <1>4. ASSUME NEW n \in notices, PurgeLocal(n) PROVE RefsShrink
    <2>1. \A q \in Requests : Scrubbed(rows[q], PurgeKey(n)).refs = {}
      BY DEF Scrubbed
    <2> QED BY <1>4, <2>1 DEF PurgeLocal, RefsShrink
  <1>5. ASSUME NEW q \in Requests, NEW status, Noted(q, status) PROVE RefsShrink
    <2>1. [rows[q] EXCEPT !.stop = status].refs = rows[q].refs
      BY DEF DelegationTypeOK, Rows
    <2>2. rows' = [rows EXCEPT ![q] = [rows[q] EXCEPT !.stop = status]]
      BY <1>5 DEF Noted
    <2> QED BY <2>1, <2>2, OneRowRefs
  <1>6. ASSUME NEW q \in Requests, PurgeEnded(q) PROVE RefsShrink
    BY <1>5, <1>6 DEF PurgeEnded
  <1>7. CASE PurgeStopped
    BY <1>5, <1>7 DEF PurgeStopped, CallOK, RemotePcs
  <1>8. ASSUME NEW q \in Requests, Resubmit(q) \/ CancelUnsent(q) \/ Reconcile(q) PROVE RefsShrink
    BY <1>1, <1>2, <1>8 DEF Resubmit, CancelUnsent, Reconcile, SetState
  <1>9. ASSUME NEW q \in Requests, Cancel(q) PROVE RefsShrink
    <2>1. [rows[q] EXCEPT !.state = "cancel_requested", !.asked = TRUE].refs = rows[q].refs
      BY DEF DelegationTypeOK, Rows
    <2> QED BY <1>9, <2>1, OneRowRefs DEF Cancel, Update
  <1>10. CASE Expire \/ Dispatch \/ Dispatched \/ CancelReply
    <2>1. call.req \in Requests
      BY <1>10 DEF Expire, Dispatch, Dispatched, CancelReply, CallOK, RemotePcs
    <2> QED BY <1>1, <1>2, <1>10, <2>1 DEF Expire, Dispatch, Dispatched, CancelReply, SetState
  <1>11. CASE StatusReply
    <2>1. call.req \in Requests
      BY <1>11 DEF StatusReply, CallOK, RemotePcs
    <2>2. Reconciled(rows[call.req], call.reply).refs = rows[call.req].refs
      BY <2>1 DEF Reconciled, InState, DelegationTypeOK, Rows
    <2> QED BY <1>11, <2>1, <2>2, OneRowRefs DEF StatusReply, Update
  <1>12. CASE \/ Crash \/ RequestFails \/ ToolRequest \/ ServeOther \/ PurgeAck \/ CleanDone \/ TimeOut
              \/ \E o \in Objects, r \in Revisions : IngestRequest(o, r)
              \/ \E q \in Requests : PurgeStop(q)
              \/ GuestStep
    BY <1>1, <1>12 DEF Crash, RequestFails, ToolRequest, ServeOther, PurgeAck, CleanDone, TimeOut,
           IngestRequest, PurgeStop, GuestStep, HandleSubmit, HandleStatus, HandleCancel, Arrive, RunEnds
  <1> QED BY <1>3, <1>4, <1>6, <1>7, <1>8, <1>9, <1>10, <1>11, <1>12 DEF Next, ServiceStep, Serve

\* Who touches the journal.
LEMMA StepJournal ==
  ASSUME Next
  PROVE  \/ \E o \in Objects, r \in Revisions : IngestRequest(o, r)
         \/ PurgeAck
         \/ UNCHANGED <<rev, live, notices>>
  BY DEF Next, ServiceStep, GuestStep, Start, Crash, RequestFails, ToolRequest, ServeOther,
         PurgeLocal, PurgeEnded, PurgeStop, Serve, Submit, Resubmit, Reconcile, CancelUnsent, Cancel,
         PurgeStopped, CleanDone, Expire, Dispatch, Dispatched, StatusReply, CancelReply, TimeOut,
         HandleSubmit, HandleStatus, HandleCancel, Arrive, RunEnds

\* The notice being purged stays the one being purged.
SameNotice == call'.pc \in StopPcs => call.pc \in StopPcs /\ call'.notice = call.notice

\* Only the local half of a purge takes up a new notice.
LEMMA StepNotice ==
  ASSUME RunInv, Next
  PROVE  SameNotice \/ \E n \in notices : PurgeLocal(n)
  <1>0. call \in Calls
    BY DEF RunInv, DelegationTypeOK
  <1>1. ASSUME NEW pc, NEW goal, pc \notin StopPcs, call' = At(pc, goal) PROVE SameNotice
    BY <1>1 DEF At, SameNotice
  <1>2. ASSUME NEW q, call' = [At("dispatch", "idle") EXCEPT !.req = q] PROVE SameNotice
    <2>1. call'.pc = "dispatch"
      BY <1>2 DEF At
    <2> QED BY <2>1 DEF SameNotice, StopPcs
  <1>3. ASSUME NEW q, NEW pc \in {"submit", "status", "cancel"}, Remote(pc, q) PROVE SameNotice
    <2>1. call'.pc = pc
      BY <1>0, <1>3 DEF Remote, Calls
    <2> QED BY <1>3, <2>1 DEF SameNotice, StopPcs
  <1>4. ASSUME NEW reply, Answer(reply) PROVE SameNotice
    <2>1. call'.pc = call.pc /\ call'.notice = call.notice
      BY <1>0, <1>4 DEF Answer, Calls
    <2> QED BY <2>1 DEF SameNotice
  <1>5. ASSUME NEW q, NEW status, call.pc \in StopPcs, Noted(q, status) PROVE SameNotice
    <2>1. call'.notice = call.notice
      BY <1>0, <1>5 DEF Noted, Calls
    <2> QED BY <1>5, <2>1 DEF SameNotice
  <1>6. ASSUME NEW q, PurgeStop(q) PROVE SameNotice
    <2>1. call'.notice = call.notice
      BY <1>0, <1>6 DEF PurgeStop, Calls
    <2> QED BY <1>6, <2>1 DEF PurgeStop, SameNotice, StopPcs
  <1>7. CASE \/ Start \/ Crash \/ RequestFails \/ ToolRequest \/ ServeOther \/ PurgeAck
             \/ Expire \/ Dispatched \/ StatusReply \/ CancelReply
             \/ \E o \in Objects, r \in Revisions : IngestRequest(o, r)
             \/ \E q \in Requests : CancelUnsent(q)
    <2>1. {"down", "idle", "clean"} \cap StopPcs = {}
      BY DEF StopPcs
    <2> QED BY <1>1, <1>7, <2>1 DEF Start, Crash, RequestFails, ToolRequest, ServeOther, PurgeAck,
              Expire, Dispatched, StatusReply, CancelReply, IngestRequest, CancelUnsent, Done
  <1>8. CASE CleanDone
    <2>1. call.goal \notin StopPcs
      BY <1>0 DEF Calls, StopPcs
    <2> QED BY <1>1, <1>8, <2>1 DEF CleanDone
  <1>9. ASSUME NEW q \in Requests, Resubmit(q) \/ \E refs \in SUBSET Citations : Submit(q, refs)
        PROVE  SameNotice
    BY <1>2, <1>9 DEF Resubmit, Submit
  <1>10. ASSUME NEW q \in Requests, Reconcile(q) \/ Cancel(q) PROVE SameNotice
    BY <1>3, <1>10 DEF Reconcile, Cancel
  <1>11. CASE Dispatch
    BY <1>3, <1>11 DEF Dispatch
  <1>12. ASSUME NEW q \in Requests, PurgeEnded(q) PROVE SameNotice
    BY <1>5, <1>12 DEF PurgeEnded, StopPcs
  <1>13. CASE PurgeStopped
    BY <1>5, <1>13 DEF PurgeStopped, StopPcs
  <1>14. CASE TimeOut \/ HandleSubmit \/ HandleStatus \/ HandleCancel
    BY <1>4, <1>14 DEF TimeOut, HandleSubmit, HandleStatus, HandleCancel
  <1>15. CASE (\E cmd \in late : Arrive(cmd)) \/ \E q \in Requests : RunEnds(q)
    BY <1>15 DEF Arrive, RunEnds, SameNotice
  <1> QED
    BY <1>6, <1>7, <1>8, <1>9, <1>10, <1>11, <1>12, <1>13, <1>14, <1>15
       DEF Next, ServiceStep, GuestStep, Serve

\* An accepted event queues the notice of what it replaces.
LEMMA IngestCite ==
  ASSUME RunInv, CiteInv, NEW o \in Objects, NEW r \in Revisions, IngestRequest(o, r)
  PROVE  CiteInv'
  <1>1. rows' = rows /\ call'.pc = "clean"
    BY DEF IngestRequest, At
  <1>2. ASSUME NEW q \in Requests, NEW ref \in rows[q].refs
        PROVE  Served(ref[1], ref[2])' \/ \E n \in notices' : About(n, ref)
    <2>1. ref \in Objects \X Revisions
      BY DEF RunInv, DelegationTypeOK, Rows, Citations
    <2>2. ref[1] \in Objects /\ ref[2] \in Revisions /\ ref[2] # 0
      BY <2>1 DEF Revisions
    <2>3. CASE \E n \in notices : About(n, ref)
      BY <2>3 DEF IngestRequest, Publish, Withdraw
    <2>4. CASE Served(ref[1], ref[2]) /\ ref[1] # o
      BY <2>2, <2>4 DEF Served, IngestRequest, Publish, Withdraw, RunInv, DelegationTypeOK, JournalTypeOK
    <2>5. CASE Served(ref[1], ref[2]) /\ ref[1] = o
      <3>1. rev[o] = ref[2] /\ rev[o] # 0
        BY <2>2, <2>5 DEF Served
      <3>2. \E op \in {"upsert", "delete"} : Notice(o, r, op) \in notices'
        BY <3>1 DEF IngestRequest, Publish, Withdraw
      <3>3. \A op \in {"upsert", "delete"} : About(Notice(o, r, op), ref)
        BY <2>5, <3>1 DEF About, Notice
      <3> QED BY <3>2, <3>3
    <2> QED BY <2>3, <2>4, <2>5 DEF CiteInv, CitedTextIsCurrent, About
  <1> QED BY <1>1, <1>2 DEF CiteInv, CitedTextIsCurrent, About, StopPcs

\* The scrub leaves no citation the notice is about.
LEMMA PurgeLocalCite ==
  ASSUME RunInv, CiteInv, NEW n \in notices, PurgeLocal(n)
  PROVE  CiteInv'
  <1>1. /\ UNCHANGED <<rev, live, notices>>
        /\ call' = [call EXCEPT !.pc = "stop", !.notice = n, !.todo = call'.todo, !.over = call'.over]
    BY DEF PurgeLocal, RunInv, DelegationTypeOK, Calls
  <1>2. call'.notice = n
    BY DEF PurgeLocal, RunInv, DelegationTypeOK, Calls
  <1>3. \A q \in Requests : Scrubbed(rows[q], PurgeKey(n)).refs = {}
    BY DEF Scrubbed
  <1>4. \A q \in Requests : \/ rows'[q].refs = {}
                            \/ rows'[q] = rows[q] /\ ~Matches(rows[q], PurgeKey(n))
    BY <1>3 DEF PurgeLocal
  <1>5. RefsShrink
    BY <1>4 DEF RefsShrink
  <1>6. CitedTextIsCurrent'
    BY <1>1, <1>5 DEF CiteInv, CitedTextIsCurrent, Served, RefsShrink
  <1>7. ASSUME NEW q \in Requests, NEW ref \in rows'[q].refs PROVE ~About(n, ref)
    <2>1. ref \in rows[q].refs /\ ~Matches(rows[q], PurgeKey(n))
      BY <1>4, <1>7
    <2>2. ~(ref[1] = PurgeKey(n)[1] /\ (PurgeKey(n)[2] = 0 \/ ref[2] = PurgeKey(n)[2]))
      BY <2>1 DEF Matches
    <2>3. PurgeKey(n)[1] = n.obj /\ PurgeKey(n)[2] = (IF n.op = "delete" THEN 0 ELSE n.prev)
      BY DEF PurgeKey
    <2> QED BY <2>2, <2>3 DEF About
  <1> QED BY <1>2, <1>6, <1>7 DEF CiteInv, About

\* So the notice may go.
LEMMA PurgeAckCite ==
  ASSUME RunInv, CiteInv, PurgeAck
  PROVE  CiteInv'
  <1>1. /\ rows' = rows /\ UNCHANGED <<rev, live>> /\ notices' = notices \ {call.notice}
        /\ call.pc \in StopPcs /\ call'.pc = "clean"
    BY DEF PurgeAck, Purged, At, StopPcs
  <1> QED BY <1>1 DEF CiteInv, CitedTextIsCurrent, Served, About, StopPcs

\* A new request cites what is served.
LEMMA SubmitCite ==
  ASSUME RunInv, CiteInv, NEW q \in Requests, NEW refs \in SUBSET Citations, Submit(q, refs)
  PROVE  CiteInv'
  <1>1. UNCHANGED <<rev, live, notices>> /\ Current(refs)
    BY DEF Submit
  <1>2. call'.pc \notin StopPcs
    BY DEF Submit, At, StopPcs
  <1>3. [NoRow EXCEPT !.state = "pending_dispatch", !.refs = refs, !.text = TRUE].refs = refs
    BY DEF NoRow
  <1>4. rows'[q].refs = refs /\ \A other \in Requests \ {q} : rows'[other] = rows[other]
    BY <1>3 DEF Submit, Update, RunInv, DelegationTypeOK
  <1>5. CitedTextIsCurrent'
    BY <1>1, <1>4 DEF CiteInv, CitedTextIsCurrent, Current, Served
  <1> QED BY <1>2, <1>5 DEF CiteInv

\* Every step keeps the invariant.
LEMMA CiteStep ==
  ASSUME RunInv, CiteInv, [Next]_vars
  PROVE  CiteInv'
  <1>1. CASE UNCHANGED vars
    BY <1>1 DEF vars, CiteInv, CitedTextIsCurrent, Served, About
  <1>2. CASE Next
    <2>1. CASE \E o \in Objects, r \in Revisions : IngestRequest(o, r)
      BY <2>1, IngestCite
    <2>2. CASE \E n \in notices : PurgeLocal(n)
      BY <2>2, PurgeLocalCite
    <2>3. CASE PurgeAck
      BY <2>3, PurgeAckCite
    <2>4. CASE \E q \in Requests, refs \in SUBSET Citations : Submit(q, refs)
      BY <2>4, SubmitCite
    <2>5. CASE SameNotice /\ RefsShrink /\ UNCHANGED <<rev, live, notices>>
      BY <2>5, QuietCite DEF SameNotice
    <2> QED BY <1>2, <2>1, <2>2, <2>3, <2>4, <2>5, StepJournal, StepNotice, StepRefs
  <1> QED BY <1>1, <1>2

\* Text derived from a source is kept only while the cited revision is
\* served or the notice that will scrub it is queued, for any number of
\* requests, revisions, crashes and failed requests (submit, purge_source,
\* cleanup).
THEOREM CitationsAreCurrent == Spec => []CitedTextIsCurrent
  <1>1. Init => CiteInv
    BY DEF Init, CiteInv, CitedTextIsCurrent, NoRow, At, StopPcs
  <1>2. RunInv /\ CiteInv /\ [Next]_vars => CiteInv'
    BY CiteStep
  <1>3. CiteInv => CitedTextIsCurrent
    BY DEF CiteInv
  <1> QED BY <1>1, <1>2, <1>3, RunInvariant, PTL DEF Spec
=============================================================================

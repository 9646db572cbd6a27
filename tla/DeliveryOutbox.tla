--------------------------- MODULE DeliveryOutbox ---------------------------
(***************************************************************************)
(* The notification outbox of scripts/assistant_context_delivery.py, class *)
(* DeliveryOutbox: one row per occurrence, which is one object here.  A    *)
(* row remembers the decision it belongs to (the source revision) and the  *)
(* text, together the request hash; "body" tells whether the message       *)
(* column still holds the text.  Each operator is one transaction.         *)
(***************************************************************************)
EXTENDS Naturals

CONSTANTS Objects, MaxRevision,
          Texts,   \* message texts
          Null     \* no text

VARIABLE outbox

\* Rows that hold leaves as they are.
TERMINAL == {"shadow", "accepted", "delivered", "uncertain", "held", "cancelled"}
Statuses == {"none", "pending", "claimed"} \cup TERMINAL

\* Of these, admit replaces a dry run's shadow row; nothing follows the others.
Final == TERMINAL \ {"shadow"}

OutboxRows == [status : Statuses, rev : 0..MaxRevision,
               text : Texts \cup {Null}, body : BOOLEAN]

NoRow == [status |-> "none", rev |-> 0, text |-> Null, body |-> FALSE]

OutboxTypeOK == outbox \in [Objects -> OutboxRows]

OutboxInit == outbox = [o \in Objects |-> NoRow]

InStatus(row, status) == [row EXCEPT !.status = status]

\* The row without its message.
Scrubbed(row, status) ==
    [status |-> status, rev |-> row.rev, text |-> row.text, body |-> FALSE]

\* The row _row_for_claim finds for the decision on revision r of object o.
RowStatus(o, r) == IF outbox[o].rev = r THEN outbox[o].status ELSE "none"

Fresh(r, text, dryRun) ==
    [status |-> IF dryRun THEN "shadow" ELSE "pending", rev |-> r, text |-> text, body |-> TRUE]

\* admit raises when the occurrence was already admitted with other content,
\* unless a dry run's shadow row is being replaced by a real one.
AdmitRefused(o, r, text, dryRun) ==
    /\ outbox[o].status # "none"
    /\ <<outbox[o].rev, outbox[o].text>> # <<r, text>>
    /\ ~(outbox[o].status = "shadow" /\ ~dryRun)

\* The row admit returns; the same content returns the row as it is.
AdmittedRow(o, r, text, dryRun) ==
    IF outbox[o].status # "none" /\ <<outbox[o].rev, outbox[o].text>> = <<r, text>>
    THEN outbox[o]
    ELSE Fresh(r, text, dryRun)

Admit(o, r, text, dryRun) ==
    /\ ~AdmitRefused(o, r, text, dryRun)
    /\ outbox' = [outbox EXCEPT ![o] = AdmittedRow(o, r, text, dryRun)]

\* Faulty variant: a claim may be taken over.
ClaimAgain(o, r) ==
    /\ RowStatus(o, r) \in {"pending", "claimed"}
    /\ outbox' = [outbox EXCEPT ![o] = InStatus(@, "claimed")]

Claim(o, r) ==
    /\ RowStatus(o, r) = "pending"
    /\ outbox' = [outbox EXCEPT ![o] = InStatus(@, "claimed")]

Finish(o, r, status) ==
    /\ RowStatus(o, r) = "claimed"
    /\ outbox' = [outbox EXCEPT ![o] = InStatus(@, status)]

\* Faulty variant: start-up puts a claimed row back in the queue.
RecoverForRetry ==
    outbox' = [o \in Objects |-> IF outbox[o].status = "claimed"
                                 THEN InStatus(outbox[o], "pending")
                                 ELSE outbox[o]]

\* Faulty variant: start-up leaves claims alone.
RecoverNothing == UNCHANGED outbox

\* recover_inflight: a claim found at start-up is uncertain for good.
RecoverInflight ==
    outbox' = [o \in Objects |-> IF outbox[o].status = "claimed"
                                 THEN InStatus(outbox[o], "uncertain")
                                 ELSE outbox[o]]

\* Faulty variant: rows already ended keep their message.
PurgeUnsentRow(o) ==
    LET row == outbox[o]
        ended == IF row.status = "claimed" THEN "uncertain" ELSE "cancelled"
    IN  outbox' = IF row.body /\ row.status \in {"claimed", "pending", "shadow"}
                  THEN [outbox EXCEPT ![o] = Scrubbed(@, ended)]
                  ELSE outbox

\* purge_source scrubs the message and ends what was not sent yet.
PurgeRow(o) ==
    LET row == outbox[o]
        ended == IF row.status = "claimed" THEN "uncertain"
                 ELSE IF row.status \in {"pending", "shadow"} THEN "cancelled"
                 ELSE row.status
    IN  outbox' = IF row.body
                  THEN [outbox EXCEPT ![o] = Scrubbed(@, ended)]
                  ELSE outbox

\* Faulty variant: an ended row is held as well.
HoldAny(o, r) ==
    outbox' = CASE RowStatus(o, r) \in {"none", "shadow"} -> outbox
                [] RowStatus(o, r) = "claimed" -> [outbox EXCEPT ![o] = InStatus(@, "uncertain")]
                [] OTHER -> [outbox EXCEPT ![o] = InStatus(@, "held")]

\* hold, on a row that exists.
Hold(o, r) ==
    outbox' = IF RowStatus(o, r) = "pending" THEN [outbox EXCEPT ![o] = InStatus(@, "held")]
              ELSE IF RowStatus(o, r) = "claimed"
                   THEN [outbox EXCEPT ![o] = InStatus(@, "uncertain")]
              ELSE outbox
=============================================================================

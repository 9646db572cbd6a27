---------------------------- MODULE SourceJournal ----------------------------
(***************************************************************************)
(* What the context store promises the rest of the service: per object, a  *)
(* revision that only grows, a flag telling whether it is served or        *)
(* deleted, the served revisions still to be reviewed, and the notices of  *)
(* superseded or deleted revisions whose derived copies must be purged.    *)
(* ContextStore implements this module whatever order events arrive in;    *)
(* NotificationPipeline is built on it.                                    *)
(***************************************************************************)
EXTENDS Naturals

CONSTANTS Objects, MaxRevision

VARIABLES rev,      \* current source revision of an object, 0 = never seen
          live,     \* the object is served (its last accepted event is an upsert)
          review,   \* <<object, revision>> pairs waiting for a decision
          notices   \* queued invalidations

journal == <<rev, live, review, notices>>

Revisions == 1..MaxRevision

Notices == [obj : Objects, rev : Revisions, prev : 0..MaxRevision,
            op : {"upsert", "delete"}]

JournalTypeOK ==
    /\ rev \in [Objects -> 0..MaxRevision]
    /\ live \in [Objects -> BOOLEAN]
    /\ review \in SUBSET (Objects \X Revisions)
    /\ notices \in SUBSET Notices

JournalInit ==
    /\ rev = [o \in Objects |-> 0]
    /\ live = [o \in Objects |-> FALSE]
    /\ review = {}
    /\ notices = {}

Served(o, r) == live[o] /\ rev[o] = r

Notice(o, r, op) == [obj |-> o, rev |-> r, prev |-> rev[o], op |-> op]

ReviewOf(others) == {p \in review : p[1] \in others}

\* A newer upsert becomes current.
Publish(o, r) ==
    /\ r > rev[o]
    /\ rev' = [rev EXCEPT ![o] = r]
    /\ live' = [live EXCEPT ![o] = TRUE]
    /\ review' = ReviewOf(Objects \ {o}) \cup {<<o, r>>}
    /\ notices' = IF rev[o] = 0 THEN notices ELSE notices \cup {Notice(o, r, "upsert")}

\* A newer delete becomes current.
Withdraw(o, r) ==
    /\ r > rev[o]
    /\ rev' = [rev EXCEPT ![o] = r]
    /\ live' = [live EXCEPT ![o] = FALSE]
    /\ review' = ReviewOf(Objects \ {o})
    /\ notices' = notices \cup {Notice(o, r, "delete")}

\* A restore replays deletions: some objects are withdrawn in place, without
\* a notice (the restore purges derived state itself).
Fence(gone) ==
    /\ \E r \in [Objects -> 0..MaxRevision] :
          /\ \A o \in Objects : r[o] >= rev[o] /\ (o \notin gone => r[o] = rev[o])
          /\ rev' = r
    /\ live' = [o \in Objects |-> live[o] /\ o \notin gone]
    /\ review' = ReviewOf(Objects \ gone)
    /\ UNCHANGED notices

Reviewed(p) ==
    /\ p \in review
    /\ review' = review \ {p}
    /\ UNCHANGED <<rev, live, notices>>

Purged(n) ==
    /\ n \in notices
    /\ notices' = notices \ {n}
    /\ UNCHANGED <<rev, live, review>>

JournalNext ==
    \/ \E o \in Objects, r \in Revisions : Publish(o, r) \/ Withdraw(o, r)
    \/ \E gone \in SUBSET Objects : Fence(gone)
    \/ \E p \in review : Reviewed(p)
    \/ \E n \in notices : Purged(n)

JournalSpec == JournalInit /\ [][JournalNext]_journal
=============================================================================

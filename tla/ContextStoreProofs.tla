------------------------- MODULE ContextStoreProofs -------------------------
(***************************************************************************)
(* Theorems about ContextStore, for every set of objects, references,      *)
(* contents and memories and every bound on revisions; and, from "Lists of *)
(* finite sets" on, about the collector that posts to it (SourceSync), for *)
(* every finite set of objects and every bound.                            *)
(***************************************************************************)
EXTENDS SourceSync, FiniteSetTheorems, TLAPS

USE DEF StoreAssumption

-----------------------------------------------------------------------------
(* Helpers.                                                                *)

\* The larger of two revisions is one of them and bounds both.
LEMMA LargerFacts ==
  ASSUME NEW a \in Nat, NEW b \in Nat
  PROVE  /\ Larger(a, b) \in {a, b}
         /\ Larger(a, b) >= a /\ Larger(a, b) >= b
  BY DEF Larger

\* What an erased memory row and a scrubbed event row look like.
LEMMA ErasedFacts ==
  ASSUME NEW row \in MemoryRows
  PROVE  /\ Erased(row) \in MemoryRows
         /\ Erased(row).status = "deleted" /\ Erased(row).refs = {} /\ Erased(row).text = FALSE
  <1>1. row.rev + 1 \in Nat /\ row.supersedes \in MemoryIds \cup {Null}
    BY DEF MemoryRows
  <1> QED BY <1>1 DEF Erased, MemoryRows, MemoryStatuses

\* A scrubbed event row keeps everything but its payload.
LEMMA ScrubbedFacts ==
  ASSUME NEW row \in EventRows
  PROVE  /\ Scrubbed(row) \in EventRows
         /\ Scrubbed(row).payload = Null
         /\ Scrubbed(row).status = row.status /\ Scrubbed(row).op = row.op
         /\ Scrubbed(row).ref = row.ref /\ Scrubbed(row).content = row.content
  BY DEF Scrubbed, EventRows

\* A scrub keeps the memory tables well typed.
LEMMA ScrubTypes ==
  ASSUME memories \in [MemoryIds -> MemoryRows], refTombs \in SUBSET Refs,
         NEW S \in SUBSET Refs, ScrubMemorySources(S)
  PROVE  memories' \in [MemoryIds -> MemoryRows] /\ refTombs' \in SUBSET Refs
  <1>1. \A m \in MemoryIds : Erased(memories[m]) \in MemoryRows
    BY ErasedFacts
  <1> QED BY <1>1 DEF ScrubMemorySources

\* A merged floor is a revision bound again.
LEMMA MergedFloorType ==
  ASSUME TypeOK, StoreAssumption, NEW o \in Objects, NEW f \in 0..MaxRevision
  PROVE  /\ MergedFloor(o, f) \in 0..MaxRevision
         /\ MergedFloor(o, f) >= floor[o]
         /\ MergedFloor(o, f) >= f
         /\ f > 0 /\ current[o].op = "delete" => MergedFloor(o, f) >= current[o].rev
  BY LargerFacts DEF MergedFloor, TypeOK, CurrentRows, Larger

\* A memory without references is never linked to a source.
LEMMA UnreferencedNotLinked ==
  ASSUME NEW S, NEW m \in MemoryIds, memories[m].refs = {}
  PROVE  m \notin Linked(S)
  <1> DEFINE C == {n \in MemoryIds : memories[n].refs # {}}
  <1>1. C \in SUBSET MemoryIds /\ m \notin C
    OBVIOUS
  <1>2. Closed(S, C)
    BY DEF Closed
  <1> QED BY <1>1, <1>2 DEF Linked

\* A memory that cites a scrubbed reference is linked to it.
LEMMA CitingIsLinked ==
  ASSUME NEW S, NEW m \in MemoryIds, memories[m].refs \cap S # {}
  PROVE  m \in Linked(S)
  <1> SUFFICES ASSUME NEW C \in SUBSET MemoryIds, Closed(S, C) PROVE m \in C
    BY DEF Linked
  <1>1. memories[m].refs \cap (S \cup UNION {memories[n].refs : n \in C}) # {}
    OBVIOUS
  <1> QED BY <1>1 DEF Closed
-----------------------------------------------------------------------------
(* The inductive invariant.  Type correctness alone is not inductive: a    *)
(* scrub tombstones the references of journalled rows, so those must be    *)
(* references.  The safety invariants support one another: a stale event   *)
(* is told from an accepted one by current and floor, and only their       *)
(* agreement with the journal makes that decision sound.                   *)

\* Journalled rows cite a reference, an object without a current row has
\* revision 0, a deleted memory cites nothing and a usable one something.
RowShape ==
    /\ \A o \in Objects, r \in Revisions :
          events[o][r].status # "none" => events[o][r].ref \in Refs
    /\ \A o \in Objects : current[o].rev = 0 <=> current[o].op = "none"
    /\ \A m \in MemoryIds :
          /\ memories[m].status = "deleted" => memories[m].refs = {}
          /\ memories[m].status \in {"candidate", "active"} => memories[m].refs # {}

\* What RowShape and DeletedSourceIsForgotten ask of one memory row.
WellCited(row, tombs) ==
    /\ row.status = "deleted" => row.refs = {}
    /\ row.status \in {"candidate", "active"} => row.refs # {}
    /\ row.refs \cap tombs = {}
    /\ row.text => row.refs # {}

StoreInv ==
    /\ TypeOK
    /\ RowShape
    /\ DeletedContentStaysGone
    /\ CurrentIsNewestAccepted
    /\ PendingIsCurrent
    /\ DeletedSourceIsForgotten

\* The fresh tables satisfy the invariant.
LEMMA InitInv == StoreAssumption /\ Init => StoreInv
  <1> SUFFICES ASSUME StoreAssumption, Init PROVE StoreInv
    OBVIOUS
  <1>1. TypeOK
    BY DEF Init, TypeOK, EventRows, CurrentRows, MemoryRows, MemoryStatuses,
           NoEvent, NoCurrent, NoMemory, Revisions
  <1>2. /\ \A o \in Objects, r \in Revisions :
              events[o][r].status = "none" /\ events[o][r].payload = Null
        /\ \A o \in Objects : current[o] = NoCurrent
        /\ \A m \in MemoryIds : memories[m] = NoMemory
    BY DEF Init, NoEvent
  <1>3. RowShape
    BY <1>2 DEF RowShape, NoCurrent, NoMemory
  <1>4. DeletedContentStaysGone /\ CurrentIsNewestAccepted /\ PendingIsCurrent
    BY <1>2 DEF Init, DeletedContentStaysGone, CurrentIsNewestAccepted, PendingIsCurrent,
                NoCurrent
  <1>5. DeletedSourceIsForgotten
    BY <1>2 DEF Init, DeletedSourceIsForgotten, NoMemory
  <1> QED BY <1>1, <1>3, <1>4, <1>5 DEF StoreInv

-----------------------------------------------------------------------------
(* Source events.                                                          *)

\* The row an event leaves in the journal.
LEMMA StoredRowFacts ==
  ASSUME NEW o, NEW r, NEW env \in Envelopes, NEW status \in {"accepted", "stale"}
  PROVE  /\ StoredRow(o, r, env, status) \in EventRows
         /\ StoredRow(o, r, env, status).status = status
         /\ StoredRow(o, r, env, status).op = env.op
         /\ StoredRow(o, r, env, status).ref = env.ref
         /\ StoredRow(o, r, env, status).content = env.content
         /\ env.ref \in Refs
         /\ env.op = "delete" => StoredRow(o, r, env, status).payload = Null
         /\ ~ContentAllowed(o, r) => StoredRow(o, r, env, status).payload = Null
         /\ env.op = "upsert" /\ ContentAllowed(o, r) =>
               StoredRow(o, r, env, status).payload = env.content
  BY DEF StoredRow, EventRows, Envelopes

\* Replacing one journal row leaves the others alone.
LEMMA WithEventFacts ==
  ASSUME events \in [Objects -> [Revisions -> EventRows]],
         NEW o \in Objects, NEW r \in Revisions, NEW row \in EventRows
  PROVE  /\ WithEvent(o, r, row) \in [Objects -> [Revisions -> EventRows]]
         /\ \A p \in Objects, s \in Revisions :
               WithEvent(o, r, row)[p][s] = IF p = o /\ s = r THEN row ELSE events[p][s]
  BY DEF WithEvent

\* An accepted event is above the floor and above the current revision, or
\* repeats nothing the journal knows of.
LEMMA AcceptedFacts ==
  ASSUME StoreInv, StoreAssumption, NEW o \in Objects, NEW r \in Revisions, NEW env \in Envelopes,
         IngestOutcome(o, r, env) = "accepted"
  PROVE  /\ events[o][r].status = "none"
         /\ r > floor[o]
         /\ r > current[o].rev
         /\ ContentAllowed(o, r)
  <1> USE DEF StoreInv
  <1>1. events[o][r].status = "none" /\ ~IsStale(o, r)
    BY DEF IngestOutcome
  <1>2. r > floor[o]
    BY <1>1 DEF IsStale, TypeOK, Revisions
  <1>3. r > current[o].rev
    <2>1. current[o].rev \in 0..MaxRevision /\ r \in Nat /\ r > 0
      BY DEF TypeOK, CurrentRows, Revisions
    <2>2. current[o].op \in {"none", "upsert", "delete"}
      BY DEF TypeOK, CurrentRows
    <2>3. CASE current[o].rev = 0
      BY <2>1, <2>3
    <2>4. CASE current[o].rev > 0 /\ current[o].op = "upsert"
      <3>1. events[o][current[o].rev].status = "accepted"
        BY <2>4 DEF CurrentIsNewestAccepted
      <3>2. r # current[o].rev
        BY <1>1, <3>1
      <3> QED BY <1>1, <2>1, <2>4, <3>2 DEF IsStale
    <2>5. CASE current[o].rev > 0 /\ current[o].op = "delete"
      BY <1>1, <2>1, <2>5 DEF IsStale
    <2> QED BY <2>1, <2>2, <2>3, <2>4, <2>5 DEF RowShape
  <1>4. ContentAllowed(o, r)
    BY <1>1, <1>2 DEF ContentAllowed, TypeOK, Revisions
  <1> QED BY <1>1, <1>2, <1>3, <1>4

\* A late event leaves the invariant intact: its content is kept only where
\* no deletion covers it.
LEMMA IngestStaleInv ==
  ASSUME StoreInv, StoreAssumption, NEW o \in Objects, NEW r \in Revisions, NEW env \in Envelopes,
         IngestStale(o, r, env)
  PROVE  StoreInv'
  <1> DEFINE row == StoredRow(o, r, env, "stale")
  <1> USE DEF StoreInv
  <1>1. /\ events[o][r].status = "none"
        /\ events' = WithEvent(o, r, row)
        /\ UNCHANGED <<current, pending, invalidations, floor, memories, receipts, refTombs>>
    BY DEF IngestStale, IngestOutcome
  <1>2. /\ row \in EventRows /\ row.status = "stale" /\ row.ref \in Refs
        /\ r <= floor[o] => row.payload = Null
    BY StoredRowFacts DEF ContentAllowed
  <1> HIDE DEF row
  <1>3. /\ events' \in [Objects -> [Revisions -> EventRows]]
        /\ \A p \in Objects, s \in Revisions :
              events'[p][s] = IF p = o /\ s = r THEN row ELSE events[p][s]
    BY <1>1, <1>2, WithEventFacts DEF TypeOK
  <1>4. TypeOK'
    BY <1>1, <1>3 DEF TypeOK
  <1>5. RowShape'
    BY <1>1, <1>2, <1>3 DEF RowShape
  <1>6. DeletedContentStaysGone'
    BY <1>1, <1>2, <1>3 DEF DeletedContentStaysGone
  <1>7. CurrentIsNewestAccepted'
    <2>1. \A p \in Objects : current[p].op = "upsert" => current[p].rev \in Revisions
      BY DEF RowShape, TypeOK, CurrentRows, Revisions
    <2> QED BY <1>1, <1>2, <1>3, <2>1 DEF CurrentIsNewestAccepted
  <1>8. PendingIsCurrent'
    BY <1>1 DEF PendingIsCurrent
  <1>9. DeletedSourceIsForgotten'
    BY <1>1, <1>2, <1>3 DEF DeletedSourceIsForgotten
  <1> QED BY <1>4, <1>5, <1>6, <1>7, <1>8, <1>9

\* An accepted upsert becomes current and the only pending revision of its
\* object.
LEMMA IngestUpsertInv ==
  ASSUME StoreInv, StoreAssumption, NEW o \in Objects, NEW r \in Revisions, NEW env \in Envelopes,
         IngestUpsert(o, r, env)
  PROVE  StoreInv'
  <1> DEFINE row == StoredRow(o, r, env, "accepted")
             cur == [rev |-> r, op |-> "upsert", ref |-> env.ref, payload |-> row.payload]
  <1> USE DEF StoreInv
  <1>1. /\ env.op = "upsert" /\ IngestOutcome(o, r, env) = "accepted"
        /\ events' = WithEvent(o, r, row)
        /\ current' = [current EXCEPT ![o] = cur]
        /\ Invalidate(o, r, "upsert")
        /\ pending' = PendingOthers(o) \cup {<<o, r>>}
        /\ UNCHANGED <<floor, memories, receipts, refTombs>>
    BY DEF IngestUpsert
  <1>2. /\ events[o][r].status = "none" /\ r > floor[o] /\ r > current[o].rev
        /\ ContentAllowed(o, r)
    BY <1>1, AcceptedFacts
  <1>3. /\ row \in EventRows /\ row.status = "accepted" /\ row.op = "upsert"
        /\ row.ref = env.ref /\ env.ref \in Refs /\ row.payload = row.content
    BY <1>1, <1>2, StoredRowFacts
  <1>4. cur \in CurrentRows /\ cur.rev = r /\ cur.op = "upsert" /\ cur.payload = row.payload
    BY <1>3 DEF CurrentRows, EventRows, Revisions
  <1> HIDE DEF row, cur
  <1>5. /\ events' \in [Objects -> [Revisions -> EventRows]]
        /\ \A p \in Objects, s \in Revisions :
              events'[p][s] = IF p = o /\ s = r THEN row ELSE events[p][s]
    BY <1>1, <1>3, WithEventFacts DEF TypeOK
  <1>6. /\ current' \in [Objects -> CurrentRows]
        /\ \A p \in Objects : current'[p] = IF p = o THEN cur ELSE current[p]
    BY <1>1, <1>4 DEF TypeOK
  <1>7. pending' \in SUBSET (Objects \X Revisions)
    BY <1>1 DEF PendingOthers, TypeOK
  <1>8. TypeOK'
    <2>1. invalidations' \in SUBSET InvalidationRows
      BY <1>1 DEF Invalidate, TypeOK, InvalidationRows, CurrentRows
    <2> QED BY <1>1, <1>5, <1>6, <1>7, <2>1 DEF TypeOK
  <1>9. RowShape'
    <2>1. \A p \in Objects, s \in Revisions :
             events'[p][s].status # "none" => events'[p][s].ref \in Refs
      BY <1>3, <1>5 DEF RowShape
    <2>2. r # 0
      BY DEF Revisions
    <2>3. \A p \in Objects : current'[p].rev = 0 <=> current'[p].op = "none"
      BY <1>4, <1>6, <2>2 DEF RowShape
    <2> QED BY <1>1, <2>1, <2>3 DEF RowShape
  <1>10. DeletedContentStaysGone'
    <2>1. \A p \in Objects, s \in Revisions :
             <<p, s>> \in pending' => <<p, s>> \in pending \/ (p = o /\ s = r)
      BY <1>1 DEF PendingOthers
    <2>2. floor[o] \in Nat /\ r \in Nat
      BY DEF TypeOK, Revisions
    <2> QED BY <1>1, <1>2, <1>4, <1>5, <1>6, <2>1, <2>2 DEF DeletedContentStaysGone
  <1>11. CurrentIsNewestAccepted'
    <2>1. \A p \in Objects : current[p].op = "upsert" => current[p].rev \in Revisions
      BY DEF RowShape, TypeOK, CurrentRows, Revisions
    <2>2. \A s \in Revisions : events'[o][s].status = "accepted" => s <= r
      <3>1. \A s \in Revisions : events[o][s].status = "accepted" => s <= current[o].rev
        BY DEF CurrentIsNewestAccepted
      <3>2. r \in Nat /\ current[o].rev \in Nat /\ \A s \in Revisions : s \in Nat
        BY DEF TypeOK, CurrentRows, Revisions
      <3>3. ASSUME NEW s \in Revisions, events'[o][s].status = "accepted" PROVE s <= r
        <4>1. CASE s = r
          BY <3>2, <4>1
        <4>2. CASE s # r
          <5>1. events'[o][s] = events[o][s]
            BY <1>5, <4>2
          <5>2. s <= current[o].rev
            BY <3>1, <3>3, <5>1
          <5>3. r > current[o].rev
            BY <1>2
          <5> QED BY <3>2, <5>2, <5>3
        <4> QED BY <4>1, <4>2
      <3> QED BY <3>3
    <2>3. /\ current'[o].op = "upsert" /\ current'[o].rev = r
          /\ current'[o].payload = events'[o][r].payload
          /\ events'[o][r].status = "accepted" /\ events'[o][r].op = "upsert"
          /\ events'[o][r].payload = events'[o][r].content
      BY <1>3, <1>4, <1>5, <1>6
    <2>4. \A p \in Objects : p # o => current'[p] = current[p] /\ floor'[p] = floor[p]
                                      /\ \A s \in Revisions : events'[p][s] = events[p][s]
      BY <1>1, <1>5, <1>6
    <2> QED BY <2>1, <2>2, <2>3, <2>4 DEF CurrentIsNewestAccepted
  <1>12. PendingIsCurrent'
    BY <1>1, <1>4, <1>6 DEF PendingIsCurrent, PendingOthers, TypeOK
  <1>13. DeletedSourceIsForgotten'
    <2>1. floor[o] \in Nat /\ r \in Nat
      BY DEF TypeOK, Revisions
    <2> QED BY <1>1, <1>2, <1>5, <2>1 DEF DeletedSourceIsForgotten
  <1> QED BY <1>8, <1>9, <1>10, <1>11, <1>12, <1>13

-----------------------------------------------------------------------------
(* Scrubbing.                                                              *)

\* What the invariant says of one memory row.
LEMMA MemoryFacts ==
  ASSUME StoreInv, NEW n \in MemoryIds
  PROVE  /\ memories[n] \in MemoryRows
         /\ WellCited(memories[n], refTombs)
  BY DEF StoreInv, TypeOK, RowShape, DeletedSourceIsForgotten, WellCited

\* A scrub of well-formed memories by references S leaves no memory that
\* cites a member of S, and touches no memory without references.
LEMMA ScrubFacts ==
  ASSUME StoreInv, NEW S \in SUBSET Refs, ScrubMemorySources(S)
  PROVE  /\ memories' \in [MemoryIds -> MemoryRows]
         /\ refTombs' = refTombs \cup S
         /\ \A m \in MemoryIds :
               /\ WellCited(memories'[m], refTombs')
               /\ memories[m].status = "deleted" => memories'[m] = memories[m]
  <1> USE DEF StoreInv
  <1>1. memories' \in [MemoryIds -> MemoryRows] /\ refTombs' = refTombs \cup S
    BY ScrubTypes DEF TypeOK, ScrubMemorySources
  <1>2. ASSUME NEW m \in MemoryIds
        PROVE  /\ WellCited(memories'[m], refTombs')
               /\ memories[m].status = "deleted" => memories'[m] = memories[m]
    <2>1. WellCited(memories[m], refTombs) /\ memories[m] \in MemoryRows
      BY MemoryFacts
    <2>2. CASE m \in Linked(S)
      <3>1. memories'[m] = Erased(memories[m])
        BY <2>2 DEF ScrubMemorySources
      <3>2. memories[m].status # "deleted"
        BY <2>1, <2>2, UnreferencedNotLinked DEF WellCited
      <3>3. /\ memories'[m].refs = {} /\ memories'[m].text = FALSE
            /\ memories'[m].status = "deleted"
        BY <2>1, <3>1, ErasedFacts
      <3> QED BY <3>2, <3>3 DEF WellCited
    <2>3. CASE m \notin Linked(S)
      <3>1. memories'[m] = memories[m]
        BY <2>3 DEF ScrubMemorySources
      <3>2. memories[m].refs \cap S = {}
        BY <2>3, CitingIsLinked
      <3>3. memories[m].refs \cap (refTombs \cup S) = {}
        BY <2>1, <3>2 DEF WellCited
      <3> QED BY <1>1, <2>1, <3>1, <3>3 DEF WellCited
    <2> QED BY <2>2, <2>3
  <1> QED BY <1>1, <1>2

\* A deletion scrubs the whole history of its object.
LEMMA IngestDeleteInv ==
  ASSUME StoreInv, StoreAssumption, NEW o \in Objects, NEW r \in Revisions, NEW env \in Envelopes,
         IngestDelete(o, r, env)
  PROVE  StoreInv'
  <1> DEFINE row == StoredRow(o, r, env, "accepted")
             journal == WithEvent(o, r, row)
             cur == [rev |-> r, op |-> "delete", ref |-> env.ref, payload |-> Null]
             S == EventRefs(o, journal)
  <1> USE DEF StoreInv
  <1>1. /\ env.op = "delete" /\ IngestOutcome(o, r, env) = "accepted"
        /\ events' = [journal EXCEPT ![o] = [s \in Revisions |-> Scrubbed(journal[o][s])]]
        /\ ScrubMemorySources(S)
        /\ floor' = [floor EXCEPT ![o] = Larger(floor[o], r)]
        /\ current' = [current EXCEPT ![o] = cur]
        /\ Invalidate(o, r, "delete")
        /\ pending' = PendingOthers(o)
        /\ UNCHANGED receipts
    BY DEF IngestDelete
  <1>2. events[o][r].status = "none" /\ r > floor[o] /\ r > current[o].rev
    BY <1>1, AcceptedFacts
  <1>3. row \in EventRows /\ row.status = "accepted" /\ row.ref \in Refs
    BY StoredRowFacts
  <1>4. /\ cur \in CurrentRows /\ cur.rev = r /\ cur.op = "delete" /\ cur.payload = Null
    BY StoredRowFacts DEF CurrentRows, Revisions
  <1>5. /\ journal \in [Objects -> [Revisions -> EventRows]]
        /\ \A p \in Objects, s \in Revisions :
              journal[p][s] = IF p = o /\ s = r THEN row ELSE events[p][s]
    <2> HIDE DEF row
    <2> QED BY <1>3, WithEventFacts DEF TypeOK
  <1>6. floor[o] \in Nat /\ r \in Nat /\ r # 0 /\ current[o].rev \in Nat
        /\ \A s \in Revisions : s \in Nat
    BY DEF TypeOK, Revisions, CurrentRows
  <1>7. /\ floor' \in [Objects -> 0..MaxRevision] /\ floor'[o] = r
        /\ \A p \in Objects : p # o => floor'[p] = floor[p]
    BY <1>1, <1>2, <1>6 DEF Larger, TypeOK, Revisions
  <1> HIDE DEF row, cur, journal
  <1>8. /\ events' \in [Objects -> [Revisions -> EventRows]]
        /\ \A s \in Revisions : events'[o][s] = Scrubbed(journal[o][s])
        /\ \A p \in Objects, s \in Revisions : p # o => events'[p][s] = events[p][s]
    <2>1. \A s \in Revisions : Scrubbed(journal[o][s]) \in EventRows
      BY <1>5, ScrubbedFacts
    <2> QED BY <1>1, <1>5, <2>1
  <1>9. \A s \in Revisions : /\ events'[o][s].payload = Null
                             /\ events'[o][s].status = journal[o][s].status
                             /\ events'[o][s].ref = journal[o][s].ref
    BY <1>5, <1>8, ScrubbedFacts
  <1>10. \A s \in Revisions : journal[o][s].status # "none" =>
             journal[o][s].ref \in Refs /\ journal[o][s].ref \in S
    BY <1>3, <1>5 DEF EventRefs, RowShape
  <1>11. S \in SUBSET Refs
    BY <1>10 DEF EventRefs
  <1> HIDE DEF S
  <1>12. /\ memories' \in [MemoryIds -> MemoryRows] /\ refTombs' = refTombs \cup S
         /\ \A m \in MemoryIds :
               WellCited(memories'[m], refTombs')
    BY <1>1, <1>11, ScrubFacts
  <1>13. /\ current' \in [Objects -> CurrentRows]
         /\ \A p \in Objects : current'[p] = IF p = o THEN cur ELSE current[p]
    BY <1>1, <1>4 DEF TypeOK
  <1>14. /\ pending' \in SUBSET pending
         /\ \A p \in pending' : p[1] # o
    BY <1>1 DEF PendingOthers
  <1>15. TypeOK'
    <2>1. invalidations' \in SUBSET InvalidationRows
      BY <1>1 DEF Invalidate, TypeOK, InvalidationRows, CurrentRows
    <2>2. refTombs' \in SUBSET Refs
      BY <1>11, <1>12 DEF TypeOK
    <2> QED BY <1>1, <1>7, <1>8, <1>12, <1>13, <1>14, <2>1, <2>2 DEF TypeOK
  <1>16. RowShape'
    <2>1. \A p \in Objects, s \in Revisions :
             events'[p][s].status # "none" => events'[p][s].ref \in Refs
      BY <1>8, <1>9, <1>10 DEF RowShape
    <2>2. \A p \in Objects : current'[p].rev = 0 <=> current'[p].op = "none"
      BY <1>4, <1>6, <1>13 DEF RowShape
    <2> QED BY <1>12, <2>1, <2>2 DEF WellCited, RowShape
  <1>17. DeletedContentStaysGone'
    <2>1. \A s \in Revisions : events'[o][s].payload = Null /\ <<o, s>> \notin pending'
      BY <1>9, <1>14
    <2>2. current'[o].payload = Null
      BY <1>4, <1>13
    <2>3. ASSUME NEW p \in Objects, p # o
          PROVE  /\ \A s \in Revisions : s <= floor'[p] =>
                       events'[p][s].payload = Null /\ <<p, s>> \notin pending'
                 /\ current'[p].payload # Null => current'[p].rev > floor'[p]
      <3>1. floor'[p] = floor[p] /\ current'[p] = current[p]
            /\ \A s \in Revisions : events'[p][s] = events[p][s]
        BY <1>7, <1>8, <1>13, <2>3
      <3>2. \A s \in Revisions : <<p, s>> \in pending' => <<p, s>> \in pending
        BY <1>14
      <3> QED BY <3>1, <3>2 DEF DeletedContentStaysGone
    <2> QED BY <2>1, <2>2, <2>3 DEF DeletedContentStaysGone
  <1>18. CurrentIsNewestAccepted'
    <2>1. ASSUME NEW s \in Revisions, events'[o][s].status = "accepted" PROVE s <= r
      <3>1. CASE s = r
        BY <1>6, <3>1
      <3>2. CASE s # r
        <4>1. events[o][s].status = "accepted"
          BY <1>5, <1>9, <2>1, <3>2
        <4>2. s <= current[o].rev
          BY <4>1 DEF CurrentIsNewestAccepted
        <4> QED BY <1>2, <1>6, <4>2
      <3> QED BY <3>1, <3>2
    <2>2. current'[o].op = "delete" /\ current'[o].rev = r /\ floor'[o] = r
      BY <1>4, <1>7, <1>13
    <2>3. \A p \in Objects : current[p].op = "upsert" => current[p].rev \in Revisions
      BY DEF RowShape, TypeOK, CurrentRows, Revisions
    <2>4. \A p \in Objects : p # o => current'[p] = current[p] /\ floor'[p] = floor[p]
                                      /\ \A s \in Revisions : events'[p][s] = events[p][s]
      BY <1>7, <1>8, <1>13
    <2> QED BY <2>1, <2>2, <2>3, <2>4 DEF CurrentIsNewestAccepted
  <1>19. PendingIsCurrent'
    BY <1>13, <1>14 DEF PendingIsCurrent, TypeOK
  <1>20. DeletedSourceIsForgotten'
    <2>1. \A s \in Revisions : events'[o][s].status = "accepted" => events'[o][s].ref \in refTombs'
      BY <1>9, <1>10, <1>12
    <2>2. \A p \in Objects, s \in Revisions : p # o /\ events'[p][s].status = "accepted"
             /\ s <= floor'[p] => events'[p][s].ref \in refTombs'
      BY <1>7, <1>8, <1>12 DEF DeletedSourceIsForgotten
    <2> QED BY <1>12, <2>1, <2>2 DEF WellCited, DeletedSourceIsForgotten
  <1> QED BY <1>15, <1>16, <1>17, <1>18, <1>19, <1>20

\* Replaying a tombstone ledger fences exactly the objects it lists.
LEMMA ReplayInv ==
  ASSUME StoreInv, StoreAssumption,
         NEW floors \in [Objects -> 0..MaxRevision], NEW hashes \in SUBSET Refs,
         ReplayTombstones(floors, hashes)
  PROVE  StoreInv'
  <1> DEFINE S == FencedRefs(floors) \cup hashes
             merged(o) == MergedFloor(o, floors[o])
             gone(o) == ~(floors[o] = 0 \/ PreserveNewer(o, merged(o)))
             tomb(o) == [rev |-> merged(o), op |-> "delete", ref |-> Null, payload |-> Null]
  <1> USE DEF StoreInv
  <1>1. /\ floor' = [o \in Objects |-> merged(o)]
        /\ events' = [o \in Objects |-> [r \in Revisions |->
              IF Fenced(floors, o, r) THEN Scrubbed(events[o][r]) ELSE events[o][r]]]
        /\ pending' = {p \in pending : ~Fenced(floors, p[1], p[2])}
        /\ current' = [o \in Objects |-> IF gone(o) THEN tomb(o) ELSE current[o]]
        /\ ScrubMemorySources(S)
        /\ UNCHANGED <<invalidations, receipts>>
    BY DEF ReplayTombstones
  <1>2. \A o \in Objects :
           /\ floors[o] \in Nat /\ floor[o] \in Nat /\ current[o].rev \in Nat
           /\ current[o].op \in {"none", "upsert", "delete"}
           /\ merged(o) \in 0..MaxRevision /\ merged(o) >= floor[o] /\ merged(o) >= floors[o]
           /\ floors[o] = 0 => merged(o) = floor[o]
           /\ floors[o] > 0 /\ current[o].op = "delete" => merged(o) >= current[o].rev
    <2>1. \A o \in Objects : floors[o] = 0 => merged(o) = floor[o]
      BY DEF MergedFloor
    <2>2. \A o \in Objects :
             /\ floors[o] \in 0..MaxRevision /\ floors[o] \in Nat
             /\ floor[o] \in Nat /\ current[o].rev \in Nat
             /\ current[o].op \in {"none", "upsert", "delete"}
      BY DEF TypeOK, CurrentRows
    <2>3. \A o \in Objects :
             /\ merged(o) \in 0..MaxRevision /\ merged(o) >= floor[o] /\ merged(o) >= floors[o]
             /\ floors[o] > 0 /\ current[o].op = "delete" => merged(o) >= current[o].rev
      BY <2>2, MergedFloorType
    <2> HIDE DEF merged
    <2> QED BY <2>1, <2>2, <2>3
  <1>3. \A o \in Objects, r \in Revisions :
           Fenced(floors, o, r) <=> floors[o] > 0 /\ r <= merged(o)
    BY DEF Fenced
  <1>4. \A o \in Objects : gone(o) <=>
           floors[o] # 0 /\ ~(current[o].op = "upsert" /\ current[o].rev > merged(o))
    BY DEF PreserveNewer
  <1>5. \A o \in Objects : tomb(o) \in CurrentRows /\ tomb(o).rev = merged(o)
                           /\ tomb(o).op = "delete" /\ tomb(o).payload = Null
    BY <1>2 DEF CurrentRows
  <1>6. \A o \in Objects, r \in Revisions : /\ events[o][r] \in EventRows
                                            /\ r \in Nat
    BY DEF TypeOK, Revisions
  <1>7. /\ events' \in [Objects -> [Revisions -> EventRows]]
        /\ \A o \in Objects, r \in Revisions :
              events'[o][r] = IF Fenced(floors, o, r) THEN Scrubbed(events[o][r])
                              ELSE events[o][r]
    BY <1>1, <1>6, ScrubbedFacts
  <1>8. \A o \in Objects, r \in Revisions :
           /\ events'[o][r].status = events[o][r].status
           /\ events'[o][r].ref = events[o][r].ref
           /\ Fenced(floors, o, r) => events'[o][r].payload = Null
    BY <1>6, <1>7, ScrubbedFacts
  <1>9. S \in SUBSET Refs
        /\ \A o \in Objects, r \in Revisions :
              Fenced(floors, o, r) /\ events[o][r].status # "none" => events[o][r].ref \in S
    BY DEF FencedRefs, RowShape
  <1> HIDE DEF S
  <1>10. /\ memories' \in [MemoryIds -> MemoryRows] /\ refTombs' = refTombs \cup S
         /\ \A m \in MemoryIds :
               WellCited(memories'[m], refTombs')
    BY <1>1, <1>9, ScrubFacts
  <1> HIDE DEF merged, gone, tomb
  <1>11. /\ floor' \in [Objects -> 0..MaxRevision] /\ \A o \in Objects : floor'[o] = merged(o)
         /\ current' \in [Objects -> CurrentRows]
         /\ \A o \in Objects : current'[o] = IF gone(o) THEN tomb(o) ELSE current[o]
    BY <1>1, <1>2, <1>5 DEF TypeOK
  <1>12. TypeOK'
    <2>1. refTombs' \in SUBSET Refs /\ pending' \in SUBSET (Objects \X Revisions)
      BY <1>1, <1>9, <1>10 DEF TypeOK
    <2> QED BY <1>1, <1>7, <1>10, <1>11, <2>1 DEF TypeOK
  <1>13. RowShape'
    <2>1. \A o \in Objects, r \in Revisions :
             events'[o][r].status # "none" => events'[o][r].ref \in Refs
      BY <1>8 DEF RowShape
    <2>2. \A o \in Objects : current'[o].rev = 0 <=> current'[o].op = "none"
      BY <1>2, <1>4, <1>5, <1>11 DEF RowShape
    <2> QED BY <1>10, <2>1, <2>2 DEF WellCited, RowShape
  <1>14. ASSUME NEW o \in Objects
         PROVE  /\ \A r \in Revisions : r <= floor'[o] =>
                      events'[o][r].payload = Null /\ <<o, r>> \notin pending'
                /\ current'[o].payload # Null => current'[o].rev > floor'[o]
    <2>1. CASE floors[o] = 0
      <3>1. floor'[o] = floor[o] /\ current'[o] = current[o]
            /\ \A r \in Revisions : events'[o][r] = events[o][r]
        BY <1>2, <1>3, <1>4, <1>7, <1>11, <2>1
      <3>2. \A r \in Revisions : <<o, r>> \in pending' => <<o, r>> \in pending
        BY <1>1
      <3> QED BY <3>1, <3>2 DEF DeletedContentStaysGone
    <2>2. CASE floors[o] # 0
      <3>1. \A r \in Revisions : r <= merged(o) => Fenced(floors, o, r)
        BY <1>2, <1>3, <2>2
      <3>2. \A r \in Revisions : Fenced(floors, o, r) => <<o, r>> \notin pending'
        BY <1>1
      <3>3. current'[o].payload # Null => current'[o].rev > merged(o)
        BY <1>4, <1>5, <1>11, <2>2
      <3> QED BY <1>8, <1>11, <3>1, <3>2, <3>3
    <2> QED BY <2>1, <2>2
  <1>15. DeletedContentStaysGone'
    BY <1>14 DEF DeletedContentStaysGone
  <1>16. ASSUME NEW o \in Objects
         PROVE  /\ \A r \in Revisions : events'[o][r].status = "accepted" => r <= current'[o].rev
                /\ current'[o].op = "upsert" =>
                      /\ events'[o][current'[o].rev].status = "accepted"
                      /\ events'[o][current'[o].rev].op = "upsert"
                      /\ current'[o].payload = events'[o][current'[o].rev].payload
                      /\ events'[o][current'[o].rev].payload = events'[o][current'[o].rev].content
                /\ current'[o].op = "delete" => floor'[o] = current'[o].rev
    <2>1. CASE gone(o)
      <3>1. current'[o].rev = merged(o) /\ current'[o].op = "delete" /\ floor'[o] = merged(o)
        BY <1>5, <1>11, <2>1
      <3>2. current[o].rev <= merged(o)
        BY <1>2, <1>4, <2>1 DEF RowShape
      <3>3. \A r \in Revisions : events[o][r].status = "accepted" => r <= current[o].rev
        BY DEF CurrentIsNewestAccepted
      <3>4. merged(o) \in Nat
        BY <1>2
      <3>5. \A r \in Revisions : events'[o][r].status = "accepted" => r <= merged(o)
        BY <1>2, <1>6, <1>8, <3>2, <3>3, <3>4
      <3> QED BY <3>1, <3>5
    <2>2. CASE ~gone(o)
      <3>1. current'[o] = current[o]
        BY <1>11, <2>2
      <3>2. current[o].op = "delete" => floor'[o] = current[o].rev
        BY <1>2, <1>4, <1>11, <2>2 DEF CurrentIsNewestAccepted
      <3>3. current[o].op = "upsert" => /\ current[o].rev \in Revisions
                                        /\ ~Fenced(floors, o, current[o].rev)
        <4>1. current[o].op = "upsert" => current[o].rev \in Revisions
          BY DEF RowShape, TypeOK, CurrentRows, Revisions
        <4> QED BY <1>2, <1>3, <1>4, <2>2, <4>1
      <3>4. current[o].op = "upsert" => events'[o][current[o].rev] = events[o][current[o].rev]
        BY <1>7, <3>3
      <3> QED BY <1>8, <3>1, <3>2, <3>4 DEF CurrentIsNewestAccepted
    <2> QED BY <2>1, <2>2
  <1>17. CurrentIsNewestAccepted'
    BY <1>16 DEF CurrentIsNewestAccepted
  <1>18. PendingIsCurrent'
    <2> SUFFICES ASSUME NEW p \in pending'
                 PROVE  current'[p[1]].op = "upsert" /\ current'[p[1]].rev = p[2]
      BY DEF PendingIsCurrent
    <2>1. p \in pending /\ ~Fenced(floors, p[1], p[2]) /\ p[1] \in Objects /\ p[2] \in Revisions
      BY <1>1 DEF TypeOK
    <2>2. current[p[1]].op = "upsert" /\ current[p[1]].rev = p[2]
      BY <2>1 DEF PendingIsCurrent
    <2>3. ~gone(p[1])
      BY <1>2, <1>3, <1>4, <1>6, <2>1, <2>2
    <2> QED BY <1>11, <2>1, <2>2, <2>3
  <1>19. DeletedSourceIsForgotten'
    <2>1. ASSUME NEW o \in Objects, NEW r \in Revisions,
                 events'[o][r].status = "accepted", r <= floor'[o]
          PROVE  events'[o][r].ref \in refTombs'
      <3>1. CASE floors[o] = 0
        BY <1>2, <1>8, <1>10, <1>11, <2>1, <3>1 DEF DeletedSourceIsForgotten
      <3>2. CASE floors[o] # 0
        BY <1>2, <1>3, <1>8, <1>9, <1>10, <1>11, <2>1, <3>2
      <3> QED BY <3>1, <3>2
    <2> QED BY <1>10, <2>1 DEF WellCited, DeletedSourceIsForgotten
  <1> QED BY <1>12, <1>13, <1>15, <1>17, <1>18, <1>19

-----------------------------------------------------------------------------
(* Acknowledgements and personal memory.                                   *)

\* Steps that leave the journal alone, and drop pending references at most.
LEMMA AckInv ==
  ASSUME StoreInv, NEW Q \in SUBSET pending, NEW I \in SUBSET invalidations,
         pending' = Q, invalidations' = I,
         UNCHANGED <<events, current, floor, memories, receipts, refTombs>>
  PROVE  StoreInv'
  <1> USE DEF StoreInv
  <1>1. TypeOK' /\ RowShape' /\ CurrentIsNewestAccepted' /\ DeletedSourceIsForgotten'
    BY DEF TypeOK, RowShape, CurrentIsNewestAccepted, DeletedSourceIsForgotten
  <1>2. DeletedContentStaysGone' /\ PendingIsCurrent'
    BY DEF DeletedContentStaysGone, PendingIsCurrent
  <1> QED BY <1>1, <1>2

\* A memory step keeps the invariant when the memories it leaves are well
\* formed and cite nothing tombstoned.
LEMMA MemoryFrame ==
  ASSUME StoreInv, NEW q \in RequestIds, NEW m \in MemoryIds, FirstUse(q, m),
         UNCHANGED <<events, current, pending, invalidations, floor>>,
         memories' \in [MemoryIds -> MemoryRows],
         refTombs' \in SUBSET Refs, refTombs \subseteq refTombs',
         \A n \in MemoryIds :
            WellCited(memories'[n], refTombs')
  PROVE  StoreInv'
  <1> USE DEF StoreInv
  <1>1. TypeOK'
    BY DEF TypeOK, FirstUse
  <1>2. RowShape'
    BY DEF WellCited, RowShape
  <1>3. DeletedContentStaysGone' /\ CurrentIsNewestAccepted' /\ PendingIsCurrent'
    BY DEF DeletedContentStaysGone, CurrentIsNewestAccepted, PendingIsCurrent
  <1>4. DeletedSourceIsForgotten'
    BY DEF WellCited, DeletedSourceIsForgotten
  <1> QED BY <1>1, <1>2, <1>3, <1>4

\* propose_memory adds a row that cites only current references.
LEMMA ProposeInv ==
  ASSUME StoreInv, NEW q \in RequestIds, NEW m \in MemoryIds, NEW ref \in Refs,
         ProposeMemory(q, m, ref)
  PROVE  StoreInv'
  <1> DEFINE row == [status |-> "candidate", rev |-> 1, text |-> TRUE, refs |-> {ref},
                     supersedes |-> Null]
  <1>1. /\ FirstUse(q, m) /\ ref \notin refTombs /\ memories' = [memories EXCEPT ![m] = row]
        /\ UNCHANGED <<events, current, pending, invalidations, floor, refTombs>>
    BY DEF ProposeMemory
  <1>2. row \in MemoryRows /\ row.status = "candidate" /\ row.refs = {ref}
    BY DEF MemoryRows, MemoryStatuses
  <1> HIDE DEF row
  <1>3. \A n \in MemoryIds : memories'[n] = IF n = m THEN row ELSE memories[n]
    BY <1>1 DEF StoreInv, TypeOK
  <1>4. memories' \in [MemoryIds -> MemoryRows] /\ refTombs' \in SUBSET Refs
    BY <1>1, <1>2 DEF StoreInv, TypeOK
  <1>5. \A n \in MemoryIds :
            WellCited(memories'[n], refTombs')
    BY <1>1, <1>2, <1>3, MemoryFacts DEF WellCited
  <1> QED BY <1>1, <1>4, <1>5, MemoryFrame

\* The row a change of status leaves.
LEMMA RestatedFacts ==
  ASSUME NEW row \in MemoryRows, NEW status \in MemoryStatuses
  PROVE  /\ Restated(row, status) \in MemoryRows
         /\ Restated(row, status).status = status
         /\ Restated(row, status).refs = row.refs
         /\ Restated(row, status).text = row.text
  BY DEF Restated, MemoryRows

\* A change of status other than deletion, of a row that keeps its references.
LEMMA RestatusInv ==
  ASSUME StoreInv, NEW q \in RequestIds, NEW m \in MemoryIds, FirstUse(q, m),
         NEW status \in MemoryStatuses \ {"deleted"}, Changeable(m),
         memories' = [memories EXCEPT ![m] = Restated(memories[m], status)],
         UNCHANGED <<events, current, pending, invalidations, floor, refTombs>>
  PROVE  StoreInv'
  <1>1. \A n \in MemoryIds :
           memories'[n] = IF n = m THEN Restated(memories[m], status) ELSE memories[n]
    BY DEF StoreInv, TypeOK
  <1>2. /\ Restated(memories[m], status) \in MemoryRows
        /\ Restated(memories[m], status).status # "deleted"
        /\ Restated(memories[m], status).refs = memories[m].refs
        /\ Restated(memories[m], status).text = memories[m].text
    BY RestatedFacts, MemoryFacts
  <1>3. memories' \in [MemoryIds -> MemoryRows] /\ refTombs' \in SUBSET Refs
    BY <1>2 DEF StoreInv, TypeOK
  <1>4. \A n \in MemoryIds :
            WellCited(memories'[n], refTombs')
    BY <1>1, <1>2, MemoryFacts DEF WellCited, Changeable
  <1> QED BY <1>3, <1>4, MemoryFrame

\* update_memory's delete empties one row and touches nothing else.
LEMMA DeleteMemoryInv ==
  ASSUME StoreInv, NEW q \in RequestIds, NEW m \in MemoryIds, DeleteMemory(q, m)
  PROVE  StoreInv'
  <1> DEFINE hit(n) == n = m \/ memories[n].refs \cap memories[m].refs # {}
  <1>1. /\ FirstUse(q, m)
        /\ refTombs' = refTombs \cup memories[m].refs
        /\ \A n \in MemoryIds :
              memories'[n] = IF hit(n) THEN Erased(memories[n]) ELSE memories[n]
        /\ UNCHANGED <<events, current, pending, invalidations, floor>>
    BY DEF DeleteMemory
  <1>2. \A n \in MemoryIds : memories[n] \in MemoryRows /\ memories[n].refs \in SUBSET Refs
    BY DEF StoreInv, TypeOK, MemoryRows
  <1>3. memories' \in [MemoryIds -> MemoryRows] /\ refTombs' \in SUBSET Refs
    BY <1>1, <1>2, ErasedFacts DEF StoreInv, TypeOK, DeleteMemory
  <1>4. ASSUME NEW n \in MemoryIds
        PROVE  WellCited(memories'[n], refTombs')
    <2>1. CASE hit(n)
      <3>1. memories'[n] = Erased(memories[n])
        BY <1>1, <2>1
      <3>2. /\ Erased(memories[n]).refs = {} /\ Erased(memories[n]).text = FALSE
            /\ Erased(memories[n]).status = "deleted"
        BY <1>2, ErasedFacts
      <3> QED BY <3>1, <3>2 DEF WellCited
    <2>2. CASE ~hit(n)
      BY <1>1, <2>2, MemoryFacts DEF WellCited
    <2> QED BY <2>1, <2>2
  <1> QED BY <1>1, <1>3, <1>4, MemoryFrame

\* correct_memory replaces a row by one that cites current references.
LEMMA CorrectInv ==
  ASSUME StoreInv, NEW q \in RequestIds, NEW m \in MemoryIds, NEW new \in MemoryIds,
         CorrectMemory(q, m, new)
  PROVE  StoreInv'
  <1> DEFINE row == [status |-> "active", rev |-> 1, text |-> TRUE, refs |-> memories[m].refs,
                     supersedes |-> m]
             old == Restated(memories[m], "corrected")
  <1>1. /\ FirstUse(q, new)
        /\ memories' = [memories EXCEPT ![m] = old, ![new] = row]
        /\ UNCHANGED <<events, current, pending, invalidations, floor, refTombs>>
    BY DEF CorrectMemory
  <1>2. row \in MemoryRows /\ row.status = "active" /\ row.refs = memories[m].refs
    BY MemoryFacts DEF MemoryRows, MemoryStatuses
  <1>3. /\ old \in MemoryRows /\ old.status = "corrected" /\ old.refs = memories[m].refs
        /\ old.text = memories[m].text
    BY MemoryFacts, RestatedFacts DEF MemoryStatuses
  <1>4. memories[m].refs # {}
    BY MemoryFacts DEF CorrectMemory, Changeable, WellCited
  <1> HIDE DEF row, old
  <1>5. \A n \in MemoryIds :
           memories'[n] = IF n = new THEN row ELSE IF n = m THEN old ELSE memories[n]
    BY <1>1 DEF StoreInv, TypeOK
  <1>6. memories' \in [MemoryIds -> MemoryRows] /\ refTombs' \in SUBSET Refs
    BY <1>1, <1>2, <1>3 DEF StoreInv, TypeOK
  <1>7. ASSUME NEW n \in MemoryIds PROVE WellCited(memories'[n], refTombs')
    <2>1. WellCited(memories[n], refTombs) /\ WellCited(memories[m], refTombs)
      BY MemoryFacts
    <2>2. CASE n = new
      <3>1. memories'[n] = row /\ refTombs' = refTombs
        BY <1>1, <1>5, <2>2
      <3>2. row.refs # {} /\ row.refs \cap refTombs = {}
        BY <1>2, <1>4, <2>1 DEF WellCited
      <3> QED BY <1>2, <3>1, <3>2 DEF WellCited
    <2>3. CASE n # new /\ n = m
      <3>1. memories'[n] = old /\ refTombs' = refTombs
        BY <1>1, <1>5, <2>3
      <3>2. old.refs # {} /\ old.refs \cap refTombs = {}
        BY <1>3, <1>4, <2>1 DEF WellCited
      <3> QED BY <1>3, <3>1, <3>2 DEF WellCited
    <2>4. CASE n # new /\ n # m
      <3>1. memories'[n] = memories[n] /\ refTombs' = refTombs
        BY <1>1, <1>5, <2>4
      <3> QED BY <2>1, <3>1
    <2> QED BY <2>2, <2>3, <2>4
  <1> QED BY <1>1, <1>6, <1>7, MemoryFrame

-----------------------------------------------------------------------------
(* The theorems.                                                           *)

\* Every step keeps the invariant.
LEMMA NextInv == StoreAssumption /\ StoreInv /\ [Next]_vars => StoreInv'
  <1> SUFFICES ASSUME StoreAssumption, StoreInv, [Next]_vars PROVE StoreInv'
    OBVIOUS
  <1>1. ASSUME NEW o \in Objects, NEW r \in Revisions, NEW env \in Envelopes, Ingest(o, r, env)
        PROVE  StoreInv'
    BY <1>1, IngestStaleInv, IngestUpsertInv, IngestDeleteInv DEF Ingest
  <1>2. ASSUME NEW p \in pending, Ack(p) PROVE StoreInv'
    BY <1>2, AckInv DEF Ack
  <1>3. ASSUME NEW i \in invalidations, AckInvalidation(i) PROVE StoreInv'
    BY <1>3, AckInv DEF AckInvalidation
  <1>4. ASSUME NEW floors \in [Objects -> 0..MaxRevision], NEW hashes \in SUBSET Refs,
               ReplayTombstones(floors, hashes)
        PROVE  StoreInv'
    BY <1>4, ReplayInv
  <1>5. ASSUME NEW q \in RequestIds, MemoryStep(q) PROVE StoreInv'
    <2>1. ASSUME NEW m \in MemoryIds, NEW ref \in Refs, ProposeMemory(q, m, ref) PROVE StoreInv'
      BY <2>1, ProposeInv
    <2>2. ASSUME NEW m \in MemoryIds, ExpireMemory(q, m) PROVE StoreInv'
      BY <2>2, RestatusInv DEF ExpireMemory, MemoryStatuses
    <2>3. ASSUME NEW m \in MemoryIds, DeleteMemory(q, m) PROVE StoreInv'
      BY <2>3, DeleteMemoryInv
    <2>4. ASSUME NEW m \in MemoryIds, ConfirmMemory(q, m) PROVE StoreInv'
      BY <2>4, RestatusInv DEF ConfirmMemory, MemoryStatuses, Changeable
    <2>5. ASSUME NEW m \in MemoryIds, NEW new \in MemoryIds, CorrectMemory(q, m, new)
          PROVE  StoreInv'
      BY <2>5, CorrectInv
    <2> QED BY <1>5, <2>1, <2>2, <2>3, <2>4, <2>5 DEF MemoryStep
  <1>6. CASE UNCHANGED vars
    BY <1>6, AckInv DEF vars
  <1> QED BY <1>1, <1>2, <1>3, <1>4, <1>5, <1>6 DEF Next

\* The store's invariant holds throughout.
LEMMA Invariance == Spec => []StoreInv
  <1>1. Init => StoreInv
    BY InitInv, StoreAssumption
  <1>2. StoreInv /\ [Next]_vars => StoreInv'
    BY NextInv, StoreAssumption
  <1> QED BY <1>1, <1>2, PTL DEF Spec

\* The tables of the context store keep their types, whatever is ingested,
\* acknowledged, replayed or remembered.
THEOREM TypeCorrect == Spec => []TypeOK
  <1>1. StoreInv => TypeOK
    BY DEF StoreInv
  <1> QED BY <1>1, Invariance, PTL

\* Content of a revision that a deletion covers is in no table
\* (ContextStore.ingest, replay_tombstones), in every order of events.
THEOREM DeletionIsFinal == Spec => []DeletedContentStaysGone
  <1>1. StoreInv => DeletedContentStaysGone
    BY DEF StoreInv
  <1> QED BY <1>1, Invariance, PTL

\* The current projection is the newest accepted event of its object, or the
\* tombstone above it (ContextStore.ingest, get).
THEOREM NewestIsServed == Spec => []CurrentIsNewestAccepted
  <1>1. StoreInv => CurrentIsNewestAccepted
    BY DEF StoreInv
  <1> QED BY <1>1, Invariance, PTL

\* What waits for review is what is served (ContextStore.pending).
THEOREM PendingIsServed == Spec => []PendingIsCurrent
  <1>1. StoreInv => PendingIsCurrent
    BY DEF StoreInv
  <1> QED BY <1>1, Invariance, PTL

\* No memory with text cites a deleted source (_scrub_memory_source_hash).
THEOREM MemoryForgets == Spec => []DeletedSourceIsForgotten
  <1>1. StoreInv => DeletedSourceIsForgotten
    BY DEF StoreInv
  <1> QED BY <1>1, Invariance, PTL

-----------------------------------------------------------------------------
(* Refinement.  Each step of the store is a step of SourceJournal, or      *)
(* leaves the four mapped variables alone.                                 *)

\* The mapped state of the restore: what Fence does.
LEMMA ReplayFences ==
  ASSUME StoreInv, StoreAssumption,
         NEW floors \in [Objects -> 0..MaxRevision], NEW hashes \in SUBSET Refs,
         ReplayTombstones(floors, hashes)
  PROVE  \E gone \in SUBSET Objects :
            /\ \A o \in Objects :
                  /\ current'[o].rev \in 0..MaxRevision
                  /\ current'[o].rev >= current[o].rev
                  /\ o \notin gone => current'[o] = current[o]
                  /\ current'[o].op = "upsert" <=> current[o].op = "upsert" /\ o \notin gone
            /\ pending' = {p \in pending : p[1] \notin gone}
            /\ invalidations' = invalidations
  <1> DEFINE merged(o) == MergedFloor(o, floors[o])
             gone == {o \in Objects : ~(floors[o] = 0 \/ PreserveNewer(o, merged(o)))}
             tomb(o) == [rev |-> merged(o), op |-> "delete", ref |-> Null, payload |-> Null]
  <1> USE DEF StoreInv
  <1>1. /\ \A o \in Objects : current'[o] = IF o \in gone THEN tomb(o) ELSE current[o]
        /\ pending' = {p \in pending : ~Fenced(floors, p[1], p[2])}
        /\ invalidations' = invalidations
    BY DEF ReplayTombstones
  <1>2. \A o \in Objects :
           /\ floors[o] \in 0..MaxRevision /\ floors[o] \in Nat
           /\ current[o].rev \in 0..MaxRevision /\ current[o].rev \in Nat
           /\ current[o].op \in {"none", "upsert", "delete"}
    BY DEF TypeOK, CurrentRows
  <1>3. \A o \in Objects :
           /\ merged(o) \in 0..MaxRevision
           /\ floors[o] > 0 /\ current[o].op = "delete" => merged(o) >= current[o].rev
    BY <1>2, MergedFloorType
  <1>4. \A o \in Objects : o \in gone <=>
           floors[o] # 0 /\ ~(current[o].op = "upsert" /\ current[o].rev > merged(o))
    BY DEF PreserveNewer
  <1>5. \A o \in Objects : tomb(o).rev = merged(o) /\ tomb(o).op = "delete"
    OBVIOUS
  <1>6. \A o \in Objects, r \in Revisions :
           Fenced(floors, o, r) <=> floors[o] > 0 /\ r <= merged(o)
    BY DEF Fenced
  <1>7. gone \in SUBSET Objects
    OBVIOUS
  <1> HIDE DEF merged, gone, tomb
  <1>8. ASSUME NEW o \in Objects
        PROVE  /\ current'[o].rev \in 0..MaxRevision
               /\ current'[o].rev >= current[o].rev
               /\ o \notin gone => current'[o] = current[o]
               /\ current'[o].op = "upsert" <=> current[o].op = "upsert" /\ o \notin gone
    <2>1. CASE o \in gone
      <3>1. current[o].rev <= merged(o)
        BY <1>2, <1>3, <1>4, <2>1 DEF RowShape
      <3>2. current'[o].rev = merged(o) /\ current'[o].op = "delete" /\ merged(o) \in Nat
        BY <1>1, <1>3, <1>5, <2>1
      <3> QED BY <1>2, <1>3, <2>1, <3>1, <3>2
    <2>2. CASE o \notin gone
      BY <1>1, <1>2, <2>2
    <2> QED BY <2>1, <2>2
  <1>9. \A p \in pending : Fenced(floors, p[1], p[2]) <=> p[1] \in gone
    <2> SUFFICES ASSUME NEW p \in pending
                 PROVE  Fenced(floors, p[1], p[2]) <=> p[1] \in gone
      OBVIOUS
    <2>1. p[1] \in Objects /\ p[2] \in Revisions /\ current[p[1]].op = "upsert"
          /\ current[p[1]].rev = p[2]
      BY DEF PendingIsCurrent, TypeOK
    <2> QED BY <1>2, <1>3, <1>4, <1>6, <2>1
  <1>10. pending' = {p \in pending : p[1] \notin gone}
    BY <1>1, <1>9
  <1> QED BY <1>1, <1>7, <1>8, <1>10

\* The store implements the abstract journal that the notification pipeline
\* is built on.
THEOREM Refinement == Spec => ImplementsJournal
  <1>1. Init => Journal!JournalInit
    <2> SUFFICES ASSUME Init PROVE Journal!JournalInit
      OBVIOUS
    <2>1. \A o \in Objects : current[o].rev = 0 /\ (current[o].op = "upsert") = FALSE
      BY DEF Init, NoCurrent
    <2> QED BY <2>1 DEF Init, Journal!JournalInit
  <1>2. StoreInv /\ [Next]_vars => [Journal!JournalNext]_(Journal!journal)
    <2> SUFFICES ASSUME StoreInv, [Next]_vars
                 PROVE  Journal!JournalNext \/ UNCHANGED Journal!journal
      OBVIOUS
    <2> USE StoreAssumption
    <2>1. ASSUME NEW o \in Objects, NEW r \in Revisions, NEW env \in Envelopes,
                 IngestUpsert(o, r, env)
          PROVE  Journal!Publish(o, r)
      <3>1. r > current[o].rev
        BY <2>1, AcceptedFacts DEF IngestUpsert
      <3>2. \A p \in Objects : /\ current'[p].rev = IF p = o THEN r ELSE current[p].rev
                               /\ current'[p].op = IF p = o THEN "upsert" ELSE current[p].op
        BY <2>1 DEF IngestUpsert, StoreInv, TypeOK
      <3>3. [p \in Objects |-> current'[p].rev] = [[p \in Objects |-> current[p].rev] EXCEPT ![o] = r]
        BY <3>2
      <3>4. [p \in Objects |-> current'[p].op = "upsert"]
            = [[p \in Objects |-> current[p].op = "upsert"] EXCEPT ![o] = TRUE]
        BY <3>2
      <3>5. pending' = {p \in pending : p[1] \in Objects \ {o}} \cup {<<o, r>>}
        BY <2>1 DEF IngestUpsert, PendingOthers, StoreInv, TypeOK
      <3>6. invalidations' = IF current[o].rev = 0 THEN invalidations
                             ELSE invalidations \cup {[obj |-> o, rev |-> r,
                                                       prev |-> current[o].rev, op |-> "upsert"]}
        <4>1. current[o].rev \in Nat
          BY DEF StoreInv, TypeOK, CurrentRows
        <4> QED BY <2>1, <4>1 DEF IngestUpsert, Invalidate
      <3> QED BY <3>1, <3>3, <3>4, <3>5, <3>6 DEF Journal!Publish, Journal!ReviewOf, Journal!Notice
    <2>2. ASSUME NEW o \in Objects, NEW r \in Revisions, NEW env \in Envelopes,
                 IngestDelete(o, r, env)
          PROVE  Journal!Withdraw(o, r)
      <3>1. r > current[o].rev
        BY <2>2, AcceptedFacts DEF IngestDelete
      <3>2. \A p \in Objects : /\ current'[p].rev = IF p = o THEN r ELSE current[p].rev
                               /\ current'[p].op = IF p = o THEN "delete" ELSE current[p].op
        BY <2>2 DEF IngestDelete, StoreInv, TypeOK
      <3>3. [p \in Objects |-> current'[p].rev] = [[p \in Objects |-> current[p].rev] EXCEPT ![o] = r]
        BY <3>2
      <3>4. [p \in Objects |-> current'[p].op = "upsert"]
            = [[p \in Objects |-> current[p].op = "upsert"] EXCEPT ![o] = FALSE]
        BY <3>2
      <3>5. pending' = {p \in pending : p[1] \in Objects \ {o}}
        BY <2>2 DEF IngestDelete, PendingOthers, StoreInv, TypeOK
      <3>6. invalidations' = invalidations \cup {[obj |-> o, rev |-> r,
                                                  prev |-> current[o].rev, op |-> "delete"]}
        BY <2>2 DEF IngestDelete, Invalidate
      <3> QED BY <3>1, <3>3, <3>4, <3>5, <3>6 DEF Journal!Withdraw, Journal!ReviewOf, Journal!Notice
    <2>3. ASSUME NEW floors \in [Objects -> 0..MaxRevision], NEW hashes \in SUBSET Refs,
                 ReplayTombstones(floors, hashes)
          PROVE  \E gone \in SUBSET Objects : Journal!Fence(gone)
      <3>1. PICK gone \in SUBSET Objects :
               /\ \A o \in Objects :
                     /\ current'[o].rev \in 0..MaxRevision
                     /\ current'[o].rev >= current[o].rev
                     /\ o \notin gone => current'[o] = current[o]
                     /\ current'[o].op = "upsert" <=> current[o].op = "upsert" /\ o \notin gone
               /\ pending' = {p \in pending : p[1] \notin gone}
               /\ invalidations' = invalidations
        BY <2>3, ReplayFences
      <3> DEFINE newer == [o \in Objects |-> current'[o].rev]
      <3>2. /\ newer \in [Objects -> 0..MaxRevision]
            /\ \A o \in Objects : /\ newer[o] >= [p \in Objects |-> current[p].rev][o]
                                  /\ o \notin gone =>
                                        newer[o] = [p \in Objects |-> current[p].rev][o]
        BY <3>1
      <3>3. [o \in Objects |-> current'[o].op = "upsert"]
            = [o \in Objects |-> [p \in Objects |-> current[p].op = "upsert"][o] /\ o \notin gone]
        BY <3>1
      <3>4. pending' = {p \in pending : p[1] \in Objects \ gone}
        BY <3>1 DEF StoreInv, TypeOK
      <3>5. Journal!Fence(gone)
        BY <3>1, <3>2, <3>3, <3>4 DEF Journal!Fence, Journal!ReviewOf
      <3> QED BY <3>5
    <2>4. ASSUME NEW p \in pending, Ack(p) PROVE Journal!Reviewed(p)
      BY <2>4 DEF Ack, Journal!Reviewed
    <2>5. ASSUME NEW i \in invalidations, AckInvalidation(i) PROVE Journal!Purged(i)
      BY <2>5 DEF AckInvalidation, Journal!Purged
    <2>6. ASSUME UNCHANGED journalVars PROVE UNCHANGED Journal!journal
      BY <2>6 DEF journalVars, Journal!journal
    <2>7. ASSUME NEW o \in Objects, NEW r \in Revisions, NEW env \in Envelopes,
                 IngestStale(o, r, env)
          PROVE  UNCHANGED Journal!journal
      BY <2>7 DEF IngestStale, Journal!journal
    <2>8. ASSUME NEW q \in RequestIds, MemoryStep(q) PROVE UNCHANGED journalVars
      BY <2>8 DEF MemoryStep, ProposeMemory, ExpireMemory, DeleteMemory, ConfirmMemory,
                  CorrectMemory, journalVars
    <2>9. \A r \in Revisions : r \in 1..MaxRevision
      BY DEF Revisions
    <2>10. CASE Next
      BY <2>10, <2>1, <2>2, <2>3, <2>4, <2>5, <2>6, <2>7, <2>8, <2>9
         DEF Next, Ingest, Journal!JournalNext, Journal!Revisions
    <2>11. CASE UNCHANGED vars
      BY <2>6, <2>11 DEF vars, journalVars
    <2> QED BY <2>10, <2>11
  <1> QED BY <1>1, <1>2, Invariance, PTL DEF Spec, ImplementsJournal, Journal!JournalSpec

-----------------------------------------------------------------------------
(* The action property.                                                    *)

\* No step undoes a deletion, a newer revision or an erasure.
THEOREM NothingRegresses == Spec => NoRegression
  <1>1. StoreInv /\ [Next]_vars => [KeepsGround]_vars
    <2> SUFFICES ASSUME StoreInv, Next PROVE KeepsGround
      OBVIOUS
    <2> USE StoreAssumption
    <2>1. \A o \in Objects : floor[o] \in Nat /\ current[o].rev \in Nat
      BY DEF StoreInv, TypeOK, CurrentRows
    <2>2. \A r \in Revisions : r \in Nat
      BY DEF Revisions
    <2>3. ASSUME NEW o \in Objects, NEW r \in Revisions, NEW env \in Envelopes,
                 IngestStale(o, r, env)
          PROVE  KeepsGround
      BY <2>1, <2>3 DEF IngestStale, KeepsGround
    <2>4. ASSUME NEW o \in Objects, NEW r \in Revisions, NEW env \in Envelopes,
                 IngestUpsert(o, r, env)
          PROVE  KeepsGround
      <3>1. r > current[o].rev
        BY <2>4, AcceptedFacts DEF IngestUpsert
      <3>2. \A p \in Objects : current'[p].rev = IF p = o THEN r ELSE current[p].rev
        BY <2>4 DEF IngestUpsert, StoreInv, TypeOK
      <3> QED BY <2>1, <2>2, <2>4, <3>1, <3>2 DEF IngestUpsert, KeepsGround
    <2>5. ASSUME NEW o \in Objects, NEW r \in Revisions, NEW env \in Envelopes,
                 IngestDelete(o, r, env)
          PROVE  KeepsGround
      <3> DEFINE S == EventRefs(o, WithEvent(o, r, StoredRow(o, r, env, "accepted")))
      <3>1. r > current[o].rev /\ r > floor[o]
        BY <2>5, AcceptedFacts DEF IngestDelete
      <3>2. \A p \in Objects : current'[p].rev = IF p = o THEN r ELSE current[p].rev
        BY <2>5 DEF IngestDelete, StoreInv, TypeOK
      <3>3. \A p \in Objects : floor'[p] = IF p = o THEN r ELSE floor[p]
        BY <2>1, <2>2, <2>5, <3>1 DEF IngestDelete, Larger, StoreInv, TypeOK
      <3>4. S \in SUBSET Refs
        <4> DEFINE row == StoredRow(o, r, env, "accepted")
        <4>1. row \in EventRows /\ row.ref \in Refs
          BY StoredRowFacts
        <4> HIDE DEF row
        <4>2. \A s \in Revisions : WithEvent(o, r, row)[o][s] =
                 IF s = r THEN row ELSE events[o][s]
          BY <4>1, WithEventFacts DEF StoreInv, TypeOK
        <4>3. \A s \in Revisions : WithEvent(o, r, row)[o][s].status # "none" =>
                 WithEvent(o, r, row)[o][s].ref \in Refs
          BY <4>1, <4>2 DEF StoreInv, RowShape
        <4>4. EventRefs(o, WithEvent(o, r, row)) \in SUBSET Refs
          BY <4>3 DEF EventRefs
        <4> QED BY <4>4 DEF row
      <3>5. ScrubMemorySources(S)
        BY <2>5 DEF IngestDelete
      <3> HIDE DEF S
      <3>6. refTombs \subseteq refTombs'
            /\ \A m \in MemoryIds : memories[m].status = "deleted" => memories'[m] = memories[m]
        BY <3>4, <3>5, ScrubFacts
      <3> QED BY <2>1, <2>2, <3>1, <3>2, <3>3, <3>6 DEF KeepsGround
    <2>6. ASSUME NEW floors \in [Objects -> 0..MaxRevision], NEW hashes \in SUBSET Refs,
                 ReplayTombstones(floors, hashes)
          PROVE  KeepsGround
      <3> DEFINE S == FencedRefs(floors) \cup hashes
      <3>1. \A o \in Objects : current'[o].rev >= current[o].rev
        BY <2>6, ReplayFences
      <3>2. \A o \in Objects : floor'[o] >= floor[o]
        <4>1. \A o \in Objects : floors[o] \in 0..MaxRevision
          OBVIOUS
        <4>2. \A o \in Objects : MergedFloor(o, floors[o]) >= floor[o]
          BY <4>1, MergedFloorType DEF StoreInv
        <4> QED BY <2>6, <4>2 DEF ReplayTombstones
      <3>3. S \in SUBSET Refs
        BY DEF FencedRefs, StoreInv, RowShape
      <3>4. ScrubMemorySources(S)
        BY <2>6 DEF ReplayTombstones
      <3> HIDE DEF S
      <3>5. refTombs \subseteq refTombs'
            /\ \A m \in MemoryIds : memories[m].status = "deleted" => memories'[m] = memories[m]
        BY <3>3, <3>4, ScrubFacts
      <3> QED BY <3>1, <3>2, <3>5 DEF KeepsGround
    <2>7. ASSUME NEW p \in pending, Ack(p) PROVE KeepsGround
      BY <2>1, <2>7 DEF Ack, KeepsGround
    <2>8. ASSUME NEW i \in invalidations, AckInvalidation(i) PROVE KeepsGround
      BY <2>1, <2>8 DEF AckInvalidation, KeepsGround
    <2>9. ASSUME NEW q \in RequestIds, NEW m \in MemoryIds, NEW ref \in Refs,
                 ProposeMemory(q, m, ref)
          PROVE  KeepsGround
      BY <2>1, <2>9 DEF ProposeMemory, Unused, KeepsGround, StoreInv, TypeOK
    <2>10. ASSUME NEW q \in RequestIds, NEW m \in MemoryIds, ExpireMemory(q, m)
           PROVE  KeepsGround
      BY <2>1, <2>10 DEF ExpireMemory, Changeable, KeepsGround, StoreInv, TypeOK
    <2>11. ASSUME NEW q \in RequestIds, NEW m \in MemoryIds, DeleteMemory(q, m)
           PROVE  KeepsGround
      <3>1. \A n \in MemoryIds : memories[n].status = "deleted" =>
               n # m /\ memories[n].refs \cap memories[m].refs = {}
        BY <2>11 DEF DeleteMemory, Changeable, StoreInv, RowShape
      <3> QED BY <2>1, <2>11, <3>1 DEF DeleteMemory, KeepsGround
    <2>12. ASSUME NEW q \in RequestIds, NEW m \in MemoryIds, ConfirmMemory(q, m)
           PROVE  KeepsGround
      BY <2>1, <2>12 DEF ConfirmMemory, KeepsGround, StoreInv, TypeOK
    <2>13. ASSUME NEW q \in RequestIds, NEW m \in MemoryIds, NEW new \in MemoryIds,
                  CorrectMemory(q, m, new)
           PROVE  KeepsGround
      BY <2>1, <2>13 DEF CorrectMemory, Changeable, Unused, KeepsGround, StoreInv, TypeOK
    <2> QED BY <2>3, <2>4, <2>5, <2>6, <2>7, <2>8, <2>9, <2>10, <2>11, <2>12, <2>13
            DEF Next, Ingest, MemoryStep
  <1> QED BY <1>1, Invariance, PTL DEF Spec, NoRegression

-----------------------------------------------------------------------------
(* Lists of finite sets.                                                   *)

\* A listed set is a sequence of its members, each of them once.
LEMMA Listed ==
  ASSUME NEW S, IsFiniteSet(S)
  PROVE  /\ SetToSeq(S) \in Seq(S)
         /\ \A x \in S : \E i \in 1..Len(SetToSeq(S)) : SetToSeq(S)[i] = x
         /\ \A i, j \in 1..Len(SetToSeq(S)) : SetToSeq(S)[i] = SetToSeq(S)[j] => i = j
  <1> DEFINE n == Cardinality(S)
  <1>1. n \in Nat /\ \E f \in [1..n -> S] : IsInjective(f)
    BY FS_CardinalityType DEF ExistsBijection, Bijection, Injection
  <1>2. SetToSeq(S) \in [1..n -> S] /\ IsInjective(SetToSeq(S))
    BY <1>1 DEF SetToSeq
  <1>3. SetToSeq(S) \in Injection(1..n, S)
    BY <1>2 DEF Injection
  <1>4. IsFiniteSet(1..n) /\ Cardinality(1..n) = n
    BY <1>1, FS_Interval
  <1>5. SetToSeq(S) \in Surjection(1..n, S)
    BY <1>3, <1>4, FS_Injection
  <1> HIDE DEF n
  <1>6. SetToSeq(S) \in Seq(S) /\ Len(SetToSeq(S)) = n
    BY <1>1, <1>2
  <1> QED BY <1>2, <1>5, <1>6 DEF Surjection, IsInjective

\* One list after another: what comes before what.
LEMMA ListedInTurn ==
  ASSUME NEW S, NEW T, IsFiniteSet(S), IsFiniteSet(T), NEW q, q = SetToSeq(S) \o SetToSeq(T)
  PROVE  /\ q \in Seq(S \cup T)
         /\ \A x \in S \cup T : \E i \in 1..Len(q) : q[i] = x
         /\ \A i, j \in 1..Len(q) : i < j =>
               \/ q[i] \in S /\ q[j] \in T
               \/ q[i] \in S /\ q[j] \in S /\ q[i] # q[j]
               \/ q[i] \in T /\ q[j] \in T /\ q[i] # q[j]
  <1> DEFINE a == SetToSeq(S)
             b == SetToSeq(T)
  <1>1. /\ a \in Seq(S)
        /\ \A x \in S : \E i \in 1..Len(a) : a[i] = x
        /\ \A i, j \in 1..Len(a) : a[i] = a[j] => i = j
    BY Listed
  <1>2. /\ b \in Seq(T)
        /\ \A x \in T : \E i \in 1..Len(b) : b[i] = x
        /\ \A i, j \in 1..Len(b) : b[i] = b[j] => i = j
    BY Listed
  <1>3. q = a \o b
    OBVIOUS
  <1> HIDE DEF a, b
  <1>4. a \in Seq(S \cup T) /\ b \in Seq(S \cup T)
    BY <1>1, <1>2
  <1>5. PICK n \in Nat, m \in Nat : n = Len(a) /\ m = Len(b)
    BY <1>1, <1>2
  <1>6. q \in Seq(S \cup T) /\ Len(q) = n + m
    BY <1>3, <1>4, <1>5
  <1>7. /\ \A i \in 1..n : q[i] = a[i] /\ a[i] \in S
        /\ \A i \in 1..m : q[n + i] = b[i] /\ b[i] \in T
    BY <1>1, <1>2, <1>3, <1>4, <1>5
  <1>a. \A i \in 1..(n + m) : i \in 1..n \/ (i - n \in 1..m /\ i = n + (i - n))
    OBVIOUS
  <1>b. (\A i \in 1..n : i \in 1..(n + m)) /\ (\A i \in 1..m : n + i \in 1..(n + m))
    OBVIOUS
  <1>8. ASSUME NEW x \in S \cup T PROVE \E i \in 1..(n + m) : q[i] = x
    <2>1. CASE x \in S
      <3>1. PICK i \in 1..n : a[i] = x
        BY <1>1, <1>5, <2>1
      <3> QED BY <1>7, <1>b, <3>1
    <2>2. CASE x \in T
      <3>1. PICK i \in 1..m : b[i] = x
        BY <1>2, <1>5, <2>2
      <3>2. n + i \in 1..(n + m) /\ q[n + i] = x
        BY <1>7, <1>b, <3>1
      <3> QED BY <3>2
    <2> QED BY <2>1, <2>2
  <1>9. ASSUME NEW i \in 1..(n + m), NEW j \in 1..(n + m), i < j
        PROVE  \/ q[i] \in S /\ q[j] \in T
               \/ q[i] \in S /\ q[j] \in S /\ q[i] # q[j]
               \/ q[i] \in T /\ q[j] \in T /\ q[i] # q[j]
    <2>1. CASE i \in 1..n /\ j \in 1..n
      <3>1. a[i] # a[j]
        BY <1>1, <1>5, <1>9, <2>1
      <3> QED BY <1>7, <2>1, <3>1
    <2>2. CASE i \in 1..n /\ j \notin 1..n
      BY <1>7, <1>a, <2>2
    <2>3. CASE i \notin 1..n
      <3>1. j \notin 1..n /\ i - n # j - n
        BY <1>9, <2>3
      <3>2. i - n \in 1..m /\ j - n \in 1..m /\ i = n + (i - n) /\ j = n + (j - n)
        BY <1>a, <2>3, <3>1
      <3>3. q[i] = b[i - n] /\ q[j] = b[j - n]
        BY <1>7, <3>2
      <3> QED BY <1>2, <1>5, <1>7, <3>1, <3>2, <3>3
    <2> QED BY <2>1, <2>2, <2>3
  <1> QED BY <1>6, <1>8, <1>9

\* A set indexed by finitely many objects is finite.
LEMMA IndexedFinite ==
  ASSUME NEW S, IsFiniteSet(S), NEW f, DOMAIN f = S
  PROVE  IsFiniteSet({f[x] : x \in S})
  <1>1. [x \in S |-> f[x]] \in Surjection(S, {f[x] : x \in S})
    BY DEF Surjection
  <1> QED BY <1>1, FS_Surjection

-----------------------------------------------------------------------------
(* The resolver's rotation.                                                *)

\* A nonempty finite set has a first and a last member in the rotation.
LEMMA RotationEnds ==
  ASSUME NEW S \in SUBSET Nat, IsFiniteSet(S), S # {}, cursor \in Nat
  PROVE  /\ \E o \in S : \A p \in S : ~Before(p, o)
         /\ \E o \in S : \A p \in S : p = o \/ Before(p, o)
  <1> DEFINE earlier(o) == {p \in S : Before(p, o)}
             later(o) == {p \in S : Before(o, p)}
  <1>1. \A T \in SUBSET SUBSET S : T # {} => \E A \in T : \A B \in T : ~(B \subseteq A /\ B # A)
    <2> SUFFICES ASSUME NEW T \in SUBSET SUBSET S, T # {}
                 PROVE  \E A \in T : \A B \in T : ~(B \subseteq A /\ B # A)
      OBVIOUS
    <2>1. T \subseteq FiniteSubsetsOf(S)
      BY FS_Subset DEF FiniteSubsetsOf
    <2>2. \E A \in T : \A B \in T : <<B, A>> \notin StrictSubsetOrdering(S)
      BY <2>1, FS_StrictSubsetOrderingWellFounded, WFMin
    <2> QED BY <2>2 DEF StrictSubsetOrdering
  <1>2. \A p, o \in S : /\ p = o \/ Before(p, o) \/ Before(o, p)
                        /\ ~(Before(p, o) /\ Before(o, p)) /\ ~Before(o, o)
    BY DEF Before
  <1>3. \A p, o, q \in S : Before(p, o) /\ Before(o, q) => Before(p, q)
    BY DEF Before
  <1>4. \E o \in S : \A p \in S : ~Before(p, o)
    <2>1. {earlier(o) : o \in S} # {} /\ {earlier(o) : o \in S} \in SUBSET SUBSET S
      OBVIOUS
    <2>2. PICK A \in {earlier(o) : o \in S} :
             \A B \in {earlier(o) : o \in S} : ~(B \subseteq A /\ B # A)
      BY <1>1, <2>1
    <2>3. PICK o \in S : A = earlier(o)
      OBVIOUS
    <2>4. ASSUME NEW p \in S, Before(p, o) PROVE FALSE
      <3>1. earlier(p) \subseteq A
        BY <1>3, <2>3, <2>4
      <3>2. p \in A /\ p \notin earlier(p)
        BY <1>2, <2>3, <2>4
      <3>3. earlier(p) \in {earlier(x) : x \in S}
        OBVIOUS
      <3> HIDE DEF earlier
      <3> QED BY <2>2, <3>1, <3>2, <3>3
    <2> QED BY <2>4
  <1>5. \E o \in S : \A p \in S : ~Before(o, p)
    <2>1. {later(o) : o \in S} # {} /\ {later(o) : o \in S} \in SUBSET SUBSET S
      OBVIOUS
    <2>2. PICK A \in {later(o) : o \in S} :
             \A B \in {later(o) : o \in S} : ~(B \subseteq A /\ B # A)
      BY <1>1, <2>1
    <2>3. PICK o \in S : A = later(o)
      OBVIOUS
    <2>4. ASSUME NEW p \in S, Before(o, p) PROVE FALSE
      <3>1. later(p) \subseteq A
        BY <1>3, <2>3, <2>4
      <3>2. p \in A /\ p \notin later(p)
        BY <1>2, <2>3, <2>4
      <3>3. later(p) \in {later(x) : x \in S}
        OBVIOUS
      <3> HIDE DEF later
      <3> QED BY <2>2, <3>1, <3>2, <3>3
    <2> QED BY <2>4
  <1> QED BY <1>2, <1>4, <1>5

\* The cursor stays a daythread id, or 0 as long as none was known.
LEMMA CursorType ==
  ASSUME SyncAssumption, cursor \in DaythreadObjects \cup {0}
  PROVE  BatchCursor \in DaythreadObjects \cup {0}
  <1>1. CASE KnownIds = {}
    BY <1>1 DEF BatchCursor
  <1>2. CASE KnownIds # {}
    <2>1. /\ KnownIds \in SUBSET Nat /\ NextBatch \in SUBSET KnownIds
          /\ KnownIds \in SUBSET Objects /\ KnownIds \in SUBSET DaythreadObjects
      BY DEF SyncAssumption, KnownIds, NextBatch
    <2>2. IsFiniteSet(KnownIds) /\ IsFiniteSet(NextBatch) /\ cursor \in Nat
      <3>1. IsFiniteSet(KnownIds)
        BY <2>1, FS_Subset DEF SyncAssumption
      <3>2. IsFiniteSet(NextBatch)
        BY <2>1, <3>1, FS_Subset
      <3> QED BY <3>1, <3>2 DEF SyncAssumption
    <2>3. PICK o \in KnownIds : \A p \in KnownIds : ~Before(p, o)
      BY <1>2, <2>1, <2>2, RotationEnds
    <2>4. {p \in KnownIds : Before(p, o)} = {}
      BY <2>3
    <2>5. o \in NextBatch
      BY <2>4, FS_EmptySet DEF NextBatch, SyncAssumption
    <2>6. \E q \in NextBatch : \A p \in NextBatch : p = q \/ Before(p, q)
      BY <2>1, <2>2, <2>5, RotationEnds
    <2>7. (CHOOSE q \in NextBatch : \A p \in NextBatch : p = q \/ Before(p, q)) \in NextBatch
      BY <2>6
    <2> QED BY <1>2, <2>1, <2>7 DEF BatchCursor
  <1> QED BY <1>1, <1>2

-----------------------------------------------------------------------------
(* One snapshot, one row.                                                  *)

\* The snapshot's effect on the row of one object.
LEMMA RowFacts ==
  ASSUME SyncTypeOK, NEW s \in Scans, NEW o \in Objects
  PROVE  /\ rows[o][s.key].rev \in 0..MaxRevision /\ rows[o][s.key].seen \in Contents \cup {Null}
         /\ rows[o][s.key].current \in BOOLEAN /\ rows[o][s.key] \in LedgerRows
         /\ o \in Upserted(s) => o \in ObjectsOf(s.src) /\ s.view[o] \in Contents
         /\ o \in Deleted(s) => o \in ObjectsOf(s.src)
         /\ o \in Upserted(s) => /\ Observed(s, o).rev = rows[o][s.key].rev + 1
                                 /\ Observed(s, o).seen = s.view[o]
                                 /\ Observed(s, o).current = TRUE
         /\ o \notin Upserted(s) => Observed(s, o) = rows[o][s.key]
         /\ Tombstoned(s, o).rev = Observed(s, o).rev + 1
         /\ Tombstoned(s, o).current = FALSE
         /\ Tombstoned(s, o).seen = IF o \in s.gone THEN Observed(s, o).seen ELSE Null
  <1> DEFINE row == rows[o][s.key]
  <1>1. s.key \in Keys /\ s.view \in Views
    BY DEF Scans
  <1>2. row \in LedgerRows /\ rows[o] \in [Keys -> LedgerRows]
    BY <1>1 DEF SyncTypeOK
  <1>3. row.rev \in 0..MaxRevision /\ row.seen \in Contents \cup {Null} /\ row.current \in BOOLEAN
    BY <1>2 DEF LedgerRows
  <1>4. o \in Upserted(s) => o \in ObjectsOf(s.src) /\ s.view[o] \in Contents
    BY <1>1 DEF Upserted, Shown, Views
  <1>5. o \in Deleted(s) => o \in ObjectsOf(s.src)
    BY DEF Deleted
  <1>6. /\ o \in Upserted(s) =>
              Observed(s, o) = [rev |-> row.rev + 1, seen |-> s.view[o], current |-> TRUE]
        /\ o \notin Upserted(s) => Observed(s, o) = row
    BY DEF Observed, NextRevision
  <1>7. Tombstoned(s, o) = [rev |-> Observed(s, o).rev + 1, current |-> FALSE,
                            seen |-> IF o \in s.gone THEN Observed(s, o).seen ELSE Null]
    BY DEF Tombstoned, NextRevision
  <1> QED BY <1>2, <1>3, <1>4, <1>5, <1>6, <1>7

\* The row of one object after the snapshot; other coverage keys are left alone.
LEMMA AppliedRow ==
  ASSUME SyncTypeOK, NEW s \in Scans, NEW o \in Objects
  PROVE  /\ Applied(s)[o][s.key] = IF o \in Deleted(s) THEN Tombstoned(s, o) ELSE Observed(s, o)
         /\ \A k \in Keys : k # s.key => Applied(s)[o][k] = rows[o][k]
  <1>1. s.key \in Keys /\ rows[o] \in [Keys -> LedgerRows]
    BY DEF Scans, SyncTypeOK
  <1>2. CASE o \in ObjectsOf(s.src)
    BY <1>1, <1>2 DEF Applied
  <1>3. CASE o \notin ObjectsOf(s.src)
    BY <1>3, RowFacts DEF Applied
  <1> QED BY <1>2, <1>3

\* The ledger after a snapshot is well typed, as long as no revision passes
\* the bound.
LEMMA AppliedType ==
  ASSUME SyncTypeOK, NEW s \in Scans,
         \A o \in Objects : Applied(s)[o][s.key].rev <= MaxRevision
  PROVE  Applied(s) \in [Objects -> [Keys -> LedgerRows]]
  <1>1. s.key \in Keys
    BY DEF Scans
  <1>2. ASSUME NEW o \in Objects PROVE Applied(s)[o] \in [Keys -> LedgerRows]
    <2> DEFINE row == rows[o][s.key]
               obs == Observed(s, o)
               new == Applied(s)[o][s.key]
    <2>1. row \in LedgerRows
      BY RowFacts
    <2>2. obs = row \/ obs = [rev |-> row.rev + 1, seen |-> s.view[o], current |-> TRUE]
      BY DEF Observed, NextRevision
    <2>3. /\ obs.rev \in Nat /\ obs.current \in BOOLEAN /\ obs.seen \in Contents \cup {Null}
          /\ obs = [rev |-> obs.rev, seen |-> obs.seen, current |-> obs.current]
      <3>1. CASE obs = row
        BY <2>1, <3>1 DEF LedgerRows
      <3>2. CASE o \in Upserted(s)
        <4>1. s.view[o] \in Contents /\ row.rev \in Nat
          <5>1. s.view[o] \in Contents
            BY <3>2, RowFacts
          <5> QED BY <2>1, <5>1 DEF LedgerRows
        <4>2. obs = [rev |-> row.rev + 1, seen |-> s.view[o], current |-> TRUE]
          BY <3>2 DEF Observed, NextRevision
        <4> HIDE DEF obs, row
        <4> QED BY <4>1, <4>2
      <3> QED BY <3>1, <3>2, RowFacts
    <2>4. new = IF o \in Deleted(s) THEN Tombstoned(s, o) ELSE obs
      BY AppliedRow
    <2>5. new.rev <= MaxRevision
      OBVIOUS
    <2>6. Tombstoned(s, o) = [rev |-> obs.rev + 1, current |-> FALSE,
                              seen |-> IF o \in s.gone THEN obs.seen ELSE Null]
      BY DEF Tombstoned, NextRevision
    <2>7. rows[o] \in [Keys -> LedgerRows]
      BY DEF SyncTypeOK
    <2>8. Applied(s)[o] = rows[o] \/ Applied(s)[o] = [rows[o] EXCEPT ![s.key] = new]
      <3>1. CASE o \in ObjectsOf(s.src)
        BY <2>4, <3>1 DEF Applied
      <3>2. CASE o \notin ObjectsOf(s.src)
        BY <3>2 DEF Applied
      <3> QED BY <3>1, <3>2
    <2> HIDE DEF row, obs, new
    <2>9. new \in LedgerRows
      <3>1. CASE o \in Deleted(s)
        <4>1. new = [rev |-> obs.rev + 1, current |-> FALSE,
                     seen |-> IF o \in s.gone THEN obs.seen ELSE Null]
          BY <2>4, <2>6, <3>1
        <4>2. obs.rev + 1 \in 0..MaxRevision
          BY <2>3, <2>5, <4>1
        <4> QED BY <2>3, <4>1, <4>2 DEF LedgerRows
      <3>2. CASE o \notin Deleted(s)
        <4>1. new = obs
          BY <2>4, <3>2
        <4>2. obs.rev \in 0..MaxRevision
          BY <2>3, <2>5, <4>1
        <4>3. \A r \in 0..MaxRevision, c \in Contents \cup {Null}, b \in BOOLEAN :
                 [rev |-> r, seen |-> c, current |-> b] \in LedgerRows
          BY DEF LedgerRows
        <4> QED BY <2>3, <4>1, <4>2, <4>3
      <3> QED BY <3>1, <3>2
    <2> QED BY <1>1, <2>7, <2>8, <2>9
  <1>3. Applied(s) = [o \in Objects |-> Applied(s)[o]]
    BY DEF Applied
  <1> QED BY <1>2, <1>3

\* The envelopes of an object, and its outbox row at a revision.
Upsert(o, c) == [op |-> "upsert", ref |-> o, content |-> c]
Delete(o) == [op |-> "delete", ref |-> o, content |-> Null]
Entry(o, r, env) == [obj |-> o, rev |-> r, env |-> env]
EnvelopesOf(o) == {Upsert(o, c) : c \in Contents} \cup {Delete(o)}

\* An envelope of an object is one the store knows, and says what it is.
LEMMA EnvelopeFacts ==
  ASSUME SyncAssumption, NEW o \in Objects
  PROVE  /\ EnvelopesOf(o) \subseteq Envelopes
         /\ Delete(o) \in EnvelopesOf(o) /\ \A c \in Contents : Upsert(o, c) \in EnvelopesOf(o)
         /\ Delete(o).op = "delete" /\ Delete(o).ref = o /\ Delete(o).content = Null
         /\ \A c : Upsert(o, c).op = "upsert" /\ Upsert(o, c).ref = o /\ Upsert(o, c).content = c
  BY DEF SyncAssumption, EnvelopesOf, Envelopes, Upsert, Delete

\* The outbox rows of one snapshot, per object.
LEMMA EventFacts ==
  ASSUME SyncAssumption, SyncTypeOK, NEW s \in Scans, NEW o \in Objects,
         Applied(s)[o][s.key].rev <= MaxRevision
  PROVE  /\ o \in Upserted(s) =>
              /\ UpsertEvent(s, o) = Entry(o, rows[o][s.key].rev + 1, Upsert(o, s.view[o]))
              /\ UpsertEvent(s, o) \in OutboxRows
         /\ o \in Deleted(s) =>
              /\ DeleteEvent(s, o) = Entry(o, Observed(s, o).rev + 1, Delete(o))
              /\ DeleteEvent(s, o) \in OutboxRows
  <1> DEFINE row == rows[o][s.key]
             new == Applied(s)[o][s.key]
             obs == Observed(s, o)
  <1>1. /\ row.rev \in Nat
        /\ o \in Upserted(s) => s.view[o] \in Contents /\ obs.rev = row.rev + 1
        /\ o \notin Upserted(s) => obs = row
        /\ Tombstoned(s, o).rev = obs.rev + 1
        /\ new = IF o \in Deleted(s) THEN Tombstoned(s, o) ELSE obs
    <2>1. row.rev \in 0..MaxRevision
      BY RowFacts
    <2>2. row.rev \in Nat
      BY <2>1
    <2>3. o \in Upserted(s) => s.view[o] \in Contents /\ obs.rev = row.rev + 1
      BY RowFacts
    <2>4. (o \notin Upserted(s) => obs = row) /\ Tombstoned(s, o).rev = obs.rev + 1
      BY RowFacts
    <2>5. new = IF o \in Deleted(s) THEN Tombstoned(s, o) ELSE obs
      BY AppliedRow
    <2> HIDE DEF row, new, obs
    <2> QED BY <2>2, <2>3, <2>4, <2>5
  <1>2. new.rev <= MaxRevision
    OBVIOUS
  <1>3. /\ UpsertEvent(s, o) = Entry(o, obs.rev, Upsert(o, s.view[o]))
        /\ DeleteEvent(s, o) = Entry(o, Tombstoned(s, o).rev, Delete(o))
    BY DEF UpsertEvent, DeleteEvent, Entry, Upsert, Delete
  <1>4. \A r \in Revisions, env \in EnvelopesOf(o) : Entry(o, r, env) \in OutboxRows
    BY EnvelopeFacts DEF OutboxRows, Entry
  <1> HIDE DEF row, new, obs
  <1>5. obs.rev \in Nat
    BY <1>1
  <1>6. o \in Upserted(s) => obs.rev \in Revisions /\ Upsert(o, s.view[o]) \in EnvelopesOf(o)
    <2> SUFFICES ASSUME o \in Upserted(s)
                 PROVE  obs.rev \in Revisions /\ Upsert(o, s.view[o]) \in EnvelopesOf(o)
      OBVIOUS
    <2>1. obs.rev <= MaxRevision
      <3>1. new = obs \/ new = Tombstoned(s, o)
        BY <1>1
      <3>2. new.rev = obs.rev \/ new.rev = obs.rev + 1
        BY <1>1, <3>1
      <3> QED BY <1>2, <1>5, <3>2, StoreAssumption
    <2>2. obs.rev \in Revisions
      BY <1>1, <1>5, <2>1 DEF Revisions
    <2> QED BY <1>1, <2>2, EnvelopeFacts
  <1>7. o \in Deleted(s) => obs.rev + 1 \in Revisions
    BY <1>1, <1>2, <1>5 DEF Revisions
  <1>8. Delete(o) \in EnvelopesOf(o)
    BY EnvelopeFacts
  <1>9. o \in Upserted(s) => UpsertEvent(s, o) = Entry(o, row.rev + 1, Upsert(o, s.view[o]))
                             /\ UpsertEvent(s, o) \in OutboxRows
    BY <1>1, <1>3, <1>4, <1>6
  <1>10. o \in Deleted(s) => DeleteEvent(s, o) = Entry(o, obs.rev + 1, Delete(o))
                             /\ DeleteEvent(s, o) \in OutboxRows
    BY <1>1, <1>3, <1>4, <1>7, <1>8
  <1> QED BY <1>9, <1>10 DEF row, obs

\* The outbox rows of a snapshot: one per upserted and one per deleted object,
\* the deletion of an object after its upsert.
LEMMA EnqueuedFacts ==
  ASSUME SyncAssumption, SyncTypeOK, NEW s \in Scans,
         \A o \in Objects : Applied(s)[o][s.key].rev <= MaxRevision,
         NEW q, q = Enqueued(s)
  PROVE  /\ q \in Seq(OutboxRows)
         /\ \A o \in Upserted(s) : \E i \in 1..Len(q) : q[i] = UpsertEvent(s, o)
         /\ \A o \in Deleted(s) : \E i \in 1..Len(q) : q[i] = DeleteEvent(s, o)
         /\ \A i \in 1..Len(q) :
               \/ q[i].obj \in Upserted(s) /\ q[i] = UpsertEvent(s, q[i].obj)
               \/ q[i].obj \in Deleted(s) /\ q[i] = DeleteEvent(s, q[i].obj)
         /\ \A i, j \in 1..Len(q) : i < j /\ q[i].obj = q[j].obj =>
               /\ q[i].obj \in Upserted(s) \cap Deleted(s)
               /\ q[i] = UpsertEvent(s, q[i].obj) /\ q[j] = DeleteEvent(s, q[i].obj)
  <1> DEFINE U == {UpsertEvent(s, o) : o \in Upserted(s)}
             D == {DeleteEvent(s, o) : o \in Deleted(s)}
  <1>1. /\ Upserted(s) \in SUBSET Objects /\ Deleted(s) \in SUBSET Objects
    BY DEF Upserted, Shown, Deleted, ObjectsOf, SyncAssumption
  <1>2. IsFiniteSet(Upserted(s)) /\ IsFiniteSet(Deleted(s))
    <2>1. IsFiniteSet(Objects)
      BY DEF SyncAssumption
    <2> QED BY <1>1, <2>1, FS_Subset
  <1>3. IsFiniteSet(U)
    <2> DEFINE f == [o \in Upserted(s) |-> UpsertEvent(s, o)]
    <2>1. IsFiniteSet({f[o] : o \in Upserted(s)})
      <3>1. DOMAIN f = Upserted(s)
        OBVIOUS
      <3> HIDE DEF f
      <3> QED BY <1>2, <3>1, IndexedFinite
    <2>2. U = {f[o] : o \in Upserted(s)}
      OBVIOUS
    <2> QED BY <2>1, <2>2
  <1>4. IsFiniteSet(D)
    <2> DEFINE f == [o \in Deleted(s) |-> DeleteEvent(s, o)]
    <2>1. IsFiniteSet({f[o] : o \in Deleted(s)})
      <3>1. DOMAIN f = Deleted(s)
        OBVIOUS
      <3> HIDE DEF f
      <3> QED BY <1>2, <3>1, IndexedFinite
    <2>2. D = {f[o] : o \in Deleted(s)}
      OBVIOUS
    <2> QED BY <2>1, <2>2
  <1>5. q = SetToSeq(U) \o SetToSeq(D)
    BY DEF Enqueued
  <1>6. /\ q \in Seq(U \cup D)
        /\ \A x \in U \cup D : \E i \in 1..Len(q) : q[i] = x
        /\ \A i, j \in 1..Len(q) : i < j =>
              \/ q[i] \in U /\ q[j] \in D
              \/ q[i] \in U /\ q[j] \in U /\ q[i] # q[j]
              \/ q[i] \in D /\ q[j] \in D /\ q[i] # q[j]
    <2> HIDE DEF U, D
    <2> QED BY <1>3, <1>4, <1>5, ListedInTurn
  <1>7. \A o \in Upserted(s) : UpsertEvent(s, o).obj = o /\ UpsertEvent(s, o) \in OutboxRows
    BY <1>1, EventFacts DEF UpsertEvent
  <1>8. \A o \in Deleted(s) : DeleteEvent(s, o).obj = o /\ DeleteEvent(s, o) \in OutboxRows
    BY <1>1, EventFacts DEF DeleteEvent
  <1>9. /\ \A x \in U : x.obj \in Upserted(s) /\ x = UpsertEvent(s, x.obj) /\ x \in OutboxRows
        /\ \A x \in D : x.obj \in Deleted(s) /\ x = DeleteEvent(s, x.obj) /\ x \in OutboxRows
        /\ \A o \in Upserted(s) : UpsertEvent(s, o) \in U
        /\ \A o \in Deleted(s) : DeleteEvent(s, o) \in D
    BY <1>7, <1>8
  <1> HIDE DEF U, D
  <1>10. \A i \in 1..Len(q) : q[i] \in U \cup D
    BY <1>6
  <1>11. q \in Seq(OutboxRows)
    BY <1>6, <1>9
  <1>12. ASSUME NEW i \in 1..Len(q), NEW j \in 1..Len(q), i < j, q[i].obj = q[j].obj
         PROVE  /\ q[i].obj \in Upserted(s) \cap Deleted(s)
                /\ q[i] = UpsertEvent(s, q[i].obj) /\ q[j] = DeleteEvent(s, q[i].obj)
    BY <1>6, <1>9, <1>12
  <1> QED BY <1>6, <1>9, <1>10, <1>11, <1>12

-----------------------------------------------------------------------------
(* Types.  The cycle's program counter says how many snapshots are left.   *)

\* The snapshots of a cycle: how many there are, what each source's scan can
\* imply, and that a source is reported only when nothing is left to post.
ScanShape ==
    /\ \A i \in 1..Len(scans) :
          /\ ~Rolling \/ scans[i].src = "daythread" => scans[i].key = 0
          /\ scans[i].src = "calendar" => scans[i].gone = {}
          /\ scans[i].src = "daythread" => ~scans[i].complete
    /\ pc # "idle" => scans # <<>>
    /\ pc = "resolve" => Len(scans) = 2 /\ scans[2].src = "daythread"
    /\ pc = "report" => outbox = <<>>

CollectorInv == SyncTypeOK /\ ScanShape

\* What a reader returns.
LEMMA ScanTypes ==
  ASSUME SyncAssumption, SyncTypeOK, NEW S, NEW ok \in BOOLEAN
  PROVE  /\ CalendarScan(S, ok) \in Scans
         /\ DaythreadScan(ShownOf(S), {}, ok) \in Scans
         /\ ~Rolling => CalendarScan(S, ok).key = 0
         /\ CalendarScan(S, ok).src = "calendar" /\ CalendarScan(S, ok).gone = {}
         /\ DaythreadScan(ShownOf(S), {}, ok).key = 0
         /\ DaythreadScan(ShownOf(S), {}, ok).src = "daythread"
         /\ ~DaythreadScan(ShownOf(S), {}, ok).complete
  <1>1. ShownOf(S) \in Views
    BY DEF ShownOf, Views, SyncTypeOK
  <1>2. CoverageKey \in Keys /\ 0 \in Keys /\ (~Rolling => CoverageKey = 0)
    BY DEF CoverageKey, Keys, SyncAssumption, SyncTypeOK
  <1>3. (ok /\ S = Existing("calendar")) \in BOOLEAN
    OBVIOUS
  <1>4. {} \in SUBSET DaythreadObjects /\ "calendar" \in Sources /\ "daythread" \in Sources
    BY DEF Sources
  <1>5. CalendarScan(S, ok) \in Scans
    BY <1>1, <1>2, <1>3, <1>4 DEF CalendarScan, Scans
  <1>6. DaythreadScan(ShownOf(S), {}, ok) \in Scans
    BY <1>1, <1>2, <1>4 DEF DaythreadScan, Scans
  <1> QED BY <1>2, <1>5, <1>6 DEF CalendarScan, DaythreadScan

\* A fresh ledger.
LEMMA CollectorInit == SyncAssumption /\ SyncInit => CollectorInv
  <1> SUFFICES ASSUME SyncAssumption, SyncInit PROVE CollectorInv
    OBVIOUS
  <1>1. NoRow \in LedgerRows
    BY StoreAssumption DEF NoRow, LedgerRows
  <1>2. SyncTypeOK
    BY <1>1 DEF SyncInit, SyncTypeOK, Views, Keys, SyncAssumption, Sources
  <1>3. ScanShape
    BY DEF SyncInit, ScanShape
  <1> QED BY <1>2, <1>3 DEF CollectorInv

\* Two scans start a cycle.
LEMMA StartTypes ==
  ASSUME SyncAssumption, CollectorInv, StartCycle
  PROVE  CollectorInv'
  <1> USE DEF CollectorInv
  <1>1. /\ batch' = NextBatch /\ cursor' = BatchCursor /\ pc' = "resolve"
        /\ UNCHANGED <<vars, providerVars, rows, outbox, cover>>
    BY DEF StartCycle
  <1>2. PICK a \in Scans, b \in Scans :
           /\ scans' = <<a, b>>
           /\ (~Rolling => a.key = 0) /\ b.key = 0
           /\ a.src = "calendar" /\ a.gone = {} /\ b.src = "daythread" /\ ~b.complete
           /\ UNCHANGED faults \/ Fault
    <2>1. ASSUME NEW S, NEW E, NEW ok1 \in BOOLEAN, NEW ok2 \in BOOLEAN,
                 scans' = <<CalendarScan(S, ok1), DaythreadScan(ShownOf(E), {}, ok2)>>,
                 UNCHANGED faults \/ Fault
          PROVE  \E a \in Scans, b \in Scans :
                    /\ scans' = <<a, b>>
                    /\ (~Rolling => a.key = 0) /\ b.key = 0
                    /\ a.src = "calendar" /\ a.gone = {} /\ b.src = "daythread" /\ ~b.complete
                    /\ UNCHANGED faults \/ Fault
      <3> DEFINE a == CalendarScan(S, ok1)
                 b == DaythreadScan(ShownOf(E), {}, ok2)
      <3>1. /\ a \in Scans /\ (~Rolling => a.key = 0) /\ a.src = "calendar" /\ a.gone = {}
            /\ b \in Scans /\ b.key = 0 /\ b.src = "daythread" /\ ~b.complete
        BY ScanTypes
      <3>2. scans' = <<a, b>>
        BY <2>1
      <3> HIDE DEF a, b
      <3> QED BY <2>1, <3>1, <3>2
    <2>2. PICK S \in SUBSET Existing("calendar"), E \in SUBSET Existing("daythread") :
             \/ /\ scans' = <<CalendarScan(S, TRUE), DaythreadScan(ShownOf(E), {}, TRUE)>>
                /\ UNCHANGED faults
             \/ /\ scans' = <<CalendarScan({}, FALSE), DaythreadScan(ShownOf(E), {}, TRUE)>>
                /\ Fault
             \/ /\ scans' = <<CalendarScan(S, TRUE), DaythreadScan(ShownOf({}), {}, FALSE)>>
                /\ Fault
      BY DEF StartCycle
    <2> QED BY <2>1, <2>2
  <1>3. scans' \in Seq(Scans) /\ Len(scans') = 2 /\ scans' # <<>>
    BY <1>2
  <1>4. batch' \in SUBSET DaythreadObjects
    BY <1>1 DEF NextBatch, KnownIds
  <1>5. cursor' \in DaythreadObjects \cup {0}
    BY <1>1, CursorType DEF SyncTypeOK
  <1>6. faults' \in 0..MaxFaults
    BY <1>2 DEF Fault, SyncTypeOK, SyncAssumption
  <1>7. SyncTypeOK'
    BY <1>1, <1>3, <1>4, <1>5, <1>6 DEF SyncTypeOK, providerVars
  <1>8. \A i \in 1..2 : scans'[i] = a \/ scans'[i] = b
    BY <1>2
  <1>9. ScanShape'
    BY <1>1, <1>2, <1>3, <1>8 DEF ScanShape
  <1> QED BY <1>7, <1>9

\* The resolver's answer completes the daythread snapshot.
LEMMA ResolveTypes ==
  ASSUME SyncAssumption, CollectorInv, Resolve
  PROVE  CollectorInv'
  <1> USE DEF CollectorInv
  <1> DEFINE s == scans[2]
             view == [o \in Objects |-> IF o \in batch /\ world[o] # Null THEN world[o]
                                        ELSE s.view[o]]
             gone == {o \in batch : world[o] = Null}
             full == [s EXCEPT !.view = view, !.gone = gone]
             none == [s EXCEPT !.ok = FALSE]
  <1>1. /\ pc = "resolve" /\ batch' = {} /\ pc' \in {"replay", "failed"}
        /\ UNCHANGED <<vars, providerVars, ledgerVars, cover>>
    BY DEF Resolve
  <1>2. /\ scans' \in {<<scans[1], s>>, <<scans[1], full>>, <<scans[1], none>>}
        /\ UNCHANGED faults \/ Fault
    <2>1. \/ scans' = <<scans[1], IF s.ok THEN full ELSE s>> /\ UNCHANGED faults
          \/ scans' = <<scans[1], none>> /\ s.ok /\ Fault
      BY DEF Resolve
    <2> HIDE DEF s, full, none
    <2> QED BY <2>1
  <1>3. Len(scans) = 2 /\ scans[1] \in Scans /\ s \in Scans /\ s.src = "daythread"
    <2>1. scans \in Seq(Scans)
      BY DEF SyncTypeOK
    <2>2. Len(scans) = 2 /\ scans[2].src = "daythread"
      BY <1>1 DEF ScanShape
    <2>3. scans[1] \in Scans /\ scans[2] \in Scans
      BY <2>1, <2>2
    <2> QED BY <2>2, <2>3
  <1>4. view \in Views /\ gone \in SUBSET DaythreadObjects
    BY <1>3 DEF Views, Scans, SyncTypeOK
  <1>5. /\ ~Rolling \/ scans[1].src = "daythread" => scans[1].key = 0
        /\ s.key = 0
        /\ scans[1].src = "calendar" => scans[1].gone = {}
        /\ scans[1].src = "daythread" => ~scans[1].complete
        /\ ~s.complete
    BY <1>3 DEF ScanShape
  <1> HIDE DEF view, gone
  <1>6. /\ full \in Scans /\ full.src = s.src /\ full.key = s.key /\ full.complete = s.complete
        /\ none \in Scans /\ none.src = s.src /\ none.key = s.key /\ none.complete = s.complete
    BY <1>3, <1>4 DEF Scans
  <1> HIDE DEF s, full, none
  <1>7. PICK b \in Scans : /\ scans' = <<scans[1], b>>
                           /\ b.src = "daythread" /\ b.key = s.key /\ ~b.complete
    BY <1>2, <1>3, <1>5, <1>6
  <1>8. /\ scans' \in Seq(Scans) /\ Len(scans') = 2 /\ scans' # <<>>
        /\ \A i \in 1..2 : scans'[i] = scans[1] \/ scans'[i] = b
    BY <1>3, <1>7
  <1>9. faults' \in 0..MaxFaults
    BY <1>2 DEF Fault, SyncTypeOK, SyncAssumption
  <1>10. SyncTypeOK'
    BY <1>1, <1>8, <1>9 DEF SyncTypeOK, providerVars, ledgerVars
  <1>11. ScanShape'
    BY <1>1, <1>5, <1>7, <1>8 DEF ScanShape
  <1> QED BY <1>10, <1>11

\* The snapshot a source is at.
LEMMA HeadScan ==
  ASSUME CollectorInv, pc # "idle"
  PROVE  /\ Head(scans) \in Scans /\ Head(scans) = scans[1] /\ 1 \in 1..Len(scans)
         /\ Tail(scans) \in Seq(Scans)
         /\ ~Rolling \/ Head(scans).src = "daythread" => Head(scans).key = 0
         /\ Head(scans).src = "calendar" => Head(scans).gone = {}
         /\ Head(scans).src = "daythread" => ~Head(scans).complete
  <1>1. scans \in Seq(Scans) /\ scans # <<>>
    BY DEF CollectorInv, SyncTypeOK, ScanShape
  <1>2. /\ Head(scans) \in Scans /\ Head(scans) = scans[1] /\ 1 \in 1..Len(scans)
        /\ Tail(scans) \in Seq(Scans)
    BY <1>1
  <1> QED BY <1>2 DEF CollectorInv, ScanShape

\* Revisions and outbox rows come from one transaction.
LEMMA ApplyTypes ==
  ASSUME SyncAssumption, CollectorInv, Apply
  PROVE  CollectorInv'
  <1>1. /\ pc = "replay" /\ outbox = <<>>
        /\ \A o \in Objects : Applied(Head(scans))[o][Head(scans).key].rev <= MaxRevision
        /\ rows' = Applied(Head(scans)) /\ outbox' = outbox \o Enqueued(Head(scans))
        /\ pc' = "send"
        /\ UNCHANGED <<vars, providerVars, faults, cursor, batch, scans, cover>>
    BY DEF Apply
  <1>2. Head(scans) \in Scans
    BY <1>1, HeadScan
  <1>3. rows' \in [Objects -> [Keys -> LedgerRows]]
    BY <1>1, <1>2, AppliedType DEF CollectorInv
  <1>4. Enqueued(Head(scans)) \in Seq(OutboxRows)
    BY <1>1, <1>2, EnqueuedFacts DEF CollectorInv
  <1>5. outbox' \in Seq(OutboxRows)
    BY <1>1, <1>4
  <1>6. SyncTypeOK'
    BY <1>1, <1>3, <1>5 DEF CollectorInv, SyncTypeOK, providerVars
  <1>7. ScanShape'
    BY <1>1 DEF CollectorInv, ScanShape
  <1> QED BY <1>6, <1>7 DEF CollectorInv

\* A post leaves the ledger's rows and the snapshots alone.
LEMMA PostTypes ==
  ASSUME SyncAssumption, CollectorInv, Deliver \/ FailPost
  PROVE  CollectorInv'
  <1>1. /\ Draining
        /\ outbox' = outbox \/ outbox' = Tail(outbox)
        /\ faults' = faults \/ (faults < MaxFaults /\ faults' = faults + 1)
        /\ pc' = pc \/ pc' = "failed"
        /\ UNCHANGED <<providerVars, rows, cursor, batch, scans, cover>>
    BY DEF Deliver, FailPost, cycleVars, ledgerVars
  <1>2. outbox' \in Seq(OutboxRows)
    <2>1. outbox \in Seq(OutboxRows) /\ outbox # <<>>
      BY <1>1 DEF Draining, CollectorInv, SyncTypeOK
    <2>2. Tail(outbox) \in Seq(OutboxRows)
      BY <2>1
    <2> QED BY <1>1, <2>1, <2>2
  <1>3. faults' \in 0..MaxFaults
    BY <1>1 DEF CollectorInv, SyncTypeOK, SyncAssumption
  <1>4. SyncTypeOK'
    BY <1>1, <1>2, <1>3 DEF CollectorInv, SyncTypeOK, providerVars
  <1>5. ScanShape'
    BY <1>1 DEF CollectorInv, ScanShape, Draining
  <1> QED BY <1>4, <1>5 DEF CollectorInv

\* The next source of the cycle, or its end.
LEMMA NextSourceTypes ==
  ASSUME SyncAssumption, CollectorInv, pc # "idle", pc # "resolve", NextSource,
         faults' = faults, UNCHANGED <<providerVars, ledgerVars, batch>>,
         cover' \in [Sources -> {"unavailable", "partial", "fresh"}]
  PROVE  CollectorInv'
  <1> USE DEF CollectorInv
  <1>1. scans' = Tail(scans) /\ pc' \in {"idle", "replay", "failed"}
        /\ (Tail(scans) = <<>> => pc' = "idle")
    BY DEF NextSource
  <1>2. scans' \in Seq(Scans)
    BY <1>1, HeadScan
  <1>3. SyncTypeOK'
    BY <1>1, <1>2 DEF SyncTypeOK, providerVars, ledgerVars
  <1>4. \A i \in 1..Len(scans') : i + 1 \in 1..Len(scans) /\ scans'[i] = scans[i + 1]
    <2>1. scans \in Seq(Scans) /\ scans # <<>>
      BY DEF SyncTypeOK, ScanShape
    <2> QED BY <1>1, <2>1
  <1>5. ScanShape'
    BY <1>1, <1>4 DEF ScanShape, ledgerVars
  <1> QED BY <1>3, <1>5

\* Every other step keeps the ledger, and touches the snapshots only to drop
\* them.
LEMMA PlainTypes ==
  ASSUME SyncAssumption, CollectorInv,
         \/ \E o \in Objects, c \in Contents \cup {Null} : Edit(o, c)
         \/ NewDay \/ Drained \/ LoseReport \/ Crash
  PROVE  CollectorInv'
  <1> USE DEF CollectorInv
  <1>1. ASSUME NEW o \in Objects, NEW c \in Contents \cup {Null}, Edit(o, c)
        PROVE  CollectorInv'
    <2>1. world' \in Views /\ changes' \in 0..MaxChanges
      BY <1>1 DEF Edit, SyncTypeOK, Views, SyncAssumption
    <2> QED BY <1>1, <2>1 DEF Edit, SyncTypeOK, ScanShape, ledgerVars, cycleVars
  <1>2. CASE NewDay
    <2>1. day' \in Keys
      BY <1>2 DEF NewDay, SyncTypeOK, Keys, SyncAssumption
    <2> QED BY <1>2, <2>1 DEF NewDay, SyncTypeOK, ScanShape, ledgerVars, cycleVars
  <1>3. CASE Drained
    BY <1>3 DEF Drained, DrainDone, SyncTypeOK, ScanShape, ledgerVars, providerVars
  <1>4. CASE LoseReport
    <2>1. faults' \in 0..MaxFaults
      BY <1>4 DEF LoseReport, Fault, SyncTypeOK, SyncAssumption
    <2>2. cover' \in [Sources -> {"unavailable", "partial", "fresh"}]
      BY <1>4 DEF LoseReport, Covers, SyncTypeOK
    <2> QED BY <1>4, <2>1, <2>2 DEF LoseReport, SyncTypeOK, ScanShape, ledgerVars, providerVars
  <1>5. CASE Crash
    <2>1. faults' \in 0..MaxFaults
      BY <1>5 DEF Crash, Fault, SyncTypeOK, SyncAssumption
    <2> QED BY <1>5, <2>1 DEF Crash, SyncTypeOK, ScanShape, ledgerVars, providerVars
  <1> QED BY <1>1, <1>2, <1>3, <1>4, <1>5

\* Every step of the collector.
LEMMA CollectorNext == SyncAssumption /\ CollectorInv /\ [SyncNext]_syncVars => CollectorInv'
  <1> SUFFICES ASSUME SyncAssumption, CollectorInv, [SyncNext]_syncVars PROVE CollectorInv'
    OBVIOUS
  <1>1. CASE ReportCoverage
    <2>1. cover' \in [Sources -> {"unavailable", "partial", "fresh"}]
      BY <1>1 DEF ReportCoverage, Covers, CollectorInv, SyncTypeOK
    <2> QED BY <1>1, <2>1, NextSourceTypes DEF ReportCoverage
  <1>2. CASE ReportFailure
    <2>1. cover' \in [Sources -> {"unavailable", "partial", "fresh"}]
      BY <1>2 DEF ReportFailure, Covers, CollectorInv, SyncTypeOK
    <2> QED BY <1>2, <2>1, NextSourceTypes DEF ReportFailure
  <1>3. CASE LoseFailure
    <2>1. cover' \in [Sources -> {"unavailable", "partial", "fresh"}]
      BY <1>3 DEF LoseFailure, CollectorInv, SyncTypeOK
    <2> QED BY <1>3, <2>1, NextSourceTypes DEF LoseFailure
  <1>4. CASE UNCHANGED syncVars
    BY <1>4 DEF syncVars, CollectorInv, SyncTypeOK, ScanShape
  <1> QED BY <1>1, <1>2, <1>3, <1>4, StartTypes, ResolveTypes, ApplyTypes, PostTypes, PlainTypes
          DEF SyncNext

\* Types and the shape of a cycle, from the first state on.
LEMMA CollectorInvariance == SyncSpec => []CollectorInv
  BY CollectorInit, CollectorNext, SyncAssumption, PTL DEF SyncSpec

\* The cycle, the ledger and the outbox stay well formed, for any number of
\* objects, faults and cycles, a batch of any size, and a rolling window too:
\* the rotation always has a next id, and no assigned revision passes the bound.
THEOREM CollectorTypeCorrect == SyncSpec => []SyncTypeOK
  <1>1. CollectorInv => SyncTypeOK
    BY DEF CollectorInv
  <1> QED BY <1>1, CollectorInvariance, PTL

\* The collector only ever uses the store through its own operations: every
\* step of a cycle is a step of the store, or leaves it alone.
LEMMA StoreStep == CollectorInv /\ [SyncNext]_syncVars => [Next]_vars
  <1> SUFFICES ASSUME CollectorInv, [SyncNext]_syncVars PROVE Next \/ UNCHANGED vars
    OBVIOUS
  <1>1. CASE Deliver \/ FailPost
    <2>1. outbox # <<>> /\ (StoreIngests(Head(outbox)) \/ UNCHANGED vars)
      BY <1>1 DEF Deliver, FailPost, Draining
    <2>2. Head(outbox) \in OutboxRows
      BY <2>1 DEF CollectorInv, SyncTypeOK
    <2> DEFINE e == Head(outbox)
    <2>3. e.obj \in Objects /\ e.rev \in Revisions /\ e.env \in Envelopes
      BY <2>2 DEF OutboxRows
    <2>4. Ingest(e.obj, e.rev, e.env) \/ UNCHANGED vars
      BY <2>1 DEF StoreIngests
    <2> HIDE DEF e
    <2> QED BY <2>3, <2>4 DEF Next
  <1>2. CASE UNCHANGED syncVars
    BY <1>2 DEF syncVars
  <1>3. CASE SyncNext /\ ~(Deliver \/ FailPost)
    BY <1>3 DEF SyncNext, Edit, NewDay, StartCycle, Resolve, Apply, Drained, ReportCoverage,
                LoseReport, ReportFailure, LoseFailure, Crash
  <1> QED BY <1>1, <1>2, <1>3

\* SourceSync is a use of ContextStore: all that is proved of the store holds
\* of it behind the collector.
THEOREM CollectorUsesStore == SyncSpec => Spec
  <1>1. SyncInit => Init
    BY DEF SyncInit
  <1> QED BY <1>1, StoreStep, CollectorInvariance, PTL DEF SyncSpec, Spec


-----------------------------------------------------------------------------
(* The collector and the store agree about every object whose coverage key *)
(* stays the same.  With a rolling window (Rolling) the ledger starts a    *)
(* calendar object again at revision 1 every day, and none of this holds   *)
(* of it; daythread's rows have key 0 all the same.                        *)

\* The objects whose rows have coverage key 0 for ever.
Steady == IF Rolling THEN DaythreadObjects ELSE Objects

\* They are objects, and all of them when the window is fixed.
LEMMA SteadyFacts ==
  ASSUME SyncAssumption
  PROVE  /\ Steady \subseteq Objects /\ DaythreadObjects \subseteq Steady
         /\ ~Rolling => Steady = Objects
  BY DEF Steady, SyncAssumption

\* The store has admitted this envelope as revision r of o.
Journalled(o, r, env) ==
    /\ r <= current[o].rev
    /\ events[o][r].op = env.op /\ events[o][r].ref = env.ref
    /\ events[o][r].content = env.content

Queued(e) == \E i \in 1..Len(outbox) : outbox[i] = e

\* The ledger has assigned revision r to this envelope, posted or not.
Said(o, r, env) == Journalled(o, r, env) \/ Queued(Entry(o, r, env))

\* Behind the collector the journal has no gaps and no late rows: what it
\* holds are the revisions up to the current one, each with an envelope of
\* its object.
StoreShape ==
    \A o \in Steady :
        /\ \A r \in Revisions :
              /\ r <= current[o].rev =>
                    events[o][r].status = "accepted" /\ \E env \in EnvelopesOf(o) : Journalled(o, r, env)
              /\ r > current[o].rev => events[o][r].status = "none"
        /\ floor[o] <= current[o].rev
        /\ current[o].rev = 0 => current[o].op = "none"
        /\ current[o].rev > 0 => current[o].op = events[o][current[o].rev].op
        /\ current[o].op = "upsert" => current[o].payload = events[o][current[o].rev].content

\* The revisions of an object are queued in their order.
Ascending ==
    \A i, j \in 1..Len(outbox) :
        i < j /\ outbox[i].obj = outbox[j].obj /\ outbox[i].obj \in Steady =>
            outbox[i].rev < outbox[j].rev

\* A queued row is ahead of the store; only the first may have been admitted
\* already, its answer lost.
Ahead ==
    \A i \in 1..Len(outbox) : outbox[i].obj \in Steady =>
        /\ outbox[i].env \in EnvelopesOf(outbox[i].obj)
        /\ outbox[i].rev <= rows[outbox[i].obj][0].rev
        /\ \/ outbox[i].rev > current[outbox[i].obj].rev
           \/ /\ i = 1
              /\ outbox[i].rev = current[outbox[i].obj].rev
              /\ Journalled(outbox[i].obj, outbox[i].rev, outbox[i].env)

\* What the ledger has assigned and the store has not admitted is queued.
NothingSkipped ==
    \A o \in Steady :
        /\ current[o].rev <= rows[o][0].rev
        /\ \A r \in Revisions : current[o].rev < r /\ r <= rows[o][0].rev =>
              \E i \in 1..Len(outbox) : outbox[i].obj = o /\ outbox[i].rev = r

\* The ledger's row of an object says what its last revision was; for
\* daythread a tombstone also keeps the version that it withdrew.
RowSaid(o, row) ==
    /\ row.rev = 0 => ~row.current
    /\ row.current => row.seen \in Contents /\ Said(o, row.rev, Upsert(o, row.seen))
    /\ row.rev > 0 /\ ~row.current =>
          /\ Said(o, row.rev, Delete(o))
          /\ o \in DaythreadObjects =>
                /\ row.rev > 1 /\ row.seen \in Contents
                /\ Said(o, row.rev - 1, Upsert(o, row.seen))

LedgerShape == \A o \in Steady : \A row \in LedgerRows : row = rows[o][0] => RowSaid(o, row)

\* A deletion of a daythread object follows an upsert of it, and the next
\* revision, if there is one, brings another version.
NeverRepeated ==
    \A o \in DaythreadObjects, r \in Revisions : Said(o, r, Delete(o)) =>
        /\ r > 1
        /\ \E c \in Contents : Said(o, r - 1, Upsert(o, c))
        /\ \A c \in Contents : r < MaxRevision /\ Said(o, r - 1, Upsert(o, c)) =>
              ~Said(o, r + 1, Upsert(o, c))

\* After the snapshot was applied, the ledger agrees with it.
ScanApplied ==
    pc \in {"send", "report"} =>
        \A o \in ObjectsOf(Head(scans).src) \cap Steady :
            /\ o \in Shown(Head(scans)) \ Head(scans).gone =>
                  /\ rows[o][0].rev > 0 /\ rows[o][0].seen = Head(scans).view[o]
                  /\ rows[o][0].current \/ Head(scans).src = "daythread"
            /\ o \in Head(scans).gone \/ (Head(scans).complete /\ o \notin Shown(Head(scans))) =>
                  ~rows[o][0].current

\* The journal and the outbox.
PostInv == CollectorInv /\ TypeOK /\ StoreShape /\ Ascending /\ Ahead /\ NothingSkipped

AgreementInv == PostInv /\ LedgerShape /\ NeverRepeated /\ ScanApplied

-----------------------------------------------------------------------------
(* One post.                                                               *)

\* The revisions of an object are numbers.
LEMMA RevisionTypes ==
  ASSUME StoreAssumption, SyncAssumption, CollectorInv, TypeOK, NEW o \in Objects
  PROVE  /\ current[o] \in CurrentRows /\ current[o].rev \in Nat /\ current[o].rev <= MaxRevision
         /\ current[o].op \in {"none", "upsert", "delete"}
         /\ floor[o] \in Nat /\ floor[o] <= MaxRevision
         /\ rows[o][0] \in LedgerRows /\ rows[o][0].rev \in Nat /\ rows[o][0].rev <= MaxRevision
         /\ rows[o][0].seen \in Contents \cup {Null} /\ rows[o][0].current \in BOOLEAN
  <1>1. 0 \in Keys
    BY DEF Keys, SyncAssumption
  <1>2. rows[o][0] \in LedgerRows
    BY <1>1 DEF CollectorInv, SyncTypeOK
  <1>3. current[o] \in CurrentRows /\ floor[o] \in 0..MaxRevision
    BY DEF TypeOK
  <1>4. current[o].rev \in 0..MaxRevision /\ current[o].op \in {"none", "upsert", "delete"}
    BY <1>3 DEF CurrentRows
  <1>5. /\ rows[o][0].rev \in 0..MaxRevision
        /\ rows[o][0].seen \in Contents \cup {Null} /\ rows[o][0].current \in BOOLEAN
    BY <1>2 DEF LedgerRows
  <1> QED BY <1>2, <1>3, <1>4, <1>5

\* The first row of the outbox.
LEMMA HeadRow ==
  ASSUME StoreAssumption, SyncAssumption, CollectorInv, outbox # <<>>, NEW e, e = Head(outbox)
  PROVE  /\ e = outbox[1] /\ 1 \in 1..Len(outbox)
         /\ e.obj \in Objects /\ e.rev \in Revisions /\ e.env \in Envelopes
         /\ e = Entry(e.obj, e.rev, e.env)
  <1>1. outbox \in Seq(OutboxRows)
    BY DEF CollectorInv, SyncTypeOK
  <1>2. e = outbox[1] /\ 1 \in 1..Len(outbox) /\ e \in OutboxRows
    BY <1>1
  <1> QED BY <1>2 DEF OutboxRows, Entry

\* The first row of the outbox is the next revision of its object, or the
\* one that the store admitted last.
LEMMA HeadFacts ==
  ASSUME StoreAssumption, SyncAssumption, PostInv, outbox # <<>>, NEW e, e = Head(outbox),
         e.obj \in Steady
  PROVE  /\ e = outbox[1] /\ 1 \in 1..Len(outbox)
         /\ e.obj \in Objects /\ e.rev \in Revisions /\ e.env \in EnvelopesOf(e.obj)
         /\ e = Entry(e.obj, e.rev, e.env)
         /\ \/ Outcome(e) = "accepted" /\ e.rev = current[e.obj].rev + 1
            \/ /\ Outcome(e) = "duplicate" /\ e.rev = current[e.obj].rev
               /\ Journalled(e.obj, e.rev, e.env)
  <1> USE DEF PostInv
  <1>2. e = outbox[1] /\ 1 \in 1..Len(outbox)
    BY HeadRow
  <1>3. e.obj \in Objects /\ e.rev \in Revisions /\ e = Entry(e.obj, e.rev, e.env)
    BY HeadRow
  <1>4. /\ e.env \in EnvelopesOf(e.obj) /\ e.rev <= rows[e.obj][0].rev
        /\ \/ e.rev > current[e.obj].rev
           \/ e.rev = current[e.obj].rev /\ Journalled(e.obj, e.rev, e.env)
    BY <1>2 DEF Ahead
  <1>5. /\ current[e.obj].rev \in Nat /\ floor[e.obj] \in Nat /\ e.rev \in Nat /\ e.rev > 0
        /\ floor[e.obj] <= current[e.obj].rev
    <2>1. current[e.obj].rev \in Nat /\ floor[e.obj] \in Nat
      BY <1>3, RevisionTypes
    <2>2. floor[e.obj] <= current[e.obj].rev
      BY <1>3 DEF StoreShape
    <2>3. e.rev \in Nat /\ e.rev > 0
      BY <1>3 DEF Revisions
    <2> QED BY <2>1, <2>2, <2>3
  <1>6. CASE e.rev > current[e.obj].rev
    <2>1. events[e.obj][e.rev].status = "none"
      BY <1>3, <1>6 DEF StoreShape
    <2>2. ~IsStale(e.obj, e.rev)
      BY <1>5, <1>6 DEF IsStale
    <2>3. Outcome(e) = "accepted"
      BY <2>1, <2>2 DEF Outcome, IngestOutcome
    <2>4. e.rev = current[e.obj].rev + 1
      <3> SUFFICES ASSUME e.rev # current[e.obj].rev + 1 PROVE FALSE
        OBVIOUS
      <3> DEFINE r == current[e.obj].rev + 1
      <3>1. r \in Nat /\ current[e.obj].rev < r /\ r < e.rev
        BY <1>5, <1>6
      <3>2. rows[e.obj][0].rev \in Nat
        BY <1>3, RevisionTypes
      <3>3. r \in Revisions /\ r <= rows[e.obj][0].rev
        BY <1>3, <1>4, <1>5, <3>1, <3>2 DEF Revisions
      <3>4. PICK i \in 1..Len(outbox) : outbox[i].obj = e.obj /\ outbox[i].rev = r
        BY <1>3, <3>1, <3>3 DEF NothingSkipped
      <3>5. i = 1 \/ 1 < i
        OBVIOUS
      <3>6. i # 1
        BY <1>2, <3>1, <3>4
      <3>7. e.rev < r
        BY <1>2, <3>4, <3>5, <3>6 DEF Ascending
      <3> QED BY <1>5, <3>1, <3>7
    <2> QED BY <1>2, <1>3, <1>4, <2>3, <2>4
  <1>7. CASE e.rev = current[e.obj].rev /\ Journalled(e.obj, e.rev, e.env)
    <2>1. events[e.obj][e.rev].status = "accepted"
      <3>1. e.rev <= current[e.obj].rev
        BY <1>5, <1>7
      <3> QED BY <1>3, <3>1 DEF StoreShape
    <2>2. Outcome(e) = "duplicate"
      BY <1>7, <2>1 DEF Outcome, IngestOutcome, Journalled
    <2> QED BY <1>2, <1>3, <1>4, <1>7, <2>2
  <1> QED BY <1>4, <1>6, <1>7

\* Two journal rows record the same envelope in the same way.
SameRecord(a, b) ==
    a.status = b.status /\ a.op = b.op /\ a.ref = b.ref /\ a.content = b.content

\* What the journal then records for a posted row.
Records(a, env) ==
    a.status = "accepted" /\ a.op = env.op /\ a.ref = env.ref /\ a.content = env.content

\* After a post the row is the current revision of its object, and the journal
\* records its envelope; everything else is as it was.
LEMMA PostFacts ==
  ASSUME StoreAssumption, SyncAssumption, PostInv, outbox # <<>>,
         NEW e, e = Head(outbox), StoreIngests(e), e.obj \in Steady
  PROVE  /\ current'[e.obj].rev = e.rev /\ current'[e.obj].op = e.env.op
         /\ e.env.op = "upsert" => current'[e.obj].payload = e.env.content
         /\ floor'[e.obj] <= e.rev
         /\ \A p \in Objects : p # e.obj => current'[p] = current[p] /\ floor'[p] = floor[p]
         /\ Records(events'[e.obj][e.rev], e.env)
         /\ \A p \in Objects, r \in Revisions :
               ~(p = e.obj /\ r = e.rev) => SameRecord(events'[p][r], events[p][r])
  <1> DEFINE o == e.obj
             n == e.rev
             row == StoredRow(o, n, e.env, "accepted")
  <1>1. /\ o \in Objects /\ n \in Revisions /\ e.env \in EnvelopesOf(o)
        /\ \/ Outcome(e) = "accepted" /\ n = current[o].rev + 1
           \/ Outcome(e) = "duplicate" /\ n = current[o].rev /\ Journalled(o, n, e.env)
    BY HeadFacts
  <1>2. e.env \in Envelopes /\ n \in Nat /\ n > 0
    <2>1. e.env \in Envelopes
      BY <1>1, EnvelopeFacts
    <2>2. n \in Nat /\ n > 0
      BY <1>1 DEF Revisions
    <2> QED BY <2>1, <2>2
  <1>3. /\ current \in [Objects -> CurrentRows] /\ floor \in [Objects -> 0..MaxRevision]
        /\ events \in [Objects -> [Revisions -> EventRows]]
    BY DEF PostInv, TypeOK
  <1>4. /\ row \in EventRows /\ row.status = "accepted" /\ row.op = e.env.op
        /\ row.ref = e.env.ref /\ row.content = e.env.content
        /\ e.env.op = "upsert" /\ ContentAllowed(o, n) => row.payload = e.env.content
    BY <1>2, StoredRowFacts
  <1>5. floor[o] \in Nat /\ current[o].rev \in Nat /\ floor[o] <= current[o].rev
    BY <1>1, RevisionTypes DEF PostInv, StoreShape
  <1>6. CASE Outcome(e) = "duplicate" /\ n = current[o].rev /\ Journalled(o, n, e.env)
    <2>1. UNCHANGED vars
      BY <1>6 DEF StoreIngests, Outcome, Ingest, IngestStale, IngestUpsert, IngestDelete
    <2>2. UNCHANGED <<current, events, floor>>
      BY <2>1 DEF vars
    <2>3. Records(events[o][n], e.env)
      <3>1. events[o][n].status = "accepted"
        <4>1. n <= current[o].rev
          BY <1>2, <1>6
        <4> QED BY <1>1, <4>1 DEF PostInv, StoreShape
      <3> QED BY <1>6, <3>1 DEF Journalled, Records
    <2>4. current[o].op = e.env.op /\ (e.env.op = "upsert" => current[o].payload = e.env.content)
      <3>1. current[o].rev > 0
        BY <1>2, <1>6
      <3>2. current[o].op = events[o][n].op
        BY <1>1, <1>6, <3>1 DEF PostInv, StoreShape
      <3>3. current[o].op = "upsert" => current[o].payload = events[o][n].content
        BY <1>1, <1>6 DEF PostInv, StoreShape
      <3> QED BY <2>3, <3>2, <3>3 DEF Records
    <2> QED BY <1>5, <1>6, <2>2, <2>3, <2>4 DEF SameRecord
  <1>7. CASE Outcome(e) = "accepted" /\ n = current[o].rev + 1
    <2>1. IngestUpsert(o, n, e.env) \/ IngestDelete(o, n, e.env)
      BY <1>7 DEF StoreIngests, Outcome, Ingest, IngestStale
    <2>2. ContentAllowed(o, n)
      <3>1. ~IsStale(o, n)
        BY <1>7 DEF Outcome, IngestOutcome
      <3> QED BY <1>5, <1>7, <3>1 DEF ContentAllowed
    <2>3. /\ WithEvent(o, n, row) \in [Objects -> [Revisions -> EventRows]]
          /\ \A p \in Objects, r \in Revisions :
                WithEvent(o, n, row)[p][r] = IF p = o /\ r = n THEN row ELSE events[p][r]
      <3>1. o \in Objects /\ n \in Revisions /\ row \in EventRows
        BY <1>1, <1>4
      <3> HIDE DEF o, n, row
      <3> QED BY <1>3, <3>1, WithEventFacts
    <2> DEFINE journal == WithEvent(o, n, row)
    <2>4. /\ Records(journal[o][n], e.env)
          /\ \A p \in Objects, r \in Revisions :
                ~(p = o /\ r = n) => SameRecord(journal[p][r], events[p][r])
      BY <1>1, <1>4, <2>3 DEF Records, SameRecord
    <2>5. CASE IngestUpsert(o, n, e.env)
      <3>1. /\ e.env.op = "upsert" /\ events' = journal /\ floor' = floor
            /\ current' = [current EXCEPT ![o] = [rev |-> n, op |-> "upsert", ref |-> e.env.ref,
                                                  payload |-> row.payload]]
        BY <2>5 DEF IngestUpsert
      <3> HIDE DEF journal, row
      <3>2. /\ current'[o].rev = n /\ current'[o].op = "upsert" /\ current'[o].payload = row.payload
            /\ \A p \in Objects : p # o => current'[p] = current[p]
        BY <1>1, <1>3, <3>1
      <3> HIDE DEF o, n
      <3>3. floor'[o] <= n
        BY <1>2, <1>5, <1>7, <3>1
      <3>4. row.payload = e.env.content
        BY <1>4, <2>2, <3>1
      <3> QED BY <2>4, <3>1, <3>2, <3>3, <3>4 DEF o, n
    <2>6. CASE IngestDelete(o, n, e.env)
      <3>1. /\ e.env.op = "delete"
            /\ events' = [journal EXCEPT ![o] = [r \in Revisions |-> Scrubbed(journal[o][r])]]
            /\ floor' = [floor EXCEPT ![o] = Larger(floor[o], n)]
            /\ current' = [current EXCEPT ![o] = [rev |-> n, op |-> "delete", ref |-> e.env.ref,
                                                  payload |-> Null]]
        BY <2>6 DEF IngestDelete
      <3> HIDE DEF journal, row
      <3>2. /\ current'[o].rev = n /\ current'[o].op = "delete"
            /\ \A p \in Objects : p # o => current'[p] = current[p] /\ floor'[p] = floor[p]
        BY <1>1, <1>3, <3>1
      <3>3. floor'[o] <= n
        <4>1. floor'[o] = Larger(floor[o], n)
          BY <1>1, <1>3, <3>1
        <4> HIDE DEF o, n
        <4> QED BY <1>2, <1>5, <1>7, <4>1 DEF Larger
      <3>4. /\ \A r \in Revisions : events'[o][r] = Scrubbed(journal[o][r])
            /\ \A p \in Objects : p # o => events'[p] = journal[p]
        BY <1>1, <2>3, <3>1 DEF journal
      <3>5. \A r \in Revisions : journal[o][r] \in EventRows
        <4>1. \A f \in [Objects -> [Revisions -> EventRows]], r \in Revisions : f[o][r] \in EventRows
          BY <1>1
        <4>2. journal \in [Objects -> [Revisions -> EventRows]]
          BY <2>3 DEF journal
        <4> QED BY <4>1, <4>2
      <3>6. \A r \in Revisions : SameRecord(events'[o][r], journal[o][r])
        BY <3>4, <3>5, ScrubbedFacts DEF SameRecord
      <3> HIDE DEF o, n
      <3>7. Records(events'[o][n], e.env)
        BY <1>1, <2>4, <3>6 DEF Records, SameRecord
      <3>8. ASSUME NEW p \in Objects, NEW r \in Revisions, ~(p = o /\ r = n)
            PROVE  SameRecord(events'[p][r], events[p][r])
        BY <2>4, <3>4, <3>6, <3>8 DEF SameRecord
      <3> QED BY <3>1, <3>2, <3>3, <3>7, <3>8 DEF o, n
    <2> QED BY <2>1, <2>5, <2>6
  <1> QED BY <1>1, <1>6, <1>7

\* A post of one object leaves the other objects alone.
LEMMA PostElsewhere ==
  ASSUME StoreAssumption, SyncAssumption, PostInv, outbox # <<>>,
         NEW e, e = Head(outbox), StoreIngests(e), NEW p \in Objects, p # e.obj
  PROVE  /\ current'[p] = current[p] /\ floor'[p] = floor[p]
         /\ \A r \in Revisions : events'[p][r] = events[p][r]
  <1>1. /\ current \in [Objects -> CurrentRows] /\ floor \in [Objects -> 0..MaxRevision]
        /\ events \in [Objects -> [Revisions -> EventRows]]
    BY DEF PostInv, TypeOK
  <1>2. e.obj \in Objects /\ e.rev \in Revisions
    BY HeadRow DEF PostInv
  <1>3. \A row : WithEvent(e.obj, e.rev, row)[p] = events[p]
    BY <1>1, <1>2 DEF WithEvent
  <1>4. CASE IngestStale(e.obj, e.rev, e.env)
    BY <1>3, <1>4 DEF IngestStale
  <1>5. CASE IngestUpsert(e.obj, e.rev, e.env)
    <2>1. PICK row, new : /\ events' = WithEvent(e.obj, e.rev, row) /\ floor' = floor
                          /\ current' = [current EXCEPT ![e.obj] = new]
      BY <1>5 DEF IngestUpsert
    <2> QED BY <1>1, <1>2, <1>3, <2>1
  <1>6. CASE IngestDelete(e.obj, e.rev, e.env)
    <2>1. PICK row, journal, erased, new, low :
             /\ journal = WithEvent(e.obj, e.rev, row)
             /\ events' = [journal EXCEPT ![e.obj] = erased]
             /\ floor' = [floor EXCEPT ![e.obj] = low]
             /\ current' = [current EXCEPT ![e.obj] = new]
      BY <1>6 DEF IngestDelete
    <2>2. journal[p] = events[p]
      BY <1>3, <2>1
    <2>3. DOMAIN journal = Objects
      BY <1>1, <2>1 DEF WithEvent
    <2> QED BY <1>1, <1>2, <2>1, <2>2, <2>3
  <1>7. CASE UNCHANGED vars
    BY <1>7 DEF vars
  <1> QED BY <1>4, <1>5, <1>6, <1>7 DEF StoreIngests, Ingest

\* A post adds the first row of the outbox to the journal, if it is not there.
LEMMA PostJournals ==
  ASSUME StoreAssumption, SyncAssumption, PostInv, outbox # <<>>,
         NEW e, e = Head(outbox), StoreIngests(e),
         NEW p \in Steady, NEW r \in Revisions, NEW env \in EnvelopesOf(p)
  PROVE  Journalled(p, r, env)' <=> Journalled(p, r, env) \/ Entry(p, r, env) = e
  <1>0. p \in Objects /\ e.obj \in Objects /\ e = Entry(e.obj, e.rev, e.env)
    BY HeadRow, SteadyFacts DEF PostInv
  <1>1. p = e.obj =>
           /\ e.rev \in Revisions /\ e.env \in EnvelopesOf(p)
           /\ \/ e.rev = current[p].rev + 1
              \/ e.rev = current[p].rev /\ Journalled(p, e.rev, e.env)
    BY HeadFacts
  <1>2. p = e.obj =>
           /\ current'[p].rev = e.rev /\ Records(events'[p][e.rev], e.env)
           /\ r # e.rev => SameRecord(events'[p][r], events[p][r])
    BY <1>0, PostFacts
  <1>3. Entry(p, r, env) = e <=> p = e.obj /\ r = e.rev /\ env = e.env
    BY <1>0 DEF Entry
  <1>4. current[p].rev \in Nat /\ r \in Nat /\ (p = e.obj => e.rev \in Nat)
    <2>1. r \in Nat /\ (p = e.obj => e.rev \in Nat)
      BY <1>1 DEF Revisions
    <2> QED BY <1>0, <2>1, RevisionTypes DEF PostInv
  <1>5. CASE p = e.obj /\ r = e.rev
    <2>1. env = e.env <=> env.op = e.env.op /\ env.ref = e.env.ref /\ env.content = e.env.content
      <3>1. e.env \in Envelopes /\ env \in Envelopes
        BY <1>0, <1>1, <1>5, EnvelopeFacts
      <3>2. \A a, b \in Envelopes : a.op = b.op /\ a.ref = b.ref /\ a.content = b.content => a = b
        BY DEF Envelopes
      <3> QED BY <3>1, <3>2
    <2>2. Journalled(p, r, env)' <=> env = e.env
      BY <1>2, <1>4, <1>5, <2>1 DEF Journalled, Records
    <2>3. Journalled(p, r, env) => env = e.env
      BY <1>1, <1>4, <1>5, <2>1 DEF Journalled
    <2> QED BY <1>3, <1>5, <2>2, <2>3
  <1>6. CASE p = e.obj /\ r # e.rev
    <2>1. r <= e.rev <=> r <= current[p].rev
      BY <1>1, <1>4, <1>6
    <2> QED BY <1>2, <1>3, <1>6, <2>1 DEF Journalled, SameRecord
  <1>7. CASE p # e.obj
    <2>1. current'[p] = current[p] /\ events'[p][r] = events[p][r]
      BY <1>0, <1>7, PostElsewhere
    <2> QED BY <1>3, <1>7, <2>1 DEF Journalled
  <1> QED BY <1>5, <1>6, <1>7

\* The outbox after a post: all of it, or all but its first row.
LEMMA Shifted ==
  ASSUME CollectorInv, outbox # <<>>, outbox' = outbox \/ outbox' = Tail(outbox)
  PROVE  \E d \in {0, 1} :
            /\ \A i \in 1..Len(outbox') : i + d \in 1..Len(outbox) /\ outbox'[i] = outbox[i + d]
            /\ \A j \in 1..Len(outbox) : j > 1 \/ d = 0 =>
                  j - d \in 1..Len(outbox') /\ outbox'[j - d] = outbox[j]
  <1>1. outbox \in Seq(OutboxRows) /\ Len(outbox) \in Nat /\ Len(outbox) > 0
    BY DEF CollectorInv, SyncTypeOK
  <1>2. CASE outbox' = outbox
    <2>1. /\ \A i \in 1..Len(outbox') : i + 0 \in 1..Len(outbox) /\ outbox'[i] = outbox[i + 0]
          /\ \A j \in 1..Len(outbox) : j > 1 \/ 0 = 0 =>
                  j - 0 \in 1..Len(outbox') /\ outbox'[j - 0] = outbox[j]
      BY <1>1, <1>2
    <2> QED BY <2>1
  <1>3. CASE outbox' = Tail(outbox)
    <2>1. /\ Len(outbox') = Len(outbox) - 1
          /\ \A i \in 1..Len(outbox') : outbox'[i] = outbox[i + 1]
      BY <1>1, <1>3
    <2>2. \A i \in 1..Len(outbox') : i + 1 \in 1..Len(outbox)
      BY <1>1, <2>1
    <2>3. \A j \in 1..Len(outbox) : j > 1 =>
                  j - 1 \in 1..Len(outbox') /\ j = (j - 1) + 1
      BY <1>1, <2>1
    <2>4. \A j \in 1..Len(outbox) : j > 1 \/ 1 = 0 =>
                  j - 1 \in 1..Len(outbox') /\ outbox'[j - 1] = outbox[j]
      BY <2>1, <2>3
    <2> QED BY <2>1, <2>2, <2>4
  <1> QED BY <1>2, <1>3

\* A post neither adds to nor takes from what the ledger has said.
LEMMA PostSays ==
  ASSUME StoreAssumption, SyncAssumption, PostInv, outbox # <<>>, StoreIngests(Head(outbox)),
         outbox' = outbox \/ outbox' = Tail(outbox),
         NEW p \in Steady, NEW r \in Revisions, NEW env \in EnvelopesOf(p)
  PROVE  Said(p, r, env)' <=> Said(p, r, env)
  <1> DEFINE e == Head(outbox)
             x == Entry(p, r, env)
  <1>1. Journalled(p, r, env)' <=> Journalled(p, r, env) \/ x = e
    BY PostJournals
  <1>2. e = outbox[1] /\ 1 \in 1..Len(outbox)
    BY HeadRow DEF PostInv
  <1>3. PICK d \in {0, 1} :
           /\ \A i \in 1..Len(outbox') : i + d \in 1..Len(outbox) /\ outbox'[i] = outbox[i + d]
           /\ \A j \in 1..Len(outbox) : j > 1 \/ d = 0 =>
                  j - d \in 1..Len(outbox') /\ outbox'[j - d] = outbox[j]
    BY Shifted DEF PostInv
  <1> HIDE DEF e, x
  <1>4. Queued(x) <=> x = e \/ \E i \in 1..Len(outbox') : outbox'[i] = x
    <2>1. ASSUME NEW i \in 1..Len(outbox'), outbox'[i] = x PROVE Queued(x)
      BY <1>3, <2>1 DEF Queued
    <2>2. ASSUME NEW j \in 1..Len(outbox), outbox[j] = x, x # e
          PROVE  \E i \in 1..Len(outbox') : outbox'[i] = x
      <3>1. j > 1
        BY <1>2, <2>2
      <3> QED BY <1>3, <2>2, <3>1
    <2> QED BY <1>2, <2>1, <2>2 DEF Queued
  <1>5. Said(p, r, env) <=> Journalled(p, r, env) \/ Queued(x)
    BY DEF Said, x
  <1>6. Said(p, r, env)' <=> Journalled(p, r, env)' \/ \E i \in 1..Len(outbox') : outbox'[i] = x
    BY DEF Said, Queued, x
  <1> QED BY <1>1, <1>4, <1>5, <1>6

\* A post keeps the journal gapless.
LEMMA PostStoreShape ==
  ASSUME StoreAssumption, SyncAssumption, PostInv, outbox # <<>>, StoreIngests(Head(outbox))
  PROVE  StoreShape'
  <1>0. PICK e : e = Head(outbox)
    OBVIOUS
  <1>1. e.obj \in Steady =>
           /\ e.env \in EnvelopesOf(e.obj)
           /\ \/ e.rev = current[e.obj].rev + 1
              \/ e.rev = current[e.obj].rev
    BY <1>0, HeadFacts
  <1>3. e.obj \in Objects /\ e.rev \in Revisions /\ Entry(e.obj, e.rev, e.env) = e
    BY <1>0, HeadRow DEF PostInv
  <1>2. e.obj \in Steady =>
           /\ current'[e.obj].rev = e.rev /\ current'[e.obj].op = e.env.op
           /\ e.env.op = "upsert" => current'[e.obj].payload = e.env.content
           /\ floor'[e.obj] <= e.rev
           /\ Records(events'[e.obj][e.rev], e.env)
           /\ \A r \in Revisions :
                 r # e.rev => SameRecord(events'[e.obj][r], events[e.obj][r])
    BY <1>0, <1>3, PostFacts
  <1>4. \A p \in Steady : \A r \in Revisions, env \in EnvelopesOf(p) :
           Journalled(p, r, env)' <=> Journalled(p, r, env) \/ Entry(p, r, env) = e
    BY <1>0, PostJournals
  <1>5. e.rev \in Nat /\ e.rev > 0 /\ \A r \in Revisions : r \in Nat
    BY <1>3 DEF Revisions
  <1>6. \A p \in Steady : p \in Objects /\ current[p].rev \in Nat
    BY SteadyFacts, RevisionTypes DEF PostInv
  <1> SUFFICES ASSUME NEW p \in Steady
               PROVE  /\ \A r \in Revisions :
                            /\ r <= current'[p].rev => /\ events'[p][r].status = "accepted"
                                                       /\ \E env \in EnvelopesOf(p) : Journalled(p, r, env)'
                            /\ r > current'[p].rev => events'[p][r].status = "none"
                      /\ floor'[p] <= current'[p].rev
                      /\ current'[p].rev = 0 => current'[p].op = "none"
                      /\ current'[p].rev > 0 => current'[p].op = events'[p][current'[p].rev].op
                      /\ current'[p].op = "upsert" =>
                            current'[p].payload = events'[p][current'[p].rev].content
    BY DEF StoreShape
  <1>7. /\ \A r \in Revisions :
              /\ r <= current[p].rev =>
                    events[p][r].status = "accepted" /\ \E env \in EnvelopesOf(p) : Journalled(p, r, env)
              /\ r > current[p].rev => events[p][r].status = "none"
        /\ floor[p] <= current[p].rev
        /\ current[p].rev = 0 => current[p].op = "none"
        /\ current[p].rev > 0 => current[p].op = events[p][current[p].rev].op
        /\ current[p].op = "upsert" => current[p].payload = events[p][current[p].rev].content
    BY DEF PostInv, StoreShape
  <1>8. CASE p = e.obj
    <2>1. ASSUME NEW r \in Revisions, r <= current'[p].rev
          PROVE  events'[p][r].status = "accepted" /\ \E env \in EnvelopesOf(p) : Journalled(p, r, env)'
      <3>1. CASE r = e.rev
        <4>1. Journalled(p, r, e.env)'
          BY <1>1, <1>3, <1>4, <1>8, <3>1
        <4> QED BY <1>1, <1>2, <1>8, <3>1, <4>1 DEF Records
      <3>2. CASE r # e.rev
        <4>1. r <= current[p].rev
          BY <1>1, <1>2, <1>5, <1>6, <1>8, <2>1, <3>2
        <4>2. SameRecord(events'[p][r], events[p][r])
          BY <1>2, <1>8, <3>2
        <4> QED BY <1>4, <1>7, <4>1, <4>2 DEF SameRecord
      <3> QED BY <3>1, <3>2
    <2>2. ASSUME NEW r \in Revisions, r > current'[p].rev
          PROVE  events'[p][r].status = "none"
      <3>1. r # e.rev /\ r > current[p].rev
        BY <1>1, <1>2, <1>5, <1>6, <1>8, <2>2
      <3>2. SameRecord(events'[p][r], events[p][r])
        BY <1>2, <1>8, <3>1
      <3> QED BY <1>7, <3>1, <3>2 DEF SameRecord
    <2>3. /\ floor'[p] <= current'[p].rev /\ current'[p].rev # 0
          /\ current'[p].op = events'[p][current'[p].rev].op
          /\ current'[p].op = "upsert" => current'[p].payload = events'[p][current'[p].rev].content
      BY <1>2, <1>5, <1>8 DEF Records
    <2> QED BY <2>1, <2>2, <2>3
  <1>9. CASE p # e.obj
    <2>1. /\ current'[p] = current[p] /\ floor'[p] = floor[p]
          /\ \A r \in Revisions : events'[p][r] = events[p][r]
      BY <1>0, <1>6, <1>9, PostElsewhere
    <2>2. \A r \in Revisions, env \in EnvelopesOf(p) : Journalled(p, r, env) => Journalled(p, r, env)'
      BY <1>4
    <2>3. current[p].rev > 0 => current[p].rev \in Revisions
      <3>1. current[p].rev <= MaxRevision
        BY <1>6, RevisionTypes DEF PostInv
      <3> QED BY <1>6, <3>1, StoreAssumption DEF Revisions
    <2>4. current[p].op = "upsert" => current[p].rev > 0
      BY <1>6, <1>7
    <2> QED BY <1>7, <2>1, <2>2, <2>3, <2>4
  <1> QED BY <1>8, <1>9

\* A post keeps the outbox ahead of the store, in order and without gaps.
LEMMA PostQueueShape ==
  ASSUME StoreAssumption, SyncAssumption, PostInv, outbox # <<>>, StoreIngests(Head(outbox)),
         outbox' = outbox \/ outbox' = Tail(outbox), rows' = rows
  PROVE  Ascending' /\ Ahead' /\ NothingSkipped'
  <1>0. PICK e : e = Head(outbox)
    OBVIOUS
  <1>1. /\ e = outbox[1] /\ 1 \in 1..Len(outbox)
        /\ e.obj \in Objects /\ e.rev \in Revisions /\ Entry(e.obj, e.rev, e.env) = e
    BY <1>0, HeadRow DEF PostInv
  <1>a. e.obj \in Steady =>
           /\ e.env \in EnvelopesOf(e.obj)
           /\ \/ e.rev = current[e.obj].rev + 1
              \/ e.rev = current[e.obj].rev
    BY <1>0, HeadFacts
  <1>2. /\ e.obj \in Steady => current'[e.obj].rev = e.rev
        /\ \A p \in Steady : p # e.obj => current'[p] = current[p]
    BY <1>0, PostFacts, PostElsewhere, SteadyFacts
  <1>3. e.obj \in Steady => Journalled(e.obj, e.rev, e.env)'
    BY <1>0, <1>1, <1>a, PostJournals
  <1>4. PICK d \in {0, 1} :
           /\ \A i \in 1..Len(outbox') : i + d \in 1..Len(outbox) /\ outbox'[i] = outbox[i + d]
           /\ \A j \in 1..Len(outbox) : j > 1 \/ d = 0 =>
                  j - d \in 1..Len(outbox') /\ outbox'[j - d] = outbox[j]
    BY Shifted DEF PostInv
  <1>5. \A p \in Objects : current[p].rev \in Nat /\ rows[p][0].rev \in Nat
    BY RevisionTypes DEF PostInv
  <1>6. e.rev \in Nat /\ (\A r \in Revisions : r \in Nat)
        /\ \A i \in 1..Len(outbox) : outbox[i].obj \in Objects /\ outbox[i].rev \in Nat
    <2>1. outbox \in Seq(OutboxRows) /\ \A r \in Revisions : r \in Nat
      BY DEF PostInv, CollectorInv, SyncTypeOK, Revisions
    <2>2. \A i \in 1..Len(outbox) : outbox[i] \in OutboxRows
      BY <2>1
    <2>3. \A x \in OutboxRows : x.obj \in Objects /\ x.rev \in Revisions
      BY DEF OutboxRows
    <2> QED BY <1>1, <2>1, <2>2, <2>3
  <1>7. Ascending'
    <2> SUFFICES ASSUME NEW i \in 1..Len(outbox'), NEW j \in 1..Len(outbox'), i < j,
                        outbox'[i].obj = outbox'[j].obj, outbox'[i].obj \in Steady
                 PROVE  outbox'[i].rev < outbox'[j].rev
      BY DEF Ascending
    <2>1. i + d < j + d /\ i + d \in 1..Len(outbox) /\ j + d \in 1..Len(outbox)
      BY <1>4
    <2> QED BY <1>4, <2>1 DEF PostInv, Ascending
  <1>8. Ahead'
    <2> SUFFICES ASSUME NEW i \in 1..Len(outbox'), NEW x, x = outbox'[i], x.obj \in Steady
                 PROVE  /\ x.env \in EnvelopesOf(x.obj)
                        /\ x.rev <= rows[x.obj][0].rev
                        /\ \/ x.rev > current'[x.obj].rev
                           \/ i = 1 /\ x.rev = current'[x.obj].rev /\ Journalled(x.obj, x.rev, x.env)'
      BY DEF Ahead, Journalled
    <2> DEFINE j == i + d
    <2>1. j \in 1..Len(outbox) /\ x = outbox[j] /\ (j = 1 => i = 1) /\ (j = 1 \/ j > 1)
      BY <1>4
    <2> HIDE DEF j
    <2>2. /\ outbox[j].env \in EnvelopesOf(outbox[j].obj)
          /\ outbox[j].rev <= rows[outbox[j].obj][0].rev
          /\ outbox[j].rev > current[outbox[j].obj].rev \/ j = 1
      BY <2>1 DEF PostInv, Ahead
    <2>3. CASE j = 1
      <3>1. x = e /\ i = 1
        BY <1>1, <2>1, <2>3
      <3>2. e.env \in EnvelopesOf(e.obj) /\ e.rev <= rows[e.obj][0].rev
        BY <2>1, <2>2, <3>1
      <3> QED BY <1>2, <1>3, <3>1, <3>2
    <2>4. CASE j > 1 /\ outbox[j].obj = e.obj
      <3>1. e.rev < outbox[j].rev
        BY <1>1, <2>1, <2>4 DEF PostInv, Ascending
      <3>2. x.obj = e.obj /\ x.rev > current'[x.obj].rev
        BY <1>2, <1>6, <2>1, <2>4, <3>1
      <3> QED BY <2>1, <2>2, <3>2
    <2>5. CASE j > 1 /\ outbox[j].obj # e.obj
      <3>1. x.rev > current[x.obj].rev /\ current'[x.obj] = current[x.obj]
        <4>1. x.obj \in Objects /\ x.obj # e.obj
          BY <1>6, <2>1, <2>5
        <4>2. j # 1
          BY <2>1, <2>5
        <4> QED BY <1>2, <2>1, <2>2, <4>1, <4>2
      <3> QED BY <2>1, <2>2, <3>1
    <2> QED BY <2>1, <2>3, <2>4, <2>5
  <1>9. NothingSkipped'
    <2> SUFFICES ASSUME NEW o \in Steady
                 PROVE  /\ current'[o].rev <= rows[o][0].rev
                        /\ \A r \in Revisions : current'[o].rev < r /\ r <= rows[o][0].rev =>
                              \E i \in 1..Len(outbox') : outbox'[i].obj = o /\ outbox'[i].rev = r
      BY DEF NothingSkipped
    <2>1. /\ current[o].rev <= rows[o][0].rev
          /\ \A r \in Revisions : current[o].rev < r /\ r <= rows[o][0].rev =>
                              \E i \in 1..Len(outbox) : outbox[i].obj = o /\ outbox[i].rev = r
      BY DEF PostInv, NothingSkipped
    <2>2. o = e.obj => e.rev <= rows[e.obj][0].rev
      BY <1>1 DEF PostInv, Ahead
    <2>0. o \in Objects
      BY SteadyFacts
    <2>3. current'[o].rev <= rows[o][0].rev /\ current[o].rev <= current'[o].rev
          /\ current'[o].rev \in Nat
      BY <1>1, <1>a, <1>2, <1>5, <1>6, <2>0, <2>1, <2>2
    <2>4. ASSUME NEW r \in Revisions, current'[o].rev < r, r <= rows[o][0].rev
          PROVE  \E i \in 1..Len(outbox') : outbox'[i].obj = o /\ outbox'[i].rev = r
      <3>1. current[o].rev < r
        BY <1>5, <1>6, <2>0, <2>3, <2>4
      <3>2. PICK j \in 1..Len(outbox) : outbox[j].obj = o /\ outbox[j].rev = r
        BY <2>1, <2>4, <3>1
      <3>3. j # 1
        BY <1>1, <1>2, <1>6, <2>4, <3>2
      <3>4. j > 1
        BY <3>3
      <3>5. j - d \in 1..Len(outbox') /\ outbox'[j - d] = outbox[j]
        BY <1>4, <3>4
      <3> QED BY <3>2, <3>5
    <2> QED BY <2>3, <2>4
  <1> QED BY <1>7, <1>8, <1>9

\* What the ledger's rows say depends only on what was said.
LEMMA SaidKeeps ==
  ASSUME StoreAssumption, SyncAssumption, PostInv, LedgerShape, NeverRepeated, rows' = rows,
         \A p \in Steady : \A r \in Revisions, env \in EnvelopesOf(p) :
             Said(p, r, env)' <=> Said(p, r, env)
  PROVE  LedgerShape' /\ NeverRepeated'
  <1>1. \A o \in Objects : /\ Delete(o) \in EnvelopesOf(o)
                           /\ \A c \in Contents : Upsert(o, c) \in EnvelopesOf(o)
    BY EnvelopeFacts
  <1>2. DaythreadObjects \subseteq Steady /\ Steady \subseteq Objects
    BY SteadyFacts
  <1>3. LedgerShape'
    <2> SUFFICES ASSUME NEW o \in Steady, NEW row \in LedgerRows, row = rows[o][0]
                 PROVE  RowSaid(o, row)'
      BY DEF LedgerShape
    <2>1. /\ row.rev = 0 => ~row.current
          /\ row.current => row.seen \in Contents /\ Said(o, row.rev, Upsert(o, row.seen))
          /\ row.rev > 0 /\ ~row.current =>
                /\ Said(o, row.rev, Delete(o))
                /\ o \in DaythreadObjects =>
                      /\ row.rev > 1 /\ row.seen \in Contents
                      /\ Said(o, row.rev - 1, Upsert(o, row.seen))
      BY DEF LedgerShape, RowSaid
    <2>2. row.rev \in Nat /\ row.rev <= MaxRevision
      BY <1>2, RevisionTypes DEF PostInv
    <2>3. (row.rev > 0 => row.rev \in Revisions) /\ (row.rev > 1 => row.rev - 1 \in Revisions)
      BY <2>2 DEF Revisions
    <2>4. row.current => row.rev > 0
      BY <2>1, <2>2
    <2> QED BY <1>1, <1>2, <2>1, <2>3, <2>4 DEF RowSaid
  <1>4. NeverRepeated'
    <2> SUFFICES ASSUME NEW o \in DaythreadObjects, NEW r \in Revisions, Said(o, r, Delete(o))'
                 PROVE  /\ r > 1
                        /\ \E c \in Contents : Said(o, r - 1, Upsert(o, c))'
                        /\ \A c \in Contents : r < MaxRevision /\ Said(o, r - 1, Upsert(o, c))' =>
                              ~Said(o, r + 1, Upsert(o, c))'
      BY DEF NeverRepeated
    <2>1. Said(o, r, Delete(o))
      BY <1>1, <1>2
    <2>2. /\ r > 1
          /\ \E c \in Contents : Said(o, r - 1, Upsert(o, c))
          /\ \A c \in Contents : r < MaxRevision /\ Said(o, r - 1, Upsert(o, c)) =>
                ~Said(o, r + 1, Upsert(o, c))
      BY <2>1 DEF NeverRepeated
    <2>3. r - 1 \in Revisions /\ (r < MaxRevision => r + 1 \in Revisions)
      BY <2>2 DEF Revisions
    <2> QED BY <1>1, <1>2, <2>2, <2>3
  <1> QED BY <1>3, <1>4

-----------------------------------------------------------------------------
(* One snapshot.                                                           *)

\* With an empty outbox the store is where the ledger is.
LEMMA CaughtUp ==
  ASSUME StoreAssumption, SyncAssumption, PostInv, outbox = <<>>, NEW o \in Steady
  PROVE  /\ current[o].rev = rows[o][0].rev
         /\ \A r, env : Said(o, r, env) <=> Journalled(o, r, env)
         /\ \A r, env : Said(o, r, env) => r <= rows[o][0].rev
  <1>1. \A e : ~Queued(e)
    BY DEF Queued
  <1>2. current[o].rev \in Nat /\ rows[o][0].rev \in Nat /\ rows[o][0].rev <= MaxRevision
    BY SteadyFacts, RevisionTypes DEF PostInv
  <1>3. /\ current[o].rev <= rows[o][0].rev
        /\ \A r \in Revisions : ~(current[o].rev < r /\ r <= rows[o][0].rev)
    BY DEF PostInv, NothingSkipped
  <1>4. rows[o][0].rev > 0 => rows[o][0].rev \in Revisions
    BY <1>2 DEF Revisions
  <1>5. current[o].rev = rows[o][0].rev
    BY <1>2, <1>3, <1>4
  <1> QED BY <1>1, <1>5 DEF Said, Journalled

\* The row of an object that a snapshot touches has the snapshot's key.
LEMMA KeptKey ==
  ASSUME SyncTypeOK, NEW s \in Scans, NEW o \in Steady,
         ~Rolling \/ s.src = "daythread" => s.key = 0
  PROVE  /\ o \in ObjectsOf(s.src) => s.key = 0
         /\ o \in Upserted(s) \/ o \in Deleted(s) => s.key = 0
         /\ o \in Upserted(s) => /\ Observed(s, o).rev = rows[o][0].rev + 1
                                 /\ Observed(s, o).seen = s.view[o]
                                 /\ Observed(s, o).current = TRUE /\ s.view[o] \in Contents
         /\ o \notin Upserted(s) /\ s.key = 0 => Observed(s, o) = rows[o][0]
         /\ Tombstoned(s, o).rev = Observed(s, o).rev + 1 /\ Tombstoned(s, o).current = FALSE
         /\ Tombstoned(s, o).seen = IF o \in s.gone THEN Observed(s, o).seen ELSE Null
  <1>0. o \in ObjectsOf(s.src) => s.key = 0
    BY DEF Steady, ObjectsOf
  <1>1. o \in Objects
    BY SteadyFacts, SyncAssumption
  <1>2. o \in Upserted(s) \/ o \in Deleted(s) => s.key = 0
    BY <1>0 DEF Upserted, Shown, Deleted
  <1>3. s.view[o] \in Contents \/ o \notin Upserted(s)
    BY <1>1, RowFacts
  <1>4. o \in Upserted(s) =>
              Observed(s, o) = [rev |-> rows[o][0].rev + 1, seen |-> s.view[o], current |-> TRUE]
    BY <1>2 DEF Observed, NextRevision
  <1>5. o \notin Upserted(s) /\ s.key = 0 => Observed(s, o) = rows[o][0]
    BY DEF Observed
  <1>6. Tombstoned(s, o) = [rev |-> Observed(s, o).rev + 1, current |-> FALSE,
                            seen |-> IF o \in s.gone THEN Observed(s, o).seen ELSE Null]
    BY DEF Tombstoned, NextRevision
  <1> QED BY <1>0, <1>2, <1>3, <1>4, <1>5, <1>6

\* What applying the snapshot s does to object o: its new row, and what the
\* ledger says of it from now on.
LEMMA ApplySays ==
  ASSUME StoreAssumption, SyncAssumption, PostInv, Apply, NEW s, s = Head(scans),
         NEW o \in Steady
  PROVE  /\ s \in Scans /\ (~Rolling \/ s.src = "daythread" => s.key = 0)
         /\ rows'[o][0] = IF o \in Deleted(s) THEN Tombstoned(s, o)
                          ELSE IF o \in Upserted(s) THEN Observed(s, o) ELSE rows[o][0]
         /\ \A r \in Revisions, env \in EnvelopesOf(o) :
               Said(o, r, env)' <=>
                  \/ Said(o, r, env)
                  \/ o \in Upserted(s) /\ r = rows[o][0].rev + 1 /\ env = Upsert(o, s.view[o])
                  \/ o \in Deleted(s) /\ r = Observed(s, o).rev + 1 /\ env = Delete(o)
  <1>1. /\ pc = "replay" /\ outbox = <<>>
        /\ \A p \in Objects : Applied(s)[p][s.key].rev <= MaxRevision
        /\ rows' = Applied(s) /\ outbox' = outbox \o Enqueued(s)
        /\ UNCHANGED vars
    BY DEF Apply
  <1>0. o \in Objects
    BY SteadyFacts
  <1>2. s \in Scans /\ (~Rolling \/ s.src = "daythread" => s.key = 0)
    BY <1>1, HeadScan DEF PostInv
  <1>3. SyncTypeOK
    BY DEF PostInv, CollectorInv
  <1>a. o \in Upserted(s) \/ o \in Deleted(s) => s.key = 0
    BY <1>2, <1>3, KeptKey
  <1>4. rows'[o][0] = IF o \in Deleted(s) THEN Tombstoned(s, o)
                      ELSE IF o \in Upserted(s) THEN Observed(s, o) ELSE rows[o][0]
    <2>1. CASE s.key = 0
      <3>1. rows'[o][0] = IF o \in Deleted(s) THEN Tombstoned(s, o) ELSE Observed(s, o)
        BY <1>0, <1>1, <1>2, <1>3, <2>1, AppliedRow
      <3>2. o \notin Upserted(s) => Observed(s, o) = rows[o][0]
        BY <2>1 DEF Observed
      <3> QED BY <3>1, <3>2
    <2>2. CASE s.key # 0
      <3>1. 0 \in Keys
        BY DEF Keys, SyncAssumption
      <3> QED BY <1>0, <1>1, <1>2, <1>3, <1>a, <2>2, <3>1, AppliedRow
    <2> QED BY <2>1, <2>2
  <1>5. PICK q : q = Enqueued(s)
    OBVIOUS
  <1>6. /\ q \in Seq(OutboxRows)
        /\ \A p \in Upserted(s) : \E i \in 1..Len(q) : q[i] = UpsertEvent(s, p)
        /\ \A p \in Deleted(s) : \E i \in 1..Len(q) : q[i] = DeleteEvent(s, p)
        /\ \A i \in 1..Len(q) :
              \/ q[i].obj \in Upserted(s) /\ q[i] = UpsertEvent(s, q[i].obj)
              \/ q[i].obj \in Deleted(s) /\ q[i] = DeleteEvent(s, q[i].obj)
    BY <1>1, <1>2, <1>3, <1>5, EnqueuedFacts
  <1>7. outbox' = q
    BY <1>1, <1>5, <1>6
  <1>8. /\ o \in Upserted(s) =>
              UpsertEvent(s, o) = Entry(o, rows[o][s.key].rev + 1, Upsert(o, s.view[o]))
        /\ o \in Deleted(s) => DeleteEvent(s, o) = Entry(o, Observed(s, o).rev + 1, Delete(o))
    BY <1>0, <1>1, <1>2, <1>3, EventFacts
  <1>9. ASSUME NEW r \in Revisions, NEW env \in EnvelopesOf(o)
        PROVE  Said(o, r, env)' <=>
                  \/ Said(o, r, env)
                  \/ o \in Upserted(s) /\ r = rows[o][0].rev + 1 /\ env = Upsert(o, s.view[o])
                  \/ o \in Deleted(s) /\ r = Observed(s, o).rev + 1 /\ env = Delete(o)
    <2>1. Said(o, r, env) <=> Journalled(o, r, env)
      BY <1>1, CaughtUp
    <2>2. Journalled(o, r, env)' <=> Journalled(o, r, env)
      BY <1>1 DEF Journalled, vars
    <2>3. PICK x : x = Entry(o, r, env)
      OBVIOUS
    <2>4. Said(o, r, env)' <=> Journalled(o, r, env)' \/ \E i \in 1..Len(q) : q[i] = x
      BY <1>7, <2>3 DEF Said, Queued, Entry
    <2>5. (\E i \in 1..Len(q) : q[i] = x) <=>
             \/ o \in Upserted(s) /\ x = UpsertEvent(s, o)
             \/ o \in Deleted(s) /\ x = DeleteEvent(s, o)
      <3>1. x.obj = o
        BY <2>3 DEF Entry
      <3> QED BY <1>6, <3>1
    <2>6. \A r2, env2 : x = Entry(o, r2, env2) <=> r = r2 /\ env = env2
      BY <2>3 DEF Entry
    <2> QED BY <1>a, <1>8, <2>1, <2>2, <2>4, <2>5, <2>6
  <1> QED BY <1>2, <1>4, <1>9

\* A daythread object is deleted because the resolver called it gone, right
\* after the version that the tombstone keeps.
LEMMA ApplyDeletes ==
  ASSUME StoreAssumption, SyncAssumption, PostInv, LedgerShape, Apply,
         NEW s, s = Head(scans), NEW o \in Steady, o \in Deleted(s), NEW obs, obs = Observed(s, o)
  PROVE  /\ obs.rev \in Revisions
         /\ o \in DaythreadObjects =>
               /\ o \in s.gone /\ obs.seen \in Contents
               /\ Said(o, obs.rev, Upsert(o, obs.seen))'
  <1>0. o \in Objects
    BY SteadyFacts
  <1>1. s \in Scans /\ s.key = 0 /\ SyncTypeOK
    <2>1. /\ s \in Scans /\ SyncTypeOK
          /\ ~Rolling \/ s.src = "daythread" => s.key = 0
      BY ApplySays DEF PostInv, CollectorInv
    <2> QED BY <2>1, KeptKey
  <1>2. PICK row \in LedgerRows : row = rows[o][0]
    BY <1>0, RevisionTypes DEF PostInv
  <1>3. RowSaid(o, row)
    BY <1>2 DEF LedgerShape
  <1>4. /\ o \in Upserted(s) => /\ obs.rev = row.rev + 1 /\ obs.seen = s.view[o]
                                /\ obs.current = TRUE /\ s.view[o] \in Contents
        /\ o \notin Upserted(s) => obs = row
    <2>1. /\ o \in Upserted(s) => /\ Observed(s, o).rev = rows[o][0].rev + 1
                                   /\ Observed(s, o).seen = s.view[o]
                                   /\ Observed(s, o).current = TRUE /\ s.view[o] \in Contents
          /\ o \notin Upserted(s) => Observed(s, o) = rows[o][0]
      <3>1. o \in Upserted(s) => Observed(s, o).rev = rows[o][0].rev + 1
        BY <1>1, KeptKey
      <3>2. o \in Upserted(s) => Observed(s, o).seen = s.view[o] /\ s.view[o] \in Contents
        BY <1>1, KeptKey
      <3>3. o \in Upserted(s) => Observed(s, o).current = TRUE
        BY <1>1, KeptKey
      <3>4. o \notin Upserted(s) => Observed(s, o) = rows[o][0]
        BY <1>1 DEF Observed
      <3> QED BY <3>1, <3>2, <3>3, <3>4
    <2> QED BY <1>2, <2>1
  <1>5. row.rev \in Nat /\ row.rev <= MaxRevision
    BY <1>0, <1>2, RevisionTypes DEF PostInv
  <1>6. rows'[o][0].rev <= MaxRevision
    <2>1. CollectorInv' /\ 0 \in Keys
      BY ApplyTypes DEF PostInv, Keys, SyncAssumption
    <2>2. rows'[o][0] \in LedgerRows
      BY <1>0, <2>1 DEF CollectorInv, SyncTypeOK
    <2>3. rows'[o][0].rev \in 0..MaxRevision
      BY <2>2 DEF LedgerRows
    <2> QED BY <2>3
  <1>7. obs.rev + 1 <= MaxRevision
    <2>1. rows'[o][0] = Tombstoned(s, o)
      BY ApplySays
    <2>2. Tombstoned(s, o).rev = obs.rev + 1
      BY <1>1, <1>2, KeptKey
    <2> QED BY <1>6, <2>1, <2>2
  <1>8. obs.current /\ (o \in s.gone \/ s.complete) /\ o \in ObjectsOf(s.src)
    BY DEF Deleted
  <1>9. obs.rev \in Revisions
    <2>1. obs.rev \in Nat /\ obs.rev > 0
      <3>1. CASE o \in Upserted(s)
        BY <1>4, <1>5, <3>1
      <3>2. CASE o \notin Upserted(s)
        BY <1>3, <1>4, <1>5, <1>8, <3>2 DEF RowSaid
      <3> QED BY <3>1, <3>2
    <2> QED BY <1>7, <2>1, StoreAssumption DEF Revisions
  <1>10. ASSUME o \in DaythreadObjects
         PROVE  /\ o \in s.gone /\ obs.seen \in Contents
                /\ Said(o, obs.rev, Upsert(o, obs.seen))'
    <2>1. s.src = "daythread"
      BY <1>8, <1>10 DEF ObjectsOf
    <2>2. ~s.complete
      <3>1. pc # "idle"
        BY DEF Apply
      <3> QED BY <2>1, <3>1, HeadScan DEF PostInv
    <2>3. \/ obs.seen \in Contents /\ obs.rev = rows[o][0].rev + 1 /\ o \in Upserted(s)
             /\ obs.seen = s.view[o]
          \/ obs.seen \in Contents /\ Said(o, obs.rev, Upsert(o, obs.seen))
      BY <1>2, <1>3, <1>4, <1>8 DEF RowSaid
    <2>4. Upsert(o, obs.seen) \in EnvelopesOf(o)
      BY <1>0, <2>3, EnvelopeFacts
    <2>5. \A r \in Revisions, env \in EnvelopesOf(o) :
             \/ Said(o, r, env)
             \/ o \in Upserted(s) /\ r = rows[o][0].rev + 1 /\ env = Upsert(o, s.view[o])
             => Said(o, r, env)'
      BY ApplySays
    <2> QED BY <1>8, <1>9, <2>2, <2>3, <2>4, <2>5
  <1> QED BY <1>9, <1>10

\* After the snapshot, every row says what its last revision was.
LEMMA ApplyLedger ==
  ASSUME StoreAssumption, SyncAssumption, PostInv, LedgerShape, Apply
  PROVE  LedgerShape'
  <1> SUFFICES ASSUME NEW o \in Steady, NEW new \in LedgerRows, new = rows'[o][0]
               PROVE  RowSaid(o, new)'
    BY DEF LedgerShape
  <1>1. PICK s : s = Head(scans)
    OBVIOUS
  <1>0. o \in Objects
    BY SteadyFacts
  <1>2. PICK obs : obs = IF o \in Upserted(s) \/ o \in Deleted(s) THEN Observed(s, o)
                         ELSE rows[o][0]
    OBVIOUS
  <1>3. /\ s \in Scans /\ (~Rolling \/ s.src = "daythread" => s.key = 0)
        /\ new = IF o \in Deleted(s) THEN Tombstoned(s, o) ELSE obs
        /\ \A r \in Revisions, env \in EnvelopesOf(o) :
               Said(o, r, env)' <=>
                  \/ Said(o, r, env)
                  \/ o \in Upserted(s) /\ r = rows[o][0].rev + 1 /\ env = Upsert(o, s.view[o])
                  \/ o \in Deleted(s) /\ r = obs.rev + 1 /\ env = Delete(o)
    BY <1>1, <1>2, ApplySays
  <1>4. PICK row \in LedgerRows : row = rows[o][0]
    BY <1>0, RevisionTypes DEF PostInv
  <1>5. RowSaid(o, row)
    BY <1>4 DEF LedgerShape
  <1>6. /\ o \in Upserted(s) => /\ obs.rev = row.rev + 1 /\ obs.seen = s.view[o]
                                /\ obs.current = TRUE /\ s.view[o] \in Contents
        /\ o \notin Upserted(s) => obs = row
        /\ o \in Deleted(s) =>
              /\ Tombstoned(s, o).rev = obs.rev + 1 /\ Tombstoned(s, o).current = FALSE
              /\ Tombstoned(s, o).seen = IF o \in s.gone THEN obs.seen ELSE Null
    <2>1. SyncTypeOK
      BY DEF PostInv, CollectorInv
    <2> QED BY <1>2, <1>3, <1>4, <2>1, KeptKey
  <1>7. row.rev \in Nat /\ row.rev <= MaxRevision
    BY <1>4, <1>0, RevisionTypes DEF PostInv
  <1>8. new.rev \in Nat /\ (new.rev > 0 => new.rev \in Revisions)
    <2>1. new.rev \in 0..MaxRevision
      BY DEF LedgerRows
    <2> QED BY <2>1 DEF Revisions
  <1>9. Delete(o) \in EnvelopesOf(o) /\ \A c \in Contents : Upsert(o, c) \in EnvelopesOf(o)
    BY <1>0, EnvelopeFacts
  <1>10. CASE o \in Deleted(s)
    <2>1. /\ obs.rev \in Revisions
          /\ o \in DaythreadObjects =>
               /\ o \in s.gone /\ obs.seen \in Contents
               /\ Said(o, obs.rev, Upsert(o, obs.seen))'
      BY <1>1, <1>2, <1>10, ApplyDeletes
    <2>2. /\ new.rev = obs.rev + 1 /\ new.current = FALSE
          /\ o \in s.gone => new.seen = obs.seen
      BY <1>3, <1>6, <1>10
    <2>3. new.rev - 1 = obs.rev /\ new.rev > 1
      BY <2>1, <2>2 DEF Revisions
    <2>4. Said(o, new.rev, Delete(o))'
      BY <1>3, <1>8, <1>9, <1>10, <2>2, <2>3
    <2> QED BY <2>1, <2>2, <2>3, <2>4 DEF RowSaid
  <1>11. CASE o \in Upserted(s) /\ o \notin Deleted(s)
    <2>1. new.rev = row.rev + 1 /\ new.seen = s.view[o] /\ new.current = TRUE /\ new.seen \in Contents
      BY <1>3, <1>6, <1>11
    <2>2. new.rev \in Revisions
      BY <1>7, <1>8, <2>1
    <2>3. Said(o, new.rev, Upsert(o, new.seen))'
      BY <1>3, <1>4, <1>9, <1>11, <2>1, <2>2
    <2>4. new.rev # 0
      BY <1>7, <2>1
    <2> QED BY <2>1, <2>3, <2>4 DEF RowSaid
  <1>12. CASE o \notin Upserted(s) /\ o \notin Deleted(s)
    <2>1. new = row
      BY <1>3, <1>6, <1>12
    <2>2. \A r \in Revisions, env \in EnvelopesOf(o) : Said(o, r, env) => Said(o, r, env)'
      BY <1>3
    <2>3. new.rev > 1 => new.rev - 1 \in Revisions
      BY <1>8 DEF Revisions
    <2>4. new.current => new.rev > 0
      BY <1>5, <1>8, <2>1 DEF RowSaid
    <2> QED BY <1>5, <1>8, <1>9, <2>1, <2>2, <2>3, <2>4 DEF RowSaid
  <1> QED BY <1>10, <1>11, <1>12

\* A version that the ledger has withdrawn is not queued again.
LEMMA ApplyNeverRepeats ==
  ASSUME StoreAssumption, SyncAssumption, PostInv, LedgerShape, NeverRepeated, Apply
  PROVE  NeverRepeated'
  <1> SUFFICES ASSUME NEW o \in DaythreadObjects, NEW r \in Revisions, Said(o, r, Delete(o))'
               PROVE  /\ r > 1
                      /\ \E c \in Contents : Said(o, r - 1, Upsert(o, c))'
                      /\ \A c \in Contents : r < MaxRevision /\ Said(o, r - 1, Upsert(o, c))' =>
                            ~Said(o, r + 1, Upsert(o, c))'
    BY DEF NeverRepeated
  <1>1. PICK s : s = Head(scans)
    OBVIOUS
  <1>2. PICK obs : obs = Observed(s, o)
    OBVIOUS
  <1>3. o \in Objects /\ o \in Steady
    BY SteadyFacts
  <1>4. /\ s \in Scans /\ (~Rolling \/ s.src = "daythread" => s.key = 0)
        /\ \A t \in Revisions, env \in EnvelopesOf(o) :
               Said(o, t, env)' <=>
                  \/ Said(o, t, env)
                  \/ o \in Upserted(s) /\ t = rows[o][0].rev + 1 /\ env = Upsert(o, s.view[o])
                  \/ o \in Deleted(s) /\ t = obs.rev + 1 /\ env = Delete(o)
    BY <1>1, <1>2, <1>3, ApplySays
  <1>5. PICK row \in LedgerRows : row = rows[o][0]
    BY <1>3, RevisionTypes DEF PostInv
  <1>6. RowSaid(o, row)
    BY <1>3, <1>5 DEF LedgerShape
  <1>7. outbox = <<>>
    BY DEF Apply
  <1>8. /\ \A t, env : Said(o, t, env) <=> Journalled(o, t, env)
        /\ \A t, env : Said(o, t, env) => t <= row.rev
    BY <1>3, <1>5, <1>7, CaughtUp
  <1>9. row.rev \in Nat /\ row.rev <= MaxRevision /\ row.current \in BOOLEAN
    BY <1>3, <1>5, RevisionTypes DEF PostInv
  <1>10. /\ Delete(o) \in EnvelopesOf(o) /\ \A c \in Contents : Upsert(o, c) \in EnvelopesOf(o)
         /\ \A c : Upsert(o, c) # Delete(o) /\ Upsert(o, c).content = c
         /\ \A c : Upsert(o, c).op = "upsert" /\ Delete(o).op = "delete"
    <2>1. Delete(o).op = "delete" /\ \A c : Upsert(o, c).op = "upsert" /\ Upsert(o, c).content = c
      BY <1>3, EnvelopeFacts
    <2>2. \A c : Upsert(o, c) # Delete(o)
      BY <2>1
    <2> QED BY <1>3, <2>1, <2>2, EnvelopeFacts
  <1>11. r \in Nat /\ (r > 1 => r - 1 \in Revisions) /\ (r < MaxRevision => r + 1 \in Revisions)
    BY DEF Revisions
  <1>12. CASE Said(o, r, Delete(o))
    <2>1. /\ r > 1
          /\ \E c \in Contents : Said(o, r - 1, Upsert(o, c))
          /\ \A c \in Contents : r < MaxRevision /\ Said(o, r - 1, Upsert(o, c)) =>
                ~Said(o, r + 1, Upsert(o, c))
      BY <1>12 DEF NeverRepeated
    <2>2. \E c \in Contents : Said(o, r - 1, Upsert(o, c))'
      BY <1>4, <1>10, <1>11, <2>1
    <2>3. r <= row.rev
      BY <1>8, <1>12
    <2>4. ASSUME NEW c \in Contents, r < MaxRevision, Said(o, r - 1, Upsert(o, c))',
                 Said(o, r + 1, Upsert(o, c))'
          PROVE  FALSE
      <3>1. r - 1 # row.rev + 1
        BY <1>9, <1>11, <2>3
      <3>2. Said(o, r - 1, Upsert(o, c))
        BY <1>4, <1>5, <1>10, <1>11, <2>1, <2>4, <3>1
      <3>3. ~Said(o, r + 1, Upsert(o, c))
        BY <2>1, <2>4, <3>2
      <3>4. o \in Upserted(s) /\ r + 1 = row.rev + 1 /\ Upsert(o, c) = Upsert(o, s.view[o])
        BY <1>4, <1>5, <1>10, <1>11, <2>4, <3>3
      <3>5. r = row.rev /\ c = s.view[o]
        BY <1>9, <1>10, <1>11, <3>4
      <3>6. Journalled(o, r, Delete(o)) /\ Journalled(o, r - 1, Upsert(o, c))
        BY <1>8, <1>12, <3>2
      <3>7. ~row.current
        <4>1. ~Journalled(o, r, Upsert(o, row.seen))
          BY <1>10, <3>6 DEF Journalled
        <4> QED BY <1>6, <1>8, <3>5, <4>1 DEF RowSaid
      <3>8. Said(o, r - 1, Upsert(o, row.seen))
        <4>1. row.rev > 0
          BY <2>1, <1>11, <3>5
        <4> QED BY <1>6, <3>5, <3>7, <4>1 DEF RowSaid
      <3>9. row.seen = c
        BY <1>8, <1>10, <3>6, <3>8 DEF Journalled
      <3>10. s.src = "daythread"
        BY <3>4 DEF Upserted, Shown, ObjectsOf
      <3>11. Unchanged(s, o)
        BY <1>4, <1>5, <1>9, <1>11, <2>1, <3>5, <3>9, <3>10 DEF Unchanged
      <3> QED BY <3>4, <3>11 DEF Upserted
    <2> QED BY <2>1, <2>2, <2>4
  <1>13. CASE ~Said(o, r, Delete(o))
    <2>1. o \in Deleted(s) /\ r = obs.rev + 1
      BY <1>4, <1>10, <1>13
    <2>2. /\ obs.rev \in Revisions /\ obs.seen \in Contents
          /\ Said(o, obs.rev, Upsert(o, obs.seen))'
      BY <1>1, <1>2, <1>3, <2>1, ApplyDeletes
    <2>3. r > 1 /\ r - 1 = obs.rev
      BY <2>1, <2>2 DEF Revisions
    <2>4. row.rev <= obs.rev
      <3>1. SyncTypeOK
        BY DEF PostInv, CollectorInv
      <3>2. o \in Upserted(s) => obs.rev = row.rev + 1
        BY <1>2, <1>3, <1>4, <1>5, <3>1, KeptKey
      <3>3. o \notin Upserted(s) => obs = row
        <4>1. s.key = 0
          BY <1>3, <1>4, <2>1, <3>1, KeptKey
        <4> QED BY <1>2, <1>5, <4>1 DEF Observed
      <3> QED BY <1>9, <3>2, <3>3
    <2>5. r + 1 # row.rev + 1 /\ ~(r + 1 <= row.rev)
      <3>1. obs.rev \in Nat
        BY <2>2 DEF Revisions
      <3> QED BY <1>9, <1>11, <2>1, <2>4, <3>1
    <2>6. ASSUME NEW c \in Contents, r < MaxRevision, Said(o, r + 1, Upsert(o, c))'
          PROVE  FALSE
      <3>1. ~Said(o, r + 1, Upsert(o, c))
        BY <1>8, <2>5
      <3> QED BY <1>4, <1>5, <1>10, <1>11, <2>5, <2>6, <3>1
    <2> QED BY <2>2, <2>3, <2>6
  <1> QED BY <1>12, <1>13

\* The outbox of a snapshot starts where the store is.
LEMMA ApplyQueueShape ==
  ASSUME StoreAssumption, SyncAssumption, PostInv, LedgerShape, Apply
  PROVE  Ascending' /\ Ahead' /\ NothingSkipped'
  <1>1. PICK s : s = Head(scans)
    OBVIOUS
  <1>2. /\ pc = "replay" /\ outbox = <<>>
        /\ \A p \in Objects : Applied(s)[p][s.key].rev <= MaxRevision
        /\ rows' = Applied(s) /\ outbox' = outbox \o Enqueued(s)
        /\ UNCHANGED vars
    BY <1>1 DEF Apply
  <1>3. s \in Scans /\ SyncTypeOK /\ (~Rolling \/ s.src = "daythread" => s.key = 0)
    BY <1>1, <1>2, HeadScan DEF PostInv, CollectorInv
  <1>4. PICK q : q = Enqueued(s)
    OBVIOUS
  <1>5. /\ q \in Seq(OutboxRows)
        /\ \A p \in Upserted(s) : \E i \in 1..Len(q) : q[i] = UpsertEvent(s, p)
        /\ \A p \in Deleted(s) : \E i \in 1..Len(q) : q[i] = DeleteEvent(s, p)
        /\ \A i \in 1..Len(q) :
              \/ q[i].obj \in Upserted(s) /\ q[i] = UpsertEvent(s, q[i].obj)
              \/ q[i].obj \in Deleted(s) /\ q[i] = DeleteEvent(s, q[i].obj)
        /\ \A i, j \in 1..Len(q) : i < j /\ q[i].obj = q[j].obj =>
               /\ q[i].obj \in Upserted(s) \cap Deleted(s)
               /\ q[i] = UpsertEvent(s, q[i].obj) /\ q[j] = DeleteEvent(s, q[i].obj)
    BY <1>2, <1>3, <1>4, EnqueuedFacts
  <1>6. outbox' = q
    BY <1>2, <1>4, <1>5
  <1>7. UNCHANGED current
    BY <1>2 DEF vars
  <1>8. Upserted(s) \subseteq Objects /\ Deleted(s) \subseteq Objects
    BY DEF Upserted, Shown, Deleted, ObjectsOf, SyncAssumption
  <1>9. ASSUME NEW o \in Steady
        PROVE  /\ current[o].rev = rows[o][0].rev /\ rows[o][0].rev \in Nat
               /\ o \in Upserted(s) => Observed(s, o).rev = rows[o][0].rev + 1
               /\ o \in Deleted(s) /\ o \notin Upserted(s) => Observed(s, o).rev = rows[o][0].rev
               /\ rows'[o][0].rev = IF o \in Deleted(s) THEN Observed(s, o).rev + 1
                                    ELSE IF o \in Upserted(s) THEN Observed(s, o).rev
                                    ELSE rows[o][0].rev
               /\ o \in Upserted(s) =>
                     /\ UpsertEvent(s, o) = Entry(o, rows[o][0].rev + 1, Upsert(o, s.view[o]))
                     /\ Upsert(o, s.view[o]) \in EnvelopesOf(o)
               /\ o \in Deleted(s) =>
                     /\ DeleteEvent(s, o) = Entry(o, Observed(s, o).rev + 1, Delete(o))
                     /\ Delete(o) \in EnvelopesOf(o)
    <2>0. o \in Objects
      BY SteadyFacts
    <2>1. current[o].rev = rows[o][0].rev /\ rows[o][0].rev \in Nat
      BY <1>2, <2>0, CaughtUp, RevisionTypes DEF PostInv
    <2>2. /\ o \in Upserted(s) => Observed(s, o).rev = rows[o][0].rev + 1
          /\ o \in Upserted(s) => s.view[o] \in Contents
          /\ Tombstoned(s, o).rev = Observed(s, o).rev + 1
          /\ o \in Upserted(s) \/ o \in Deleted(s) => s.key = 0
      BY <1>3, KeptKey
    <2>3. o \in Deleted(s) /\ o \notin Upserted(s) => Observed(s, o) = rows[o][0]
      BY <2>2 DEF Observed
    <2>4. rows'[o][0] = IF o \in Deleted(s) THEN Tombstoned(s, o)
                        ELSE IF o \in Upserted(s) THEN Observed(s, o) ELSE rows[o][0]
      BY <1>1, ApplySays
    <2>5. /\ o \in Upserted(s) =>
                UpsertEvent(s, o) = Entry(o, rows[o][s.key].rev + 1, Upsert(o, s.view[o]))
          /\ o \in Deleted(s) => DeleteEvent(s, o) = Entry(o, Observed(s, o).rev + 1, Delete(o))
      BY <1>2, <1>3, <2>0, EventFacts
    <2>6. Delete(o) \in EnvelopesOf(o) /\ \A c \in Contents : Upsert(o, c) \in EnvelopesOf(o)
      BY <2>0, EnvelopeFacts
    <2> QED BY <2>1, <2>2, <2>3, <2>4, <2>5, <2>6
  <1>10. \A o, r, env : Entry(o, r, env).obj = o /\ Entry(o, r, env).rev = r /\ Entry(o, r, env).env = env
    BY DEF Entry
  <1>11. Ascending'
    <2> SUFFICES ASSUME NEW i \in 1..Len(q), NEW j \in 1..Len(q), i < j, q[i].obj = q[j].obj,
                        q[i].obj \in Steady
                 PROVE  q[i].rev < q[j].rev
      BY <1>6 DEF Ascending
    <2>1. PICK o \in Steady :  /\ o \in Upserted(s) /\ o \in Deleted(s)
                               /\ q[i] = UpsertEvent(s, o) /\ q[j] = DeleteEvent(s, o)
      BY <1>5, <1>8
    <2>2. q[i].rev = rows[o][0].rev + 1 /\ q[j].rev = (rows[o][0].rev + 1) + 1
      BY <1>9, <1>10, <2>1
    <2> QED BY <1>9, <2>2
  <1>12. Ahead'
    <2> SUFFICES ASSUME NEW i \in 1..Len(q), NEW x, x = q[i], x.obj \in Steady
                 PROVE  /\ x.env \in EnvelopesOf(x.obj)
                        /\ x.rev <= rows'[x.obj][0].rev
                        /\ x.rev > current'[x.obj].rev
      BY <1>6 DEF Ahead
    <2>1. CASE x.obj \in Upserted(s) /\ x = UpsertEvent(s, x.obj)
      <3>1. PICK o \in Steady : o = x.obj
        OBVIOUS
      <3>2. x.rev = rows[o][0].rev + 1 /\ x.env \in EnvelopesOf(o)
        BY <1>9, <1>10, <2>1, <3>1
      <3>3. rows[o][0].rev + 1 <= rows'[o][0].rev
        BY <1>9, <2>1, <3>1
      <3> QED BY <1>7, <1>9, <3>1, <3>2, <3>3
    <2>2. CASE x.obj \in Deleted(s) /\ x = DeleteEvent(s, x.obj)
      <3>1. PICK o \in Steady : o = x.obj
        OBVIOUS
      <3>2. x.rev = Observed(s, o).rev + 1 /\ x.env \in EnvelopesOf(o)
        BY <1>9, <1>10, <2>2, <3>1
      <3>3. rows'[o][0].rev = Observed(s, o).rev + 1 /\ Observed(s, o).rev >= rows[o][0].rev
            /\ Observed(s, o).rev \in Nat
        BY <1>9, <2>2, <3>1
      <3> QED BY <1>7, <1>9, <3>1, <3>2, <3>3
    <2> QED BY <1>5, <2>1, <2>2
  <1>13. NothingSkipped'
    <2> SUFFICES ASSUME NEW o \in Steady
                 PROVE  /\ current'[o].rev <= rows'[o][0].rev
                        /\ \A r \in Revisions : current'[o].rev < r /\ r <= rows'[o][0].rev =>
                              \E i \in 1..Len(q) : q[i].obj = o /\ q[i].rev = r
      BY <1>6 DEF NothingSkipped
    <2>1. current'[o].rev <= rows'[o][0].rev
      BY <1>7, <1>9
    <2>2. ASSUME NEW r \in Revisions, current'[o].rev < r, r <= rows'[o][0].rev
          PROVE  \E i \in 1..Len(q) : q[i].obj = o /\ q[i].rev = r
      <3>1. \/ o \in Upserted(s) /\ r = rows[o][0].rev + 1
            \/ o \in Deleted(s) /\ r = Observed(s, o).rev + 1
        <4>1. r \in Nat
          BY DEF Revisions
        <4> QED BY <1>7, <1>9, <2>2, <4>1
      <3> QED BY <1>5, <1>9, <1>10, <3>1
    <2> QED BY <2>1, <2>2
  <1> QED BY <1>11, <1>12, <1>13

\* After the snapshot the ledger agrees with it.
LEMMA ApplyScan ==
  ASSUME StoreAssumption, SyncAssumption, PostInv, LedgerShape, Apply
  PROVE  ScanApplied'
  <1>1. PICK s : s = Head(scans)
    OBVIOUS
  <1>2. s \in Scans /\ SyncTypeOK /\ (~Rolling \/ s.src = "daythread" => s.key = 0)
    <2>1. pc # "idle"
      BY DEF Apply
    <2> QED BY <1>1, <2>1, HeadScan DEF PostInv, CollectorInv
  <1>3. scans' = scans
    BY DEF Apply
  <1> SUFFICES ASSUME NEW o \in ObjectsOf(s.src), o \in Steady
               PROVE  /\ o \in Shown(s) \ s.gone =>
                            /\ rows'[o][0].rev > 0 /\ rows'[o][0].seen = s.view[o]
                            /\ rows'[o][0].current \/ s.src = "daythread"
                      /\ o \in s.gone \/ (s.complete /\ o \notin Shown(s)) => ~rows'[o][0].current
    BY <1>1, <1>3 DEF ScanApplied, Shown
  <1>4. o \in Objects /\ s.key = 0
    BY <1>2, SteadyFacts, KeptKey
  <1>5. PICK new : new = rows'[o][0]
    OBVIOUS
  <1>6. new = IF o \in Deleted(s) THEN Tombstoned(s, o) ELSE Observed(s, o)
    <2>1. new = IF o \in Deleted(s) THEN Tombstoned(s, o)
                ELSE IF o \in Upserted(s) THEN Observed(s, o) ELSE rows[o][0]
      BY <1>1, <1>5, ApplySays
    <2> QED BY <1>2, <1>4, <2>1, KeptKey
  <1>7. /\ o \in Upserted(s) => /\ Observed(s, o).rev = rows[o][0].rev + 1
                                /\ Observed(s, o).seen = s.view[o]
                                /\ Observed(s, o).current = TRUE
        /\ Tombstoned(s, o).current = FALSE
    BY <1>2, <1>4, KeptKey
  <1>8. o \notin Upserted(s) => Observed(s, o) = rows[o][0]
    BY <1>4 DEF Observed
  <1>9. rows[o][0].rev \in Nat
    BY <1>4, RevisionTypes DEF PostInv
  <1>10. ASSUME o \in Shown(s) \ s.gone
         PROVE  new.rev > 0 /\ new.seen = s.view[o] /\ (new.current \/ s.src = "daythread")
    <2>1. o \notin Deleted(s)
      BY <1>10 DEF Deleted
    <2>2. CASE o \in Upserted(s)
      BY <1>6, <1>7, <1>9, <2>1, <2>2
    <2>3. CASE o \notin Upserted(s)
      <3>1. Unchanged(s, o)
        BY <1>10, <2>3 DEF Upserted
      <3> QED BY <1>4, <1>6, <1>8, <2>1, <2>3, <3>1 DEF Unchanged
    <2> QED BY <2>2, <2>3
  <1>11. ASSUME o \in s.gone \/ (s.complete /\ o \notin Shown(s))
         PROVE  ~new.current
    <2>1. CASE o \in Deleted(s)
      BY <1>6, <1>7, <2>1
    <2>2. CASE o \notin Deleted(s)
      BY <1>6, <1>11, <2>2 DEF Deleted
    <2> QED BY <2>1, <2>2
  <1> QED BY <1>5, <1>10, <1>11

-----------------------------------------------------------------------------
(* Every step of the collector.                                            *)

\* The store's tables as far as the agreement reads them.
LEMMA StoreFrame ==
  ASSUME StoreShape, UNCHANGED vars
  PROVE  StoreShape'
  BY DEF StoreShape, Journalled, vars

\* A step that leaves the store, the ledger and the outbox alone.
LEMMA QuietStep ==
  ASSUME StoreAssumption, SyncAssumption, PostInv, LedgerShape, NeverRepeated,
         UNCHANGED <<vars, rows, outbox>>
  PROVE  StoreShape' /\ Ascending' /\ Ahead' /\ NothingSkipped' /\ LedgerShape' /\ NeverRepeated'
  <1>1. StoreShape'
    BY StoreFrame DEF PostInv
  <1>2. Ascending'
    BY DEF PostInv, Ascending
  <1>3. Ahead'
    BY DEF PostInv, Ahead, Journalled, vars
  <1>4. NothingSkipped'
    BY DEF PostInv, NothingSkipped, vars
  <1>5. \A p \in Steady : \A r \in Revisions, env \in EnvelopesOf(p) :
           Said(p, r, env)' <=> Said(p, r, env)
    BY DEF Said, Journalled, Queued, vars
  <1> QED BY <1>1, <1>2, <1>3, <1>4, <1>5, SaidKeeps

\* A step after which the same snapshot is applied, or none.
LEMMA ScanFrame ==
  ASSUME ScanApplied, UNCHANGED rows,
         (scans' = scans /\ (pc' \in {"send", "report"} => pc \in {"send", "report"}))
            \/ pc' \notin {"send", "report"}
  PROVE  ScanApplied'
  BY DEF ScanApplied, Shown

\* The agreement holds at first: nothing was said.
LEMMA AgreementInit == StoreAssumption /\ SyncAssumption /\ SyncInit => AgreementInv
  <1> SUFFICES ASSUME StoreAssumption, SyncAssumption, SyncInit PROVE AgreementInv
    OBVIOUS
  <1>1. CollectorInv /\ TypeOK
    BY CollectorInit, InitInv DEF SyncInit, StoreInv
  <1>2. /\ \A o \in Objects : /\ current[o] = NoCurrent /\ floor[o] = 0
                              /\ rows[o][0] = NoRow
                              /\ \A r \in Revisions : events[o][r].status = "none"
        /\ outbox = <<>> /\ pc = "idle"
    BY DEF SyncInit, Init, NoEvent, Keys, SyncAssumption
  <1>a. \A o \in Objects : current[o].rev = 0 /\ current[o].op = "none" /\ rows[o][0].rev = 0
    <2>1. NoCurrent.rev = 0 /\ NoCurrent.op = "none" /\ NoRow.rev = 0
      BY DEF NoCurrent, NoRow
    <2>2. \A o \in Objects : current[o] = NoCurrent /\ rows[o][0] = NoRow
      BY <1>2
    <2> QED BY <2>1, <2>2
  <1>b. \A r \in Revisions : ~(r <= 0) /\ ~(r < 0)
    BY DEF Revisions
  <1>c. DaythreadObjects \subseteq Steady /\ Steady \subseteq Objects
    BY SteadyFacts
  <1>3. StoreShape
    <2> SUFFICES ASSUME NEW o \in Steady
                 PROVE  /\ \A r \in Revisions : ~(r <= current[o].rev) /\ events[o][r].status = "none"
                        /\ floor[o] <= current[o].rev
                        /\ current[o].op = "none" /\ ~(current[o].rev > 0)
      BY DEF StoreShape
    <2>1. current[o].rev = 0 /\ current[o].op = "none" /\ floor[o] = 0
      BY <1>2, <1>a, <1>c
    <2>2. floor[o] <= current[o].rev /\ ~(current[o].rev > 0)
      BY <2>1
    <2>3. \A r \in Revisions : ~(r <= current[o].rev) /\ events[o][r].status = "none"
      BY <1>2, <1>b, <1>c, <2>1
    <2> QED BY <2>1, <2>2, <2>3
  <1>4. Ascending /\ Ahead
    BY <1>2 DEF Ascending, Ahead
  <1>5. NothingSkipped
    <2> SUFFICES ASSUME NEW o \in Steady
                 PROVE  /\ current[o].rev <= rows[o][0].rev
                        /\ \A r \in Revisions : ~(r <= rows[o][0].rev)
      BY DEF NothingSkipped
    <2>1. current[o].rev = 0 /\ rows[o][0].rev = 0
      BY <1>a, <1>c
    <2> QED BY <1>b, <2>1
  <1>6. LedgerShape
    BY <1>2, <1>c DEF LedgerShape, RowSaid, NoRow
  <1>7. NeverRepeated
    <2>1. \A o \in Objects, r \in Revisions : \A env : ~Said(o, r, env)
      BY <1>2 DEF Said, Journalled, Queued, NoCurrent, Revisions
    <2> QED BY <2>1 DEF NeverRepeated, SyncAssumption
  <1>8. ScanApplied
    BY <1>2 DEF ScanApplied
  <1> QED BY <1>1, <1>3, <1>4, <1>5, <1>6, <1>7, <1>8 DEF AgreementInv, PostInv

\* The step that a post is.
LEMMA AgreementPost ==
  ASSUME StoreAssumption, SyncAssumption, AgreementInv, Deliver \/ FailPost
  PROVE  StoreShape' /\ Ascending' /\ Ahead' /\ NothingSkipped' /\ LedgerShape' /\ NeverRepeated'
         /\ ScanApplied'
  <1>1. /\ outbox # <<>> /\ rows' = rows /\ scans' = scans
        /\ outbox' = outbox \/ outbox' = Tail(outbox)
        /\ pc' = pc \/ pc' = "failed"
        /\ StoreIngests(Head(outbox)) \/ UNCHANGED <<vars, outbox>>
    BY DEF Deliver, FailPost, Draining, ledgerVars, cycleVars
  <1>2. ScanApplied'
    BY <1>1, ScanFrame DEF AgreementInv
  <1>3. CASE StoreIngests(Head(outbox))
    <2>1. StoreShape' /\ Ascending' /\ Ahead' /\ NothingSkipped'
      BY <1>1, <1>3, PostStoreShape, PostQueueShape DEF AgreementInv
    <2>2. \A p \in Steady : \A r \in Revisions, env \in EnvelopesOf(p) :
             Said(p, r, env)' <=> Said(p, r, env)
      BY <1>1, <1>3, PostSays DEF AgreementInv
    <2> QED BY <1>1, <1>2, <2>1, <2>2, SaidKeeps DEF AgreementInv
  <1>4. CASE UNCHANGED <<vars, outbox>>
    BY <1>1, <1>2, <1>4, QuietStep DEF AgreementInv
  <1> QED BY <1>1, <1>3, <1>4

\* Every step keeps the collector and the store in agreement.
LEMMA AgreementNext ==
  ASSUME StoreAssumption, SyncAssumption, StoreInv, StoreInv', AgreementInv,
         [SyncNext]_syncVars
  PROVE  AgreementInv'
  <1>1. CollectorInv' /\ TypeOK'
    BY CollectorNext DEF AgreementInv, PostInv, StoreInv
  <1>2. CASE Deliver \/ FailPost
    BY <1>1, <1>2, AgreementPost DEF AgreementInv, PostInv
  <1>3. CASE Apply
    <2>1. StoreShape'
      BY <1>3, StoreFrame DEF Apply, AgreementInv, PostInv
    <2>2. LedgerShape' /\ NeverRepeated' /\ ScanApplied'
      BY <1>3, ApplyLedger, ApplyNeverRepeats, ApplyScan DEF AgreementInv
    <2>3. Ascending' /\ Ahead' /\ NothingSkipped'
      BY <1>3, ApplyQueueShape DEF AgreementInv
    <2> QED BY <1>1, <2>1, <2>2, <2>3 DEF AgreementInv, PostInv
  <1>4. CASE (SyncNext /\ ~(Deliver \/ FailPost \/ Apply)) \/ UNCHANGED syncVars
    <2>1. UNCHANGED <<vars, rows, outbox>>
      BY <1>4 DEF SyncNext, syncVars, Edit, NewDay, StartCycle, Resolve, Drained, ReportCoverage,
                  LoseReport, ReportFailure, LoseFailure, Crash, ledgerVars
    <2>2. (scans' = scans /\ (pc' \in {"send", "report"} => pc \in {"send", "report"}))
            \/ pc' \notin {"send", "report"}
      BY <1>4 DEF SyncNext, syncVars, Edit, NewDay, StartCycle, Resolve, Drained, ReportCoverage,
                  LoseReport, ReportFailure, LoseFailure, Crash, NextSource, cycleVars
    <2>3. ScanApplied'
      BY <2>1, <2>2, ScanFrame DEF AgreementInv
    <2> QED BY <1>1, <2>1, <2>3, QuietStep DEF AgreementInv, PostInv
  <1> QED BY <1>2, <1>3, <1>4

\* The agreement, from the first state on and with any coverage window.
LEMMA AgreementInvariance == SyncSpec => []AgreementInv
  <1>1. SyncInit => AgreementInv
    BY StoreAssumption, SyncAssumption, AgreementInit
  <1>2. AgreementInv /\ StoreInv /\ StoreInv' /\ [SyncNext]_syncVars => AgreementInv'
    BY StoreAssumption, SyncAssumption, AgreementNext
  <1>3. SyncSpec => []StoreInv
    BY CollectorUsesStore, Invariance
  <1> QED BY <1>1, <1>2, <1>3, PTL DEF SyncSpec

-----------------------------------------------------------------------------
(* What the agreement means for the posts and the reports.                 *)

\* HeadIsAdmissible of every row whose coverage key is fixed: the store admits
\* the row at the head of the outbox or has it already; it never answers 400
\* and never files it as late, whatever was lost or crashed before.
THEOREM NothingIsRefused ==
  SyncSpec => [](outbox # <<>> /\ Head(outbox).obj \in Steady => HeadIsAdmissible)
  <1>1. AgreementInv => (outbox # <<>> /\ Head(outbox).obj \in Steady => HeadIsAdmissible)
    BY StoreAssumption, SyncAssumption, HeadFacts DEF AgreementInv, HeadIsAdmissible
  <1> QED BY <1>1, AgreementInvariance, PTL

\* HeadIsAdmissible, when the calendar has a fixed window: no post of the
\* collector is ever refused.
THEOREM FixedWindowIsAdmitted ==
  ASSUME ~Rolling
  PROVE  SyncSpec => []HeadIsAdmissible
  <1>1. AgreementInv => HeadIsAdmissible
    <2> SUFFICES ASSUME AgreementInv, outbox # <<>>
                 PROVE  Outcome(Head(outbox)) \in {"accepted", "duplicate"}
      BY DEF HeadIsAdmissible
    <2>1. Head(outbox).obj \in Steady
      BY StoreAssumption, SyncAssumption, HeadRow, SteadyFacts DEF AgreementInv, PostInv
    <2> QED BY <2>1, StoreAssumption, SyncAssumption, HeadFacts DEF AgreementInv
  <1> QED BY <1>1, AgreementInvariance, PTL

\* With an empty outbox the store serves what the ledger's row says.
LEMMA ServesRow ==
  ASSUME StoreAssumption, SyncAssumption, AgreementInv, outbox = <<>>, NEW o \in Steady
  PROVE  /\ rows[o][0].current => Serves(o) = rows[o][0].seen /\ rows[o][0].seen # Null
         /\ ~rows[o][0].current => Serves(o) = Null
         /\ rows[o][0].rev > 0 /\ ~rows[o][0].current => current[o].op = "delete"
  <1>1. /\ rows[o][0] \in LedgerRows /\ rows[o][0].rev \in Nat /\ rows[o][0].rev <= MaxRevision
        /\ rows[o][0].current \in BOOLEAN
    BY SteadyFacts, RevisionTypes DEF AgreementInv, PostInv
  <1>2. /\ current[o].rev = rows[o][0].rev
        /\ \A r, env : Said(o, r, env) => Journalled(o, r, env)
    BY CaughtUp DEF AgreementInv
  <1>3. /\ rows[o][0].rev = 0 => ~rows[o][0].current
        /\ rows[o][0].current =>
              rows[o][0].seen \in Contents /\ Said(o, rows[o][0].rev, Upsert(o, rows[o][0].seen))
        /\ rows[o][0].rev > 0 /\ ~rows[o][0].current => Said(o, rows[o][0].rev, Delete(o))
    BY <1>1 DEF AgreementInv, LedgerShape, RowSaid
  <1>4. /\ current[o].rev = 0 => current[o].op = "none"
        /\ current[o].rev > 0 => current[o].op = events[o][current[o].rev].op
        /\ current[o].op = "upsert" => current[o].payload = events[o][current[o].rev].content
    BY DEF AgreementInv, PostInv, StoreShape
  <1>5. /\ Delete(o).op = "delete"
        /\ \A c : Upsert(o, c).op = "upsert" /\ Upsert(o, c).content = c
    BY DEF Delete, Upsert
  <1>6. rows[o][0].rev = 0 \/ rows[o][0].rev > 0
    BY <1>1
  <1>7. CASE rows[o][0].current
    <2>1. rows[o][0].rev > 0 /\ Journalled(o, rows[o][0].rev, Upsert(o, rows[o][0].seen))
      BY <1>2, <1>3, <1>6, <1>7
    <2>2. current[o].op = "upsert" /\ current[o].payload = rows[o][0].seen
      BY <1>2, <1>4, <1>5, <2>1 DEF Journalled
    <2> QED BY <1>3, <1>7, <2>2, StoreAssumption DEF Serves
  <1>8. CASE ~rows[o][0].current /\ rows[o][0].rev = 0
    BY <1>2, <1>4, <1>8, <1>6 DEF Serves
  <1>9. CASE ~rows[o][0].current /\ rows[o][0].rev > 0
    <2>1. current[o].op = "delete"
      BY <1>2, <1>3, <1>4, <1>5, <1>9 DEF Journalled
    <2> QED BY <1>9, <2>1 DEF Serves
  <1> QED BY <1>6, <1>7, <1>8, <1>9

\* When a source whose coverage key is fixed is about to be reported, the store
\* serves what its snapshot showed.
LEMMA ReportServed ==
  ASSUME StoreAssumption, SyncAssumption, AgreementInv,
         pc = "report" => ~Rolling \/ Head(scans).src = "daythread"
  PROVE  ReportedIsServed
  <1> SUFFICES ASSUME pc = "report", NEW s, s = Head(scans), NEW o \in ObjectsOf(s.src)
               PROVE  /\ o \in Shown(s) \ s.gone =>
                            \/ Serves(o) = s.view[o]
                            \/ /\ s.src = "daythread" /\ current[o].op = "delete"
                               /\ rows[o][s.key].seen = s.view[o]
                      /\ o \in s.gone \/ (s.complete /\ o \notin Shown(s)) => Serves(o) = Null
    BY DEF ReportedIsServed
  <1>1. s.key = 0
    BY HeadScan DEF AgreementInv, PostInv
  <1>2. outbox = <<>>
    BY DEF AgreementInv, PostInv, CollectorInv, ScanShape
  <1>3. o \in Steady
    <2>1. o \in Objects /\ (s.src = "daythread" => o \in DaythreadObjects)
      BY DEF ObjectsOf, SyncAssumption
    <2> QED BY <2>1, SteadyFacts
  <1>4. /\ rows[o][0].current => Serves(o) = rows[o][0].seen
        /\ ~rows[o][0].current => Serves(o) = Null
        /\ rows[o][0].rev > 0 /\ ~rows[o][0].current => current[o].op = "delete"
    BY <1>2, <1>3, ServesRow
  <1>5. /\ o \in Shown(s) \ s.gone =>
              /\ rows[o][0].rev > 0 /\ rows[o][0].seen = s.view[o]
              /\ rows[o][0].current \/ s.src = "daythread"
        /\ o \in s.gone \/ (s.complete /\ o \notin Shown(s)) => ~rows[o][0].current
    BY <1>3 DEF AgreementInv, ScanApplied
  <1> QED BY <1>1, <1>4, <1>5

\* ReportedIsServed of daythread, with any coverage window: a report of
\* coverage is only posted when the store serves what the export and the
\* resolver said, and no longer serves what the resolver called gone.
THEOREM DaythreadReportsAreServed ==
  SyncSpec => [](pc = "report" /\ Head(scans).src = "daythread" => ReportedIsServed)
  <1>1. AgreementInv => (pc = "report" /\ Head(scans).src = "daythread" => ReportedIsServed)
    BY StoreAssumption, SyncAssumption, ReportServed
  <1> QED BY <1>1, AgreementInvariance, PTL

\* ReportedIsServed of both sources, when the calendar has a fixed window.
THEOREM FixedWindowReportsAreServed ==
  ASSUME ~Rolling
  PROVE  SyncSpec => []ReportedIsServed
  <1>1. AgreementInv => ReportedIsServed
    BY StoreAssumption, SyncAssumption, ReportServed
  <1> QED BY <1>1, AgreementInvariance, PTL

\* Only a post changes what the store serves.
LEMMA OnlyPosts ==
  ASSUME SyncNext \/ UNCHANGED syncVars
  PROVE  UNCHANGED vars \/ (outbox # <<>> /\ StoreIngests(Head(outbox)))
  BY DEF SyncNext, syncVars, Edit, NewDay, StartCycle, Resolve, Apply, Deliver, FailPost, Drained,
         ReportCoverage, LoseReport, ReportFailure, LoseFailure, Crash, Draining

\* NoStaleRecreation holds with any coverage window: a deleted daythread object
\* is only recreated by a post, of the revision after the deletion (HeadFacts);
\* the journal has the version withdrawn right before the deletion, and the
\* ledger never assigned the next revision to that version (NeverRepeated).
THEOREM WithdrawnStaysWithdrawn == SyncSpec => NoStaleRecreation
  <1>1. ASSUME AgreementInv, [SyncNext]_syncVars
        PROVE  RecreatedIsNew
    <2> SUFFICES ASSUME NEW o \in DaythreadObjects,
                        current[o].op = "delete", current'[o].op = "upsert",
                        current'[o].payload = Withdrawn(o)
                 PROVE  FALSE
      BY DEF RecreatedIsNew
    <2> USE StoreAssumption, SyncAssumption
    <2>1. o \in Objects /\ o \in Steady /\ ~(UNCHANGED vars)
      BY SteadyFacts DEF SyncAssumption, vars
    <2>2. PICK e : e = Head(outbox)
      OBVIOUS
    <2>3. outbox # <<>> /\ StoreIngests(e) /\ PostInv
      BY <1>1, <2>1, <2>2, OnlyPosts DEF AgreementInv
    <2>a. e.obj = o
      BY <2>1, <2>2, <2>3, PostElsewhere
    <2>4. /\ e = outbox[1] /\ 1 \in 1..Len(outbox)
          /\ e.obj \in Objects /\ e.rev \in Revisions /\ e.env \in EnvelopesOf(e.obj)
          /\ e = Entry(e.obj, e.rev, e.env)
          /\ \/ e.rev = current[e.obj].rev + 1
             \/ e.rev = current[e.obj].rev /\ Journalled(e.obj, e.rev, e.env)
      BY <2>1, <2>2, <2>3, <2>a, HeadFacts
    <2>5. /\ current'[e.obj].op = e.env.op
          /\ e.env.op = "upsert" => current'[e.obj].payload = e.env.content
      BY <2>1, <2>2, <2>3, <2>a, PostFacts
    <2>6. e.obj = o /\ e.env.op = "upsert"
      BY <2>a, <2>5
    <2>7. PICK c \in Contents : e.env = Upsert(o, c)
      BY <2>4, <2>6 DEF EnvelopesOf, Delete
    <2>8. /\ current[o].rev \in Nat /\ current[o].rev <= MaxRevision
          /\ e.rev \in Nat /\ e.rev <= MaxRevision
      <3>1. e.rev \in Nat /\ e.rev <= MaxRevision
        BY <2>4 DEF Revisions
      <3> QED BY <2>1, <2>3, <3>1, RevisionTypes DEF PostInv
    <2>9. current[o].rev > 0 /\ current[o].op = events[o][current[o].rev].op
      <3>1. /\ current[o].rev = 0 => current[o].op = "none"
            /\ current[o].rev > 0 => current[o].op = events[o][current[o].rev].op
        BY <2>1, <2>3 DEF PostInv, StoreShape
      <3> QED BY <2>8, <3>1
    <2>10. e.rev = current[o].rev + 1
      BY <2>4, <2>6, <2>9 DEF Journalled
    <2>11. current[o].rev \in Revisions /\ current[o].rev < MaxRevision
      BY <2>8, <2>9, <2>10 DEF Revisions
    <2>12. Said(o, current[o].rev, Delete(o))
      <3>1. PICK env \in EnvelopesOf(o) : Journalled(o, current[o].rev, env)
        BY <2>1, <2>3, <2>8, <2>11 DEF PostInv, StoreShape
      <3>2. env = Delete(o)
        BY <2>9, <3>1 DEF Journalled, EnvelopesOf, Upsert
      <3> QED BY <3>1, <3>2 DEF Said
    <2>13. /\ current[o].rev > 1
           /\ \E d \in Contents : Said(o, current[o].rev - 1, Upsert(o, d))
           /\ \A d \in Contents : Said(o, current[o].rev - 1, Upsert(o, d)) =>
                 ~Said(o, current[o].rev + 1, Upsert(o, d))
      BY <1>1, <2>11, <2>12 DEF AgreementInv, NeverRepeated
    <2>14. PICK d \in Contents : Said(o, current[o].rev - 1, Upsert(o, d))
      BY <2>13
    <2>15. events[o][current[o].rev - 1].content = d
      <3>1. Journalled(o, current[o].rev - 1, Upsert(o, d))
        <4>1. ASSUME Queued(Entry(o, current[o].rev - 1, Upsert(o, d))) PROVE FALSE
          <5>1. PICK i \in 1..Len(outbox) :
                   outbox[i].obj = o /\ outbox[i].rev = current[o].rev - 1
            BY <4>1 DEF Queued, Entry
          <5>2. outbox[i].rev >= current[o].rev
            <6>1. outbox[i].rev > current[o].rev \/ outbox[i].rev = current[o].rev
              BY <2>1, <2>3, <5>1 DEF PostInv, Ahead
            <6> QED BY <2>8, <5>1, <6>1
          <5> QED BY <2>8, <5>1, <5>2
        <4> QED BY <2>14, <4>1 DEF Said
      <3> QED BY <3>1 DEF Journalled, Upsert
    <2>16. c = d
      <3>1. current'[o].payload = c
        BY <2>5, <2>6, <2>7 DEF Upsert
      <3> QED BY <2>15, <3>1 DEF Withdrawn
    <2>17. Said(o, current[o].rev + 1, Upsert(o, c))
      BY <2>4, <2>6, <2>7, <2>10 DEF Said, Queued
    <2> QED BY <2>13, <2>14, <2>16, <2>17
  <1>2. AgreementInv /\ [SyncNext]_syncVars => [RecreatedIsNew]_syncVars
    BY <1>1
  <1> QED BY <1>2, AgreementInvariance, PTL DEF SyncSpec, NoStaleRecreation
=============================================================================

-------------------------- MODULE RelayQueueProofs --------------------------
(* Proofs about RelayQueue, for any number of rows and relays.             *)
EXTENDS RelayQueue, FiniteSetTheorems, TLAPS

Size == Cardinality(Rows)

(* Only a relay that is at work has rows.                                  *)
RestingHasNone ==
  \A x \in Relays : at[x] \in {"asleep", "awake"} => batch[x] = {} /\ acked[x] = {}

(* Nobody has locked a row that is published.                              *)
LockedIsUnpublished == \A x \in Relays : batch[x] \cap published = {}

(* The transaction of a visible row has begun.                             *)
VisibleHasBegun == \A q \in visible : created[q] # 0

(* What was visible when a row's transaction began is visible and older.   *)
SeenIsOlder ==
  \A r \in Rows : \A q \in seen[r] : q \in visible /\ created[q] < created[r]

IInv ==
  /\ TypeOK
  /\ RestingHasNone
  /\ BatchesAreDisjoint
  /\ LockedIsUnpublished
  /\ VisibleHasBegun
  /\ SeenIsOlder

LEMMA SizeIsNat == Size \in Nat
BY RelayQueueAssumption, FS_CardinalityType DEF Size

LEMMA InitInv == Init => IInv
<1> SUFFICES ASSUME Init PROVE IInv
  OBVIOUS
<1>1. 0 \in 0..Size
  BY SizeIsNat
<1>2. TypeOK
  BY <1>1 DEF Init, TypeOK, Size
<1> QED
  BY <1>2 DEF Init, IInv, RestingHasNone, BatchesAreDisjoint, LockedIsUnpublished,
              VisibleHasBegun, SeenIsOlder

-----------------------------------------------------------------------------
(* The two steps of a writer.                                              *)
LEMMA BeginInv ==
  ASSUME IInv, NEW r \in Rows, Begin(r)
  PROVE  IInv'
<1> USE DEF IInv
<1>1. PICK t \in 1..Size :
        /\ \A q \in Rows : created[q] <= t
        /\ \A q \in visible : created[q] < t
        /\ created' = [created EXCEPT ![r] = t]
  BY DEF Begin, Size
<1>2. /\ created[r] = 0 /\ seen' = [seen EXCEPT ![r] = visible]
      /\ UNCHANGED <<visible, published, sent, at, batch, acked>>
  BY DEF Begin
<1>3. t \in 0..Size /\ t # 0
  BY SizeIsNat, <1>1
<1>4. created \in [Rows -> 0..Size] /\ seen \in [Rows -> SUBSET Rows]
      /\ visible \subseteq Rows
  BY DEF TypeOK, Size
<1>5. created' \in [Rows -> 0..Size] /\ seen' \in [Rows -> SUBSET Rows]
  BY <1>1, <1>2, <1>3, <1>4
<1>6. TypeOK'
  BY <1>2, <1>5 DEF TypeOK, Size
<1>7. RestingHasNone' /\ BatchesAreDisjoint' /\ LockedIsUnpublished'
  BY <1>2 DEF RestingHasNone, BatchesAreDisjoint, LockedIsUnpublished
<1>8. r \notin visible
  BY <1>2 DEF VisibleHasBegun
<1>9. \A q \in visible : created'[q] = created[q]
  BY <1>1, <1>4, <1>8
<1>10. VisibleHasBegun'
  BY <1>2, <1>9 DEF VisibleHasBegun
<1>11. ASSUME NEW p \in Rows, NEW q \in seen'[p]
       PROVE  q \in visible' /\ created'[q] < created'[p]
  <2>1. CASE p = r
    BY <1>1, <1>2, <1>4, <1>9, <2>1
  <2>2. CASE p # r
    BY <1>1, <1>2, <1>4, <1>9, <2>2 DEF SeenIsOlder
  <2> QED
    BY <2>1, <2>2
<1>12. SeenIsOlder'
  BY <1>11 DEF SeenIsOlder
<1> QED
  BY <1>6, <1>7, <1>10, <1>12

LEMMA CommitInv ==
  ASSUME IInv, NEW r \in Rows, Commit(r)
  PROVE  IInv'
<1> USE DEF IInv, Commit
<1>1. TypeOK'
  BY DEF TypeOK
<1>2. RestingHasNone' /\ BatchesAreDisjoint' /\ LockedIsUnpublished'
  BY DEF RestingHasNone, BatchesAreDisjoint, LockedIsUnpublished
<1>3. VisibleHasBegun' /\ SeenIsOlder'
  BY DEF VisibleHasBegun, SeenIsOlder
<1> QED
  BY <1>1, <1>2, <1>3

-----------------------------------------------------------------------------
(* The steps of a relay leave the writers' part alone.                     *)
LEMMA TableInv ==
  ASSUME IInv, UNCHANGED table
  PROVE  VisibleHasBegun' /\ SeenIsOlder'
BY DEF IInv, table, VisibleHasBegun, SeenIsOlder

LEMMA TickInv ==
  ASSUME IInv, NEW x \in Relays, Tick(x)
  PROVE  IInv'
<1> USE DEF IInv, Tick, table
<1>1. TypeOK'
  BY DEF TypeOK
<1>2. RestingHasNone'
  BY DEF RestingHasNone, TypeOK
<1>3. BatchesAreDisjoint' /\ LockedIsUnpublished'
  BY DEF BatchesAreDisjoint, LockedIsUnpublished
<1> QED
  BY <1>1, <1>2, <1>3, TableInv

LEMMA SelectInv ==
  ASSUME IInv, NEW x \in Relays, Select(x)
  PROVE  IInv'
<1> USE DEF IInv
<1>1. PICK rows \in SUBSET Unpublished(x) :
        /\ batch' = [batch EXCEPT ![x] = rows]
        /\ at' = [at EXCEPT ![x] = IF rows = {} THEN "asleep" ELSE "selected"]
  BY DEF Select
<1>2. at[x] = "awake" /\ UNCHANGED <<table, published, sent, acked>>
  BY DEF Select
<1>3. rows \subseteq visible /\ rows \cap published = {}
      /\ \A y \in Relays \ {x} : rows \cap batch[y] = {}
  BY <1>1 DEF Unpublished, Locked
<1>4. batch \in [Relays -> SUBSET visible] /\ acked[x] = {}
      /\ at \in [Relays -> {"asleep", "awake", "selected", "sent"}]
  BY <1>2 DEF TypeOK, RestingHasNone
<1>5. at' \in [Relays -> {"asleep", "awake", "selected", "sent"}]
      /\ batch' \in [Relays -> SUBSET visible]
  BY <1>1, <1>3, <1>4
<1>6. \A y \in Relays : acked'[y] \subseteq batch'[y] \cap sent'
  BY <1>1, <1>2, <1>4 DEF TypeOK
<1>7. TypeOK'
  BY <1>2, <1>4, <1>5, <1>6 DEF TypeOK, table
<1>8. RestingHasNone'
  BY <1>1, <1>2, <1>4 DEF RestingHasNone
<1>9. BatchesAreDisjoint'
  BY <1>1, <1>3, <1>4 DEF BatchesAreDisjoint
<1>10. LockedIsUnpublished'
  BY <1>1, <1>2, <1>3, <1>4 DEF LockedIsUnpublished
<1> QED
  BY <1>2, <1>7, <1>8, <1>9, <1>10, TableInv

(* A transaction that ends frees its rows; what it publishes is its own.   *)
LEMMA ReleasedInv ==
  ASSUME IInv, NEW x \in Relays, NEW next \in {"asleep", "awake"}, Released(x, next),
         NEW marked \in SUBSET acked[x], published' = published \cup marked,
         UNCHANGED table, sent' \in SUBSET visible, sent \subseteq sent'
  PROVE  IInv'
<1> USE DEF IInv
<1>1. /\ batch \in [Relays -> SUBSET visible]
      /\ at \in [Relays -> {"asleep", "awake", "selected", "sent"}]
      /\ acked[x] \subseteq batch[x] /\ batch[x] \subseteq visible
  BY DEF TypeOK
<1>2. /\ batch' = [batch EXCEPT ![x] = {}]
      /\ at' = [at EXCEPT ![x] = next]
      /\ acked' = [acked EXCEPT ![x] = {}]
  BY DEF Released
<1>3. batch' \in [Relays -> SUBSET visible]
      /\ at' \in [Relays -> {"asleep", "awake", "selected", "sent"}]
  BY <1>1, <1>2
<1>4. \A y \in Relays : batch'[y] = IF y = x THEN {} ELSE batch[y]
  BY <1>1, <1>2
<1>5. \A y \in Relays \ {x} : at'[y] = at[y]
  BY <1>1, <1>2
<1>6. /\ acked' \in [Relays -> SUBSET visible]
      /\ \A y \in Relays : acked'[y] = IF y = x THEN {} ELSE acked[y]
  BY <1>2 DEF TypeOK
<1>7. TypeOK'
  BY <1>1, <1>3, <1>4, <1>6 DEF TypeOK, table
<1>8. RestingHasNone'
  BY <1>4, <1>5, <1>6 DEF RestingHasNone
<1>9. BatchesAreDisjoint'
  BY <1>4 DEF BatchesAreDisjoint
<1>10. LockedIsUnpublished'
  BY <1>1, <1>4 DEF LockedIsUnpublished, BatchesAreDisjoint
<1> QED
  BY <1>7, <1>8, <1>9, <1>10, TableInv

LEMMA SendInv ==
  ASSUME IInv, NEW x \in Relays, NEW rows \in SUBSET batch[x], Send(x, rows)
  PROVE  IInv'
<1> USE DEF IInv
<1>1. /\ rows \subseteq visible /\ sent' = sent \cup rows /\ sent \subseteq visible
      /\ UNCHANGED <<table, published>>
  BY DEF Send, TypeOK
<1>2. CASE rows = {}
  <2>1. Released(x, "asleep")
    BY <1>2 DEF Send
  <2>2. {} \in SUBSET acked[x] /\ published' = published \cup {}
    BY <1>1
  <2>3. sent' \in SUBSET visible /\ sent \subseteq sent' /\ UNCHANGED table
    BY <1>1
  <2>4. "asleep" \in {"asleep", "awake"}
    OBVIOUS
  <2> QED
    BY <2>1, <2>2, <2>3, <2>4, ReleasedInv
<1>3. CASE rows # {}
  <2>1. /\ at[x] = "selected" /\ at' = [at EXCEPT ![x] = "sent"]
        /\ acked' = [acked EXCEPT ![x] = rows]
        /\ batch' = batch
    BY <1>3 DEF Send
  <2>2. TypeOK'
    BY <1>1, <2>1 DEF TypeOK, table
  <2>3. RestingHasNone'
    BY <2>1 DEF RestingHasNone, TypeOK
  <2>4. BatchesAreDisjoint' /\ LockedIsUnpublished'
    BY <1>1, <2>1 DEF BatchesAreDisjoint, LockedIsUnpublished
  <2> QED
    BY <1>1, <2>2, <2>3, <2>4, TableInv
<1> QED
  BY <1>2, <1>3

LEMMA MarkInv ==
  ASSUME IInv, NEW x \in Relays, Mark(x)
  PROVE  IInv'
<1>1. PICK next \in {"asleep", "awake"} : Released(x, next)
  BY DEF Mark
<1>2. published' = published \cup acked[x] /\ UNCHANGED <<table, sent>>
  BY DEF Mark
<1>3. sent' \in SUBSET visible
  BY <1>2 DEF IInv, TypeOK
<1> QED
  BY <1>1, <1>2, <1>3, ReleasedInv

LEMMA FailInv ==
  ASSUME IInv, NEW x \in Relays, Fail(x)
  PROVE  IInv'
<1>1. Released(x, "asleep") /\ UNCHANGED <<table, sent>>
  BY DEF Fail
<1>2. PICK marked \in SUBSET acked[x] : published' = published \cup marked
  <2>1. CASE published' = published
    <3>1. {} \in SUBSET acked[x] /\ published' = published \cup {}
      BY <2>1
    <3> QED
      BY <3>1
  <2>2. CASE published' = published \cup acked[x]
    BY <2>2
  <2> QED
    BY <2>1, <2>2 DEF Fail
<1>3. sent' \in SUBSET visible
  BY <1>1 DEF IInv, TypeOK
<1> QED
  BY <1>1, <1>2, <1>3, ReleasedInv

-----------------------------------------------------------------------------
LEMMA NextInv == IInv /\ [Next]_vars => IInv'
<1> SUFFICES ASSUME IInv, [Next]_vars PROVE IInv'
  OBVIOUS
<1>1. ASSUME NEW r \in Rows, Begin(r) PROVE IInv'
  BY <1>1, BeginInv
<1>2. ASSUME NEW r \in Rows, Commit(r) PROVE IInv'
  BY <1>2, CommitInv
<1>3. ASSUME NEW x \in Relays, Tick(x) PROVE IInv'
  BY <1>3, TickInv
<1>4. ASSUME NEW x \in Relays, Select(x) PROVE IInv'
  BY <1>4, SelectInv
<1>5. ASSUME NEW x \in Relays, Mark(x) PROVE IInv'
  BY <1>5, MarkInv
<1>6. ASSUME NEW x \in Relays, Fail(x) PROVE IInv'
  BY <1>6, FailInv
<1>7. ASSUME NEW x \in Relays, NEW rows \in SUBSET batch[x], Send(x, rows) PROVE IInv'
  BY <1>7, SendInv
<1>8. CASE UNCHANGED vars
  BY <1>8 DEF vars, IInv, TypeOK, RestingHasNone, BatchesAreDisjoint, LockedIsUnpublished,
              VisibleHasBegun, SeenIsOlder
<1> QED
  BY <1>1, <1>2, <1>3, <1>4, <1>5, <1>6, <1>7, <1>8 DEF Next

(* Invariance: the inductive invariant of the queue.                       *)
THEOREM Invariance == Spec => []IInv
BY InitInv, NextInv, PTL DEF Spec

(* Type correctness.                                                       *)
THEOREM TypeCorrectness == Spec => []TypeOK
<1>1. IInv => TypeOK
  BY DEF IInv
<1> QED
  BY <1>1, Invariance, PTL

(* Two relays never hold the same row: FOR UPDATE SKIP LOCKED and the      *)
(* release of the locks with their transaction.                            *)
THEOREM RelaysDoNotMeet == Spec => []BatchesAreDisjoint
<1>1. IInv => BatchesAreDisjoint
  BY DEF IInv
<1> QED
  BY <1>1, Invariance, PTL

(* What is marked, Kafka has: the order of Send and Mark, with a failure   *)
(* at any point between them.                                              *)
SentInv == IInv /\ PublishedWasSent

LEMMA NextSent == SentInv /\ [Next]_vars => SentInv'
<1> SUFFICES ASSUME SentInv, [Next]_vars PROVE PublishedWasSent'
  BY NextInv DEF SentInv
<1> USE DEF SentInv, PublishedWasSent
<1>1. \A x \in Relays : acked[x] \subseteq sent
  BY DEF IInv, TypeOK
<1>2. ASSUME NEW r \in Rows, Begin(r) \/ Commit(r) PROVE PublishedWasSent'
  BY <1>2 DEF Begin, Commit
<1>3. ASSUME NEW x \in Relays, Tick(x) \/ Select(x) PROVE PublishedWasSent'
  BY <1>3 DEF Tick, Select
<1>4. ASSUME NEW x \in Relays, Mark(x) \/ Fail(x) PROVE PublishedWasSent'
  BY <1>1, <1>4 DEF Mark, Fail
<1>5. ASSUME NEW x \in Relays, NEW rows \in SUBSET batch[x], Send(x, rows)
      PROVE  PublishedWasSent'
  BY <1>5 DEF Send
<1>6. CASE UNCHANGED vars
  BY <1>6 DEF vars
<1> QED
  BY <1>2, <1>3, <1>4, <1>5, <1>6 DEF Next

(* Every row marked as published was acknowledged by Kafka, whichever     *)
(* commit, send or mark failed before.                                     *)
THEOREM MarkedWasSent == Spec => []PublishedWasSent
<1>1. Init => SentInv
  BY InitInv DEF Init, SentInv, PublishedWasSent
<1>2. SentInv => PublishedWasSent
  BY DEF SentInv
<1> QED
  BY <1>1, <1>2, NextSent, PTL DEF Spec

-----------------------------------------------------------------------------
TakesInOrder ==
  \A x \in Relays : at[x] = "awake" =>
    \A r \in batch'[x] : seen[r] \subseteq published \cup batch'[x] \cup Locked(x)

(* The batch a relay selects has all it saw that are older than one of it. *)
LEMMA SelectInOrder ==
  ASSUME IInv, NEW x \in Relays, Select(x), NEW r \in batch'[x]
  PROVE  seen[r] \subseteq published \cup batch'[x] \cup Locked(x)
<1>1. PICK rows \in SUBSET Unpublished(x) :
        Oldest(rows, Unpublished(x)) /\ batch' = [batch EXCEPT ![x] = rows]
  BY DEF Select
<1>2. batch'[x] = rows
  BY <1>1 DEF IInv, TypeOK
<1>3. r \in Rows
  BY <1>1, <1>2 DEF Unpublished, IInv, TypeOK
<1>4. SUFFICES ASSUME NEW q \in seen[r], q \in Unpublished(x), q \notin rows
               PROVE  FALSE
  BY <1>2, <1>3 DEF Unpublished, IInv, SeenIsOlder
<1>5. created[q] < created[r] /\ created[r] <= created[q]
  BY <1>1, <1>2, <1>3, <1>4 DEF Oldest, IInv, SeenIsOlder
<1>6. created[q] \in Int /\ created[r] \in Int
  BY <1>3, <1>4, SizeIsNat DEF IInv, TypeOK, Unpublished, Size
<1> QED
  BY <1>5, <1>6

LEMMA StepInOrder == IInv /\ [Next]_vars => TakesInOrder
<1> SUFFICES ASSUME IInv, [Next]_vars, NEW x \in Relays, at[x] = "awake", NEW r \in batch'[x]
             PROVE  seen[r] \subseteq published \cup batch'[x] \cup Locked(x)
  BY DEF TakesInOrder
<1>1. batch[x] = {} /\ batch \in [Relays -> SUBSET visible]
  BY DEF IInv, RestingHasNone, TypeOK
<1>2. batch' # batch
  BY <1>1
<1>3. ASSUME NEW y \in Relays, Select(y)
      PROVE  seen[r] \subseteq published \cup batch'[x] \cup Locked(x)
  <2>1. CASE y = x
    BY <1>3, <2>1, SelectInOrder
  <2>2. CASE y # x
    BY <1>1, <1>3, <2>2 DEF Select
  <2> QED
    BY <2>1, <2>2
<1>4. ASSUME NEW y \in Relays, NEW next, Released(y, next)
      PROVE  FALSE
  BY <1>1, <1>4 DEF Released
<1> QED
  BY <1>2, <1>3, <1>4 DEF Next, vars, Begin, Commit, Tick, Mark, Fail, Send

(* A row is not taken before one that was committed when its transaction   *)
(* began: ORDER BY created_at, with created_at the transaction's beginning.*)
THEOREM InOrder == Spec => NoneIsOvertaken
<1>1. IInv /\ [Next]_vars => [TakesInOrder]_vars
  BY StepInOrder
<1> QED
  BY <1>1, Invariance, PTL DEF Spec, NoneIsOvertaken, TakesInOrder
=============================================================================

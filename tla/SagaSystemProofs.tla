-------------------------- MODULE SagaSystemProofs --------------------------
(***************************************************************************)
(* Proofs that SagaSystem keeps IInv, for any number of orders, markets,   *)
(* copies of the services, faults and any batch size, and what follows;    *)
(* and proofs about the delivery of its messages.                          *)
(***************************************************************************)
EXTENDS SagaInvariant, TLAPS, FiniteSetTheorems

(* What Append does to a table or a topic's log.                           *)
LEMMA AppendFacts ==
  ASSUME NEW S, NEW s \in Seq(S), NEW e \in S
  PROVE  /\ Append(s, e) \in Seq(S)
         /\ Len(Append(s, e)) = Len(s) + 1
         /\ DOMAIN s = 1..Len(s)
         /\ DOMAIN Append(s, e) = 1..(Len(s) + 1)
         /\ \A i \in 1..Len(s) : Append(s, e)[i] = s[i]
         /\ Append(s, e)[Len(s) + 1] = e
  OBVIOUS

(* A sequence of old rows is a sequence of rows when rows were added.      *)
LEMMA SeqMonotone ==
  ASSUME NEW S, NEW T, S \subseteq T, NEW s \in Seq(S)
  PROVE  s \in Seq(T)
  <1>1. s \in [1..Len(s) -> T]
    OBVIOUS
  <1> QED
    BY <1>1

(* What the rows of the outbox are.                                        *)
LEMMA RowFacts ==
  ASSUME TypeOK
  PROVE  /\ outbox \in Seq(Row)
         /\ Rows = 1..Len(outbox) /\ Len(outbox) \in Nat
         /\ \A r \in Rows : /\ r \in Nat \ {0}
                           /\ outbox[r] \in Row
                           /\ outbox[r].type \in EventTypes
                           /\ outbox[r].topic \in Topics
                           /\ outbox[r].order \in Orders
                           /\ outbox[r].data \in MarketIDs \cup Settled
  <1>1. outbox \in Seq(Row)
    BY DEF TypeOK
  <1>2. Rows = 1..Len(outbox) /\ Len(outbox) \in Nat
    BY <1>1 DEF Rows
  <1>3. \A r \in Rows : outbox[r] \in Row
    BY <1>1, <1>2
  <1> QED
    BY <1>1, <1>2, <1>3 DEF Row

(* The chain of rows speaks of four tables only.                           *)
LEMMA ChainFrame ==
  ASSUME IInv, UNCHANGED <<tables, outbox>>
  PROVE  EachStepOnce' /\ ChainOfRows' /\ RepliesAgree' /\ MarketsKept'
  BY DEF IInv, EachStepOnce, ChainOfRows, RepliesAgree, MarketsKept, tables,
         Rows, CausedBy

(* A process's place in the batch it holds of a topic is inside the log.    *)
FetchOK(p, t) ==
  /\ fetch[p][t] \in Ranges
  /\ fetch[p][t].from <= fetch[p][t].cur
  /\ fetch[p][t].cur <= fetch[p][t].end
  /\ fetch[p][t].end <= Len(log[t])
  /\ fetch[p][t].end # 0 => t \in TopicsOf(GroupOf(p))

LEMMA FetchFacts ==
  ASSUME IInv
  PROVE  /\ \A p \in Procs, t \in ConsumedTopics : FetchOK(p, t)
         /\ \A t \in ConsumedTopics : t \in Topics /\ Len(log[t]) \in Nat
  <1>1. ConsumedTopics \subseteq Topics
    BY DEF ConsumedTopics, Topics
  <1> QED
    BY <1>1 DEF IInv, TypeOK, BatchesAreLog, FetchOK

LEMMA OpenTxFacts ==
  ASSUME IInv, NEW p \in Procs, tx[p] # NoTx,
         NEW t, t = outbox[tx[p].key].topic
  PROVE  /\ OpenTx(p) /\ tx[p].key \in Rows /\ tx[p].key # 0
         /\ t \in ConsumedTopics /\ t \in Topics
         /\ fetch[p][t].cur < fetch[p][t].end
         /\ fetch[p][t].cur + 1 \in DOMAIN log[t]
  <1>1. OpenTx(p)
    BY DEF IInv, TxsExclusive
  <1>2. /\ tx[p].key \in Rows /\ tx[p].key # 0
        /\ t \in ConsumedTopics /\ t \in Topics
        /\ fetch[p][t].cur < fetch[p][t].end
    BY <1>1, RowFacts DEF OpenTx, IInv, TopicsOf, ConsumedTopics, Topics
  <1>3. fetch[p][t].cur + 1 \in 1..Len(log[t])
    BY <1>2, FetchFacts DEF FetchOK, Ranges
  <1>4. DOMAIN log[t] = 1..Len(log[t])
    BY <1>2 DEF IInv, TypeOK
  <1> QED
    BY <1>1, <1>2, <1>3, <1>4

TxKept(q) == \/ tx'[q] = NoTx
             \/ tx'[q] = tx[q] /\ fetch'[q] = fetch[q]

(* Transactions that end, or go on at the same record, keep the others.    *)
LEMMA TxFrame ==
  ASSUME IInv, UNCHANGED <<processed, outbox>>,
         \A q \in Procs : TxKept(q),
         \A t \in Topics : \A i \in DOMAIN log[t] : log'[t][i] = log[t][i]
  PROVE  TxsExclusive'
  <1> SUFFICES ASSUME NEW q \in Procs, tx'[q] # NoTx
               PROVE  OpenTx(q)'
    BY DEF TxsExclusive
  <1>1. /\ tx[q] # NoTx /\ tx'[q] = tx[q] /\ fetch'[q] = fetch[q]
        /\ \A u \in Procs : tx'[u].key = tx[u].key \/ tx'[u].key = 0
    BY DEF NoTx, TxKept
  <1>2. OpenTx(q)
    BY <1>1 DEF IInv, TxsExclusive
  <1> DEFINE t == outbox[tx[q].key].topic
  <1>3. tx[q].key # 0 /\ t \in Topics /\ fetch[q][t].cur + 1 \in DOMAIN log[t]
    BY <1>1, OpenTxFacts
  <1>5. Current(q, t)' = Current(q, t)
    BY <1>1, <1>3 DEF Current
  <1> QED
    BY <1>1, <1>2, <1>3, <1>5 DEF OpenTx, Rows, Reserve, Current

(* A process with an open transaction is neither idle nor done.            *)
LEMMA OpenTxBusy ==
  ASSUME IInv, NEW p \in Procs, Idle(p) \/ Done(p)
  PROVE  tx[p] = NoTx
  <1>1. ASSUME NEW t \in ConsumedTopics
        PROVE  ~(fetch[p][t].cur < fetch[p][t].end)
    BY FetchFacts DEF Idle, Done, NoFetch, NoRange, FetchOK, Ranges
  <1> QED
    BY <1>1, OpenTxFacts

-----------------------------------------------------------------------------
(* The relay: it adds records to the logs and marks rows, no more.         *)

LEMMA ProducedOK ==
  ASSUME IInv, NEW r \in Rows, Produced(r), UNCHANGED <<outbox, owner, fetch>>
  PROVE  /\ log' \in [Topics -> Seq(Rows)]
         /\ RowsInTheirTopics'
         /\ BatchesAreLog'
         /\ \A t \in Topics : \A i \in DOMAIN log[t] : log'[t][i] = log[t][i]
  <1> DEFINE t == outbox[r].topic
  <1>1. t \in Topics /\ log \in [Topics -> Seq(Rows)]
    BY RowFacts DEF IInv, TypeOK
  <1>2. log' = [log EXCEPT ![t] = Append(log[t], r)]
    BY DEF Produced
  <1>3. /\ Append(log[t], r) \in Seq(Rows)
        /\ Len(Append(log[t], r)) = Len(log[t]) + 1
        /\ DOMAIN log[t] = 1..Len(log[t])
        /\ DOMAIN Append(log[t], r) = 1..(Len(log[t]) + 1)
        /\ \A i \in 1..Len(log[t]) : Append(log[t], r)[i] = log[t][i]
        /\ Append(log[t], r)[Len(log[t]) + 1] = r
    BY <1>1, AppendFacts
  <1>4. log' \in [Topics -> Seq(Rows)]
    BY <1>1, <1>2, <1>3
  <1>5. \A u \in Topics : \A i \in DOMAIN log'[u] : outbox[log'[u][i]].topic = u
    <2>1. ASSUME NEW u \in Topics, NEW i \in DOMAIN log'[u], u = t
          PROVE  outbox[log'[u][i]].topic = u
      BY <1>1, <1>2, <1>3, <2>1 DEF IInv, RowsInTheirTopics
    <2>2. ASSUME NEW u \in Topics, NEW i \in DOMAIN log'[u], u # t
          PROVE  outbox[log'[u][i]].topic = u
      BY <1>1, <1>2, <2>2 DEF IInv, RowsInTheirTopics
    <2> QED
      BY <2>1, <2>2
  <1>6. RowsInTheirTopics'
    BY <1>5 DEF IInv, RowsInTheirTopics, Rows
  <1>7. \A u \in ConsumedTopics : u \in Topics /\ Len(log[u]) <= Len(log'[u])
    BY <1>1, <1>2, <1>3 DEF ConsumedTopics, Topics
  <1>8. BatchesAreLog'
    <2>1. \A u \in ConsumedTopics : Len(log'[u]) \in Nat /\ Len(log[u]) \in Nat
      BY <1>1, <1>4, <1>7
    <2> QED
      BY <1>7, <2>1 DEF IInv, TypeOK, BatchesAreLog, Ranges
  <1>9. \A u \in Topics : \A i \in DOMAIN log[u] : log'[u][i] = log[u][i]
    BY <1>1, <1>2, <1>3
  <1> QED
    BY <1>4, <1>6, <1>8, <1>9

LEMMA RelayStepOK ==
  ASSUME IInv, NEW p \in Procs, RelayStep(p) \/ RelayFault(p)
  PROVE  IInv'
  <1>1. UNCHANGED <<tables, outbox, tx, consumers>>
    BY DEF RelayStep, RelayFault, RelaySelect, RelaySendAcked, RelaySendFails,
           RelayMark, RelayMarkFails, consumers
  <1>2. ChainOfRows' /\ EachStepOnce' /\ RepliesAgree' /\ MarketsKept'
    BY <1>1, ChainFrame DEF tables
  <1>3. /\ relay \in [Procs -> Batches]
        /\ faults \in 0..MaxFaults
        /\ published \subseteq Rows
        /\ Rows' = Rows
    BY <1>1 DEF IInv, TypeOK, Rows
  <1>4. relay[p].held \subseteq Rows /\ relay[p].todo \subseteq Rows
          /\ relay[p].acked \subseteq Rows
    BY <1>3 DEF Batches
  <1>5. relay' \in [Procs -> Batches]
    <2>1. CASE RelaySelect(p)
      <3>1. PICK batch \in SUBSET Rows :
               relay' = [relay EXCEPT ![p] =
                           [held |-> batch, todo |-> batch, acked |-> {}]]
        BY <2>1 DEF RelaySelect, Selectable
      <3>2. [held |-> batch, todo |-> batch, acked |-> {}] \in Batches
        BY DEF Batches
      <3> QED
        BY <1>3, <3>1, <3>2
    <2>2. CASE RelaySendAcked(p)
      <3>1. PICK r \in Rows :
               relay' = [relay EXCEPT ![p].todo = @ \ {r},
                                      ![p].acked = @ \cup {r}]
        BY <1>4, <2>2 DEF RelaySendAcked
      <3> QED
        BY <1>3, <3>1 DEF Batches
    <2>3. CASE RelaySendFails(p)
      BY <1>3, <1>4, <2>3 DEF RelaySendFails, Batches
    <2>4. CASE RelayMark(p) \/ RelayMarkFails(p)
      <3>1. NoBatch \in Batches
        BY DEF NoBatch, Batches
      <3> QED
        BY <1>3, <2>4, <3>1 DEF RelayMark, RelayMarkFails
    <2> QED
      BY <2>1, <2>2, <2>3, <2>4 DEF RelayStep, RelayFault
  <1>6. faults' \in 0..MaxFaults /\ published' \subseteq Rows
    BY <1>3, <1>4, BoundsAssumption
    DEF RelayStep, RelayFault, RelaySelect, RelaySendAcked, RelaySendFails,
        RelayMark, RelayMarkFails, Fault
  <1>7. /\ log' \in [Topics -> Seq(Rows)]
        /\ RowsInTheirTopics' /\ BatchesAreLog'
        /\ \A t \in Topics : \A i \in DOMAIN log[t] : log'[t][i] = log[t][i]
    <2>1. CASE log' = log
      BY <1>1, <2>1
      DEF IInv, TypeOK, RowsInTheirTopics, BatchesAreLog, Rows, consumers
    <2>2. CASE \E r \in relay[p].todo : Produced(r)
      BY <1>1, <1>4, <2>2, ProducedOK DEF consumers
    <2> QED
      BY <2>1, <2>2 DEF RelayStep, RelayFault, RelaySelect, RelaySendAcked,
                        RelaySendFails, RelayMark, RelayMarkFails
  <1>8. TypeOK'
    BY <1>1, <1>3, <1>5, <1>6, <1>7 DEF IInv, TypeOK, tables, consumers, Txs,
                                        Batches
  <1>9. TxsExclusive'
    BY <1>1, <1>7, TxFrame DEF tables, consumers, TxKept
  <1> QED
    BY <1>2, <1>7, <1>8, <1>9 DEF IInv

-----------------------------------------------------------------------------
(* The consumer loop between handlers, and the group coordinator.          *)

LEMMA AdvanceOK ==
  ASSUME IInv, NEW p \in Procs, NEW t \in ConsumedTopics,
         fetch[p][t].cur < fetch[p][t].end, Advance(p, t), UNCHANGED log
  PROVE  /\ fetch' \in [Procs -> [ConsumedTopics -> Ranges]]
         /\ \A q \in Procs, u \in ConsumedTopics : FetchOK(q, u)'
         /\ \A q \in Procs \ {p} : fetch'[q] = fetch[q]
  <1>1. fetch \in [Procs -> [ConsumedTopics -> Ranges]]
    BY DEF IInv, TypeOK
  <1>2. fetch' = [fetch EXCEPT ![p][t].cur = @ + 1]
    BY DEF Advance
  <1>3. /\ \A q \in Procs, u \in ConsumedTopics :
              (q # p \/ u # t) => fetch'[q][u] = fetch[q][u]
        /\ fetch'[p][t].cur = fetch[p][t].cur + 1
        /\ fetch'[p][t].from = fetch[p][t].from
        /\ fetch'[p][t].end = fetch[p][t].end
        /\ fetch'[p][t] \in Ranges
        /\ \A q \in Procs \ {p} : fetch'[q] = fetch[q]
    BY <1>1, <1>2 DEF Ranges
  <1>4. fetch' \in [Procs -> [ConsumedTopics -> Ranges]]
    BY <1>1, <1>2, <1>3
  <1>5. FetchOK(p, t)'
    BY <1>1, <1>3, FetchFacts DEF FetchOK, Ranges
  <1>6. ASSUME NEW q \in Procs, NEW u \in ConsumedTopics, q # p \/ u # t
        PROVE  FetchOK(q, u)'
    BY <1>3, <1>6, FetchFacts DEF FetchOK
  <1> QED
    BY <1>3, <1>4, <1>5, <1>6

LEMMA BreakOK ==
  ASSUME IInv, NEW p \in Procs, Break(p), UNCHANGED log
  PROVE  /\ fetch' \in [Procs -> [ConsumedTopics -> Ranges]]
         /\ \A q \in Procs, u \in ConsumedTopics : FetchOK(q, u)'
         /\ \A q \in Procs \ {p} : fetch'[q] = fetch[q]
  <1>1. fetch \in [Procs -> [ConsumedTopics -> Ranges]]
    BY DEF IInv, TypeOK
  <1>2. PICK f \in [ConsumedTopics -> Ranges] :
           /\ fetch' = [fetch EXCEPT ![p] = f]
           /\ \A t \in ConsumedTopics :
                \/ f[t] = NoRange
                \/ /\ f[t].from = fetch[p][t].from
                   /\ f[t].cur = fetch[p][t].cur
                   /\ f[t].end = fetch[p][t].cur
                   /\ t \in Handled(p)
    <2>1. NoRange \in Ranges /\ NoFetch \in [ConsumedTopics -> Ranges]
      BY DEF NoRange, NoFetch, Ranges
    <2>2. CASE Handled(p) = {}
      BY <2>1, <2>2 DEF Break, NoFetch
    <2>3. CASE Handled(p) # {}
      <3> DEFINE f == [t \in ConsumedTopics |->
                         IF t \in Handled(p)
                         THEN [fetch[p][t] EXCEPT !.end = fetch[p][t].cur]
                         ELSE NoRange]
      <3>1. fetch' = [fetch EXCEPT ![p] = f]
        BY <2>3 DEF Break
      <3>2. ASSUME NEW t \in ConsumedTopics
            PROVE  /\ f[t] \in Ranges
                   /\ \/ f[t] = NoRange
                      \/ /\ f[t].from = fetch[p][t].from
                         /\ f[t].cur = fetch[p][t].cur
                         /\ f[t].end = fetch[p][t].cur
                         /\ t \in Handled(p)
        BY <1>1, <2>1 DEF Ranges
      <3> QED
        BY <3>1, <3>2
    <2> QED
      BY <2>2, <2>3
  <1>3. fetch' \in [Procs -> [ConsumedTopics -> Ranges]]
    BY <1>1, <1>2
  <1>4. ASSUME NEW t \in ConsumedTopics
        PROVE  FetchOK(p, t)'
    <2>1. fetch'[p][t] = f[t] /\ FetchOK(p, t) /\ Len(log[t]) \in Nat
      BY <1>1, <1>2, FetchFacts
    <2>2. CASE f[t] = NoRange
      BY <2>1, <2>2 DEF FetchOK, NoRange, Ranges
    <2>3. CASE f[t] # NoRange
      <3>1. fetch[p][t].from < fetch[p][t].cur
        BY <1>2, <2>3 DEF Handled
      <3> QED
        BY <1>2, <2>1, <2>3, <3>1 DEF FetchOK, Ranges
    <2> QED
      BY <2>2, <2>3
  <1>5. \A q \in Procs \ {p} : fetch'[q] = fetch[q]
    BY <1>1, <1>2
  <1>6. ASSUME NEW q \in Procs \ {p}, NEW t \in ConsumedTopics
        PROVE  FetchOK(q, t)'
    BY <1>5, FetchFacts DEF FetchOK
  <1> QED
    BY <1>3, <1>4, <1>5, <1>6

OwnersOK ==
  /\ owner \in [ConsumedTopics -> Procs \cup {NoProc}]
  /\ \A t \in ConsumedTopics :
       owner[t] # NoProc => t \in TopicsOf(GroupOf(owner[t]))

(* What a step that leaves tables, outbox and logs alone has to show.      *)
LEMMA LoopFrame ==
  ASSUME IInv,
         UNCHANGED <<tables, outbox, published, log>>,
         tx' \in [Procs -> Txs],
         relay' \in [Procs -> Batches],
         committed' \in [ConsumedTopics -> Nat],
         position' \in [ConsumedTopics -> Nat],
         fetch' \in [Procs -> [ConsumedTopics -> Ranges]],
         faults' \in 0..MaxFaults,
         OwnersOK',
         \A p \in Procs, t \in ConsumedTopics : FetchOK(p, t)',
         \A q \in Procs : TxKept(q)
  PROVE  IInv'
  <1>1. ChainOfRows' /\ EachStepOnce' /\ RepliesAgree' /\ MarketsKept'
    BY ChainFrame
  <1>2. TxsExclusive'
    BY TxFrame DEF tables
  <1>3. TypeOK'
    BY DEF IInv, TypeOK, tables, Rows, Txs, Batches, OwnersOK
  <1>4. RowsInTheirTopics'
    BY DEF IInv, RowsInTheirTopics, Rows
  <1>5. BatchesAreLog'
    BY DEF BatchesAreLog, FetchOK, OwnersOK
  <1> QED
    BY <1>1, <1>2, <1>3, <1>4, <1>5 DEF IInv

(* The hypotheses of LoopFrame, for whatever a step leaves unchanged.      *)
LEMMA LoopFacts ==
  ASSUME IInv
  PROVE  /\ tx \in [Procs -> Txs] /\ relay \in [Procs -> Batches]
         /\ committed \in [ConsumedTopics -> Nat]
         /\ position \in [ConsumedTopics -> Nat]
         /\ fetch \in [Procs -> [ConsumedTopics -> Ranges]]
         /\ faults \in 0..MaxFaults /\ faults \in Nat
         /\ OwnersOK
         /\ NoTx \in Txs /\ NoBatch \in Batches
         /\ NoRange \in Ranges /\ NoFetch \in [ConsumedTopics -> Ranges]
         /\ Fault => faults' \in 0..MaxFaults
  <1>1. NoTx \in Txs /\ NoBatch \in Batches
    BY DEF NoTx, Txs, NoBatch, Batches
  <1>2. NoRange \in Ranges /\ NoFetch \in [ConsumedTopics -> Ranges]
    BY DEF NoRange, Ranges, NoFetch
  <1> QED
    BY <1>1, <1>2, BoundsAssumption
    DEF IInv, TypeOK, BatchesAreLog, OwnersOK, Fault

LEMMA AssignOK ==
  ASSUME IInv, NEW t \in ConsumedTopics, NEW p \in Procs, Assign(t, p)
  PROVE  IInv'
  <1>1. UNCHANGED <<tables, outbox, published, relay, committed, fetch, tx, log,
                    faults>>
    BY DEF Assign, outboxes
  <1>2. OwnersOK' /\ position' \in [ConsumedTopics -> Nat]
    BY LoopFacts DEF Assign, OwnersOK
  <1>3. \A q \in Procs, u \in ConsumedTopics : FetchOK(q, u)'
    BY <1>1, FetchFacts DEF FetchOK
  <1> QED
    BY <1>1, <1>2, <1>3, LoopFacts, LoopFrame DEF TxKept

LEMMA RevokeOK ==
  ASSUME IInv, NEW t \in ConsumedTopics, Revoke(t)
  PROVE  IInv'
  <1>1. UNCHANGED <<tables, outbox, published, relay, committed, fetch, tx, log>>
    BY DEF Revoke, outboxes
  <1>2. /\ OwnersOK' /\ position' \in [ConsumedTopics -> Nat]
        /\ faults' \in 0..MaxFaults
    BY LoopFacts DEF Revoke, OwnersOK
  <1>3. \A q \in Procs, u \in ConsumedTopics : FetchOK(q, u)'
    BY <1>1, FetchFacts DEF FetchOK
  <1> QED
    BY <1>1, <1>2, <1>3, LoopFacts, LoopFrame DEF TxKept

LEMMA PollOK ==
  ASSUME IInv, NEW p \in Procs, Poll(p)
  PROVE  IInv'
  <1>1. UNCHANGED <<tables, outbox, published, relay, committed, owner, tx, log,
                    faults>>
    BY DEF Poll, outboxes
  <1>2. PICK ends \in Ends(p) :
           /\ fetch' = [fetch EXCEPT ![p] = [t \in ConsumedTopics |->
                          IF ends[t] = position[t] THEN NoRange
                          ELSE [from |-> position[t], cur |-> position[t],
                                end |-> ends[t]]]]
           /\ position' = ends
    BY DEF Poll
  <1>3. /\ position \in [ConsumedTopics -> Nat]
        /\ \A t \in ConsumedTopics :
             /\ ends[t] \in Nat /\ position[t] \in Nat
             /\ \/ ends[t] = position[t]
                \/ /\ owner[t] = p /\ position[t] <= ends[t]
                   /\ ends[t] <= Len(log[t])
    BY LoopFacts, FetchFacts DEF Ends
  <1>4. position' \in [ConsumedTopics -> Nat]
    BY <1>2, <1>3 DEF Ends
  <1>5. /\ fetch' \in [Procs -> [ConsumedTopics -> Ranges]]
        /\ \A q \in Procs \ {p} : fetch'[q] = fetch[q]
        /\ \A t \in ConsumedTopics :
             fetch'[p][t] = IF ends[t] = position[t] THEN NoRange
                            ELSE [from |-> position[t], cur |-> position[t],
                                  end |-> ends[t]]
    <2> DEFINE f == [t \in ConsumedTopics |->
                       IF ends[t] = position[t] THEN NoRange
                       ELSE [from |-> position[t], cur |-> position[t],
                             end |-> ends[t]]]
    <2>1. f \in [ConsumedTopics -> Ranges]
      BY <1>3, LoopFacts DEF Ranges
    <2>2. fetch' = [fetch EXCEPT ![p] = f]
      BY <1>2
    <2> QED
      BY <2>1, <2>2, LoopFacts
  <1>6. ASSUME NEW t \in ConsumedTopics
        PROVE  FetchOK(p, t)'
    <2>1. Len(log[t]) \in Nat /\ UNCHANGED log
      BY <1>1, FetchFacts
    <2>2. CASE ends[t] = position[t]
      <3>1. fetch'[p][t] = [from |-> 0, cur |-> 0, end |-> 0]
        BY <1>5, <2>2 DEF NoRange
      <3> QED
        BY <2>1, <3>1 DEF FetchOK, Ranges
    <2>3. CASE ends[t] # position[t]
      <3>1. owner[t] = p /\ t \in TopicsOf(GroupOf(p))
        BY <1>3, <2>3, LoopFacts, ProcsAssumption DEF OwnersOK, Procs
      <3>2. fetch'[p][t] = [from |-> position[t], cur |-> position[t],
                            end |-> ends[t]]
        BY <1>5, <2>3
      <3>3. /\ position[t] \in Nat /\ ends[t] \in Nat
            /\ position[t] <= ends[t] /\ ends[t] <= Len(log[t])
        BY <1>3, <2>3
      <3> QED
        BY <2>1, <3>1, <3>2, <3>3 DEF FetchOK, Ranges
    <2> QED
      BY <2>2, <2>3
  <1>7. \A q \in Procs, t \in ConsumedTopics : FetchOK(q, t)'
    BY <1>1, <1>5, <1>6, FetchFacts DEF FetchOK
  <1>8. tx[p] = NoTx
    BY OpenTxBusy DEF Poll
  <1>9. \A q \in Procs : TxKept(q)
    BY <1>1, <1>5, <1>8 DEF TxKept
  <1>10. OwnersOK' /\ fetch' \in [Procs -> [ConsumedTopics -> Ranges]]
    BY <1>1, <1>5, LoopFacts DEF OwnersOK
  <1>11. /\ tx' \in [Procs -> Txs] /\ relay' \in [Procs -> Batches]
         /\ committed' \in [ConsumedTopics -> Nat] /\ faults' \in 0..MaxFaults
    BY <1>1, LoopFacts
  <1> QED
    BY <1>1, <1>4, <1>7, <1>9, <1>10, <1>11, LoopFrame

LEMMA SkipDuplicateOK ==
  ASSUME IInv, NEW p \in Procs, SkipDuplicate(p)
  PROVE  IInv'
  <1>1. /\ tx[p] = NoTx
        /\ UNCHANGED <<tables, outbox, published, relay, committed, owner,
                       position, tx, log, faults>>
    BY DEF SkipDuplicate, outboxes
  <1>2. PICK t \in ConsumedTopics :
           fetch[p][t].cur < fetch[p][t].end /\ Advance(p, t)
    BY DEF SkipDuplicate, AtTopic
  <1>3. /\ fetch' \in [Procs -> [ConsumedTopics -> Ranges]]
        /\ \A q \in Procs, u \in ConsumedTopics : FetchOK(q, u)'
        /\ \A q \in Procs \ {p} : fetch'[q] = fetch[q]
    BY <1>1, <1>2, AdvanceOK
  <1>4. \A q \in Procs : TxKept(q)
    BY <1>1, <1>3 DEF TxKept
  <1>5. /\ OwnersOK' /\ position' \in [ConsumedTopics -> Nat]
        /\ tx' \in [Procs -> Txs] /\ relay' \in [Procs -> Batches]
        /\ committed' \in [ConsumedTopics -> Nat] /\ faults' \in 0..MaxFaults
    BY <1>1, LoopFacts DEF OwnersOK
  <1> QED
    BY <1>1, <1>3, <1>4, <1>5, LoopFrame

LEMMA HandlerFailsOK ==
  ASSUME IInv, NEW p \in Procs, HandlerFails(p)
  PROVE  IInv'
  <1>1. /\ tx' = [tx EXCEPT ![p] = NoTx]
        /\ Break(p) /\ Fault
        /\ UNCHANGED <<tables, outbox, published, relay, committed, owner,
                       position, log>>
    BY DEF HandlerFails, outboxes
  <1>2. /\ OwnersOK' /\ position' \in [ConsumedTopics -> Nat]
        /\ relay' \in [Procs -> Batches] /\ committed' \in [ConsumedTopics -> Nat]
        /\ faults' \in 0..MaxFaults
    BY <1>1, LoopFacts DEF OwnersOK
  <1>3. /\ tx' \in [Procs -> Txs] /\ tx'[p] = NoTx
        /\ \A q \in Procs \ {p} : tx'[q] = tx[q]
    BY <1>1, LoopFacts
  <1>4. /\ fetch' \in [Procs -> [ConsumedTopics -> Ranges]]
        /\ \A q \in Procs, u \in ConsumedTopics : FetchOK(q, u)'
        /\ \A q \in Procs \ {p} : fetch'[q] = fetch[q]
    BY <1>1, BreakOK
  <1>5. \A q \in Procs : TxKept(q)
    BY <1>3, <1>4 DEF TxKept
  <1> QED
    BY <1>1, <1>2, <1>3, <1>4, <1>5, LoopFrame

LEMMA CommitRecordsOK ==
  ASSUME IInv, NEW p \in Procs, CommitRecords(p) \/ CommitRecordsFails(p)
  PROVE  IInv'
  <1>1. /\ fetch' = [fetch EXCEPT ![p] = NoFetch]
        /\ Done(p)
        /\ UNCHANGED <<tables, outbox, published, relay, owner, position, tx,
                       log>>
    BY DEF CommitRecords, CommitRecordsFails, outboxes
  <1>2. tx[p] = NoTx
    BY <1>1, OpenTxBusy
  <1>3. /\ fetch' \in [Procs -> [ConsumedTopics -> Ranges]]
        /\ fetch'[p] = NoFetch
        /\ \A q \in Procs \ {p} : fetch'[q] = fetch[q]
    BY <1>1, LoopFacts
  <1>4. committed' \in [ConsumedTopics -> Nat] /\ faults' \in 0..MaxFaults
    <2>1. \A t \in ConsumedTopics : fetch[p][t].cur \in Nat /\ committed[t] \in Nat
      BY LoopFacts DEF Ranges
    <2>2. CASE CommitRecords(p)
      BY <2>1, <2>2, LoopFacts DEF CommitRecords
    <2>3. CASE CommitRecordsFails(p)
      BY <2>3, LoopFacts DEF CommitRecordsFails
    <2> QED
      BY <2>2, <2>3
  <1>5. ASSUME NEW q \in Procs, NEW t \in ConsumedTopics
        PROVE  FetchOK(q, t)'
    <2>1. CASE q = p
      BY <1>1, <1>3, <2>1, FetchFacts DEF FetchOK, NoFetch, NoRange, Ranges
    <2>2. CASE q # p
      BY <1>1, <1>3, <2>2, FetchFacts DEF FetchOK
    <2> QED
      BY <2>1, <2>2
  <1>6. /\ OwnersOK' /\ position' \in [ConsumedTopics -> Nat]
        /\ tx' \in [Procs -> Txs] /\ relay' \in [Procs -> Batches]
    BY <1>1, LoopFacts DEF OwnersOK
  <1>7. \A q \in Procs : TxKept(q)
    BY <1>1, <1>2, <1>3 DEF TxKept
  <1> QED
    BY <1>1, <1>3, <1>4, <1>5, <1>6, <1>7, LoopFrame

LEMMA CrashOK ==
  ASSUME IInv, NEW p \in Procs, Crash(p)
  PROVE  IInv'
  <1>1. /\ tx' = [tx EXCEPT ![p] = NoTx]
        /\ relay' = [relay EXCEPT ![p] = NoBatch]
        /\ fetch' = [fetch EXCEPT ![p] = NoFetch]
        /\ Fault
        /\ UNCHANGED <<tables, outbox, published, committed, log>>
    BY DEF Crash
  <1>2. /\ fetch' \in [Procs -> [ConsumedTopics -> Ranges]]
        /\ fetch'[p] = NoFetch
        /\ \A q \in Procs \ {p} : fetch'[q] = fetch[q]
        /\ relay' \in [Procs -> Batches]
        /\ tx' \in [Procs -> Txs] /\ tx'[p] = NoTx
        /\ \A q \in Procs \ {p} : tx'[q] = tx[q]
    BY <1>1, LoopFacts
  <1>3. OwnersOK' /\ position' \in [ConsumedTopics -> Nat]
    BY LoopFacts DEF Crash, OwnersOK
  <1>4. ASSUME NEW q \in Procs, NEW t \in ConsumedTopics
        PROVE  FetchOK(q, t)'
    <2>1. CASE q = p
      BY <1>1, <1>2, <2>1, FetchFacts DEF FetchOK, NoFetch, NoRange, Ranges
    <2>2. CASE q # p
      BY <1>1, <1>2, <2>2, FetchFacts DEF FetchOK
    <2> QED
      BY <2>1, <2>2
  <1>5. \A q \in Procs : TxKept(q)
    BY <1>2 DEF TxKept
  <1>6. committed' \in [ConsumedTopics -> Nat] /\ faults' \in 0..MaxFaults
    BY <1>1, LoopFacts
  <1> QED
    BY <1>1, <1>2, <1>3, <1>4, <1>5, <1>6, LoopFrame

-----------------------------------------------------------------------------
(* A handler's transaction opens.                                          *)

LEMMA CurrentFacts ==
  ASSUME IInv, NEW p \in Procs, NEW t \in ConsumedTopics, AtTopic(p, t)
  PROVE  /\ Current(p, t) \in Rows
         /\ outbox[Current(p, t)].topic = t
         /\ t \in TopicsOf(GroupOf(p))
         /\ fetch[p][t].cur < fetch[p][t].end
  <1>1. /\ fetch[p][t].cur < fetch[p][t].end
        /\ fetch[p][t].cur + 1 \in 1..Len(log[t])
        /\ fetch[p][t].end # 0
    BY FetchFacts DEF AtTopic, FetchOK, Ranges
  <1>2. t \in Topics /\ log[t] \in Seq(Rows)
    BY FetchFacts DEF IInv, TypeOK
  <1>3. fetch[p][t].cur + 1 \in DOMAIN log[t]
    BY <1>1, <1>2
  <1>4. Current(p, t) \in Rows
    BY <1>1, <1>2 DEF Current
  <1>5. outbox[Current(p, t)].topic = t
    BY <1>2, <1>3 DEF IInv, RowsInTheirTopics, Current
  <1>6. t \in TopicsOf(GroupOf(p))
    BY <1>1, FetchFacts DEF FetchOK
  <1> QED
    BY <1>1, <1>4, <1>5, <1>6

LEMMA AcquireOK ==
  ASSUME IInv, NEW p \in Procs, NEW t \in ConsumedTopics, AtTopic(p, t),
         NEW r, r = Current(p, t), Acquire(p, r), tx[p] = NoTx,
         NEW v \in Verdicts \cup {ReservationNone},
         p \in MarketProcs => v \in Reserve(outbox[r].data),
         tx' = [tx EXCEPT ![p] = [key |-> r, verdict |-> v]],
         UNCHANGED <<tables, outboxes, consumers, log, faults>>
  PROVE  IInv'
  <1>1. UNCHANGED <<orders, reservations, processed, outbox, published, relay,
                    committed, owner, position, fetch>>
    BY DEF tables, outboxes, consumers
  <1>2. /\ r \in Rows /\ r # 0 /\ outbox[r].topic = t
        /\ t \in TopicsOf(GroupOf(p)) /\ fetch[p][t].cur < fetch[p][t].end
    BY CurrentFacts, RowFacts DEF IInv
  <1>3. /\ tx' \in [Procs -> Txs]
        /\ tx'[p].key = r /\ tx'[p].verdict = v
        /\ \A q \in Procs \ {p} : tx'[q] = tx[q]
    <2>1. [key |-> r, verdict |-> v] \in Txs
      BY <1>2 DEF Txs
    <2> QED
      BY <2>1, LoopFacts
  <1>4. TypeOK'
    BY <1>1, <1>3 DEF IInv, TypeOK, Rows, Txs, Batches
  <1>5. RowsInTheirTopics' /\ BatchesAreLog'
    BY <1>1 DEF IInv, RowsInTheirTopics, BatchesAreLog, Rows
  <1>6. OpenTx(p)'
    BY <1>1, <1>2, <1>3 DEF Acquire, OpenTx, Current, Rows, Reserve
  <1>7. ASSUME NEW q \in Procs \ {p}, tx'[q] # NoTx
        PROVE  OpenTx(q)'
    <2>1. OpenTx(q) /\ tx'[q] = tx[q]
      BY <1>3, <1>7 DEF IInv, TxsExclusive
    <2>2. GroupOf(p) = GroupOf(q) => tx'[p].key # tx[q].key
      BY <1>3 DEF Acquire
    <2>3. \A u \in Procs \ {q} : GroupOf(u) = GroupOf(q) => tx'[u].key # tx[q].key
      BY <1>3, <2>1, <2>2 DEF OpenTx
    <2> DEFINE u == outbox[tx[q].key].topic
    <2>4. /\ tx'[q].key = tx[q].key /\ tx'[q].verdict = tx[q].verdict
          /\ outbox'[tx'[q].key].topic = u
          /\ Current(q, u)' = Current(q, u) /\ fetch'[q] = fetch[q]
      BY <1>1, <2>1 DEF Current
    <2> QED
      BY <1>1, <2>1, <2>3, <2>4 DEF OpenTx, Rows, Reserve
  <1>8. TxsExclusive'
    BY <1>6, <1>7 DEF TxsExclusive
  <1>9. ChainOfRows' /\ EachStepOnce' /\ RepliesAgree' /\ MarketsKept'
    BY <1>1, ChainFrame DEF tables
  <1> QED
    BY <1>4, <1>5, <1>8, <1>9 DEF IInv

LEMMA OrchestratorAcquireOK ==
  ASSUME IInv, NEW p \in Procs, OrchestratorAcquire(p)
  PROVE  IInv'
  <1>1. PICK t \in ConsumedTopics :
           /\ AtTopic(p, t) /\ Acquire(p, Current(p, t))
           /\ tx' = [tx EXCEPT ![p] = [key |-> Current(p, t),
                                       verdict |-> ReservationNone]]
    BY DEF OrchestratorAcquire, NoTx
  <1>2. p \notin MarketProcs
    BY ProcsAssumption DEF OrchestratorAcquire
  <1> QED
    BY <1>1, <1>2, AcquireOK DEF OrchestratorAcquire

LEMMA ParticipantAcquireOK ==
  ASSUME IInv, NEW p \in Procs, ParticipantAcquire(p)
  PROVE  IInv'
  <1>1. PICK t \in ConsumedTopics, v \in Verdicts :
           /\ AtTopic(p, t) /\ Acquire(p, Current(p, t))
           /\ v \in Reserve(outbox[Current(p, t)].data)
           /\ tx' = [tx EXCEPT ![p] = [key |-> Current(p, t), verdict |-> v]]
    BY DEF ParticipantAcquire, Reserve, Verdicts
  <1> QED
    BY <1>1, AcquireOK DEF ParticipantAcquire

-----------------------------------------------------------------------------
(* A transaction that writes an outbox row commits.                        *)

LEMMA EmitFacts ==
  ASSUME TypeOK, NEW e \in Row, outbox' = Append(outbox, e)
  PROVE  /\ outbox' \in Seq(Row)
         /\ Rows' = Rows \cup {Len(outbox) + 1}
         /\ Len(outbox) + 1 \notin Rows
         /\ \A r \in Rows : outbox'[r] = outbox[r]
         /\ outbox'[Len(outbox) + 1] = e
  <1>1. /\ outbox' \in Seq(Row)
        /\ DOMAIN outbox' = 1..(Len(outbox) + 1)
        /\ \A r \in 1..Len(outbox) : outbox'[r] = outbox[r]
        /\ outbox'[Len(outbox) + 1] = e
    BY AppendFacts, RowFacts
  <1>2. Rows = 1..Len(outbox) /\ Len(outbox) \in Nat
    BY RowFacts
  <1> QED
    BY <1>1, <1>2 DEF Rows

(* The parts of the invariant that do not speak of the chain of rows.      *)
LEMMA EmitFrame ==
  ASSUME IInv, NEW e \in Row, e.topic = RowTopic(e.type),
         outbox' = Append(outbox, e),
         UNCHANGED <<published, relay, committed, owner, position, log>>,
         orders' \in [Orders -> Statuses \cup {StatusAbsent}],
         reservations' \in [Orders -> Verdicts \cup {ReservationNone}],
         processed' \subseteq Groups \X Rows,
         tx' \in [Procs -> Txs],
         fetch' \in [Procs -> [ConsumedTopics -> Ranges]],
         faults' \in 0..MaxFaults,
         \A q \in Procs, t \in ConsumedTopics : FetchOK(q, t)',
         \A q \in Procs : \/ tx'[q] = NoTx
                         \/ /\ tx'[q] = tx[q] /\ fetch'[q] = fetch[q]
                            /\ <<GroupOf(q), tx[q].key>> \notin processed'
  PROVE  TypeOK' /\ RowsInTheirTopics' /\ BatchesAreLog' /\ TxsExclusive'
  <1>1. /\ outbox' \in Seq(Row)
        /\ Rows' = Rows \cup {Len(outbox) + 1}
        /\ Rows \subseteq Rows'
        /\ \A r \in Rows : outbox'[r] = outbox[r]
        /\ outbox'[Len(outbox) + 1] = e
    BY EmitFacts DEF IInv
  <1>2. log' \in [Topics -> Seq(Rows')]
    <2>1. log \in [Topics -> Seq(Rows)]
      BY DEF IInv, TypeOK
    <2>2. ASSUME NEW t \in Topics
          PROVE  log[t] \in Seq(Rows')
      <3>1. log[t] \in Seq(Rows)
        BY <2>1
      <3> QED
        BY <1>1, <3>1, SeqMonotone
    <2> QED
      BY <2>1, <2>2
  <1>3. relay' \in [Procs -> Batches']
    <2>1. \A b \in Batches : b \in Batches'
      BY <1>1 DEF Batches
    <2> QED
      BY <2>1, LoopFacts
  <1>4. tx' \in [Procs -> Txs']
    <2>1. \A b \in Txs : b \in Txs'
      BY <1>1 DEF Txs
    <2> QED
      BY <2>1
  <1>5. TypeOK'
    <2>1. published' \subseteq Rows' /\ processed' \subseteq Groups \X Rows'
      BY <1>1 DEF IInv, TypeOK
    <2> QED
      BY <1>1, <1>2, <1>3, <1>4, <2>1 DEF IInv, TypeOK
  <1>6. RowsInTheirTopics'
    <2>1. \A r \in Rows' : outbox'[r].topic = RowTopic(outbox'[r].type)
      BY <1>1 DEF IInv, RowsInTheirTopics
    <2>2. ASSUME NEW t \in Topics, NEW i \in DOMAIN log'[t]
          PROVE  outbox'[log'[t][i]].topic = t
      <3>1. log[t][i] \in Rows
        BY <2>2 DEF IInv, TypeOK
      <3> QED
        BY <1>1, <2>2, <3>1 DEF IInv, RowsInTheirTopics
    <2> QED
      BY <2>1, <2>2 DEF RowsInTheirTopics
  <1>7. BatchesAreLog'
    BY DEF IInv, BatchesAreLog, FetchOK
  <1>8. ASSUME NEW q \in Procs, tx'[q] # NoTx
        PROVE  OpenTx(q)'
    <2> DEFINE r == tx[q].key
               t == outbox[r].topic
    <2>1. /\ tx[q] # NoTx /\ tx'[q] = tx[q] /\ fetch'[q] = fetch[q]
          /\ <<GroupOf(q), r>> \notin processed'
      BY <1>8
    <2>2. /\ OpenTx(q) /\ r \in Rows /\ r # 0
          /\ fetch[q][t].cur < fetch[q][t].end
      BY <2>1, OpenTxFacts
    <2>3. outbox'[r] = outbox[r] /\ r \in Rows'
      BY <1>1, <2>2
    <2>4. ASSUME NEW u \in Procs \ {q}, GroupOf(u) = GroupOf(q)
          PROVE  tx'[u].key # r
      <3>1. tx[u].key # r
        BY <2>2, <2>4 DEF OpenTx
      <3>2. tx'[u] = tx[u] \/ tx'[u] = NoTx
        OBVIOUS
      <3>3. NoTx.key = 0
        BY DEF NoTx
      <3> QED
        BY <2>2, <3>1, <3>2, <3>3
    <2> QED
      BY <2>1, <2>2, <2>3, <2>4 DEF OpenTx, Current, Reserve
  <1>9. TxsExclusive'
    BY <1>8 DEF TxsExclusive
  <1> QED
    BY <1>5, <1>6, <1>7, <1>9

(* Finish, for a process whose transaction is open.                        *)
LEMMA FinishOK ==
  ASSUME IInv, NEW p \in Procs, NEW acked \in BOOLEAN, tx[p] # NoTx,
         Finish(p, acked), UNCHANGED log,
         processed' = processed \cup {<<GroupOf(p), tx[p].key>>}
  PROVE  /\ processed' \subseteq Groups \X Rows
         /\ tx' \in [Procs -> Txs]
         /\ fetch' \in [Procs -> [ConsumedTopics -> Ranges]]
         /\ faults' \in 0..MaxFaults
         /\ \A q \in Procs, t \in ConsumedTopics : FetchOK(q, t)'
         /\ \A q \in Procs : \/ tx'[q] = NoTx
                            \/ /\ tx'[q] = tx[q] /\ fetch'[q] = fetch[q]
                               /\ <<GroupOf(q), tx[q].key>> \notin processed'
  <1>1. /\ tx' = [tx EXCEPT ![p] = NoTx]
        /\ \/ Advance(p, TxTopic(p)) /\ faults' = faults
           \/ Break(p) /\ Fault
    BY DEF Finish
  <1>2. /\ OpenTx(p) /\ tx[p].key \in Rows /\ TxTopic(p) \in ConsumedTopics
        /\ fetch[p][TxTopic(p)].cur < fetch[p][TxTopic(p)].end
    BY OpenTxFacts DEF TxTopic
  <1>3. /\ fetch' \in [Procs -> [ConsumedTopics -> Ranges]]
        /\ \A q \in Procs, t \in ConsumedTopics : FetchOK(q, t)'
        /\ \A q \in Procs \ {p} : fetch'[q] = fetch[q]
    BY <1>1, <1>2, AdvanceOK, BreakOK
  <1>4. faults' \in 0..MaxFaults
    BY <1>1, LoopFacts
  <1>5. /\ tx' \in [Procs -> Txs] /\ tx'[p] = NoTx
        /\ \A q \in Procs \ {p} : tx'[q] = tx[q]
    BY <1>1, LoopFacts
  <1>6. processed' \subseteq Groups \X Rows
    BY <1>2 DEF IInv, TypeOK, Groups, GroupOf
  <1>7. ASSUME NEW q \in Procs \ {p}, tx[q] # NoTx
        PROVE  <<GroupOf(q), tx[q].key>> \notin processed'
    <2>1. OpenTx(q)
      BY <1>7 DEF IInv, TxsExclusive
    <2> QED
      BY <1>2, <2>1 DEF OpenTx
  <1> QED
    BY <1>3, <1>4, <1>5, <1>6, <1>7

-----------------------------------------------------------------------------
(* The chain of an order's rows grows by one link.                         *)

LEMMA TypesDistinct ==
  /\ EventTypes = {EventOrderCreated, CommandReserveStock, EventStockReserved,
                   EventStockRejected, EventOrderStatusChanged}
  /\ Replies = {EventStockReserved, EventStockRejected}
  /\ EventStockReserved # EventStockRejected
  /\ EventOrderCreated # CommandReserveStock
  /\ EventOrderCreated # EventOrderStatusChanged
  /\ CommandReserveStock # EventOrderStatusChanged
  /\ EventOrderCreated \notin Replies
  /\ CommandReserveStock \notin Replies
  /\ EventOrderStatusChanged \notin Replies
  /\ \A x, y \in EventTypes :
       StepOf(x) = StepOf(y) <=> (x = y \/ (x \in Replies /\ y \in Replies))
  BY DEF EventTypes, Replies, EventOrderCreated, CommandReserveStock,
         EventStockReserved, EventStockRejected, EventOrderStatusChanged, StepOf

LEMMA ChainEmit ==
  ASSUME IInv, NEW e \in Row, outbox' = Append(outbox, e),
         processed \subseteq processed',
         \A o \in Orders : orders[o] # StatusAbsent => orders'[o] # StatusAbsent,
         orders'[e.order] # StatusAbsent,
         \A r \in Rows :
           outbox[r].order = e.order => StepOf(outbox[r].type) # StepOf(e.type),
         e.type # EventOrderCreated =>
           \E s \in Rows : CausedBy(s, e.order, e.type)',
         \A r \in Rows : (/\ outbox[r].order = e.order
                          /\ outbox[r].type # EventOrderStatusChanged
                          /\ e.type # EventOrderStatusChanged)
                         => outbox[r].data = e.data,
         e.type = EventStockReserved => e.data \notin ShutMarkets
  PROVE  EachStepOnce' /\ ChainOfRows' /\ MarketsKept'
  <1> DEFINE n == Len(outbox) + 1
  <1>1. /\ Rows' = Rows \cup {n} /\ n \notin Rows
        /\ \A r \in Rows : outbox'[r] = outbox[r]
        /\ outbox'[n] = e
        /\ \A r \in Rows : outbox[r].order \in Orders
    BY EmitFacts, RowFacts DEF IInv
  <1> HIDE DEF n
  <1>2. EachStepOnce'
    <2> SUFFICES ASSUME NEW r \in Rows', NEW s \in Rows',
                        outbox'[r].order = outbox'[s].order,
                        StepOf(outbox'[r].type) = StepOf(outbox'[s].type)
                 PROVE  r = s
      BY DEF EachStepOnce
    <2>1. CASE r \in Rows /\ s \in Rows
      <3>1. outbox'[r] = outbox[r] /\ outbox'[s] = outbox[s]
        BY <1>1, <2>1
      <3>2. /\ outbox[r].order = outbox[s].order
            /\ StepOf(outbox[r].type) = StepOf(outbox[s].type)
        BY <3>1
      <3>3. EachStepOnce
        BY DEF IInv
      <3> QED
        BY <2>1, <3>2, <3>3 DEF EachStepOnce
    <2>2. CASE r = n \/ s = n
      BY <1>1, <2>2
    <2> QED
      BY <1>1, <2>1, <2>2
  <1>3. ASSUME NEW r \in Rows'
        PROVE  /\ orders'[outbox'[r].order] # StatusAbsent
               /\ outbox'[r].type # EventOrderCreated =>
                    \E s \in Rows' : CausedBy(s, outbox[r].order, outbox[r].type)'
    <2>1. CASE r = n
      BY <1>1, <2>1
    <2>2. CASE r \in Rows
      <3>1. /\ orders'[outbox'[r].order] # StatusAbsent
            /\ outbox'[r].type # EventOrderCreated =>
                 \E s \in Rows : CausedBy(s, outbox[r].order, outbox[r].type)
        BY <1>1, <2>2 DEF IInv, ChainOfRows
      <3>2. ASSUME NEW s \in Rows, CausedBy(s, outbox[r].order, outbox[r].type)
            PROVE  CausedBy(s, outbox[r].order, outbox[r].type)'
        BY <1>1, <2>2, <3>2 DEF CausedBy
      <3> QED
        BY <1>1, <3>1, <3>2
    <2> QED
      BY <1>1, <2>1, <2>2
  <1>4. ChainOfRows'
    BY <1>3 DEF ChainOfRows
  <1>5. MarketsKept'
    <2>1. ASSUME NEW r \in Rows', NEW s \in Rows',
                 outbox'[r].order = outbox'[s].order,
                 outbox'[r].type # EventOrderStatusChanged,
                 outbox'[s].type # EventOrderStatusChanged
          PROVE  outbox'[r].data = outbox'[s].data
      <3>1. CASE r \in Rows /\ s \in Rows
        <4>1. outbox'[r] = outbox[r] /\ outbox'[s] = outbox[s]
          BY <1>1, <3>1
        <4>2. MarketsKept
          BY DEF IInv
        <4> QED
          BY <2>1, <3>1, <4>1, <4>2 DEF MarketsKept
      <3>2. CASE r = n \/ s = n
        <4>1. \A x \in Rows : outbox'[x] = outbox[x] /\ x # n
          BY <1>1
        <4>2. outbox'[n] = e /\ (r \in Rows \/ r = n) /\ (s \in Rows \/ s = n)
          BY <1>1
        <4>3. CASE r = n /\ s = n
          BY <4>3
        <4>4. CASE r = n /\ s \in Rows
          BY <2>1, <4>1, <4>2, <4>4
        <4>5. CASE r \in Rows /\ s = n
          BY <2>1, <4>1, <4>2, <4>5
        <4> QED
          BY <3>2, <4>2, <4>3, <4>4, <4>5
      <3> QED
        BY <1>1, <3>1, <3>2
    <2>2. ASSUME NEW r \in Rows', outbox'[r].type = EventStockReserved
          PROVE  outbox'[r].data \notin ShutMarkets
      <3>1. CASE r \in Rows
        BY <1>1, <2>2, <3>1 DEF IInv, MarketsKept
      <3>2. CASE r = n
        BY <1>1, <2>2, <3>2
      <3> QED
        BY <1>1, <3>1, <3>2
    <2> QED
      BY <2>1, <2>2 DEF MarketsKept
  <1> QED
    BY <1>2, <1>4, <1>5

(* RepliesAgree in terms of the new row, for orders' and reservations' that *)
(* change at most at the new row's order.                                  *)
LEMMA RepliesEmit ==
  ASSUME IInv, NEW e \in Row, outbox' = Append(outbox, e),
         processed \subseteq processed',
         \A u \in Orders \ {e.order} :
           orders'[u] = orders[u] /\ reservations'[u] = reservations[u],
         \A r \in Rows' : (outbox'[r].order = e.order /\ outbox'[r].type \in Replies)
           => reservations'[e.order] = VerdictOf(outbox'[r].type),
         reservations'[e.order] # ReservationNone =>
           \E r \in Rows' : outbox'[r].order = e.order /\ outbox'[r].type \in Replies,
         orders'[e.order] \in Settled =>
           \E r \in Rows' :
             /\ outbox'[r].order = e.order /\ outbox'[r].type \in Replies
             /\ <<Orchestrator, r>> \in processed'
             /\ orders'[e.order] = StatusFor(VerdictOf(outbox'[r].type))
  PROVE  RepliesAgree'
  <1>1. /\ Rows' = Rows \cup {Len(outbox) + 1}
        /\ \A r \in Rows : outbox'[r] = outbox[r] /\ outbox[r].order \in Orders
        /\ outbox'[Len(outbox) + 1] = e /\ e.order \in Orders
    BY EmitFacts, RowFacts DEF IInv, Row
  <1>2. ASSUME NEW r \in Rows', outbox'[r].type \in Replies
        PROVE  reservations'[outbox'[r].order] = VerdictOf(outbox'[r].type)
    <2>1. CASE outbox'[r].order = e.order
      BY <1>2, <2>1
    <2>2. CASE outbox'[r].order # e.order
      <3>1. r \in Rows /\ outbox'[r] = outbox[r] /\ outbox[r].order \in Orders
        BY <1>1, <1>2, <2>2
      <3>2. reservations'[outbox[r].order] = reservations[outbox[r].order]
        BY <2>2, <3>1
      <3>3. RepliesAgree
        BY DEF IInv
      <3> QED
        BY <1>2, <3>1, <3>2, <3>3 DEF RepliesAgree
    <2> QED
      BY <2>1, <2>2
  <1>3. ASSUME NEW u \in Orders, reservations'[u] # ReservationNone
        PROVE  \E r \in Rows' : outbox'[r].order = u /\ outbox'[r].type \in Replies
    <2>1. CASE u = e.order
      BY <1>3, <2>1
    <2>2. CASE u # e.order
      <3>1. PICK r \in Rows : outbox[r].order = u /\ outbox[r].type \in Replies
        BY <1>3, <2>2 DEF IInv, RepliesAgree
      <3> QED
        BY <1>1, <3>1
    <2> QED
      BY <2>1, <2>2
  <1>4. ASSUME NEW u \in Orders, orders'[u] \in Settled
        PROVE  \E r \in Rows' :
                  /\ outbox'[r].order = u /\ outbox'[r].type \in Replies
                  /\ <<Orchestrator, r>> \in processed'
                  /\ orders'[u] = StatusFor(VerdictOf(outbox'[r].type))
    <2>1. CASE u = e.order
      BY <1>4, <2>1
    <2>2. CASE u # e.order
      <3>1. orders'[u] = orders[u]
        BY <2>2
      <3>2. PICK r \in Rows :
               /\ outbox[r].order = u /\ outbox[r].type \in Replies
               /\ <<Orchestrator, r>> \in processed
               /\ orders[u] = StatusFor(VerdictOf(outbox[r].type))
        BY <1>4, <3>1 DEF IInv, RepliesAgree
      <3> QED
        BY <1>1, <3>1, <3>2
    <2> QED
      BY <2>1, <2>2
  <1> QED
    BY <1>2, <1>3, <1>4 DEF RepliesAgree

LEMMA CreateOrderOK ==
  ASSUME IInv, NEW o \in Orders, NEW m \in MarketIDs, CreateOrder(o, m)
  PROVE  IInv'
  <1> DEFINE e == [type |-> EventOrderCreated, topic |-> TopicOrderEvents,
                   order |-> o, data |-> m]
  <1>1. /\ orders[o] = StatusAbsent
        /\ orders' = [orders EXCEPT ![o] = StatusCreated]
        /\ outbox' = Append(outbox, e)
        /\ UNCHANGED <<reservations, processed, published, relay, committed,
                       owner, position, fetch, tx, log, faults>>
    BY DEF CreateOrder, Emit, OrderTopicResolver, EventOrderCreated,
           CommandReserveStock, EventOrderStatusChanged, consumers
  <1>2. /\ e \in Row /\ e.topic = RowTopic(e.type)
        /\ e.type = EventOrderCreated /\ e.order = o /\ e.data = m
    BY TypesDistinct DEF Row, Topics, RowTopic
  <1> HIDE DEF e
  <1>3. \A r \in Rows : outbox[r].order # o
    BY <1>1 DEF IInv, ChainOfRows
  <1>4. /\ orders' \in [Orders -> Statuses \cup {StatusAbsent}]
        /\ orders'[o] = StatusCreated
        /\ StatusCreated # StatusAbsent /\ StatusCreated \notin Settled
        /\ \A u \in Orders \ {o} : orders'[u] = orders[u]
    BY <1>1 DEF IInv, TypeOK, Statuses, StatusCreated, StatusAbsent, Settled,
                StatusReserved, StatusRejected
  <1>5. TypeOK' /\ RowsInTheirTopics' /\ BatchesAreLog' /\ TxsExclusive'
    <2>1. \A q \in Procs :
             \/ tx'[q] = NoTx
             \/ /\ tx'[q] = tx[q] /\ fetch'[q] = fetch[q]
                /\ <<GroupOf(q), tx[q].key>> \notin processed'
      BY <1>1 DEF IInv, TxsExclusive, OpenTx
    <2>2. \A q \in Procs, t \in ConsumedTopics : FetchOK(q, t)'
      BY <1>1, FetchFacts DEF FetchOK
    <2>3. /\ reservations' \in [Orders -> Verdicts \cup {ReservationNone}]
          /\ processed' \subseteq Groups \X Rows
      BY <1>1 DEF IInv, TypeOK
    <2>4. /\ tx' \in [Procs -> Txs] /\ faults' \in 0..MaxFaults
          /\ fetch' \in [Procs -> [ConsumedTopics -> Ranges]]
      BY <1>1, LoopFacts
    <2> QED
      BY <1>1, <1>2, <1>4, <2>1, <2>2, <2>3, <2>4, EmitFrame
  <1>6. EachStepOnce' /\ ChainOfRows' /\ MarketsKept'
    BY <1>1, <1>2, <1>3, <1>4, TypesDistinct, ChainEmit
  <1>7. RepliesAgree'
    <2>1. /\ Rows' = Rows \cup {Len(outbox) + 1}
          /\ \A r \in Rows : outbox'[r] = outbox[r]
          /\ outbox'[Len(outbox) + 1] = e
      BY <1>1, <1>2, EmitFacts DEF IInv
    <2>2. \A r \in Rows' : ~(outbox'[r].order = o /\ outbox'[r].type \in Replies)
      BY <1>2, <1>3, <2>1, TypesDistinct
    <2>3. reservations'[o] = ReservationNone
      BY <1>1, <1>3 DEF IInv, RepliesAgree
    <2> QED
      BY <1>1, <1>2, <1>4, <2>2, <2>3, RepliesEmit
  <1> QED
    BY <1>5, <1>6, <1>7 DEF IInv

(* What a handler knows of the row its transaction is about.               *)
LEMMA HandledRow ==
  ASSUME IInv, NEW p \in Procs, tx[p] # NoTx, NEW r, r = tx[p].key
  PROVE  /\ r \in Rows /\ outbox[r].order \in Orders
         /\ outbox[r].type \in EventTypes \ {EventOrderStatusChanged}
         /\ GroupOf(p) = Reader(outbox[r].type)
         /\ <<GroupOf(p), r>> \notin processed
         /\ orders[outbox[r].order] # StatusAbsent
         /\ p \in MarketProcs => tx[p].verdict \in Reserve(outbox[r].data)
  <1>1. OpenTx(p)
    BY OpenTxFacts
  <1>2. /\ r \in Rows /\ outbox[r].order \in Orders
        /\ outbox[r].type \in EventTypes
        /\ outbox[r].topic = RowTopic(outbox[r].type)
        /\ outbox[r].topic \in TopicsOf(GroupOf(p))
        /\ <<GroupOf(p), r>> \notin processed
        /\ p \in MarketProcs => tx[p].verdict \in Reserve(outbox[r].data)
    BY <1>1, RowFacts DEF OpenTx, IInv, RowsInTheirTopics
  <1>3. orders[outbox[r].order] # StatusAbsent
    BY <1>2 DEF IInv, ChainOfRows
  <1>4. GroupOf(p) = Orchestrator \/ GroupOf(p) = MarketReserve
    BY DEF GroupOf
  <1>5. /\ outbox[r].type # EventOrderStatusChanged
        /\ GroupOf(p) = Reader(outbox[r].type)
    BY <1>2, <1>4, TypesDistinct
    DEF RowTopic, TopicsOf, Reader, Orchestrator, MarketReserve,
        TopicOrderEvents, TopicSagaCommands, TopicSagaReplies, TopicOrderStatus
  <1> QED
    BY <1>2, <1>3, <1>5

(* As long as a row's reader has not processed it, no row that takes it    *)
(* for its cause exists.                                                   *)
LEMMA NextStepNotTaken ==
  ASSUME IInv, NEW r \in Rows, NEW x \in Rows,
         <<Reader(outbox[r].type), r>> \notin processed,
         outbox[x].order = outbox[r].order
  PROVE  outbox[r].type \notin Causes(outbox[x].type)
  <1> SUFFICES ASSUME outbox[r].type \in Causes(outbox[x].type)
               PROVE  FALSE
    OBVIOUS
  <1>1. outbox[x].type # EventOrderCreated
    <2>1. Causes(EventOrderCreated) = {}
      BY TypesDistinct DEF Causes
    <2> QED
      BY <2>1
  <1>2. PICK s \in Rows : CausedBy(s, outbox[x].order, outbox[x].type)
    BY <1>1 DEF IInv, ChainOfRows
  <1>3. /\ outbox[s].order = outbox[r].order
        /\ outbox[s].type \in Causes(outbox[x].type)
        /\ <<Reader(outbox[s].type), s>> \in processed
    BY <1>2 DEF CausedBy
  <1>4. /\ outbox[r].type \in EventTypes /\ outbox[s].type \in EventTypes
        /\ outbox[x].type \in EventTypes
    BY RowFacts DEF IInv
  <1>5. \/ outbox[s].type = outbox[r].type
        \/ outbox[s].type \in Replies /\ outbox[r].type \in Replies
    BY <1>3, <1>4, TypesDistinct DEF Causes
  <1>6. StepOf(outbox[s].type) = StepOf(outbox[r].type)
    BY <1>4, <1>5, TypesDistinct
  <1>7. EachStepOnce
    BY DEF IInv
  <1>8. s = r
    BY <1>3, <1>6, <1>7 DEF EachStepOnce
  <1> QED
    BY <1>3, <1>8

LEMMA HandleOrderCreatedOK ==
  ASSUME IInv, NEW p \in Procs, NEW acked \in BOOLEAN,
         HandleOrderCreated(p, acked)
  PROVE  IInv'
  <1>0. PICK r, o, e :
           /\ r = tx[p].key
           /\ o = outbox[r].order
           /\ e = [type |-> CommandReserveStock, topic |-> TopicSagaCommands,
                   order |-> o, data |-> outbox[r].data]
    OBVIOUS
  <1>1. /\ tx[p] # NoTx /\ p \in OrderProcs
        /\ outbox[r].type = EventOrderCreated
        /\ processed' = processed \cup {<<Orchestrator, r>>}
        /\ outbox' = Append(outbox, e)
        /\ Finish(p, acked)
        /\ UNCHANGED <<orders, reservations, published, relay, committed,
                       owner, position, log>>
    <2>1. OrderTopicResolver(CommandReserveStock) = TopicSagaCommands
      BY TypesDistinct DEF OrderTopicResolver
    <2> QED
      BY <1>0, <2>1 DEF HandleOrderCreated, OrchestratorTx, Emit
  <1>2. /\ r \in Rows /\ o \in Orders /\ orders[o] # StatusAbsent
        /\ GroupOf(p) = Orchestrator
        /\ Reader(outbox[r].type) = Orchestrator
        /\ <<Orchestrator, r>> \notin processed
    BY <1>0, <1>1, HandledRow DEF GroupOf
  <1>3. /\ e \in Row /\ e.topic = RowTopic(e.type)
        /\ e.type = CommandReserveStock /\ e.order = o
        /\ e.data = outbox[r].data /\ outbox[r].order = o
    <2>1. outbox[r].data \in MarketIDs \cup Settled
      BY <1>2, RowFacts DEF IInv
    <2>2. RowTopic(CommandReserveStock) = TopicSagaCommands
      BY TypesDistinct DEF RowTopic
    <2> QED
      BY <1>0, <1>2, <2>1, <2>2, TypesDistinct DEF Row, Topics
  <1>4. TypeOK' /\ RowsInTheirTopics' /\ BatchesAreLog' /\ TxsExclusive'
    <2>1. processed' = processed \cup {<<GroupOf(p), tx[p].key>>}
      BY <1>0, <1>1, <1>2
    <2>2. /\ orders' \in [Orders -> Statuses \cup {StatusAbsent}]
          /\ reservations' \in [Orders -> Verdicts \cup {ReservationNone}]
      BY <1>1 DEF IInv, TypeOK
    <2> QED
      BY <1>1, <1>3, <2>1, <2>2, FinishOK, EmitFrame
  <1>5. /\ Rows' = Rows \cup {Len(outbox) + 1}
        /\ \A x \in Rows : outbox'[x] = outbox[x]
        /\ outbox'[Len(outbox) + 1] = e
    BY <1>1, <1>3, EmitFacts DEF IInv
  <1>6. EachStepOnce' /\ ChainOfRows' /\ MarketsKept'
    <2>1. ASSUME NEW x \in Rows, outbox[x].order = e.order
          PROVE  StepOf(outbox[x].type) # StepOf(e.type)
      <3>1. outbox[r].type \notin Causes(outbox[x].type)
        BY <1>2, <1>3, <2>1, NextStepNotTaken
      <3>2. outbox[x].type # CommandReserveStock
        BY <1>1, <3>1, TypesDistinct DEF Causes
      <3>3. outbox[x].type \in EventTypes /\ e.type \in EventTypes
        BY <1>3, RowFacts, TypesDistinct DEF IInv
      <3> QED
        BY <1>3, <3>2, <3>3, TypesDistinct
    <2>2. CausedBy(r, e.order, e.type)'
      BY <1>1, <1>2, <1>3, <1>5, TypesDistinct DEF CausedBy, Causes
    <2>3. MarketsKept
      BY DEF IInv
    <2>4. \A x \in Rows : (/\ outbox[x].order = e.order
                          /\ outbox[x].type # EventOrderStatusChanged)
                         => outbox[x].data = e.data
      BY <1>1, <1>2, <1>3, <2>3, TypesDistinct DEF MarketsKept
    <2>5. e.type # EventStockReserved
      BY <1>3, TypesDistinct
    <2>6. processed \subseteq processed' /\ orders' = orders
      BY <1>1
    <2> QED
      BY <1>1, <1>2, <1>3, <2>1, <2>2, <2>4, <2>5, <2>6, ChainEmit
  <1>7. RepliesAgree'
    <2>1. RepliesAgree
      BY DEF IInv
    <2>2. e.type \notin Replies
      BY <1>3, TypesDistinct
    <2>3. \A x \in Rows' : outbox'[x].type \in Replies =>
            x \in Rows /\ outbox'[x] = outbox[x]
      BY <1>5, <2>2
    <2>4. ASSUME NEW x \in Rows', outbox'[x].order = o,
                 outbox'[x].type \in Replies
          PROVE  reservations'[o] = VerdictOf(outbox'[x].type)
      <3>1. x \in Rows /\ outbox'[x] = outbox[x]
        BY <2>3, <2>4
      <3> QED
        BY <1>1, <2>1, <2>4, <3>1 DEF RepliesAgree
    <2>5. ASSUME reservations'[o] # ReservationNone
          PROVE  \E x \in Rows' :
                   outbox'[x].order = o /\ outbox'[x].type \in Replies
      <3>1. PICK x \in Rows : outbox[x].order = o /\ outbox[x].type \in Replies
        BY <1>1, <1>2, <2>1, <2>5 DEF RepliesAgree
      <3> QED
        BY <1>5, <3>1
    <2>6. ASSUME orders'[o] \in Settled
          PROVE  \E x \in Rows' :
                   /\ outbox'[x].order = o /\ outbox'[x].type \in Replies
                   /\ <<Orchestrator, x>> \in processed'
                   /\ orders'[o] = StatusFor(VerdictOf(outbox'[x].type))
      <3>1. PICK x \in Rows :
               /\ outbox[x].order = o /\ outbox[x].type \in Replies
               /\ <<Orchestrator, x>> \in processed
               /\ orders[o] = StatusFor(VerdictOf(outbox[x].type))
        BY <1>1, <1>2, <2>1, <2>6 DEF RepliesAgree
      <3> QED
        BY <1>1, <1>5, <3>1
    <2> QED
      BY <1>1, <1>3, <2>4, <2>5, <2>6, RepliesEmit
  <1> QED
    BY <1>4, <1>6, <1>7 DEF IInv

LEMMA HandleReplyOK ==
  ASSUME IInv, NEW p \in Procs, NEW acked \in BOOLEAN, HandleReply(p, acked)
  PROVE  IInv'
  <1>0. PICK r, o, s, e :
           /\ r = tx[p].key
           /\ o = outbox[r].order
           /\ s = StatusFor(VerdictOf(outbox[r].type))
           /\ e = [type |-> EventOrderStatusChanged, topic |-> TopicOrderStatus,
                   order |-> o, data |-> s]
    OBVIOUS
  <1>1. /\ tx[p] # NoTx /\ p \in OrderProcs
        /\ outbox[r].type \in Replies
        /\ processed' = processed \cup {<<Orchestrator, r>>}
        /\ orders' = [orders EXCEPT ![o] = IF @ = StatusAbsent THEN @ ELSE s]
        /\ outbox' = Append(outbox, e)
        /\ Finish(p, acked)
        /\ UNCHANGED <<reservations, published, relay, committed, owner,
                       position, log>>
    <2>1. s = IF outbox[r].type = EventStockReserved THEN StatusReserved
                                                     ELSE StatusRejected
      BY <1>0 DEF StatusFor, VerdictOf, ReservationReserved, ReservationRejected
    <2>2. OrderTopicResolver(EventOrderStatusChanged) = TopicOrderStatus
      BY DEF OrderTopicResolver, EventOrderCreated, CommandReserveStock,
             EventOrderStatusChanged
    <2> QED
      BY <1>0, <2>1, <2>2 DEF HandleReply, OrchestratorTx, Emit
  <1>2. /\ r \in Rows /\ o \in Orders /\ orders[o] # StatusAbsent
        /\ GroupOf(p) = Orchestrator
        /\ Reader(outbox[r].type) = Orchestrator
        /\ <<Orchestrator, r>> \notin processed
    BY <1>0, <1>1, HandledRow DEF GroupOf
  <1>3. /\ s \in Settled /\ s \in Statuses /\ s # StatusAbsent
    BY <1>0 DEF StatusFor, Settled, Statuses, StatusAbsent, StatusReserved,
                StatusRejected
  <1>4. /\ e \in Row /\ e.topic = RowTopic(e.type)
        /\ e.type = EventOrderStatusChanged /\ e.order = o
        /\ outbox[r].order = o
    <2>1. RowTopic(EventOrderStatusChanged) = TopicOrderStatus
      BY TypesDistinct DEF RowTopic
    <2> QED
      BY <1>0, <1>2, <1>3, <2>1, TypesDistinct DEF Row, Topics
  <1>5. /\ orders' \in [Orders -> Statuses \cup {StatusAbsent}]
        /\ orders'[o] = s
        /\ \A u \in Orders \ {o} : orders'[u] = orders[u]
    BY <1>1, <1>2, <1>3 DEF IInv, TypeOK
  <1>6. TypeOK' /\ RowsInTheirTopics' /\ BatchesAreLog' /\ TxsExclusive'
    <2>1. processed' = processed \cup {<<GroupOf(p), tx[p].key>>}
      BY <1>0, <1>1, <1>2
    <2>2. reservations' \in [Orders -> Verdicts \cup {ReservationNone}]
      BY <1>1 DEF IInv, TypeOK
    <2> QED
      BY <1>1, <1>4, <1>5, <2>1, <2>2, FinishOK, EmitFrame
  <1>7. /\ Rows' = Rows \cup {Len(outbox) + 1}
        /\ \A x \in Rows : outbox'[x] = outbox[x]
        /\ outbox'[Len(outbox) + 1] = e
    BY <1>1, <1>4, EmitFacts DEF IInv
  <1>8. EachStepOnce' /\ ChainOfRows' /\ MarketsKept'
    <2>1. ASSUME NEW x \in Rows, outbox[x].order = e.order
          PROVE  StepOf(outbox[x].type) # StepOf(e.type)
      <3>1. outbox[r].type \notin Causes(outbox[x].type)
        BY <1>2, <1>4, <2>1, NextStepNotTaken
      <3>2. outbox[x].type # EventOrderStatusChanged
        BY <1>1, <3>1, TypesDistinct DEF Causes
      <3>3. outbox[x].type \in EventTypes /\ e.type \in EventTypes
        BY <1>4, RowFacts, TypesDistinct DEF IInv
      <3> QED
        BY <1>4, <3>2, <3>3, TypesDistinct
    <2>2. CausedBy(r, e.order, e.type)'
      BY <1>1, <1>2, <1>4, <1>7, TypesDistinct DEF CausedBy, Causes
    <2>3. e.type # EventStockReserved
      BY <1>4, TypesDistinct
    <2>4. \A u \in Orders : orders[u] # StatusAbsent => orders'[u] # StatusAbsent
      BY <1>3, <1>5
    <2>5. processed \subseteq processed' /\ orders'[e.order] # StatusAbsent
      BY <1>1, <1>3, <1>4, <1>5
    <2> QED
      BY <1>1, <1>2, <1>4, <2>1, <2>2, <2>3, <2>4, <2>5, ChainEmit
  <1>9. RepliesAgree'
    <2>1. RepliesAgree
      BY DEF IInv
    <2>2. e.type \notin Replies
      BY <1>4, TypesDistinct
    <2>3. \A x \in Rows' : outbox'[x].type \in Replies =>
            x \in Rows /\ outbox'[x] = outbox[x]
      BY <1>7, <2>2
    <2>4. ASSUME NEW x \in Rows', outbox'[x].order = o,
                 outbox'[x].type \in Replies
          PROVE  reservations'[o] = VerdictOf(outbox'[x].type)
      <3>1. x \in Rows /\ outbox'[x] = outbox[x]
        BY <2>3, <2>4
      <3> QED
        BY <1>1, <2>1, <2>4, <3>1 DEF RepliesAgree
    <2>5. r \in Rows' /\ outbox'[r] = outbox[r] /\ <<Orchestrator, r>> \in processed'
      BY <1>1, <1>2, <1>7
    <2>6. /\ outbox'[r].order = o /\ outbox'[r].type \in Replies
          /\ orders'[o] = StatusFor(VerdictOf(outbox'[r].type))
      BY <1>0, <1>1, <1>5, <2>5
    <2>7. /\ processed \subseteq processed'
          /\ \A u \in Orders \ {e.order} :
               orders'[u] = orders[u] /\ reservations'[u] = reservations[u]
      BY <1>1, <1>4, <1>5
    <2> QED
      BY <1>1, <1>4, <2>4, <2>5, <2>6, <2>7, RepliesEmit
  <1> QED
    BY <1>6, <1>8, <1>9 DEF IInv

LEMMA HandleReserveStockOK ==
  ASSUME IInv, NEW p \in Procs, NEW acked \in BOOLEAN,
         HandleReserveStock(p, acked)
  PROVE  IInv'
  <1>0. PICK r, o, v, reply, e :
           /\ r = tx[p].key
           /\ o = outbox[r].order
           /\ v = tx[p].verdict
           /\ reply = IF v = ReservationReserved THEN EventStockReserved
                                                 ELSE EventStockRejected
           /\ e = [type |-> reply, topic |-> TopicSagaReplies,
                   order |-> o, data |-> outbox[r].data]
    OBVIOUS
  <1>1. /\ tx[p] # NoTx /\ p \in MarketProcs
        /\ processed' = processed \cup {<<MarketReserve, r>>}
        /\ reservations' = [reservations EXCEPT ![o] =
                              IF @ = ReservationNone THEN v ELSE @]
        /\ outbox' = Append(outbox, e)
        /\ Finish(p, acked)
        /\ UNCHANGED <<orders, published, relay, committed, owner, position, log>>
    <2>1. MarketTopicResolver(reply) = TopicSagaReplies
      BY <1>0, TypesDistinct DEF MarketTopicResolver
    <2> QED
      BY <1>0, <2>1 DEF HandleReserveStock, Emit
  <1>2. /\ r \in Rows /\ o \in Orders /\ orders[o] # StatusAbsent
        /\ GroupOf(p) = MarketReserve
        /\ outbox[r].type = CommandReserveStock
        /\ Reader(outbox[r].type) = MarketReserve
        /\ <<MarketReserve, r>> \notin processed
        /\ v \in Reserve(outbox[r].data)
    <2>1. GroupOf(p) = MarketReserve
      BY <1>1, ProcsAssumption DEF GroupOf
    <2> QED
      BY <1>0, <1>1, <2>1, HandledRow DEF Reader, Orchestrator, MarketReserve
  <1>3. /\ v \in Verdicts /\ VerdictOf(reply) = v
        /\ v = ReservationReserved => outbox[r].data \notin ShutMarkets
        /\ ReservationNone \notin Verdicts
    BY <1>0, <1>2, TypesDistinct
    DEF Reserve, Verdicts, VerdictOf, ReservationReserved, ReservationRejected,
        ReservationNone
  <1>4. /\ reply \in Replies
        /\ reply = EventStockReserved => v = ReservationReserved
    BY <1>0, TypesDistinct
  <1>5. /\ e \in Row /\ e.topic = RowTopic(e.type)
        /\ e.type = reply /\ e.order = o /\ e.data = outbox[r].data
        /\ outbox[r].order = o
    <2>1. outbox[r].data \in MarketIDs \cup Settled
      BY <1>2, RowFacts DEF IInv
    <2>2. RowTopic(reply) = TopicSagaReplies
      BY <1>4, TypesDistinct DEF RowTopic
    <2> QED
      BY <1>0, <1>2, <1>4, <2>1, <2>2, TypesDistinct DEF Row, Topics
  <1>6. ASSUME NEW x \in Rows, outbox[x].order = o
        PROVE  outbox[x].type \notin Replies
    <2>1. outbox[r].type \notin Causes(outbox[x].type)
      BY <1>2, <1>5, <1>6, NextStepNotTaken
    <2> QED
      BY <1>2, <2>1, TypesDistinct DEF Causes
  <1>7. RepliesAgree
    BY DEF IInv
  <1>8. reservations[o] = ReservationNone /\ orders[o] \notin Settled
    BY <1>2, <1>6, <1>7 DEF RepliesAgree
  <1>9. /\ reservations' \in [Orders -> Verdicts \cup {ReservationNone}]
        /\ reservations'[o] = v
        /\ \A u \in Orders \ {o} : reservations'[u] = reservations[u]
    BY <1>1, <1>2, <1>3, <1>8 DEF IInv, TypeOK
  <1>10. TypeOK' /\ RowsInTheirTopics' /\ BatchesAreLog' /\ TxsExclusive'
    <2>1. processed' = processed \cup {<<GroupOf(p), tx[p].key>>}
      BY <1>0, <1>1, <1>2
    <2>2. orders' \in [Orders -> Statuses \cup {StatusAbsent}]
      BY <1>1 DEF IInv, TypeOK
    <2> QED
      BY <1>1, <1>5, <1>9, <2>1, <2>2, FinishOK, EmitFrame
  <1>11. /\ Rows' = Rows \cup {Len(outbox) + 1}
         /\ \A x \in Rows : outbox'[x] = outbox[x]
         /\ outbox'[Len(outbox) + 1] = e
    BY <1>1, <1>5, EmitFacts DEF IInv
  <1>12. EachStepOnce' /\ ChainOfRows' /\ MarketsKept'
    <2>1. ASSUME NEW x \in Rows, outbox[x].order = e.order
          PROVE  StepOf(outbox[x].type) # StepOf(e.type)
      <3>1. outbox[x].type \notin Replies /\ outbox[x].type \in EventTypes
        BY <1>5, <1>6, <2>1, RowFacts DEF IInv
      <3>2. e.type \in Replies /\ e.type \in EventTypes
        BY <1>4, <1>5, TypesDistinct
      <3> QED
        BY <3>1, <3>2, TypesDistinct
    <2>2. CausedBy(r, e.order, e.type)'
      BY <1>1, <1>2, <1>4, <1>5, <1>11, TypesDistinct DEF CausedBy, Causes
    <2>3. MarketsKept
      BY DEF IInv
    <2>4. \A x \in Rows : (/\ outbox[x].order = e.order
                          /\ outbox[x].type # EventOrderStatusChanged)
                         => outbox[x].data = e.data
      BY <1>2, <1>5, <2>3, TypesDistinct DEF MarketsKept
    <2>5. e.type = EventStockReserved => e.data \notin ShutMarkets
      BY <1>3, <1>4, <1>5
    <2>6. processed \subseteq processed' /\ orders' = orders
      BY <1>1
    <2> QED
      BY <1>1, <1>2, <1>5, <2>1, <2>2, <2>4, <2>5, <2>6, ChainEmit
  <1>13. RepliesAgree'
    <2>1. \A x \in Rows' : (outbox'[x].order = o /\ outbox'[x].type \in Replies)
            => reservations'[o] = VerdictOf(outbox'[x].type)
      BY <1>3, <1>5, <1>6, <1>9, <1>11
    <2>2. \E x \in Rows' : outbox'[x].order = o /\ outbox'[x].type \in Replies
      BY <1>4, <1>5, <1>11
    <2>3. orders'[o] \notin Settled
      BY <1>1, <1>8
    <2>4. /\ processed \subseteq processed'
          /\ \A u \in Orders \ {e.order} :
               orders'[u] = orders[u] /\ reservations'[u] = reservations[u]
      BY <1>1, <1>5, <1>9
    <2>5. /\ \A x \in Rows' :
               (outbox'[x].order = e.order /\ outbox'[x].type \in Replies)
                 => reservations'[e.order] = VerdictOf(outbox'[x].type)
          /\ \E x \in Rows' :
               outbox'[x].order = e.order /\ outbox'[x].type \in Replies
          /\ orders'[e.order] \notin Settled
          /\ e \in Row /\ outbox' = Append(outbox, e)
      BY <1>1, <1>5, <2>1, <2>2, <2>3
    <2> QED
      BY <2>4, <2>5, RepliesEmit
  <1> QED
    BY <1>10, <1>12, <1>13 DEF IInv

-----------------------------------------------------------------------------
LEMMA InitOK == Init => IInv
  <1> SUFFICES ASSUME Init
               PROVE  IInv
    OBVIOUS
  <1>1. outbox = <<>> /\ Rows = {}
    BY DEF Init, Rows
  <1>2. /\ tx = [p \in Procs |-> NoTx] /\ NoTx \in Txs
        /\ relay = [p \in Procs |-> NoBatch] /\ NoBatch \in Batches
    BY DEF Init, NoTx, Txs, NoBatch, Batches
  <1>3. /\ fetch = [p \in Procs |-> NoFetch]
        /\ NoFetch \in [ConsumedTopics -> Ranges]
        /\ \A t \in ConsumedTopics :
             /\ NoFetch[t].from = 0 /\ NoFetch[t].cur = 0 /\ NoFetch[t].end = 0
    BY DEF Init, NoFetch, NoRange, Ranges
  <1>4. \A t \in Topics : log[t] = <<>>
    BY DEF Init
  <1>5. TypeOK
    <2>1. log \in [Topics -> Seq(Rows)] /\ outbox \in Seq(Row)
      BY <1>1 DEF Init
    <2>2. /\ orders \in [Orders -> Statuses \cup {StatusAbsent}]
          /\ reservations \in [Orders -> Verdicts \cup {ReservationNone}]
          /\ published \subseteq Rows /\ processed \subseteq Groups \X Rows
      BY DEF Init
    <2>3. /\ committed \in [ConsumedTopics -> Nat]
          /\ owner \in [ConsumedTopics -> Procs \cup {NoProc}]
          /\ position \in [ConsumedTopics -> Nat]
          /\ faults \in 0..MaxFaults
      BY BoundsAssumption DEF Init
    <2> QED
      BY <1>2, <1>3, <2>1, <2>2, <2>3 DEF TypeOK
  <1>6. RowsInTheirTopics
    BY <1>1, <1>4 DEF RowsInTheirTopics
  <1>7. BatchesAreLog
    <2>1. \A t \in ConsumedTopics : t \in Topics
      BY DEF ConsumedTopics, Topics
    <2>2. \A t \in ConsumedTopics : owner[t] = NoProc /\ Len(log[t]) = 0
      BY <1>4, <2>1 DEF Init
    <2> QED
      BY <1>3, <2>2 DEF BatchesAreLog
  <1>8. TxsExclusive
    BY <1>2 DEF TxsExclusive
  <1>9. EachStepOnce /\ ChainOfRows /\ MarketsKept
    BY <1>1 DEF EachStepOnce, ChainOfRows, MarketsKept
  <1>10. RepliesAgree
    <2>1. \A o \in Orders : /\ reservations[o] = ReservationNone
                           /\ orders[o] \notin Settled
      BY DEF Init, Settled, StatusAbsent, StatusReserved, StatusRejected
    <2> QED
      BY <1>1, <2>1 DEF RepliesAgree
  <1> QED
    BY <1>5, <1>6, <1>7, <1>8, <1>9, <1>10 DEF IInv

LEMMA StutterOK == IInv /\ UNCHANGED vars => IInv'
  <1> SUFFICES ASSUME IInv, UNCHANGED vars
               PROVE  IInv'
    OBVIOUS
  <1>1. /\ UNCHANGED <<orders, reservations, processed, outbox, published, relay,
                       committed, owner, position, fetch, tx, log, faults>>
        /\ UNCHANGED <<tables, outbox, published, log>>
    BY DEF vars, tables, outboxes, consumers
  <1>2. /\ tx' \in [Procs -> Txs] /\ relay' \in [Procs -> Batches]
        /\ committed' \in [ConsumedTopics -> Nat]
        /\ position' \in [ConsumedTopics -> Nat]
        /\ fetch' \in [Procs -> [ConsumedTopics -> Ranges]]
        /\ faults' \in 0..MaxFaults /\ OwnersOK'
    BY <1>1, LoopFacts DEF OwnersOK
  <1>3. \A p \in Procs, t \in ConsumedTopics : FetchOK(p, t)'
    BY <1>1, FetchFacts DEF FetchOK
  <1>4. \A q \in Procs : TxKept(q)
    BY <1>1 DEF TxKept
  <1> QED
    BY <1>1, <1>2, <1>3, <1>4, LoopFrame

LEMMA StepOK == IInv /\ [Next]_vars => IInv'
  <1> SUFFICES ASSUME IInv, [Next]_vars
               PROVE  IInv'
    OBVIOUS
  <1>1. ASSUME NEW o \in Orders, NEW m \in MarketIDs, CreateOrder(o, m)
        PROVE  IInv'
    BY <1>1, CreateOrderOK
  <1>2. ASSUME NEW t \in ConsumedTopics, NEW p \in Procs, Assign(t, p)
        PROVE  IInv'
    BY <1>2, AssignOK
  <1>3. ASSUME NEW t \in ConsumedTopics, Revoke(t)
        PROVE  IInv'
    BY <1>3, RevokeOK
  <1>4. ASSUME NEW p \in Procs, Crash(p)
        PROVE  IInv'
    BY <1>4, CrashOK
  <1>5. ASSUME NEW p \in Procs, ConsumerStep(p)
        PROVE  IInv'
    <2>1. CASE Poll(p)
      BY <2>1, PollOK
    <2>2. CASE SkipDuplicate(p)
      BY <2>2, SkipDuplicateOK
    <2>3. CASE OrchestratorAcquire(p)
      BY <2>3, OrchestratorAcquireOK
    <2>4. CASE HandleOrderCreated(p, TRUE)
      BY <2>4, HandleOrderCreatedOK
    <2>5. CASE HandleReply(p, TRUE)
      BY <2>5, HandleReplyOK
    <2>6. CASE ParticipantAcquire(p)
      BY <2>6, ParticipantAcquireOK
    <2>7. CASE HandleReserveStock(p, TRUE)
      BY <2>7, HandleReserveStockOK
    <2>8. CASE CommitRecords(p)
      BY <2>8, CommitRecordsOK
    <2> QED
      BY <1>5, <2>1, <2>2, <2>3, <2>4, <2>5, <2>6, <2>7, <2>8 DEF ConsumerStep
  <1>6. ASSUME NEW p \in Procs, ConsumerFault(p)
        PROVE  IInv'
    <2>1. CASE HandlerFails(p)
      BY <2>1, HandlerFailsOK
    <2>2. CASE HandleOrderCreated(p, FALSE)
      BY <2>2, HandleOrderCreatedOK
    <2>3. CASE HandleReply(p, FALSE)
      BY <2>3, HandleReplyOK
    <2>4. CASE HandleReserveStock(p, FALSE)
      BY <2>4, HandleReserveStockOK
    <2>5. CASE CommitRecordsFails(p)
      BY <2>5, CommitRecordsOK
    <2> QED
      BY <1>6, <2>1, <2>2, <2>3, <2>4, <2>5 DEF ConsumerFault
  <1>7. ASSUME NEW p \in RelayProcs, RelayStep(p) \/ RelayFault(p)
        PROVE  IInv'
    <2>1. p \in Procs
      BY ProcsAssumption DEF Procs
    <2> QED
      BY <1>7, <2>1, RelayStepOK
  <1>8. CASE UNCHANGED vars
    BY <1>8, StutterOK
  <1> QED
    BY <1>1, <1>2, <1>3, <1>4, <1>5, <1>6, <1>7, <1>8 DEF Next, Environment

(* IInv holds in every state the two services can reach.                   *)
THEOREM Invariance == Spec => []IInv
  BY InitOK, StepOK, PTL DEF Spec

(* The tables, the outbox, Kafka's logs and every loop keep their shape.   *)
THEOREM TypeCorrectness == Spec => []TypeOK
  BY Invariance, PTL DEF IInv

(* No redelivery, whichever copy it reaches and whatever fails around it,  *)
(* repeats a step of an order's saga.                                      *)
THEOREM StepsAreTakenOnce == Spec => []EachStepOnce
  BY Invariance, PTL DEF IInv

(* The two services never disagree about an order.                         *)
THEOREM ServicesAgree == Spec => []StatusAgreesWithReservation
  <1>1. IInv => StatusAgreesWithReservation
    <2> SUFFICES ASSUME IInv, NEW o \in Orders, orders[o] \in Settled
                 PROVE  /\ reservations[o] \in Verdicts
                        /\ orders[o] = StatusFor(reservations[o])
      BY DEF StatusAgreesWithReservation
    <2>1. RepliesAgree
      BY DEF IInv
    <2>2. PICK r \in Rows :
             /\ outbox[r].order = o /\ outbox[r].type \in Replies
             /\ orders[o] = StatusFor(VerdictOf(outbox[r].type))
      BY <2>1 DEF RepliesAgree
    <2>3. reservations[o] = VerdictOf(outbox[r].type)
      BY <2>1, <2>2 DEF RepliesAgree
    <2> QED
      BY <2>2, <2>3 DEF VerdictOf, Verdicts
  <1> QED
    BY <1>1, Invariance, PTL

(* An order of a market that is never open is never reserved.              *)
THEOREM ShutMarketsReject == Spec => []ShutMarketsRejected
  <1>1. IInv => ShutMarketsRejected
    <2> SUFFICES ASSUME IInv, NEW r \in Rows,
                        outbox[r].type = EventOrderCreated,
                        outbox[r].data \in ShutMarkets,
                        orders[outbox[r].order] = StatusReserved
                 PROVE  FALSE
      BY DEF ShutMarketsRejected
    <2>1. RepliesAgree /\ MarketsKept /\ outbox[r].order \in Orders
      BY RowFacts DEF IInv
    <2>2. PICK s \in Rows :
             /\ outbox[s].order = outbox[r].order /\ outbox[s].type \in Replies
             /\ StatusReserved = StatusFor(VerdictOf(outbox[s].type))
      BY <2>1 DEF RepliesAgree, Settled
    <2>3. outbox[s].type = EventStockReserved
      BY <2>2 DEF StatusFor, VerdictOf, StatusReserved, StatusRejected,
                  ReservationReserved, ReservationRejected
    <2>4. outbox[s].data = outbox[r].data
      BY <2>1, <2>2, <2>3, TypesDistinct DEF MarketsKept
    <2> QED
      BY <2>1, <2>3, <2>4 DEF MarketsKept
  <1> QED
    BY <1>1, Invariance, PTL

-----------------------------------------------------------------------------
(* The saga implements OrderLifecycle: three of its actions write orders   *)
(* or reservations, and each is one step of the life cycle.                *)

(* An order that exists and is not settled has just been created.          *)
LEMMA Unsettled ==
  ASSUME IInv, NEW o \in Orders,
         orders[o] # StatusAbsent, orders[o] \notin Settled
  PROVE  orders[o] = StatusCreated
  BY DEF IInv, TypeOK, Statuses

LEMMA CreateOrderCreates ==
  ASSUME IInv, NEW o \in Orders, NEW m \in MarketIDs, CreateOrder(o, m)
  PROVE  Lifecycle!Create(o)
  BY DEF CreateOrder, Lifecycle!Create, Lifecycle!StatusAbsent, StatusAbsent,
         Lifecycle!StatusCreated, StatusCreated

LEMMA HandleReserveStockDecides ==
  ASSUME IInv, NEW p \in Procs, NEW acked \in BOOLEAN,
         HandleReserveStock(p, acked)
  PROVE  \E o \in Orders : Lifecycle!Decide(o)
  <1>0. PICK r, o : r = tx[p].key /\ o = outbox[r].order
    OBVIOUS
  <1>1. /\ tx[p] # NoTx /\ p \in MarketProcs
        /\ reservations' =
             [reservations EXCEPT ![o] =
                IF @ = ReservationNone THEN tx[p].verdict ELSE @]
        /\ UNCHANGED orders
    BY <1>0 DEF HandleReserveStock
  <1>2. GroupOf(p) = MarketReserve
    BY <1>1, ProcsAssumption DEF GroupOf
  <1>3. /\ r \in Rows /\ o \in Orders /\ orders[o] # StatusAbsent
        /\ outbox[r].type = CommandReserveStock
        /\ Reader(outbox[r].type) = MarketReserve
        /\ <<MarketReserve, r>> \notin processed
        /\ tx[p].verdict \in Reserve(outbox[r].data)
    BY <1>0, <1>1, <1>2, HandledRow DEF Reader, Orchestrator, MarketReserve
  <1>4. ASSUME NEW x \in Rows, outbox[x].order = o
        PROVE  outbox[x].type \notin Replies
    <2>1. outbox[r].type \notin Causes(outbox[x].type)
      BY <1>0, <1>3, <1>4, NextStepNotTaken
    <2> QED
      BY <1>3, <2>1, TypesDistinct DEF Causes
  <1>5. RepliesAgree
    BY DEF IInv
  <1>6. reservations[o] = ReservationNone /\ orders[o] \notin Settled
    BY <1>3, <1>4, <1>5 DEF RepliesAgree
  <1>7. orders[o] = StatusCreated
    BY <1>3, <1>6, Unsettled
  <1>8. tx[p].verdict \in Verdicts
    BY <1>3 DEF Reserve, Verdicts
  <1>9. reservations' = [reservations EXCEPT ![o] = tx[p].verdict]
    BY <1>1, <1>6
  <1> QED
    BY <1>1, <1>3, <1>6, <1>7, <1>8, <1>9
    DEF Lifecycle!Decide, Lifecycle!StatusCreated, StatusCreated,
        Lifecycle!ReservationNone, ReservationNone, Lifecycle!Verdicts, Verdicts,
        Lifecycle!ReservationReserved, Lifecycle!ReservationRejected,
        ReservationReserved, ReservationRejected

LEMMA HandleReplySettles ==
  ASSUME IInv, NEW p \in Procs, NEW acked \in BOOLEAN, HandleReply(p, acked)
  PROVE  \E o \in Orders : Lifecycle!Settle(o)
  <1>0. PICK r, o : r = tx[p].key /\ o = outbox[r].order
    OBVIOUS
  <1>1. /\ tx[p] # NoTx /\ p \in OrderProcs /\ outbox[r].type \in Replies
        /\ orders' = [orders EXCEPT ![o] =
             IF @ = StatusAbsent THEN @
             ELSE IF outbox[r].type = EventStockReserved THEN StatusReserved
                                                         ELSE StatusRejected]
        /\ UNCHANGED reservations
    BY <1>0 DEF HandleReply, OrchestratorTx
  <1>2. /\ r \in Rows /\ o \in Orders /\ orders[o] # StatusAbsent
        /\ <<Orchestrator, r>> \notin processed
    BY <1>0, <1>1, HandledRow DEF GroupOf
  <1>3. RepliesAgree /\ EachStepOnce
    BY DEF IInv
  <1>4. reservations[o] = VerdictOf(outbox[r].type)
    BY <1>0, <1>1, <1>2, <1>3 DEF RepliesAgree
  <1>5. orders[o] \notin Settled
    <2> SUFFICES ASSUME orders[o] \in Settled
                 PROVE  FALSE
      OBVIOUS
    <2>1. PICK s \in Rows : /\ outbox[s].order = o /\ outbox[s].type \in Replies
                           /\ <<Orchestrator, s>> \in processed
      BY <1>2, <1>3 DEF RepliesAgree
    <2>2. StepOf(outbox[s].type) = StepOf(outbox[r].type)
      BY <1>1, <2>1 DEF StepOf
    <2>3. s = r
      BY <1>0, <1>2, <1>3, <2>1, <2>2 DEF EachStepOnce
    <2> QED
      BY <1>2, <2>1, <2>3
  <1>6. orders[o] = StatusCreated
    BY <1>2, <1>5, Unsettled
  <1>7. orders' = [orders EXCEPT ![o] = StatusFor(reservations[o])]
    BY <1>1, <1>2, <1>4 DEF StatusFor, VerdictOf, ReservationReserved,
                            ReservationRejected
  <1>8. reservations[o] # ReservationNone
    BY <1>4 DEF VerdictOf, ReservationReserved, ReservationRejected,
                ReservationNone
  <1> QED
    BY <1>1, <1>2, <1>6, <1>7, <1>8
    DEF Lifecycle!Settle, Lifecycle!StatusCreated, StatusCreated,
        Lifecycle!ReservationNone, ReservationNone, Lifecycle!StatusFor,
        StatusFor, Lifecycle!ReservationReserved, ReservationReserved,
        Lifecycle!StatusReserved, StatusReserved, Lifecycle!StatusRejected,
        StatusRejected

LEMMA LifecycleStep ==
  IInv /\ [Next]_vars => [Lifecycle!LifecycleNext]_<<orders, reservations>>
  <1> SUFFICES ASSUME IInv, [Next]_vars
               PROVE  \/ Lifecycle!LifecycleNext
                      \/ UNCHANGED <<orders, reservations>>
    OBVIOUS
  <1>1. ASSUME NEW o \in Orders, NEW m \in MarketIDs, CreateOrder(o, m)
        PROVE  Lifecycle!LifecycleNext
    BY <1>1, CreateOrderCreates DEF Lifecycle!LifecycleNext
  <1>2. ASSUME NEW p \in Procs, NEW acked \in BOOLEAN,
               HandleReserveStock(p, acked)
        PROVE  Lifecycle!LifecycleNext
    BY <1>2, HandleReserveStockDecides DEF Lifecycle!LifecycleNext
  <1>3. ASSUME NEW p \in Procs, NEW acked \in BOOLEAN, HandleReply(p, acked)
        PROVE  Lifecycle!LifecycleNext
    BY <1>3, HandleReplySettles DEF Lifecycle!LifecycleNext
  <1>4. ASSUME NEW p \in Procs,
               \/ ConsumerStep(p) \/ ConsumerFault(p) \/ Crash(p)
        PROVE  Lifecycle!LifecycleNext \/ UNCHANGED <<orders, reservations>>
    <2>1. CASE \E acked \in BOOLEAN :
                 HandleReserveStock(p, acked) \/ HandleReply(p, acked)
      BY <2>1, <1>2, <1>3
    <2>2. CASE \/ Poll(p) \/ SkipDuplicate(p) \/ CommitRecords(p)
               \/ HandlerFails(p) \/ CommitRecordsFails(p) \/ Crash(p)
               \/ OrchestratorAcquire(p) \/ ParticipantAcquire(p)
      BY <2>2 DEF Poll, SkipDuplicate, CommitRecords, HandlerFails,
                  CommitRecordsFails, Crash, OrchestratorAcquire,
                  ParticipantAcquire, tables
    <2>3. CASE \E acked \in BOOLEAN : HandleOrderCreated(p, acked)
      BY <2>3 DEF HandleOrderCreated
    <2> QED
      BY <1>4, <2>1, <2>2, <2>3 DEF ConsumerStep, ConsumerFault
  <1>5. ASSUME NEW p \in RelayProcs, RelayStep(p) \/ RelayFault(p)
        PROVE  UNCHANGED <<orders, reservations>>
    BY <1>5 DEF RelayStep, RelayFault, RelaySelect, RelaySendAcked, RelayMark,
                RelaySendFails, RelayMarkFails, tables
  <1>6. ASSUME NEW t \in ConsumedTopics,
               (\E p \in Procs : Assign(t, p)) \/ Revoke(t)
        PROVE  UNCHANGED <<orders, reservations>>
    BY <1>6 DEF Assign, Revoke, tables
  <1>7. CASE UNCHANGED vars
    BY <1>7 DEF vars, tables
  <1> QED
    BY <1>1, <1>4, <1>5, <1>6, <1>7 DEF Next, Environment

(* The two services together implement the life cycle of an order.         *)
THEOREM ImplementsOrderLifecycle == Spec => ImplementsLifecycle
  <1>1. Init => Lifecycle!LifecycleInit
    BY DEF Init, Lifecycle!LifecycleInit, Lifecycle!StatusAbsent, StatusAbsent,
           Lifecycle!ReservationNone, ReservationNone
  <1> QED
    BY <1>1, LifecycleStep, Invariance, PTL
    DEF Spec, ImplementsLifecycle, Lifecycle!LifecycleSpec, Lifecycle!lifecycle

(* No step takes back a reservation or changes a settled order.            *)
THEOREM DecisionsStay == Spec => DecisionsAreFinal
  <1> DEFINE Final == \A o \in Orders :
                /\ reservations[o] \in Verdicts => reservations'[o] = reservations[o]
                /\ orders[o] \in Settled => orders'[o] = orders[o]
  <1>1. [Lifecycle!LifecycleNext]_<<orders, reservations>> => Final
    <2> SUFFICES ASSUME [Lifecycle!LifecycleNext]_<<orders, reservations>>,
                        NEW o \in Orders
                 PROVE
                /\ reservations[o] \in Verdicts => reservations'[o] = reservations[o]
                /\ orders[o] \in Settled => orders'[o] = orders[o]
      OBVIOUS
    <2>1. CASE UNCHANGED <<orders, reservations>>
      BY <2>1
    <2>2. ASSUME NEW u \in Orders, Lifecycle!Create(u)
          PROVE  Final
      BY <2>2 DEF Lifecycle!Create, Lifecycle!StatusAbsent, Settled,
                  StatusReserved, StatusRejected
    <2>3. ASSUME NEW u \in Orders, Lifecycle!Decide(u)
          PROVE  Final
      BY <2>3 DEF Lifecycle!Decide, Lifecycle!ReservationNone, Verdicts,
                  ReservationReserved, ReservationRejected
    <2>4. ASSUME NEW u \in Orders, Lifecycle!Settle(u)
          PROVE  Final
      BY <2>4 DEF Lifecycle!Settle, Lifecycle!StatusCreated, Settled,
                  StatusReserved, StatusRejected
    <2> QED
      BY <2>1, <2>2, <2>3, <2>4 DEF Lifecycle!LifecycleNext
  <1>2. IInv /\ [Next]_vars => [Final]_vars
    BY <1>1, LifecycleStep
  <1> QED
    BY <1>2, Invariance, PTL DEF Spec, DecisionsAreFinal
-----------------------------------------------------------------------------
(***************************************************************************)
(* The delivery of the saga's messages: what the relays put into Kafka,    *)
(* and what the consumer groups commit.                                    *)
(***************************************************************************)

(* A relay's batch: rows nobody else has locked, none marked before.       *)
BatchesExclusive ==
  /\ \A p \in Procs :
       /\ relay[p].todo \subseteq relay[p].held
       /\ relay[p].acked \subseteq relay[p].held
       /\ relay[p].todo \cap relay[p].acked = {}
       /\ relay[p].held \cap published = {}
  /\ \A p, q \in Procs : p # q => relay[p].held \cap relay[q].held = {}

AckedIsInLog == \A p \in Procs : \A r \in relay[p].acked : InLog(r)

Copies(r) == {i \in DOMAIN log[outbox[r].topic] : log[outbox[r].topic][i] = r}

(* Rows that a relay knows are in Kafka.                                   *)
Settling(r) == r \in published \/ \E p \in Procs : r \in relay[p].acked

(* A row that no relay knows to be in Kafka got there by faults only.      *)
CopiesArePaid ==
  \A r \in Rows :
    /\ IsFiniteSet(Copies(r))
    /\ Cardinality(Copies(r)) <= 1 + faults
    /\ ~ Settling(r) => Cardinality(Copies(r)) <= faults

(* The relays' part of the invariant.                                      *)
RInv == BatchesExclusive /\ AckedIsInLog /\ PublishedIsInLog /\ CopiesArePaid

(* Record i of t is one that group g has processed; so are the first n.    *)
Past(g, t, i) == i \in DOMAIN log[t] /\ <<g, log[t][i]>> \in processed

Upto(g, t, n) == \A i \in 1..n : Past(g, t, i)

(* Each record before the position of p in t is processed, or in the part  *)
(* of p's batch that is still to be handled.                               *)
PositionOK(p, t) ==
  \A i \in 1..position[t] :
    Past(GroupOf(p), t, i) \/ (fetch[p][t].cur < i /\ i <= fetch[p][t].end)

(* The consumers' part of the invariant.                                   *)
LoopsProcess ==
  \A t \in ConsumedTopics :
    /\ \A g \in Groups : t \in TopicsOf(g) => Upto(g, t, committed[t])
    /\ \A p \in Procs : Upto(GroupOf(p), t, fetch[p][t].cur)
    /\ \A p \in Procs : owner[t] = p => PositionOK(p, t)

-----------------------------------------------------------------------------
(* A step of a process outside its relay leaves Kafka and the marks alone. *)
Elsewhere ==
  /\ UNCHANGED <<log, published>>
  /\ outbox' = outbox \/ \E e : outbox' = Append(outbox, e)
  /\ \/ relay' = relay /\ faults' \in {faults, faults + 1}
     \/ \E p \in Procs : relay' = [relay EXCEPT ![p] = NoBatch] /\ faults' = faults + 1
  /\ processed \subseteq processed'

LEMMA HandlerIsElsewhere ==
  ASSUME NEW p \in Procs, NEW acked \in BOOLEAN,
         \/ HandleOrderCreated(p, acked)
         \/ HandleReply(p, acked)
         \/ HandleReserveStock(p, acked)
  PROVE  Elsewhere
<1>1. /\ UNCHANGED <<log, published, relay>> /\ processed \subseteq processed'
      /\ \E e : outbox' = Append(outbox, e)
  BY DEF HandleOrderCreated, HandleReply, HandleReserveStock, Emit
<1>2. faults' \in {faults, faults + 1}
  BY DEF HandleOrderCreated, HandleReply, HandleReserveStock, Finish, Fault
<1> QED
  BY <1>1, <1>2 DEF Elsewhere

LEMMA StepKinds ==
  ASSUME [Next]_vars
  PROVE  Elsewhere \/ \E p \in Procs : RelayStep(p) \/ RelayFault(p)
<1>1. ASSUME NEW o \in Orders, NEW m \in MarketIDs, CreateOrder(o, m)
      PROVE  Elsewhere
  BY <1>1 DEF CreateOrder, Emit, Elsewhere
<1>2. ASSUME NEW t \in ConsumedTopics,
             (\E p \in Procs : Assign(t, p)) \/ Revoke(t)
      PROVE  Elsewhere
  BY <1>2 DEF Assign, Revoke, Fault, Elsewhere, tables, outboxes
<1>3. ASSUME NEW p \in Procs, Crash(p)
      PROVE  Elsewhere
  BY <1>3 DEF Crash, Fault, Elsewhere, tables
<1>4. ASSUME NEW p \in Procs, ConsumerStep(p) \/ ConsumerFault(p)
      PROVE  Elsewhere
  <2>1. CASE \/ HandleOrderCreated(p, TRUE) \/ HandleReply(p, TRUE)
             \/ HandleReserveStock(p, TRUE)
    BY <2>1, HandlerIsElsewhere
  <2>2. CASE \/ HandleOrderCreated(p, FALSE) \/ HandleReply(p, FALSE)
             \/ HandleReserveStock(p, FALSE)
    BY <2>2, HandlerIsElsewhere
  <2>3. CASE Poll(p) \/ SkipDuplicate(p) \/ OrchestratorAcquire(p)
             \/ ParticipantAcquire(p) \/ CommitRecords(p)
    BY <2>3 DEF Poll, SkipDuplicate, OrchestratorAcquire, ParticipantAcquire,
       CommitRecords, Elsewhere, tables, outboxes
  <2>4. CASE HandlerFails(p) \/ CommitRecordsFails(p)
    BY <2>4 DEF HandlerFails, CommitRecordsFails, Fault, Elsewhere, tables, outboxes
  <2> QED
    BY <1>4, <2>1, <2>2, <2>3, <2>4 DEF ConsumerStep, ConsumerFault
<1>5. ASSUME NEW p \in RelayProcs, RelayStep(p) \/ RelayFault(p)
      PROVE  \E q \in Procs : RelayStep(q) \/ RelayFault(q)
  BY <1>5, ProcsAssumption DEF Procs
<1>6. CASE UNCHANGED vars
  BY <1>6 DEF vars, tables, outboxes, Elsewhere
<1> QED
  BY <1>1, <1>2, <1>3, <1>4, <1>5, <1>6 DEF Next, Environment

(* Rows and records stay; so do the messages Kafka has.                    *)
LEMMA RowsStay ==
  ASSUME IInv, IInv', Elsewhere
  PROVE  /\ \A r \in Rows : r \in Rows' /\ outbox'[r] = outbox[r]
         /\ \A r \in Rows : Copies(r)' = Copies(r) /\ (InLog(r) => InLog(r)')
<1>1. \A r \in Rows : r \in Rows' /\ outbox'[r] = outbox[r]
  <2>1. CASE outbox' = outbox
    BY <2>1 DEF Rows
  <2>2. CASE outbox' # outbox
    <3>1. PICK e : outbox' = Append(outbox, e)
      BY <2>2 DEF Elsewhere
    <3>2. outbox \in Seq(Row) /\ outbox' \in Seq(Row)
      BY DEF IInv, TypeOK
    <3>3. \A r \in DOMAIN outbox : r \in DOMAIN outbox' /\ outbox'[r] = outbox[r]
      BY <3>1, <3>2
    <3> QED
      BY <3>3 DEF Rows
  <2> QED
    BY <2>1, <2>2
<1>2. log' = log
  BY DEF Elsewhere
<1> QED
  BY <1>1, <1>2 DEF Copies, InLog

(* A row that is new has no message yet.                                   *)
LEMMA NewRowHasNoCopy ==
  ASSUME IInv, IInv', Elsewhere, NEW r \in Rows' \ Rows
  PROVE  Copies(r)' = {}
<1>1. outbox'[r].topic \in Topics
  <2>1. outbox' \in Seq(Row) /\ r \in DOMAIN outbox'
    BY DEF IInv, TypeOK, Rows
  <2>2. outbox'[r] \in Row
    BY <2>1
  <2> QED
    BY <2>2 DEF Row
<1> DEFINE t == outbox'[r].topic
<1>2. t \in Topics
  BY <1>1
<1> HIDE DEF t
<1>3. log[t] \in Seq(Rows)
  BY <1>2 DEF IInv, TypeOK
<1>4. \A i \in DOMAIN log[t] : log[t][i] \in Rows
  BY <1>3
<1> QED
  BY <1>4 DEF Copies, Elsewhere, t
-----------------------------------------------------------------------------
LEMMA ElsewhereKeepsRInv ==
  ASSUME IInv, IInv', RInv, Elsewhere
  PROVE  RInv'
<1>1. /\ relay \in [Procs -> Batches] /\ published \subseteq Rows
      /\ faults \in Nat /\ faults' \in Nat
  BY BoundsAssumption DEF IInv, TypeOK
<1>2. /\ published' = published /\ faults' \in {faults, faults + 1}
      /\ \A p \in Procs :
           relay'[p] = relay[p] \/ (relay'[p] = NoBatch /\ faults' = faults + 1)
  BY <1>1 DEF Elsewhere
<1>3. /\ \A r \in Rows : r \in Rows' /\ outbox'[r] = outbox[r]
      /\ \A r \in Rows : Copies(r)' = Copies(r) /\ (InLog(r) => InLog(r)')
  BY RowsStay
<1>4. \A p \in Procs : /\ relay[p].acked \subseteq Rows
                       /\ relay'[p].acked \subseteq relay[p].acked
  BY <1>1, <1>2 DEF NoBatch, Batches
<1>5. BatchesExclusive'
  <2>1. \A p \in Procs : relay'[p] = relay[p] \/ relay'[p] = NoBatch
    BY <1>2
  <2> QED
    BY <1>2, <2>1 DEF RInv, BatchesExclusive, NoBatch
<1>6. AckedIsInLog'
  BY <1>3, <1>4 DEF RInv, AckedIsInLog
<1>7. PublishedIsInLog'
  BY <1>1, <1>2, <1>3 DEF RInv, PublishedIsInLog
<1>8. ASSUME NEW r \in Rows'
      PROVE  /\ IsFiniteSet(Copies(r)')
             /\ Cardinality(Copies(r)') <= 1 + faults'
             /\ ~ Settling(r)' => Cardinality(Copies(r)') <= faults'
  <2>1. CASE r \notin Rows
    <3>1. Copies(r)' = {}
      BY <2>1, NewRowHasNoCopy
    <3> QED
      BY <1>1, <3>1, FS_EmptySet
  <2>2. CASE r \in Rows
    <3>1. /\ Copies(r)' = Copies(r) /\ IsFiniteSet(Copies(r))
          /\ Cardinality(Copies(r)) <= 1 + faults
          /\ ~ Settling(r) => Cardinality(Copies(r)) <= faults
          /\ Cardinality(Copies(r)) \in Nat
      BY <1>3, <2>2, FS_CardinalityType DEF RInv, CopiesArePaid
    <3>2. ASSUME Settling(r), ~ Settling(r)'
          PROVE  faults' = faults + 1
      BY <1>2, <3>2 DEF Settling
    <3> QED
      BY <1>1, <1>2, <3>1, <3>2
  <2> QED
    BY <2>1, <2>2
<1>9. CopiesArePaid'
  BY <1>8 DEF CopiesArePaid
<1> QED
  BY <1>5, <1>6, <1>7, <1>9 DEF RInv

-----------------------------------------------------------------------------
(* A record more in Kafka.                                                 *)
LEMMA ProducedCopies ==
  ASSUME IInv, NEW r \in Rows, Produced(r), UNCHANGED outbox
  PROVE  /\ InLog(r)'
         /\ \A s \in Rows : InLog(s) => InLog(s)'
         /\ \A s \in Rows \ {r} : Copies(s)' = Copies(s)
         /\ IsFiniteSet(Copies(r)) =>
              /\ IsFiniteSet(Copies(r)')
              /\ Cardinality(Copies(r)') = Cardinality(Copies(r)) + 1
<1> DEFINE t == outbox[r].topic
<1>1. t \in Topics /\ log \in [Topics -> Seq(Rows)] /\ log[t] \in Seq(Rows)
      /\ \A s \in Rows : outbox[s].topic \in Topics
  BY RowFacts DEF IInv, TypeOK
<1>2. /\ log'[t] = Append(log[t], r)
      /\ \A u \in Topics \ {t} : log'[u] = log[u]
  BY <1>1 DEF Produced
<1>3. /\ DOMAIN log[t] = 1..Len(log[t]) /\ Len(log[t]) \in Nat
      /\ DOMAIN log'[t] = 1..(Len(log[t]) + 1)
      /\ \A i \in 1..Len(log[t]) : log'[t][i] = log[t][i]
      /\ log'[t][Len(log[t]) + 1] = r
  BY <1>1, <1>2, AppendFacts
<1>4. InLog(r)'
  BY <1>3 DEF InLog
<1>5. ASSUME NEW s \in Rows, InLog(s) PROVE InLog(s)'
  <2>1. CASE outbox[s].topic = t
    BY <1>3, <1>5, <2>1 DEF InLog
  <2>2. CASE outbox[s].topic # t
    BY <1>1, <1>2, <1>5, <2>2 DEF InLog
  <2> QED
    BY <2>1, <2>2
<1>6. ASSUME NEW s \in Rows \ {r} PROVE Copies(s)' = Copies(s)
  <2>1. CASE outbox[s].topic = t
    <3>1. DOMAIN log'[t] = DOMAIN log[t] \cup {Len(log[t]) + 1}
      BY <1>3
    <3> QED
      BY <1>3, <2>1, <3>1 DEF Copies
  <2>2. CASE outbox[s].topic # t
    BY <1>1, <1>2, <2>2 DEF Copies
  <2> QED
    BY <2>1, <2>2
<1>7. /\ Copies(r)' = Copies(r) \cup {Len(log[t]) + 1}
      /\ Len(log[t]) + 1 \notin Copies(r)
  <2>1. DOMAIN log'[t] = DOMAIN log[t] \cup {Len(log[t]) + 1}
    BY <1>3
  <2>2. Len(log[t]) + 1 \notin DOMAIN log[t]
    BY <1>3
  <2> QED
    BY <1>3, <2>1, <2>2 DEF Copies
<1> HIDE DEF t
<1>8. IsFiniteSet(Copies(r)) =>
        /\ IsFiniteSet(Copies(r) \cup {Len(log[t]) + 1})
        /\ Cardinality(Copies(r) \cup {Len(log[t]) + 1}) = Cardinality(Copies(r)) + 1
  BY <1>7, FS_AddElement
<1> QED
  BY <1>4, <1>5, <1>6, <1>7, <1>8

(* A relay's step about row r, which may have reached Kafka: with an answer*)
(* it is acknowledged, without one a fault pays for it.                    *)
LEMMA SendKeepsRInv ==
  ASSUME IInv, IInv', RInv, NEW p \in Procs, NEW r \in relay[p].todo,
         UNCHANGED <<outbox, published>>,
         \/ /\ Produced(r) /\ faults' = faults
            /\ relay' = [relay EXCEPT ![p].todo = @ \ {r}, ![p].acked = @ \cup {r}]
         \/ /\ Produced(r) \/ log' = log
            /\ faults' = faults + 1
            /\ relay' = [relay EXCEPT ![p].todo = @ \ {r}]
  PROVE  RInv'
<1>1. /\ relay \in [Procs -> Batches] /\ relay[p] \in Batches /\ r \in Rows
      /\ published \subseteq Rows /\ faults \in Nat /\ faults' \in Nat
      /\ Rows' = Rows
  BY BoundsAssumption DEF IInv, TypeOK, Batches, Rows
<1>2. /\ \A q \in Procs \ {p} : relay'[q] = relay[q]
      /\ relay'[p].held = relay[p].held /\ relay'[p].todo = relay[p].todo \ {r}
      /\ \/ relay'[p].acked = relay[p].acked \cup {r} /\ Produced(r) /\ faults' = faults
         \/ relay'[p].acked = relay[p].acked /\ faults' = faults + 1
  BY <1>1 DEF Batches
<1>3. r \in relay[p].held /\ r \notin relay[p].acked /\ ~ Settling(r)
  <2>1. \A q \in Procs : r \notin relay[q].acked
    BY <1>1 DEF RInv, BatchesExclusive
  <2> QED
    BY <2>1 DEF RInv, BatchesExclusive, Settling
<1>4. BatchesExclusive'
  <2>1. \A q \in Procs : relay'[q].held = relay[q].held
    BY <1>2
  <2>2. ASSUME NEW q \in Procs
        PROVE  /\ relay'[q].todo \subseteq relay'[q].held
               /\ relay'[q].acked \subseteq relay'[q].held
               /\ relay'[q].todo \cap relay'[q].acked = {}
    BY <1>2, <1>3 DEF RInv, BatchesExclusive
  <2> QED
    BY <2>1, <2>2 DEF RInv, BatchesExclusive
<1>5. \A s \in Rows : InLog(s) => InLog(s)'
  BY <1>1, ProducedCopies DEF InLog
<1>6. AckedIsInLog'
  <2> SUFFICES ASSUME NEW q \in Procs, NEW s \in relay'[q].acked PROVE InLog(s)'
    BY DEF AckedIsInLog
  <2>1. CASE s \in relay[q].acked
    BY <1>1, <1>5, <2>1 DEF RInv, AckedIsInLog, Batches
  <2>2. CASE s \notin relay[q].acked
    BY <1>1, <1>2, <2>2, ProducedCopies
  <2> QED
    BY <2>1, <2>2
<1>7. PublishedIsInLog'
  BY <1>1, <1>5 DEF RInv, PublishedIsInLog
<1>8. \A s \in Rows \ {r} : Copies(s)' = Copies(s) /\ (Settling(s)' <=> Settling(s))
  BY <1>1, <1>2, ProducedCopies DEF Copies, Settling
<1>9. ASSUME NEW s \in Rows
      PROVE  /\ IsFiniteSet(Copies(s)')
             /\ Cardinality(Copies(s)') <= 1 + faults'
             /\ ~ Settling(s)' => Cardinality(Copies(s)') <= faults'
  <2>1. /\ IsFiniteSet(Copies(s)) /\ Cardinality(Copies(s)) \in Nat
        /\ Cardinality(Copies(s)) <= 1 + faults
        /\ ~ Settling(s) => Cardinality(Copies(s)) <= faults
    BY FS_CardinalityType DEF RInv, CopiesArePaid
  <2>2. CASE s # r
    BY <1>1, <1>2, <1>8, <2>1, <2>2
  <2>3. CASE s = r
    <3>1. /\ Cardinality(Copies(s)) <= faults
          /\ IsFiniteSet(Copies(s)')
          /\ Cardinality(Copies(s)') <= Cardinality(Copies(s)) + 1
          /\ Cardinality(Copies(s)') \in Nat
      <4>1. CASE Produced(r)
        BY <1>1, <1>3, <2>1, <2>3, <4>1, ProducedCopies
      <4>2. CASE log' = log
        <5>1. Copies(s)' = Copies(s)
          BY <4>2 DEF Copies
        <5> QED
          BY <1>3, <2>1, <2>3, <5>1
      <4> QED
        BY <4>1, <4>2
    <3>2. faults' = faults => Settling(s)'
      BY <1>1, <1>2, <2>3 DEF Settling
    <3> QED
      BY <1>1, <1>2, <2>1, <3>1, <3>2
  <2> QED
    BY <2>2, <2>3
<1>10. CopiesArePaid'
  BY <1>1, <1>9 DEF CopiesArePaid
<1> QED
  BY <1>4, <1>6, <1>7, <1>10 DEF RInv

LEMMA SelectKeepsRInv ==
  ASSUME IInv, RInv, NEW p \in Procs, RelaySelect(p)
  PROVE  RInv'
<1>1. /\ relay \in [Procs -> Batches]
      /\ UNCHANGED <<outbox, published, log, faults>>
  BY DEF RelaySelect, IInv, TypeOK
<1>2. PICK batch \in SUBSET Selectable(p) :
        relay' = [relay EXCEPT ![p] = [held |-> batch, todo |-> batch, acked |-> {}]]
  BY DEF RelaySelect
<1>3. /\ relay'[p].held = batch /\ relay'[p].todo = batch /\ relay'[p].acked = {}
      /\ \A q \in Procs \ {p} : relay'[q] = relay[q]
  BY <1>1, <1>2
<1>4. relay[p].acked = {}
  BY DEF RelaySelect, RInv, BatchesExclusive
<1>5. \A q \in Procs : relay'[q].acked = relay[q].acked
  BY <1>3, <1>4
<1>6. /\ batch \cap published = {}
      /\ \A q \in Procs \ {p} : batch \cap relay[q].held = {}
  BY DEF Selectable, LockedRows
<1>7. BatchesExclusive'
  BY <1>1, <1>3, <1>6 DEF RInv, BatchesExclusive
<1>8. AckedIsInLog' /\ PublishedIsInLog'
  BY <1>1, <1>5 DEF RInv, AckedIsInLog, PublishedIsInLog, InLog
<1>9. \A r \in Rows : Copies(r)' = Copies(r) /\ (Settling(r)' <=> Settling(r))
  BY <1>1, <1>5 DEF Copies, Settling
<1>10. CopiesArePaid'
  BY <1>1, <1>9 DEF RInv, CopiesArePaid, Rows
<1> QED
  BY <1>7, <1>8, <1>10 DEF RInv

LEMMA MarkKeepsRInv ==
  ASSUME IInv, IInv', RInv, NEW p \in Procs, RelayMark(p) \/ RelayMarkFails(p)
  PROVE  RInv'
<1>1. /\ relay \in [Procs -> Batches]
      /\ UNCHANGED <<outbox, log>> /\ Rows' = Rows
      /\ faults \in Nat /\ faults' \in Nat
      /\ relay' = [relay EXCEPT ![p] = NoBatch]
      /\ \/ published' = published \cup relay[p].acked /\ faults' = faults
         \/ published' = published /\ faults' = faults + 1
  BY BoundsAssumption DEF RelayMark, RelayMarkFails, Fault, IInv, TypeOK, Rows
<1>2. relay'[p] = NoBatch /\ \A q \in Procs \ {p} : relay'[q] = relay[q]
  BY <1>1
<1>3. relay[p].acked \subseteq relay[p].held
  BY DEF RInv, BatchesExclusive
<1>4. BatchesExclusive'
  BY <1>1, <1>2, <1>3 DEF RInv, BatchesExclusive, NoBatch
<1>5. AckedIsInLog' /\ PublishedIsInLog'
  BY <1>1, <1>2 DEF RInv, AckedIsInLog, PublishedIsInLog, InLog, NoBatch
<1>6. ASSUME NEW r \in Rows, Settling(r), ~ Settling(r)'
      PROVE  faults' = faults + 1
  BY <1>1, <1>2, <1>6 DEF Settling
<1>7. \A r \in Rows : Copies(r)' = Copies(r)
  BY <1>1 DEF Copies
<1>8. ASSUME NEW r \in Rows
      PROVE  /\ IsFiniteSet(Copies(r)')
             /\ Cardinality(Copies(r)') <= 1 + faults'
             /\ ~ Settling(r)' => Cardinality(Copies(r)') <= faults'
  <2>1. /\ IsFiniteSet(Copies(r)) /\ Cardinality(Copies(r)) \in Nat
        /\ Cardinality(Copies(r)) <= 1 + faults
        /\ ~ Settling(r) => Cardinality(Copies(r)) <= faults
    BY FS_CardinalityType DEF RInv, CopiesArePaid
  <2> QED
    BY <1>1, <1>6, <1>7, <2>1
<1>9. CopiesArePaid'
  BY <1>1, <1>8 DEF CopiesArePaid
<1> QED
  BY <1>4, <1>5, <1>9 DEF RInv

LEMMA RelayKeepsRInv ==
  ASSUME IInv, IInv', RInv, NEW p \in Procs, RelayStep(p) \/ RelayFault(p)
  PROVE  RInv'
<1>1. CASE RelaySelect(p)
  BY <1>1, SelectKeepsRInv
<1>2. CASE RelaySendAcked(p)
  <2>1. PICK r \in relay[p].todo :
          /\ Produced(r) /\ faults' = faults
          /\ relay' = [relay EXCEPT ![p].todo = @ \ {r}, ![p].acked = @ \cup {r}]
    BY <1>2 DEF RelaySendAcked
  <2>2. UNCHANGED <<outbox, published>>
    BY <1>2 DEF RelaySendAcked
  <2> QED
    BY <2>1, <2>2, SendKeepsRInv
<1>3. CASE RelaySendFails(p)
  <2>1. PICK r \in relay[p].todo :
          /\ Produced(r) \/ log' = log
          /\ relay' = [relay EXCEPT ![p].todo = @ \ {r}]
    BY <1>3 DEF RelaySendFails
  <2>2. UNCHANGED <<outbox, published>> /\ faults' = faults + 1
    BY <1>3 DEF RelaySendFails, Fault
  <2> QED
    BY <2>1, <2>2, SendKeepsRInv
<1>4. CASE RelayMark(p) \/ RelayMarkFails(p)
  BY <1>4, MarkKeepsRInv
<1> QED
  BY <1>1, <1>2, <1>3, <1>4 DEF RelayStep, RelayFault

LEMMA InitRInv ==
  ASSUME Init
  PROVE  RInv
<1>1. /\ outbox = <<>> /\ published = {} /\ Rows = {}
      /\ \A p \in Procs : relay[p] = NoBatch
  BY DEF Init, Rows
<1> QED
  BY <1>1 DEF RInv, BatchesExclusive, AckedIsInLog, PublishedIsInLog, CopiesArePaid,
     NoBatch

THEOREM RelaysInvariance == Spec => []RInv
<1>1. Init => RInv
  BY InitRInv
<1>2. IInv /\ IInv' /\ RInv /\ [Next]_vars => RInv'
  BY StepKinds, ElsewhereKeepsRInv, RelayKeepsRInv
<1> QED
  BY <1>1, <1>2, Invariance, PTL DEF Spec

(* Whatever fails between the sending and the marking, of whichever relay, *)
(* marking a row as published never loses its message.                     *)
THEOREM PublishedWasProduced == Spec => []PublishedIsInLog
<1>1. RInv => PublishedIsInLog
  BY DEF RInv
<1> QED
  BY <1>1, RelaysInvariance, PTL

(* For any number of relays and faults: Kafka has one message of a row and *)
(* one more for each fault at most.                                        *)
THEOREM CopiesNeedFaults == Spec => []RepeatedOnlyByFaults
<1>1. RInv => RepeatedOnlyByFaults
  BY DEF RInv, CopiesArePaid, RepeatedOnlyByFaults, Copies
<1> QED
  BY <1>1, RelaysInvariance, PTL

-----------------------------------------------------------------------------
(* The consumers.  What is past stays past.                                *)
Kept == \A g \in Groups, t \in ConsumedTopics, i \in Nat : Past(g, t, i) => Past(g, t, i)'

LEMMA LogKept ==
  ASSUME UNCHANGED log, processed \subseteq processed'
  PROVE  Kept
BY DEF Kept, Past

LEMMA RelayKept ==
  ASSUME IInv, NEW p \in Procs, RelayStep(p) \/ RelayFault(p)
  PROVE  Kept
<1>1. UNCHANGED <<outbox, owner, fetch, processed>>
  BY DEF RelayStep, RelayFault, RelaySelect, RelaySendAcked, RelaySendFails,
     RelayMark, RelayMarkFails, consumers, tables
<1>2. log' = log \/ \E r \in relay[p].todo : Produced(r)
  BY DEF RelayStep, RelayFault, RelaySelect, RelaySendAcked, RelaySendFails,
     RelayMark, RelayMarkFails
<1>3. relay[p].todo \subseteq Rows
  BY DEF IInv, TypeOK, Batches
<1>4. CASE log' = log
  BY <1>1, <1>4 DEF Kept, Past
<1>5. ASSUME NEW r \in relay[p].todo, Produced(r)
      PROVE  Kept
  <2>1. \A t \in Topics : \A i \in DOMAIN log[t] : log'[t][i] = log[t][i]
    BY <1>1, <1>3, <1>5, ProducedOK
  <2>2. log \in [Topics -> Seq(Rows)] /\ r \in Rows /\ outbox[r].topic \in Topics
    BY <1>3, RowFacts DEF IInv, TypeOK
  <2>3. ASSUME NEW t \in Topics, NEW i \in DOMAIN log[t]
        PROVE  i \in DOMAIN log'[t]
    <3>1. log'[t] = log[t] \/ log'[t] = Append(log[t], r)
      BY <1>5, <2>2 DEF Produced
    <3>2. log[t] \in Seq(Rows)
      BY <2>2
    <3> QED
      BY <2>2, <3>1, <3>2, AppendFacts
  <2>4. ConsumedTopics \subseteq Topics
    BY DEF ConsumedTopics, Topics
  <2> QED
    BY <1>1, <2>1, <2>3, <2>4 DEF Kept, Past
<1> QED
  BY <1>2, <1>4, <1>5

(* Positions and offsets that a step leaves alone stay right.              *)
LEMMA LoopsFrame ==
  ASSUME IInv, LoopsProcess, Kept, UNCHANGED consumers
  PROVE  LoopsProcess'
<1>1. UNCHANGED <<committed, owner, position, fetch>>
  BY DEF consumers
<1>2. \A p \in Procs : GroupOf(p) \in Groups
  BY DEF GroupOf, Groups
<1>3. /\ committed \in [ConsumedTopics -> Nat] /\ position \in [ConsumedTopics -> Nat]
      /\ \A p \in Procs, t \in ConsumedTopics : fetch[p][t].cur \in Nat
  BY FetchFacts, LoopFacts DEF FetchOK, Ranges
<1> QED
  BY <1>1, <1>2, <1>3 DEF LoopsProcess, Upto, PositionOK, Kept

LEMMA AssignLoops ==
  ASSUME IInv, LoopsProcess, NEW t \in ConsumedTopics, NEW p \in Procs, Assign(t, p)
  PROVE  LoopsProcess'
<1>1. /\ UNCHANGED <<committed, fetch, log, processed>>
      /\ t \in TopicsOf(GroupOf(p)) /\ GroupOf(p) \in Groups
      /\ owner' = [owner EXCEPT ![t] = p]
      /\ position' = [position EXCEPT ![t] = committed[t]]
  BY DEF Assign, tables, GroupOf, Groups
<1>2. /\ owner'[t] = p /\ position'[t] = committed[t]
      /\ \A u \in ConsumedTopics \ {t} : owner'[u] = owner[u] /\ position'[u] = position[u]
  BY <1>1 DEF IInv, TypeOK
<1>3. PositionOK(p, t)'
  BY <1>1, <1>2 DEF LoopsProcess, PositionOK, Upto, Past
<1>4. \A u \in ConsumedTopics \ {t} :
        \A q \in Procs : owner'[u] = q => PositionOK(q, u)'
  BY <1>1, <1>2 DEF LoopsProcess, PositionOK, Past
<1> QED
  BY <1>1, <1>2, <1>3, <1>4 DEF LoopsProcess, Upto, Past

LEMMA RevokeLoops ==
  ASSUME IInv, LoopsProcess, NEW t \in ConsumedTopics, Revoke(t)
  PROVE  LoopsProcess'
<1>1. /\ UNCHANGED <<committed, fetch, log, processed>>
      /\ owner' = [owner EXCEPT ![t] = NoProc]
      /\ position' = [position EXCEPT ![t] = 0]
  BY DEF Revoke, tables
<1>2. /\ owner'[t] \notin Procs
      /\ \A u \in ConsumedTopics \ {t} : owner'[u] = owner[u] /\ position'[u] = position[u]
  BY <1>1, ProcsAssumption DEF IInv, TypeOK, Procs
<1> QED
  BY <1>1, <1>2 DEF LoopsProcess, PositionOK, Upto, Past

LEMMA CrashLoops ==
  ASSUME IInv, LoopsProcess, NEW p \in Procs, Crash(p)
  PROVE  LoopsProcess'
<1>1. /\ UNCHANGED <<committed, log, processed>>
      /\ fetch' = [fetch EXCEPT ![p] = NoFetch]
      /\ \A t \in ConsumedTopics :
           \/ owner'[t] = NoProc
           \/ owner'[t] = owner[t] /\ owner[t] # p /\ position'[t] = position[t]
  BY DEF Crash, tables
<1>2. /\ \A t \in ConsumedTopics : fetch'[p][t].cur = 0
      /\ \A q \in Procs \ {p} : fetch'[q] = fetch[q]
  BY <1>1, LoopFacts DEF NoFetch, NoRange
<1>3. \A t \in ConsumedTopics : \A q \in Procs : Upto(GroupOf(q), t, fetch[q][t].cur)'
  BY <1>1, <1>2 DEF LoopsProcess, Upto, Past
<1>4. ASSUME NEW t \in ConsumedTopics, NEW q \in Procs, owner'[t] = q
      PROVE  PositionOK(q, t)'
  <2>1. /\ q # p /\ owner[t] = q /\ position'[t] = position[t]
        /\ fetch'[q] = fetch[q]
    BY <1>1, <1>2, <1>4, ProcsAssumption DEF Procs
  <2> QED
    BY <1>1, <2>1 DEF LoopsProcess, PositionOK, Past
<1> QED
  BY <1>1, <1>3, <1>4 DEF LoopsProcess, Upto, Past

LEMMA PollLoops ==
  ASSUME IInv, LoopsProcess, NEW p \in Procs, Poll(p)
  PROVE  LoopsProcess'
<1>1. UNCHANGED <<committed, owner, log, processed>> /\ Idle(p)
  BY DEF Poll, tables
<1>2. PICK ends \in Ends(p) :
         /\ fetch' = [fetch EXCEPT ![p] = [t \in ConsumedTopics |->
                        IF ends[t] = position[t] THEN NoRange
                        ELSE [from |-> position[t], cur |-> position[t],
                              end |-> ends[t]]]]
         /\ position' = ends
  BY DEF Poll
<1>3. \A t \in ConsumedTopics :
        \/ ends[t] = position[t]
        \/ owner[t] = p /\ ends[t] \in Nat /\ position[t] \in Nat
             /\ position[t] <= ends[t]
  BY LoopFacts, FetchFacts DEF Ends
<1>4. /\ \A q \in Procs \ {p} : fetch'[q] = fetch[q]
      /\ \A t \in ConsumedTopics :
           /\ ends[t] = position[t] => fetch'[p][t].cur = 0
           /\ ends[t] # position[t] =>
                fetch'[p][t].cur = position[t] /\ fetch'[p][t].end = ends[t]
  <2>1. \A t \in ConsumedTopics :
          fetch'[p][t] = IF ends[t] = position[t] THEN NoRange
                         ELSE [from |-> position[t], cur |-> position[t],
                               end |-> ends[t]]
    BY <1>2, LoopFacts
  <2> QED
    BY <1>2, <2>1, LoopFacts DEF NoRange
<1>5. ASSUME NEW t \in ConsumedTopics, owner[t] = p
      PROVE  \A i \in 1..position[t] : Past(GroupOf(p), t, i)
  <2>1. fetch[p][t].end = 0 /\ fetch[p][t].cur = 0
    BY <1>1 DEF Idle, NoFetch, NoRange
  <2> QED
    BY <1>5, <2>1 DEF LoopsProcess, PositionOK
<1>6. ASSUME NEW t \in ConsumedTopics, NEW q \in Procs
      PROVE  Upto(GroupOf(q), t, fetch[q][t].cur)'
  <2>1. CASE q # p
    BY <1>1, <1>4, <2>1 DEF LoopsProcess, Upto, Past
  <2>2. CASE q = p /\ ends[t] = position[t]
    BY <1>4, <2>2 DEF Upto, NoRange
  <2>3. CASE q = p /\ ends[t] # position[t]
    BY <1>1, <1>3, <1>4, <1>5, <2>3 DEF Upto, Past
  <2> QED
    BY <2>1, <2>2, <2>3
<1>7. ASSUME NEW t \in ConsumedTopics, NEW q \in Procs, owner'[t] = q
      PROVE  PositionOK(q, t)'
  <2>1. CASE ends[t] # position[t]
    <3>1. /\ q = p /\ owner[t] = p /\ position'[t] = ends[t]
          /\ fetch'[p][t].cur = position[t] /\ fetch'[p][t].end = ends[t]
          /\ ends[t] \in Nat /\ position[t] \in Nat
      BY <1>1, <1>2, <1>3, <1>4, <1>7, <2>1
    <3>2. \A i \in 1..position[t] : Past(GroupOf(p), t, i)'
      BY <1>1, <1>5, <3>1 DEF Past
    <3> QED
      BY <3>1, <3>2 DEF PositionOK
  <2>2. CASE ends[t] = position[t]
    <3>1. position'[t] = position[t] /\ owner[t] = q
      BY <1>1, <1>2, <1>7, <2>2
    <3>2. CASE q = p
      BY <1>1, <1>5, <3>1, <3>2 DEF PositionOK, Past
    <3>3. CASE q # p
      BY <1>1, <1>4, <3>1, <3>3 DEF LoopsProcess, PositionOK, Past
    <3> QED
      BY <3>2, <3>3
  <2> QED
    BY <2>1, <2>2
<1> QED
  BY <1>1, <1>6, <1>7 DEF LoopsProcess, Upto, Past

(* On to the next record: the one left behind is processed.                *)
LEMMA AdvanceLoops ==
  ASSUME IInv, LoopsProcess, NEW p \in Procs, NEW t \in ConsumedTopics,
         fetch[p][t].cur < fetch[p][t].end, Advance(p, t),
         UNCHANGED <<committed, owner, position, log>>,
         processed \subseteq processed',
         <<GroupOf(p), log[t][fetch[p][t].cur + 1]>> \in processed'
  PROVE  LoopsProcess'
<1>1. /\ fetch'[p][t].cur = fetch[p][t].cur + 1
      /\ fetch'[p][t].end = fetch[p][t].end
      /\ \A q \in Procs, u \in ConsumedTopics :
           (q # p \/ u # t) => fetch'[q][u] = fetch[q][u]
  BY LoopFacts DEF Advance, Ranges
<1>2. /\ \A g \in Groups, u \in ConsumedTopics, i \in Nat :
           Past(g, u, i) => Past(g, u, i)'
      /\ \A q \in Procs : GroupOf(q) \in Groups
      /\ committed \in [ConsumedTopics -> Nat] /\ position \in [ConsumedTopics -> Nat]
      /\ \A q \in Procs, u \in ConsumedTopics :
           fetch[q][u].cur \in Nat /\ fetch[q][u].end \in Nat
  BY LogKept, FetchFacts, LoopFacts DEF Kept, FetchOK, Ranges, GroupOf, Groups
<1>3. PICK k : /\ k = fetch[p][t].cur + 1 /\ Past(GroupOf(p), t, k)'
  <2> DEFINE k == fetch[p][t].cur + 1
  <2>1. k \in 1..Len(log[t]) /\ log[t] \in Seq(Rows)
    BY FetchFacts DEF FetchOK, Ranges, IInv, TypeOK
  <2>2. k \in DOMAIN log[t] /\ <<GroupOf(p), log[t][k]>> \in processed'
    BY <2>1
  <2>3. PICK j : j = k
    OBVIOUS
  <2>4. Past(GroupOf(p), t, j)'
    BY <2>2, <2>3 DEF Past
  <2> QED
    BY <2>3, <2>4
<1>4. ASSUME NEW u \in ConsumedTopics, NEW q \in Procs
      PROVE  Upto(GroupOf(q), u, fetch[q][u].cur)'
  <2>1. CASE q # p \/ u # t
    BY <1>1, <1>2, <2>1 DEF LoopsProcess, Upto
  <2>2. CASE q = p /\ u = t
    BY <1>1, <1>2, <1>3, <2>2 DEF LoopsProcess, Upto
  <2> QED
    BY <2>1, <2>2
<1>5. ASSUME NEW u \in ConsumedTopics, NEW q \in Procs, owner'[u] = q
      PROVE  PositionOK(q, u)'
  <2>1. CASE q # p \/ u # t
    BY <1>1, <1>2, <1>5, <2>1 DEF LoopsProcess, PositionOK
  <2>2. CASE q = p /\ u = t
    BY <1>1, <1>2, <1>3, <1>5, <2>2 DEF LoopsProcess, PositionOK
  <2> QED
    BY <2>1, <2>2
<1> QED
  BY <1>2, <1>4, <1>5 DEF LoopsProcess, Upto

LEMMA SkipLoops ==
  ASSUME IInv, LoopsProcess, NEW p \in Procs, SkipDuplicate(p)
  PROVE  LoopsProcess'
<1>1. UNCHANGED <<committed, owner, position, log, processed>>
  BY DEF SkipDuplicate, tables
<1>2. PICK t \in ConsumedTopics :
        /\ fetch[p][t].cur < fetch[p][t].end /\ Advance(p, t)
        /\ <<GroupOf(p), log[t][fetch[p][t].cur + 1]>> \in processed
  BY DEF SkipDuplicate, AtTopic, Current
<1> QED
  BY <1>1, <1>2, AdvanceLoops

LEMMA FinishLoops ==
  ASSUME IInv, LoopsProcess, NEW p \in Procs, tx[p] # NoTx, Finish(p, TRUE),
         UNCHANGED <<committed, owner, position, log>>,
         processed' = processed \cup {<<GroupOf(p), tx[p].key>>}
  PROVE  LoopsProcess'
<1> DEFINE t == TxTopic(p)
<1>1. /\ OpenTx(p) /\ t \in ConsumedTopics /\ fetch[p][t].cur < fetch[p][t].end
      /\ Advance(p, t)
  BY OpenTxFacts DEF Finish, TxTopic
<1>2. log[t][fetch[p][t].cur + 1] = tx[p].key
  BY <1>1 DEF OpenTx, Current, TxTopic
<1> HIDE DEF t
<1> QED
  BY <1>1, <1>2, AdvanceLoops

LEMMA HandlerLoops ==
  ASSUME IInv, LoopsProcess, NEW p \in Procs,
         \/ HandleOrderCreated(p, TRUE)
         \/ HandleReply(p, TRUE)
         \/ HandleReserveStock(p, TRUE)
  PROVE  LoopsProcess'
<1>1. /\ tx[p] # NoTx /\ Finish(p, TRUE)
      /\ UNCHANGED <<committed, owner, position, log>>
  BY DEF HandleOrderCreated, HandleReply, HandleReserveStock, OrchestratorTx
<1>2. processed' = processed \cup {<<GroupOf(p), tx[p].key>>}
  BY ProcsAssumption DEF HandleOrderCreated, HandleReply, HandleReserveStock,
     OrchestratorTx, GroupOf
<1> QED
  BY <1>1, <1>2, FinishLoops

LEMMA CommitLoops ==
  ASSUME IInv, LoopsProcess, NEW p \in Procs, CommitRecords(p) \/ CommitRecordsFails(p)
  PROVE  LoopsProcess'
<1>1. /\ UNCHANGED <<owner, position, log, processed>> /\ Done(p)
      /\ fetch' = [fetch EXCEPT ![p] = NoFetch]
      /\ \A t \in ConsumedTopics :
           \/ committed'[t] = committed[t]
           \/ t \in Handled(p) /\ committed'[t] = fetch[p][t].cur
  BY DEF CommitRecords, CommitRecordsFails, tables
<1>2. /\ \A t \in ConsumedTopics : fetch'[p][t].cur = 0
      /\ \A q \in Procs \ {p} : fetch'[q] = fetch[q]
  BY <1>1, LoopFacts DEF NoFetch, NoRange
<1>3. ASSUME NEW t \in ConsumedTopics, NEW g \in Groups, t \in TopicsOf(g)
      PROVE  Upto(g, t, committed[t])'
  <2>1. CASE committed'[t] = committed[t]
    BY <1>1, <1>3, <2>1 DEF LoopsProcess, Upto, Past
  <2>2. CASE t \in Handled(p) /\ committed'[t] = fetch[p][t].cur
    <3>1. t \in TopicsOf(GroupOf(p))
      BY <2>2, FetchFacts DEF FetchOK, Ranges, Handled
    <3>2. GroupOf(p) = g
      BY <1>3, <3>1 DEF GroupOf, Groups, TopicsOf, Orchestrator, MarketReserve,
         TopicOrderEvents, TopicSagaReplies, TopicSagaCommands
    <3> QED
      BY <1>1, <2>2, <3>2 DEF LoopsProcess, Upto, Past
  <2> QED
    BY <1>1, <2>1, <2>2
<1>4. ASSUME NEW t \in ConsumedTopics, NEW q \in Procs
      PROVE  Upto(GroupOf(q), t, fetch[q][t].cur)'
  BY <1>1, <1>2 DEF LoopsProcess, Upto, Past
<1>5. ASSUME NEW t \in ConsumedTopics, NEW q \in Procs, owner'[t] = q
      PROVE  PositionOK(q, t)'
  <2>1. CASE q # p
    BY <1>1, <1>2, <1>5, <2>1 DEF LoopsProcess, PositionOK, Past
  <2>2. CASE q = p
    <3>1. fetch[p][t].cur = fetch[p][t].end /\ fetch[p][t].cur \in Nat
      BY <1>1, FetchFacts DEF Done, FetchOK, Ranges
    <3>2. position[t] \in Nat
      BY LoopFacts
    <3> QED
      BY <1>1, <1>5, <2>2, <3>1, <3>2 DEF LoopsProcess, PositionOK, Past
  <2> QED
    BY <2>1, <2>2
<1> QED
  BY <1>3, <1>4, <1>5 DEF LoopsProcess

LEMMA ConsumerLoops ==
  ASSUME IInv, LoopsProcess, ~ HandlerErrors, NEW p \in Procs,
         ConsumerStep(p) \/ ConsumerFault(p)
  PROVE  LoopsProcess'
<1>1. CASE Poll(p)
  BY <1>1, PollLoops
<1>2. CASE SkipDuplicate(p)
  BY <1>2, SkipLoops
<1>3. CASE \/ HandleOrderCreated(p, TRUE) \/ HandleReply(p, TRUE)
           \/ HandleReserveStock(p, TRUE)
  BY <1>3, HandlerLoops
<1>4. CASE CommitRecords(p) \/ CommitRecordsFails(p)
  BY <1>4, CommitLoops
<1>5. CASE OrchestratorAcquire(p) \/ ParticipantAcquire(p)
  <2>1. UNCHANGED <<consumers, log, processed>>
    BY <1>5 DEF OrchestratorAcquire, ParticipantAcquire, tables
  <2> QED
    BY <2>1, LogKept, LoopsFrame
<1>6. CASE \/ HandleOrderCreated(p, FALSE) \/ HandleReply(p, FALSE)
           \/ HandleReserveStock(p, FALSE) \/ HandlerFails(p)
  BY <1>6 DEF HandleOrderCreated, HandleReply, HandleReserveStock, Finish,
     HandlerFails
<1> QED
  BY <1>1, <1>2, <1>3, <1>4, <1>5, <1>6 DEF ConsumerStep, ConsumerFault

LEMMA StepLoops ==
  ASSUME IInv, LoopsProcess, ~ HandlerErrors, [Next]_vars
  PROVE  LoopsProcess'
<1>1. ASSUME NEW o \in Orders, NEW m \in MarketIDs, CreateOrder(o, m)
      PROVE  LoopsProcess'
  <2>1. UNCHANGED <<consumers, log, processed>>
    BY <1>1 DEF CreateOrder
  <2> QED
    BY <2>1, LogKept, LoopsFrame
<1>2. ASSUME NEW t \in ConsumedTopics,
             (\E p \in Procs : Assign(t, p)) \/ Revoke(t)
      PROVE  LoopsProcess'
  BY <1>2, AssignLoops, RevokeLoops
<1>3. ASSUME NEW p \in Procs, Crash(p)
      PROVE  LoopsProcess'
  BY <1>3, CrashLoops
<1>4. ASSUME NEW p \in Procs, ConsumerStep(p) \/ ConsumerFault(p)
      PROVE  LoopsProcess'
  BY <1>4, ConsumerLoops
<1>5. ASSUME NEW p \in RelayProcs, RelayStep(p) \/ RelayFault(p)
      PROVE  LoopsProcess'
  <2>1. p \in Procs
    BY ProcsAssumption DEF Procs
  <2>2. UNCHANGED consumers
    BY <1>5 DEF RelayStep, RelayFault, RelaySelect, RelaySendAcked,
       RelaySendFails, RelayMark, RelayMarkFails
  <2>3. Kept
    BY <1>5, <2>1, RelayKept
  <2> QED
    BY <2>2, <2>3, LoopsFrame
<1>6. CASE UNCHANGED vars
  <2>1. UNCHANGED <<consumers, log, processed>>
    BY <1>6 DEF vars, tables
  <2> QED
    BY <2>1, LogKept, LoopsFrame
<1> QED
  BY <1>1, <1>2, <1>3, <1>4, <1>5, <1>6 DEF Next, Environment

(* For any number of copies of the services, crashes, rebalances and late  *)
(* commits: as long as handlers return no error, no group's offset passes  *)
(* a record that the group has not processed.                              *)
THEOREM CommitsAreProcessed == Spec => []CommittedIsProcessed
<1>1. Init => LoopsProcess
  <2> SUFFICES ASSUME Init PROVE LoopsProcess
    OBVIOUS
  <2>1. /\ \A t \in ConsumedTopics :
             committed[t] = 0 /\ owner[t] = NoProc /\ position[t] = 0
        /\ \A p \in Procs, t \in ConsumedTopics : fetch[p][t].cur = 0
    BY DEF Init, NoFetch, NoRange
  <2> QED
    BY <2>1 DEF LoopsProcess, Upto, PositionOK
<1>2. IInv /\ ~ HandlerErrors /\ LoopsProcess /\ [Next]_vars => LoopsProcess'
  BY StepLoops
<1>3. LoopsProcess => CommittedIsProcessed
  <2>1. \A g \in Groups : TopicsOf(g) \subseteq ConsumedTopics
    BY DEF Groups, TopicsOf, ConsumedTopics
  <2> QED
    BY <2>1 DEF LoopsProcess, Upto, Past, CommittedIsProcessed
<1>4. HandlerErrors => CommittedIsProcessed
  BY DEF CommittedIsProcessed
<1>5. CASE HandlerErrors
  BY <1>4, <1>5, PTL
<1>6. CASE ~ HandlerErrors
  BY <1>1, <1>2, <1>3, <1>6, Invariance, PTL DEF Spec
<1> QED
  BY <1>5, <1>6
-----------------------------------------------------------------------------
(***************************************************************************)
(* No order is forgotten: the chain of an order's rows goes on until the   *)
(* order is settled (ChainGoesOn), and its last row is still on its way.   *)
(***************************************************************************)

(* ChainGoesOn after a step that writes row e, for the rows it processes.  *)
LEMMA GoesOnEmit ==
  ASSUME IInv, ChainGoesOn, NEW e \in Row, outbox' = Append(outbox, e),
         \A o \in Orders : orders[o] \in Settled => orders'[o] \in Settled,
         \A o \in Orders : orders'[o] # StatusAbsent =>
           \/ orders[o] # StatusAbsent
           \/ e.order = o /\ e.type = EventOrderCreated,
         processed' \subseteq Groups \X Rows,
         \A x \in Rows, g \in Groups : <<g, x>> \in processed' =>
           <<g, x>> \in processed \/ WentOn(x)'
  PROVE  ChainGoesOn'
  <1> DEFINE n == Len(outbox) + 1
  <1>1. /\ Rows' = Rows \cup {n} /\ n \notin Rows
        /\ \A r \in Rows : outbox'[r] = outbox[r] /\ outbox[r].order \in Orders
        /\ outbox'[n] = e
    BY EmitFacts, RowFacts DEF IInv
  <1> HIDE DEF n
  <1>2. ASSUME NEW o, NEW types, HasRow(o, types)
        PROVE  HasRow(o, types)'
    BY <1>1, <1>2 DEF HasRow
  <1>3. ASSUME NEW o \in Orders, orders'[o] # StatusAbsent
        PROVE  HasRow(o, {EventOrderCreated})'
    <2>1. CASE orders[o] # StatusAbsent
      BY <1>2, <2>1 DEF ChainGoesOn
    <2>2. CASE e.order = o /\ e.type = EventOrderCreated
      BY <1>1, <2>2 DEF HasRow
    <2> QED
      BY <1>3, <2>1, <2>2
  <1>4. ASSUME NEW r \in Rows', <<Reader(outbox'[r].type), r>> \in processed'
        PROVE  WentOn(r)'
    <2>1. r \in Rows /\ outbox'[r] = outbox[r] /\ outbox[r].order \in Orders
      BY <1>1, <1>4
    <2>2. Reader(outbox[r].type) \in Groups
      BY DEF Reader, Groups
    <2>3. CASE <<Reader(outbox[r].type), r>> \in processed
      <3>1. WentOn(r)
        BY <2>1, <2>3 DEF ChainGoesOn
      <3> QED
        BY <1>2, <2>1, <3>1 DEF WentOn
    <2> QED
      BY <1>4, <2>1, <2>2, <2>3
  <1> QED
    BY <1>3, <1>4 DEF ChainGoesOn

LEMMA CreateOrderGoesOn ==
  ASSUME IInv, ChainGoesOn, NEW o \in Orders, NEW m \in MarketIDs,
         CreateOrder(o, m)
  PROVE  ChainGoesOn'
  <1>0. PICK e : e = [type |-> EventOrderCreated, topic |-> TopicOrderEvents,
                      order |-> o, data |-> m]
    OBVIOUS
  <1>1. /\ orders[o] = StatusAbsent
        /\ orders' = [orders EXCEPT ![o] = StatusCreated]
        /\ outbox' = Append(outbox, e) /\ processed' = processed
    BY <1>0 DEF CreateOrder, Emit, OrderTopicResolver, EventOrderCreated,
                CommandReserveStock, EventOrderStatusChanged
  <1>2. e \in Row /\ e.type = EventOrderCreated /\ e.order = o
    BY <1>0, TypesDistinct DEF Row, Topics
  <1>3. /\ \A u \in Orders : orders[u] \in Settled => orders'[u] \in Settled
        /\ \A u \in Orders : orders'[u] # StatusAbsent =>
             \/ orders[u] # StatusAbsent
             \/ e.order = u /\ e.type = EventOrderCreated
    BY <1>1, <1>2 DEF IInv, TypeOK, Settled, StatusReserved, StatusRejected,
                      StatusAbsent
  <1>4. processed' \subseteq Groups \X Rows
    BY <1>1 DEF IInv, TypeOK
  <1> QED
    BY <1>1, <1>2, <1>3, <1>4, GoesOnEmit

LEMMA HandleOrderCreatedGoesOn ==
  ASSUME IInv, ChainGoesOn, NEW p \in Procs, NEW acked \in BOOLEAN,
         HandleOrderCreated(p, acked)
  PROVE  ChainGoesOn'
  <1>0. PICK r, o, e :
           /\ r = tx[p].key
           /\ o = outbox[r].order
           /\ e = [type |-> CommandReserveStock, topic |-> TopicSagaCommands,
                   order |-> o, data |-> outbox[r].data]
    OBVIOUS
  <1>1. /\ tx[p] # NoTx /\ outbox[r].type = EventOrderCreated
        /\ processed' = processed \cup {<<Orchestrator, r>>}
        /\ outbox' = Append(outbox, e) /\ orders' = orders
    <2>1. OrderTopicResolver(CommandReserveStock) = TopicSagaCommands
      BY TypesDistinct DEF OrderTopicResolver
    <2> QED
      BY <1>0, <2>1 DEF HandleOrderCreated, OrchestratorTx, Emit
  <1>2. r \in Rows /\ o \in Orders
    BY <1>0, <1>1, HandledRow
  <1>3. /\ e \in Row /\ e.type = CommandReserveStock /\ e.order = o
        /\ outbox[r].order = o
    <2>1. outbox[r].data \in MarketIDs \cup Settled
      BY <1>2, RowFacts DEF IInv
    <2> QED
      BY <1>0, <1>2, <2>1, TypesDistinct DEF Row, Topics
  <1>4. /\ Rows' = Rows \cup {Len(outbox) + 1}
        /\ outbox'[r] = outbox[r] /\ outbox'[Len(outbox) + 1] = e
    BY <1>1, <1>2, <1>3, EmitFacts DEF IInv
  <1>5. WentOn(r)'
    <2>1. HasRow(o, {CommandReserveStock})'
      BY <1>3, <1>4 DEF HasRow
    <2> QED
      BY <1>1, <1>3, <1>4, <2>1, TypesDistinct DEF WentOn
  <1>6. processed' \subseteq Groups \X Rows
    BY <1>1, <1>2 DEF IInv, TypeOK, Groups
  <1> QED
    BY <1>1, <1>3, <1>5, <1>6, GoesOnEmit

LEMMA HandleReserveStockGoesOn ==
  ASSUME IInv, ChainGoesOn, NEW p \in Procs, NEW acked \in BOOLEAN,
         HandleReserveStock(p, acked)
  PROVE  ChainGoesOn'
  <1>0. PICK r, o, reply, e :
           /\ r = tx[p].key
           /\ o = outbox[r].order
           /\ reply = IF tx[p].verdict = ReservationReserved
                      THEN EventStockReserved ELSE EventStockRejected
           /\ e = [type |-> reply, topic |-> TopicSagaReplies,
                   order |-> o, data |-> outbox[r].data]
    OBVIOUS
  <1>1. /\ tx[p] # NoTx /\ p \in MarketProcs
        /\ processed' = processed \cup {<<MarketReserve, r>>}
        /\ outbox' = Append(outbox, e) /\ orders' = orders
    <2>1. MarketTopicResolver(reply) = TopicSagaReplies
      BY <1>0, TypesDistinct DEF MarketTopicResolver
    <2> QED
      BY <1>0, <2>1 DEF HandleReserveStock, Emit
  <1>2. r \in Rows /\ o \in Orders /\ outbox[r].type = CommandReserveStock
    <2>1. GroupOf(p) = MarketReserve
      BY <1>1, ProcsAssumption DEF GroupOf
    <2> QED
      BY <1>0, <1>1, <2>1, HandledRow DEF Reader, Orchestrator, MarketReserve
  <1>3. /\ e \in Row /\ e.type \in Replies /\ e.order = o
        /\ outbox[r].order = o
    <2>1. outbox[r].data \in MarketIDs \cup Settled
      BY <1>2, RowFacts DEF IInv
    <2> QED
      BY <1>0, <1>2, <2>1, TypesDistinct DEF Row, Topics
  <1>4. /\ Rows' = Rows \cup {Len(outbox) + 1}
        /\ outbox'[r] = outbox[r] /\ outbox'[Len(outbox) + 1] = e
    BY <1>1, <1>2, <1>3, EmitFacts DEF IInv
  <1>5. WentOn(r)'
    <2>1. HasRow(o, Replies)'
      BY <1>3, <1>4 DEF HasRow
    <2> QED
      BY <1>2, <1>3, <1>4, <2>1, TypesDistinct DEF WentOn
  <1>6. processed' \subseteq Groups \X Rows
    BY <1>1, <1>2 DEF IInv, TypeOK, Groups
  <1> QED
    BY <1>1, <1>3, <1>5, <1>6, GoesOnEmit

LEMMA HandleReplyGoesOn ==
  ASSUME IInv, ChainGoesOn, NEW p \in Procs, NEW acked \in BOOLEAN,
         HandleReply(p, acked)
  PROVE  ChainGoesOn'
  <1>0. PICK r, o, s, e :
           /\ r = tx[p].key
           /\ o = outbox[r].order
           /\ s = IF outbox[r].type = EventStockReserved THEN StatusReserved
                                                         ELSE StatusRejected
           /\ e = [type |-> EventOrderStatusChanged, topic |-> TopicOrderStatus,
                   order |-> o, data |-> s]
    OBVIOUS
  <1>1. /\ tx[p] # NoTx /\ outbox[r].type \in Replies
        /\ processed' = processed \cup {<<Orchestrator, r>>}
        /\ orders' = [orders EXCEPT ![o] = IF @ = StatusAbsent THEN @ ELSE s]
        /\ outbox' = Append(outbox, e)
    <2>1. OrderTopicResolver(EventOrderStatusChanged) = TopicOrderStatus
      BY DEF OrderTopicResolver, EventOrderCreated, CommandReserveStock,
             EventOrderStatusChanged
    <2> QED
      BY <1>0, <2>1 DEF HandleReply, OrchestratorTx, Emit
  <1>2. r \in Rows /\ o \in Orders /\ orders[o] # StatusAbsent /\ s \in Settled
    BY <1>0, <1>1, HandledRow DEF Settled
  <1>3. e \in Row /\ outbox[r].order = o
    BY <1>0, <1>2, TypesDistinct DEF Row, Topics
  <1>4. outbox'[r] = outbox[r]
    BY <1>1, <1>2, <1>3, EmitFacts DEF IInv
  <1>5. orders'[o] = s /\ \A u \in Orders \ {o} : orders'[u] = orders[u]
    BY <1>1, <1>2 DEF IInv, TypeOK
  <1>6. WentOn(r)'
    BY <1>1, <1>2, <1>3, <1>4, <1>5, TypesDistinct DEF WentOn
  <1>7. processed' \subseteq Groups \X Rows
    BY <1>1, <1>2 DEF IInv, TypeOK, Groups
  <1>8. /\ \A u \in Orders : orders[u] \in Settled => orders'[u] \in Settled
        /\ \A u \in Orders : orders'[u] # StatusAbsent => orders[u] # StatusAbsent
    BY <1>2, <1>5
  <1> QED
    BY <1>1, <1>3, <1>6, <1>7, <1>8, GoesOnEmit

LEMMA ChainGoesOnStep == IInv /\ ChainGoesOn /\ [Next]_vars => ChainGoesOn'
  <1> SUFFICES ASSUME IInv, ChainGoesOn, [Next]_vars
               PROVE  ChainGoesOn'
    OBVIOUS
  <1>1. CASE UNCHANGED <<orders, outbox, processed>>
    BY <1>1 DEF ChainGoesOn, WentOn, HasRow, Rows
  <1>2. ASSUME NEW o \in Orders, NEW m \in MarketIDs, CreateOrder(o, m)
        PROVE  ChainGoesOn'
    BY <1>2, CreateOrderGoesOn
  <1>3. ASSUME NEW p \in Procs,
               \/ ConsumerStep(p) \/ ConsumerFault(p) \/ Crash(p)
        PROVE  ChainGoesOn'
    <2>1. CASE \E acked \in BOOLEAN : \/ HandleOrderCreated(p, acked)
                                      \/ HandleReserveStock(p, acked)
                                      \/ HandleReply(p, acked)
      BY <2>1, HandleOrderCreatedGoesOn, HandleReserveStockGoesOn,
         HandleReplyGoesOn
    <2>2. CASE \/ Poll(p) \/ SkipDuplicate(p) \/ CommitRecords(p)
               \/ HandlerFails(p) \/ CommitRecordsFails(p) \/ Crash(p)
               \/ OrchestratorAcquire(p) \/ ParticipantAcquire(p)
      <3>1. UNCHANGED <<orders, outbox, processed>>
        BY <2>2 DEF Poll, SkipDuplicate, CommitRecords, HandlerFails,
                    CommitRecordsFails, Crash, OrchestratorAcquire,
                    ParticipantAcquire, tables, outboxes
      <3> QED
        BY <1>1, <3>1
    <2> QED
      BY <1>3, <2>1, <2>2 DEF ConsumerStep, ConsumerFault
  <1>4. ASSUME NEW p \in RelayProcs, RelayStep(p) \/ RelayFault(p)
        PROVE  UNCHANGED <<orders, outbox, processed>>
    BY <1>4 DEF RelayStep, RelayFault, RelaySelect, RelaySendAcked, RelayMark,
                RelaySendFails, RelayMarkFails, tables
  <1>5. ASSUME NEW t \in ConsumedTopics,
               (\E p \in Procs : Assign(t, p)) \/ Revoke(t)
        PROVE  UNCHANGED <<orders, outbox, processed>>
    BY <1>5 DEF Assign, Revoke, tables, outboxes
  <1>6. CASE UNCHANGED vars
    BY <1>1, <1>6 DEF vars, tables, outboxes
  <1> QED
    BY <1>1, <1>2, <1>3, <1>4, <1>5, <1>6 DEF Next, Environment

(* Every order has its first row, and each row that was handled has led to *)
(* the next one or to the order's settlement.                              *)
THEOREM ChainInvariance == Spec => []ChainGoesOn
  <1>1. Init => ChainGoesOn
    BY DEF Init, ChainGoesOn, Rows
  <1> QED
    BY <1>1, ChainGoesOnStep, Invariance, PTL DEF Spec

(* A row of an order with a reader that has not processed it moves the     *)
(* order on, as NothingIsLost asks.                                        *)
LEMMA UnreadRow ==
  ASSUME IInv, PublishedIsInLog, CommittedIsProcessed, NEW r \in Rows,
         outbox[r].type # EventOrderStatusChanged,
         <<Reader(outbox[r].type), r>> \notin processed
  PROVE  \E g \in Groups :
           LET t == outbox[r].topic
           IN  /\ t \in TopicsOf(g) /\ <<g, r>> \notin processed
               /\ r \in published =>
                    \E i \in DOMAIN log[t] :
                      log[t][i] = r /\ (~HandlerErrors => i > committed[t])
  <1>0. PICK g, t : g = Reader(outbox[r].type) /\ t = outbox[r].topic
    OBVIOUS
  <1>1. g \in Groups /\ <<g, r>> \notin processed
    BY <1>0 DEF Reader, Groups
  <1>2. t \in TopicsOf(g) /\ t \in ConsumedTopics
    <2>1. t = RowTopic(outbox[r].type) /\ outbox[r].type \in EventTypes
      BY <1>0, RowFacts DEF IInv, RowsInTheirTopics
    <2> QED
      BY <1>0, <2>1, TypesDistinct
      DEF RowTopic, TopicsOf, ConsumedTopics, Reader, Orchestrator, MarketReserve
  <1>3. ASSUME r \in published
        PROVE  \E i \in DOMAIN log[t] :
                 log[t][i] = r /\ (~HandlerErrors => i > committed[t])
    <2>1. PICK i \in DOMAIN log[t] : log[t][i] = r
      BY <1>0, <1>3 DEF PublishedIsInLog, InLog
    <2>2. i \in Nat /\ i >= 1 /\ committed[t] \in Nat
      <3>1. t \in Topics
        BY <1>2 DEF ConsumedTopics, Topics
      <3>2. log[t] \in Seq(Rows)
        BY <3>1 DEF IInv, TypeOK
      <3>3. committed[t] \in Nat
        BY <1>2 DEF IInv, TypeOK
      <3> QED
        BY <2>1, <3>2, <3>3
    <2>3. ASSUME ~HandlerErrors
          PROVE  i > committed[t]
      <3>1. i \notin 1..committed[t]
        BY <1>1, <1>2, <2>1, <2>3 DEF CommittedIsProcessed
      <3> QED
        BY <2>2, <3>1
    <2> QED
      BY <2>1, <2>3
  <1> QED
    BY <1>0, <1>1, <1>2, <1>3

(* An order that is not settled has a message on its way that moves it on: *)
(* neither the relays nor the commits of the groups lose it.               *)
THEOREM NothingGetsLost == Spec => []NothingIsLost
  <1>1. IInv /\ ChainGoesOn /\ PublishedIsInLog /\ CommittedIsProcessed
          => NothingIsLost
    <2> SUFFICES ASSUME IInv, ChainGoesOn, PublishedIsInLog,
                        CommittedIsProcessed, NEW o \in Orders,
                        orders[o] = StatusCreated
                 PROVE  \E r \in Rows :
                          /\ outbox[r].order = o
                          /\ outbox[r].type # EventOrderStatusChanged
                          /\ <<Reader(outbox[r].type), r>> \notin processed
      BY UnreadRow DEF NothingIsLost
    <2>1. orders[o] # StatusAbsent /\ orders[o] \notin Settled
      BY DEF StatusCreated, StatusAbsent, Settled, StatusReserved, StatusRejected
    <2>2. PICK a \in Rows : outbox[a].order = o /\ outbox[a].type = EventOrderCreated
      BY <2>1 DEF ChainGoesOn, HasRow
    <2> SUFFICES ASSUME \A r \in Rows :
                          (/\ outbox[r].order = o
                           /\ outbox[r].type # EventOrderStatusChanged)
                          => WentOn(r)
                 PROVE  FALSE
      BY DEF ChainGoesOn
    <2>3. HasRow(o, {CommandReserveStock})
      BY <2>2, TypesDistinct DEF WentOn
    <2>4. PICK b \in Rows : outbox[b].order = o /\ outbox[b].type = CommandReserveStock
      BY <2>3 DEF HasRow
    <2>5. HasRow(o, Replies)
      BY <2>4, TypesDistinct DEF WentOn
    <2>6. PICK c \in Rows : outbox[c].order = o /\ outbox[c].type \in Replies
      BY <2>5 DEF HasRow
    <2> QED
      BY <2>1, <2>6, TypesDistinct DEF WentOn
  <1> QED
    BY <1>1, Invariance, ChainInvariance, PublishedWasProduced,
       CommitsAreProcessed, PTL
=============================================================================

------------------------- MODULE StreamSystemProofs -------------------------
(***************************************************************************)
(* Proofs about the status streams, for any number of streams, orders,     *)
(* copies of the services and faults.                                      *)
(***************************************************************************)
EXTENDS StreamSystem, SagaSystemProofs

Calls == [at: Places, proc: OrderProcs \cup {NoProc},
          read: Statuses \cup {StatusAbsent}, sent: Seq(Statuses)]
Feeds == [joined: BOOLEAN, next: Nat, offset: Nat \cup {NoOffset}, batch: Ranges]

Hubs == [p \in OrderProcs |-> {s \in Streams : Open(s) /\ stream[s].proc = p}]

(* The status consumer of p is somewhere in the topic.                     *)
FeedOK(p) ==
  /\ feed[p].next <= Len(Announcements)
  /\ feed[p].offset # NoOffset => feed[p].offset <= Len(Announcements)
  /\ feed[p].batch.cur <= feed[p].batch.end
  /\ feed[p].batch.end <= Len(Announcements)

(* A stream that is past its first read: what it read is the status of its *)
(* order or the one before, and what it sent was read in that order.       *)
Reads(s) == stream[s].at \in {"sending", "waiting"}
Status(s) == orders[Watched[s]]

SentOK(s) ==
  \/ stream[s].sent = <<>>
  \/ stream[s].sent = <<StatusCreated>>
  \/ /\ Status(s) \in Settled
     /\ stream[s].sent = <<Status(s)>> \/ stream[s].sent = <<StatusCreated, Status(s)>>

CallOK(s) ==
  /\ Open(s) => stream[s].proc \in OrderProcs
  /\ Reads(s) => /\ Status(s) # StatusAbsent
                 /\ stream[s].read = Status(s) \/ stream[s].read = StatusCreated
  /\ stream[s].at = "waiting" => Last(s) = stream[s].read
  /\ SentOK(s)
  /\ stream[s].at = "sending" /\ stream[s].read = StatusCreated =>
       stream[s].sent = <<>> \/ stream[s].sent = <<StatusCreated>>

(* Nobody sleeps on an old status with nothing to wake him.                *)
WakeOK(s) ==
  (Reads(s) /\ stream[s].read # Status(s))
    => s \in wake \cup missed \/ OnItsWay(Watched[s], stream[s].proc)

SInv ==
  /\ IInv
  /\ StreamTypeOK
  /\ \A p \in OrderProcs : FeedOK(p)
  /\ \A s \in Streams : CallOK(s) /\ WakeOK(s)

LEMMA StreamFacts ==
  ASSUME SInv
  PROVE  /\ IInv
         /\ stream \in [Streams -> Calls] /\ feed \in [OrderProcs -> Feeds]
         /\ subs = Hubs /\ wake \cup missed \subseteq {s \in Streams : Open(s)}
         /\ \A s \in Streams : Watched[s] \in Orders
         /\ log \in [Topics -> Seq(Rows)] /\ TopicOrderStatus \in Topics
         /\ Announcements \in Seq(Rows) /\ Len(Announcements) \in Nat
         /\ DOMAIN Announcements = 1..Len(Announcements)
         /\ \A s \in Streams : CallOK(s) /\ WakeOK(s) /\ Status(s) \in Statuses \cup {StatusAbsent}
         /\ \A p \in OrderProcs : FeedOK(p)
<1>1. TopicOrderStatus \in Topics
  BY DEF Topics
<1>2. /\ log \in [Topics -> Seq(Rows)]
      /\ orders \in [Orders -> Statuses \cup {StatusAbsent}]
  BY DEF SInv, IInv, TypeOK
<1>3. /\ stream \in [Streams -> Calls] /\ feed \in [OrderProcs -> Feeds]
      /\ subs = Hubs /\ wake \cup missed \subseteq {s \in Streams : Open(s)}
  BY DEF SInv, StreamTypeOK, Calls, Feeds, Hubs
<1>4. \A s \in Streams : Watched[s] \in Orders
  BY StreamsAssumption
<1> QED
  BY <1>1, <1>2, <1>3, <1>4 DEF SInv, Announcements, Status

LEMMA StatusFacts ==
  /\ StatusAbsent \notin Statuses /\ StatusCreated \in Statuses
  /\ StatusCreated \notin Settled /\ Statuses = {StatusCreated} \cup Settled
  /\ StatusReserved # StatusRejected
BY DEF Statuses, Settled, StatusAbsent, StatusCreated, StatusReserved, StatusRejected

-----------------------------------------------------------------------------
(* What a step of the saga may do to an order, to the outbox and to a      *)
(* topic, and what streams make of it.                                     *)
OrderMoves(o) ==
  \/ orders'[o] = orders[o]
  \/ orders[o] = StatusAbsent /\ orders'[o] = StatusCreated
  \/ orders[o] = StatusCreated /\ orders'[o] \in Settled

LEMMA OrdersMove ==
  ASSUME IInv, IInv', [Next]_vars, NEW o \in Orders
  PROVE  OrderMoves(o)
<1>1. /\ orders \in [Orders -> Statuses \cup {StatusAbsent}]
      /\ orders' \in [Orders -> Statuses \cup {StatusAbsent}]
  BY DEF IInv, TypeOK
<1>2. CASE UNCHANGED <<orders, reservations>>
  BY <1>2 DEF OrderMoves
<1>3. ASSUME NEW u \in Orders, Lifecycle!Create(u)
      PROVE  OrderMoves(o)
  BY <1>1, <1>3 DEF Lifecycle!Create, OrderMoves, Lifecycle!StatusAbsent, StatusAbsent,
     Lifecycle!StatusCreated, StatusCreated
<1>4. ASSUME NEW u \in Orders, Lifecycle!Decide(u)
      PROVE  OrderMoves(o)
  BY <1>4 DEF Lifecycle!Decide, OrderMoves
<1>5. ASSUME NEW u \in Orders, Lifecycle!Settle(u)
      PROVE  OrderMoves(o)
  <2>1. /\ orders[u] = StatusCreated
        /\ \E s \in Settled : orders' = [orders EXCEPT ![u] = s]
    BY <1>5 DEF Lifecycle!Settle, Lifecycle!StatusCreated, StatusCreated, Lifecycle!StatusFor,
       Lifecycle!StatusReserved, Lifecycle!StatusRejected, Settled, StatusReserved, StatusRejected
  <2> QED
    BY <1>1, <2>1 DEF OrderMoves
<1> QED
  BY <1>2, <1>3, <1>4, <1>5, LifecycleStep DEF Lifecycle!LifecycleNext

(* Rows stay, and a topic's records stay where they are.                   *)
LEMMA LogGrows ==
  ASSUME IInv, IInv', [Next]_vars
  PROVE  /\ \A r \in Rows : r \in Rows' /\ outbox'[r] = outbox[r]
         /\ \A t \in Topics : /\ Len(log[t]) <= Len(log'[t])
                              /\ \A i \in DOMAIN log[t] : log'[t][i] = log[t][i]
<1>1. /\ log \in [Topics -> Seq(Rows)]
      /\ \A t \in Topics : log[t] \in Seq(Rows) /\ Len(log[t]) \in Nat
  BY DEF IInv, TypeOK
<1>2. CASE Elsewhere
  <2>1. log' = log
    BY <1>2 DEF Elsewhere
  <2> QED
    BY <1>1, <1>2, <2>1, RowsStay
<1>3. ASSUME NEW p \in Procs, RelayStep(p) \/ RelayFault(p)
      PROVE  /\ \A r \in Rows : r \in Rows' /\ outbox'[r] = outbox[r]
             /\ \A t \in Topics : /\ Len(log[t]) <= Len(log'[t])
                                  /\ \A i \in DOMAIN log[t] : log'[t][i] = log[t][i]
  <2>1. UNCHANGED <<outbox, owner, fetch>>
    BY <1>3 DEF RelayStep, RelayFault, RelaySelect, RelaySendAcked, RelaySendFails,
       RelayMark, RelayMarkFails, consumers
  <2>2. log' = log \/ \E r \in relay[p].todo : Produced(r)
    BY <1>3 DEF RelayStep, RelayFault, RelaySelect, RelaySendAcked, RelaySendFails,
       RelayMark, RelayMarkFails
  <2>3. relay[p].todo \subseteq Rows
    BY DEF IInv, TypeOK, Batches
  <2>4. ASSUME NEW r \in relay[p].todo, Produced(r), NEW t \in Topics
        PROVE  /\ Len(log[t]) <= Len(log'[t])
               /\ \A i \in DOMAIN log[t] : log'[t][i] = log[t][i]
    <3>1. r \in Rows /\ outbox[r].topic \in Topics
      BY <2>3, <2>4, RowFacts DEF IInv
    <3>2. log'[t] = log[t] \/ log'[t] = Append(log[t], r)
      BY <1>1, <2>4, <3>1 DEF Produced
    <3>3. log[t] \in Seq(Rows) /\ Len(log[t]) \in Nat
      BY <1>1
    <3> QED
      BY <3>1, <3>2, <3>3, AppendFacts
  <2>5. CASE log' = log
    BY <1>1, <2>1, <2>5 DEF Rows
  <2> QED
    BY <2>1, <2>2, <2>4, <2>5 DEF Rows
<1> QED
  BY <1>2, <1>3, StepKinds

(* An announcement on its way to a copy that has not read it stays on it,  *)
(* whatever the saga does.                                                 *)
LEMMA OnItsWayStays ==
  ASSUME IInv, IInv', [Next]_vars, NEW o \in Orders, NEW p \in OrderProcs,
         feed[p].next \in Nat, FeedOK(p), feed'[p] = feed[p], OnItsWay(o, p)
  PROVE  OnItsWay(o, p)'
<1>1. PICK r \in Rows :
        /\ outbox[r].order = o /\ outbox[r].type = EventOrderStatusChanged
        /\ \/ ~InLog(r)
           \/ \E i \in DOMAIN Announcements :
                /\ Announcements[i] = r
                /\ \/ feed[p].next < i
                   \/ feed[p].batch.cur < i /\ i <= feed[p].batch.end
  BY DEF OnItsWay
<1>2. /\ r \in Rows' /\ outbox'[r] = outbox[r]
      /\ outbox[r].topic = TopicOrderStatus
  <2>1. RowTopic(EventOrderStatusChanged) = TopicOrderStatus
    BY TypesDistinct DEF RowTopic
  <2> QED
    BY <1>1, <2>1, LogGrows DEF IInv, RowsInTheirTopics
<1> DEFINE t == TopicOrderStatus
<1>3. /\ t \in Topics /\ log[t] \in Seq(Rows) /\ log'[t] \in Seq(Rows')
      /\ Len(log[t]) <= Len(log'[t])
      /\ \A i \in DOMAIN log[t] : log'[t][i] = log[t][i]
  BY LogGrows DEF IInv, TypeOK, Topics
<1> HIDE DEF t
<1>4. /\ Len(log[t]) \in Nat /\ Len(log'[t]) \in Nat
      /\ DOMAIN log[t] = 1..Len(log[t]) /\ DOMAIN log'[t] = 1..Len(log'[t])
  BY <1>3
<1>5. CASE \E i \in DOMAIN Announcements :
              /\ Announcements[i] = r
              /\ \/ feed[p].next < i
                 \/ feed[p].batch.cur < i /\ i <= feed[p].batch.end
  BY <1>1, <1>2, <1>3, <1>4, <1>5 DEF OnItsWay, Announcements, t
<1>6. CASE ~ InLog(r)
  <2>1. CASE ~ InLog(r)'
    BY <1>1, <1>2, <2>1 DEF OnItsWay
  <2>2. CASE InLog(r)'
    <3>1. PICK i \in DOMAIN log'[t] : log'[t][i] = r
      BY <1>2, <2>2 DEF InLog, t
    <3>2. i \notin DOMAIN log[t]
      BY <1>2, <1>3, <1>6, <3>1 DEF InLog, t
    <3>3. feed[p].next < i
      BY <1>4, <3>1, <3>2 DEF FeedOK, Announcements, t
    <3> QED
      BY <1>1, <1>2, <3>1, <3>3 DEF OnItsWay, Announcements, t
  <2> QED
    BY <2>1, <2>2
<1> QED
  BY <1>1, <1>5, <1>6

(* The step that settles an order writes an announcement.                  *)
LEMMA SettlingAnnounces ==
  ASSUME IInv, IInv', [Next]_vars, NEW o \in Orders, NEW p \in OrderProcs,
         orders[o] # StatusAbsent, orders'[o] # orders[o]
  PROVE  OnItsWay(o, p)'
<1>1. PICK q \in Procs, acked \in BOOLEAN : HandleReply(q, acked)
  <2>1. ASSUME NEW u \in Orders, NEW m \in MarketIDs, CreateOrder(u, m)
        PROVE  FALSE
    BY <2>1 DEF CreateOrder, IInv, TypeOK
  <2>2. ASSUME NEW t \in ConsumedTopics,
               (\E q \in Procs : Assign(t, q)) \/ Revoke(t)
        PROVE  FALSE
    BY <2>2 DEF Assign, Revoke, tables
  <2>3. ASSUME NEW q \in RelayProcs, RelayStep(q) \/ RelayFault(q)
        PROVE  FALSE
    BY <2>3 DEF RelayStep, RelayFault, RelaySelect, RelaySendAcked, RelaySendFails,
       RelayMark, RelayMarkFails, tables
  <2>4. ASSUME NEW q \in Procs,
               \/ Poll(q) \/ SkipDuplicate(q) \/ CommitRecords(q)
               \/ HandlerFails(q) \/ CommitRecordsFails(q) \/ Crash(q)
               \/ OrchestratorAcquire(q) \/ ParticipantAcquire(q)
        PROVE  FALSE
    BY <2>4 DEF Poll, SkipDuplicate, CommitRecords, HandlerFails, CommitRecordsFails,
       Crash, OrchestratorAcquire, ParticipantAcquire, tables
  <2>5. ASSUME NEW q \in Procs, NEW acked \in BOOLEAN,
               HandleOrderCreated(q, acked) \/ HandleReserveStock(q, acked)
        PROVE  FALSE
    BY <2>5 DEF HandleOrderCreated, HandleReserveStock
  <2>6. CASE UNCHANGED vars
    BY <2>6 DEF vars, tables
  <2> QED
    BY <2>1, <2>2, <2>3, <2>4, <2>5, <2>6 DEF Next, Environment, ConsumerStep, ConsumerFault
<1>2. PICK e : /\ outbox' = Append(outbox, e) /\ e.order = o
               /\ e.type = EventOrderStatusChanged
  <2>1. PICK u, d, t : /\ u = outbox[tx[q].key].order
                       /\ outbox' = Append(outbox, [type |-> EventOrderStatusChanged,
                                                    topic |-> t, order |-> u, data |-> d])
                       /\ \A x \in Orders \ {u} : orders'[x] = orders[x]
    <3>1. /\ \E d, t : outbox' = Append(outbox, [type |-> EventOrderStatusChanged,
                            topic |-> t, order |-> outbox[tx[q].key].order, data |-> d])
          /\ \E v : orders' = [orders EXCEPT ![outbox[tx[q].key].order] = v]
      BY <1>1 DEF HandleReply, Emit
    <3> QED
      BY <3>1 DEF IInv, TypeOK
  <2>2. u = o
    BY <2>1
  <2> QED
    BY <2>1, <2>2
<1>3. PICK r : /\ r \in Rows' \ Rows /\ outbox'[r] = e
  <2>1. outbox \in Seq(Row) /\ outbox' \in Seq(Row)
    BY DEF IInv, TypeOK
  <2>2. /\ DOMAIN outbox = 1..Len(outbox) /\ Len(outbox) \in Nat
        /\ Len(outbox) + 1 \in DOMAIN outbox' /\ outbox'[Len(outbox) + 1] = e
    BY <1>2, <2>1
  <2> QED
    BY <2>2 DEF Rows
<1>4. Elsewhere
  BY <1>1, HandlerIsElsewhere
<1>5. ~ InLog(r)'
  BY <1>3, <1>4, NewRowHasNoCopy DEF Copies, InLog
<1> QED
  BY <1>2, <1>3, <1>5 DEF OnItsWay

(* So a step of the saga takes no stream's state out of order.             *)
LEMMA CallStays ==
  ASSUME SInv, IInv', [Next]_vars, NEW s \in Streams,
         stream'[s] = stream[s], s \in wake => s \in wake', s \in missed => s \in missed',
         Reads(s) => feed'[stream[s].proc] = feed[stream[s].proc]
  PROVE  CallOK(s)' /\ WakeOK(s)'
<1>1. OrderMoves(Watched[s]) /\ CallOK(s) /\ WakeOK(s) /\ Watched[s] \in Orders
  BY StreamFacts, OrdersMove
<1>2. CallOK(s)'
  BY <1>1, StatusFacts DEF CallOK, SentOK, OrderMoves, Status, Reads, Open, Last
<1>3. ASSUME Reads(s)', stream'[s].read # Status(s)'
      PROVE  \/ s \in wake' \cup missed'
             \/ OnItsWay(Watched[s], stream[s].proc)'
  <2> DEFINE o == Watched[s]  p == stream[s].proc
  <2>1. Reads(s) /\ p \in OrderProcs /\ orders[o] # StatusAbsent
    BY <1>1, <1>3 DEF Reads, CallOK, Open, Status
  <2>2. feed[p].next \in Nat /\ FeedOK(p) /\ feed'[p] = feed[p]
    BY <2>1, StreamFacts DEF Feeds
  <2> HIDE DEF p
  <2>3. CASE orders'[o] = orders[o]
    <3>1. s \in wake \cup missed \/ OnItsWay(o, p)
      BY <1>1, <1>3, <2>3 DEF WakeOK, Reads, Status, p
    <3> QED
      BY <1>1, <2>1, <2>2, <3>1, OnItsWayStays, StreamFacts DEF p
  <2>4. CASE orders'[o] # orders[o]
    BY <1>1, <2>1, <2>4, SettlingAnnounces, StreamFacts DEF p
  <2> QED
    BY <2>3, <2>4
<1> QED
  BY <1>2, <1>3 DEF WakeOK

LEMMA FeedStays ==
  ASSUME SInv, IInv', [Next]_vars, NEW p \in OrderProcs,
         feed'[p] = feed[p] \/ feed'[p] = NoFeed
  PROVE  FeedOK(p)'
<1>1. /\ Len(Announcements) <= Len(Announcements') /\ Len(Announcements') \in Nat
      /\ Len(Announcements) \in Nat /\ FeedOK(p)
      /\ feed[p] \in Feeds
  <2>1. Announcements' \in Seq(Rows')
    BY StreamFacts DEF Announcements, IInv, TypeOK
  <2> QED
    BY <2>1, StreamFacts, LogGrows DEF Announcements
<1>2. CASE feed'[p] = feed[p]
  BY <1>1, <1>2 DEF FeedOK, Feeds, Ranges
<1>3. CASE feed'[p] = NoFeed
  BY <1>1, <1>3 DEF FeedOK, NoFeed, NoRange
<1> QED
  BY <1>2, <1>3

LEMMA SagaKeepsSInv ==
  ASSUME SInv, IInv', [Next]_vars, UNCHANGED streaming
  PROVE  SInv'
<1>1. UNCHANGED <<stream, subs, wake, feed, missed>>
  BY DEF streaming
<1>2. StreamTypeOK'
  BY <1>1 DEF SInv, StreamTypeOK, Open
<1>3. \A p \in OrderProcs : FeedOK(p)'
  BY <1>1, FeedStays
<1>4. \A s \in Streams : CallOK(s)' /\ WakeOK(s)'
  BY <1>1, CallStays
<1> QED
  BY <1>2, <1>3, <1>4 DEF SInv

LEMMA CrashKeepsSInv ==
  ASSUME SInv, IInv', NEW p \in OrderProcs, Crash(p), StreamsCrash(p)
  PROVE  SInv'
<1>1. [Next]_vars
  BY DEF Next, Environment, Procs
<1>2. /\ stream' = [s \in Streams |-> IF s \in subs[p]
                      THEN [stream[s] EXCEPT !.at = "returned"] ELSE stream[s]]
      /\ subs' = [subs EXCEPT ![p] = {}]
      /\ wake' = wake \ subs[p] /\ missed' = missed \ subs[p]
      /\ feed' = [feed EXCEPT ![p] = NoFeed]
      /\ UNCHANGED orders
  BY DEF StreamsCrash, Crash, tables
<1>3. /\ stream \in [Streams -> Calls] /\ feed \in [OrderProcs -> Feeds]
      /\ subs = Hubs /\ wake \cup missed \subseteq {s \in Streams : Open(s)}
      /\ subs[p] = {s \in Streams : Open(s) /\ stream[s].proc = p}
  BY StreamFacts DEF Hubs
<1>4. \A s \in Streams :
        IF s \in subs[p]
        THEN /\ stream'[s].at = "returned" /\ stream'[s].proc = stream[s].proc
             /\ stream'[s].read = stream[s].read /\ stream'[s].sent = stream[s].sent
        ELSE stream'[s] = stream[s]
  BY <1>2, <1>3 DEF Calls
<1>5. stream' \in [Streams -> Calls]
  <2>1. \A s \in Streams : [stream[s] EXCEPT !.at = "returned"] \in Calls
    BY <1>3 DEF Calls, Places
  <2> QED
    BY <1>2, <1>3, <2>1
<1>6. feed' \in [OrderProcs -> Feeds]
  <2>1. NoFeed \in Feeds
    BY DEF NoFeed, Feeds, NoRange, Ranges
  <2> QED
    BY <1>2, <1>3, <2>1
<1>7. \A s \in Streams : Open(s)' <=> Open(s) /\ s \notin subs[p]
  BY <1>4 DEF Open
<1>8. subs' = Hubs'
  <2>1. \A q \in OrderProcs \ {p} :
          {s \in Streams : Open(s) /\ stream[s].proc = q}'
            = {s \in Streams : Open(s) /\ stream[s].proc = q}
    BY <1>3, <1>4, <1>7
  <2>2. {s \in Streams : Open(s) /\ stream[s].proc = p}' = {}
    BY <1>3, <1>4, <1>7
  <2>3. \A q \in OrderProcs : Hubs[q] = {s \in Streams : Open(s) /\ stream[s].proc = q}
    BY DEF Hubs
  <2>4. \A q \in OrderProcs \ {p} :
          subs'[q] = {s \in Streams : Open(s) /\ stream[s].proc = q}'
    <3>1. \A q \in OrderProcs \ {p} : subs'[q] = Hubs[q]
      BY <1>2, <1>3 DEF Hubs
    <3> QED
      BY <2>1, <2>3, <3>1
  <2>5. subs'[p] = {s \in Streams : Open(s) /\ stream[s].proc = p}'
    BY <1>2, <1>3, <2>2 DEF Hubs
  <2>6. subs' = [q \in OrderProcs |-> subs'[q]]
    BY <1>2, <1>3 DEF Hubs
  <2> QED
    BY <2>4, <2>5, <2>6 DEF Hubs
<1>9. StreamTypeOK'
  BY <1>2, <1>3, <1>5, <1>6, <1>7, <1>8 DEF StreamTypeOK, Calls, Feeds, Hubs
<1>10. \A q \in OrderProcs : FeedOK(q)'
  BY <1>1, <1>2, <1>3, FeedStays
<1>11. ASSUME NEW s \in Streams
       PROVE  CallOK(s)' /\ WakeOK(s)'
  <2>1. CASE s \in subs[p]
    <3>1. CallOK(s)
      BY StreamFacts
    <3> QED
      BY <1>2, <1>4, <2>1, <3>1 DEF CallOK, WakeOK, Open, Reads, SentOK, Status
  <2>2. CASE s \notin subs[p]
    <3>1. Reads(s) => stream[s].proc \in OrderProcs \ {p}
      BY <1>3, <2>2, StreamFacts DEF Reads, Open, CallOK
    <3>2. Reads(s) => feed'[stream[s].proc] = feed[stream[s].proc]
      BY <1>2, <1>3, <3>1
    <3> QED
      BY <1>1, <1>2, <1>4, <2>2, <3>2, CallStays
  <2> QED
    BY <2>1, <2>2
<1> QED
  BY <1>9, <1>10, <1>11 DEF SInv

-----------------------------------------------------------------------------
(* Steps of the status consumers and of the streams leave the saga alone.  *)
LEMMA SagaIsLeft ==
  ASSUME IInv, UNCHANGED saga, faults' = faults \/ Fault
  PROVE  /\ IInv' /\ UNCHANGED <<orders, outbox, log>>
         /\ \A o \in Orders : OrderMoves(o)
<1>1. UNCHANGED <<orders, reservations, processed, outbox, published, relay,
                  committed, owner, position, fetch, tx, log>>
  BY DEF saga, tables, outboxes, consumers
<1>2. /\ tx' \in [Procs -> Txs] /\ relay' \in [Procs -> Batches]
      /\ committed' \in [ConsumedTopics -> Nat]
      /\ position' \in [ConsumedTopics -> Nat]
      /\ fetch' \in [Procs -> [ConsumedTopics -> Ranges]]
      /\ faults' \in 0..MaxFaults /\ OwnersOK'
  BY <1>1, LoopFacts DEF OwnersOK
<1>3. \A p \in Procs, t \in ConsumedTopics : FetchOK(p, t)'
  BY <1>1, FetchFacts DEF FetchOK
<1>4. (\A q \in Procs : TxKept(q)) /\ UNCHANGED <<tables, outbox, published, log>>
  BY <1>1 DEF TxKept, tables
<1>5. IInv'
  BY <1>2, <1>3, <1>4, LoopFrame
<1> QED
  BY <1>1, <1>5 DEF OrderMoves

LEMMA OnItsWayFrame ==
  ASSUME UNCHANGED <<outbox, log>>, NEW o \in Orders, NEW p \in OrderProcs,
         feed'[p] = feed[p], OnItsWay(o, p)
  PROVE  OnItsWay(o, p)'
BY DEF OnItsWay, InLog, Announcements, Rows

(* A step of one stream's goroutine: what it leaves behind for the others. *)
LEMMA OneStream ==
  ASSUME SInv, UNCHANGED <<orders, outbox, log, feed>>, IInv',
         NEW s \in Streams,
         stream' \in [Streams -> Calls],
         \A q \in Streams \ {s} :
           /\ stream'[q] = stream[q]
           /\ q \in wake' <=> q \in wake
           /\ q \in missed' <=> q \in missed,
         wake' \cup missed' \subseteq wake \cup missed,
         s \in wake' \cup missed' => Open(s)',
         subs' = Hubs',
         CallOK(s)', WakeOK(s)'
  PROVE  SInv'
<1>1. /\ feed \in [OrderProcs -> Feeds]
      /\ wake \cup missed \subseteq {q \in Streams : Open(q)}
      /\ \A q \in Streams : CallOK(q) /\ WakeOK(q) /\ Watched[q] \in Orders
      /\ \A p \in OrderProcs : FeedOK(p)
  BY StreamFacts
<1>2. StreamTypeOK'
  <2>1. wake' \cup missed' \subseteq {q \in Streams : Open(q)'}
    BY <1>1 DEF Open
  <2> QED
    BY <1>1, <2>1 DEF StreamTypeOK, Calls, Feeds, Hubs
<1>3. \A p \in OrderProcs : FeedOK(p)'
  BY <1>1 DEF FeedOK, Announcements
<1>4. ASSUME NEW q \in Streams \ {s}
      PROVE  CallOK(q)' /\ WakeOK(q)'
  <2>1. CallOK(q)'
    BY <1>1 DEF CallOK, Open, Reads, Status, SentOK, Last
  <2>2. ASSUME Reads(q)', stream'[q].read # Status(q)', q \notin wake' \cup missed'
        PROVE  OnItsWay(Watched[q], stream[q].proc)'
    <3>1. stream[q].proc \in OrderProcs /\ OnItsWay(Watched[q], stream[q].proc)
      BY <1>1, <2>2 DEF WakeOK, CallOK, Reads, Status, Open
    <3> QED
      BY <1>1, <3>1, OnItsWayFrame
  <2> QED
    BY <2>1, <2>2 DEF WakeOK
<1> QED
  BY <1>2, <1>3, <1>4 DEF SInv

(* A stream that returns leaves the hub.                                   *)
LEMMA ReturnLeaves ==
  ASSUME SInv, NEW s \in Streams, Return(s), stream' \in [Streams -> Calls],
         stream'[s].at = "returned", \A q \in Streams \ {s} : stream'[q] = stream[q]
  PROVE  /\ subs' = Hubs' /\ s \notin wake' \cup missed'
         /\ wake' \cup missed' \subseteq wake \cup missed
         /\ \A q \in Streams \ {s} : /\ q \in wake' <=> q \in wake
                                     /\ q \in missed' <=> q \in missed
<1>1. /\ subs' = [subs EXCEPT ![stream[s].proc] = @ \ {s}]
      /\ wake' = wake \ {s} /\ missed' = missed \ {s}
      /\ subs = Hubs
  BY StreamFacts DEF Return
<1>2. \A q \in OrderProcs : Hubs[q] = {x \in Streams : Open(x) /\ stream[x].proc = q}
  BY DEF Hubs
<1>3. ~ Open(s)' /\ \A q \in Streams \ {s} : Open(q)' <=> Open(q)
  BY DEF Open
<1>4. ASSUME NEW q \in OrderProcs
      PROVE  subs'[q] = {x \in Streams : Open(x) /\ stream[x].proc = q}'
  <2>1. {x \in Streams : Open(x) /\ stream[x].proc = q}'
          = {x \in Streams : Open(x) /\ stream[x].proc = q} \ {s}
    BY <1>3
  <2>2. CASE q = stream[s].proc
    BY <1>1, <1>2, <2>1, <2>2 DEF Hubs
  <2>3. CASE q # stream[s].proc
    <3>1. subs'[q] = Hubs[q]
      BY <1>1, <2>3 DEF Hubs
    <3>2. s \notin {x \in Streams : Open(x) /\ stream[x].proc = q}
      BY <2>3
    <3> QED
      BY <1>2, <2>1, <3>1, <3>2
  <2> QED
    BY <2>2, <2>3
<1>5. subs' = [q \in OrderProcs |-> subs'[q]]
  BY <1>1 DEF Hubs
<1>6. subs' = Hubs'
  BY <1>4, <1>5 DEF Hubs
<1> QED
  BY <1>1, <1>6

LEMMA SubscribeKeepsSInv ==
  ASSUME SInv, IInv', UNCHANGED <<orders, outbox, log>>,
         NEW s \in Streams, NEW p \in OrderProcs, Subscribe(s, p)
  PROVE  SInv'
<1>1. /\ stream \in [Streams -> Calls] /\ subs = Hubs /\ CallOK(s)
      /\ wake \cup missed \subseteq {q \in Streams : Open(q)}
  BY StreamFacts
<1>2. /\ stream[s].at = "unopened"
      /\ stream' = [stream EXCEPT ![s] = [@ EXCEPT !.at = "reading", !.proc = p]]
      /\ subs' = [subs EXCEPT ![p] = @ \cup {s}]
      /\ UNCHANGED <<wake, feed, missed>>
  BY DEF Subscribe
<1>3. /\ stream' \in [Streams -> Calls]
      /\ \A q \in Streams \ {s} : stream'[q] = stream[q]
      /\ stream'[s].at = "reading" /\ stream'[s].proc = p
      /\ stream'[s].sent = stream[s].sent
  BY <1>1, <1>2 DEF Calls, Places
<1>4. subs' = Hubs'
  <2>1. ~ Open(s) /\ Open(s)' /\ \A q \in Streams \ {s} : Open(q)' <=> Open(q)
    BY <1>2, <1>3 DEF Open
  <2>2. \A q \in OrderProcs : Hubs[q] = {x \in Streams : Open(x) /\ stream[x].proc = q}
    BY DEF Hubs
  <2>3. {x \in Streams : Open(x) /\ stream[x].proc = p}'
          = {x \in Streams : Open(x) /\ stream[x].proc = p} \cup {s}
    BY <1>3, <2>1
  <2>4. \A q \in OrderProcs \ {p} :
          {x \in Streams : Open(x) /\ stream[x].proc = q}'
            = {x \in Streams : Open(x) /\ stream[x].proc = q}
    BY <1>3, <2>1
  <2>5. /\ subs'[p] = Hubs[p] \cup {s}
        /\ \A q \in OrderProcs \ {p} : subs'[q] = Hubs[q]
        /\ subs' = [q \in OrderProcs |-> subs'[q]]
    BY <1>1, <1>2 DEF Hubs
  <2>6. \A q \in OrderProcs : subs'[q] = {x \in Streams : Open(x) /\ stream[x].proc = q}'
    BY <2>2, <2>3, <2>4, <2>5
  <2> QED
    BY <2>5, <2>6 DEF Hubs
<1>5. CallOK(s)' /\ WakeOK(s)' /\ Open(s)'
  BY <1>1, <1>3 DEF CallOK, WakeOK, Reads, Open, SentOK, Status
<1> QED
  BY <1>2, <1>3, <1>4, <1>5, OneStream

(* Steps of an open stream that stays in its hub.                          *)
LEMMA HubStays ==
  ASSUME SInv, NEW s \in Streams, Open(s), Open(s)', stream'[s].proc = stream[s].proc,
         \A q \in Streams \ {s} : stream'[q] = stream[q], UNCHANGED subs
  PROVE  subs' = Hubs'
<1>1. \A q \in Streams : Open(q)' <=> Open(q)
  BY DEF Open
<1>2. \A q \in OrderProcs :
        {x \in Streams : Open(x) /\ stream[x].proc = q}'
          = {x \in Streams : Open(x) /\ stream[x].proc = q}
  BY <1>1
<1> QED
  BY <1>2, StreamFacts DEF Hubs

LEMMA ReadKeepsSInv ==
  ASSUME SInv, IInv', UNCHANGED <<orders, outbox, log>>, NEW s \in Streams, ReadStatus(s)
  PROVE  SInv'
<1>1. /\ stream \in [Streams -> Calls] /\ CallOK(s) /\ WakeOK(s)
      /\ Status(s) \in Statuses \cup {StatusAbsent}
      /\ wake \cup missed \subseteq {q \in Streams : Open(q)}
  BY StreamFacts
<1>2. /\ stream[s].at = "reading" /\ Open(s) /\ UNCHANGED feed
      /\ Status(s) = orders[Watched[s]]
  BY DEF ReadStatus, Open, Status
<1>3. CASE /\ Status(s) # StatusAbsent
           /\ stream' = [stream EXCEPT ![s].at = "sending", ![s].read = Status(s)]
           /\ missed' = missed \ {s}
           /\ UNCHANGED <<subs, wake>>
  <2>1. /\ stream' \in [Streams -> Calls]
        /\ \A q \in Streams \ {s} : stream'[q] = stream[q]
        /\ stream'[s].at = "sending" /\ stream'[s].proc = stream[s].proc
        /\ stream'[s].read = Status(s) /\ stream'[s].sent = stream[s].sent
    BY <1>1, <1>3 DEF Calls, Places
  <2>2. Open(s)' /\ subs' = Hubs'
    BY <1>2, <1>3, <2>1, HubStays DEF Open
  <2>3. Status(s)' = Status(s)
    BY DEF Status
  <2>4. CallOK(s)' /\ WakeOK(s)'
    BY <1>1, <1>2, <1>3, <2>1, <2>3, StatusFacts DEF CallOK, WakeOK, Open, Reads, SentOK
  <2> QED
    BY <1>1, <1>2, <1>3, <2>1, <2>2, <2>4, OneStream
<1>4. CASE stream' = [stream EXCEPT ![s].at = "returned"] /\ Return(s)
  <2>1. /\ stream' \in [Streams -> Calls]
        /\ \A q \in Streams \ {s} : stream'[q] = stream[q]
        /\ stream'[s].at = "returned" /\ stream'[s].sent = stream[s].sent
    BY <1>1, <1>4 DEF Calls, Places
  <2>2. CallOK(s)' /\ WakeOK(s)'
    BY <1>1, <2>1 DEF CallOK, WakeOK, Open, Reads, SentOK, Status
  <2> QED
    BY <1>2, <1>4, <2>1, <2>2, ReturnLeaves, OneStream
<1> QED
  BY <1>2, <1>3, <1>4 DEF ReadStatus

LEMMA EndKeepsSInv ==
  ASSUME SInv, IInv', UNCHANGED <<orders, outbox, log>>, NEW s \in Streams, StreamEnds(s)
  PROVE  SInv'
<1>1. stream \in [Streams -> Calls] /\ CallOK(s)
  BY StreamFacts
<1>2. /\ stream' = [stream EXCEPT ![s].at = "returned"] /\ Return(s) /\ UNCHANGED feed
  BY DEF StreamEnds
<1>3. /\ stream' \in [Streams -> Calls]
      /\ \A q \in Streams \ {s} : stream'[q] = stream[q]
      /\ stream'[s].at = "returned" /\ stream'[s].sent = stream[s].sent
  BY <1>1, <1>2 DEF Calls, Places
<1>4. CallOK(s)' /\ WakeOK(s)'
  BY <1>1, <1>3 DEF CallOK, WakeOK, Open, Reads, SentOK, Status
<1> QED
  BY <1>2, <1>3, <1>4, ReturnLeaves, OneStream

LEMMA ReceiveKeepsSInv ==
  ASSUME SInv, IInv', UNCHANGED <<orders, outbox, log>>, NEW s \in Streams, ReceiveUpdate(s)
  PROVE  SInv'
<1>1. stream \in [Streams -> Calls] /\ CallOK(s)
  BY StreamFacts
<1>2. /\ stream[s].at = "waiting" /\ wake' = wake \ {s}
      /\ stream' = [stream EXCEPT ![s].at = "reading"]
      /\ UNCHANGED <<subs, feed, missed>>
  BY DEF ReceiveUpdate
<1>3. /\ stream' \in [Streams -> Calls]
      /\ \A q \in Streams \ {s} : stream'[q] = stream[q]
      /\ stream'[s].at = "reading" /\ stream'[s].sent = stream[s].sent
      /\ stream'[s].proc = stream[s].proc
  BY <1>1, <1>2 DEF Calls, Places
<1>4. CallOK(s)' /\ WakeOK(s)' /\ Open(s)' /\ Open(s)
  BY <1>1, <1>2, <1>3 DEF CallOK, WakeOK, Open, Reads, SentOK, Status
<1>5. subs' = Hubs'
  BY <1>2, <1>3, <1>4, HubStays
<1> QED
  BY <1>2, <1>3, <1>4, <1>5, OneStream

LEMMA TupleFacts ==
  ASSUME NEW S, NEW a \in S, NEW b \in S
  PROVE  /\ <<a>> \in Seq(S) /\ Len(<<a>>) = 1 /\ <<a>>[1] = a /\ <<a>> # <<>>
         /\ <<a, b>> \in Seq(S) /\ Len(<<a, b>>) = 2 /\ <<a, b>>[2] = b
         /\ <<a, b>> # <<>> /\ <<a, b>> # <<a>>
         /\ Append(<<a>>, b) = <<a, b>>
<1>1. <<a>> \in Seq(S) /\ Len(<<a>>) = 1 /\ <<a>>[1] = a
  OBVIOUS
<1>2. <<a, b>> \in Seq(S) /\ Len(<<a, b>>) = 2 /\ <<a, b>>[2] = b
  OBVIOUS
<1>3. Len(<<>>) = 0
  OBVIOUS
<1>4. <<a>> # <<>> /\ <<a, b>> # <<>> /\ <<a, b>> # <<a>>
  BY <1>1, <1>2, <1>3
<1>5. Append(<<a>>, b) = <<a, b>>
  <2>1. PICK x, y : x = Append(<<a>>, b) /\ y = <<a, b>>
    OBVIOUS
  <2>2. x \in Seq(S) /\ Len(x) = 2 /\ x[1] = a /\ x[2] = b
    BY <1>1, <2>1, AppendFacts
  <2>3. y \in Seq(S) /\ Len(y) = 2 /\ y[1] = a /\ y[2] = b
    BY <1>2, <2>1
  <2>4. /\ x = [i \in 1..2 |-> x[i]] /\ y = [i \in 1..2 |-> y[i]]
        /\ \A i \in 1..2 : x[i] = y[i]
    BY <2>2, <2>3
  <2> QED
    BY <2>1, <2>4
<1> QED
  BY <1>1, <1>2, <1>4, <1>5

(* What a client has been sent after a send.                               *)
LEMMA SentFacts ==
  ASSUME SInv, NEW s \in Streams, stream[s].at = "sending"
  PROVE  /\ Sent(s) \in Seq(Statuses) /\ Sent(s) # <<>>
         /\ Sent(s)[Len(Sent(s))] = stream[s].read
         /\ \/ Sent(s) = <<StatusCreated>>
            \/ /\ Status(s) \in Settled
               /\ Sent(s) = <<Status(s)>> \/ Sent(s) = <<StatusCreated, Status(s)>>
<1>1. /\ CallOK(s) /\ Status(s) \in Statuses \cup {StatusAbsent}
  BY StreamFacts
<1> DEFINE c == StatusCreated  o == Status(s)  x == stream[s].sent
<1>2. /\ o \in Statuses /\ c \in Statuses /\ c \notin Settled
      /\ o = c \/ o \in Settled
      /\ c # StatusAbsent /\ o # StatusAbsent
      /\ stream[s].read = o \/ stream[s].read = c
  BY <1>1, StatusFacts DEF CallOK, Reads
<1>3. /\ x = <<>> \/ x = <<c>> \/ (o \in Settled /\ (x = <<o>> \/ x = <<c, o>>))
      /\ stream[s].read = c => x = <<>> \/ x = <<c>>
  BY <1>1 DEF CallOK, SentOK
<1>4. CASE x = <<>>
  <2>1. Sent(s) = <<stream[s].read>>
    BY <1>2, <1>4 DEF Sent, Last
  <2> QED
    BY <1>2, <2>1
<1>5. CASE x = <<c>>
  <2>1. Last(s) = c
    BY <1>5 DEF Last
  <2>2. CASE stream[s].read = c
    <3>1. Sent(s) = <<c>>
      BY <1>5, <2>1, <2>2 DEF Sent
    <3> QED
      BY <1>2, <2>2, <3>1
  <2>3. CASE stream[s].read # c
    <3>1. o \in Settled /\ stream[s].read = o
      BY <1>2, <2>3
    <3>2. Sent(s) = <<c, o>>
      BY <1>2, <1>5, <2>1, <2>3, <3>1, TupleFacts DEF Sent
    <3> QED
      BY <1>2, <3>1, <3>2, TupleFacts
  <2> QED
    BY <2>2, <2>3
<1>6. CASE o \in Settled /\ (x = <<o>> \/ x = <<c, o>>)
  <2>1. /\ x \in Seq(Statuses) /\ x # <<>> /\ x[Len(x)] = o /\ x # <<c>>
    <3>1. c \in Statuses /\ o \in Statuses /\ o # c
      BY <1>2, <1>6
    <3> HIDE DEF o, c, x
    <3>2. CASE x = <<o>>
      <4>1. /\ <<o>> \in Seq(Statuses) /\ Len(<<o>>) = 1 /\ <<o>>[1] = o /\ <<o>> # <<>>
            /\ <<c>>[1] = c
        BY <3>1, TupleFacts
      <4> QED
        BY <3>1, <3>2, <4>1
    <3>3. CASE x = <<c, o>>
      <4>1. /\ <<c, o>> \in Seq(Statuses) /\ Len(<<c, o>>) = 2 /\ <<c, o>>[2] = o
            /\ <<c, o>> # <<>> /\ <<c, o>> # <<c>>
        BY <3>1, TupleFacts
      <4> QED
        BY <3>3, <4>1
    <3> QED
      BY <1>6, <3>2, <3>3
  <2>2. Last(s) = o
    BY <2>1 DEF Last
  <2>3. stream[s].read = o
    BY <1>2, <1>3, <2>1
  <2>4. Sent(s) = x
    BY <2>2, <2>3 DEF Sent
  <2> QED
    BY <1>6, <2>1, <2>3, <2>4
<1> QED
  BY <1>3, <1>4, <1>5, <1>6

LEMMA SendKeepsSInv ==
  ASSUME SInv, IInv', UNCHANGED <<orders, outbox, log>>, NEW s \in Streams, SendStatus(s)
  PROVE  SInv'
<1>1. /\ stream \in [Streams -> Calls] /\ CallOK(s) /\ WakeOK(s) /\ Watched[s] \in Orders
      /\ wake \cup missed \subseteq {q \in Streams : Open(q)}
  BY StreamFacts
<1>2. stream[s].at = "sending" /\ Open(s) /\ Reads(s) /\ UNCHANGED feed
  BY DEF SendStatus, Open, Reads
<1>3. /\ Sent(s) \in Seq(Statuses) /\ Sent(s) # <<>>
      /\ Sent(s)[Len(Sent(s))] = stream[s].read
      /\ \/ Sent(s) = <<StatusCreated>>
         \/ /\ Status(s) \in Settled
            /\ Sent(s) = <<Status(s)>> \/ Sent(s) = <<StatusCreated, Status(s)>>
  BY <1>2, SentFacts
<1>4. Status(s)' = Status(s)
  BY DEF Status
<1>5. ASSUME NEW at \in Places,
             stream' = [stream EXCEPT ![s].at = at, ![s].sent = Sent(s)]
      PROVE  /\ stream' \in [Streams -> Calls]
             /\ \A q \in Streams \ {s} : stream'[q] = stream[q]
             /\ stream'[s].at = at /\ stream'[s].sent = Sent(s)
             /\ stream'[s].proc = stream[s].proc /\ stream'[s].read = stream[s].read
  BY <1>1, <1>3, <1>5 DEF Calls
<1>6. ASSUME stream'[s].sent = Sent(s)
      PROVE  SentOK(s)' /\ Last(s)' = stream[s].read
  BY <1>3, <1>4, <1>6 DEF SentOK, Last
<1>7. CASE /\ stream' = [stream EXCEPT ![s].at = "returned", ![s].sent = Sent(s)]
           /\ Return(s)
  <2>1. /\ stream' \in [Streams -> Calls]
        /\ \A q \in Streams \ {s} : stream'[q] = stream[q]
        /\ stream'[s].at = "returned" /\ stream'[s].sent = Sent(s)
    BY <1>5, <1>7 DEF Places
  <2>2. CallOK(s)' /\ WakeOK(s)'
    BY <1>6, <2>1 DEF CallOK, WakeOK, Open, Reads
  <2> QED
    BY <1>2, <1>7, <2>1, <2>2, ReturnLeaves, OneStream
<1>8. CASE /\ stream' = [stream EXCEPT ![s].at = "waiting", ![s].sent = Sent(s)]
           /\ UNCHANGED <<subs, wake, missed>>
  <2>1. /\ stream' \in [Streams -> Calls]
        /\ \A q \in Streams \ {s} : stream'[q] = stream[q]
        /\ stream'[s].at = "waiting" /\ stream'[s].sent = Sent(s)
        /\ stream'[s].proc = stream[s].proc /\ stream'[s].read = stream[s].read
    BY <1>5, <1>8 DEF Places
  <2>2. Open(s)' /\ subs' = Hubs'
    BY <1>2, <1>8, <2>1, HubStays DEF Open
  <2>3. CallOK(s)'
    BY <1>1, <1>2, <1>4, <1>6, <2>1 DEF CallOK, Open, Reads
  <2>4. WakeOK(s)'
    <3>1. stream[s].proc \in OrderProcs
      BY <1>1, <1>2 DEF CallOK
    <3> QED
      BY <1>1, <1>2, <1>4, <1>8, <2>1, <3>1, OnItsWayFrame DEF WakeOK
  <2> QED
    BY <1>1, <1>2, <1>8, <2>1, <2>2, <2>3, <2>4, OneStream
<1> QED
  BY <1>7, <1>8 DEF SendStatus

-----------------------------------------------------------------------------
(* The status consumers.                                                   *)
LEMMA OneFeed ==
  ASSUME SInv, IInv', UNCHANGED <<orders, outbox, log, stream, subs>>,
         NEW p \in OrderProcs, feed' \in [OrderProcs -> Feeds], FeedOK(p)',
         \A q \in OrderProcs \ {p} : feed'[q] = feed[q],
         wake \subseteq wake', missed \subseteq missed',
         wake' \cup missed' \subseteq {s \in Streams : Open(s)},
         \A s \in subs[p] :
           (Reads(s) /\ OnItsWay(Watched[s], p)) =>
             s \in wake' \cup missed' \/ OnItsWay(Watched[s], p)'
  PROVE  SInv'
<1>1. StreamTypeOK'
  <2>1. {s \in Streams : Open(s)}' = {s \in Streams : Open(s)} /\ Hubs' = Hubs
    BY DEF Open, Hubs
  <2> QED
    BY <2>1, StreamFacts DEF StreamTypeOK, Calls, Feeds, Hubs
<1>2. \A q \in OrderProcs : FeedOK(q)'
  BY StreamFacts DEF FeedOK, Announcements
<1>3. ASSUME NEW s \in Streams
      PROVE  CallOK(s)' /\ WakeOK(s)'
  <2>1. CallOK(s) /\ WakeOK(s) /\ Watched[s] \in Orders
    BY StreamFacts
  <2>2. CallOK(s)'
    BY <2>1 DEF CallOK, Open, Reads, Status, SentOK, Last
  <2>3. ASSUME Reads(s)', stream'[s].read # Status(s)', s \notin wake' \cup missed'
        PROVE  OnItsWay(Watched[s], stream[s].proc)'
    <3>1. /\ Reads(s) /\ Open(s) /\ stream[s].proc \in OrderProcs
          /\ OnItsWay(Watched[s], stream[s].proc)
      BY <2>1, <2>3 DEF WakeOK, CallOK, Reads, Status, Open
    <3>2. CASE stream[s].proc = p
      <4>1. s \in subs[p]
        BY <3>1, <3>2, StreamFacts DEF Hubs
      <4> QED
        BY <2>3, <3>1, <3>2, <4>1
    <3>3. CASE stream[s].proc # p
      BY <2>1, <3>1, <3>3, OnItsWayFrame
    <3> QED
      BY <3>2, <3>3
  <2> QED
    BY <2>2, <2>3 DEF WakeOK
<1> QED
  BY <1>1, <1>2, <1>3 DEF SInv

(* A row on its way to p: in no topic, or with a record that p is still to *)
(* hand to its hub.                                                        *)
Ahead(p, i) ==
  feed[p].next < i \/ (feed[p].batch.cur < i /\ i <= feed[p].batch.end)

LEMMA WayFacts ==
  ASSUME SInv, NEW o \in Orders, NEW p \in OrderProcs, UNCHANGED <<outbox, log>>,
         OnItsWay(o, p), ~ OnItsWay(o, p)'
  PROVE  \E i \in DOMAIN Announcements :
           /\ outbox[Announcements[i]].order = o
           /\ Ahead(p, i) /\ ~ Ahead(p, i)'
<1>1. PICK r \in Rows :
        /\ outbox[r].order = o /\ outbox[r].type = EventOrderStatusChanged
        /\ \/ ~InLog(r)
           \/ \E i \in DOMAIN Announcements : Announcements[i] = r /\ Ahead(p, i)
  BY DEF OnItsWay, Ahead
<1>2. InLog(r)
  BY <1>1 DEF OnItsWay, InLog, Rows
<1>3. PICK i \in DOMAIN Announcements : Announcements[i] = r /\ Ahead(p, i)
  BY <1>1, <1>2
<1>4. ~ Ahead(p, i)'
  BY <1>1, <1>3 DEF OnItsWay, Ahead, Announcements, Rows
<1> QED
  BY <1>1, <1>3, <1>4

LEMMA JoinKeepsSInv ==
  ASSUME SInv, IInv', UNCHANGED <<orders, outbox, log>>, NEW p \in OrderProcs, FeedJoin(p)
  PROVE  SInv'
<1>1. PICK start : start = IF feed[p].offset = NoOffset THEN Len(Announcements)
                                                       ELSE feed[p].offset
  OBVIOUS
<1>2. /\ feed' = [feed EXCEPT ![p].joined = TRUE, ![p].next = start]
      /\ missed' = missed \cup
           {s \in UNION {Audience(p, i) : i \in feed[p].next + 1 .. start} : Reads(s)}
      /\ UNCHANGED <<stream, subs, wake>>
  BY <1>1 DEF FeedJoin, Reads
<1>3. /\ feed \in [OrderProcs -> Feeds] /\ FeedOK(p) /\ Len(Announcements) \in Nat
      /\ DOMAIN Announcements = 1..Len(Announcements)
      /\ subs = Hubs /\ wake \cup missed \subseteq {s \in Streams : Open(s)}
      /\ subs[p] = {s \in Streams : Open(s) /\ stream[s].proc = p}
      /\ \A s \in Streams : Watched[s] \in Orders
  BY StreamFacts DEF Hubs
<1>4. start \in Nat /\ start <= Len(Announcements)
  BY <1>1, <1>3 DEF FeedOK, Feeds
<1>5. /\ feed' \in [OrderProcs -> Feeds]
      /\ \A q \in OrderProcs \ {p} : feed'[q] = feed[q]
      /\ feed'[p].next = start /\ feed'[p].batch = feed[p].batch
      /\ feed'[p].offset = feed[p].offset
  BY <1>2, <1>3, <1>4 DEF Feeds
<1>6. FeedOK(p)'
  BY <1>3, <1>4, <1>5 DEF FeedOK, Announcements
<1>7. ASSUME NEW s \in subs[p], Reads(s), OnItsWay(Watched[s], p), ~ OnItsWay(Watched[s], p)'
      PROVE  s \in missed'
  <2>1. PICK i \in DOMAIN Announcements :
          /\ outbox[Announcements[i]].order = Watched[s]
          /\ Ahead(p, i) /\ ~ Ahead(p, i)'
    BY <1>3, <1>7, WayFacts
  <2>2. i \in feed[p].next + 1 .. start
    BY <1>3, <1>4, <1>5, <2>1 DEF Ahead, Feeds
  <2>3. s \in Audience(p, i)
    BY <2>1 DEF Audience
  <2> QED
    BY <1>2, <1>7, <2>2, <2>3
<1>8. wake' \cup missed' \subseteq {s \in Streams : Open(s)}
  BY <1>2, <1>3 DEF Reads, Open, Audience
<1> QED
  BY <1>2, <1>5, <1>6, <1>7, <1>8, OneFeed

LEMMA PublishKeepsSInv ==
  ASSUME SInv, IInv', UNCHANGED <<orders, outbox, log>>, NEW p \in OrderProcs,
         PublishStatusUpdate(p)
  PROVE  SInv'
<1>1. PICK n : n = feed[p].batch.cur + 1
  OBVIOUS
<1>2. /\ feed[p].batch.cur < feed[p].batch.end
      /\ wake' = wake \cup Audience(p, n)
      /\ feed' = [feed EXCEPT ![p].batch.cur = n]
      /\ UNCHANGED <<stream, subs, missed>>
  BY <1>1 DEF PublishStatusUpdate, Publish
<1>3. /\ feed \in [OrderProcs -> Feeds] /\ FeedOK(p) /\ Len(Announcements) \in Nat
      /\ DOMAIN Announcements = 1..Len(Announcements)
      /\ subs = Hubs /\ wake \cup missed \subseteq {s \in Streams : Open(s)}
      /\ subs[p] = {s \in Streams : Open(s) /\ stream[s].proc = p}
      /\ \A s \in Streams : Watched[s] \in Orders
  BY StreamFacts DEF Hubs
<1>4. /\ feed' \in [OrderProcs -> Feeds]
      /\ \A q \in OrderProcs \ {p} : feed'[q] = feed[q]
      /\ feed'[p].next = feed[p].next /\ feed'[p].offset = feed[p].offset
      /\ feed'[p].batch.cur = n /\ feed'[p].batch.end = feed[p].batch.end
      /\ n \in Nat /\ feed[p].batch.cur \in Nat /\ feed[p].batch.end \in Nat
  <2>1. feed[p] \in Feeds /\ feed[p].batch \in Ranges
    BY <1>3 DEF Feeds
  <2>2. n \in Nat /\ feed[p].batch.cur \in Nat /\ feed[p].batch.end \in Nat
    BY <1>1, <2>1 DEF Ranges
  <2>3. PICK b : b = [feed[p].batch EXCEPT !.cur = n]
    OBVIOUS
  <2>4. b \in Ranges /\ b.cur = n /\ b.end = feed[p].batch.end
    BY <2>1, <2>2, <2>3 DEF Ranges
  <2>5. feed' = [feed EXCEPT ![p] = [feed[p] EXCEPT !.batch = b]]
    BY <1>2, <1>3, <2>3
  <2>6. PICK f : f = [feed[p] EXCEPT !.batch = b]
    OBVIOUS
  <2>7. /\ f \in Feeds /\ f.next = feed[p].next /\ f.offset = feed[p].offset
        /\ f.batch = b
    BY <2>1, <2>4, <2>6 DEF Feeds
  <2>8. feed' = [feed EXCEPT ![p] = f]
    BY <2>5, <2>6
  <2>9. feed' \in [OrderProcs -> Feeds] /\ feed'[p] = f
        /\ \A q \in OrderProcs \ {p} : feed'[q] = feed[q]
    BY <1>3, <2>7, <2>8
  <2> QED
    BY <2>2, <2>4, <2>7, <2>9
<1>5. FeedOK(p)'
  BY <1>1, <1>2, <1>3, <1>4 DEF FeedOK, Announcements
<1>6. ASSUME NEW s \in subs[p], Reads(s), OnItsWay(Watched[s], p), ~ OnItsWay(Watched[s], p)'
      PROVE  s \in wake'
  <2>1. PICK i \in DOMAIN Announcements :
          /\ outbox[Announcements[i]].order = Watched[s]
          /\ Ahead(p, i) /\ ~ Ahead(p, i)'
    BY <1>3, <1>6, WayFacts
  <2>2. i = n
    BY <1>1, <1>3, <1>4, <2>1 DEF Ahead
  <2> QED
    BY <1>2, <2>1, <2>2 DEF Audience
<1>7. wake' \cup missed' \subseteq {s \in Streams : Open(s)}
  BY <1>2, <1>3 DEF Audience
<1> QED
  BY <1>2, <1>4, <1>5, <1>6, <1>7, OneFeed

(* The rest of the loop: nothing on its way is put behind it.              *)
LEMMA FeedKeepsSInv ==
  ASSUME SInv, IInv', UNCHANGED <<orders, outbox, log>>, NEW p \in OrderProcs,
         FeedLost(p) \/ FeedPoll(p) \/ FeedCommit(p) \/ FeedCommitFails(p)
  PROVE  SInv'
<1>1. /\ feed \in [OrderProcs -> Feeds] /\ FeedOK(p) /\ Len(Announcements) \in Nat
      /\ DOMAIN Announcements = 1..Len(Announcements)
      /\ wake \cup missed \subseteq {s \in Streams : Open(s)}
      /\ subs[p] = {s \in Streams : Open(s) /\ stream[s].proc = p}
      /\ \A s \in Streams : Watched[s] \in Orders
  BY StreamFacts DEF Hubs
<1>2. UNCHANGED <<stream, subs, wake, missed>>
  BY DEF FeedLost, FeedPoll, FeedCommit, FeedCommitFails
<1>3. /\ feed[p].next \in Nat /\ feed[p].batch \in Ranges /\ feed[p] \in Feeds
      /\ feed[p].batch.cur \in Nat /\ feed[p].batch.end \in Nat
  BY <1>1 DEF Feeds, Ranges
<1>4. /\ feed' \in [OrderProcs -> Feeds]
      /\ \A q \in OrderProcs \ {p} : feed'[q] = feed[q]
      /\ FeedOK(p)'
      /\ \A i \in DOMAIN Announcements : Ahead(p, i) => Ahead(p, i)'
  <2>1. CASE FeedLost(p)
    <3>1. feed' = [feed EXCEPT ![p].joined = FALSE]
      BY <2>1 DEF FeedLost
    <3>2. /\ feed' \in [OrderProcs -> Feeds]
          /\ \A q \in OrderProcs \ {p} : feed'[q] = feed[q]
          /\ feed'[p].next = feed[p].next /\ feed'[p].batch = feed[p].batch
          /\ feed'[p].offset = feed[p].offset
      BY <1>1, <3>1 DEF Feeds
    <3> QED
      BY <1>1, <3>2 DEF FeedOK, Announcements, Ahead
  <2>2. CASE FeedPoll(p)
    <3>1. PICK end \in feed[p].next + 1 .. Len(Announcements) :
            feed' = [feed EXCEPT ![p].next = end,
                       ![p].batch = [from |-> feed[p].next, cur |-> feed[p].next,
                                     end |-> end]]
      BY <2>2 DEF FeedPoll
    <3> DEFINE range == [from |-> feed[p].next, cur |-> feed[p].next, end |-> end]
    <3>2. /\ range \in Ranges /\ end \in Nat
          /\ range.cur = feed[p].next /\ range.end = end
      BY <1>1, <1>3 DEF Ranges
    <3>3. feed' = [feed EXCEPT ![p].next = end, ![p].batch = range]
      BY <3>1
    <3> HIDE DEF range
    <3>4. /\ feed' \in [OrderProcs -> Feeds]
          /\ \A q \in OrderProcs \ {p} : feed'[q] = feed[q]
          /\ feed'[p].next = end /\ feed'[p].batch = range
          /\ feed'[p].offset = feed[p].offset
      BY <1>1, <3>2, <3>3 DEF Feeds
    <3>5. feed[p].batch.cur = 0 /\ feed[p].batch.end = 0
      BY <2>2 DEF FeedPoll, NoRange
    <3>6. FeedOK(p)'
      BY <1>1, <1>3, <3>2, <3>4 DEF FeedOK, Announcements
    <3>7. ASSUME NEW i \in DOMAIN Announcements, Ahead(p, i)
          PROVE  Ahead(p, i)'
      BY <1>1, <1>3, <3>2, <3>4, <3>5, <3>7 DEF Ahead
    <3> QED
      BY <3>4, <3>6, <3>7
  <2>3. CASE FeedCommit(p) \/ FeedCommitFails(p)
    <3>1. /\ feed[p].batch.cur = feed[p].batch.end
          /\ \E n \in {feed[p].offset, feed[p].batch.cur} :
               feed' = [feed EXCEPT ![p].offset = n, ![p].batch = NoRange]
      <4>1. CASE FeedCommit(p)
        BY <4>1 DEF FeedCommit, FeedBatchDone
      <4>2. CASE FeedCommitFails(p)
        <5>1. feed' = [feed EXCEPT ![p].batch = NoRange]
          BY <4>2 DEF FeedCommitFails
        <5>2. feed' = [feed EXCEPT ![p].offset = feed[p].offset, ![p].batch = NoRange]
          BY <1>1, <5>1 DEF Feeds
        <5> QED
          BY <4>2, <5>2 DEF FeedCommitFails, FeedBatchDone
      <4> QED
        BY <2>3, <4>1, <4>2
    <3>2. PICK n \in {feed[p].offset, feed[p].batch.cur} :
            feed' = [feed EXCEPT ![p].offset = n, ![p].batch = NoRange]
      BY <3>1
    <3>3. /\ n \in Nat \cup {NoOffset} /\ NoRange \in Ranges
          /\ n # NoOffset => n <= Len(Announcements)
      BY <1>1, <1>3, <3>1 DEF NoRange, Ranges, Feeds, FeedOK
    <3>4. /\ feed' \in [OrderProcs -> Feeds]
          /\ \A q \in OrderProcs \ {p} : feed'[q] = feed[q]
          /\ feed'[p].next = feed[p].next /\ feed'[p].batch = NoRange
          /\ feed'[p].offset = n
      BY <1>1, <3>2, <3>3 DEF Feeds
    <3>5. FeedOK(p)'
      BY <1>1, <3>3, <3>4 DEF FeedOK, Announcements, NoRange
    <3>6. ASSUME NEW i \in DOMAIN Announcements, Ahead(p, i)
          PROVE  Ahead(p, i)'
      BY <1>1, <1>3, <3>1, <3>4, <3>6 DEF Ahead
    <3> QED
      BY <3>4, <3>5, <3>6
  <2> QED
    BY <2>1, <2>2, <2>3
<1>5. ASSUME NEW s \in subs[p], OnItsWay(Watched[s], p), ~ OnItsWay(Watched[s], p)'
      PROVE  FALSE
  BY <1>1, <1>4, <1>5, WayFacts
<1> QED
  BY <1>1, <1>2, <1>4, <1>5, OneFeed

-----------------------------------------------------------------------------
LEMMA InitSInv == Init /\ StreamInit => SInv
<1> SUFFICES ASSUME Init, StreamInit PROVE SInv
  OBVIOUS
<1>1. IInv
  BY InitOK
<1>2. /\ stream = [s \in Streams |-> NoStream] /\ NoStream \in Calls
      /\ feed = [p \in OrderProcs |-> NoFeed] /\ NoFeed \in Feeds
      /\ subs = [p \in OrderProcs |-> {}] /\ wake = {} /\ missed = {}
  BY DEF StreamInit, NoStream, NoFeed, Calls, Feeds, Places, NoRange, Ranges
<1>3. \A s \in Streams : stream[s].at = "unopened" /\ stream[s].sent = <<>>
  BY <1>2 DEF NoStream
<1>4. \A s \in Streams : CallOK(s) /\ WakeOK(s) /\ ~ Open(s)
  BY <1>3 DEF CallOK, WakeOK, Open, Reads, SentOK
<1>5. subs = Hubs
  BY <1>2, <1>4 DEF Hubs
<1>6. StreamTypeOK
  BY <1>2, <1>5 DEF StreamTypeOK, Calls, Feeds, Hubs
<1>7. Len(Announcements) \in Nat
  BY <1>1 DEF IInv, TypeOK, Announcements, Topics
<1>8. \A p \in OrderProcs : FeedOK(p)
  BY <1>2, <1>7 DEF FeedOK, NoFeed, NoRange
<1> QED
  BY <1>1, <1>4, <1>6, <1>8 DEF SInv

LEMMA StreamStep == SInv /\ [StreamNext]_streamVars => SInv'
<1> SUFFICES ASSUME SInv, [StreamNext]_streamVars PROVE SInv'
  OBVIOUS
<1>1. IInv
  BY DEF SInv
<1>2. ASSUME [Next]_vars, UNCHANGED streaming
      PROVE  SInv'
  BY <1>1, <1>2, StepOK, SagaKeepsSInv
<1>3. CASE SagaRuns
  <2>1. Next /\ UNCHANGED streaming
    BY <1>3 DEF SagaRuns, Next, Environment
  <2> QED
    BY <1>2, <2>1
<1>4. ASSUME NEW p \in Procs, ProcessDies(p)
      PROVE  SInv'
  <2>1. Next /\ Crash(p)
    BY <1>4 DEF ProcessDies, Next, Environment
  <2>2. IInv'
    BY <1>1, <2>1, StepOK
  <2>3. CASE p \in OrderProcs
    BY <1>4, <2>1, <2>2, <2>3, CrashKeepsSInv DEF ProcessDies
  <2>4. CASE p \notin OrderProcs
    BY <1>2, <1>4, <2>1, <2>4 DEF ProcessDies
  <2> QED
    BY <2>3, <2>4
<1>5. CASE StreamsRun
  <2>1. ASSUME faults' = faults \/ Fault
        PROVE  IInv' /\ UNCHANGED <<orders, outbox, log>>
    BY <1>1, <1>5, <2>1, SagaIsLeft DEF StreamsRun
  <2>2. ASSUME NEW p \in OrderProcs, FeedJoin(p)
        PROVE  SInv'
    BY <2>1, <2>2, JoinKeepsSInv DEF FeedJoin
  <2>3. ASSUME NEW p \in OrderProcs, PublishStatusUpdate(p)
        PROVE  SInv'
    BY <2>1, <2>3, PublishKeepsSInv DEF PublishStatusUpdate
  <2>4. ASSUME NEW p \in OrderProcs,
               FeedLost(p) \/ FeedPoll(p) \/ FeedCommit(p) \/ FeedCommitFails(p)
        PROVE  SInv'
    <3>1. faults' = faults \/ Fault
      BY <2>4 DEF FeedLost, FeedPoll, FeedCommit, FeedCommitFails
    <3> QED
      BY <2>1, <2>4, <3>1, FeedKeepsSInv
  <2>5. ASSUME NEW s \in Streams, NEW p \in OrderProcs, Subscribe(s, p)
        PROVE  SInv'
    BY <2>1, <2>5, SubscribeKeepsSInv DEF Subscribe
  <2>6. ASSUME NEW s \in Streams, ReadStatus(s)
        PROVE  SInv'
    BY <2>1, <2>6, ReadKeepsSInv DEF ReadStatus
  <2>7. ASSUME NEW s \in Streams, SendStatus(s)
        PROVE  SInv'
    BY <2>1, <2>7, SendKeepsSInv DEF SendStatus
  <2>8. ASSUME NEW s \in Streams, ReceiveUpdate(s)
        PROVE  SInv'
    BY <2>1, <2>8, ReceiveKeepsSInv DEF ReceiveUpdate
  <2>9. ASSUME NEW s \in Streams, StreamEnds(s)
        PROVE  SInv'
    BY <2>1, <2>9, EndKeepsSInv DEF StreamEnds
  <2> QED
    BY <1>5, <2>2, <2>3, <2>4, <2>5, <2>6, <2>7, <2>8, <2>9
    DEF StreamsRun, FeedStep, HandlerStep
<1>6. CASE UNCHANGED streamVars
  BY <1>2, <1>6 DEF streamVars
<1> QED
  BY <1>3, <1>4, <1>5, <1>6 DEF StreamNext

(* SInv holds in every state the services, their hubs and their streams    *)
(* can reach.                                                              *)
THEOREM StreamInvariance == StreamSpec => []SInv
  BY InitSInv, StreamStep, PTL DEF StreamSpec

(* The streams, the hubs and the status consumers keep their shapes, and a *)
(* hub's subscribers are the calls of its copy that have not returned.     *)
THEOREM StreamTypeCorrectness == StreamSpec => []StreamTypeOK
<1>1. SInv => StreamTypeOK
  BY DEF SInv
<1> QED
  BY <1>1, StreamInvariance, PTL

(* For any number of copies, streams and faults: no announcement repeated  *)
(* by Kafka, and no race of a read with an update, makes a stream repeat a *)
(* status or send one that the order has left.                             *)
THEOREM StatusesAreOrdered == StreamSpec => []StatusesSentOnceInOrder
<1>1. SInv => StatusesSentOnceInOrder
  <2> SUFFICES ASSUME SInv, NEW s \in Streams
               PROVE  /\ \A i, j \in DOMAIN stream[s].sent :
                           stream[s].sent[i] = stream[s].sent[j] => i = j
                      /\ \A i \in DOMAIN stream[s].sent :
                           stream[s].sent[i] \in Settled => i = Len(stream[s].sent)
    BY DEF StatusesSentOnceInOrder
  <2>1. PICK x, c, o : x = stream[s].sent /\ c = StatusCreated /\ o = Status(s)
    OBVIOUS
  <2>2. c \notin Settled /\ (x = <<>> \/ x = <<c>> \/ (o \in Settled /\ (x = <<o>> \/ x = <<c, o>>)))
    BY <2>1, StreamFacts, StatusFacts DEF CallOK, SentOK
  <2>3. CASE x = <<>>
    BY <2>1, <2>3
  <2>4. ASSUME NEW a, x = <<a>>
        PROVE  DOMAIN x = {1} /\ Len(x) = 1
    BY <2>4
  <2>5. CASE o \in Settled /\ x = <<c, o>>
    <3>1. DOMAIN x = {1, 2} /\ Len(x) = 2 /\ x[1] = c /\ x[2] = o
      BY <2>5
    <3> QED
      BY <2>1, <2>2, <2>5, <3>1
  <2> QED
    BY <2>1, <2>2, <2>3, <2>4, <2>5
<1> QED
  BY <1>1, StreamInvariance, PTL

(* No stream sleeps on an outdated status with nothing on its way to wake  *)
(* it, whatever the order in which it subscribed, the status was written   *)
(* and announced, and the channel was filled and drained.                  *)
THEOREM NoWakeupIsLost == StreamSpec => []NoLostWakeup
<1>1. SInv => NoLostWakeup
  <2> SUFFICES ASSUME SInv, NEW s \in Streams, stream[s].at = "waiting",
                      Last(s) # orders[Watched[s]]
               PROVE  s \in wake \cup missed \/ OnItsWay(Watched[s], stream[s].proc)
    BY DEF NoLostWakeup
  <2>1. CallOK(s) /\ WakeOK(s)
    BY StreamFacts
  <2> QED
    BY <2>1 DEF CallOK, WakeOK, Reads, Status
<1> QED
  BY <1>1, StreamInvariance, PTL
=============================================================================

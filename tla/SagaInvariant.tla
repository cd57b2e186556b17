--------------------------- MODULE SagaInvariant ----------------------------
(***************************************************************************)
(* The inductive invariant behind the safety properties of SagaSystem.     *)
(* An order's rows form a chain                                            *)
(*    OrderCreated -> ReserveStock -> reply -> OrderStatusChanged          *)
(* and each link exists only after the group that reads the one before it  *)
(* has that one in processed_events.                                       *)
(***************************************************************************)
EXTENDS SagaSystem

RowTopic(type) ==
  CASE type = EventOrderCreated       -> TopicOrderEvents
    [] type = CommandReserveStock     -> TopicSagaCommands
    [] type = EventOrderStatusChanged -> TopicOrderStatus
    [] OTHER                          -> TopicSagaReplies

(* A row is sent to its type's topic, and a topic holds rows sent to it.   *)
RowsInTheirTopics ==
  /\ \A r \in Rows : outbox[r].topic = RowTopic(outbox[r].type)
  /\ \A t \in Topics : \A i \in DOMAIN log[t] : outbox[log[t][i]].topic = t

(* A batch is a stretch of the topic's log, of a topic of the group.       *)
BatchesAreLog ==
  /\ \A t \in ConsumedTopics :
       owner[t] # NoProc => t \in TopicsOf(GroupOf(owner[t]))
  /\ \A p \in Procs, t \in ConsumedTopics :
       /\ fetch[p][t].from <= fetch[p][t].cur
       /\ fetch[p][t].cur <= fetch[p][t].end
       /\ fetch[p][t].end <= Len(log[t])
       /\ fetch[p][t].end # 0 => t \in TopicsOf(GroupOf(p))

(* An open handler transaction is about the record its loop is at, and has *)
(* that row, not processed yet, to itself.                                 *)
OpenTx(p) ==
  LET r == tx[p].key
      t == outbox[r].topic
  IN
    /\ r \in Rows
    /\ t \in TopicsOf(GroupOf(p))
    /\ fetch[p][t].cur < fetch[p][t].end /\ Current(p, t) = r
    /\ <<GroupOf(p), r>> \notin processed
    /\ \A q \in Procs \ {p} : GroupOf(q) = GroupOf(p) => tx[q].key # r
    /\ p \in MarketProcs => tx[p].verdict \in Reserve(outbox[r].data)

TxsExclusive == \A p \in Procs : tx[p] # NoTx => OpenTx(p)

(* The events a transaction that emits this type has handled, and the      *)
(* group that handles an event.                                            *)
Causes(type) ==
  CASE type = EventOrderCreated   -> {}
    [] type = CommandReserveStock -> {EventOrderCreated}
    [] type \in Replies           -> {CommandReserveStock}
    [] OTHER                      -> Replies

Reader(type) ==
  IF type = CommandReserveStock THEN MarketReserve ELSE Orchestrator

CausedBy(s, order, type) ==
  /\ outbox[s].order = order
  /\ outbox[s].type \in Causes(type)
  /\ <<Reader(outbox[s].type), s>> \in processed

ChainOfRows ==
  \A r \in Rows :
    /\ orders[outbox[r].order] # StatusAbsent
    /\ outbox[r].type # EventOrderCreated =>
         \E s \in Rows : CausedBy(s, outbox[r].order, outbox[r].type)

VerdictOf(type) ==
  IF type = EventStockReserved THEN ReservationReserved ELSE ReservationRejected

(* A reservation and the reply announcing it exist together and agree, and *)
(* a settled order has processed that reply.                               *)
RepliesAgree ==
  /\ \A r \in Rows : outbox[r].type \in Replies =>
       reservations[outbox[r].order] = VerdictOf(outbox[r].type)
  /\ \A o \in Orders : reservations[o] # ReservationNone =>
       \E r \in Rows : outbox[r].order = o /\ outbox[r].type \in Replies
  /\ \A o \in Orders : orders[o] \in Settled =>
       \E r \in Rows :
         /\ outbox[r].order = o /\ outbox[r].type \in Replies
         /\ <<Orchestrator, r>> \in processed
         /\ orders[o] = StatusFor(VerdictOf(outbox[r].type))

(* All messages of an order name one market; only a market that is not     *)
(* shut reserves.                                                          *)
MarketsKept ==
  /\ \A r, s \in Rows :
       (/\ outbox[r].order = outbox[s].order
        /\ outbox[r].type # EventOrderStatusChanged
        /\ outbox[s].type # EventOrderStatusChanged)
         => outbox[r].data = outbox[s].data
  /\ \A r \in Rows :
       outbox[r].type = EventStockReserved => outbox[r].data \notin ShutMarkets

(* The other way round: an order has its first row, and a row that was     *)
(* processed has the next one, or has settled its order.                   *)
HasRow(o, types) ==
  \E s \in Rows : outbox[s].order = o /\ outbox[s].type \in types

WentOn(r) ==
  LET o == outbox[r].order
  IN  /\ outbox[r].type = EventOrderCreated => HasRow(o, {CommandReserveStock})
      /\ outbox[r].type = CommandReserveStock => HasRow(o, Replies)
      /\ outbox[r].type \in Replies => orders[o] \in Settled

ChainGoesOn ==
  /\ \A o \in Orders : orders[o] # StatusAbsent => HasRow(o, {EventOrderCreated})
  /\ \A r \in Rows : <<Reader(outbox[r].type), r>> \in processed => WentOn(r)

IInv ==
  /\ TypeOK
  /\ RowsInTheirTopics
  /\ BatchesAreLog
  /\ TxsExclusive
  /\ EachStepOnce
  /\ ChainOfRows
  /\ RepliesAgree
  /\ MarketsKept
=============================================================================

----------------------------- MODULE SagaTopics -----------------------------
(***************************************************************************)
(* The names the order saga is built on: event types, Kafka topics, the    *)
(* consumer groups that read them, order statuses and reservation          *)
(* verdicts (shared/saga_topics, the topicResolver closures of the two     *)
(* App.New functions, and the two domain packages).                        *)
(***************************************************************************)

EventOrderCreated       == "OrderCreated"
CommandReserveStock     == "ReserveStock"
EventStockReserved      == "StockReserved"
EventStockRejected      == "StockRejected"
EventOrderStatusChanged == "OrderStatusChanged"

Replies    == {EventStockReserved, EventStockRejected}
EventTypes == {EventOrderCreated, CommandReserveStock, EventOrderStatusChanged}
                \cup Replies

TopicOrderEvents  == "order.events"
TopicSagaCommands == "order.saga.commands"
TopicSagaReplies  == "order.saga.replies"
TopicOrderStatus  == "order.status"

Topics == {TopicOrderEvents, TopicSagaCommands, TopicSagaReplies,
           TopicOrderStatus}

-----------------------------------------------------------------------------
(* Where the outbox writer of each service sends an event.  Every event of *)
(* the saga has aggregation type "order", so the default of both resolvers *)
(* is the topic "order.events".                                            *)

OrderTopicResolver(type) ==
  CASE type = EventOrderCreated       -> TopicOrderEvents
    [] type = CommandReserveStock     -> TopicSagaCommands
    [] type = EventOrderStatusChanged -> TopicOrderStatus
    [] OTHER                          -> TopicOrderEvents

MarketTopicResolver(type) ==
  IF type \in Replies THEN TopicSagaReplies ELSE TopicOrderEvents

-----------------------------------------------------------------------------
(* A consumer group is named like the idempotency guard of its handler.    *)

Orchestrator  == "order-orchestrator"
MarketReserve == "market-reserve"
Groups        == {Orchestrator, MarketReserve}

(* The topics a group reads.  The per-process status-stream group is not   *)
(* one of the saga's groups.                                               *)
TopicsOf(g) ==
  IF g = Orchestrator THEN {TopicOrderEvents, TopicSagaReplies}
                      ELSE {TopicSagaCommands}

ConsumedTopics == {TopicOrderEvents, TopicSagaCommands, TopicSagaReplies}

-----------------------------------------------------------------------------
(* ORDER_IN_PROCESS_OF_DELIVERY and ORDER_HAS_BEEN_DELIVERED are declared  *)
(* in the code, but no statement of it writes them.                        *)

StatusAbsent   == "absent"             \* no row in the orders table
StatusCreated  == "ORDER_CREATED"
StatusReserved == "ORDER_RESERVED"
StatusRejected == "ORDER_REJECTED"

Settled  == {StatusReserved, StatusRejected}
Statuses == {StatusCreated} \cup Settled

ReservationNone     == "none"          \* no row in the reservations table
ReservationReserved == "RESERVED"
ReservationRejected == "REJECTED"

Verdicts == {ReservationReserved, ReservationRejected}

(* The status an order with a given verdict ends in.                       *)
StatusFor(verdict) ==
  IF verdict = ReservationReserved THEN StatusReserved ELSE StatusRejected
=============================================================================

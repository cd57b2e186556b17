---------------------------- MODULE SagaPayloads ----------------------------
(***************************************************************************)
(* What the handlers of the saga do with the payload of an event: they     *)
(* validate it, skip it for good when it breaks a rule, and build the next *)
(* event from it.  How events are stored, relayed and delivered is the     *)
(* subject of SagaSystem; here each event is handled once.                 *)
(***************************************************************************)
EXTENDS OrderApi

CONSTANT
  Markets    \* table markets: [market_id, market_name, goods_id, accessibility]

ASSUME MarketsAssumption ==
  Markets \subseteq [market_id : Uuids, market_name : Titles, goods_id : Uuids,
                     accessibility : BOOLEAN]

VARIABLE
  skipped    \* events whose payload was taken for poison

(* The handler returns nil for a payload with violations: the record is    *)
(* done with, and nothing follows from it.                                 *)
Handles(e, violations, following) ==
  IF violations = {}
  THEN events' = (events \ {e}) \cup {following} /\ skipped' = skipped
  ELSE events' = events \ {e} /\ skipped' = skipped \cup {e}

(* A bug in ReserveStockFor: the amount is forgotten.                      *)
ReserveStockForMutant(created) ==
  [order_id |-> created.order_id, user_id |-> created.user_id,
   market_id |-> created.market_id, amount |-> ""]

ReserveStockFor(created) ==
  [order_id |-> created.order_id, user_id |-> created.user_id,
   market_id |-> created.market_id, amount |-> created.amount]

HandleOrderCreated(e) ==
  /\ e \in events /\ e.type = "OrderCreated"
  /\ Handles(e, OrderCreatedViolations(e.payload),
             Event("ReserveStock", ReserveStockFor(e.payload)))
  /\ UNCHANGED <<call, orders>>

(* reserve: whether the market is there and accessible, and the reason.    *)
Reason(id) ==
  IF \A m \in Markets : m.market_id # UuidOf[id] THEN "market not found"
  ELSE IF \E m \in Markets : m.market_id = UuidOf[id] /\ m.accessibility THEN ""
  ELSE "market not accessible"

EmitReply(cmd) ==
  LET ids == [order_id |-> cmd.order_id, market_id |-> cmd.market_id]
  IN  IF Reason(cmd.market_id) = "" THEN Event("StockReserved", ids)
      ELSE Event("StockRejected", [order_id |-> cmd.order_id, market_id |-> cmd.market_id,
                                   reason |-> Reason(cmd.market_id)])

HandleReserveStock(e) ==
  /\ e \in events /\ e.type = "ReserveStock"
  /\ Handles(e, ReserveStockViolations(e.payload), EmitReply(e.payload))
  /\ UNCHANGED <<call, orders>>

(* A bug in UpdateStatus: without its WHERE.                               *)
UpdateStatusMutant(id, status) == orders' = {[o EXCEPT !.order_status = status] : o \in orders}

UpdateStatus(id, status) ==
  orders' = {IF o.order_id = UuidOf[id] THEN [o EXCEPT !.order_status = status] ELSE o :
               o \in orders}

HandleReply(e) ==
  LET reserved == e.type = "StockReserved"
      status == IF reserved THEN "ORDER_RESERVED" ELSE "ORDER_REJECTED"
      violations == IF reserved THEN StockReservedViolations(e.payload)
                                ELSE StockRejectedViolations(e.payload)
  IN
  /\ e \in events /\ e.type \in {"StockReserved", "StockRejected"}
  /\ Handles(e, violations,
             Event("OrderStatusChanged", [order_id |-> e.payload.order_id, status |-> status]))
  /\ IF violations = {} THEN UpdateStatus(e.payload.order_id, status)
                        ELSE UNCHANGED orders
  /\ UNCHANGED call

(* A bug in PublishStatusUpdate: Publish returns after the first channel.   *)
PublishStatusUpdateMutant(e) ==
  LET waiting == {c \in Calls : call[c].at = "streaming"
                                 /\ call[c].request.order_id = e.payload.order_id}
  IN
  /\ e \in events /\ e.type = "OrderStatusChanged"
  /\ events' = events \ {e}
  /\ call' = [c \in Calls |->
       IF waiting # {} /\ c = CHOOSE d \in waiting : TRUE
       THEN [call[c] EXCEPT !.at = "woken"] ELSE call[c]]
  /\ UNCHANGED <<orders, skipped>>

(* publishStatusUpdate does not validate; Hub.Publish wakes the streams    *)
(* that subscribed to the same text.                                       *)
PublishStatusUpdate(e) ==
  /\ e \in events /\ e.type = "OrderStatusChanged"
  /\ events' = events \ {e}
  /\ call' = [c \in Calls |->
       IF call[c].at = "streaming" /\ call[c].request.order_id = e.payload.order_id
       THEN [call[c] EXCEPT !.at = "woken"] ELSE call[c]]
  /\ UNCHANGED <<orders, skipped>>

SagaStep ==
  /\ \E e \in events : HandleOrderCreated(e) \/ HandleReserveStock(e)
                       \/ HandleReply(e) \/ PublishStatusUpdate(e)
  /\ UNCHANGED <<logged, sessions, slots, unmetered>>
=============================================================================

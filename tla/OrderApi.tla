------------------------------ MODULE OrderApi ------------------------------
(***************************************************************************)
(* The handlers of order_service and what they call: the conversions, the  *)
(* use case, the quota, the repository.  A transaction is one action; the  *)
(* quota is taken in a step of its own before it.                          *)
(***************************************************************************)
EXTENDS RpcPipeline, Pages

CONSTANTS
  Users,       \* user ids, with those that registrations will draw
  NewId,       \* the UUID that uuid.NewString draws in each call
  QuotaLimit   \* orders of the plan free in the window, which does not pass

ASSUME OrderApiAssumption ==
  /\ Users \subseteq Uuids
  /\ NewId \in [Calls -> Users]
  /\ \A c, d \in Calls : NewId[c] = NewId[d] => c = d
  /\ \A c \in Calls : UuidOf[NewId[c]] = NewId[c]  \* it is in small letters
  /\ QuotaLimit \in Nat

VARIABLES
  orders,     \* table orders
  slots,      \* slots of the window in use, by user
  unmetered,  \* history: calls that took no slot
  events      \* outbox rows the saga has not handled yet

orderTables == <<orders, slots, unmetered, events>>

(* The rows of orders, once NewOrder has let them pass.                    *)
OrderRow ==
  [user_id : Users, order_id : Uuids, market_id : Uuids, price : Nat \ {0},
   amount : {"positive"}, order_status : OrderStatus \ {"UNREGISTERED_STATUS"}]

OfUser(u) == {o \in orders : o.user_id = u}
Event(type, payload) == [type |-> type, payload |-> payload]

-----------------------------------------------------------------------------
(* converters.go                                                           *)

StatusToProto(s) == IF s \in OrderStatus THEN s ELSE "UNREGISTERED_STATUS"

OrderToProto(o) == [o EXCEPT !.price = DecToMoney(@), !.order_status = StatusToProto(@)]

MoneyToDec(m) == IF m = Absent THEN 0 ELSE Amount(m)
DecimalPBToDec(d) == IF d \in {Absent, ""} THEN "zero" ELSE d  \* or "no number"

-----------------------------------------------------------------------------
(* CreateOrder: the amount must be a number; enforceOrderQuota lets the    *)
(* call pass when Redis fails, whether or not the slot was taken, and when *)
(* the plan has no limit.                                                  *)
CheckOrderQuota(c) ==
  LET u == CallerOf(c)
  IN
  /\ call[c].at = "handler" /\ call[c].method = "CreateOrder"
  /\ \/ /\ DecimalPBToDec(call[c].request.amount) = "no number"
        /\ Returns(c, NewError("Invalid"), Absent)
        /\ UNCHANGED <<slots, unmetered>>
     \/ /\ DecimalPBToDec(call[c].request.amount) # "no number"
        /\ \/ /\ call[c].session.role = "free" /\ slots[u] < QuotaLimit
              /\ call' = [call EXCEPT ![c].at = "quota passed"]
              /\ slots' = [slots EXCEPT ![u] = @ + 1]
              /\ unmetered' = unmetered
           \/ /\ call[c].session.role = "free" /\ slots[u] = QuotaLimit
              /\ Returns(c, Domain(ErrOrderQuotaExceeded), Absent)
              /\ UNCHANGED <<slots, unmetered>>
           \/ /\ call' = [call EXCEPT ![c].at = "quota passed"]
              /\ slots' = slots
              /\ unmetered' = unmetered \cup {c}
  /\ UNCHANGED <<logged, sessions, orders, events>>

(* A bug in OrderError: the amount is not looked at.                       *)
OrderErrorMutant(amount, price) == IF price <= 0 THEN ErrInvalidPrice ELSE ""

(* NewOrder, and the error it gives back.                                  *)
OrderError(amount, price) ==
  IF amount # "positive" THEN ErrInvalidAmount
  ELSE IF price <= 0 THEN ErrInvalidPrice ELSE ""

NewOrder(c) ==
  [user_id |-> CallerOf(c), order_id |-> NewId[c],
   market_id |-> call[c].request.market_id,
   price |-> MoneyToDec(call[c].request.price),
   amount |-> DecimalPBToDec(call[c].request.amount),
   order_status |-> "ORDER_CREATED"]

(* Decimal.String of the price is a number, never the empty text.          *)
OrderCreatedOf(o) ==
  Event("OrderCreated",
        [order_id |-> o.order_id, user_id |-> o.user_id, market_id |-> o.market_id,
         price |-> "a number", amount |-> o.amount, status |-> o.order_status])

(* The columns of ids are of type UUID.                                    *)
InDatabase(o) == o.market_id \in DOMAIN UuidOf
Row(o) == [o EXCEPT !.market_id = UuidOf[@]]

(* A bug in SaveNewOrder: a failed transaction gives the slot back.        *)
SaveNewOrderMutant(c) ==
  LET o == NewOrder(c)
      refused == OrderError(o.amount, o.price)
  IN
  /\ call[c].at = "quota passed"
  /\ \/ /\ refused # "" /\ Returns(c, Domain(refused), Absent)
        /\ UNCHANGED <<orders, events, slots>>
     \/ /\ refused = ""
        /\ \E committed, failed \in BOOLEAN :
             /\ committed => InDatabase(o)
             /\ committed \/ failed
             /\ orders' = IF committed THEN orders \cup {Row(o)} ELSE orders
             /\ events' = IF committed THEN events \cup {OrderCreatedOf(o)} ELSE events
             /\ slots' = IF failed /\ c \notin unmetered
                         THEN [slots EXCEPT ![CallerOf(c)] = @ - 1] ELSE slots
             /\ IF failed THEN Returns(c, Infra, Absent)
                ELSE Returns(c, Nil, [create_order_response |-> OrderToProto(o)])
  /\ UNCHANGED <<logged, sessions, unmetered>>

(* A bug in SaveNewOrder: the error of the transaction is lost.            *)
SaveNewOrderUnchecked(c) ==
  LET o == NewOrder(c)
      refused == OrderError(o.amount, o.price)
  IN
  /\ call[c].at = "quota passed"
  /\ \/ /\ refused # "" /\ Returns(c, Domain(refused), Absent)
        /\ UNCHANGED <<orders, events>>
     \/ /\ refused = ""
        /\ \E committed \in BOOLEAN :
             /\ committed => InDatabase(o)
             /\ orders' = IF committed THEN orders \cup {Row(o)} ELSE orders
             /\ events' = IF committed THEN events \cup {OrderCreatedOf(o)} ELSE events
             /\ Returns(c, Nil, [create_order_response |-> OrderToProto(o)])
  /\ UNCHANGED <<logged, sessions, slots, unmetered>>

(* The rest of CreateOrder.  The transaction of SaveOrder and Emit may     *)
(* fail, also with its commit done; it fails where an id is no UUID.       *)
SaveNewOrder(c) ==
  LET o == NewOrder(c)
      refused == OrderError(o.amount, o.price)
  IN
  /\ call[c].at = "quota passed"
  /\ \/ /\ refused # "" /\ Returns(c, Domain(refused), Absent)
        /\ UNCHANGED <<orders, events>>
     \/ /\ refused = ""
        /\ \E committed, failed \in BOOLEAN :
             /\ committed => InDatabase(o)
             /\ committed \/ failed
             /\ orders' = IF committed THEN orders \cup {Row(o)} ELSE orders
             /\ events' = IF committed THEN events \cup {OrderCreatedOf(o)} ELSE events
             /\ IF failed THEN Returns(c, Infra, Absent)
                ELSE Returns(c, Nil, [create_order_response |-> OrderToProto(o)])
  /\ UNCHANGED <<logged, sessions, slots, unmetered>>

-----------------------------------------------------------------------------
(* A bug in FindByID: the user is not asked for.                           *)
FindByIDMutant(t, u) ==
  {o \in orders : t \in DOMAIN UuidOf /\ o.order_id = UuidOf[t]}

(* FindByID, where Postgres reads a UUID in the text.                      *)
FindByID(t, u) ==
  {o \in OfUser(u) : t \in DOMAIN UuidOf /\ o.order_id = UuidOf[t]}

OrderOf(c) == FindByID(call[c].request.order_id, CallerOf(c))

(* The database may fail, and does for a text that is no UUID.             *)
OrderLookupFails(c) ==
  \/ Returns(c, Infra, Absent)
  \/ /\ call[c].request.order_id \in DOMAIN UuidOf /\ OrderOf(c) = {}
     /\ Returns(c, Domain(ErrOrderNotFound), Absent)

StatusResponse(o) == [order_status_response |-> OrderToProto(o)]

GetOrderStatusByID(c) ==
  /\ call[c].at = "handler" /\ call[c].method = "GetOrderStatusByID"
  /\ \/ OrderLookupFails(c)
     \/ \E o \in OrderOf(c) : Returns(c, Nil, StatusResponse(o))
  /\ UNCHANGED <<logged, sessions, orderTables>>

GetOrderStatusAll(c) ==
  LET m == call[c].request
      ids == {o.order_id : o \in OfUser(CallerOf(c))}
      OrderWith(i) == CHOOSE o \in orders : o.order_id = i
  IN
  /\ call[c].at = "handler" /\ call[c].method = "GetOrderStatusAll"
  /\ \/ Returns(c, Infra, Absent)
     \/ /\ m.page_token \in DOMAIN UuidOf
        /\ \E page \in SUBSET ids, next \in ids \cup {NoToken} :
             /\ IsPage(page, next, ids, UuidOf[m.page_token], PageSize(m.page_size))
             /\ \E list \in Listings(page) :
                  Returns(c, Nil,
                    [all_orders_statuses_response |->
                       [i \in DOMAIN list |-> OrderToProto(OrderWith(list[i]))],
                     next_page_token |-> next])
  /\ UNCHANGED <<logged, sessions, orderTables>>

(* StreamOrderUpdates subscribes and sends, and sends again when the hub   *)
(* woke it; it ends with a status that IsTerminal or an error.             *)
IsTerminal(s) == s \in {"ORDER_HAS_BEEN_DELIVERED", "ORDER_REJECTED"}

(* What stream.Send of a call whose client has gone may fail with.         *)
SendFailure == {"Canceled", "DeadlineExceeded", "Unavailable"}

(* The first status, and one that is not the last, is sent.                *)
ToBeSent(c, o) ==
  call[c].at = "woken" => o.order_status # call[c].body.order_status_response.order_status

SendUpdate(c) ==
  /\ call[c].at \in {"handler", "woken"} /\ call[c].method = "StreamOrderUpdates"
  /\ \/ OrderLookupFails(c)
     \/ \E o \in OrderOf(c) :
          \/ /\ ToBeSent(c, o)
             /\ \E code \in SendFailure : Returns(c, Status(code), Absent)
          \/ IF IsTerminal(o.order_status) THEN Returns(c, Nil, StatusResponse(o))
             ELSE call' = [call EXCEPT ![c].at = "streaming", ![c].body = StatusResponse(o)]
  /\ UNCHANGED <<logged, sessions, orderTables>>

(* <-ctx.Done(): the handler returns ctx.Err(), which no register knows.   *)
StreamIsLeft(c) ==
  /\ call[c].at \in {"streaming", "woken"}
  /\ Returns(c, [kind |-> "canceled", what |-> ""], Absent)
  /\ UNCHANGED <<logged, sessions, orderTables>>

OrderApiStep(c) ==
  \/ CheckOrderQuota(c) \/ SaveNewOrder(c)
  \/ GetOrderStatusByID(c) \/ GetOrderStatusAll(c)
  \/ SendUpdate(c) \/ StreamIsLeft(c)
=============================================================================

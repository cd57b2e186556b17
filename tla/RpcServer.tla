----------------------------- MODULE RpcServer ------------------------------
(***************************************************************************)
(* The four servers with the database, Redis and the saga behind them:     *)
(* calls of all methods at the same time, from the request to the answer.  *)
(***************************************************************************)
EXTENDS AccountApi

CONSTANTS
  InitialUsers, InitialSessions, InitialOrders   \* what earlier calls left

(* The rows are such as the handlers write; an id that a call will draw is *)
(* in none of them.                                                        *)
ASSUME RpcServerAssumption ==
  /\ NoToken = ""
  /\ InitialUsers \subseteq UserRow
  /\ InitialSessions \subseteq SessionRow
  /\ \A s \in InitialSessions : \E u \in InitialUsers : u.user_id = s.user_id
  /\ InitialOrders \subseteq OrderRow
  /\ \A o \in InitialOrders : UuidOf[o.order_id] = o.order_id
  /\ \A o, p \in InitialOrders : o.order_id = p.order_id => o = p
  /\ \A c \in Calls :
       /\ \A o \in InitialOrders : o.order_id # NewId[c]
       /\ \A u \in InitialUsers : u.user_id # NewId[c]
       /\ \A s \in InitialSessions : s.session_id # NewId[c]

vars == <<pipeline, orderTables, skipped, users>>

Init ==
  /\ call = [c \in Calls |-> NoCall]
  /\ logged = {} /\ skipped = {} /\ unmetered = {}
  /\ sessions = InitialSessions /\ users = InitialUsers /\ orders = InitialOrders
  /\ slots = [u \in Users |-> 0]
  /\ events = {OrderCreatedOf(o) : o \in {r \in orders : r.order_status = "ORDER_CREATED"}}

Next ==
  \/ \E c \in Calls :
       \/ PipelineStep(c) /\ UNCHANGED accountTables
       \/ OrderApiStep(c) /\ UNCHANGED <<skipped, users>>
       \/ AccountApiStep(c)
  \/ SagaStep /\ UNCHANGED users
  \/ \E s \in sessions : SessionExpires(s) /\ UNCHANGED accountTables

Spec == Init /\ [][Next]_vars

-----------------------------------------------------------------------------
Codes == {"OK", "InvalidArgument", "Unauthenticated", "NotFound", "AlreadyExists",
          "ResourceExhausted", "Unavailable", "Internal", "Unimplemented",
          "Canceled", "DeadlineExceeded"}

Answered(c) == call[c].at = "answered"
AnsweredOK(c) == Answered(c) /\ call[c].code = "OK"

(* The client has an answer, or a message of a stream that goes on.        *)
Told(c) == AnsweredOK(c) \/ call[c].at \in {"streaming", "woken"}
Tells(c, method) == Told(c) /\ call[c].method = method

(* The orders that a body tells of.                                        *)
OrdersIn(method, body) ==
  CASE method = "CreateOrder" -> {body.create_order_response}
    [] method \in {"GetOrderStatusByID", "StreamOrderUpdates"} -> {body.order_status_response}
    [] method = "GetOrderStatusAll" ->
         {body.all_orders_statuses_response[i] : i \in DOMAIN body.all_orders_statuses_response}
    [] OTHER -> {}

OrdersTold(c) == OrdersIn(call[c].method, call[c].body)

(* Calls, rows and events have their shapes.                               *)
TypeOK ==
  /\ \A c \in Calls :
       \/ call[c] = NoCall
       \/ /\ call[c].at \in {"validation", "session_auth", "handler", "quota passed",
                             "streaming", "woken", "returned", "answered"}
          /\ call[c].request \in Request(call[c].method)
          /\ Answered(c) => call[c].code \in Codes
  /\ orders \subseteq OrderRow /\ users \subseteq UserRow /\ sessions \subseteq SessionRow
  /\ slots \in [Users -> 0..QuotaLimit]
  /\ \A s \in sessions : \E u \in users : u.user_id = s.user_id

(* What a client is told obeys the rules of the answer's message, which    *)
(* only the requests are checked against: statuses and plans are known,    *)
(* ids are UUIDs.                                                          *)
AnswersMeetTheirRules ==
  \A c \in Calls :
    Told(c) => /\ call[c].body \in Response(call[c].method)
               /\ ResponseViolations(call[c].method, call[c].body) = {}

(* The orders and the user data of an answer are the caller's own, whoever *)
(* the request names.                                                      *)
AnswersBelongToTheCaller ==
  \A c \in Calls :
    /\ Told(c) => \A p \in OrdersTold(c) : p.user_id = CallerOf(c)
    /\ Tells(c, "GetUserData") => call[c].body.user_data.user_id = CallerOf(c)

(* What a call left in the database or in Redis under the id it drew.      *)
Left(c) ==
  \/ \E o \in orders : o.order_id = NewId[c]
  \/ \E u \in users : u.user_id = NewId[c]
  \/ \E s \in sessions : s.session_id = NewId[c]

(* OK means that the order or the user is there; any other code than       *)
(* Internal that the call left nothing.  So a client that tries again only *)
(* after Internal makes at most one order more than it was told of for     *)
(* each such answer.                                                       *)
AnswersTellTheEffect ==
  \A c \in Calls :
    /\ Tells(c, "CreateOrder") \/ Tells(c, "UserRegistration") => Left(c)
    /\ Answered(c) /\ call[c].code \notin {"OK", "Internal"} => ~ Left(c)

(* A client sees Internal when a process or a backend failed, or its own   *)
(* text was no UUID, and never for an outcome of the domain.               *)
InternalIsNoOutcome ==
  \A c \in Calls :
    Answered(c) /\ call[c].code = "Internal" =>
      call[c].err.kind \in {"infra", "canceled", "panic"}

(* What the client is only told is "Internal" or "Unavailable" is in the   *)
(* log.                                                                    *)
FailuresAreLogged ==
  \A c \in Calls :
    Answered(c) /\ call[c].code \in {"Internal", "Unavailable"} => c \in logged

(* Orders of calls that went through the quota have a slot of the window   *)
(* each; a call that fails after the quota keeps its slot.                 *)
OrdersWithinQuota ==
  \A u \in Users :
    Cardinality({c \in Calls \ unmetered :
                   \E o \in OfUser(u) : o.order_id = NewId[c]}) <= slots[u]

(* An order that CreateOrder accepts gives payloads that every handler of  *)
(* the saga accepts: none is skipped, which would leave the order where it *)
(* is for good.                                                            *)
NoPayloadIsSkipped == skipped = {}

(* Once the event of a change is handled, a stream of the order has sent   *)
(* the new status or is about to, if the order's id was spelled as Go      *)
(* spells it.                                                              *)
StreamsKeepUp ==
  \A c \in Calls, o \in orders :
    /\ call[c].at = "streaming" /\ call[c].request.order_id = o.order_id
    /\ \A e \in events : e.type = "OrderStatusChanged" => e.payload.order_id # o.order_id
    => call[c].body.order_status_response.order_status = o.order_status

(* Every order that an answer or a message of a stream tells of is in the  *)
(* table, and its price there is the amount that the client is told: of    *)
(* CreateOrder the amount that was asked for, also where the nanos of the  *)
(* request exceed a unit or have the other sign; as long as int64 holds    *)
(* the units, and in the form that money.proto asks for.  The currency is  *)
(* not kept: whatever was asked for, the answer says USD.                  *)
PriceIsKept ==
  LET Shows(m, price) ==
        /\ m.currency_code = "USD"
        /\ Fits(price) => Amount(m) = price /\ WellFormed(m)
  IN
  \A c \in Calls :
    /\ Told(c) =>
         \A p \in OrdersTold(c) :
           \E o \in orders : o.order_id = p.order_id /\ Shows(p.price, o.price)
    /\ Tells(c, "CreateOrder") =>
         Shows(call[c].body.create_order_response.price, Amount(call[c].request.price))

-----------------------------------------------------------------------------
(* The orders of the calls, as OrderLifecycle has them: what is stored of  *)
(* an order, and what the market decided on it, which is in the reply or   *)
(* in the status that came of the reply.                                   *)
Drawn == {NewId[c] : c \in Calls}
StatusIn(table, id) == (CHOOSE o \in table : o.order_id = id).order_status
Stored(id, s) == (\E o \in orders : o.order_id = id) /\ StatusIn(orders, id) = s
Reply(id, type) == \E e \in events : e.type = type /\ e.payload.order_id = id

statuses ==
  [id \in Drawn |-> IF \E o \in orders : o.order_id = id THEN StatusIn(orders, id) ELSE "absent"]
verdicts ==
  [id \in Drawn |->
     IF Reply(id, "StockReserved") \/ Stored(id, "ORDER_RESERVED") THEN "RESERVED"
     ELSE IF Reply(id, "StockRejected") \/ Stored(id, "ORDER_REJECTED") THEN "REJECTED"
     ELSE "none"]

Lifecycle == INSTANCE OrderLifecycle
               WITH Orders <- Drawn, status <- statuses, verdict <- verdicts

(* Between the calls and the payloads an order lives as SagaSystem lets    *)
(* it: created once, decided once, and settled as it was decided, whatever *)
(* other orders, calls and events there are.                               *)
ImplementsLifecycle == Lifecycle!LifecycleSpec
=============================================================================

------------------------------ MODULE Messages ------------------------------
(***************************************************************************)
(* The protobuf messages of the services and the rules protoc-gen-validate *)
(* checks on them.  A message type is the set of its values; Violations of *)
(* a message are the fields ValidateAll reports.                           *)
(*                                                                         *)
(* A text stands for all strings that the same patterns and lengths fit.   *)
(* The fields created_at, market_accessibility and market_ttl carry no     *)
(* rule and are left out.                                                  *)
(***************************************************************************)
EXTENDS Prices, Sequences

CONSTANTS
  Texts,    \* all strings; "" is the value of a field that is not set
  Uuids,    \* those the pattern of a UUID matches
  Names,    \* words of letters, 2 to 128 characters
  Secrets,  \* printable characters without spaces, 8 to 72
  Titles,   \* 2 to 256 characters
  UuidOf,   \* the UUID that Postgres reads in a text, where it reads one
  Absent    \* a field that holds a message, and is not set

ASSUME TextsAssumption ==
  /\ "" \in Texts \ (Uuids \cup Titles \cup Secrets \cup DOMAIN UuidOf)
  /\ Uuids \cup Names \cup Secrets \cup Titles \subseteq Texts
  /\ Uuids \subseteq Secrets \cap Titles  \* 36 printable characters
  /\ Names \subseteq Titles
  /\ Names \cap Uuids = {}                \* a UUID has hyphens, a name has none
  /\ Uuids \subseteq DOMAIN UuidOf /\ DOMAIN UuidOf \subseteq Texts
  /\ \A t \in DOMAIN UuidOf : UuidOf[t] \in Uuids /\ UuidOf[UuidOf[t]] = UuidOf[t]

(* The members of the enums, and a number that is none of them.            *)
UnknownNumber == "unknown number"
OrderStatus == {"UNREGISTERED_STATUS", "ORDER_REJECTED", "ORDER_CREATED",
                "ORDER_RESERVED", "ORDER_IN_PROCESS_OF_DELIVERY",
                "ORDER_HAS_BEEN_DELIVERED"}
UserRoles == {"UNAUTHORISED_USER", "FREE_PLAN_USER", "PRO_PLAN_USER", "ADMIN"}

(* google.type.Decimal, by the sign of what it says; it holds a text,      *)
(* which may be empty or no number at all.                                 *)
Decimal == {"negative", "zero", "positive", "", "no number"}

ASSUME AbsentAssumption == Absent \notin Money /\ Absent \notin Decimal

-----------------------------------------------------------------------------
(* Validate and ValidateAll accept a message without violations, and an    *)
(* embedded message that is not set.                                       *)
Unless(ok, field) == IF ok THEN {} ELSE {field}
NotUuid(m, fields) == {f \in fields : m[f] \notin Uuids}
Accepted(m, Violations(_)) == m = Absent \/ Violations(m) = {}

-----------------------------------------------------------------------------
(* order_service.proto                                                     *)
Order ==
  [user_id : Texts, order_id : Texts, market_id : Texts, price : Money \cup {Absent},
   amount : Decimal \cup {Absent}, order_status : OrderStatus \cup {UnknownNumber}]
OrderViolations(m) ==
  NotUuid(m, {"user_id", "order_id", "market_id"})
  \cup Unless(m.price # Absent, "price")
  \cup Unless(m.order_status \in OrderStatus \ {"UNREGISTERED_STATUS"}, "order_status")

CreateOrderRequest ==
  [market_id : Texts, amount : Decimal \cup {Absent}, price : Money \cup {Absent}]

CreateOrderRequestViolations(m) ==
  NotUuid(m, {"market_id"}) \cup Unless(m.price # Absent, "price")

CreateOrderResponse == [create_order_response : Order \cup {Absent}]
CreateOrderResponseViolations(m) ==
  Unless(Accepted(m.create_order_response, OrderViolations), "create_order_response")

OrderStatusByIDRequest == [order_id : Texts]
OrderStatusByIDRequestViolations(m) == NotUuid(m, {"order_id"})

OrderStatusByIDResponse == [order_status_response : Order \cup {Absent}]
OrderStatusByIDResponseViolations(m) ==
  Unless(Accepted(m.order_status_response, OrderViolations), "order_status_response")

OrderStatusAllRequest == [page_size : Int, page_token : Texts]
OrderStatusAllRequestViolations(m) == {}

OrderStatusAllResponse ==
  [all_orders_statuses_response : Seq(Order), next_page_token : Texts]
OrderStatusAllResponseViolations(m) ==
  LET orders == m.all_orders_statuses_response
  IN  {i \in DOMAIN orders : ~ Accepted(orders[i], OrderViolations)}

StreamOrderRequest == [order_id : Texts]
StreamOrderRequestViolations(m) == NotUuid(m, {"order_id"})

-----------------------------------------------------------------------------
(* market_service.proto                                                    *)
Market == [market_name : Texts, goods_id : Texts, market_id : Texts]
MarketViolations(m) ==
  Unless(m.market_name \in Titles, "market_name")
  \cup NotUuid(m, {"goods_id", "market_id"})

ViewMarketRequest == [view_market_request : Texts]
ViewMarketRequestViolations(m) ==
  Unless(m.view_market_request \in Titles, "view_market_request")

ViewMarketResponse == [view_market_response : Market \cup {Absent}]
ViewMarketResponseViolations(m) ==
  Unless(Accepted(m.view_market_response, MarketViolations), "view_market_response")

ViewAllMarketsRequest == [page_size : Int, page_token : Texts]
ViewAllMarketsRequestViolations(m) == {}

ViewAllMarketsResponse == [markets : Seq(Market), next_page_token : Texts]
ViewAllMarketsResponseViolations(m) ==
  {i \in DOMAIN m.markets : ~ Accepted(m.markets[i], MarketViolations)}

-----------------------------------------------------------------------------
(* auth_service.proto                                                      *)
LoginRequest == [user_name : Texts, user_password : Texts]
LoginRequestViolations(m) ==
  Unless(m.user_name \in Names, "user_name")
  \cup Unless(m.user_password \in Secrets, "user_password")

LoginResponse == [user_id : Texts, session_id : Texts]
LoginResponseViolations(m) == NotUuid(m, {"user_id", "session_id"})

-----------------------------------------------------------------------------
(* user_service.proto                                                      *)
RoleIsKnown(m) ==
  Unless(m.user_role \in UserRoles \ {"UNAUTHORISED_USER"}, "user_role")

UserData ==
  [user_id : Texts, user_name : Texts, user_role : UserRoles \cup {UnknownNumber}]
UserDataViolations(m) ==
  NotUuid(m, {"user_id"}) \cup Unless(m.user_name \in Names, "user_name")
  \cup RoleIsKnown(m)

RegisterRequest == [user_name : Texts, user_password : Texts]
RegisterRequestViolations(m) ==
  Unless(m.user_name \in Names, "user_name")
  \cup Unless(m.user_password \in Secrets, "user_password")

RegisterResponse == [user_name : Texts, user_role : UserRoles \cup {UnknownNumber}]
RegisterResponseViolations(m) == RoleIsKnown(m)

GetUserDataRequest == [user_id : Texts]
GetUserDataRequestViolations(m) == NotUuid(m, {"user_id"})

GetUserDataResponse == [user_data : UserData \cup {Absent}]
GetUserDataResponseViolations(m) ==
  Unless(Accepted(m.user_data, UserDataViolations), "user_data")

PlanChangeRequest == [user_id : Texts, user_role : UserRoles \cup {UnknownNumber}]
PlanChangeRequestViolations(m) == NotUuid(m, {"user_id"}) \cup RoleIsKnown(m)

PlanChangeResponse == [user_id : Texts, user_role : UserRoles \cup {UnknownNumber}]
PlanChangeResponseViolations(m) == NotUuid(m, {"user_id"}) \cup RoleIsKnown(m)

-----------------------------------------------------------------------------
(* saga_events.proto: what the outbox rows carry.                          *)
OrderCreated ==
  [order_id : Texts, user_id : Texts, market_id : Texts, price : Texts,
   amount : Texts, status : Texts]
OrderCreatedViolations(m) ==
  NotUuid(m, {"order_id", "user_id", "market_id"})
  \cup {f \in {"price", "amount", "status"} : m[f] = ""}

ReserveStock ==
  [order_id : Texts, user_id : Texts, market_id : Texts, amount : Texts]
ReserveStockViolations(m) ==
  NotUuid(m, {"order_id", "user_id", "market_id"}) \cup Unless(m.amount # "", "amount")

StockReserved == [order_id : Texts, market_id : Texts]
StockReservedViolations(m) == NotUuid(m, {"order_id", "market_id"})

StockRejected == [order_id : Texts, market_id : Texts, reason : Texts]
StockRejectedViolations(m) == NotUuid(m, {"order_id", "market_id"})

OrderStatusChanged == [order_id : Texts, status : Texts]
OrderStatusChangedViolations(m) ==
  NotUuid(m, {"order_id"}) \cup Unless(m.status # "", "status")
=============================================================================

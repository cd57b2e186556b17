------------------------------- MODULE MCRpc --------------------------------
(* Small instances of RpcServer for TLC.                                   *)
EXTENDS RpcServer, SequencesExt

(* UUIDs as Go spells them, in their order; one in capitals; one in the    *)
(* braces that only Postgres accepts.                                      *)
Spelled == <<"zero", "market-1", "market-2", "order-1", "order-2", "order-3",
             "session-1", "session-2", "user-1", "user-2", "new-1", "new-2", "new-3">>
TheUuids == ToSet(Spelled) \cup {"ORDER-1", "MARKET-1"}
TheNames == {"Ann", "Bob", "Eve"}
TheSecrets == TheUuids \cup {"password", "passw0rd"}
TheTitles == TheUuids \cup TheNames \cup {"{order-1}", "{market-1}", "a title"}
TheTexts == TheTitles \cup TheSecrets \cup {"", "positive", "market not found",
                                           "market not accessible", "ORDER_CREATED",
                                           "ORDER_RESERVED", "ORDER_REJECTED"}
TheUuidOf == [t \in TheUuids \cup {"{order-1}", "{market-1}"} |->
                CASE t \in {"ORDER-1", "{order-1}"} -> "order-1"
                  [] t \in {"MARKET-1", "{market-1}"} -> "market-1"
                  [] OTHER -> t]
Position(t) == CHOOSE i \in DOMAIN Spelled : Spelled[i] = UuidOf[t]
Earlier(i, j) == Position(i) < Position(j)

DrawnId == [c \in Calls |-> "new-" \o ToString(c)]
TheUsers == {"user-1", "user-2"} \cup {DrawnId[c] : c \in Calls}

TheMarkets ==
  {[market_id |-> "market-1", market_name |-> "Bob", goods_id |-> "zero",
    accessibility |-> TRUE],
   [market_id |-> "market-2", market_name |-> "a title", goods_id |-> "zero",
    accessibility |-> FALSE]}

SomeUsers ==
  {[user_id |-> "user-1", user_name |-> "Ann", user_password |-> "password",
    user_role |-> "free"],
   [user_id |-> "user-2", user_name |-> "Bob", user_password |-> "password",
    user_role |-> "admin"]}
SomeSessions ==
  {[session_id |-> "session-1", user_id |-> "user-1", role |-> "free"],
   [session_id |-> "session-2", user_id |-> "user-2", role |-> "admin"]}
AnOrder(id, u, m, price, status) ==
  [user_id |-> u, order_id |-> id, market_id |-> m, price |-> price,
   amount |-> "positive", order_status |-> status]
(* Prices of less than a unit, of the last that int64 holds, and beyond.   *)
SomeOrders ==
  {AnOrder("order-1", "user-1", "market-1", 1, "ORDER_CREATED"),
   AnOrder("order-2", "user-1", "market-2", UnitLimit * NanosPerUnit - 1, "ORDER_REJECTED"),
   AnOrder("order-3", "user-2", "market-1", UnitLimit * NanosPerUnit, "ORDER_RESERVED")}

-----------------------------------------------------------------------------
Attempt(method, requests, headers) ==
  {[method |-> method, request |-> m, header |-> h] : m \in requests, h \in headers}

Headers == {"", "session-1", "session-2", "a title"}
Looked == {"", "order-1", "ORDER-1", "{order-1}", "order-2", "order-3", "a title"}
Listed == [page_size : {0, 1}, page_token : {"", "zero", "order-1", "a title"}]
Logins == [user_name : {"", "Ann", "Eve"}, user_password : {"", "password", "passw0rd"}]
Priced(markets, amounts, prices) ==
  [market_id : markets, amount : amounts, price : prices]

USD(units, nanos) == [currency_code |-> "USD", units |-> units, nanos |-> nanos]

(* Prices at the ends of int64 and int32, around a unit, and of both signs.*)
ThePrices == {USD(u, n) : u \in {-32, -1, 0, 1, 30, 31},
                          n \in {-16, -8, -7, -6, -1, 0, 1, 6, 7, 8, 15}}
APrice == {USD(3, 1)}
InEuro == {[currency_code |-> "EUR", units |-> 3, nanos |-> 1]}

(* Calls that meet: an order within the quota or behind it, a stream of an *)
(* order that is settled meanwhile, a name registered twice.               *)
MeetingAttempts ==
  Attempt("CreateOrder", Priced({"MARKET-1"}, {"positive"}, APrice), {"session-1"})
  \cup Attempt("StreamOrderUpdates", [order_id : {"order-1"}], {"session-1"})
  \cup Attempt("UserRegistration",
               [user_name : {"Eve"}, user_password : {"password"}], {""})

(* The first call: every method with requests and headers of every kind.   *)
EveryAttempt ==
  Attempt("CreateOrder", Priced({"market-1"}, {"positive"}, ThePrices \cup InEuro), {"session-1"})
  \cup Attempt("CreateOrder", Priced({"market-1"}, Decimal \cup {Absent},
               {Absent} \cup APrice), {"session-1"})
  \cup Attempt("CreateOrder", Priced({"", "MARKET-1", "{market-1}", "market-2"},
               {"positive"}, APrice), {"session-1"})
  \cup Attempt("CreateOrder", Priced({"market-1"}, {"positive"}, APrice), Headers)
  \cup MeetingAttempts
  \cup Attempt("GetOrderStatusByID", [order_id : Looked], Headers)
  \cup Attempt("GetOrderStatusAll", Listed, {"", "session-1", "session-2"})
  \cup Attempt("StreamOrderUpdates", [order_id : Looked], Headers)
  \cup Attempt("ViewMarketsByID",
               [view_market_request : {"", "market-1", "MARKET-1", "zero", "a title"}],
               {"", "session-1"})
  \cup Attempt("ViewAllMarkets", Listed, {"session-1"})
  \cup Attempt("UserLogin", Logins, {""})
  \cup Attempt("UserRegistration", Logins, {""})
  \cup Attempt("GetUserData", [user_id : {"", "user-1", "user-2"}], Headers)
  \cup Attempt("ChangeUserPlan",
               [user_id : {"user-1"}, user_role : UserRoles \cup {UnknownNumber}],
               {"session-1"})

(* The second: one that meets it.                                          *)
AttemptsOfCalls == [c \in Calls |-> IF c = 1 THEN EveryAttempt ELSE MeetingAttempts]

(* Bound: the second is made only beside a first of its own kind.          *)
OnlyMeetings ==
  \/ call[1] = NoCall \/ call[2] = NoCall
  \/ [method |-> call[1].method, request |-> call[1].request, header |-> call[1].header]
       \in MeetingAttempts
=============================================================================

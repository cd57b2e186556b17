--------------------------- MODULE RpcServerProofs ---------------------------
(***************************************************************************)
(* Proofs about RpcServer, for any calls and attempts, any texts, users,   *)
(* markets and orders, any widths of integers and any quota.               *)
(***************************************************************************)
EXTENDS RpcServer, FiniteSetTheorems, TLAPS

-----------------------------------------------------------------------------
(* Money.                                                                  *)

(* A value that fits is not changed by the conversion.                     *)
LEMMA LowOfValue ==
  ASSUME NEW limit \in Nat, NEW x \in Values(limit)
  PROVE  Low(x, limit) = x
  BY DEF Low, Values

(* The conversion gives a value of its width.                              *)
LEMMA LowIsValue ==
  ASSUME NEW limit \in Nat \ {0}, NEW x \in Int
  PROVE  Low(x, limit) \in Values(limit)
  BY DEF Low, Values

(* A Money says a number of nanos.                                         *)
LEMMA AmountIsInt ==
  ASSUME NEW m \in Money
  PROVE  Amount(m) \in Int
  <1>1. UnitLimit \in Int /\ NanoLimit \in Int /\ NanosPerUnit \in Int
    BY WidthsAssumption
  <1>2. m.units \in Int /\ m.nanos \in Int
    BY <1>1 DEF Money, Values
  <1> QED
    BY <1>1, <1>2 DEF Amount

(* What is left of a price after its whole units is less than a unit, and  *)
(* of the price's sign.                                                    *)
LEMMA WholeAndRest ==
  ASSUME NEW d \in Int
  PROVE  /\ Whole(d) \in Int
         /\ d - Whole(d) * NanosPerUnit \in -(NanosPerUnit - 1)..(NanosPerUnit - 1)
         /\ d >= 0 => Whole(d) >= 0 /\ d - Whole(d) * NanosPerUnit >= 0
         /\ d <= 0 => Whole(d) <= 0 /\ d - Whole(d) * NanosPerUnit <= 0
  BY WidthsAssumption DEF Whole

-----------------------------------------------------------------------------
(* What the methods take and answer with, and the errors they know.        *)
LEMMA MethodsAre ==
  Methods = {"CreateOrder", "GetOrderStatusByID", "GetOrderStatusAll", "StreamOrderUpdates",
             "ViewMarketsByID", "ViewAllMarkets", "UserLogin", "UserRegistration",
             "GetUserData", "ChangeUserPlan"}
  BY DEF Methods, OrderService, SpotInstrumentService, AuthService, UserService

LEMMA Requests ==
  /\ Request("CreateOrder") = CreateOrderRequest
  /\ Request("GetOrderStatusByID") = OrderStatusByIDRequest
  /\ Request("GetOrderStatusAll") = OrderStatusAllRequest
  /\ Request("StreamOrderUpdates") = StreamOrderRequest
  /\ Request("ViewMarketsByID") = ViewMarketRequest
  /\ Request("ViewAllMarkets") = ViewAllMarketsRequest
  /\ Request("UserLogin") = LoginRequest
  /\ Request("UserRegistration") = RegisterRequest
  /\ Request("GetUserData") = GetUserDataRequest
  /\ Request("ChangeUserPlan") = PlanChangeRequest
  BY DEF Request, Of, OrderService, SpotInstrumentService, AuthService, UserService,
         OrderRequest, MarketRequest, AuthRequest, UserRequest

LEMMA Responses ==
  /\ Response("CreateOrder") = CreateOrderResponse
  /\ Response("GetOrderStatusByID") = OrderStatusByIDResponse
  /\ Response("GetOrderStatusAll") = OrderStatusAllResponse
  /\ Response("StreamOrderUpdates") = OrderStatusByIDResponse
  /\ Response("ViewMarketsByID") = ViewMarketResponse
  /\ Response("ViewAllMarkets") = ViewAllMarketsResponse
  /\ Response("UserLogin") = LoginResponse
  /\ Response("UserRegistration") = RegisterResponse
  /\ Response("GetUserData") = GetUserDataResponse
  /\ Response("ChangeUserPlan") = PlanChangeResponse
  BY DEF Response, Of, OrderService, SpotInstrumentService, AuthService, UserService,
         OrderResponse, MarketResponse, AuthResponse, UserResponse

(* A registered error has a code of its own, and what is no registered     *)
(* error is in no register.                                                *)
LEMMA RegisterCodes ==
  ASSUME NEW method \in Methods
  PROVE  /\ \A r \in Register(method) :
               CodeFor(r[2]) \in {"InvalidArgument", "Unauthenticated", "NotFound",
                                 "AlreadyExists", "ResourceExhausted"}
         /\ \A r \in Register(method) :
               r[1] \notin {"", "Invalid", "Unauthenticated", "Unavailable", "Unimplemented",
                            "Canceled", "DeadlineExceeded"}
  <1>1. /\ CodeFor("NotFound") = "NotFound" /\ CodeFor("RateLimited") = "ResourceExhausted"
        /\ CodeFor("Invalid") = "InvalidArgument" /\ CodeFor("AlreadyExists") = "AlreadyExists"
        /\ CodeFor("Unauthenticated") = "Unauthenticated"
    BY DEF CodeFor
  <1>2. Register(method) \in {OrderRegister, MarketRegister, AuthRegister, UserRegister}
    BY DEF Register, Methods, OrderService, SpotInstrumentService, AuthService, UserService
  <1> DEFINE Kinds == {"NotFound", "RateLimited", "Invalid", "AlreadyExists", "Unauthenticated"}
             Whats == {ErrOrderNotFound, ErrOrderQuotaExceeded, ErrInvalidPrice,
                       ErrInvalidAmount, ErrMarketNotFound, ErrInvalidCredentials,
                       ErrTooManyLoginAttempts, ErrUserNotFound, ErrUserAlreadyExists}
  <1>3. Register(method) \subseteq Whats \X Kinds
    BY <1>2 DEF OrderRegister, MarketRegister, AuthRegister, UserRegister
  <1>4. Whats \cap {"", "Invalid", "Unauthenticated", "Unavailable", "Unimplemented",
                    "Canceled", "DeadlineExceeded"} = {}
    BY DEF ErrOrderNotFound, ErrOrderQuotaExceeded, ErrInvalidPrice, ErrInvalidAmount,
           ErrMarketNotFound, ErrInvalidCredentials, ErrTooManyLoginAttempts,
           ErrUserNotFound, ErrUserAlreadyExists
  <1>5. ASSUME NEW r \in Register(method)
        PROVE  r[1] \in Whats /\ r[2] \in Kinds
    BY <1>3
  <1> QED
    BY <1>1, <1>4, <1>5

-----------------------------------------------------------------------------
(* What the converters make of a row.                                      *)

(* The Money that is made of a price says the price again, where it fits.  *)
LEMMA DecToMoneyIsMoney ==
  ASSUME NEW d \in Int
  PROVE  /\ DecToMoney(d) \in Money
         /\ Fits(d) => Amount(DecToMoney(d)) = d /\ WellFormed(DecToMoney(d))
  <1> DEFINE u == Low(Whole(d), UnitLimit)
             frac == d - u * NanosPerUnit
             n == Low(frac, NanoLimit)
             m == DecToMoney(d)
  <1>1. /\ UnitLimit \in Nat \ {0} /\ NanoLimit \in Nat \ {0}
        /\ NanosPerUnit \in Int /\ 1 <= NanosPerUnit /\ NanosPerUnit <= NanoLimit
    BY WidthsAssumption
  <1>2. u \in Values(UnitLimit) /\ u \in Int
    BY <1>1, LowIsValue, WholeAndRest DEF Values
  <1>3. frac \in Int
    BY <1>1, <1>2
  <1>4. n \in Values(NanoLimit)
    BY <1>1, <1>3, LowIsValue
  <1>5. m = [currency_code |-> "USD", units |-> u, nanos |-> n]
    BY DEF DecToMoney, currency
  <1>6. m \in Money
    BY <1>2, <1>4, <1>5 DEF Money
  <1>7. ASSUME Fits(d)
        PROVE  Amount(m) = d /\ WellFormed(m)
    <2>1. u = Whole(d)
      BY <1>1, <1>7, LowOfValue DEF Fits
    <2>2. /\ frac \in -(NanosPerUnit - 1)..(NanosPerUnit - 1)
          /\ d >= 0 => u >= 0 /\ frac >= 0
          /\ d <= 0 => u <= 0 /\ frac <= 0
      BY <2>1, WholeAndRest
    <2>3. frac \in Values(NanoLimit)
      BY <1>1, <2>2 DEF Values
    <2>4. n = frac
      BY <1>1, <2>3, LowOfValue
    <2>5. m.units = u /\ m.nanos = frac
      BY <1>5, <2>4
    <2> HIDE DEF m
    <2>6. Amount(m) = u * NanosPerUnit + frac
      BY <2>5 DEF Amount
    <2>7. Amount(m) = d
      BY <2>6, <1>1, <1>2
    <2>8. WellFormed(m)
      BY <2>2, <2>5, <1>2 DEF WellFormed
    <2> QED
      BY <2>7, <2>8
  <1> QED
    BY <1>6, <1>7

(* What is told of a row of orders obeys the rules of Order.               *)
LEMMA RowToProto ==
  ASSUME NEW o \in OrderRow
  PROVE  /\ OrderToProto(o) \in Order
         /\ OrderViolations(OrderToProto(o)) = {}
         /\ OrderToProto(o).user_id = o.user_id
         /\ OrderToProto(o).order_id = o.order_id
         /\ OrderToProto(o).price = DecToMoney(o.price)
         /\ OrderToProto(o).order_status = o.order_status
  <1> DEFINE p == OrderToProto(o)
  <1>1. /\ o.user_id \in Uuids /\ o.order_id \in Uuids /\ o.market_id \in Uuids
        /\ o.price \in Int /\ o.amount = "positive"
        /\ o.order_status \in OrderStatus \ {"UNREGISTERED_STATUS"}
    BY OrderApiAssumption DEF OrderRow
  <1>2. DecToMoney(o.price) \in Money
    BY <1>1, DecToMoneyIsMoney
  <1>3. p = [user_id |-> o.user_id, order_id |-> o.order_id, market_id |-> o.market_id,
             price |-> DecToMoney(o.price), amount |-> o.amount,
             order_status |-> o.order_status]
    <2>1. o = [user_id |-> o.user_id, order_id |-> o.order_id, market_id |-> o.market_id,
               price |-> o.price, amount |-> o.amount, order_status |-> o.order_status]
      BY DEF OrderRow
    <2>2. p = [o EXCEPT !.price = DecToMoney(o.price), !.order_status = o.order_status]
      BY <1>1 DEF OrderToProto, StatusToProto
    <2> QED
      BY <2>1, <2>2
  <1>4. p \in Order
    <2>1. o.user_id \in Texts /\ o.order_id \in Texts /\ o.market_id \in Texts
      BY <1>1, TextsAssumption
    <2>2. o.amount \in Decimal \cup {Absent}
      BY <1>1 DEF Decimal
    <2> QED
      BY <1>1, <1>2, <1>3, <2>1, <2>2 DEF Order
  <1>5. DecToMoney(o.price) # Absent
    BY <1>2, AbsentAssumption
  <1>6. OrderViolations(p) = {}
    BY <1>1, <1>2, <1>3, <1>5 DEF OrderViolations, NotUuid, Unless
  <1> QED
    BY <1>3, <1>4, <1>6

-----------------------------------------------------------------------------
(* The inductive invariant.  It knows a call by its record, whatever the   *)
(* other calls do, and by what the tables have of it.                      *)

Open == {"validation", "session_auth", "handler", "quota passed", "streaming", "woken"}
Ended == {"returned", "answered"}
CallFields == {"at", "method", "request", "header", "session", "err", "body", "code"}

Canceled == [kind |-> "canceled", what |-> ""]
Panicked == [kind |-> "panic", what |-> ""]

(* The errors a handler, or an interceptor in its place, returns.          *)
Errors(method) ==
  {NewError("Invalid"), Status("Unauthenticated"), Status("Unavailable"),
   Status("Unimplemented"), Infra, Canceled}
  \cup {Status(code) : code \in SendFailure}
  \cup {Domain(r[1]) : r \in Register(method)}

(* A call whose client has, or will get, the body.                         *)
HasBody(r) ==
  \/ r.at \in {"streaming", "woken"}
  \/ r.at \in Ended /\ r.err = Nil

(* What a handler returns as its answer, or sends.                         *)
BodyOK(r) ==
  /\ r.body \in Response(r.method)
  /\ ResponseViolations(r.method, r.body) = {}
  /\ \A p \in OrdersIn(r.method, r.body) : p.user_id = r.session.user_id
  /\ r.method = "CreateOrder" =>
       /\ r.request.price \in Money
       /\ r.body.create_order_response.price = DecToMoney(Amount(r.request.price))
  /\ r.method = "GetUserData" => r.body.user_data.user_id = r.session.user_id

(* What the record of a call says by itself.                               *)
CallOK(r) ==
  /\ DOMAIN r = CallFields
  /\ r.at \in Open \cup Ended
  /\ r.method \in Methods /\ r.request \in Request(r.method)
  /\ r.at \in Open \ {"validation"} /\ r.method \notin Streams =>
       RequestViolations(r.method, r.request) = {}
  /\ r.at \in Open \ {"validation", "session_auth"} /\ r.method \in NeedsSession =>
       r.session.user_id \in Users
  /\ r.at = "quota passed" => r.method = "CreateOrder"
  /\ r.at \in {"streaming", "woken"} => r.method = "StreamOrderUpdates"
  /\ r.at = "returned" => r.err \in Errors(r.method) \cup {Nil}
  /\ r.at = "answered" =>
       \/ r.err = Panicked /\ r.code = "Internal"
       \/ r.err \in Errors(r.method) \cup {Nil} /\ r.code = ToGRPCStatus(r.err, r.method)
  /\ HasBody(r) => BodyOK(r)

(* What the tables and Redis have under the id it drew, ...                *)
EffectOK(c, r) ==
  /\ r.at \notin Ended => ~ Left(c)
  /\ r.at \in Ended /\ r.err.kind \in {"status", "app", "domain"} => ~ Left(c)
  /\ r.at \in Ended /\ r.err = Nil /\ r.method = "CreateOrder" =>
       \E o \in orders : o.order_id = NewId[c]
  /\ r.at \in Ended /\ r.err = Nil /\ r.method = "UserRegistration" =>
       \E u \in users : u.user_id = NewId[c]

(* ... that the order of a stream is there, ...                            *)
ReadOK(r) ==
  r.at \in {"streaming", "woken"} =>
    \E o \in orders : o.order_id = UuidOf[r.request.order_id]

(* ... and how what it told of an order is related to the row.             *)
KeepsUp(r) ==
  r.at = "streaming" =>
    \A o \in orders :
      /\ r.request.order_id = o.order_id
      /\ \A e \in events : e.type = "OrderStatusChanged" => e.payload.order_id # o.order_id
      => r.body.order_status_response.order_status = o.order_status

PriceTold(r) ==
  HasBody(r) =>
    \A p \in OrdersIn(r.method, r.body) :
      \E o \in orders : o.order_id = p.order_id /\ p.price = DecToMoney(o.price)

CallInv(c, r) ==
  /\ EffectOK(c, r)
  /\ r # NoCall => CallOK(r) /\ ReadOK(r) /\ KeepsUp(r) /\ PriceTold(r)

Canonical(id) == id \in Uuids /\ UuidOf[id] = id

TablesOK ==
  /\ orders \subseteq OrderRow /\ users \subseteq UserRow /\ sessions \subseteq SessionRow
  /\ \A o \in orders : Canonical(o.order_id)
  /\ \A o, p \in orders : o.order_id = p.order_id => o = p
  /\ \A s \in sessions : \E u \in users : u.user_id = s.user_id

(* A payload that no handler of the saga skips.                            *)
EventOK(e) ==
  /\ Canonical(e.payload.order_id)
  /\ e.type \in {"OrderCreated", "ReserveStock"} =>
       /\ e.payload.user_id \in Uuids /\ e.payload.market_id \in Uuids
       /\ e.payload.amount # ""
  /\ e.type = "OrderCreated" => e.payload.price # "" /\ e.payload.status # ""
  /\ e.type \in {"StockReserved", "StockRejected"} => e.payload.market_id \in Uuids

(* The calls that hold a slot of u for the order they make or made.        *)
Metered(u) ==
  {c \in Calls \ unmetered :
     \/ call[c].at = "quota passed" /\ CallerOf(c) = u
     \/ \E o \in OfUser(u) : o.order_id = NewId[c]}

SlotsOK ==
  /\ slots \in [Users -> 0..QuotaLimit]
  /\ \A u \in Users : IsFiniteSet(Metered(u)) /\ Cardinality(Metered(u)) <= slots[u]

RpcInv ==
  /\ DOMAIN call = Calls /\ \A c \in Calls : CallInv(c, call[c])
  /\ TablesOK /\ (\A e \in events : EventOK(e)) /\ skipped = {}
  /\ SlotsOK /\ FailuresAreLogged

-----------------------------------------------------------------------------
(* The slots of a window are counted by numbers.                            *)
LEMMA Limits == QuotaLimit \in Nat /\ 0..QuotaLimit \subseteq Nat
  BY OrderApiAssumption

(* Steps that change no table.                                             *)

(* Counting.                                                               *)
LEMMA SmallerSet ==
  ASSUME NEW S, NEW T \in SUBSET S, NEW n \in Nat,
         IsFiniteSet(S), Cardinality(S) <= n
  PROVE  IsFiniteSet(T) /\ Cardinality(T) <= n
  <1>1. /\ IsFiniteSet(T) /\ Cardinality(T) <= Cardinality(S)
        /\ Cardinality(T) \in Nat /\ Cardinality(S) \in Nat
    BY FS_Subset, FS_CardinalityType
  <1> QED
    BY <1>1

LEMMA OneMore ==
  ASSUME NEW S, NEW x, NEW n \in Nat, IsFiniteSet(S), Cardinality(S) <= n
  PROVE  IsFiniteSet(S \cup {x}) /\ Cardinality(S \cup {x}) <= n + 1
  <1>1. Cardinality(S) \in Nat /\ IsFiniteSet(S \cup {x})
    BY FS_AddElement, FS_CardinalityType
  <1>2. CASE x \in S
    <2>1. S \cup {x} = S
      BY <1>2
    <2> QED
      BY <1>1, <2>1
  <1>3. CASE x \notin S
    <2>1. Cardinality(S \cup {x}) = Cardinality(S) + 1
      BY <1>3, FS_AddElement
    <2> QED
      BY <1>1, <2>1
  <1> QED
    BY <1>2, <1>3

(* A call goes on and no table changes.                                    *)
LEMMA QuietStep ==
  ASSUME RpcInv, NEW c \in Calls, NEW r,
         call' = [call EXCEPT ![c] = r], r # NoCall, r.at # "quota passed",
         CallInv(c, r),
         UNCHANGED <<sessions, orders, slots, unmetered, events, users, skipped>>,
         logged \subseteq logged',
         r.at = "answered" /\ r.code \in {"Internal", "Unavailable"} => c \in logged'
  PROVE  RpcInv'
  <1>1. /\ DOMAIN call' = Calls
        /\ \A d \in Calls : call'[d] = IF d = c THEN r ELSE call[d]
    BY DEF RpcInv
  <1>2. ASSUME NEW d \in Calls
        PROVE  CallInv(d, call[d])'
    <2>1. CallInv(d, call'[d])
      BY <1>1 DEF RpcInv
    <2> QED
      BY <2>1 DEF CallInv, EffectOK, Left, ReadOK, KeepsUp, PriceTold, HasBody
  <1>3. TablesOK' /\ (\A e \in events : EventOK(e))' /\ skipped' = {}
    BY DEF RpcInv, TablesOK, EventOK
  <1>4. SlotsOK'
    <2>1. ASSUME NEW u \in Users
          PROVE  IsFiniteSet(Metered(u)') /\ Cardinality(Metered(u)') <= slots[u]
      <3>1. Metered(u)' \subseteq Metered(u)
        BY <1>1 DEF Metered, OfUser, CallerOf
      <3>2. IsFiniteSet(Metered(u)) /\ Cardinality(Metered(u)) <= slots[u]
        BY DEF RpcInv, SlotsOK
      <3>3. slots[u] \in 0..QuotaLimit
        BY DEF RpcInv, SlotsOK
      <3>4. slots[u] \in Nat
        BY <3>3, Limits
      <3> QED
        BY <3>1, <3>2, <3>4, SmallerSet
    <2> QED
      BY <2>1 DEF RpcInv, SlotsOK
  <1>5. FailuresAreLogged'
    BY <1>1 DEF RpcInv, FailuresAreLogged, Answered
  <1> QED
    BY <1>1, <1>2, <1>3, <1>4, <1>5 DEF RpcInv

(* The errors of a method say nothing of an answer.                        *)
LEMMA ErrorsAreErrors ==
  ASSUME NEW method, NEW e \in Errors(method)
  PROVE  /\ e # Nil
         /\ e.kind \in {"status", "app", "domain", "infra", "canceled"}
  <1>1. Nil.kind = "nil"
    BY DEF Nil
  <1>2. ASSUME NEW code, e = Status(code)
        PROVE  e.kind = "status"
    BY <1>2 DEF Status
  <1>3. Infra.kind = "infra" /\ Canceled.kind = "canceled" /\ NewError("Invalid").kind = "app"
    BY DEF Infra, Canceled, NewError
  <1>4. \A what : Domain(what).kind = "domain"
    BY DEF Domain
  <1>5. e.kind \in {"status", "app", "domain", "infra", "canceled"}
    BY <1>2, <1>3, <1>4 DEF Errors
  <1> QED
    BY <1>1, <1>5

(* An error returned by a handler leaves the call as it should be, ...     *)
LEMMA ErrorReturn ==
  ASSUME NEW c, NEW r, r # NoCall, CallInv(c, r), r.at \in Open,
         NEW e \in Errors(r.method), NEW b, NEW q,
         q = [r EXCEPT !.at = "returned", !.err = e, !.body = b]
  PROVE  q # NoCall /\ q.at = "returned" /\ CallInv(c, q)
  <1>1. CallOK(r) /\ ~ Left(c)
    BY DEF CallInv, EffectOK, Open, Ended
  <1>2. /\ DOMAIN q = CallFields /\ q.at = "returned" /\ q.err = e
        /\ q.method = r.method /\ q.request = r.request
    BY <1>1 DEF CallOK, CallFields
  <1>3. e # Nil /\ q # NoCall
    BY <1>2, ErrorsAreErrors DEF NoCall, CallFields
  <1>4. CallOK(q)
    BY <1>1, <1>2, <1>3 DEF CallOK, HasBody, Open, Ended
  <1> QED
    BY <1>1, <1>2, <1>3, <1>4 DEF CallInv, EffectOK, ReadOK, KeepsUp, PriceTold, HasBody, Ended

(* ... and so does an answer that is in order.                             *)
LEMMA BodyReturn ==
  ASSUME NEW c, NEW r, r # NoCall, CallInv(c, r), r.at \in Open,
         r.method \notin {"CreateOrder", "UserRegistration"}, NEW b, NEW q,
         q = [r EXCEPT !.at = "returned", !.err = Nil, !.body = b],
         BodyOK(q), PriceTold(q)
  PROVE  q # NoCall /\ q.at = "returned" /\ CallInv(c, q)
  <1>1. CallOK(r) /\ ~ Left(c)
    BY DEF CallInv, EffectOK, Open, Ended
  <1>2. /\ DOMAIN q = CallFields /\ q.at = "returned" /\ q.err = Nil
        /\ q.method = r.method /\ q.request = r.request
    BY <1>1 DEF CallOK, CallFields
  <1>3. q # NoCall
    BY <1>2 DEF NoCall, CallFields
  <1>4. CallOK(q)
    BY <1>1, <1>2 DEF CallOK, Open, Ended
  <1> QED
    BY <1>1, <1>2, <1>3, <1>4 DEF CallInv, EffectOK, ReadOK, KeepsUp, Ended, Nil

(* A handler fails before it wrote anything.                               *)
LEMMA FailStep ==
  ASSUME RpcInv, NEW c \in Calls, call[c] # NoCall, call[c].at \in Open,
         NEW e \in Errors(call[c].method), NEW b, Returns(c, e, b),
         UNCHANGED <<sessions, orders, slots, unmetered, events, users, skipped>>,
         logged \subseteq logged'
  PROVE  RpcInv'
  <1> DEFINE q == Returned(c, e, b)
  <1>1. CallInv(c, call[c])
    BY DEF RpcInv
  <1>2. q # NoCall /\ q.at = "returned" /\ CallInv(c, q)
    BY <1>1, ErrorReturn DEF Returned
  <1>3. call' = [call EXCEPT ![c] = q]
    BY DEF Returns
  <1> HIDE DEF q
  <1> QED
    BY <1>2, <1>3, QuietStep

(* A handler that only reads answers.                                      *)
LEMMA TellStep ==
  ASSUME RpcInv, NEW c \in Calls, call[c] # NoCall, call[c].at \in Open,
         call[c].method \notin {"CreateOrder", "UserRegistration"},
         NEW b, Returns(c, Nil, b), BodyOK(Returned(c, Nil, b)),
         PriceTold(Returned(c, Nil, b)),
         UNCHANGED <<sessions, orders, slots, unmetered, events, users, skipped, logged>>
  PROVE  RpcInv'
  <1> DEFINE q == Returned(c, Nil, b)
  <1>1. CallInv(c, call[c])
    BY DEF RpcInv
  <1>2. q # NoCall /\ q.at = "returned" /\ CallInv(c, q)
    BY <1>1, BodyReturn DEF Returned
  <1>3. call' = [call EXCEPT ![c] = q]
    BY DEF Returns
  <1> HIDE DEF q
  <1> QED
    BY <1>2, <1>3, QuietStep

(* A call that is anywhere is a call.                                      *)
LEMMA IdleIsNoCall ==
  /\ NoCall.at = "idle" /\ "idle" \notin Open \cup Ended
  /\ \A r : r.at \in Open \cup Ended => r # NoCall
  /\ Open \cap Ended = {}
  <1>1. NoCall.at = "idle"
    BY DEF NoCall
  <1>2. "idle" \notin Open \cup Ended /\ Open \cap Ended = {}
    BY DEF Open, Ended
  <1> QED
    BY <1>1, <1>2

(* The code of each error: which are Internal, which leave a line in the   *)
(* log, and OK for none.                                                   *)
LEMMA CodesOfErrors ==
  ASSUME NEW method \in Methods, NEW e \in Errors(method) \cup {Nil}
  PROVE  LET code == ToGRPCStatus(e, method)
         IN  /\ code \in Codes
             /\ code = "OK" <=> e = Nil
             /\ code = "Internal" => e.kind \in {"infra", "canceled"}
             /\ code \in {"Internal", "Unavailable"} => IsHidden(e, method)
             /\ code \notin {"OK", "Internal"} => e.kind \in {"status", "app", "domain"}
  <1> DEFINE code == ToGRPCStatus(e, method)
  <1>0. Nil.kind = "nil" /\ Nil.what = ""
    BY DEF Nil
  <1>1. CASE e = Nil
    <2>1. code = "OK"
      BY <1>0, <1>1, RegisterCodes DEF ToGRPCStatus
    <2> QED
      BY <1>1, <2>1 DEF Codes
  <1>2. CASE e = NewError("Invalid")
    <2>1. e.kind = "app" /\ e.what = "Invalid"
      BY <1>2 DEF NewError
    <2>2. code = "InvalidArgument"
      BY <2>1, RegisterCodes DEF ToGRPCStatus, CodeFor
    <2> QED
      BY <1>2, <2>1, <2>2, ErrorsAreErrors DEF Codes, Errors
  <1>3. ASSUME NEW t \in {"Unauthenticated", "Unavailable", "Unimplemented"} \cup SendFailure,
               e = Status(t)
        PROVE  /\ code \in Codes /\ code # "OK" /\ e # Nil /\ code # "Internal"
               /\ code = "Unavailable" => IsHidden(e, method)
               /\ e.kind = "status"
    <2>1. e.kind = "status" /\ e.what = t
      BY <1>3 DEF Status
    <2>2. code = t
      BY <2>1, RegisterCodes DEF ToGRPCStatus, SendFailure
    <2>3. e # Nil
      BY <1>0, <2>1
    <2> QED
      BY <2>1, <2>2, <2>3 DEF Codes, IsHidden, SendFailure
  <1>4. CASE e \in {Infra, Canceled}
    <2>1. e.kind \in {"infra", "canceled"} /\ e.what = ""
      <3>1. /\ Infra.kind = "infra" /\ Infra.what = ""
            /\ Canceled.kind = "canceled" /\ Canceled.what = ""
        BY DEF Infra, Canceled
      <3> QED
        BY <1>4, <3>1
    <2>2. \A r \in Register(method) : e.what # r[1]
      BY <2>1, RegisterCodes
    <2>3. code = "Internal" /\ IsHidden(e, method)
      BY <2>1, <2>2 DEF ToGRPCStatus, IsHidden
    <2>4. e # Nil
      BY <1>0, <2>1
    <2> QED
      BY <2>1, <2>3, <2>4 DEF Codes
  <1>5. ASSUME NEW r \in Register(method), e = Domain(r[1])
        PROVE  /\ code \in {"InvalidArgument", "Unauthenticated", "NotFound",
                            "AlreadyExists", "ResourceExhausted"}
               /\ e # Nil /\ e.kind = "domain"
    <2>1. e.kind = "domain" /\ e.what = r[1]
      BY <1>5 DEF Domain
    <2>2. PICK s \in Register(method) : code = CodeFor(s[2])
      BY <2>1 DEF ToGRPCStatus
    <2>3. e # Nil
      BY <1>0, <2>1
    <2> QED
      BY <2>1, <2>2, <2>3, RegisterCodes
  <1>6. CASE e \in {Domain(r[1]) : r \in Register(method)}
    BY <1>5, <1>6 DEF Codes
  <1>7. CASE e \in {Status(t) : t \in {"Unauthenticated", "Unavailable", "Unimplemented"}
                                     \cup SendFailure}
    BY <1>3, <1>7
  <1> QED
    BY <1>1, <1>2, <1>4, <1>6, <1>7 DEF Errors

-----------------------------------------------------------------------------
(* The interceptors.                                                       *)

(* The interceptors, inwards and outwards.                                 *)
LEMMA ReceiveStep ==
  ASSUME RpcInv, NEW c \in Calls, NEW a \in Attempts[c], Receive(c, a),
         UNCHANGED accountTables
  PROVE  RpcInv'
  <1> DEFINE r == [at |-> IF a.method \in Streams THEN "session_auth" ELSE "validation",
                   method |-> a.method, request |-> a.request, header |-> a.header,
                   session |-> Absent, err |-> Nil, body |-> Absent, code |-> ""]
  <1>1. call' = [call EXCEPT ![c] = r] /\ UNCHANGED <<logged, sessions>>
    BY DEF Receive
  <1>2. /\ DOMAIN r = CallFields /\ r.at \in {"session_auth", "validation"}
        /\ r.at = "session_auth" => r.method \in Streams
        /\ r.method = a.method /\ r.request = a.request
    BY DEF CallFields
  <1> HIDE DEF r
  <1>3. ~ Left(c)
    BY IdleIsNoCall DEF Receive, RpcInv, CallInv, EffectOK
  <1>4. r # NoCall
    BY <1>2 DEF NoCall, CallFields
  <1>5. CallOK(r)
    BY <1>2, AttemptsAssumption DEF CallOK, HasBody, Open, Ended
  <1>6. CallInv(c, r)
    BY <1>2, <1>3, <1>5 DEF CallInv, EffectOK, ReadOK, KeepsUp, PriceTold, HasBody, Ended
  <1> QED
    BY <1>1, <1>2, <1>4, <1>6, QuietStep DEF accountTables, orderTables

LEMMA ValidationStep ==
  ASSUME RpcInv, NEW c \in Calls, Validation(c), UNCHANGED accountTables
  PROVE  RpcInv'
  <1>1. /\ call[c].at = "validation" /\ call[c] # NoCall /\ CallInv(c, call[c])
        /\ UNCHANGED <<sessions, orders, slots, unmetered, events, users, skipped, logged>>
    BY DEF Validation, RpcInv, NoCall, accountTables, orderTables
  <1>2. CASE Returns(c, NewError("Invalid"), Absent)
    <2>1. NewError("Invalid") \in Errors(call[c].method)
      BY DEF Errors
    <2> QED
      BY <1>1, <1>2, <2>1, FailStep DEF Open
  <1>3. CASE /\ RequestViolations(call[c].method, call[c].request) = {}
             /\ call' = [call EXCEPT ![c].at = "session_auth"]
    <2> DEFINE r == [call[c] EXCEPT !.at = "session_auth"]
    <2>1. call' = [call EXCEPT ![c] = r]
      BY <1>3
    <2>2. CallOK(call[c]) /\ ~ Left(c)
      BY <1>1 DEF CallInv, EffectOK, Ended
    <2>3. /\ DOMAIN r = CallFields /\ r.at = "session_auth"
          /\ r.method = call[c].method /\ r.request = call[c].request
      BY <2>2 DEF CallOK, CallFields
    <2> HIDE DEF r
    <2>4. r.at \in Open /\ r.at \notin Ended /\ r # NoCall
      BY <2>3, IdleIsNoCall DEF Open, Ended
    <2>5. CallOK(r)
      BY <1>3, <2>2, <2>3, <2>4 DEF CallOK, HasBody
    <2>6. CallInv(c, r)
      BY <2>2, <2>3, <2>4, <2>5 DEF CallInv, EffectOK, ReadOK, KeepsUp, PriceTold, HasBody
    <2> QED
      BY <1>1, <2>1, <2>3, <2>4, <2>6, QuietStep
  <1> QED
    BY <1>2, <1>3 DEF Validation

LEMMA PassStep ==
  ASSUME RpcInv, NEW c \in Calls, PassWithoutSession(c) \/ PassWithSession(c),
         UNCHANGED accountTables
  PROVE  RpcInv'
  <1>1. /\ call[c].at = "session_auth" /\ call[c] # NoCall /\ CallInv(c, call[c])
        /\ UNCHANGED <<sessions, orders, slots, unmetered, events, users, skipped, logged>>
    BY DEF PassWithoutSession, PassWithSession, RpcInv, NoCall, accountTables, orderTables
  <1>2. CallOK(call[c]) /\ ~ Left(c)
    BY <1>1 DEF CallInv, EffectOK, Ended
  <1>3. PICK r : /\ call' = [call EXCEPT ![c] = r]
                 /\ DOMAIN r = CallFields /\ r.at = "handler"
                 /\ r.method = call[c].method /\ r.request = call[c].request
                 /\ r.method \in NeedsSession => r.session.user_id \in Users
    <2>1. CASE PassWithoutSession(c)
      <3> DEFINE r == [call[c] EXCEPT !.at = "handler"]
      <3>1. call' = [call EXCEPT ![c] = r]
        BY <2>1 DEF PassWithoutSession
      <3>2. /\ DOMAIN r = CallFields /\ r.at = "handler"
            /\ r.method = call[c].method /\ r.request = call[c].request
        BY <1>2 DEF CallOK, CallFields
      <3> HIDE DEF r
      <3> QED
        BY <2>1, <3>1, <3>2 DEF PassWithoutSession
    <2>2. CASE PassWithSession(c)
      <3>1. PICK s \in sessions :
               call' = [call EXCEPT ![c].at = "handler", ![c].session = s]
        BY <2>2 DEF PassWithSession
      <3> DEFINE r == [call[c] EXCEPT !.at = "handler", !.session = s]
      <3>2. call' = [call EXCEPT ![c] = r]
        BY <3>1 DEF RpcInv
      <3>3. /\ DOMAIN r = CallFields /\ r.at = "handler" /\ r.session = s
            /\ r.method = call[c].method /\ r.request = call[c].request
        BY <1>2 DEF CallOK, CallFields
      <3>4. s.user_id \in Users
        BY DEF RpcInv, TablesOK, SessionRow
      <3> HIDE DEF r
      <3> QED
        BY <3>2, <3>3, <3>4
    <2> QED
      BY <2>1, <2>2
  <1>4. CallOK(r) /\ r # NoCall
    BY <1>1, <1>2, <1>3 DEF CallOK, HasBody, Open, Ended, NoCall
  <1>5. CallInv(c, r)
    BY <1>2, <1>3, <1>4 DEF CallInv, EffectOK, ReadOK, KeepsUp, PriceTold, HasBody, Ended
  <1> QED
    BY <1>1, <1>3, <1>4, <1>5, QuietStep

LEMMA RefuseStep ==
  ASSUME RpcInv, NEW c \in Calls, RefuseWithoutSession(c), UNCHANGED accountTables
  PROVE  RpcInv'
  <1>1. /\ call[c].at \in Open /\ call[c] # NoCall
        /\ UNCHANGED <<sessions, orders, slots, unmetered, events, users, skipped>>
        /\ logged \subseteq logged'
    <2>1. call[c].at \in Open
      BY DEF RefuseWithoutSession, Open
    <2>2. logged \subseteq logged'
      BY DEF RefuseWithoutSession
    <2> QED
      BY <2>1, <2>2, IdleIsNoCall DEF RefuseWithoutSession, accountTables, orderTables
  <1>2. {Status("Unauthenticated"), Status("Unavailable")} \subseteq Errors(call[c].method)
    BY DEF Errors
  <1>3. \E e \in {Status("Unauthenticated"), Status("Unavailable")} : Returns(c, e, Absent)
    BY DEF RefuseWithoutSession
  <1> QED
    BY <1>1, <1>2, <1>3, FailStep

LEMMA AnswerStep ==
  ASSUME RpcInv, NEW c \in Calls, Answer(c), UNCHANGED accountTables
  PROVE  RpcInv'
  <1> DEFINE m == call[c].method
             code == ToGRPCStatus(call[c].err, m)
             r == [call[c] EXCEPT !.at = "answered", !.code = code]
  <1>1. /\ call[c].at = "returned" /\ call[c] # NoCall /\ CallInv(c, call[c])
        /\ UNCHANGED <<sessions, orders, slots, unmetered, events, users, skipped>>
        /\ logged' = IF IsHidden(call[c].err, m) THEN logged \cup {c} ELSE logged
    BY IdleIsNoCall DEF Answer, RpcInv, Ended, accountTables, orderTables
  <1>2. call' = [call EXCEPT ![c] = r]
    BY DEF Answer, RpcInv
  <1>3. CallOK(call[c]) /\ call[c].err \in Errors(m) \cup {Nil} /\ m \in Methods
    BY <1>1 DEF CallInv, CallOK
  <1>4. /\ DOMAIN r = CallFields /\ r.at = "answered" /\ r.err = call[c].err
        /\ r.method = m /\ r.request = call[c].request /\ r.session = call[c].session
        /\ r.body = call[c].body /\ r.code = code
    BY <1>3 DEF CallOK, CallFields
  <1>5. logged \subseteq logged' /\ (r.code \in {"Internal", "Unavailable"} => c \in logged')
    BY <1>1, <1>3, <1>4, CodesOfErrors
  <1> HIDE DEF r, code, m
  <1>6. r # NoCall /\ r.at \in Ended /\ call[c].at \in Ended
    BY <1>1, <1>4, IdleIsNoCall DEF Ended
  <1>7. HasBody(r) => BodyOK(r)
    <2>1. HasBody(r) => HasBody(call[c])
      BY <1>1, <1>4, <1>6 DEF HasBody
    <2>2. BodyOK(call[c]) => BodyOK(r)
      BY <1>4 DEF BodyOK, m
    <2> QED
      BY <1>3, <2>1, <2>2 DEF CallOK
  <1>8. CallOK(r)
    BY <1>3, <1>4, <1>6, <1>7, IdleIsNoCall DEF CallOK, Open, code, m
  <1>9. CallInv(c, r)
    BY <1>1, <1>4, <1>6, <1>8 DEF CallInv, EffectOK, ReadOK, KeepsUp, PriceTold, HasBody, m
  <1> QED
    BY <1>1, <1>2, <1>4, <1>5, <1>6, <1>9, QuietStep

LEMMA PanicStep ==
  ASSUME RpcInv, NEW c \in Calls, Panic(c), UNCHANGED accountTables
  PROVE  RpcInv'
  <1> DEFINE r == [call[c] EXCEPT !.at = "answered", !.err = Panicked,
                                  !.body = Absent, !.code = "Internal"]
  <1>1. /\ call[c].at \in Open /\ call[c] # NoCall /\ CallInv(c, call[c])
        /\ UNCHANGED <<sessions, orders, slots, unmetered, events, users, skipped>>
        /\ logged' = logged \cup {c}
    <2>1. call[c].at \in Open
      BY DEF Panic, Open
    <2> QED
      BY <2>1, IdleIsNoCall DEF Panic, RpcInv, accountTables, orderTables
  <1>2. call' = [call EXCEPT ![c] = r]
    BY DEF Panic, RpcInv, Panicked
  <1>3. CallOK(call[c])
    BY <1>1 DEF CallInv
  <1>4. /\ DOMAIN r = CallFields /\ r.at = "answered" /\ r.err = Panicked
        /\ r.method = call[c].method /\ r.request = call[c].request /\ r.code = "Internal"
    BY <1>3 DEF CallOK, CallFields
  <1> HIDE DEF r
  <1>5. r.err.kind = "panic" /\ r.err # Nil
    <2>1. Panicked.kind = "panic" /\ Nil.kind = "nil"
      BY DEF Panicked, Nil
    <2> QED
      BY <1>4, <2>1
  <1>6. r # NoCall /\ r.at \in Ended /\ r.at \notin Open
    BY <1>4, IdleIsNoCall DEF Ended
  <1>7. CallOK(r)
    BY <1>3, <1>4, <1>5, <1>6 DEF CallOK, HasBody
  <1>8. CallInv(c, r)
    BY <1>4, <1>5, <1>6, <1>7 DEF CallInv, EffectOK, ReadOK, KeepsUp, PriceTold, HasBody
  <1> QED
    BY <1>1, <1>2, <1>4, <1>6, <1>8, QuietStep

-----------------------------------------------------------------------------
(* The handlers that change no table.                                      *)

(* What is known of a call that is not over.                               *)
LEMMA OpenCall ==
  ASSUME RpcInv, NEW c \in Calls, call[c].at \in Open
  PROVE  call[c] # NoCall /\ CallInv(c, call[c]) /\ CallOK(call[c]) /\ ~ Left(c)
  <1>1. call[c] # NoCall /\ CallInv(c, call[c]) /\ call[c].at \notin Ended
    BY IdleIsNoCall DEF RpcInv
  <1> QED
    BY <1>1 DEF CallInv, EffectOK

(* The record of a call whose handler returned.                            *)
LEMMA ReturnedFields ==
  ASSUME NEW c \in Calls, CallOK(call[c]), NEW e, NEW b, NEW q, q = Returned(c, e, b)
  PROVE  /\ DOMAIN q = CallFields /\ q.at = "returned" /\ q.err = e /\ q.body = b
         /\ q.method = call[c].method /\ q.request = call[c].request
         /\ q.session = call[c].session
  BY DEF Returned, CallOK, CallFields

(* A handler behind session_auth knows who calls.                          *)
LEMMA CallerIsUser ==
  ASSUME RpcInv, NEW c \in Calls, call[c].at \in Open \ {"validation", "session_auth"},
         call[c].method \in NeedsSession
  PROVE  CallerOf(c) \in Users
  BY OpenCall DEF CallOK, CallerOf

(* All methods but login and registration want a session.                  *)
LEMMA NeedsSessionAre ==
  NeedsSession = {"CreateOrder", "GetOrderStatusByID", "GetOrderStatusAll",
                  "StreamOrderUpdates", "ViewMarketsByID", "ViewAllMarkets",
                  "GetUserData", "ChangeUserPlan"}
  BY MethodsAre DEF NeedsSession, AuthService, PublicMethods

(* The errors of the domain are registered where they are returned, and so *)
(* known to the interceptor.                                               *)
LEMMA DomainErrors ==
  /\ \A m \in OrderService :
       {Domain(ErrOrderNotFound), Domain(ErrOrderQuotaExceeded), Domain(ErrInvalidPrice),
        Domain(ErrInvalidAmount)} \subseteq Errors(m)
  /\ Domain(ErrMarketNotFound) \in Errors("ViewMarketsByID")
  /\ {Domain(ErrInvalidCredentials), Domain(ErrTooManyLoginAttempts)}
       \subseteq Errors("UserLogin")
  /\ Domain(ErrUserNotFound) \in Errors("GetUserData")
  /\ Domain(ErrUserAlreadyExists) \in Errors("UserRegistration")
  <1>1. /\ \A m \in OrderService : Register(m) = OrderRegister
        /\ Register("ViewMarketsByID") = MarketRegister
        /\ Register("UserLogin") = AuthRegister
        /\ Register("GetUserData") = UserRegister
        /\ Register("UserRegistration") = UserRegister
    BY DEF Register, OrderService, SpotInstrumentService, AuthService, UserService
  <1>2. ASSUME NEW method, NEW what, NEW t, <<what, t>> \in Register(method)
        PROVE  Domain(what) \in Errors(method)
    <2> DEFINE r == <<what, t>>
    <2>1. r[1] = what /\ r \in Register(method)
      BY <1>2
    <2> HIDE DEF r
    <2> QED
      BY <2>1 DEF Errors
  <1>3. ASSUME NEW m \in OrderService
        PROVE  /\ Domain(ErrOrderNotFound) \in Errors(m)
               /\ Domain(ErrOrderQuotaExceeded) \in Errors(m)
               /\ Domain(ErrInvalidPrice) \in Errors(m)
               /\ Domain(ErrInvalidAmount) \in Errors(m)
    <2>1. /\ <<ErrOrderNotFound, "NotFound">> \in Register(m)
          /\ <<ErrOrderQuotaExceeded, "RateLimited">> \in Register(m)
          /\ <<ErrInvalidPrice, "Invalid">> \in Register(m)
          /\ <<ErrInvalidAmount, "Invalid">> \in Register(m)
      BY <1>1 DEF OrderRegister
    <2> QED
      BY <1>2, <2>1
  <1>4. /\ <<ErrMarketNotFound, "NotFound">> \in Register("ViewMarketsByID")
        /\ <<ErrInvalidCredentials, "Unauthenticated">> \in Register("UserLogin")
        /\ <<ErrTooManyLoginAttempts, "RateLimited">> \in Register("UserLogin")
        /\ <<ErrUserNotFound, "NotFound">> \in Register("GetUserData")
        /\ <<ErrUserAlreadyExists, "AlreadyExists">> \in Register("UserRegistration")
    BY <1>1 DEF MarketRegister, AuthRegister, UserRegister
  <1>5. /\ Domain(ErrMarketNotFound) \in Errors("ViewMarketsByID")
        /\ Domain(ErrInvalidCredentials) \in Errors("UserLogin")
        /\ Domain(ErrTooManyLoginAttempts) \in Errors("UserLogin")
        /\ Domain(ErrUserNotFound) \in Errors("GetUserData")
        /\ Domain(ErrUserAlreadyExists) \in Errors("UserRegistration")
    BY <1>2, <1>4
  <1> QED
    BY <1>3, <1>5

(* The orders that each answer tells of.                                   *)
LEMMA OrdersOfBodies ==
  ASSUME NEW b
  PROVE  /\ OrdersIn("CreateOrder", b) = {b.create_order_response}
         /\ OrdersIn("GetOrderStatusByID", b) = {b.order_status_response}
         /\ OrdersIn("StreamOrderUpdates", b) = {b.order_status_response}
         /\ OrdersIn("GetOrderStatusAll", b) =
              {b.all_orders_statuses_response[i] : i \in DOMAIN b.all_orders_statuses_response}
         /\ \A m \in SpotInstrumentService \cup AuthService \cup UserService :
              OrdersIn(m, b) = {}
  <1>1. OrdersIn("CreateOrder", b) = {b.create_order_response}
    BY DEF OrdersIn
  <1>2. /\ OrdersIn("GetOrderStatusByID", b) = {b.order_status_response}
        /\ OrdersIn("StreamOrderUpdates", b) = {b.order_status_response}
    BY DEF OrdersIn
  <1>3. OrdersIn("GetOrderStatusAll", b) =
          {b.all_orders_statuses_response[i] : i \in DOMAIN b.all_orders_statuses_response}
    BY DEF OrdersIn
  <1>4. ASSUME NEW m \in SpotInstrumentService \cup AuthService \cup UserService
        PROVE  OrdersIn(m, b) = {}
    <2>1. m \notin {"CreateOrder", "GetOrderStatusByID", "StreamOrderUpdates",
                    "GetOrderStatusAll"}
      BY DEF SpotInstrumentService, AuthService, UserService
    <2> QED
      BY <2>1 DEF OrdersIn
  <1> QED
    BY <1>1, <1>2, <1>3, <1>4

LEMMA OtherBodies ==
  /\ {"ViewMarketsByID", "ViewAllMarkets"} \subseteq SpotInstrumentService
  /\ "UserLogin" \in AuthService
  /\ {"UserRegistration", "GetUserData"} \subseteq UserService
  BY DEF SpotInstrumentService, AuthService, UserService

(* A lookup of an order that fails returns an error the interceptor knows, *)
(* or one that becomes Internal.                                           *)
LEMMA LookupFails ==
  ASSUME NEW c, call[c].method \in OrderService, OrderLookupFails(c)
  PROVE  \E e \in Errors(call[c].method) : Returns(c, e, Absent)
  <1>1. Infra \in Errors(call[c].method) /\ Domain(ErrOrderNotFound) \in Errors(call[c].method)
    BY DomainErrors DEF Errors
  <1> QED
    BY <1>1 DEF OrderLookupFails

(* The answer about one order obeys the rules of its message.              *)
LEMMA StatusResponseIsOK ==
  ASSUME NEW o \in OrderRow
  PROVE  /\ StatusResponse(o) \in OrderStatusByIDResponse
         /\ OrderStatusByIDResponseViolations(StatusResponse(o)) = {}
         /\ StatusResponse(o).order_status_response = OrderToProto(o)
  <1>1. StatusResponse(o).order_status_response = OrderToProto(o)
    BY DEF StatusResponse
  <1> QED
    BY <1>1, RowToProto DEF StatusResponse, OrderStatusByIDResponse,
       OrderStatusByIDResponseViolations, Accepted, Unless

(* A read of one order tells its row, by FindByID the caller's.            *)
LEMMA GetOrderStatusByIDStep ==
  ASSUME RpcInv, NEW c \in Calls, GetOrderStatusByID(c), UNCHANGED <<skipped, users>>
  PROVE  RpcInv'
  <1>1. /\ call[c].at \in Open /\ call[c].method = "GetOrderStatusByID"
        /\ UNCHANGED <<sessions, orders, slots, unmetered, events, users, skipped, logged>>
    BY DEF GetOrderStatusByID, Open, orderTables
  <1>2. call[c] # NoCall /\ CallOK(call[c])
    BY <1>1, OpenCall
  <1>3. CASE OrderLookupFails(c)
    BY <1>1, <1>2, <1>3, LookupFails, FailStep DEF OrderService
  <1>4. ASSUME NEW o \in OrderOf(c), Returns(c, Nil, StatusResponse(o))
        PROVE  RpcInv'
    <2>1. o \in OrderRow /\ o \in orders /\ o.user_id = CallerOf(c)
      BY DEF OrderOf, FindByID, OfUser, RpcInv, TablesOK
    <2> DEFINE b == StatusResponse(o)
               q == Returned(c, Nil, b)
    <2>2. /\ q.at = "returned" /\ q.err = Nil /\ q.body = b /\ q.method = "GetOrderStatusByID"
          /\ q.session = call[c].session
      BY <1>1, <1>2, ReturnedFields
    <2>3. BodyOK(q)
      BY <2>1, <2>2, StatusResponseIsOK, RowToProto, Responses, OrdersOfBodies
         DEF BodyOK, ResponseViolations, CallerOf
    <2>4. PriceTold(q)
      BY <2>1, <2>2, StatusResponseIsOK, RowToProto, OrdersOfBodies DEF PriceTold
    <2> HIDE DEF q
    <2> QED
      BY <1>1, <1>2, <1>4, <2>3, <2>4, TellStep DEF q
  <1> QED
    BY <1>3, <1>4 DEF GetOrderStatusByID

(* A stream sends the row as it is: that is when it is up to date.         *)
LEMMA SendUpdateStep ==
  ASSUME RpcInv, NEW c \in Calls, SendUpdate(c), UNCHANGED <<skipped, users>>
  PROVE  RpcInv'
  <1>1. /\ call[c].at \in {"handler", "woken"} /\ call[c].method = "StreamOrderUpdates"
        /\ UNCHANGED <<sessions, orders, slots, unmetered, events, users, skipped, logged>>
    BY DEF SendUpdate, orderTables
  <1>2. call[c].at \in Open /\ call[c].at \in Open \ {"validation", "session_auth"}
    BY <1>1 DEF Open
  <1>3. call[c] # NoCall /\ CallOK(call[c]) /\ CallInv(c, call[c]) /\ ~ Left(c)
    BY <1>2, OpenCall
  <1>4. CASE OrderLookupFails(c)
    BY <1>1, <1>2, <1>3, <1>4, LookupFails, FailStep DEF OrderService
  <1>5. ASSUME NEW o \in OrderOf(c)
        PROVE  /\ o \in OrderRow /\ o \in orders /\ o.user_id = CallerOf(c)
               /\ o.order_id = UuidOf[call[c].request.order_id]
    BY DEF OrderOf, FindByID, OfUser, RpcInv, TablesOK
  <1>6. ASSUME NEW o \in OrderOf(c), Returns(c, Nil, StatusResponse(o))
        PROVE  RpcInv'
    <2> DEFINE b == StatusResponse(o)
               q == Returned(c, Nil, b)
    <2>1. /\ q.at = "returned" /\ q.err = Nil /\ q.body = b /\ q.method = "StreamOrderUpdates"
          /\ q.session = call[c].session
      BY <1>1, <1>3, ReturnedFields
    <2>2. BodyOK(q)
      BY <1>5, <2>1, StatusResponseIsOK, RowToProto, Responses, OrdersOfBodies
         DEF BodyOK, ResponseViolations, CallerOf
    <2>3. PriceTold(q)
      BY <1>5, <2>1, StatusResponseIsOK, RowToProto, OrdersOfBodies DEF PriceTold
    <2> HIDE DEF q
    <2> QED
      BY <1>1, <1>2, <1>3, <1>6, <2>2, <2>3, TellStep DEF q
  <1>7. ASSUME NEW o \in OrderOf(c),
               call' = [call EXCEPT ![c].at = "streaming", ![c].body = StatusResponse(o)]
        PROVE  RpcInv'
    <2> DEFINE r == [call[c] EXCEPT !.at = "streaming", !.body = StatusResponse(o)]
    <2>1. call' = [call EXCEPT ![c] = r]
      BY <1>7 DEF RpcInv
    <2>2. /\ DOMAIN r = CallFields /\ r.at = "streaming" /\ r.body = StatusResponse(o)
          /\ r.method = call[c].method /\ r.request = call[c].request
          /\ r.session = call[c].session
      BY <1>3 DEF CallOK, CallFields
    <2> HIDE DEF r
    <2>3. r.at \in Open /\ r.at \notin Ended /\ r # NoCall
      BY <2>2, IdleIsNoCall DEF Open, Ended
    <2>7. BodyOK(r)
      BY <1>1, <1>5, <2>2, StatusResponseIsOK, RowToProto, Responses, OrdersOfBodies
         DEF BodyOK, ResponseViolations, CallerOf
    <2>8. PriceTold(r)
      BY <1>1, <1>5, <2>2, StatusResponseIsOK, RowToProto, OrdersOfBodies DEF PriceTold
    <2>4. CallOK(r)
      BY <1>1, <1>2, <1>3, <2>2, <2>3, <2>7 DEF CallOK, Streams
    <2>5. ReadOK(r)
      BY <1>5, <2>2 DEF ReadOK
    <2>6. KeepsUp(r)
      <3> SUFFICES ASSUME NEW p \in orders, r.request.order_id = p.order_id
                   PROVE  r.body.order_status_response.order_status = p.order_status
        BY DEF KeepsUp
      <3>1. o.order_id = p.order_id /\ o \in orders
        BY <1>5, <2>2 DEF RpcInv, TablesOK, Canonical
      <3>2. o = p
        BY <3>1 DEF RpcInv, TablesOK
      <3> QED
        BY <1>5, <2>2, <3>2, StatusResponseIsOK, RowToProto
    <2> QED
      BY <1>1, <1>3, <2>1, <2>2, <2>3, <2>4, <2>5, <2>6, <2>8, QuietStep
         DEF CallInv, EffectOK
  <1>8. CASE \E code \in SendFailure : Returns(c, Status(code), Absent)
    <2>1. PICK code \in SendFailure : Returns(c, Status(code), Absent)
      BY <1>8
    <2>2. Status(code) \in Errors(call[c].method)
      BY DEF Errors
    <2> QED
      BY <1>1, <1>2, <1>3, <2>1, <2>2, FailStep
  <1> QED
    BY <1>4, <1>6, <1>7, <1>8 DEF SendUpdate

(* A client leaves its stream.                                             *)
LEMMA StreamIsLeftStep ==
  ASSUME RpcInv, NEW c \in Calls, StreamIsLeft(c), UNCHANGED <<skipped, users>>
  PROVE  RpcInv'
  <1>1. /\ call[c].at \in Open /\ Returns(c, Canceled, Absent)
        /\ UNCHANGED <<sessions, orders, slots, unmetered, events, users, skipped, logged>>
    BY DEF StreamIsLeft, Open, orderTables, Canceled
  <1>2. call[c] # NoCall /\ Canceled \in Errors(call[c].method)
    BY <1>1, OpenCall DEF Errors
  <1> QED
    BY <1>1, <1>2, FailStep

(* No token is a text like any other.                                      *)
LEMMA EmptyText == NoToken \in Texts
  <1>1. NoToken = ""
    BY RpcServerAssumption
  <1>2. "" \in Texts
    BY TextsAssumption
  <1> QED
    BY <1>1, <1>2

(* The list of a page: the order with each id, as it is told.              *)
LEMMA GetOrderStatusAllStep ==
  ASSUME RpcInv, NEW c \in Calls, GetOrderStatusAll(c), UNCHANGED <<skipped, users>>
  PROVE  RpcInv'
  <1> DEFINE m == call[c].request
             ids == {o.order_id : o \in OfUser(CallerOf(c))}
             OrderWith(i) == CHOOSE o \in orders : o.order_id = i
  <1>1. /\ call[c].at \in Open /\ call[c].method = "GetOrderStatusAll"
        /\ UNCHANGED <<sessions, orders, slots, unmetered, events, users, skipped, logged>>
    BY DEF GetOrderStatusAll, Open, orderTables
  <1>2. call[c] # NoCall /\ CallOK(call[c])
    BY <1>1, OpenCall
  <1>3. CASE Returns(c, Infra, Absent)
    <2>1. Infra \in Errors(call[c].method)
      BY DEF Errors
    <2> QED
      BY <1>1, <1>2, <1>3, <2>1, FailStep
  <1>4. ASSUME NEW page \in SUBSET ids, NEW next \in ids \cup {NoToken},
               NEW list \in Listings(page),
               Returns(c, Nil, [all_orders_statuses_response |->
                                  [i \in DOMAIN list |-> OrderToProto(OrderWith(list[i]))],
                                next_page_token |-> next])
        PROVE  RpcInv'
    <2> DEFINE told == [i \in DOMAIN list |-> OrderToProto(OrderWith(list[i]))]
               b == [all_orders_statuses_response |-> told, next_page_token |-> next]
               q == Returned(c, Nil, b)
    <2>1. PICK n \in Nat : DOMAIN list = 1..n /\ list \in [1..n -> page]
      BY PageSizeAssumption DEF Listings
    <2>2. ASSUME NEW i \in 1..n
          PROVE  /\ OrderWith(list[i]) \in OrderRow /\ OrderWith(list[i]) \in orders
                 /\ OrderWith(list[i]).user_id = CallerOf(c)
      <3>1. list[i] \in ids
        BY <2>1
      <3>2. PICK o \in orders : o.order_id = list[i] /\ o.user_id = CallerOf(c)
        BY <3>1 DEF OfUser
      <3>3. OrderWith(list[i]) \in orders /\ OrderWith(list[i]).order_id = list[i]
        BY <3>2
      <3>4. OrderWith(list[i]) = o
        BY <3>2, <3>3 DEF RpcInv, TablesOK
      <3> QED
        BY <3>2, <3>4 DEF RpcInv, TablesOK
    <2>3. /\ DOMAIN told = 1..n
          /\ \A i \in 1..n : told[i] = OrderToProto(OrderWith(list[i]))
      BY <2>1
    <2> HIDE DEF OrderWith
    <2>4. \A i \in 1..n : /\ told[i] \in Order /\ OrderViolations(told[i]) = {}
                          /\ told[i].user_id = CallerOf(c)
                          /\ \E o \in orders : /\ o.order_id = told[i].order_id
                                               /\ told[i].price = DecToMoney(o.price)
      BY <2>2, <2>3, RowToProto
    <2>5. told \in Seq(Order)
      <3>1. told = [i \in 1..n |-> told[i]]
        BY <2>1
      <3> HIDE DEF told
      <3> QED
        BY <2>3, <2>4, <3>1
    <2>6. next \in Texts
      <3>1. \A o \in orders : o.order_id \in Texts
        BY TextsAssumption DEF RpcInv, TablesOK, Canonical
      <3>2. ids \subseteq Texts
        BY <3>1 DEF OfUser
      <3> QED
        BY <3>2, EmptyText
    <2> HIDE DEF told
    <2>7. b \in OrderStatusAllResponse /\ OrderStatusAllResponseViolations(b) = {}
      BY <2>3, <2>4, <2>5, <2>6
         DEF OrderStatusAllResponse, OrderStatusAllResponseViolations, Accepted
    <2>8. /\ q.at = "returned" /\ q.err = Nil /\ q.body = b /\ q.method = "GetOrderStatusAll"
          /\ q.session = call[c].session
      BY <1>1, <1>2, ReturnedFields
    <2>9. b.all_orders_statuses_response = told
      OBVIOUS
    <2> HIDE DEF q, b
    <2>12. OrdersIn(q.method, q.body) = {told[i] : i \in 1..n}
      BY <2>3, <2>8, <2>9, OrdersOfBodies
    <2>10. BodyOK(q)
      BY <2>4, <2>7, <2>8, <2>12, Responses DEF BodyOK, ResponseViolations, CallerOf
    <2>11. PriceTold(q)
      BY <2>4, <2>12 DEF PriceTold
    <2> QED
      BY <1>1, <1>2, <1>4, <2>10, <2>11, TellStep DEF q, b, told, OrderWith
  <1> QED
    BY <1>3, <1>4 DEF GetOrderStatusAll

(* The caller's own row.                                                   *)
LEMMA GetUserDataStep ==
  ASSUME RpcInv, NEW c \in Calls, GetUserData(c)
  PROVE  RpcInv'
  <1>1. /\ call[c].at \in Open /\ call[c].method = "GetUserData"
        /\ UNCHANGED <<sessions, orders, slots, unmetered, events, users, skipped, logged>>
    BY DEF GetUserData, Open, orderTables
  <1>2. call[c] # NoCall /\ CallOK(call[c])
    BY <1>1, OpenCall
  <1>3. {Infra, Domain(ErrUserNotFound)} \subseteq Errors(call[c].method)
    BY <1>1, DomainErrors DEF Errors
  <1>4. CASE \E e \in {Infra, Domain(ErrUserNotFound)} : Returns(c, e, Absent)
    BY <1>1, <1>2, <1>3, <1>4, FailStep
  <1>5. ASSUME NEW u \in users, u.user_id = CallerOf(c),
               Returns(c, Nil, [user_data |-> [user_id |-> u.user_id,
                                               user_name |-> u.user_name,
                                               user_role |-> PlanToProto(u.user_role)]])
        PROVE  RpcInv'
    <2> DEFINE data == [user_id |-> u.user_id, user_name |-> u.user_name,
                        user_role |-> PlanToProto(u.user_role)]
               b == [user_data |-> data]
               q == Returned(c, Nil, b)
    <2>1. /\ u.user_id \in Uuids /\ u.user_name \in Names
          /\ PlanToProto(u.user_role) \in UserRoles \ {"UNAUTHORISED_USER"}
      BY OrderApiAssumption DEF RpcInv, TablesOK, UserRow, Plans, PlanToProto, UserRoles
    <2>2. data \in UserData
      BY <2>1, TextsAssumption DEF UserData
    <2>3. UserDataViolations(data) = {}
      BY <2>1 DEF UserDataViolations, NotUuid, Unless, RoleIsKnown
    <2>4. b \in GetUserDataResponse /\ GetUserDataResponseViolations(b) = {}
      BY <2>2, <2>3 DEF GetUserDataResponse, GetUserDataResponseViolations, Accepted, Unless
    <2>5. /\ q.at = "returned" /\ q.err = Nil /\ q.body = b /\ q.method = "GetUserData"
          /\ q.session = call[c].session
      BY <1>1, <1>2, ReturnedFields
    <2>6. b.user_data.user_id = CallerOf(c)
      BY <1>5
    <2> HIDE DEF q, b
    <2>9. OrdersIn(q.method, q.body) = {}
      BY <2>5, OrdersOfBodies, OtherBodies
    <2>7. BodyOK(q)
      BY <2>4, <2>5, <2>6, <2>9, Responses DEF BodyOK, ResponseViolations, CallerOf
    <2>8. PriceTold(q)
      BY <2>9 DEF PriceTold
    <2> QED
      BY <1>1, <1>2, <1>5, <2>7, <2>8, TellStep DEF q, b
  <1> QED
    BY <1>4, <1>5 DEF GetUserData

(* A method without an implementation is answered Unimplemented.           *)
LEMMA ChangeUserPlanStep ==
  ASSUME RpcInv, NEW c \in Calls, ChangeUserPlan(c)
  PROVE  RpcInv'
  <1>1. /\ call[c].at \in Open
        /\ UNCHANGED <<sessions, orders, slots, unmetered, events, users, skipped, logged>>
    BY DEF ChangeUserPlan, Open, orderTables
  <1>2. Status("Unimplemented") \in Errors(call[c].method)
    BY DEF Errors
  <1> QED
    BY <1>1, <1>2, OpenCall, FailStep DEF ChangeUserPlan

(* The answer about a market obeys the rules of its message.               *)
LEMMA MarketToProtoIsOK ==
  ASSUME NEW m \in Markets
  PROVE  MarketToProto(m) \in Market /\ MarketViolations(MarketToProto(m)) = {}
  <1>1. m.market_id \in Uuids /\ m.goods_id \in Uuids /\ m.market_name \in Titles
    BY MarketsAssumption
  <1>2. MarketToProto(m) \in Market
    BY <1>1, TextsAssumption DEF MarketToProto, Market
  <1>3. MarketViolations(MarketToProto(m)) = {}
    BY <1>1 DEF MarketToProto, MarketViolations, NotUuid, Unless
  <1> QED
    BY <1>2, <1>3

(* One market of the catalogue.                                            *)
LEMMA ViewMarketsByIDStep ==
  ASSUME RpcInv, NEW c \in Calls, ViewMarketsByID(c)
  PROVE  RpcInv'
  <1>1. /\ call[c].at \in Open /\ call[c].method = "ViewMarketsByID"
        /\ UNCHANGED <<sessions, orders, slots, unmetered, events, users, skipped, logged>>
    BY DEF ViewMarketsByID, Open, orderTables
  <1>2. call[c] # NoCall /\ CallOK(call[c])
    BY <1>1, OpenCall
  <1>3. {Infra, Domain(ErrMarketNotFound)} \subseteq Errors(call[c].method)
    BY <1>1, DomainErrors DEF Errors
  <1>4. CASE \E e \in {Infra, Domain(ErrMarketNotFound)} : Returns(c, e, Absent)
    BY <1>1, <1>2, <1>3, <1>4, FailStep
  <1>5. ASSUME NEW m \in Markets, Returns(c, Nil, [view_market_response |-> MarketToProto(m)])
        PROVE  RpcInv'
    <2> DEFINE b == [view_market_response |-> MarketToProto(m)]
               q == Returned(c, Nil, b)
    <2>1. b \in ViewMarketResponse /\ ViewMarketResponseViolations(b) = {}
      BY MarketToProtoIsOK
         DEF ViewMarketResponse, ViewMarketResponseViolations, Accepted, Unless
    <2>2. /\ q.at = "returned" /\ q.err = Nil /\ q.body = b /\ q.method = "ViewMarketsByID"
      BY <1>1, <1>2, ReturnedFields
    <2> HIDE DEF q, b
    <2>5. OrdersIn(q.method, q.body) = {}
      BY <2>2, OrdersOfBodies, OtherBodies
    <2>3. BodyOK(q)
      BY <2>1, <2>2, <2>5, Responses DEF BodyOK, ResponseViolations
    <2>4. PriceTold(q)
      BY <2>5 DEF PriceTold
    <2> QED
      BY <1>1, <1>2, <1>5, <2>3, <2>4, TellStep DEF q, b
  <1> QED
    BY <1>4, <1>5 DEF ViewMarketsByID

LEMMA ViewAllMarketsStep ==
  ASSUME RpcInv, NEW c \in Calls, ViewAllMarkets(c)
  PROVE  RpcInv'
  <1> DEFINE ids == {m.market_id : m \in Markets}
             MarketWith(i) == CHOOSE m \in Markets : m.market_id = i
  <1>1. /\ call[c].at \in Open /\ call[c].method = "ViewAllMarkets"
        /\ UNCHANGED <<sessions, orders, slots, unmetered, events, users, skipped, logged>>
    BY DEF ViewAllMarkets, Open, orderTables
  <1>2. call[c] # NoCall /\ CallOK(call[c])
    BY <1>1, OpenCall
  <1>3. CASE Returns(c, Infra, Absent)
    <2>1. Infra \in Errors(call[c].method)
      BY DEF Errors
    <2> QED
      BY <1>1, <1>2, <1>3, <2>1, FailStep
  <1>4. ASSUME NEW page \in SUBSET ids, NEW next \in ids \cup {NoToken},
               NEW list \in Listings(page),
               Returns(c, Nil,
                 [markets |-> [i \in DOMAIN list |-> MarketToProto(MarketWith(list[i]))],
                  next_page_token |-> next])
        PROVE  RpcInv'
    <2> DEFINE told == [i \in DOMAIN list |-> MarketToProto(MarketWith(list[i]))]
               b == [markets |-> told, next_page_token |-> next]
               q == Returned(c, Nil, b)
    <2>1. PICK n \in Nat : DOMAIN list = 1..n /\ list \in [1..n -> page]
      BY PageSizeAssumption DEF Listings
    <2>2. ASSUME NEW i \in 1..n
          PROVE  MarketWith(list[i]) \in Markets
      <3>1. list[i] \in ids
        BY <2>1
      <3> QED
        BY <3>1
    <2>3. /\ DOMAIN told = 1..n
          /\ \A i \in 1..n : told[i] = MarketToProto(MarketWith(list[i]))
      BY <2>1
    <2> HIDE DEF MarketWith
    <2>4. \A i \in 1..n : told[i] \in Market /\ MarketViolations(told[i]) = {}
      BY <2>2, <2>3, MarketToProtoIsOK
    <2>5. told \in Seq(Market)
      <3>1. told = [i \in 1..n |-> told[i]]
        BY <2>1
      <3> HIDE DEF told
      <3> QED
        BY <2>3, <2>4, <3>1
    <2>6. next \in Texts
      <3>1. \A m \in Markets : m.market_id \in Texts
        BY TextsAssumption, MarketsAssumption
      <3>2. ids \subseteq Texts
        BY <3>1
      <3> QED
        BY <3>2, EmptyText
    <2> HIDE DEF told
    <2>7. b \in ViewAllMarketsResponse /\ ViewAllMarketsResponseViolations(b) = {}
      BY <2>3, <2>4, <2>5, <2>6
         DEF ViewAllMarketsResponse, ViewAllMarketsResponseViolations, Accepted
    <2>8. q.at = "returned" /\ q.err = Nil /\ q.body = b /\ q.method = "ViewAllMarkets"
      BY <1>1, <1>2, ReturnedFields
    <2> HIDE DEF q, b
    <2>11. OrdersIn(q.method, q.body) = {}
      BY <2>8, OrdersOfBodies, OtherBodies
    <2>9. BodyOK(q)
      BY <2>7, <2>8, <2>11, Responses DEF BodyOK, ResponseViolations
    <2>10. PriceTold(q)
      BY <2>11 DEF PriceTold
    <2> QED
      BY <1>1, <1>2, <1>4, <2>9, <2>10, TellStep DEF q, b, told, MarketWith
  <1> QED
    BY <1>3, <1>4 DEF ViewAllMarkets

-----------------------------------------------------------------------------
(* The handlers that write.  What another call has told, or will tell,     *)
(* stays true: rows may change their status, never go, and none gets an id *)
(* that a call has still to draw.                                          *)

OrdersKept ==
  \A o \in orders : \E p \in orders' : p.order_id = o.order_id /\ p.price = o.price

(* A step of one call and another call.                                    *)
LEMMA KeepsUpNow ==
  ASSUME RpcInv, NEW d \in Calls
  PROVE  KeepsUp(call[d])
  BY IdleIsNoCall DEF RpcInv, CallInv, KeepsUp, Open

LEMMA OtherCall ==
  ASSUME RpcInv, NEW d \in Calls, call'[d] = call[d], Left(d)' => Left(d),
         users \subseteq users', OrdersKept, KeepsUp(call[d])'
  PROVE  CallInv(d, call[d])'
  <1>1. CallInv(d, call[d])
    BY DEF RpcInv
  <1>2. EffectOK(d, call[d])'
    BY <1>1 DEF CallInv, EffectOK, OrdersKept
  <1>3. (call[d] # NoCall => CallOK(call[d]))'
    BY <1>1 DEF CallInv
  <1>4. (call[d] # NoCall => ReadOK(call[d]))'
    BY <1>1 DEF CallInv, ReadOK, OrdersKept
  <1>5. (call[d] # NoCall => PriceTold(call[d]))'
    <2> SUFFICES ASSUME call[d] # NoCall, HasBody(call[d]),
                        NEW told \in OrdersIn(call[d].method, call[d].body)
                 PROVE  \E p \in orders' : /\ p.order_id = told.order_id
                                           /\ told.price = DecToMoney(p.price)
      BY DEF PriceTold
    <2>1. PICK o \in orders : o.order_id = told.order_id /\ told.price = DecToMoney(o.price)
      BY <1>1 DEF CallInv, PriceTold
    <2> QED
      BY <2>1 DEF OrdersKept
  <1> QED
    BY <1>2, <1>3, <1>4, <1>5 DEF CallInv

(* A slot is taken before the call counts as one that holds it.            *)
LEMMA CheckOrderQuotaStep ==
  ASSUME RpcInv, NEW c \in Calls, CheckOrderQuota(c), UNCHANGED <<skipped, users>>
  PROVE  RpcInv'
  <1>1. /\ call[c].at = "handler" /\ call[c].method = "CreateOrder"
        /\ UNCHANGED <<sessions, orders, events, users, skipped, logged>>
    BY DEF CheckOrderQuota
  <1>2. call[c].at \in Open /\ call[c].at \in Open \ {"validation", "session_auth"}
    BY <1>1 DEF Open
  <1>3. call[c] # NoCall /\ CallOK(call[c]) /\ CallInv(c, call[c]) /\ ~ Left(c)
    BY <1>2, OpenCall
  <1>4. CASE /\ \E e \in {NewError("Invalid"), Domain(ErrOrderQuotaExceeded)} :
                   Returns(c, e, Absent)
             /\ UNCHANGED <<slots, unmetered>>
    <2>1. {NewError("Invalid"), Domain(ErrOrderQuotaExceeded)} \subseteq Errors(call[c].method)
      BY <1>1, DomainErrors DEF OrderService, Errors
    <2> QED
      BY <1>1, <1>2, <1>3, <1>4, <2>1, FailStep
  <1> DEFINE u == CallerOf(c)
  <1>5. ASSUME call' = [call EXCEPT ![c].at = "quota passed"],
               \/ /\ slots[u] < QuotaLimit /\ slots' = [slots EXCEPT ![u] = @ + 1]
                  /\ unmetered' = unmetered
               \/ slots' = slots /\ unmetered' = unmetered \cup {c}
        PROVE  RpcInv'
    <2> DEFINE r == [call[c] EXCEPT !.at = "quota passed"]
    <2>1. call' = [call EXCEPT ![c] = r]
      BY <1>5
    <2>2. /\ DOMAIN r = CallFields /\ r.at = "quota passed"
          /\ r.method = "CreateOrder" /\ r.request = call[c].request
          /\ r.session = call[c].session
      BY <1>1, <1>3 DEF CallOK, CallFields
    <2> HIDE DEF r
    <2>3. /\ DOMAIN call' = Calls
          /\ \A d \in Calls : call'[d] = IF d = c THEN r ELSE call[d]
      BY <2>1 DEF RpcInv
    <2>4. r.at \in Open /\ r.at \notin Ended
      BY <2>2 DEF Open, Ended
    <2>5. CallOK(r)
      BY <1>1, <1>2, <1>3, <2>2, <2>4 DEF CallOK, HasBody
    <2>6. CallInv(c, r)
      BY <1>3, <2>2, <2>4, <2>5 DEF CallInv, EffectOK, ReadOK, KeepsUp, PriceTold, HasBody
    <2>7. ASSUME NEW d \in Calls
          PROVE  CallInv(d, call[d])'
      <3>1. CallInv(d, call'[d])
        BY <2>3, <2>6 DEF RpcInv
      <3> QED
        BY <1>1, <3>1 DEF CallInv, EffectOK, Left, ReadOK, KeepsUp, PriceTold, HasBody
    <2>8. TablesOK' /\ (\A e \in events : EventOK(e))' /\ skipped' = {}
      BY <1>1 DEF RpcInv, TablesOK, EventOK
    <2>9. SlotsOK'
      <3>1. u \in Users
        BY <1>1, <1>2, CallerIsUser, NeedsSessionAre
      <3>2. slots \in [Users -> 0..QuotaLimit]
        BY DEF RpcInv, SlotsOK
      <3>3. slots' \in [Users -> 0..QuotaLimit]
        <4>1. CASE slots[u] < QuotaLimit /\ slots' = [slots EXCEPT ![u] = @ + 1]
          <5>1. slots[u] \in 0..QuotaLimit
            BY <3>1, <3>2
          <5>2. slots[u] + 1 \in 0..QuotaLimit
            BY <4>1, <5>1, Limits
          <5> QED
            BY <3>2, <4>1, <5>2
        <4> QED
          BY <1>5, <3>2, <4>1
      <3>4. ASSUME NEW v \in Users
            PROVE  IsFiniteSet(Metered(v)') /\ Cardinality(Metered(v)') <= slots'[v]
        <4>1. /\ IsFiniteSet(Metered(v)) /\ Cardinality(Metered(v)) <= slots[v]
              /\ slots[v] \in Nat
          BY <3>2, Limits DEF RpcInv, SlotsOK
        <4>2. CASE v = u /\ slots' = [slots EXCEPT ![u] = @ + 1]
          <5>1. Metered(v)' \subseteq Metered(v) \cup {c}
            BY <1>1, <1>5, <2>3, <4>2 DEF Metered, OfUser, CallerOf
          <5>2. /\ IsFiniteSet(Metered(v) \cup {c})
                /\ Cardinality(Metered(v) \cup {c}) <= slots[v] + 1
            BY <4>1, OneMore
          <5>3. slots'[v] = slots[v] + 1
            BY <3>1, <3>2, <4>2
          <5>4. slots[v] + 1 \in Nat
            BY <4>1
          <5> HIDE DEF u
          <5> QED
            BY <5>1, <5>2, <5>3, <5>4, SmallerSet
        <4>3. CASE v # u \/ (unmetered' = unmetered \cup {c} /\ slots' = slots)
          <5>1. Metered(v)' \subseteq Metered(v)
            BY <1>1, <1>5, <2>2, <2>3, <4>3 DEF Metered, OfUser, CallerOf
          <5>2. slots'[v] = slots[v]
            BY <1>5, <3>2, <4>3
          <5> QED
            BY <4>1, <5>1, <5>2, SmallerSet
        <4>4. \/ slots' = [slots EXCEPT ![u] = @ + 1]
              \/ slots' = slots /\ unmetered' = unmetered \cup {c}
          BY <1>5
        <4>5. CASE v # u /\ slots' = [slots EXCEPT ![u] = @ + 1]
          BY <4>3, <4>5
        <4> HIDE DEF u
        <4> QED
          BY <4>2, <4>3, <4>4, <4>5
      <3> QED
        BY <3>3, <3>4 DEF SlotsOK
    <2>10. FailuresAreLogged'
      BY <1>1, <2>2, <2>3 DEF RpcInv, FailuresAreLogged, Answered
    <2> QED
      BY <2>3, <2>7, <2>8, <2>9, <2>10 DEF RpcInv
  <1> QED
    BY <1>4, <1>5 DEF CheckOrderQuota

(* What NewOrder lets pass.                                                *)
LEMMA AcceptedOrder ==
  ASSUME NEW amount, NEW price \in Int
  PROVE  OrderError(amount, price) = "" => amount = "positive" /\ price \in Nat \ {0}
  <1>1. ErrInvalidAmount # "" /\ ErrInvalidPrice # ""
    BY DEF ErrInvalidAmount, ErrInvalidPrice
  <1>2. ~ (price <= 0) => price \in Nat \ {0}
    OBVIOUS
  <1> QED
    BY <1>1, <1>2 DEF OrderError

(* The order that CreateOrder saves, and what it tells of it.              *)
LEMMA NewOrderIsRow ==
  ASSUME RpcInv, NEW c \in Calls, call[c].at = "quota passed",
         NEW o, o = NewOrder(c), OrderError(o.amount, o.price) = ""
  PROVE  /\ o \in OrderRow /\ Row(o) \in OrderRow
         /\ o.order_id = NewId[c] /\ Row(o).order_id = NewId[c]
         /\ o.user_id = CallerOf(c) /\ Row(o).user_id = CallerOf(c)
         /\ call[c].request.price \in Money /\ Row(o).price = o.price
         /\ o.price = Amount(call[c].request.price)
  <1> DEFINE m == call[c].request
  <1>1. /\ call[c].method = "CreateOrder" /\ m \in CreateOrderRequest
        /\ CreateOrderRequestViolations(m) = {}
    <2>1. call[c].at \in Open \ {"validation"}
      BY DEF Open
    <2>2. CallOK(call[c]) /\ call[c].method = "CreateOrder"
      BY <2>1, OpenCall DEF CallOK
    <2>3. RequestViolations("CreateOrder", m) = {}
      BY <2>1, <2>2 DEF CallOK, Streams
    <2> QED
      BY <2>2, <2>3, Requests DEF CallOK, RequestViolations
  <1>2. m.market_id \in Uuids /\ m.price \in Money
    BY <1>1 DEF CreateOrderRequest, CreateOrderRequestViolations, NotUuid, Unless
  <1>3. m.price # Absent
    BY <1>2, AbsentAssumption
  <1>4. CallerOf(c) \in Users
    BY <1>1, CallerIsUser, NeedsSessionAre DEF Open
  <1>5. /\ o.user_id = CallerOf(c) /\ o.order_id = NewId[c] /\ o.market_id = m.market_id
        /\ o.price = Amount(m.price) /\ o.amount = DecimalPBToDec(m.amount)
        /\ o.order_status = "ORDER_CREATED"
    BY <1>3 DEF NewOrder, MoneyToDec
  <1>6. Amount(m.price) \in Int
    BY <1>2, AmountIsInt
  <1>7. o.amount = "positive" /\ o.price \in Nat \ {0}
    <2>1. o.price \in Int
      BY <1>5, <1>6
    <2> QED
      BY <2>1, AcceptedOrder
  <1>8. NewId[c] \in Users /\ NewId[c] \in Uuids
    BY OrderApiAssumption
  <1>9. o = [user_id |-> o.user_id, order_id |-> o.order_id, market_id |-> o.market_id,
             price |-> o.price, amount |-> o.amount, order_status |-> o.order_status]
    BY DEF NewOrder
  <1> HIDE DEF m
  <1>10. o \in OrderRow
    BY <1>2, <1>4, <1>5, <1>6, <1>7, <1>8, <1>9 DEF OrderRow, OrderStatus
  <1>11. UuidOf[o.market_id] \in Uuids
    BY <1>2, <1>5, TextsAssumption
  <1>12. /\ Row(o) \in OrderRow /\ Row(o).order_id = o.order_id
         /\ Row(o).user_id = o.user_id /\ Row(o).price = o.price
    BY <1>10, <1>11 DEF OrderRow, Row
  <1> QED
    BY <1>2, <1>5, <1>10, <1>12 DEF m

(* The order is stored under the call's own id, its slot is the call's.    *)
LEMMA SaveNewOrderStep ==
  ASSUME RpcInv, NEW c \in Calls, SaveNewOrder(c), UNCHANGED <<skipped, users>>
  PROVE  RpcInv'
  <1> DEFINE o == NewOrder(c)
             refused == OrderError(o.amount, o.price)
  <1>1. /\ call[c].at = "quota passed"
        /\ UNCHANGED <<sessions, slots, unmetered, users, skipped, logged>>
    BY DEF SaveNewOrder
  <1>2. call[c].at \in Open /\ call[c].at \in Open \ {"validation", "session_auth"}
    BY <1>1 DEF Open
  <1>3. call[c] # NoCall /\ CallOK(call[c]) /\ CallInv(c, call[c]) /\ ~ Left(c)
    BY <1>2, OpenCall
  <1>4. call[c].method = "CreateOrder"
    BY <1>1, <1>3 DEF CallOK
  <1>5. CASE /\ \E e \in {Domain(refused), Infra} :
                   Returns(c, e, Absent) /\ (e = Domain(refused) => refused # "")
             /\ UNCHANGED <<orders, events>>
    <2>1. refused \in {"", ErrInvalidAmount, ErrInvalidPrice}
      BY DEF OrderError
    <2>2. refused # "" => Domain(refused) \in Errors(call[c].method)
      BY <1>4, <2>1, DomainErrors DEF OrderService
    <2>3. Infra \in Errors(call[c].method)
      BY DEF Errors
    <2> HIDE DEF refused
    <2> QED
      BY <1>1, <1>2, <1>3, <1>5, <2>2, <2>3, FailStep
  <1>6. ASSUME refused = "", InDatabase(o), orders' = orders \cup {Row(o)},
               events' = events \cup {OrderCreatedOf(o)},
               \/ Returns(c, Infra, Absent)
               \/ Returns(c, Nil, [create_order_response |-> OrderToProto(o)])
        PROVE  RpcInv'
    <2>1. /\ o \in OrderRow /\ Row(o) \in OrderRow
          /\ o.order_id = NewId[c] /\ Row(o).order_id = NewId[c]
          /\ o.user_id = CallerOf(c) /\ Row(o).user_id = CallerOf(c)
          /\ call[c].request.price \in Money /\ o.price = Amount(call[c].request.price)
          /\ Row(o).price = o.price
      BY <1>1, <1>6, NewOrderIsRow
    <2>2. PICK q : /\ call' = [call EXCEPT ![c] = q]
                   /\ \/ q = Returned(c, Infra, Absent)
                      \/ q = Returned(c, Nil, [create_order_response |-> OrderToProto(o)])
      BY <1>6 DEF Returns
    <2>3. /\ DOMAIN q = CallFields /\ q.at = "returned" /\ q.method = "CreateOrder"
          /\ q.request = call[c].request /\ q.session = call[c].session
          /\ \/ q.err = Infra
             \/ q.err = Nil /\ q.body = [create_order_response |-> OrderToProto(o)]
      BY <1>3, <1>4, <2>2, ReturnedFields
    <2> HIDE DEF o, refused
    <2>4. /\ DOMAIN call' = Calls
          /\ \A d \in Calls : call'[d] = IF d = c THEN q ELSE call[d]
      BY <2>2 DEF RpcInv
    <2>5. \A p \in orders : p.order_id # NewId[c]
      BY <1>3 DEF Left
    <2>6. Canonical(NewId[c])
      BY OrderApiAssumption DEF Canonical
    <2>7. TablesOK'
      <3>1. orders' \subseteq OrderRow /\ \A p \in orders' : Canonical(p.order_id)
        BY <1>6, <2>1, <2>6 DEF RpcInv, TablesOK
      <3>2. \A p, s \in orders' : p.order_id = s.order_id => p = s
        BY <1>6, <2>1, <2>5 DEF RpcInv, TablesOK
      <3> QED
        BY <1>1, <3>1, <3>2 DEF RpcInv, TablesOK
    <2>8. (\A e \in events : EventOK(e))'
      <3> DEFINE e == OrderCreatedOf(o)
      <3>1. /\ e.type = "OrderCreated" /\ e.payload.order_id = o.order_id
            /\ e.payload.user_id = o.user_id /\ e.payload.market_id = o.market_id
            /\ e.payload.price = "a number" /\ e.payload.amount = o.amount
            /\ e.payload.status = o.order_status
        BY DEF OrderCreatedOf, Event
      <3>2. /\ o.user_id \in Uuids /\ o.market_id \in Uuids /\ o.amount = "positive"
            /\ o.order_status # ""
        BY <2>1, OrderApiAssumption DEF OrderRow, OrderStatus
      <3> HIDE DEF e
      <3>3. EventOK(e)
        BY <2>1, <2>6, <3>1, <3>2 DEF EventOK
      <3>4. \A f \in events : EventOK(f)
        BY DEF RpcInv
      <3> QED
        BY <1>6, <3>3, <3>4 DEF e, EventOK
    <2>9. CallInv(c, call[c])'
      <3>1. BodyOK(q) \/ q.err = Infra
        <4> SUFFICES ASSUME q.err = Nil,
                            q.body = [create_order_response |-> OrderToProto(o)]
                     PROVE  BodyOK(q)
          BY <2>3
        <4>1. q.body.create_order_response = OrderToProto(o)
          OBVIOUS
        <4>2. q.body \in CreateOrderResponse /\ CreateOrderResponseViolations(q.body) = {}
          BY <2>1, <4>1, RowToProto
             DEF CreateOrderResponse, CreateOrderResponseViolations, Accepted, Unless
        <4> QED
          BY <2>1, <2>3, <4>1, <4>2, RowToProto, Responses, OrdersOfBodies
             DEF BodyOK, ResponseViolations, CallerOf
      <3>2. Infra \in Errors(q.method) /\ Infra # Nil /\ Infra.kind = "infra"
        BY DEF Errors, Infra, Nil
      <3>3. q.at \in Ended /\ q.at \notin Open /\ q # NoCall
        BY <2>3, IdleIsNoCall DEF Ended
      <3>4. CallOK(q)
        <4>1. /\ q.err \in Errors(q.method) \cup {Nil}
              /\ HasBody(q) => BodyOK(q)
          BY <2>3, <3>1, <3>2 DEF HasBody
        <4>2. q.method \in Methods /\ q.request \in Request(q.method)
          BY <1>3, <1>4, <2>3 DEF CallOK
        <4> QED
          BY <2>3, <3>3, <4>1, <4>2 DEF CallOK
      <3>5. \E p \in orders' : p.order_id = NewId[c]
        BY <1>6, <2>1
      <3>6. call'[c] = q
        BY <2>4
      <3>7. Nil.kind = "nil"
        BY DEF Nil
      <3>8. EffectOK(c, call[c])'
        BY <2>3, <3>2, <3>3, <3>5, <3>6, <3>7 DEF EffectOK
      <3>9. PriceTold(call[c])'
        <4> SUFFICES ASSUME q.err = Nil,
                            q.body = [create_order_response |-> OrderToProto(o)]
                     PROVE  \A told \in OrdersIn(q.method, q.body) :
                              \E p \in orders' : /\ p.order_id = told.order_id
                                                /\ told.price = DecToMoney(p.price)
          BY <2>3, <3>2, <3>6 DEF PriceTold, HasBody
        <4>1. OrdersIn(q.method, q.body) = {OrderToProto(o)}
          BY <2>3, OrdersOfBodies
        <4>2. /\ OrderToProto(o).order_id = o.order_id
              /\ OrderToProto(o).price = DecToMoney(o.price)
          BY <2>1, RowToProto
        <4>3. Row(o) \in orders'
          BY <1>6
        <4> QED
          BY <2>1, <4>1, <4>2, <4>3
      <3> QED
        BY <2>3, <3>4, <3>6, <3>8, <3>9 DEF CallInv, ReadOK, KeepsUp
    <2>10. ASSUME NEW d \in Calls, d # c
           PROVE  CallInv(d, call[d])'
      <3>1. call'[d] = call[d] /\ NewId[d] # NewId[c]
        BY <2>4, <2>10, OrderApiAssumption
      <3>2. Left(d)' => Left(d)
        BY <1>1, <1>6, <2>1, <3>1 DEF Left
      <3>3. OrdersKept
        BY <1>6 DEF OrdersKept
      <3>4. KeepsUp(call[d])'
        <4> SUFFICES ASSUME call[d].at = "streaming", NEW p \in orders',
                            call[d].request.order_id = p.order_id,
                            \A e \in events' :
                              e.type = "OrderStatusChanged" => e.payload.order_id # p.order_id
                     PROVE  call[d].body.order_status_response.order_status = p.order_status
          BY <3>1 DEF KeepsUp
        <4>1. ReadOK(call[d]) /\ KeepsUp(call[d])
          BY IdleIsNoCall DEF RpcInv, CallInv, Open
        <4>2. p # Row(o)
          BY <2>1, <2>5, <2>6, <4>1 DEF ReadOK, Canonical
        <4> QED
          BY <1>6, <4>1, <4>2 DEF KeepsUp
      <3> QED
        BY <1>1, <3>1, <3>2, <3>3, <3>4, OtherCall
    <2>11. SlotsOK'
      <3>1. ASSUME NEW u \in Users
            PROVE  IsFiniteSet(Metered(u)') /\ Cardinality(Metered(u)') <= slots[u]
        <4>1. /\ IsFiniteSet(Metered(u)) /\ Cardinality(Metered(u)) <= slots[u]
              /\ slots[u] \in Nat
          BY Limits DEF RpcInv, SlotsOK
        <4>2. ASSUME NEW d \in Metered(u)'
              PROVE  d \in Metered(u)
          <5>1. d \in Calls \ unmetered
            BY <1>1 DEF Metered
          <5>2. CASE d = c
            <6>1. ~ (call'[c].at = "quota passed")
              BY <2>3, <2>4
            <6>2. PICK p \in orders' : p.user_id = u /\ p.order_id = NewId[c]
              BY <5>2, <6>1 DEF Metered, OfUser
            <6>3. p = Row(o)
              BY <1>6, <2>5, <6>2
            <6> QED
              BY <1>1, <2>1, <5>1, <5>2, <6>2, <6>3 DEF Metered
          <5>3. CASE d # c
            <6>1. call'[d] = call[d] /\ NewId[d] # NewId[c]
              BY <2>4, <5>1, <5>3, OrderApiAssumption
            <6> QED
              BY <1>6, <2>1, <5>1, <6>1 DEF Metered, OfUser, CallerOf
          <5> QED
            BY <5>2, <5>3
        <4> QED
          BY <4>1, <4>2, SmallerSet
      <3> QED
        BY <1>1, <3>1 DEF RpcInv, SlotsOK
    <2>12. FailuresAreLogged'
      BY <1>1, <2>3, <2>4 DEF RpcInv, FailuresAreLogged, Answered
    <2> QED
      BY <1>1, <2>4, <2>7, <2>8, <2>9, <2>10, <2>11, <2>12 DEF RpcInv
  <1> QED
    <2>1. CASE refused # ""
      BY <1>5, <2>1 DEF SaveNewOrder
    <2>2. CASE refused = ""
      <3>1. PICK committed \in BOOLEAN, failed \in BOOLEAN :
              /\ committed => InDatabase(o)
              /\ committed \/ failed
              /\ orders' = IF committed THEN orders \cup {Row(o)} ELSE orders
              /\ events' = IF committed THEN events \cup {OrderCreatedOf(o)} ELSE events
              /\ IF failed THEN Returns(c, Infra, Absent)
                 ELSE Returns(c, Nil, [create_order_response |-> OrderToProto(o)])
        BY <2>2 DEF SaveNewOrder
      <3>2. CASE committed
        BY <1>6, <2>2, <3>1, <3>2
      <3>3. CASE ~ committed
        <4>1. Infra # Domain(refused)
          BY DEF Infra, Domain
        <4> HIDE DEF o, refused
        <4> QED
          BY <1>5, <3>1, <3>3, <4>1
      <3> QED
        BY <3>2, <3>3
    <2> QED
      BY <2>1, <2>2

(* A user is stored under the call's own id.                               *)
LEMMA UserRegistrationStep ==
  ASSUME RpcInv, NEW c \in Calls, UserRegistration(c)
  PROVE  RpcInv'
  <1> DEFINE m == call[c].request
             new == [user_id |-> NewId[c], user_name |-> m.user_name,
                     user_password |-> m.user_password, user_role |-> "free"]
             told == [user_name |-> m.user_name, user_role |-> PlanToProto("free")]
  <1>1. /\ call[c].at \in Open /\ call[c].at \in Open \ {"validation"}
        /\ call[c].at # "quota passed" /\ call[c].method = "UserRegistration"
        /\ UNCHANGED <<sessions, orders, slots, unmetered, events, skipped, logged>>
    BY DEF UserRegistration, Open, orderTables
  <1>2. call[c] # NoCall /\ CallOK(call[c]) /\ CallInv(c, call[c]) /\ ~ Left(c)
    BY <1>1, OpenCall
  <1>3. m.user_name \in Names /\ m.user_password \in Secrets
    <2>1. RequestViolations("UserRegistration", m) = {}
      BY <1>1, <1>2 DEF CallOK, Streams
    <2> QED
      BY <2>1 DEF RequestViolations, RegisterRequestViolations, Unless
  <1>4. {Infra, Domain(ErrUserAlreadyExists)} \subseteq Errors(call[c].method)
    BY <1>1, DomainErrors DEF Errors
  <1>5. CASE /\ \E e \in {Infra, Domain(ErrUserAlreadyExists)} : Returns(c, e, Absent)
             /\ users' = users
    BY <1>1, <1>2, <1>4, <1>5, FailStep
  <1>6. ASSUME users' = users \cup {new}, Returns(c, Infra, Absent) \/ Returns(c, Nil, told)
        PROVE  RpcInv'
    <2>1. PICK q : /\ call' = [call EXCEPT ![c] = q]
                   /\ q \in {Returned(c, Infra, Absent), Returned(c, Nil, told)}
      BY <1>6 DEF Returns
    <2> HIDE DEF told
    <2>2. /\ DOMAIN q = CallFields /\ q.at = "returned" /\ q.method = "UserRegistration"
          /\ q.request = call[c].request
          /\ \/ q.err = Infra
             \/ q.err = Nil /\ q.body = told
      <3>1. CallOK(call[c]) /\ call[c].method = "UserRegistration"
        BY <1>1, <1>2
      <3>2. CASE q = Returned(c, Infra, Absent)
        BY <3>1, <3>2, ReturnedFields
      <3>3. CASE q = Returned(c, Nil, told)
        BY <3>1, <3>3, ReturnedFields
      <3> QED
        BY <2>1, <3>2, <3>3
    <2>3. new.user_id = NewId[c] /\ new \in UserRow
      BY <1>3, OrderApiAssumption DEF UserRow, Plans
    <2>4. told \in RegisterResponse /\ RegisterResponseViolations(told) = {}
      <3>1. PlanToProto("free") = "FREE_PLAN_USER"
        BY DEF PlanToProto
      <3>2. "FREE_PLAN_USER" \in UserRoles \ {"UNAUTHORISED_USER"}
        BY DEF UserRoles
      <3>3. told \in RegisterResponse
        BY <1>3, <3>1, <3>2, TextsAssumption DEF RegisterResponse, told
      <3>4. told.user_role \in UserRoles \ {"UNAUTHORISED_USER"}
        BY <3>1, <3>2 DEF told
      <3> QED
        BY <3>3, <3>4 DEF RegisterResponseViolations, RoleIsKnown, Unless
    <2> HIDE DEF new, m
    <2>5. /\ DOMAIN call' = Calls
          /\ \A d \in Calls : call'[d] = IF d = c THEN q ELSE call[d]
      BY <2>1 DEF RpcInv
    <2>6. TablesOK'
      BY <1>1, <1>6, <2>3 DEF RpcInv, TablesOK
    <2>7. (\A e \in events : EventOK(e))' /\ skipped' = {}
      BY <1>1 DEF RpcInv, EventOK
    <2>8. CallInv(c, call[c])'
      <3>1. Infra \in Errors(q.method) /\ Infra # Nil /\ Infra.kind = "infra"
        BY DEF Errors, Infra, Nil
      <3>2. q.err \in Errors(q.method) \cup {Nil}
        BY <2>2, <3>1
      <3>10. OrdersIn(q.method, q.body) = {}
        BY <2>2, OrdersOfBodies, OtherBodies
      <3>3. HasBody(q) => BodyOK(q)
        BY <2>2, <2>4, <3>1, <3>10, Responses DEF BodyOK, HasBody, ResponseViolations
      <3>4. q.at \in Ended /\ q.at \notin Open /\ q # NoCall
        BY <2>2, IdleIsNoCall DEF Ended
      <3>5. CallOK(q)
        <4>1. q.method \in Methods /\ q.request \in Request(q.method)
          BY <1>1, <1>2, <2>2 DEF CallOK
        <4> QED
          BY <2>2, <3>2, <3>3, <3>4, <4>1 DEF CallOK
      <3>6. \E u \in users' : u.user_id = NewId[c]
        BY <1>6, <2>3
      <3>7. call'[c] = q
        BY <2>5
      <3>8. Nil.kind = "nil"
        BY DEF Nil
      <3>9. EffectOK(c, call[c])'
        BY <2>2, <3>1, <3>4, <3>6, <3>7, <3>8 DEF EffectOK
      <3> QED
        BY <2>2, <3>5, <3>7, <3>9, <3>10 DEF CallInv, ReadOK, KeepsUp, PriceTold
    <2>9. ASSUME NEW d \in Calls, d # c
          PROVE  CallInv(d, call[d])'
      <3>1. call'[d] = call[d] /\ NewId[d] # NewId[c]
        BY <2>5, <2>9, OrderApiAssumption
      <3>2. Left(d)' => Left(d)
        BY <1>1, <1>6, <2>3, <3>1 DEF Left
      <3>3. OrdersKept
        BY <1>1 DEF OrdersKept
      <3>4. KeepsUp(call[d])'
        BY <1>1, <3>1, KeepsUpNow DEF KeepsUp
      <3> QED
        BY <1>6, <3>1, <3>2, <3>3, <3>4, OtherCall
    <2>10. SlotsOK'
      <3>1. ASSUME NEW u \in Users
            PROVE  IsFiniteSet(Metered(u)') /\ Cardinality(Metered(u)') <= slots[u]
        <4>1. /\ IsFiniteSet(Metered(u)) /\ Cardinality(Metered(u)) <= slots[u]
              /\ slots[u] \in Nat
          BY Limits DEF RpcInv, SlotsOK
        <4>2. Metered(u)' \subseteq Metered(u)
          BY <1>1, <2>2, <2>5 DEF Metered, OfUser, CallerOf
        <4> QED
          BY <4>1, <4>2, SmallerSet
      <3> QED
        BY <1>1, <3>1 DEF RpcInv, SlotsOK
    <2>11. FailuresAreLogged'
      BY <1>1, <2>2, <2>5 DEF RpcInv, FailuresAreLogged, Answered
    <2> QED
      BY <2>5, <2>6, <2>7, <2>8, <2>9, <2>10, <2>11 DEF RpcInv
  <1>7. PICK committed \in BOOLEAN, failed \in BOOLEAN :
          /\ committed \/ failed
          /\ users' = IF committed THEN users \cup {new} ELSE users
          /\ \/ failed /\ Returns(c, Infra, Absent)
             \/ failed /\ ~ committed /\ Returns(c, Domain(ErrUserAlreadyExists), Absent)
             \/ ~ failed /\ Returns(c, Nil, told)
    BY DEF UserRegistration
  <1>8. CASE committed
    BY <1>6, <1>7, <1>8
  <1>9. CASE ~ committed
    BY <1>5, <1>7, <1>9
  <1> QED
    BY <1>8, <1>9

(* A session is stored under the call's own id.                            *)
LEMMA UserLoginStep ==
  ASSUME RpcInv, NEW c \in Calls, UserLogin(c)
  PROVE  RpcInv'
  <1>1. /\ call[c].at \in Open /\ call[c].at # "quota passed"
        /\ call[c].method = "UserLogin"
        /\ UNCHANGED <<orders, slots, unmetered, events, users, skipped, logged>>
    BY DEF UserLogin, Open, orderTables
  <1>2. call[c] # NoCall /\ CallOK(call[c]) /\ CallInv(c, call[c]) /\ ~ Left(c)
    BY <1>1, OpenCall
  <1> DEFINE refusals == {Infra, Domain(ErrInvalidCredentials), Domain(ErrTooManyLoginAttempts)}
  <1>3. refusals \subseteq Errors(call[c].method)
    BY <1>1, DomainErrors DEF Errors
  <1>4. CASE (\E e \in refusals : Returns(c, e, Absent)) /\ UNCHANGED sessions
    BY <1>1, <1>2, <1>3, <1>4, FailStep
  <1>5. ASSUME NEW u \in users,
               sessions' = sessions \cup
                 {[session_id |-> NewId[c], user_id |-> u.user_id, role |-> u.user_role]},
               \/ Returns(c, Infra, Absent)
               \/ Returns(c, Nil, [user_id |-> u.user_id, session_id |-> NewId[c]])
        PROVE  RpcInv'
    <2> DEFINE new == [session_id |-> NewId[c], user_id |-> u.user_id, role |-> u.user_role]
               told == [user_id |-> u.user_id, session_id |-> NewId[c]]
    <2>1. PICK q : /\ call' = [call EXCEPT ![c] = q]
                   /\ q \in {Returned(c, Infra, Absent), Returned(c, Nil, told)}
      BY <1>5 DEF Returns
    <2> HIDE DEF told
    <2>2. /\ DOMAIN q = CallFields /\ q.at = "returned" /\ q.method = "UserLogin"
          /\ q.request = call[c].request
          /\ \/ q.err = Infra
             \/ q.err = Nil /\ q.body = told
      <3>1. CallOK(call[c]) /\ call[c].method = "UserLogin"
        BY <1>1, <1>2
      <3>2. CASE q = Returned(c, Infra, Absent)
        BY <3>1, <3>2, ReturnedFields
      <3>3. CASE q = Returned(c, Nil, told)
        BY <3>1, <3>3, ReturnedFields
      <3> QED
        BY <2>1, <3>2, <3>3
    <2>3. u.user_id \in Users /\ u.user_role \in Plans
      BY DEF RpcInv, TablesOK, UserRow
    <2>4. new \in SessionRow /\ new.session_id = NewId[c] /\ new.user_id = u.user_id
      BY <2>3, OrderApiAssumption DEF SessionRow
    <2>5. told \in LoginResponse /\ LoginResponseViolations(told) = {}
      <3>1. u.user_id \in Uuids /\ NewId[c] \in Uuids
        BY <2>3, OrderApiAssumption
      <3>2. told.user_id = u.user_id /\ told.session_id = NewId[c]
        BY DEF told
      <3>3. told \in LoginResponse
        BY <3>1, TextsAssumption DEF LoginResponse, told
      <3>4. LoginResponseViolations(told) = {}
        BY <3>1, <3>2 DEF LoginResponseViolations, NotUuid
      <3> QED
        BY <3>3, <3>4
    <2>6. sessions' = sessions \cup {new}
      BY <1>5
    <2> HIDE DEF new
    <2>7. /\ DOMAIN call' = Calls
          /\ \A d \in Calls : call'[d] = IF d = c THEN q ELSE call[d]
      BY <2>1 DEF RpcInv
    <2>8. TablesOK'
      BY <1>1, <2>4, <2>6 DEF RpcInv, TablesOK
    <2>9. (\A e \in events : EventOK(e))' /\ skipped' = {}
      BY <1>1 DEF RpcInv, EventOK
    <2>10. CallInv(c, call[c])'
      <3>1. Infra \in Errors(q.method) /\ Infra # Nil /\ Infra.kind = "infra"
        BY DEF Errors, Infra, Nil
      <3>2. q.err \in Errors(q.method) \cup {Nil}
        BY <2>2, <3>1
      <3>10. OrdersIn(q.method, q.body) = {}
        BY <2>2, OrdersOfBodies, OtherBodies
      <3>3. HasBody(q) => BodyOK(q)
        BY <2>2, <2>5, <3>1, <3>10, Responses DEF BodyOK, HasBody, ResponseViolations
      <3>4. q.at \in Ended /\ q.at \notin Open /\ q # NoCall
        BY <2>2, IdleIsNoCall DEF Ended
      <3>5. CallOK(q)
        <4>1. q.method \in Methods /\ q.request \in Request(q.method)
          BY <1>1, <1>2, <2>2 DEF CallOK
        <4> QED
          BY <2>2, <3>2, <3>3, <3>4, <4>1 DEF CallOK
      <3>6. call'[c] = q
        BY <2>7
      <3>7. Nil.kind = "nil"
        BY DEF Nil
      <3>8. EffectOK(c, call[c])'
        BY <2>2, <3>1, <3>4, <3>6, <3>7 DEF EffectOK
      <3> QED
        BY <2>2, <3>5, <3>6, <3>8, <3>10 DEF CallInv, ReadOK, KeepsUp, PriceTold
    <2>11. ASSUME NEW d \in Calls, d # c
           PROVE  CallInv(d, call[d])'
      <3>1. call'[d] = call[d] /\ NewId[d] # NewId[c]
        BY <2>7, <2>11, OrderApiAssumption
      <3>2. Left(d)' => Left(d)
        BY <1>1, <2>4, <2>6, <3>1 DEF Left
      <3>3. OrdersKept
        BY <1>1 DEF OrdersKept
      <3>4. KeepsUp(call[d])'
        BY <1>1, <3>1, KeepsUpNow DEF KeepsUp
      <3> QED
        BY <1>1, <3>1, <3>2, <3>3, <3>4, OtherCall
    <2>12. SlotsOK'
      <3>1. ASSUME NEW v \in Users
            PROVE  IsFiniteSet(Metered(v)') /\ Cardinality(Metered(v)') <= slots[v]
        <4>1. /\ IsFiniteSet(Metered(v)) /\ Cardinality(Metered(v)) <= slots[v]
              /\ slots[v] \in Nat
          BY Limits DEF RpcInv, SlotsOK
        <4>2. Metered(v)' \subseteq Metered(v)
          BY <1>1, <2>2, <2>7 DEF Metered, OfUser, CallerOf
        <4> QED
          BY <4>1, <4>2, SmallerSet
      <3> QED
        BY <1>1, <3>1 DEF RpcInv, SlotsOK
    <2>13. FailuresAreLogged'
      BY <1>1, <2>2, <2>7 DEF RpcInv, FailuresAreLogged, Answered
    <2> QED
      BY <2>7, <2>8, <2>9, <2>10, <2>11, <2>12, <2>13 DEF RpcInv
  <1> HIDE DEF refusals
  <1> QED
    <2>1. {Infra, Domain(ErrInvalidCredentials), Domain(ErrTooManyLoginAttempts)} = refusals
      BY DEF refusals
    <2> QED
      BY <1>4, <1>5, <2>1 DEF UserLogin

(* A session goes; a call keeps the one it was let in with.                *)
LEMMA SessionExpiresStep ==
  ASSUME RpcInv, NEW s \in sessions, SessionExpires(s), UNCHANGED accountTables
  PROVE  RpcInv'
  <1>1. /\ UNCHANGED <<call, logged, orders, slots, unmetered, events, skipped, users>>
        /\ sessions' \subseteq sessions
    BY DEF SessionExpires, accountTables, orderTables
  <1>2. ASSUME NEW d \in Calls
        PROVE  CallInv(d, call[d])'
    <2>1. Left(d)' => Left(d)
      BY <1>1 DEF Left
    <2>2. OrdersKept
      BY <1>1 DEF OrdersKept
    <2>3. KeepsUp(call[d])'
      BY <1>1, IdleIsNoCall DEF RpcInv, CallInv, KeepsUp, Open
    <2> QED
      BY <1>1, <2>1, <2>2, <2>3, OtherCall
  <1>3. TablesOK' /\ (\A e \in events : EventOK(e))' /\ skipped' = {}
    BY <1>1 DEF RpcInv, TablesOK, EventOK
  <1>4. SlotsOK'
    BY <1>1 DEF RpcInv, SlotsOK, Metered, OfUser, CallerOf
  <1> QED
    BY <1>1, <1>2, <1>3, <1>4 DEF RpcInv, FailuresAreLogged, Answered

-----------------------------------------------------------------------------
(* The saga.                                                               *)

(* A handler that passes the order on, without a new status.               *)
LEMMA PassOnStep ==
  ASSUME RpcInv, NEW e \in events, e.type # "OrderStatusChanged",
         NEW f, EventOK(f), f.type # "OrderStatusChanged",
         events' = (events \ {e}) \cup {f},
         UNCHANGED <<call, logged, sessions, orders, slots, unmetered, skipped, users>>
  PROVE  RpcInv'
  <1>1. ASSUME NEW d \in Calls
        PROVE  CallInv(d, call[d])'
    <2>1. Left(d)' => Left(d)
      BY DEF Left
    <2>2. OrdersKept
      BY DEF OrdersKept
    <2>3. KeepsUp(call[d])'
      <3> SUFFICES ASSUME call[d].at = "streaming", NEW o \in orders,
                          call[d].request.order_id = o.order_id,
                          \A g \in events' :
                            g.type = "OrderStatusChanged" => g.payload.order_id # o.order_id
                   PROVE  call[d].body.order_status_response.order_status = o.order_status
        BY DEF KeepsUp
      <3>1. \A g \in events :
              g.type = "OrderStatusChanged" => g.payload.order_id # o.order_id
        OBVIOUS
      <3> QED
        BY <3>1, KeepsUpNow DEF KeepsUp
    <2> QED
      BY <2>1, <2>2, <2>3, OtherCall
  <1>2. TablesOK' /\ (\A g \in events : EventOK(g))' /\ skipped' = {}
    BY DEF RpcInv, TablesOK, EventOK
  <1>3. SlotsOK'
    BY DEF RpcInv, SlotsOK, Metered, OfUser, CallerOf
  <1> QED
    BY <1>1, <1>2, <1>3 DEF RpcInv, FailuresAreLogged, Answered

(* Each handler builds a payload that the next one accepts.                *)
LEMMA HandleOrderCreatedStep ==
  ASSUME RpcInv, NEW e \in events, HandleOrderCreated(e),
         UNCHANGED <<logged, sessions, slots, unmetered, users>>
  PROVE  RpcInv'
  <1> DEFINE m == e.payload
             f == Event("ReserveStock", ReserveStockFor(m))
  <1>1. /\ e.type = "OrderCreated" /\ Canonical(m.order_id)
        /\ m.user_id \in Uuids /\ m.market_id \in Uuids
        /\ m.amount # "" /\ m.price # "" /\ m.status # ""
    BY DEF HandleOrderCreated, RpcInv, EventOK
  <1>2. OrderCreatedViolations(m) = {}
    BY <1>1 DEF OrderCreatedViolations, NotUuid, Canonical
  <1>3. events' = (events \ {e}) \cup {f} /\ UNCHANGED <<call, orders, skipped>>
    BY <1>2 DEF HandleOrderCreated, Handles
  <1>4. /\ f.type = "ReserveStock" /\ f.payload.order_id = m.order_id
        /\ f.payload.user_id = m.user_id /\ f.payload.market_id = m.market_id
        /\ f.payload.amount = m.amount
    BY DEF Event, ReserveStockFor
  <1> HIDE DEF f, m
  <1>5. EventOK(f)
    BY <1>1, <1>4 DEF EventOK
  <1> QED
    BY <1>1, <1>3, <1>4, <1>5, PassOnStep

LEMMA HandleReserveStockStep ==
  ASSUME RpcInv, NEW e \in events, HandleReserveStock(e),
         UNCHANGED <<logged, sessions, slots, unmetered, users>>
  PROVE  RpcInv'
  <1> DEFINE m == e.payload
             f == EmitReply(m)
  <1>1. /\ e.type = "ReserveStock" /\ Canonical(m.order_id)
        /\ m.user_id \in Uuids /\ m.market_id \in Uuids /\ m.amount # ""
    BY DEF HandleReserveStock, RpcInv, EventOK
  <1>2. ReserveStockViolations(m) = {}
    BY <1>1 DEF ReserveStockViolations, NotUuid, Unless, Canonical
  <1>3. events' = (events \ {e}) \cup {f} /\ UNCHANGED <<call, orders, skipped>>
    BY <1>2 DEF HandleReserveStock, Handles
  <1>4. /\ f.type \in {"StockReserved", "StockRejected"}
        /\ f.payload.order_id = m.order_id /\ f.payload.market_id = m.market_id
    BY DEF EmitReply, Event
  <1> HIDE DEF f, m
  <1>5. EventOK(f)
    BY <1>1, <1>4 DEF EventOK
  <1> QED
    BY <1>1, <1>3, <1>4, <1>5, PassOnStep

(* An update changes nothing of a row but its status.                      *)
LEMMA UpdatedRows ==
  ASSUME TablesOK, NEW id, NEW status \in {"ORDER_RESERVED", "ORDER_REJECTED"},
         UpdateStatus(id, status)
  PROVE  /\ \A o \in orders : \E p \in orders' :
              /\ p.order_id = o.order_id /\ p.user_id = o.user_id /\ p.price = o.price
         /\ \A p \in orders' : \E o \in orders :
              /\ p \in OrderRow
              /\ p.order_id = o.order_id /\ p.user_id = o.user_id /\ p.price = o.price
              /\ p = IF o.order_id = UuidOf[id] THEN [o EXCEPT !.order_status = status] ELSE o
  <1> DEFINE New(o) == IF o.order_id = UuidOf[id] THEN [o EXCEPT !.order_status = status] ELSE o
  <1>1. ASSUME NEW o \in orders
        PROVE  /\ New(o) \in OrderRow /\ New(o).order_id = o.order_id
               /\ New(o).user_id = o.user_id /\ New(o).price = o.price
    <2>1. o \in OrderRow
      BY DEF TablesOK
    <2>2. status \in OrderStatus \ {"UNREGISTERED_STATUS"}
      BY DEF OrderStatus
    <2> QED
      BY <2>1, <2>2 DEF OrderRow
  <1>2. orders' = {New(o) : o \in orders}
    BY DEF UpdateStatus
  <1> HIDE DEF New
  <1>3. ASSUME NEW o \in orders
        PROVE  New(o) \in orders'
    BY <1>2
  <1>4. ASSUME NEW p \in orders'
        PROVE  \E o \in orders : p = New(o)
    BY <1>2
  <1> QED
    BY <1>1, <1>3, <1>4 DEF New

(* A status changes, and its event is there as long as streams lag.        *)
LEMMA HandleReplyStep ==
  ASSUME RpcInv, NEW e \in events, HandleReply(e),
         UNCHANGED <<logged, sessions, slots, unmetered, users>>
  PROVE  RpcInv'
  <1> DEFINE m == e.payload
             status == IF e.type = "StockReserved" THEN "ORDER_RESERVED" ELSE "ORDER_REJECTED"
             f == Event("OrderStatusChanged", [order_id |-> m.order_id, status |-> status])
  <1>1. /\ e.type \in {"StockReserved", "StockRejected"} /\ Canonical(m.order_id)
        /\ m.market_id \in Uuids
    BY DEF HandleReply, RpcInv, EventOK
  <1>2. StockReservedViolations(m) = {} /\ StockRejectedViolations(m) = {}
    BY <1>1 DEF StockReservedViolations, StockRejectedViolations, NotUuid, Canonical
  <1>3. /\ events' = (events \ {e}) \cup {f} /\ UpdateStatus(m.order_id, status)
        /\ UNCHANGED <<call, skipped>>
    BY <1>2 DEF HandleReply, Handles
  <1>4. f.type = "OrderStatusChanged" /\ f.payload.order_id = m.order_id
    BY DEF Event
  <1>5. status \in {"ORDER_RESERVED", "ORDER_REJECTED"}
    OBVIOUS
  <1>6. UuidOf[m.order_id] = m.order_id
    BY <1>1 DEF Canonical
  <1> HIDE DEF f, status
  <1>7. /\ \A o \in orders : \E p \in orders' :
             p.order_id = o.order_id /\ p.user_id = o.user_id /\ p.price = o.price
        /\ \A p \in orders' : \E o \in orders :
             /\ p \in OrderRow
             /\ p.order_id = o.order_id /\ p.user_id = o.user_id /\ p.price = o.price
             /\ p = IF o.order_id = m.order_id THEN [o EXCEPT !.order_status = status] ELSE o
    BY <1>3, <1>5, <1>6, UpdatedRows DEF RpcInv
  <1> HIDE DEF m
  <1>8. TablesOK'
    <2>1. orders' \subseteq OrderRow /\ \A p \in orders' : Canonical(p.order_id)
      BY <1>7 DEF RpcInv, TablesOK
    <2>2. ASSUME NEW p \in orders', NEW s \in orders', p.order_id = s.order_id
          PROVE  p = s
      <3>1. PICK o \in orders :
               /\ p.order_id = o.order_id
               /\ p = IF o.order_id = m.order_id THEN [o EXCEPT !.order_status = status] ELSE o
        BY <1>7
      <3>2. PICK t \in orders :
               /\ s.order_id = t.order_id
               /\ s = IF t.order_id = m.order_id THEN [t EXCEPT !.order_status = status] ELSE t
        BY <1>7
      <3>3. o = t
        BY <2>2, <3>1, <3>2 DEF RpcInv, TablesOK
      <3> QED
        BY <3>1, <3>2, <3>3
    <2> QED
      BY <2>1, <2>2 DEF RpcInv, TablesOK
  <1>9. (\A g \in events : EventOK(g))' /\ skipped' = {}
    <2>1. EventOK(f)
      BY <1>1, <1>4 DEF EventOK
    <2>2. \A g \in events' : EventOK(g)
      BY <1>3, <2>1 DEF RpcInv
    <2> QED
      BY <1>3, <2>2 DEF RpcInv, EventOK
  <1>10. ASSUME NEW d \in Calls
         PROVE  CallInv(d, call[d])'
    <2>1. Left(d)' => Left(d)
      BY <1>7 DEF Left
    <2>2. OrdersKept
      BY <1>7 DEF OrdersKept
    <2>3. KeepsUp(call[d])'
      <3> SUFFICES ASSUME call[d].at = "streaming", NEW p \in orders',
                          call[d].request.order_id = p.order_id,
                          \A g \in events' :
                            g.type = "OrderStatusChanged" => g.payload.order_id # p.order_id
                   PROVE  call[d].body.order_status_response.order_status = p.order_status
        BY <1>3 DEF KeepsUp
      <3>1. p.order_id # m.order_id
        BY <1>3, <1>4
      <3>2. p \in orders
        BY <1>7, <3>1
      <3>3. \A g \in events :
              g.type = "OrderStatusChanged" => g.payload.order_id # p.order_id
        BY <1>1, <1>3
      <3> QED
        BY <3>2, <3>3, KeepsUpNow DEF KeepsUp
    <2> QED
      BY <1>3, <2>1, <2>2, <2>3, OtherCall
  <1>11. SlotsOK'
    <2>1. ASSUME NEW u \in Users
          PROVE  IsFiniteSet(Metered(u)') /\ Cardinality(Metered(u)') <= slots[u]
      <3>1. /\ IsFiniteSet(Metered(u)) /\ Cardinality(Metered(u)) <= slots[u]
            /\ slots[u] \in Nat
        BY Limits DEF RpcInv, SlotsOK
      <3>2. ASSUME NEW d \in Metered(u)'
            PROVE  d \in Metered(u)
        <4>1. d \in Calls \ unmetered /\ call'[d] = call[d]
          BY <1>3 DEF Metered
        <4>2. CASE call[d].at = "quota passed" /\ CallerOf(d) = u
          BY <4>1, <4>2 DEF Metered
        <4>3. ASSUME NEW p \in orders', p.user_id = u, p.order_id = NewId[d]
              PROVE  d \in Metered(u)
          <5>1. PICK o \in orders : p.order_id = o.order_id /\ p.user_id = o.user_id
            BY <1>7
          <5> QED
            BY <4>1, <4>3, <5>1 DEF Metered, OfUser
        <4> QED
          BY <4>1, <4>2, <4>3 DEF Metered, OfUser, CallerOf
      <3> QED
        BY <3>1, <3>2, SmallerSet
    <2> QED
      BY <2>1 DEF RpcInv, SlotsOK
  <1> QED
    BY <1>3, <1>8, <1>9, <1>10, <1>11 DEF RpcInv, FailuresAreLogged, Answered

(* The streams that the hub wakes, and those of other orders.              *)
LEMMA PublishStatusUpdateStep ==
  ASSUME RpcInv, NEW e \in events, PublishStatusUpdate(e),
         UNCHANGED <<logged, sessions, slots, unmetered, users>>
  PROVE  RpcInv'
  <1> DEFINE Woken(d) == call[d].at = "streaming" /\ call[d].request.order_id = e.payload.order_id
  <1>1. /\ e.type = "OrderStatusChanged" /\ events' = events \ {e}
        /\ UNCHANGED <<orders, skipped>>
        /\ DOMAIN call' = Calls
        /\ \A d \in Calls :
             call'[d] = IF Woken(d) THEN [call[d] EXCEPT !.at = "woken"] ELSE call[d]
    BY DEF PublishStatusUpdate
  <1>2. ASSUME NEW d \in Calls
        PROVE  /\ ~ Woken(d) => call'[d] = call[d]
               /\ Woken(d) => /\ call[d].at = "streaming" /\ call'[d].at = "woken"
                              /\ DOMAIN call'[d] = CallFields
                              /\ call'[d].method = call[d].method
                              /\ call'[d].request = call[d].request
                              /\ call'[d].session = call[d].session
                              /\ call'[d].body = call[d].body
                              /\ CallOK(call[d]) /\ ReadOK(call[d]) /\ ~ Left(d)
                              /\ PriceTold(call[d])
    <2>1. Woken(d) => call[d].at \in Open /\ call[d].at = "streaming"
      BY DEF Open
    <2>2. Woken(d) => call[d] # NoCall /\ CallInv(d, call[d]) /\ CallOK(call[d]) /\ ~ Left(d)
      BY <2>1, OpenCall
    <2> QED
      BY <1>1, <2>1, <2>2 DEF CallInv, CallOK, CallFields
  <1> HIDE DEF Woken
  <1>3. ASSUME NEW d \in Calls
        PROVE  CallInv(d, call[d])'
    <2>1. CASE Woken(d)
      <3> DEFINE r == call'[d]
      <3>1. r.at \in Open /\ r.at \notin Ended /\ r # NoCall
        BY <1>2, <2>1, IdleIsNoCall DEF Open, Ended
      <3>2. HasBody(call[d])
        <4>1. call[d].at = "streaming"
          BY <1>2, <2>1
        <4> QED
          BY ONLY <4>1 DEF HasBody
      <3>3. BodyOK(call[d]) /\ PriceTold(call[d])
        BY <1>2, <2>1, <3>2 DEF CallOK
      <3>4. BodyOK(r)
        BY <1>2, <2>1, <3>3 DEF BodyOK
      <3>5. CallOK(r)
        BY <1>2, <2>1, <3>1, <3>4 DEF CallOK, Open
      <3>6. EffectOK(d, call[d])'
        BY <1>1, <1>2, <2>1, <3>1 DEF EffectOK, Left
      <3>7. ReadOK(call[d])'
        BY <1>1, <1>2, <2>1 DEF ReadOK
      <3>8. KeepsUp(call[d])'
        BY <1>2, <2>1 DEF KeepsUp
      <3>9. PriceTold(call[d])'
        <4>1. OrdersIn(call'[d].method, call'[d].body)
                = OrdersIn(call[d].method, call[d].body)
          BY <1>2, <2>1
        <4>2. \A p \in OrdersIn(call[d].method, call[d].body) :
                \E o \in orders : o.order_id = p.order_id /\ p.price = DecToMoney(o.price)
          BY <3>2, <3>3 DEF PriceTold
        <4> QED
          BY <1>1, <4>1, <4>2 DEF PriceTold
      <3> QED
        BY <3>5, <3>6, <3>7, <3>8, <3>9 DEF CallInv
    <2>2. CASE ~ Woken(d)
      <3>1. Left(d)' => Left(d)
        BY <1>1 DEF Left
      <3>2. OrdersKept
        BY <1>1 DEF OrdersKept
      <3>3. KeepsUp(call[d])'
        <4> SUFFICES ASSUME call[d].at = "streaming", NEW o \in orders,
                            call[d].request.order_id = o.order_id,
                            \A g \in events' :
                              g.type = "OrderStatusChanged" => g.payload.order_id # o.order_id
                     PROVE  call[d].body.order_status_response.order_status = o.order_status
          BY <1>1, <1>2, <2>2 DEF KeepsUp
        <4>1. e.payload.order_id # o.order_id
          BY <2>2 DEF Woken
        <4>2. \A g \in events :
                g.type = "OrderStatusChanged" => g.payload.order_id # o.order_id
          BY <1>1, <4>1
        <4> QED
          BY <4>2, KeepsUpNow DEF KeepsUp
      <3> QED
        BY <1>2, <2>2, <3>1, <3>2, <3>3, OtherCall
    <2> QED
      BY <2>1, <2>2
  <1>4. TablesOK' /\ (\A g \in events : EventOK(g))' /\ skipped' = {}
    BY <1>1 DEF RpcInv, TablesOK, EventOK
  <1>5. SlotsOK'
    <2>1. ASSUME NEW u \in Users
          PROVE  IsFiniteSet(Metered(u)') /\ Cardinality(Metered(u)') <= slots[u]
      <3>1. /\ IsFiniteSet(Metered(u)) /\ Cardinality(Metered(u)) <= slots[u]
            /\ slots[u] \in Nat
        BY Limits DEF RpcInv, SlotsOK
      <3>2. Metered(u)' \subseteq Metered(u)
        BY <1>1, <1>2 DEF Metered, OfUser, CallerOf
      <3> QED
        BY <3>1, <3>2, SmallerSet
    <2> QED
      BY <2>1 DEF RpcInv, SlotsOK
  <1>6. FailuresAreLogged'
    BY <1>2 DEF RpcInv, FailuresAreLogged, Answered
  <1> QED
    BY <1>1, <1>3, <1>4, <1>5, <1>6 DEF RpcInv

-----------------------------------------------------------------------------
(* The invariant holds at the start and after every step.                  *)

LEMMA InitRpcInv == Init => RpcInv
  <1> SUFFICES ASSUME Init
               PROVE  RpcInv
    OBVIOUS
  <1>1. /\ call = [c \in Calls |-> NoCall] /\ skipped = {}
        /\ sessions = InitialSessions /\ users = InitialUsers /\ orders = InitialOrders
        /\ slots = [u \in Users |-> 0]
        /\ events = {OrderCreatedOf(o) : o \in {r \in orders : r.order_status = "ORDER_CREATED"}}
    BY DEF Init
  <1>2. ASSUME NEW c \in Calls
        PROVE  ~ Left(c) /\ call[c] = NoCall /\ call[c].at = "idle"
    BY <1>1, RpcServerAssumption, IdleIsNoCall DEF Left
  <1>3. ASSUME NEW c \in Calls
        PROVE  CallInv(c, call[c])
    BY <1>2, IdleIsNoCall DEF CallInv, EffectOK
  <1>4. TablesOK
    <2>1. \A o \in orders : o.order_id \in Uuids
      BY <1>1, RpcServerAssumption, OrderApiAssumption DEF OrderRow
    <2> QED
      BY <1>1, <2>1, RpcServerAssumption DEF TablesOK, Canonical
  <1>5. ASSUME NEW e \in events
        PROVE  EventOK(e)
    <2>1. PICK o \in orders : e = OrderCreatedOf(o)
      BY <1>1
    <2>2. /\ e.type = "OrderCreated" /\ e.payload.order_id = o.order_id
          /\ e.payload.user_id = o.user_id /\ e.payload.market_id = o.market_id
          /\ e.payload.price = "a number" /\ e.payload.amount = o.amount
          /\ e.payload.status = o.order_status
      BY <2>1 DEF OrderCreatedOf, Event
    <2>3. /\ o.user_id \in Uuids /\ o.market_id \in Uuids /\ o.amount # ""
          /\ o.order_status # "" /\ Canonical(o.order_id)
      BY <1>4, OrderApiAssumption DEF TablesOK, OrderRow, OrderStatus
    <2> QED
      BY <2>2, <2>3 DEF EventOK
  <1>6. SlotsOK
    <2>1. slots \in [Users -> 0..QuotaLimit]
      BY <1>1, OrderApiAssumption
    <2>2. ASSUME NEW u \in Users
          PROVE  IsFiniteSet(Metered(u)) /\ Cardinality(Metered(u)) <= slots[u]
      <3>1. Metered(u) = {}
        BY <1>2 DEF Metered, OfUser, Left
      <3>2. slots[u] = 0
        BY <1>1
      <3> QED
        BY <3>1, <3>2, FS_EmptySet
    <2> QED
      BY <2>1, <2>2 DEF SlotsOK
  <1>7. FailuresAreLogged
    BY <1>2 DEF FailuresAreLogged, Answered
  <1> QED
    BY <1>1, <1>3, <1>4, <1>5, <1>6, <1>7 DEF RpcInv

LEMMA NextRpcInv == RpcInv /\ [Next]_vars => RpcInv'
  <1> SUFFICES ASSUME RpcInv, [Next]_vars
               PROVE  RpcInv'
    OBVIOUS
  <1>1. ASSUME NEW c \in Calls, PipelineStep(c), UNCHANGED accountTables
        PROVE  RpcInv'
    BY <1>1, ReceiveStep, ValidationStep, PassStep, RefuseStep, AnswerStep, PanicStep
       DEF PipelineStep
  <1>2. ASSUME NEW c \in Calls, OrderApiStep(c), UNCHANGED <<skipped, users>>
        PROVE  RpcInv'
    BY <1>2, CheckOrderQuotaStep, SaveNewOrderStep, GetOrderStatusByIDStep,
       GetOrderStatusAllStep, SendUpdateStep, StreamIsLeftStep
       DEF OrderApiStep
  <1>3. ASSUME NEW c \in Calls, AccountApiStep(c)
        PROVE  RpcInv'
    BY <1>3, UserRegistrationStep, GetUserDataStep, ChangeUserPlanStep, UserLoginStep,
       ViewMarketsByIDStep, ViewAllMarketsStep
       DEF AccountApiStep
  <1>4. CASE SagaStep /\ UNCHANGED users
    BY <1>4, HandleOrderCreatedStep, HandleReserveStockStep, HandleReplyStep,
       PublishStatusUpdateStep
       DEF SagaStep
  <1>5. ASSUME NEW s \in sessions, SessionExpires(s), UNCHANGED accountTables
        PROVE  RpcInv'
    BY <1>5, SessionExpiresStep
  <1>6. CASE UNCHANGED vars
    <2>1. UNCHANGED <<call, logged, sessions, orders, slots, unmetered, events, skipped, users>>
      BY <1>6 DEF vars, pipeline, orderTables
    <2>2. ASSUME NEW d \in Calls
          PROVE  CallInv(d, call[d])'
      <3>1. Left(d)' => Left(d)
        BY <2>1 DEF Left
      <3>2. OrdersKept
        BY <2>1 DEF OrdersKept
      <3>3. KeepsUp(call[d])'
        BY <2>1, KeepsUpNow DEF KeepsUp
      <3> QED
        BY <2>1, <3>1, <3>2, <3>3, OtherCall
    <2>3. TablesOK' /\ (\A e \in events : EventOK(e))' /\ skipped' = {}
      BY <2>1 DEF RpcInv, TablesOK, EventOK
    <2>4. SlotsOK'
      BY <2>1 DEF RpcInv, SlotsOK, Metered, OfUser, CallerOf
    <2> QED
      BY <2>1, <2>2, <2>3, <2>4 DEF RpcInv, FailuresAreLogged, Answered
  <1> QED
    BY <1>1, <1>2, <1>3, <1>4, <1>5, <1>6 DEF Next

(* RpcInv holds in every state that the servers reach.                     *)
THEOREM RpcInvariance == Spec => []RpcInv
  BY InitRpcInv, NextRpcInv, PTL DEF Spec

-----------------------------------------------------------------------------
(* The properties.                                                         *)

(* The record of a call that was answered.                                 *)
LEMMA AnsweredCall ==
  ASSUME RpcInv, NEW c \in Calls, Answered(c)
  PROVE  /\ CallOK(call[c]) /\ EffectOK(c, call[c]) /\ PriceTold(call[c])
         /\ call[c].at \in Ended /\ call[c].method \in Methods
         /\ AnsweredOK(c) => call[c].err = Nil /\ BodyOK(call[c])
         /\ \/ call[c].err = Panicked /\ call[c].code = "Internal"
            \/ /\ call[c].err \in Errors(call[c].method) \cup {Nil}
               /\ call[c].code = ToGRPCStatus(call[c].err, call[c].method)
  <1>1. call[c].at = "answered" /\ call[c].at \in Ended /\ call[c] # NoCall
    BY IdleIsNoCall DEF Answered, Ended
  <1>2. CallOK(call[c]) /\ EffectOK(c, call[c]) /\ PriceTold(call[c])
    BY <1>1 DEF RpcInv, CallInv
  <1>3. \/ call[c].err = Panicked /\ call[c].code = "Internal"
        \/ /\ call[c].err \in Errors(call[c].method) \cup {Nil}
           /\ call[c].code = ToGRPCStatus(call[c].err, call[c].method)
    BY <1>1, <1>2 DEF CallOK
  <1>4. call[c].method \in Methods
    BY <1>2 DEF CallOK
  <1>5. AnsweredOK(c) => call[c].err = Nil
    BY <1>3, <1>4, CodesOfErrors DEF AnsweredOK
  <1>6. call[c].err = Nil => BodyOK(call[c])
    BY <1>1, <1>2 DEF CallOK, HasBody
  <1> QED
    BY <1>1, <1>2, <1>3, <1>4, <1>5, <1>6

(* The record of a call that has told its client something.                *)
LEMMA ToldCall ==
  ASSUME RpcInv, NEW c \in Calls, Told(c)
  PROVE  /\ BodyOK(call[c]) /\ PriceTold(call[c]) /\ HasBody(call[c])
         /\ Answered(c) \/ call[c].method = "StreamOrderUpdates"
  <1>1. CASE AnsweredOK(c)
    <2>1. Answered(c)
      BY <1>1 DEF AnsweredOK
    <2> QED
      BY <1>1, <2>1, AnsweredCall DEF HasBody
  <1>2. CASE call[c].at \in {"streaming", "woken"}
    <2>1. call[c] # NoCall
      BY <1>2, IdleIsNoCall DEF Open
    <2>2. CallOK(call[c]) /\ PriceTold(call[c])
      BY <2>1 DEF RpcInv, CallInv
    <2>3. HasBody(call[c])
      BY ONLY <1>2 DEF HasBody
    <2> QED
      BY <1>2, <2>2, <2>3 DEF CallOK
  <1> QED
    BY <1>1, <1>2 DEF Told

(* Calls, rows and sessions have their shapes: what a handler decodes is   *)
(* of its message, and what an interceptor makes of an error is one of the *)
(* codes the services know.                                                *)
THEOREM RpcTypeCorrect == Spec => []TypeOK
  <1>1. RpcInv => TypeOK
    <2> SUFFICES ASSUME RpcInv
                 PROVE  TypeOK
      OBVIOUS
    <2>1. ASSUME NEW c \in Calls, call[c] # NoCall
          PROVE  /\ call[c].at \in {"validation", "session_auth", "handler", "quota passed",
                                    "streaming", "woken", "returned", "answered"}
                 /\ call[c].request \in Request(call[c].method)
                 /\ Answered(c) => call[c].code \in Codes
      <3>1. CallOK(call[c])
        BY <2>1 DEF RpcInv, CallInv
      <3>2. ASSUME Answered(c)
            PROVE  call[c].code \in Codes
        BY <3>2, AnsweredCall, CodesOfErrors DEF Codes
      <3> QED
        BY <3>1, <3>2 DEF CallOK, Open, Ended
    <2> QED
      BY <2>1 DEF RpcInv, TablesOK, SlotsOK, TypeOK
  <1> QED
    BY <1>1, RpcInvariance, PTL

(* Whatever the request, an answer with the code OK, and each message of a *)
(* stream, obeys the rules of its message, though no interceptor checks    *)
(* it.                                                                     *)
THEOREM RpcAnswersMeetTheirRules == Spec => []AnswersMeetTheirRules
  <1>1. RpcInv => AnswersMeetTheirRules
    BY ToldCall DEF AnswersMeetTheirRules, BodyOK
  <1> QED
    BY <1>1, RpcInvariance, PTL

(* Whoever a request names, an answer tells only of the orders and the     *)
(* data of the session's user.                                             *)
THEOREM RpcAnswersBelongToTheCaller == Spec => []AnswersBelongToTheCaller
  <1>1. RpcInv => AnswersBelongToTheCaller
    BY ToldCall DEF AnswersBelongToTheCaller, OrdersTold, Tells, BodyOK, CallerOf
  <1> QED
    BY <1>1, RpcInvariance, PTL

(* Internal is never the code of an error of the domain: each one that a   *)
(* handler returns is registered with the interceptor of its service.      *)
THEOREM RpcInternalIsNoOutcome == Spec => []InternalIsNoOutcome
  <1>1. RpcInv => InternalIsNoOutcome
    <2>1. Panicked.kind = "panic"
      BY DEF Panicked
    <2> QED
      BY <2>1, AnsweredCall, CodesOfErrors DEF InternalIsNoOutcome
  <1> QED
    BY <1>1, RpcInvariance, PTL

(* No failure whose cause the client is not told goes without a line in    *)
(* the log.                                                                *)
THEOREM RpcFailuresAreLogged == Spec => []FailuresAreLogged
  <1>1. RpcInv => FailuresAreLogged
    BY DEF RpcInv
  <1> QED
    BY <1>1, RpcInvariance, PTL

(* No handler of the saga skips a payload that came of an accepted order.  *)
THEOREM RpcNoPayloadIsSkipped == Spec => []NoPayloadIsSkipped
  <1>1. RpcInv => NoPayloadIsSkipped
    BY DEF RpcInv, NoPayloadIsSkipped
  <1> QED
    BY <1>1, RpcInvariance, PTL

(* OK tells that the order or the user is there, and a code that is no     *)
(* Internal that the call left nothing.                                    *)
THEOREM RpcAnswersTellTheEffect == Spec => []AnswersTellTheEffect
  <1>1. RpcInv => AnswersTellTheEffect
    <2> SUFFICES ASSUME RpcInv, NEW c \in Calls
                 PROVE  /\ Tells(c, "CreateOrder") \/ Tells(c, "UserRegistration") => Left(c)
                        /\ Answered(c) /\ call[c].code \notin {"OK", "Internal"} => ~ Left(c)
      BY DEF AnswersTellTheEffect
    <2>1. ASSUME Tells(c, "CreateOrder") \/ Tells(c, "UserRegistration")
          PROVE  Left(c)
      <3>1. Answered(c) /\ HasBody(call[c])
        BY <2>1, ToldCall DEF Tells
      <3>2. EffectOK(c, call[c]) /\ call[c].at \in Ended /\ call[c].err = Nil
        BY <3>1, AnsweredCall DEF HasBody, Answered
      <3> QED
        BY <2>1, <3>2 DEF Tells, EffectOK, Left
    <2>2. ASSUME Answered(c), call[c].code \notin {"OK", "Internal"}
          PROVE  ~ Left(c)
      <3>1. EffectOK(c, call[c]) /\ call[c].at \in Ended
        BY <2>2, AnsweredCall
      <3>2. call[c].err.kind \in {"status", "app", "domain"}
        BY <2>2, AnsweredCall, CodesOfErrors
      <3> QED
        BY <3>1, <3>2 DEF EffectOK
    <2> QED
      BY <2>1, <2>2
  <1> QED
    BY <1>1, RpcInvariance, PTL

(* At any moment, the orders of metered calls are no more than the slots   *)
(* of the window, and so no more than the plan allows.                     *)
THEOREM RpcOrdersWithinQuota == Spec => []OrdersWithinQuota
  <1>1. RpcInv => OrdersWithinQuota
    <2> SUFFICES ASSUME RpcInv, NEW u \in Users
                 PROVE  Cardinality({c \in Calls \ unmetered :
                          \E o \in OfUser(u) : o.order_id = NewId[c]}) <= slots[u]
      BY DEF OrdersWithinQuota
    <2> DEFINE S == {c \in Calls \ unmetered : \E o \in OfUser(u) : o.order_id = NewId[c]}
    <2>1. /\ IsFiniteSet(Metered(u)) /\ Cardinality(Metered(u)) <= slots[u]
          /\ slots[u] \in Nat
      BY Limits DEF RpcInv, SlotsOK
    <2>2. S \subseteq Metered(u)
      BY DEF Metered
    <2> HIDE DEF S
    <2>3. Cardinality(S) <= slots[u]
      BY <2>1, <2>2, SmallerSet
    <2> QED
      BY <2>3 DEF S
  <1> QED
    BY <1>1, RpcInvariance, PTL

(* A stream that waits has told the status of the row, or the event of the *)
(* change is still to wake it.                                             *)
THEOREM RpcStreamsKeepUp == Spec => []StreamsKeepUp
  <1>1. RpcInv => StreamsKeepUp
    BY KeepsUpNow DEF StreamsKeepUp, KeepsUp
  <1> QED
    BY <1>1, RpcInvariance, PTL

(* Every price that an answer or a message of a stream tells is in USD and *)
(* has the amount of its row, of CreateOrder also the amount asked for,    *)
(* and the form of a Money, as long as its units fit.                      *)
THEOREM RpcPriceIsKept == Spec => []PriceIsKept
  <1>1. RpcInv => PriceIsKept
    <2>1. ASSUME NEW price \in Int
          PROVE  /\ DecToMoney(price).currency_code = "USD"
                 /\ Fits(price) =>
                      Amount(DecToMoney(price)) = price /\ WellFormed(DecToMoney(price))
      <3>1. DecToMoney(price).currency_code = "USD"
        BY DEF DecToMoney, currency
      <3> QED
        BY <3>1, DecToMoneyIsMoney
    <2>2. ASSUME RpcInv, NEW c \in Calls, Told(c), NEW p \in OrdersTold(c)
          PROVE  \E o \in orders :
                   /\ o.order_id = p.order_id /\ p.price.currency_code = "USD"
                   /\ Fits(o.price) => Amount(p.price) = o.price /\ WellFormed(p.price)
      <3>1. p \in OrdersIn(call[c].method, call[c].body)
        BY <2>2 DEF OrdersTold
      <3>2. PICK o \in orders : o.order_id = p.order_id /\ p.price = DecToMoney(o.price)
        BY <2>2, <3>1, ToldCall DEF PriceTold
      <3>3. o.price \in Int
        BY <2>2 DEF RpcInv, TablesOK, OrderRow
      <3> QED
        BY <2>1, <3>2, <3>3
    <2>3. ASSUME RpcInv, NEW c \in Calls, Tells(c, "CreateOrder")
          PROVE  LET m == call[c].body.create_order_response.price
                     price == Amount(call[c].request.price)
                 IN  /\ m.currency_code = "USD"
                     /\ Fits(price) => Amount(m) = price /\ WellFormed(m)
      <3>1. BodyOK(call[c]) /\ call[c].method = "CreateOrder"
        BY <2>3, ToldCall DEF Tells
      <3>2. /\ call[c].request.price \in Money
            /\ call[c].body.create_order_response.price =
                 DecToMoney(Amount(call[c].request.price))
        BY <3>1 DEF BodyOK
      <3>3. Amount(call[c].request.price) \in Int
        BY <3>2, AmountIsInt
      <3> QED
        BY <2>1, <3>2, <3>3
    <2> QED
      BY <2>2, <2>3 DEF PriceIsKept
  <1> QED
    BY <1>1, RpcInvariance, PTL

-----------------------------------------------------------------------------
(* The life of an order.  An order that is not settled waits for one event *)
(* of the saga, and an event of the saga is about such an order.           *)

SagaEvents == {"OrderCreated", "ReserveStock", "StockReserved", "StockRejected"}

LifeInv ==
  /\ \A e \in events : e.type \in SagaEvents =>
       \E o \in orders :
         o.order_id = e.payload.order_id /\ o.order_status = "ORDER_CREATED"
  /\ \A e, f \in events :
       /\ e.type \in SagaEvents /\ f.type \in SagaEvents
       /\ e.payload.order_id = f.payload.order_id
       => e = f

(* An id stands for one row.                                               *)
LEMMA StatusOfRow ==
  ASSUME NEW table, \A p, q \in table : p.order_id = q.order_id => p = q,
         NEW o \in table
  PROVE  StatusIn(table, o.order_id) = o.order_status
  <1> DEFINE p == CHOOSE r \in table : r.order_id = o.order_id
  <1>1. p \in table /\ p.order_id = o.order_id
    OBVIOUS
  <1>2. p = o
    BY <1>1
  <1> QED
    BY <1>2 DEF StatusIn

(* Where no order and no event changes, no order's life goes on.           *)
LEMMA QuietLife ==
  ASSUME LifeInv, UNCHANGED <<orders, events>>
  PROVE  LifeInv' /\ UNCHANGED <<statuses, verdicts>>
  BY DEF LifeInv, statuses, verdicts, Stored, Reply

(* At first no call has drawn its id.                                      *)
LEMMA InitLife ==
  ASSUME Init
  PROVE  LifeInv /\ Lifecycle!LifecycleInit
  <1>1. /\ orders = InitialOrders
        /\ events = {OrderCreatedOf(o) : o \in {r \in orders : r.order_status = "ORDER_CREATED"}}
    BY DEF Init
  <1>2. ASSUME NEW e \in events
        PROVE  /\ e.type = "OrderCreated"
               /\ \E o \in orders : /\ e = OrderCreatedOf(o) /\ o.order_status = "ORDER_CREATED"
                                    /\ o.order_id = e.payload.order_id
    <2>1. PICK o \in orders : o.order_status = "ORDER_CREATED" /\ e = OrderCreatedOf(o)
      BY <1>1
    <2> QED
      BY <2>1 DEF OrderCreatedOf, Event
  <1>3. LifeInv
    <2>1. ASSUME NEW e \in events, NEW f \in events, e.payload.order_id = f.payload.order_id
          PROVE  e = f
      <3>1. PICK o \in orders : e = OrderCreatedOf(o) /\ o.order_id = e.payload.order_id
        BY <1>2
      <3>2. PICK p \in orders : f = OrderCreatedOf(p) /\ p.order_id = f.payload.order_id
        BY <1>2
      <3>3. o = p
        BY <2>1, <3>1, <3>2, InitRpcInv DEF RpcInv, TablesOK
      <3> QED
        BY <3>1, <3>2, <3>3
    <2> QED
      BY <1>2, <2>1 DEF LifeInv
  <1>4. ASSUME NEW id \in Drawn
        PROVE  statuses[id] = "absent" /\ verdicts[id] = "none"
    <2>1. ~ \E o \in orders : o.order_id = id
      BY <1>1, RpcServerAssumption DEF Drawn
    <2>2. ~ Reply(id, "StockReserved") /\ ~ Reply(id, "StockRejected")
      BY <1>2 DEF Reply
    <2> QED
      BY <2>1, <2>2 DEF statuses, verdicts, Stored
  <1>5. /\ statuses = [id \in Drawn |-> statuses[id]]
        /\ verdicts = [id \in Drawn |-> verdicts[id]]
    BY DEF statuses, verdicts
  <1>6. Lifecycle!LifecycleInit
    BY <1>4, <1>5 DEF Lifecycle!LifecycleInit, Lifecycle!StatusAbsent, Lifecycle!ReservationNone
  <1> QED
    BY <1>3, <1>6

(* An order is created with an id nobody has.                              *)
LEMMA CreateLife ==
  ASSUME RpcInv, LifeInv, NEW c \in Calls, SaveNewOrder(c), UNCHANGED <<skipped, users>>
  PROVE  LifeInv' /\ (Lifecycle!LifecycleNext \/ UNCHANGED <<statuses, verdicts>>)
  <1> DEFINE o == NewOrder(c)
             i == NewId[c]
             new == OrderCreatedOf(o)
  <1>1. call[c].at \in Open
    BY DEF SaveNewOrder, Open
  <1>2. \A p \in orders : p.order_id # i
    BY <1>1, OpenCall DEF Left
  <1>3. CASE UNCHANGED <<orders, events>>
    BY <1>3, QuietLife
  <1>4. CASE orders' = orders \cup {Row(o)} /\ events' = events \cup {new}
    <2>1. /\ Row(o).order_id = i /\ Row(o).order_status = "ORDER_CREATED"
          /\ new.type = "OrderCreated" /\ new.payload.order_id = i
      BY DEF NewOrder, Row, OrderCreatedOf, Event
    <2>2. i \in Drawn
      BY DEF Drawn
    <2> HIDE DEF o, new, i
    <2>3. \A e \in events : e.type \in SagaEvents => e.payload.order_id # i
      BY <1>2 DEF LifeInv
    <2>4. LifeInv'
      BY <1>4, <2>1, <2>3 DEF LifeInv
    <2>5. TablesOK'
      BY SaveNewOrderStep DEF RpcInv
    <2>6. ASSUME NEW id \in Drawn, id # i
          PROVE  statuses'[id] = statuses[id] /\ verdicts'[id] = verdicts[id]
      <3>1. \A type \in SagaEvents : Reply(id, type)' <=> Reply(id, type)
        BY <1>4, <2>1, <2>6 DEF Reply
      <3>2. (\E p \in orders' : p.order_id = id) <=> (\E p \in orders : p.order_id = id)
        BY <1>4, <2>1, <2>6
      <3>3. ASSUME NEW p \in orders, p.order_id = id
            PROVE  StatusIn(orders', id) = StatusIn(orders, id)
        <4>1. p \in orders' /\ StatusIn(orders, p.order_id) = p.order_status
          BY <1>4, StatusOfRow DEF RpcInv, TablesOK
        <4>2. StatusIn(orders', p.order_id) = p.order_status
          BY <2>5, <4>1, StatusOfRow DEF TablesOK
        <4> QED
          BY <3>3, <4>1, <4>2
      <3> QED
        BY <1>4, <3>1, <3>2, <3>3 DEF statuses, verdicts, Stored, SagaEvents
    <2>7. statuses[i] = "absent" /\ verdicts[i] = "none"
      BY <1>2, <2>2, <2>3 DEF statuses, verdicts, Stored, Reply, SagaEvents
    <2>8. statuses'[i] = "ORDER_CREATED" /\ verdicts'[i] = "none"
      <3>1. Row(o) \in orders'
        BY <1>4
      <3>2. StatusIn(orders', i) = "ORDER_CREATED"
        BY <2>1, <2>5, <3>1, StatusOfRow DEF TablesOK
      <3>3. ~ Reply(i, "StockReserved")' /\ ~ Reply(i, "StockRejected")'
        BY <1>4, <2>1, <2>3 DEF Reply, SagaEvents
      <3> QED
        BY <2>1, <2>2, <3>1, <3>2, <3>3 DEF statuses, verdicts, Stored
    <2>9. Lifecycle!Create(i)
      <3>1. statuses' = [statuses EXCEPT ![i] = "ORDER_CREATED"]
        BY <2>6, <2>8 DEF statuses
      <3>2. verdicts' = verdicts
        BY <2>6, <2>7, <2>8 DEF verdicts
      <3> QED
        BY <2>7, <3>1, <3>2
           DEF Lifecycle!Create, Lifecycle!StatusAbsent, Lifecycle!StatusCreated
    <2> QED
      BY <2>2, <2>4, <2>9 DEF Lifecycle!LifecycleNext
  <1> QED
    BY <1>3, <1>4 DEF SaveNewOrder

(* An event of the saga is the only one of its order, which is stored.     *)
LEMMA OnlyEvent ==
  ASSUME TablesOK, LifeInv, NEW e \in events, e.type \in SagaEvents
  PROVE  LET i == e.payload.order_id
         IN  /\ Stored(i, "ORDER_CREATED")
             /\ ~ Stored(i, "ORDER_RESERVED") /\ ~ Stored(i, "ORDER_REJECTED")
             /\ \A type \in SagaEvents : Reply(i, type) <=> e.type = type
  <1> DEFINE i == e.payload.order_id
  <1>1. PICK o \in orders : o.order_id = i /\ o.order_status = "ORDER_CREATED"
    BY DEF LifeInv
  <1>2. StatusIn(orders, i) = "ORDER_CREATED"
    BY <1>1, StatusOfRow DEF TablesOK
  <1>3. \A type \in SagaEvents : Reply(i, type) <=> e.type = type
    BY DEF Reply, LifeInv
  <1> QED
    BY <1>1, <1>2, <1>3 DEF Stored

(* Passing an event on changes nothing of other orders.                    *)
LEMMA OtherReplies ==
  ASSUME NEW e \in events, NEW f, f.payload.order_id = e.payload.order_id,
         events' = (events \ {e}) \cup {f},
         NEW id, id # e.payload.order_id, NEW type
  PROVE  Reply(id, type)' <=> Reply(id, type)
  BY DEF Reply

(* The orchestrator and the market pass an order on: the market decides on *)
(* it, or nothing can be seen from outside.                                *)
LEMMA PassOnLife ==
  ASSUME TablesOK, LifeInv, NEW e \in events, e.type \in {"OrderCreated", "ReserveStock"},
         NEW f, f.type \in SagaEvents \ {"OrderCreated"},
         f.payload.order_id = e.payload.order_id,
         events' = (events \ {e}) \cup {f}, UNCHANGED orders
  PROVE  LifeInv' /\ (Lifecycle!LifecycleNext \/ UNCHANGED <<statuses, verdicts>>)
  <1> DEFINE i == e.payload.order_id
  <1>1. /\ Stored(i, "ORDER_CREATED")
        /\ ~ Stored(i, "ORDER_RESERVED") /\ ~ Stored(i, "ORDER_REJECTED")
        /\ ~ Reply(i, "StockReserved") /\ ~ Reply(i, "StockRejected")
    BY OnlyEvent DEF SagaEvents
  <1>2. e.type \in SagaEvents /\ f.type \in SagaEvents
    BY DEF SagaEvents
  <1>3. LifeInv'
    BY <1>2 DEF LifeInv
  <1>4. \A type \in {"StockReserved", "StockRejected"} : Reply(i, type)' <=> f.type = type
    BY <1>2 DEF Reply, LifeInv, SagaEvents
  <1>5. statuses' = statuses
    BY DEF statuses
  <1>6. ASSUME NEW id \in Drawn, id # i
        PROVE  verdicts'[id] = verdicts[id]
    BY <1>6, OtherReplies DEF verdicts, Stored
  <1>7. CASE i \in Drawn
    <2>1. statuses[i] = "ORDER_CREATED" /\ verdicts[i] = "none"
      BY <1>1, <1>7 DEF statuses, verdicts, Stored
    <2>2. Stored(i, "ORDER_RESERVED")' <=> Stored(i, "ORDER_RESERVED")
      BY DEF Stored
    <2>3. Stored(i, "ORDER_REJECTED")' <=> Stored(i, "ORDER_REJECTED")
      BY DEF Stored
    <2>4. verdicts'[i] = IF f.type = "StockReserved" THEN "RESERVED"
                         ELSE IF f.type = "StockRejected" THEN "REJECTED" ELSE "none"
      BY <1>1, <1>4, <1>7, <2>2, <2>3 DEF verdicts
    <2>5. verdicts' = [verdicts EXCEPT ![i] = verdicts'[i]]
      BY <1>6 DEF verdicts
    <2>6. CASE f.type = "ReserveStock"
      <3>1. verdicts'[i] = verdicts[i]
        BY <2>1, <2>4, <2>6
      <3>2. verdicts' = verdicts
        BY <1>6, <3>1 DEF verdicts
      <3> QED
        BY <1>3, <1>5, <3>2
    <2>7. CASE f.type \in {"StockReserved", "StockRejected"}
      <3>1. verdicts'[i] \in {"RESERVED", "REJECTED"}
        BY <2>4, <2>7
      <3>2. Lifecycle!Decide(i)
        BY <1>5, <2>1, <2>5, <3>1
           DEF Lifecycle!Decide, Lifecycle!StatusCreated, Lifecycle!ReservationNone,
               Lifecycle!Verdicts, Lifecycle!ReservationReserved, Lifecycle!ReservationRejected
      <3> QED
        BY <1>3, <1>7, <3>2 DEF Lifecycle!LifecycleNext
    <2> QED
      BY <2>6, <2>7 DEF SagaEvents
  <1>8. CASE i \notin Drawn
    <2>1. verdicts' = verdicts
      BY <1>6, <1>8 DEF verdicts
    <2> QED
      BY <1>3, <1>5, <2>1
  <1> QED
    BY <1>7, <1>8

(* The payloads of RpcInv are skipped by no handler, so each passes on.    *)
LEMMA HandleOrderCreatedLife ==
  ASSUME RpcInv, LifeInv, NEW e \in events, HandleOrderCreated(e)
  PROVE  LifeInv' /\ (Lifecycle!LifecycleNext \/ UNCHANGED <<statuses, verdicts>>)
  <1> DEFINE m == e.payload
             f == Event("ReserveStock", ReserveStockFor(m))
  <1>1. /\ e.type = "OrderCreated" /\ Canonical(m.order_id)
        /\ m.user_id \in Uuids /\ m.market_id \in Uuids
        /\ m.amount # "" /\ m.price # "" /\ m.status # ""
    BY DEF HandleOrderCreated, RpcInv, EventOK
  <1>2. OrderCreatedViolations(m) = {}
    BY <1>1 DEF OrderCreatedViolations, NotUuid, Canonical
  <1>3. events' = (events \ {e}) \cup {f} /\ UNCHANGED orders
    BY <1>2 DEF HandleOrderCreated, Handles
  <1>4. f.type = "ReserveStock" /\ f.payload.order_id = m.order_id
    BY DEF Event, ReserveStockFor
  <1> HIDE DEF f
  <1> QED
    BY <1>1, <1>3, <1>4, PassOnLife DEF RpcInv, SagaEvents

LEMMA HandleReserveStockLife ==
  ASSUME RpcInv, LifeInv, NEW e \in events, HandleReserveStock(e)
  PROVE  LifeInv' /\ (Lifecycle!LifecycleNext \/ UNCHANGED <<statuses, verdicts>>)
  <1> DEFINE m == e.payload
             f == EmitReply(m)
  <1>1. /\ e.type = "ReserveStock" /\ Canonical(m.order_id)
        /\ m.user_id \in Uuids /\ m.market_id \in Uuids /\ m.amount # ""
    BY DEF HandleReserveStock, RpcInv, EventOK
  <1>2. ReserveStockViolations(m) = {}
    BY <1>1 DEF ReserveStockViolations, NotUuid, Unless, Canonical
  <1>3. events' = (events \ {e}) \cup {f} /\ UNCHANGED orders
    BY <1>2 DEF HandleReserveStock, Handles
  <1>4. f.type \in {"StockReserved", "StockRejected"} /\ f.payload.order_id = m.order_id
    BY DEF EmitReply, Event
  <1> HIDE DEF f
  <1> QED
    BY <1>1, <1>3, <1>4, PassOnLife DEF RpcInv, SagaEvents

(* The orchestrator takes the answer of the market: the order is settled.  *)
LEMMA SettleLife ==
  ASSUME TablesOK, TablesOK', LifeInv, NEW e \in events,
         e.type \in {"StockReserved", "StockRejected"},
         NEW f, f.type = "OrderStatusChanged", f.payload.order_id = e.payload.order_id,
         NEW s, s = IF e.type = "StockReserved" THEN "ORDER_RESERVED" ELSE "ORDER_REJECTED",
         events' = (events \ {e}) \cup {f},
         UuidOf[e.payload.order_id] = e.payload.order_id,
         UpdateStatus(e.payload.order_id, s)
  PROVE  LifeInv' /\ (Lifecycle!LifecycleNext \/ UNCHANGED <<statuses, verdicts>>)
  <1> DEFINE i == e.payload.order_id
  <1>1. /\ Stored(i, "ORDER_CREATED")
        /\ ~ Stored(i, "ORDER_RESERVED") /\ ~ Stored(i, "ORDER_REJECTED")
        /\ Reply(i, "StockReserved") <=> e.type = "StockReserved"
        /\ Reply(i, "StockRejected") <=> e.type = "StockRejected"
    BY OnlyEvent DEF SagaEvents
  <1>2. s \in {"ORDER_RESERVED", "ORDER_REJECTED"}
    OBVIOUS
  <1>3. ASSUME NEW o \in orders
        PROVE  /\ o \in OrderRow
               /\ o.order_id # i => o \in orders'
               /\ o.order_id = i => [o EXCEPT !.order_status = s] \in orders'
    <2> DEFINE New(r) == IF r.order_id = i THEN [r EXCEPT !.order_status = s] ELSE r
    <2>1. orders' = {New(r) : r \in orders}
      BY DEF UpdateStatus
    <2>2. New(o) \in orders'
      BY <2>1
    <2> QED
      BY <2>2 DEF TablesOK
  <1>4. ASSUME NEW p \in orders'
        PROVE  \E o \in orders : /\ p.order_id = o.order_id
                                 /\ p = IF o.order_id = i
                                        THEN [o EXCEPT !.order_status = s] ELSE o
    BY <1>2, UpdatedRows
  <1>5. ASSUME NEW id, id # i
        PROVE  /\ (\E o \in orders' : o.order_id = id) <=> (\E o \in orders : o.order_id = id)
               /\ \A o \in orders : o.order_id = id =>
                    StatusIn(orders', id) = StatusIn(orders, id)
    <2>1. ASSUME NEW o \in orders, o.order_id = id
          PROVE  o \in orders' /\ StatusIn(orders', id) = StatusIn(orders, id)
      <3>1. o \in orders' /\ StatusIn(orders, id) = o.order_status
        BY <1>3, <1>5, <2>1, StatusOfRow DEF TablesOK
      <3>2. StatusIn(orders', id) = o.order_status
        BY <2>1, <3>1, StatusOfRow DEF TablesOK
      <3> QED
        BY <3>1, <3>2
    <2> QED
      BY <1>4, <1>5, <2>1
  <1>6. (\E o \in orders' : o.order_id = i) /\ StatusIn(orders', i) = s
    <2>1. PICK o \in orders : o.order_id = i
      BY <1>1 DEF Stored
    <2>2. PICK p \in orders' : p = [o EXCEPT !.order_status = s]
      BY <1>3, <2>1
    <2>3. p.order_id = i /\ p.order_status = s
      BY <1>3, <2>1, <2>2 DEF OrderRow
    <2>4. StatusIn(orders', p.order_id) = p.order_status
      BY StatusOfRow DEF TablesOK
    <2> QED
      BY <2>3, <2>4
  <1>7. LifeInv'
    <2>1. ASSUME NEW g \in events', g.type \in SagaEvents
          PROVE  g \in events /\ g.payload.order_id # i
      BY <2>1 DEF LifeInv, SagaEvents
    <2>2. ASSUME NEW g \in events', g.type \in SagaEvents
          PROVE  \E o \in orders' :
                   o.order_id = g.payload.order_id /\ o.order_status = "ORDER_CREATED"
      BY <1>3, <2>1, <2>2 DEF LifeInv
    <2> QED
      BY <2>1, <2>2 DEF LifeInv
  <1>8. ASSUME NEW id \in Drawn, id # i
        PROVE  statuses'[id] = statuses[id] /\ verdicts'[id] = verdicts[id]
    <2>1. \A type : Reply(id, type)' <=> Reply(id, type)
      BY <1>8, OtherReplies
    <2>2. \A status : Stored(id, status)' <=> Stored(id, status)
      BY <1>5, <1>8 DEF Stored
    <2>3. statuses'[id] = statuses[id]
      BY <1>5, <1>8 DEF statuses
    <2> QED
      BY <2>1, <2>2, <2>3 DEF verdicts
  <1>9. CASE i \in Drawn
    <2>1. /\ statuses[i] = "ORDER_CREATED"
          /\ verdicts[i] = IF e.type = "StockReserved" THEN "RESERVED" ELSE "REJECTED"
      BY <1>1, <1>9 DEF statuses, verdicts, Stored
    <2>2. statuses'[i] = s
      BY <1>6, <1>9 DEF statuses
    <2>3. \A status : Stored(i, status)' <=> status = s
      BY <1>6 DEF Stored
    <2>4. ~ Reply(i, "StockReserved")' /\ ~ Reply(i, "StockRejected")'
      BY DEF Reply, LifeInv, SagaEvents
    <2>5. verdicts'[i] = IF e.type = "StockReserved" THEN "RESERVED" ELSE "REJECTED"
      BY <1>9, <2>3, <2>4 DEF verdicts
    <2>6. verdicts' = verdicts
      BY <1>8, <2>1, <2>5 DEF verdicts
    <2>7. statuses' = [statuses EXCEPT ![i] = s]
      BY <1>8, <2>2 DEF statuses
    <2>8. Lifecycle!Settle(i)
      BY <2>1, <2>6, <2>7
         DEF Lifecycle!Settle, Lifecycle!StatusCreated, Lifecycle!ReservationNone,
             Lifecycle!StatusFor, Lifecycle!ReservationReserved,
             Lifecycle!StatusReserved, Lifecycle!StatusRejected
    <2> QED
      BY <1>7, <1>9, <2>8 DEF Lifecycle!LifecycleNext
  <1>10. CASE i \notin Drawn
    BY <1>7, <1>8, <1>10 DEF statuses, verdicts
  <1> QED
    BY <1>9, <1>10

LEMMA HandleReplyLife ==
  ASSUME RpcInv, LifeInv, NEW e \in events, HandleReply(e),
         UNCHANGED <<logged, sessions, slots, unmetered, users>>
  PROVE  LifeInv' /\ (Lifecycle!LifecycleNext \/ UNCHANGED <<statuses, verdicts>>)
  <1> DEFINE m == e.payload
             s == IF e.type = "StockReserved" THEN "ORDER_RESERVED" ELSE "ORDER_REJECTED"
             f == Event("OrderStatusChanged", [order_id |-> m.order_id, status |-> s])
  <1>1. /\ e.type \in {"StockReserved", "StockRejected"} /\ Canonical(m.order_id)
        /\ m.market_id \in Uuids
    BY DEF HandleReply, RpcInv, EventOK
  <1>2. StockReservedViolations(m) = {} /\ StockRejectedViolations(m) = {}
    BY <1>1 DEF StockReservedViolations, StockRejectedViolations, NotUuid, Canonical
  <1>3. events' = (events \ {e}) \cup {f} /\ UpdateStatus(m.order_id, s)
    BY <1>2 DEF HandleReply, Handles
  <1>4. f.type = "OrderStatusChanged" /\ f.payload.order_id = m.order_id
    BY DEF Event
  <1>5. TablesOK /\ TablesOK'
    BY HandleReplyStep DEF RpcInv
  <1> HIDE DEF f
  <1> QED
    BY <1>1, <1>3, <1>4, <1>5, SettleLife DEF Canonical

(* A status update that the hub is told of is no event of the saga.        *)
LEMMA PublishStatusUpdateLife ==
  ASSUME LifeInv, NEW e \in events, PublishStatusUpdate(e)
  PROVE  LifeInv' /\ UNCHANGED <<statuses, verdicts>>
  <1>1. /\ e.type = "OrderStatusChanged" /\ events' = events \ {e} /\ UNCHANGED orders
    BY DEF PublishStatusUpdate
  <1>2. LifeInv'
    BY <1>1 DEF LifeInv
  <1>3. \A id : /\ Reply(id, "StockReserved")' <=> Reply(id, "StockReserved")
                /\ Reply(id, "StockRejected")' <=> Reply(id, "StockRejected")
    BY <1>1 DEF Reply
  <1>4. statuses' = statuses
    BY <1>1 DEF statuses
  <1>5. verdicts' = verdicts
    BY <1>1, <1>3 DEF verdicts, Stored
  <1> QED
    BY <1>2, <1>4, <1>5

(* Every step of the servers is a step of an order's life, or none.        *)
LEMMA LifeStep ==
  ASSUME RpcInv, LifeInv, [Next]_vars
  PROVE  LifeInv' /\ [Lifecycle!LifecycleNext]_<<statuses, verdicts>>
  <1>1. CASE UNCHANGED accountTables
    BY <1>1, QuietLife DEF accountTables, orderTables
  <1>2. ASSUME NEW c \in Calls, OrderApiStep(c), UNCHANGED <<skipped, users>>
        PROVE  SaveNewOrder(c) \/ UNCHANGED <<orders, events>>
    BY <1>2 DEF OrderApiStep, CheckOrderQuota, GetOrderStatusByID, GetOrderStatusAll,
                SendUpdate, StreamIsLeft, orderTables
  <1>3. ASSUME NEW c \in Calls, AccountApiStep(c)
        PROVE  UNCHANGED <<orders, events>>
    BY <1>3 DEF AccountApiStep, UserRegistration, GetUserData, ChangeUserPlan, UserLogin,
                ViewMarketsByID, ViewAllMarkets, orderTables
  <1>4. CASE UNCHANGED vars
    BY <1>4, QuietLife DEF vars, orderTables
  <1>5. CASE SagaStep /\ UNCHANGED users
    BY <1>5, HandleOrderCreatedLife, HandleReserveStockLife, HandleReplyLife,
       PublishStatusUpdateLife
       DEF SagaStep
  <1> QED
    BY <1>1, <1>2, <1>3, <1>4, <1>5, QuietLife, CreateLife DEF Next

(* Between the calls and the payloads an order lives as the saga lets it:  *)
(* it is created once, decided once and settled as it was decided.         *)
THEOREM RpcImplementsLifecycle == Spec => ImplementsLifecycle
  BY InitLife, LifeStep, RpcInvariance, PTL
  DEF Spec, ImplementsLifecycle, Lifecycle!LifecycleSpec, Lifecycle!lifecycle
=============================================================================

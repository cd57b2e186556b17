------------------------------ MODULE Services ------------------------------
(***************************************************************************)
(* The gRPC interfaces of the four services: their methods, the message    *)
(* each takes and answers with, the validator of that message, and the     *)
(* errors each service registers with the err_map interceptor.             *)
(***************************************************************************)
EXTENDS Messages

OrderService ==
  {"CreateOrder", "GetOrderStatusByID", "GetOrderStatusAll", "StreamOrderUpdates"}
SpotInstrumentService == {"ViewMarketsByID", "ViewAllMarkets"}
AuthService == {"UserLogin"}
UserService == {"UserRegistration", "GetUserData", "ChangeUserPlan"}

Methods == OrderService \cup SpotInstrumentService \cup AuthService \cup UserService
Streams == {"StreamOrderUpdates"}

(* session_auth is in the chain of every service but auth_service, and     *)
(* lets the methods pass that its New was given.                           *)
PublicMethods == {"UserRegistration"}
NeedsSession == Methods \ (AuthService \cup PublicMethods)

-----------------------------------------------------------------------------
(* What the generated handlers decode and answer.                          *)
OrderRequest ==
  [CreateOrder |-> CreateOrderRequest, GetOrderStatusByID |-> OrderStatusByIDRequest,
   GetOrderStatusAll |-> OrderStatusAllRequest, StreamOrderUpdates |-> StreamOrderRequest]
OrderResponse ==
  [CreateOrder |-> CreateOrderResponse, GetOrderStatusByID |-> OrderStatusByIDResponse,
   GetOrderStatusAll |-> OrderStatusAllResponse,
   StreamOrderUpdates |-> OrderStatusByIDResponse]

MarketRequest ==
  [ViewMarketsByID |-> ViewMarketRequest, ViewAllMarkets |-> ViewAllMarketsRequest]
MarketResponse ==
  [ViewMarketsByID |-> ViewMarketResponse, ViewAllMarkets |-> ViewAllMarketsResponse]

AuthRequest == [UserLogin |-> LoginRequest]
AuthResponse == [UserLogin |-> LoginResponse]

UserRequest ==
  [UserRegistration |-> RegisterRequest, GetUserData |-> GetUserDataRequest,
   ChangeUserPlan |-> PlanChangeRequest]
UserResponse ==
  [UserRegistration |-> RegisterResponse, GetUserData |-> GetUserDataResponse,
   ChangeUserPlan |-> PlanChangeResponse]

Of(method, order, market, auth, user) ==
  CASE method \in OrderService -> order[method]
    [] method \in SpotInstrumentService -> market[method]
    [] method \in AuthService -> auth[method]
    [] method \in UserService -> user[method]

Request(method) == Of(method, OrderRequest, MarketRequest, AuthRequest, UserRequest)
Response(method) == Of(method, OrderResponse, MarketResponse, AuthResponse, UserResponse)

(* validate: ValidateAll of the request's type.                            *)
RequestViolations(method, m) ==
  CASE method = "CreateOrder" -> CreateOrderRequestViolations(m)
    [] method = "GetOrderStatusByID" -> OrderStatusByIDRequestViolations(m)
    [] method = "GetOrderStatusAll" -> OrderStatusAllRequestViolations(m)
    [] method = "StreamOrderUpdates" -> StreamOrderRequestViolations(m)
    [] method = "ViewMarketsByID" -> ViewMarketRequestViolations(m)
    [] method = "ViewAllMarkets" -> ViewAllMarketsRequestViolations(m)
    [] method = "UserLogin" -> LoginRequestViolations(m)
    [] method = "UserRegistration" -> RegisterRequestViolations(m)
    [] method = "GetUserData" -> GetUserDataRequestViolations(m)
    [] method = "ChangeUserPlan" -> PlanChangeRequestViolations(m)

(* The rules of the answers, which no code of the services checks.         *)
ResponseViolations(method, m) ==
  CASE method = "CreateOrder" -> CreateOrderResponseViolations(m)
    [] method = "GetOrderStatusByID" -> OrderStatusByIDResponseViolations(m)
    [] method = "GetOrderStatusAll" -> OrderStatusAllResponseViolations(m)
    [] method = "StreamOrderUpdates" -> OrderStatusByIDResponseViolations(m)
    [] method = "ViewMarketsByID" -> ViewMarketResponseViolations(m)
    [] method = "ViewAllMarkets" -> ViewAllMarketsResponseViolations(m)
    [] method = "UserLogin" -> LoginResponseViolations(m)
    [] method = "UserRegistration" -> RegisterResponseViolations(m)
    [] method = "GetUserData" -> GetUserDataResponseViolations(m)
    [] method = "ChangeUserPlan" -> PlanChangeResponseViolations(m)

-----------------------------------------------------------------------------
(* err_map: the kinds of an error, and the ones a service registers.  Left *)
(* out are registered errors that no call returns: those of fields that    *)
(* the validation refuses first, those of sessions in auth_service, and    *)
(* that of an order id drawn twice.                                        *)
ErrOrderNotFound == "order not found"
ErrOrderQuotaExceeded == "order quota exceeded"
ErrInvalidPrice == "invalid price"
ErrInvalidAmount == "invalid amount"
ErrMarketNotFound == "market not found"
ErrInvalidCredentials == "invalid credentials"
ErrTooManyLoginAttempts == "too many login attempts"
ErrUserNotFound == "user not found"
ErrUserAlreadyExists == "user already exists"

OrderRegister == {<<ErrOrderNotFound, "NotFound">>, <<ErrOrderQuotaExceeded, "RateLimited">>,
                  <<ErrInvalidPrice, "Invalid">>, <<ErrInvalidAmount, "Invalid">>}

(* A bug in MarketRegister: the error is not registered.                   *)
MarketRegisterMutant == {}

MarketRegister == {<<ErrMarketNotFound, "NotFound">>}

AuthRegister == {<<ErrInvalidCredentials, "Unauthenticated">>,
                 <<ErrTooManyLoginAttempts, "RateLimited">>}
UserRegister == {<<ErrUserNotFound, "NotFound">>, <<ErrUserAlreadyExists, "AlreadyExists">>}

Register(method) ==
  CASE method \in OrderService -> OrderRegister
    [] method \in SpotInstrumentService -> MarketRegister
    [] method \in AuthService -> AuthRegister
    [] method \in UserService -> UserRegister

CodeFor(t) ==
  CASE t = "Invalid" -> "InvalidArgument"
    [] t = "RateLimited" -> "ResourceExhausted"
    [] t \in {"InternalError", "Unknown"} -> "Internal"
    [] OTHER -> t
=============================================================================

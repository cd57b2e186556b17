---------------------------- MODULE RpcPipeline -----------------------------
(***************************************************************************)
(* The way of a call through a server: the interceptors panic_recover,     *)
(* metrics, err_map, validation and session_auth, one inside the other,    *)
(* around the handler.  A unary call passes all of them; the chain of the  *)
(* streams has no validation.                                              *)
(*                                                                         *)
(* The handlers are the actions of the modules that extend this one.       *)
(***************************************************************************)
EXTENDS Services

CONSTANTS
  Calls,     \* the calls of a behaviour
  Attempts   \* what each may ask: method, request, authorization header

ASSUME AttemptsAssumption ==
  \A c \in Calls : \A a \in Attempts[c] : a.method \in Methods /\ a.request \in Request(a.method)

VARIABLES
  call,      \* each call: where it is, what was asked, by whom, the outcome
  logged,    \* calls with a line in the error log
  sessions   \* Redis: [session_id, user_id, role], as long as they are valid

pipeline == <<call, logged, sessions>>

NoCall == [at |-> "idle"]

(* What a handler returns as its error: nil, a gRPC status, an             *)
(* err_map.Error, an error of the domain, or one no code knows.            *)
Nil == [kind |-> "nil", what |-> ""]
Status(code) == [kind |-> "status", what |-> code]
NewError(t) == [kind |-> "app", what |-> t]
Domain(e) == [kind |-> "domain", what |-> e]
Infra == [kind |-> "infra", what |-> ""]

(* auth_context.From: the identity session_auth left in the context.       *)
CallerOf(c) == call[c].session.user_id

-----------------------------------------------------------------------------
(* toGRPCStatus and isHidden; a code is all that is kept of a status.      *)
ToGRPCStatus(e, method) ==
  CASE e.kind = "nil" -> "OK"
    [] e.kind = "status" -> e.what
    [] e.kind = "app" -> CodeFor(e.what)
    [] \E r \in Register(method) : e.what = r[1] ->
         CodeFor((CHOOSE r \in Register(method) : e.what = r[1])[2])
    [] OTHER -> "Internal"

(* A bug in IsHidden: only errors with a type are looked at.               *)
IsHiddenMutant(e, method) ==
  \/ e.kind = "status" /\ e.what \in {"Internal", "Unavailable", "Unknown"}
  \/ e.kind = "app" /\ e.what \in {"InternalError", "Unavailable", "Unknown"}

IsHidden(e, method) ==
  \/ e.kind = "status" /\ e.what \in {"Internal", "Unavailable", "Unknown"}
  \/ e.kind = "app" /\ e.what \in {"InternalError", "Unavailable", "Unknown"}
  \/ e.kind \in {"domain", "infra", "canceled"} /\ \A r \in Register(method) : e.what # r[1]

-----------------------------------------------------------------------------
Receive(c, a) ==
  /\ call[c] = NoCall
  /\ call' = [call EXCEPT ![c] =
       [at |-> IF a.method \in Streams THEN "session_auth" ELSE "validation",
        method |-> a.method, request |-> a.request, header |-> a.header,
        session |-> Absent, err |-> Nil, body |-> Absent, code |-> ""]]
  /\ UNCHANGED <<logged, sessions>>

(* The handler, or an interceptor in its place, returns.                   *)
Returned(c, err, body) == [call[c] EXCEPT !.at = "returned", !.err = err, !.body = body]

Returns(c, err, body) == call' = [call EXCEPT ![c] = Returned(c, err, body)]

Validation(c) ==
  /\ call[c].at = "validation"
  /\ IF RequestViolations(call[c].method, call[c].request) # {}
     THEN Returns(c, NewError("Invalid"), Absent)
     ELSE call' = [call EXCEPT ![c].at = "session_auth"]
  /\ UNCHANGED <<logged, sessions>>

(* session_auth: a method that needs no session, ...                       *)
PassWithoutSession(c) ==
  /\ call[c].at = "session_auth" /\ call[c].method \notin NeedsSession
  /\ call' = [call EXCEPT ![c].at = "handler"]
  /\ UNCHANGED <<logged, sessions>>

(* ... a session that Redis has, ...                                       *)
PassWithSession(c) ==
  /\ call[c].at = "session_auth" /\ call[c].method \in NeedsSession
  /\ \E s \in sessions :
       /\ call[c].header = s.session_id
       /\ call' = [call EXCEPT ![c].at = "handler", ![c].session = s]
  /\ UNCHANGED <<logged, sessions>>

(* ... a header that is missing or names no valid session, or an error of  *)
(* Redis, which authenticate logs itself.                                  *)
RefuseWithoutSession(c) ==
  /\ call[c].at = "session_auth" /\ call[c].method \in NeedsSession
  /\ \/ /\ \A s \in sessions : call[c].header # s.session_id
        /\ Returns(c, Status("Unauthenticated"), Absent)
        /\ logged' = logged
     \/ /\ call[c].header # ""
        /\ Returns(c, Status("Unavailable"), Absent)
        /\ logged' = logged \cup {c}
  /\ UNCHANGED sessions

(* The way out: err_map turns the error into a status and logs the hidden  *)
(* ones; metrics and panic_recover have nothing to change.                 *)
Answer(c) ==
  /\ call[c].at = "returned"
  /\ LET m == call[c].method
         code == ToGRPCStatus(call[c].err, m)
     IN  /\ call' = [call EXCEPT ![c].at = "answered", ![c].code = code]
         /\ logged' = IF IsHidden(call[c].err, m) THEN logged \cup {c} ELSE logged
  /\ UNCHANGED sessions

(* A handler panics: panic_recover logs the stack and answers Internal.    *)
Panic(c) ==
  /\ call[c].at \in {"handler", "quota passed", "woken"}
  /\ call' = [call EXCEPT ![c].at = "answered", ![c].err = [kind |-> "panic", what |-> ""],
                          ![c].body = Absent, ![c].code = "Internal"]
  /\ logged' = logged \cup {c}
  /\ UNCHANGED sessions

(* A session's time is over.                                               *)
SessionExpires(s) ==
  /\ s \in sessions
  /\ sessions' = sessions \ {s}
  /\ UNCHANGED <<call, logged>>

PipelineStep(c) ==
  \/ \E a \in Attempts[c] : Receive(c, a)
  \/ Validation(c) \/ PassWithoutSession(c) \/ PassWithSession(c)
  \/ RefuseWithoutSession(c) \/ Answer(c) \/ Panic(c)
=============================================================================

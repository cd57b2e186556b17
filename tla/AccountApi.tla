----------------------------- MODULE AccountApi -----------------------------
(***************************************************************************)
(* The handlers of user_service, auth_service and market_service.          *)
(***************************************************************************)
EXTENDS SagaPayloads

VARIABLE
  users   \* table users: [user_id, user_name, user_password, user_role]

accountTables == <<orderTables, skipped, users>>

Plans == {"free", "pro", "admin"}

(* The rows of users, of names and passwords that passed the validation,   *)
(* and the sessions.                                                       *)
UserRow ==
  [user_id : Users, user_name : Names, user_password : Secrets, user_role : Plans]
SessionRow == [session_id : Uuids, user_id : Users, role : Plans]

(* A bug in PlanToProto: only the plans a user can choose.                 *)
PlanToProtoMutant(plan) ==
  CASE plan = "free" -> "FREE_PLAN_USER"
    [] plan = "pro" -> "PRO_PLAN_USER"
    [] OTHER -> "UNAUTHORISED_USER"

PlanToProto(plan) ==
  CASE plan = "free" -> "FREE_PLAN_USER"
    [] plan = "pro" -> "PRO_PLAN_USER"
    [] plan = "admin" -> "ADMIN"
    [] OTHER -> "UNAUTHORISED_USER"

-----------------------------------------------------------------------------
(* Register: hash the password, insert the user; user_name is UNIQUE.  The *)
(* event goes to the log.  A name and a password that pass the validation  *)
(* are never empty, so ValidateUser finds nothing.                         *)
UserRegistration(c) ==
  LET m == call[c].request
      new == [user_id |-> NewId[c], user_name |-> m.user_name,
              user_password |-> m.user_password, user_role |-> "free"]
      taken == \E u \in users : u.user_name = m.user_name
  IN
  /\ call[c].at = "handler" /\ call[c].method = "UserRegistration"
  /\ \E committed, failed \in BOOLEAN :
       /\ committed \/ failed
       /\ committed => ~ taken
       /\ users' = IF committed THEN users \cup {new} ELSE users
       /\ \/ failed /\ Returns(c, Infra, Absent)
          \/ /\ failed /\ ~ committed /\ taken
             /\ Returns(c, Domain(ErrUserAlreadyExists), Absent)
          \/ /\ ~ failed
             /\ Returns(c, Nil, [user_name |-> m.user_name,
                                 user_role |-> PlanToProto("free")])
  /\ UNCHANGED <<logged, sessions, orderTables, skipped>>

(* GetUserData looks up the caller, whoever the request names.             *)
GetUserData(c) ==
  LET found == {u \in users : u.user_id = CallerOf(c)}
  IN
  /\ call[c].at = "handler" /\ call[c].method = "GetUserData"
  /\ \/ Returns(c, Infra, Absent)
     \/ found = {} /\ Returns(c, Domain(ErrUserNotFound), Absent)
     \/ \E u \in found :
          Returns(c, Nil, [user_data |-> [user_id |-> u.user_id, user_name |-> u.user_name,
                                          user_role |-> PlanToProto(u.user_role)]])
  /\ UNCHANGED <<logged, sessions, orderTables, skipped, users>>

(* Handler has no method of this name: that of the embedded                *)
(* UnimplementedUserServiceServer answers.                                 *)
ChangeUserPlan(c) ==
  /\ call[c].at = "handler" /\ call[c].method = "ChangeUserPlan"
  /\ Returns(c, Status("Unimplemented"), Absent)
  /\ UNCHANGED <<logged, sessions, orderTables, skipped, users>>

-----------------------------------------------------------------------------
(* Login: the user's row, the quota, the password, the session.  A wrong   *)
(* name and a wrong password are one error.  Save may fail after it stored *)
(* the session, whose id is then not told.                                 *)
UserLogin(c) ==
  LET m == call[c].request
      known == {u \in users : u.user_name = m.user_name}
  IN
  /\ call[c].at = "handler" /\ call[c].method = "UserLogin"
  /\ \/ Returns(c, Infra, Absent) /\ UNCHANGED sessions
     \/ /\ \A u \in known : u.user_password # m.user_password
        /\ Returns(c, Domain(ErrInvalidCredentials), Absent) /\ UNCHANGED sessions
     \/ \E u \in known :
          \/ /\ u.user_role = "free"
             /\ Returns(c, Domain(ErrTooManyLoginAttempts), Absent) /\ UNCHANGED sessions
          \/ /\ u.user_password = m.user_password
             /\ sessions' = sessions \cup
                  {[session_id |-> NewId[c], user_id |-> u.user_id, role |-> u.user_role]}
             /\ \/ Returns(c, Infra, Absent)
                \/ Returns(c, Nil, [user_id |-> u.user_id, session_id |-> NewId[c]])
  /\ UNCHANGED <<logged, orderTables, skipped, users>>

-----------------------------------------------------------------------------
MarketToProto(m) ==
  [market_name |-> m.market_name, goods_id |-> m.goods_id, market_id |-> m.market_id]

(* The request is a text of 2 to 256 characters: one that is no UUID is an *)
(* error of the database.                                                  *)
ViewMarketsByID(c) ==
  LET t == call[c].request.view_market_request
      found == {m \in Markets : t \in DOMAIN UuidOf /\ m.market_id = UuidOf[t]}
  IN
  /\ call[c].at = "handler" /\ call[c].method = "ViewMarketsByID"
  /\ \/ Returns(c, Infra, Absent)
     \/ t \in DOMAIN UuidOf /\ found = {} /\ Returns(c, Domain(ErrMarketNotFound), Absent)
     \/ \E m \in found : Returns(c, Nil, [view_market_response |-> MarketToProto(m)])
  /\ UNCHANGED <<logged, sessions, orderTables, skipped, users>>

ViewAllMarkets(c) ==
  LET q == call[c].request
      ids == {m.market_id : m \in Markets}
      MarketWith(i) == CHOOSE m \in Markets : m.market_id = i
  IN
  /\ call[c].at = "handler" /\ call[c].method = "ViewAllMarkets"
  /\ \/ Returns(c, Infra, Absent)
     \/ /\ q.page_token \in DOMAIN UuidOf
        /\ \E page \in SUBSET ids, next \in ids \cup {NoToken} :
             /\ IsPage(page, next, ids, UuidOf[q.page_token], PageSize(q.page_size))
             /\ \E list \in Listings(page) :
                  Returns(c, Nil,
                    [markets |-> [i \in DOMAIN list |-> MarketToProto(MarketWith(list[i]))],
                     next_page_token |-> next])
  /\ UNCHANGED <<logged, sessions, orderTables, skipped, users>>

AccountApiStep(c) ==
  \/ UserRegistration(c) \/ GetUserData(c) \/ ChangeUserPlan(c)
  \/ UserLogin(c) \/ ViewMarketsByID(c) \/ ViewAllMarkets(c)
=============================================================================

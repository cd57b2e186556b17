------------------------------ MODULE Accounts ------------------------------
(***************************************************************************)
(* Plans, logins and sessions: user_service writes the table users,        *)
(* auth_service reads it when a user logs in and puts a session into       *)
(* Redis, and the session_auth interceptor of every service looks the      *)
(* session up for each call and hands its plan to the handler.             *)
(*                                                                         *)
(* A session is named like the login that made it.  All processes share    *)
(* one clock; MaxDelay bounds the time a login takes.                      *)
(***************************************************************************)
EXTENDS Integers

CONSTANTS
  Users,       \* user ids a registration may draw
  Logins,      \* calls of UserLogin
  Requests,    \* calls of methods that need a session
  SessionTTL,  \* life of a session, in ticks
  MaxDelay,    \* bound on the duration of a login, in ticks
  MaxTime      \* bound on the time of a behaviour

ASSUME TimesAssumption ==
  SessionTTL \in Nat \ {0} /\ MaxDelay \in Nat /\ MaxTime \in Nat

VARIABLES
  now,
  plan,       \* user_role of each user, NoRow without a row in users
  login,      \* each login: where it is, what it read, its session's end
  sessions,   \* Redis: when the key of a login's session expires
  request,    \* each request: where it is, its session, when it passed
  asked,      \* users who asked for the plan pro
  lastHad     \* history: when the user of a login last had the plan it read

accounts == <<now, plan, login, sessions, request, asked, lastHad>>

Plans == {"free", "pro", "admin"}
NoRow == "no row"
NoKey == -1

Init ==
  /\ now = 0
  /\ plan = [u \in Users |-> NoRow]
  /\ login = [l \in Logins |-> [at |-> "idle", user |-> "", plan |-> "free",
                                began |-> 0, validUntil |-> 0]]
  /\ sessions = [l \in Logins |-> NoKey]
  /\ request = [r \in Requests |-> [at |-> "idle", session |-> "", passed |-> 0]]
  /\ asked = [u \in Users |-> "nothing"]
  /\ lastHad = [l \in Logins |-> 0]

-----------------------------------------------------------------------------
(* user_service.                                                           *)

(* Register; one that fails leaves nothing behind.                         *)
Register(u) ==
  /\ plan[u] = NoRow
  /\ plan' = [plan EXCEPT ![u] = "free"]
  /\ UNCHANGED <<now, login, sessions, request, asked, lastHad>>

(* A registered user calls rpc ChangeUserPlan.                             *)
AskForPro(u) ==
  /\ plan[u] \in Plans /\ asked[u] = "nothing"
  /\ asked' = [asked EXCEPT ![u] = "pro"]
  /\ UNCHANGED <<now, plan, login, sessions, request, lastHad>>

(* The handler has a method PlanChange, but the service's interface asks   *)
(* for ChangeUserPlan, which it inherits from the embedded                 *)
(* UnimplementedUserServiceServer: the answer is an error.                 *)
ChangeUserPlan(u) ==
  /\ asked[u] = "pro"
  /\ asked' = [asked EXCEPT ![u] = "unimplemented"]
  /\ UNCHANGED <<now, plan, login, sessions, request, lastHad>>

(* So no code that runs gives a user another plan than free: an operator   *)
(* updates the row.                                                        *)
OperatorSetsPlan(u, p) ==
  /\ plan[u] \in Plans
  /\ plan' = [plan EXCEPT ![u] = p]
  /\ lastHad' = [l \in Logins |->
                   IF login[l].user = u /\ login[l].plan = p THEN now ELSE lastHad[l]]
  /\ UNCHANGED <<now, login, sessions, request, asked>>

-----------------------------------------------------------------------------
(* auth_service.                                                           *)

(* Login: GetByName, ...                                                   *)
ReadCredentials(l, u) ==
  /\ login[l].at = "idle" /\ plan[u] \in Plans
  /\ login' = [login EXCEPT ![l] = [@ EXCEPT !.at = "read", !.user = u,
                                    !.plan = plan[u], !.began = now]]
  /\ lastHad' = [lastHad EXCEPT ![l] = now]
  /\ UNCHANGED <<now, plan, sessions, request, asked>>

(* ... the quota and the password, which may turn the caller away, ...     *)
CheckLogin(l) ==
  /\ login[l].at = "read"
  /\ \/ login' = [login EXCEPT ![l].at = "refused"]
     \/ login' = [login EXCEPT ![l].at = "checked",
                               ![l].validUntil = now + SessionTTL]
  /\ UNCHANGED <<now, plan, sessions, request, asked, lastHad>>

(* ... and Store.Save.  A Redis error ends the login; the session may be   *)
(* there all the same, but its id is not given out.                        *)
SaveSession(l) ==
  /\ login[l].at = "checked"
  /\ \E stored, failed \in BOOLEAN :
       /\ stored \/ failed
       /\ login' = [login EXCEPT ![l].at = IF failed THEN "refused" ELSE "done"]
       /\ sessions' = IF stored THEN [sessions EXCEPT ![l] = now + SessionTTL]
                                ELSE sessions
  /\ UNCHANGED <<now, plan, request, asked, lastHad>>

-----------------------------------------------------------------------------
(* The interceptor of the other services: RedisValidator.Validate gets     *)
(* the session, where Redis may fail, ...                                  *)
GetSession(r, l) ==
  /\ request[r].at = "idle" /\ login[l].at = "done"
  /\ \E at \in {"refused"} \cup (IF now < sessions[l] THEN {"found"} ELSE {}) :
       request' = [request EXCEPT ![r] = [@ EXCEPT !.at = at, !.session = l]]
  /\ UNCHANGED <<now, plan, login, sessions, asked, lastHad>>

(* A bug in IsValid: the clock is not looked at, Redis forgets sessions.   *)
IsValidMutant(l) == TRUE

IsValid(l) == now < login[l].validUntil

(* ... and then looks at the clock.                                        *)
Authenticate(r) ==
  /\ request[r].at = "found"
  /\ request' = [request EXCEPT
                   ![r].at = IF IsValid(request[r].session) THEN "passed" ELSE "refused",
                   ![r].passed = now]
  /\ UNCHANGED <<now, plan, login, sessions, asked, lastHad>>

(* Time passes, but for no longer than a login takes.                      *)
Tick ==
  /\ now < MaxTime
  /\ \A l \in Logins :
       login[l].at \in {"read", "checked"} => now - login[l].began < MaxDelay
  /\ now' = now + 1
  /\ lastHad' = [l \in Logins |->
                   IF /\ login[l].at # "idle"
                      /\ login[l].plan = plan[login[l].user]
                   THEN now + 1 ELSE lastHad[l]]
  /\ UNCHANGED <<plan, login, sessions, request, asked>>

Next ==
  \/ Tick
  \/ \E u \in Users :
       \/ Register(u) \/ AskForPro(u) \/ ChangeUserPlan(u)
       \/ \E p \in Plans : OperatorSetsPlan(u, p)
  \/ \E l \in Logins :
       \/ \E u \in Users : ReadCredentials(l, u)
       \/ CheckLogin(l) \/ SaveSession(l)
  \/ \E r \in Requests :
       \/ \E l \in Logins : GetSession(r, l)
       \/ Authenticate(r)

Spec == Init /\ [][Next]_accounts

(* A call that was made is answered.                                       *)
FairSpec == Spec /\ \A u \in Users : WF_accounts(ChangeUserPlan(u))

-----------------------------------------------------------------------------
(* Rows, logins, sessions and requests have their shapes; a request uses   *)
(* a session that Redis got, and Redis keeps it until it is invalid.       *)
TypeOK ==
  /\ now \in 0..MaxTime
  /\ plan \in [Users -> Plans \cup {NoRow}]
  /\ \A l \in Logins :
       /\ login[l].at \in {"idle", "read", "checked", "refused", "done"}
       /\ login[l].at # "idle" => plan[login[l].user] \in Plans
       /\ sessions[l] # NoKey => sessions[l] >= login[l].validUntil
  /\ \A r \in Requests :
       /\ request[r].at \in {"idle", "found", "refused", "passed"}
       /\ request[r].at # "idle" => sessions[request[r].session] # NoKey

(* The plan a request runs with is one its user had less than a session's  *)
(* life and a login's duration ago, however login, expiry and the change   *)
(* of the plan overlap.                                                    *)
PlanWasRecent ==
  \A r \in Requests :
    request[r].at = "passed" =>
      request[r].passed - lastHad[request[r].session] < SessionTTL + MaxDelay

(* "rpc ChangeUserPlan(PlanChangeRequest) returns (PlanChangeResponse)":   *)
(* a user who asks for the plan pro gets it.                               *)
PlanCanBeChanged ==
  \A u \in Users : asked[u] = "pro" ~> plan[u] = "pro"
=============================================================================

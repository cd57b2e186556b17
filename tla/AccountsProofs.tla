---------------------------- MODULE AccountsProofs ----------------------------
(* Proofs about Accounts, for any users, logins and requests, any life of a *)
(* session and any bound on a login's duration.                            *)
EXTENDS Accounts, TLAPS

LoginRecord == [at : {"idle", "read", "checked", "refused", "done"},
                user : Users \cup {""}, plan : Plans,
                began : Nat, validUntil : Nat]

RequestRecord == [at : {"idle", "found", "refused", "passed"},
                  session : Logins \cup {""}, passed : Nat]

ShapesOK ==
  /\ now \in 0..MaxTime
  /\ plan \in [Users -> Plans \cup {NoRow}]
  /\ login \in [Logins -> LoginRecord]
  /\ sessions \in [Logins -> Nat \cup {NoKey}]
  /\ request \in [Requests -> RequestRecord]
  /\ lastHad \in [Logins -> Nat]

(* A login has a registered user, who had the plan it read when it began   *)
(* or later, and is not slower than MaxDelay.                              *)
LoginOK(l) ==
  login[l].at # "idle" =>
    /\ login[l].user \in Users /\ plan[login[l].user] \in Plans
    /\ login[l].began <= lastHad[l] /\ login[l].began <= now
    /\ login[l].at \in {"read", "checked"} => now - login[l].began <= MaxDelay

(* A session that was made ends no later than it would if it had been made *)
(* at the last moment, and Redis keeps it at least as long.                *)
SessionOK(l) ==
  /\ login[l].at = "idle" => sessions[l] = NoKey
  /\ login[l].at \in {"read", "checked"} => sessions[l] = NoKey
  /\ login[l].at = "checked" => login[l].validUntil <= now + SessionTTL
  /\ login[l].at \in {"checked", "done"} =>
       login[l].validUntil <= login[l].began + MaxDelay + SessionTTL
  /\ login[l].at = "done" => sessions[l] # NoKey
  /\ sessions[l] # NoKey => sessions[l] >= login[l].validUntil

(* A request uses the session of a login that is done, and passed before   *)
(* the session ended.                                                      *)
RequestOK(r) ==
  /\ request[r].at # "idle" =>
       /\ request[r].session \in Logins
       /\ login[request[r].session].at = "done"
  /\ request[r].at = "passed" =>
       request[r].passed < login[request[r].session].validUntil

IInv ==
  /\ ShapesOK
  /\ \A l \in Logins : LoginOK(l) /\ SessionOK(l)
  /\ \A r \in Requests : RequestOK(r)

LEMMA Initially == Init => IInv
<1> SUFFICES ASSUME Init PROVE IInv
  OBVIOUS
<1>1. ShapesOK
  <2>1. [at |-> "idle", user |-> "", plan |-> "free", began |-> 0, validUntil |-> 0]
          \in LoginRecord
    BY DEF LoginRecord, Plans
  <2>2. [at |-> "idle", session |-> "", passed |-> 0] \in RequestRecord
    BY DEF RequestRecord
  <2>3. login \in [Logins -> LoginRecord] /\ request \in [Requests -> RequestRecord]
    BY <2>1, <2>2 DEF Init
  <2>4. plan \in [Users -> Plans \cup {NoRow}] /\ sessions \in [Logins -> Nat \cup {NoKey}]
    BY DEF Init
  <2>5. now \in 0..MaxTime
    <3>1. now = 0
      BY DEF Init
    <3> QED
      BY <3>1, TimesAssumption
  <2>6. lastHad \in [Logins -> Nat]
    BY DEF Init
  <2> QED
    BY <2>3, <2>4, <2>5, <2>6 DEF ShapesOK
<1>2. ASSUME NEW l \in Logins PROVE LoginOK(l) /\ SessionOK(l)
  BY DEF Init, LoginOK, SessionOK
<1>3. ASSUME NEW r \in Requests PROVE RequestOK(r)
  BY DEF Init, RequestOK
<1> QED
  BY <1>1, <1>2, <1>3 DEF IInv

LEMMA IInvImplies == IInv => TypeOK /\ PlanWasRecent
<1> SUFFICES ASSUME IInv PROVE TypeOK /\ PlanWasRecent
  OBVIOUS
<1> USE DEF IInv
<1>1. TypeOK
  BY DEF TypeOK, ShapesOK, LoginOK, SessionOK, RequestOK, LoginRecord, RequestRecord
<1>2. ASSUME NEW r \in Requests, request[r].at = "passed"
      PROVE  request[r].passed - lastHad[request[r].session] < SessionTTL + MaxDelay
  <2>1. PICK l \in Logins : l = request[r].session /\ login[l].at = "done"
    BY <1>2 DEF RequestOK
  <2>2. /\ request[r].passed < login[l].validUntil
        /\ login[l].validUntil <= login[l].began + MaxDelay + SessionTTL
        /\ login[l].began <= lastHad[l]
    BY <1>2, <2>1 DEF RequestOK, SessionOK, LoginOK
  <2>3. /\ request[r].passed \in Nat /\ login[l].validUntil \in Nat
        /\ login[l].began \in Nat /\ lastHad[l] \in Nat
    BY DEF ShapesOK, LoginRecord, RequestRecord
  <2> QED
    BY <2>1, <2>2, <2>3, TimesAssumption
<1> QED
  BY <1>1, <1>2 DEF PlanWasRecent

-----------------------------------------------------------------------------
(* user_service writes a row; no plan of a registered user disappears.     *)
LEMMA PlanStep ==
  ASSUME IInv, NEW u \in Users, NEW p \in Plans,
         plan' = [plan EXCEPT ![u] = p],
         lastHad' \in [Logins -> Nat],
         \A l \in Logins : login[l].at # "idle" => login[l].began <= lastHad'[l],
         UNCHANGED <<now, login, sessions, request>>
  PROVE  IInv'
<1>1. ShapesOK'
  BY DEF IInv, ShapesOK
<1>2. \A v \in Users : plan[v] \in Plans => plan'[v] \in Plans
  BY DEF IInv, ShapesOK
<1>3. ASSUME NEW l \in Logins PROVE (LoginOK(l) /\ SessionOK(l))'
  BY <1>2 DEF IInv, LoginOK, SessionOK
<1>4. ASSUME NEW r \in Requests PROVE RequestOK(r)'
  BY DEF IInv, RequestOK
<1> QED
  BY <1>1, <1>3, <1>4 DEF IInv

LEMMA RegisterStep == ASSUME IInv, NEW u \in Users, Register(u) PROVE IInv'
<1>1. \A l \in Logins : login[l].at # "idle" => login[l].began <= lastHad'[l]
  BY DEF Register, IInv, LoginOK
<1>2. lastHad' \in [Logins -> Nat] /\ "free" \in Plans
  BY DEF Register, IInv, ShapesOK, Plans
<1> QED
  BY <1>1, <1>2, PlanStep DEF Register

LEMMA OperatorStep ==
  ASSUME IInv, NEW u \in Users, NEW p \in Plans, OperatorSetsPlan(u, p)
  PROVE  IInv'
<1>1. now \in Nat /\ lastHad \in [Logins -> Nat]
  BY TimesAssumption DEF IInv, ShapesOK
<1>2. lastHad' \in [Logins -> Nat]
  BY <1>1 DEF OperatorSetsPlan
<1>3. \A l \in Logins : login[l].at # "idle" => login[l].began <= lastHad'[l]
  BY <1>1 DEF OperatorSetsPlan, IInv, LoginOK
<1> QED
  BY <1>2, <1>3, PlanStep DEF OperatorSetsPlan

-----------------------------------------------------------------------------
(* A step of one login l leaves the others, and what passed, as they were. *)
LEMMA LoginStep ==
  ASSUME IInv, NEW l \in Logins, NEW record \in LoginRecord,
         login[l].at # "done",
         login' = [login EXCEPT ![l] = record],
         sessions' \in [Logins -> Nat \cup {NoKey}],
         lastHad' \in [Logins -> Nat],
         \A k \in Logins \ {l} : sessions'[k] = sessions[k] /\ lastHad'[k] = lastHad[k],
         UNCHANGED <<now, plan, request>>,
         LoginOK(l)', SessionOK(l)'
  PROVE  IInv'
<1>1. ShapesOK'
  BY DEF IInv, ShapesOK
<1>2. \A k \in Logins \ {l} : login'[k] = login[k]
  BY DEF IInv, ShapesOK
<1>3. ASSUME NEW k \in Logins PROVE (LoginOK(k) /\ SessionOK(k))'
  <2>1. CASE k = l
    BY <2>1
  <2>2. CASE k # l
    BY <1>2, <2>2 DEF IInv, LoginOK, SessionOK
  <2> QED
    BY <2>1, <2>2
<1>4. ASSUME NEW r \in Requests PROVE RequestOK(r)'
  BY <1>2 DEF IInv, RequestOK
<1> QED
  BY <1>1, <1>3, <1>4 DEF IInv

LEMMA ReadCredentialsStep ==
  ASSUME IInv, NEW l \in Logins, NEW u \in Users, ReadCredentials(l, u)
  PROVE  IInv'
<1> DEFINE record == [login[l] EXCEPT !.at = "read", !.user = u,
                                      !.plan = plan[u], !.began = now]
<1>1. /\ login[l] \in LoginRecord /\ now \in Nat /\ login[l].at = "idle"
      /\ login \in [Logins -> LoginRecord] /\ lastHad \in [Logins -> Nat]
      /\ sessions[l] = NoKey
  BY TimesAssumption DEF IInv, ShapesOK, SessionOK, ReadCredentials
<1>2. record \in LoginRecord
  BY <1>1 DEF LoginRecord, ReadCredentials
<1>3. login' = [login EXCEPT ![l] = record]
  BY DEF ReadCredentials
<1>4. lastHad' \in [Logins -> Nat] /\ lastHad'[l] = now
  BY <1>1 DEF ReadCredentials
<1>5. login'[l] = record /\ now' = now /\ plan' = plan /\ sessions' = sessions
  BY <1>1, <1>3 DEF ReadCredentials
<1>6. /\ record.at = "read" /\ record.user = u /\ record.began = now
      /\ plan[u] \in Plans
  BY <1>1 DEF LoginRecord, ReadCredentials
<1>7. LoginOK(l)' /\ SessionOK(l)'
  BY <1>1, <1>4, <1>5, <1>6, TimesAssumption DEF LoginOK, SessionOK
<1> HIDE DEF record
<1> QED
  BY <1>1, <1>2, <1>3, <1>4, <1>7, LoginStep DEF ReadCredentials, IInv, ShapesOK

LEMMA CheckLoginStep == ASSUME IInv, NEW l \in Logins, CheckLogin(l) PROVE IInv'
<1>1. /\ login[l] \in LoginRecord /\ now \in Nat /\ login[l].at = "read"
      /\ login \in [Logins -> LoginRecord] /\ lastHad \in [Logins -> Nat]
      /\ sessions[l] = NoKey /\ login[l].user \in Users
      /\ plan[login[l].user] \in Plans /\ login[l].began <= lastHad[l]
      /\ login[l].began <= now
      /\ now - login[l].began <= MaxDelay /\ now + SessionTTL \in Nat
  BY TimesAssumption DEF IInv, ShapesOK, LoginOK, SessionOK, CheckLogin
<1>2. PICK record \in LoginRecord :
        /\ login' = [login EXCEPT ![l] = record]
        /\ record.user = login[l].user /\ record.began = login[l].began
        /\ \/ record.at = "refused"
           \/ record.at = "checked" /\ record.validUntil = now + SessionTTL
  <2>1. CASE login' = [login EXCEPT ![l].at = "refused"]
    <3> DEFINE record == [login[l] EXCEPT !.at = "refused"]
    <3>1. record \in LoginRecord
      BY <1>1 DEF LoginRecord
    <3> QED
      BY <1>1, <2>1, <3>1 DEF LoginRecord
  <2>2. CASE login' = [login EXCEPT ![l].at = "checked",
                                    ![l].validUntil = now + SessionTTL]
    <3> DEFINE record == [login[l] EXCEPT !.at = "checked", !.validUntil = now + SessionTTL]
    <3>1. record \in LoginRecord
      BY <1>1 DEF LoginRecord
    <3>2. login' = [login EXCEPT ![l] = record]
      BY <1>1, <2>2
    <3>3. /\ record.user = login[l].user /\ record.began = login[l].began
          /\ record.at = "checked" /\ record.validUntil = now + SessionTTL
      BY <1>1 DEF LoginRecord
    <3> QED
      BY <3>1, <3>2, <3>3
  <2> QED
    BY <2>1, <2>2 DEF CheckLogin
<1>3. login'[l] = record /\ UNCHANGED <<now, plan, sessions, lastHad, request>>
  BY <1>1, <1>2 DEF CheckLogin
<1>4. record.began \in Nat /\ record.validUntil \in Nat
  BY <1>2 DEF LoginRecord
<1>5. LoginOK(l)' /\ SessionOK(l)'
  BY <1>1, <1>2, <1>3, <1>4, TimesAssumption DEF LoginOK, SessionOK
<1> QED
  BY <1>1, <1>2, <1>3, <1>5, LoginStep DEF IInv, ShapesOK

LEMMA SaveSessionStep == ASSUME IInv, NEW l \in Logins, SaveSession(l) PROVE IInv'
<1>1. /\ login[l] \in LoginRecord /\ now \in Nat /\ login[l].at = "checked"
      /\ login \in [Logins -> LoginRecord] /\ lastHad \in [Logins -> Nat]
      /\ sessions \in [Logins -> Nat \cup {NoKey}]
      /\ sessions[l] = NoKey /\ login[l].user \in Users
      /\ plan[login[l].user] \in Plans /\ login[l].began <= lastHad[l]
      /\ login[l].began <= now
      /\ login[l].validUntil <= now + SessionTTL
      /\ login[l].validUntil <= login[l].began + MaxDelay + SessionTTL
      /\ now + SessionTTL \in Nat
  BY TimesAssumption DEF IInv, ShapesOK, LoginOK, SessionOK, SaveSession
<1>2. PICK stored \in BOOLEAN, failed \in BOOLEAN :
        /\ stored \/ failed
        /\ login' = [login EXCEPT ![l].at = IF failed THEN "refused" ELSE "done"]
        /\ sessions' = IF stored THEN [sessions EXCEPT ![l] = now + SessionTTL]
                                 ELSE sessions
  BY DEF SaveSession
<1>3. PICK at \in {"refused", "done"} : at = (IF failed THEN "refused" ELSE "done")
  OBVIOUS
<1>4. PICK record \in LoginRecord :
        /\ login' = [login EXCEPT ![l] = record]
        /\ record.at = at
        /\ record.user = login[l].user /\ record.began = login[l].began
        /\ record.validUntil = login[l].validUntil
  <2> DEFINE record == [login[l] EXCEPT !.at = at]
  <2>1. record \in LoginRecord
    BY <1>1 DEF LoginRecord
  <2>2. login' = [login EXCEPT ![l] = record]
    BY <1>1, <1>2, <1>3
  <2>3. /\ record.at = at
        /\ record.user = login[l].user /\ record.began = login[l].began
        /\ record.validUntil = login[l].validUntil
    BY <1>1 DEF LoginRecord
  <2> QED
    BY <2>1, <2>2, <2>3
<1>5. /\ sessions' \in [Logins -> Nat \cup {NoKey}]
      /\ \A k \in Logins \ {l} : sessions'[k] = sessions[k]
      /\ stored => sessions'[l] = now + SessionTTL
      /\ ~ stored => sessions'[l] = NoKey
  BY <1>1, <1>2
<1>6. login'[l] = record /\ UNCHANGED <<now, plan, lastHad, request>>
  BY <1>1, <1>4 DEF SaveSession
<1>7. LoginOK(l)'
  BY <1>1, <1>3, <1>4, <1>6 DEF LoginOK
<1>8. SessionOK(l)'
  <2>1. now + SessionTTL # NoKey
    BY <1>1 DEF NoKey
  <2>2. sessions'[l] # NoKey => sessions'[l] = now + SessionTTL
    BY <1>5
  <2>3. record.at # "done" \/ sessions'[l] # NoKey
    BY <1>2, <1>3, <1>4, <1>5, <2>1
  <2> QED
    BY <1>1, <1>3, <1>4, <1>6, <2>2, <2>3 DEF SessionOK
<1> QED
  BY <1>1, <1>4, <1>5, <1>6, <1>7, <1>8, LoginStep

-----------------------------------------------------------------------------
(* A step of one request.                                                  *)
LEMMA RequestStep ==
  ASSUME IInv, NEW r \in Requests, NEW record \in RequestRecord,
         request' = [request EXCEPT ![r] = record],
         UNCHANGED <<now, plan, login, sessions, lastHad>>,
         RequestOK(r)'
  PROVE  IInv'
<1>1. ShapesOK'
  BY DEF IInv, ShapesOK
<1>2. ASSUME NEW l \in Logins PROVE (LoginOK(l) /\ SessionOK(l))'
  BY DEF IInv, LoginOK, SessionOK
<1>3. ASSUME NEW q \in Requests PROVE RequestOK(q)'
  BY DEF IInv, ShapesOK, RequestOK
<1> QED
  BY <1>1, <1>2, <1>3 DEF IInv

LEMMA GetSessionStep ==
  ASSUME IInv, NEW r \in Requests, NEW l \in Logins, GetSession(r, l)
  PROVE  IInv'
<1>1. request \in [Requests -> RequestRecord] /\ login[l].at = "done"
  BY DEF IInv, ShapesOK, GetSession
<1>2. PICK at \in {"refused", "found"} :
        request' = [request EXCEPT ![r] = [@ EXCEPT !.at = at, !.session = l]]
  BY DEF GetSession
<1>3. PICK record \in RequestRecord :
        /\ request' = [request EXCEPT ![r] = record]
        /\ record.at = at /\ record.session = l
  <2> DEFINE record == [request[r] EXCEPT !.at = at, !.session = l]
  <2>1. record \in RequestRecord
    BY <1>1 DEF RequestRecord
  <2>2. record.at = at /\ record.session = l
    BY <1>1 DEF RequestRecord
  <2>3. request' = [request EXCEPT ![r] = record]
    BY <1>2
  <2> QED
    BY <2>1, <2>2, <2>3
<1>4. request'[r] = record
  BY <1>1, <1>3
<1>5. RequestOK(r)'
  BY <1>1, <1>3, <1>4 DEF RequestOK, GetSession
<1> QED
  BY <1>3, <1>5, RequestStep DEF GetSession

LEMMA AuthenticateStep ==
  ASSUME IInv, NEW r \in Requests, Authenticate(r)
  PROVE  IInv'
<1>1. /\ request \in [Requests -> RequestRecord] /\ now \in Nat
      /\ request[r].at = "found" /\ RequestOK(r)
  BY TimesAssumption DEF IInv, ShapesOK, Authenticate
<1>2. PICK at \in {"refused", "passed"} :
        /\ at = (IF IsValid(request[r].session) THEN "passed" ELSE "refused")
        /\ request' = [request EXCEPT ![r].at = at, ![r].passed = now]
  BY DEF Authenticate
<1>3. PICK record \in RequestRecord :
        /\ request' = [request EXCEPT ![r] = record]
        /\ record.at = at /\ record.passed = now
        /\ record.session = request[r].session
  <2> DEFINE record == [request[r] EXCEPT !.at = at, !.passed = now]
  <2>1. record \in RequestRecord
    BY <1>1 DEF RequestRecord
  <2>2. /\ record.at = at /\ record.passed = now
        /\ record.session = request[r].session
    BY <1>1 DEF RequestRecord
  <2>3. request' = [request EXCEPT ![r] = record]
    BY <1>1, <1>2
  <2> QED
    BY <2>1, <2>2, <2>3
<1>4. request'[r] = record
  BY <1>1, <1>3
<1>5. RequestOK(r)'
  BY <1>1, <1>2, <1>3, <1>4 DEF RequestOK, Authenticate, IsValid
<1> QED
  BY <1>3, <1>5, RequestStep DEF Authenticate

-----------------------------------------------------------------------------
(* What a user asks for concerns no login.                                 *)
LEMMA Unchanged ==
  ASSUME IInv, UNCHANGED <<now, plan, login, sessions, request, lastHad>>
  PROVE  IInv'
<1>1. ShapesOK'
  BY DEF IInv, ShapesOK
<1>2. ASSUME NEW l \in Logins PROVE (LoginOK(l) /\ SessionOK(l))'
  BY DEF IInv, LoginOK, SessionOK
<1>3. ASSUME NEW r \in Requests PROVE RequestOK(r)'
  BY DEF IInv, RequestOK
<1> QED
  BY <1>1, <1>2, <1>3 DEF IInv

-----------------------------------------------------------------------------
(* Time passes.                                                            *)
LEMMA TickStep == ASSUME IInv, Tick PROVE IInv'
<1>1. /\ now \in Nat /\ now' = now + 1 /\ login \in [Logins -> LoginRecord]
      /\ lastHad \in [Logins -> Nat] /\ UNCHANGED <<plan, login, sessions, request>>
  BY TimesAssumption DEF IInv, ShapesOK, Tick
<1>2. lastHad' \in [Logins -> Nat] /\ now' \in 0..MaxTime
  BY <1>1, TimesAssumption DEF Tick
<1>3. ShapesOK'
  BY <1>1, <1>2 DEF IInv, ShapesOK
<1>4. ASSUME NEW l \in Logins PROVE (LoginOK(l) /\ SessionOK(l))'
  <2>1. login[l].began \in Nat /\ login[l].validUntil \in Nat /\ lastHad[l] \in Nat
    BY <1>1 DEF LoginRecord
  <2>2. login[l].at \in {"read", "checked"} => now - login[l].began < MaxDelay
    BY DEF Tick
  <2>3. lastHad'[l] \in {lastHad[l], now + 1}
    BY DEF Tick
  <2>4. login[l].at \in {"read", "checked"} => now' - login[l].began <= MaxDelay
    BY <1>1, <2>1, <2>2, TimesAssumption
  <2>5. login[l].at # "idle" => login[l].began <= lastHad'[l]
    <3>1. CASE lastHad'[l] = lastHad[l]
      BY <3>1 DEF IInv, LoginOK
    <3>2. CASE lastHad'[l] = now + 1
      BY <1>1, <2>1, <3>2 DEF IInv, LoginOK
    <3> QED
      BY <2>3, <3>1, <3>2
  <2>6. LoginOK(l)'
    BY <1>1, <2>1, <2>4, <2>5 DEF IInv, LoginOK
  <2>7. SessionOK(l)'
    BY <1>1, <2>1, TimesAssumption DEF IInv, SessionOK
  <2> QED
    BY <2>6, <2>7
<1>5. ASSUME NEW r \in Requests PROVE RequestOK(r)'
  BY <1>1 DEF IInv, RequestOK
<1> QED
  BY <1>3, <1>4, <1>5 DEF IInv
-----------------------------------------------------------------------------
LEMMA Inductive == IInv /\ [Next]_accounts => IInv'
<1> SUFFICES ASSUME IInv, [Next]_accounts PROVE IInv'
  OBVIOUS
<1>1. CASE Tick
  BY <1>1, TickStep
<1>2. ASSUME NEW u \in Users,
             \/ Register(u) \/ AskForPro(u) \/ ChangeUserPlan(u)
             \/ \E p \in Plans : OperatorSetsPlan(u, p)
      PROVE  IInv'
  <2>1. CASE AskForPro(u) \/ ChangeUserPlan(u)
    BY <2>1, Unchanged DEF AskForPro, ChangeUserPlan
  <2> QED
    BY <1>2, <2>1, RegisterStep, OperatorStep
<1>3. ASSUME NEW l \in Logins,
             \/ \E u \in Users : ReadCredentials(l, u)
             \/ CheckLogin(l) \/ SaveSession(l)
      PROVE  IInv'
  BY <1>3, ReadCredentialsStep, CheckLoginStep, SaveSessionStep
<1>4. ASSUME NEW r \in Requests,
             (\E l \in Logins : GetSession(r, l)) \/ Authenticate(r)
      PROVE  IInv'
  BY <1>4, GetSessionStep, AuthenticateStep
<1>5. CASE UNCHANGED accounts
  BY <1>5, Unchanged DEF accounts
<1> QED
  BY <1>1, <1>2, <1>3, <1>4, <1>5 DEF Next

(* The invariant of Accounts: how a login's steps, the end of its session  *)
(* and the change of its user's plan are related.                          *)
THEOREM Invariance == Spec => []IInv
<1> QED
  BY Initially, Inductive, PTL DEF Spec

(* Every state of plans, logins, sessions and requests has its shape.      *)
THEOREM TypeCorrectness == Spec => []TypeOK
<1> QED
  BY Invariance, IInvImplies, PTL

(* A request never runs with a plan that its user had a session's life and *)
(* a login's duration ago, or longer, whatever those times are.            *)
THEOREM PlansAreRecent == Spec => []PlanWasRecent
<1> QED
  BY Invariance, IInvImplies, PTL
=============================================================================

------------------------ MODULE ServiceLifecycleProofs ------------------------
(* Proofs about ServiceLifecycle, for any number of calls and streams.     *)
EXTENDS ServiceLifecycle, TLAPS

(* What the first n steps of service s open.                               *)
Opened(s, n) == {Steps[s][i] : i \in 1..n} \cap Resources

Listed(q) == {q[i] : i \in 1..Len(q)}

(* While it is being built, a process has open just what its steps opened; *)
(* then no more than that, and all of it is on shutdown's list.            *)
OpenIsBuilt ==
  /\ phase = "building" => open = Opened(service, built)
  /\ phase \in {"serving", "stopping"} => open \subseteq Opened(service, built)
  /\ phase = "closing" => open \subseteq Listed(closing)

BuiltBeforeRun == phase \in {"serving", "stopping", "closing"} => built = Len(Steps[service])

ResourceInv == OpenIsBuilt /\ BuiltBeforeRun /\ OnlyKnownRemains

(* Calls come when the server serves, only GracefulStop drains it, and     *)
(* whoever holds a connection keeps the pool from being closed.            *)
NoCallYet ==
  phase \in {"building", "failed"} =>
    held = {} /\ \A c \in Calls : call[c] = "none"

DrainedAtTheEnd == drained => phase \in {"closing", "exited"}

HeldPoolIsOpen == "pool" \notin open => held = {}

CallInv == NoCallYet /\ DrainedAtTheEnd /\ HeldPoolIsOpen /\ CallsWhileClosing

IInv == TypeOK /\ ResourceInv /\ CallInv

-----------------------------------------------------------------------------
(* The steps, and what is closed when one of them fails.                   *)
LEMMA OrderSequence ==
  ASSUME NEW n \in 0..6
  PROVE  /\ Len(OrderSteps) = 7
         /\ \A i \in 1..n : OrderSteps[i] \in Resources =>
                              OrderSteps[i] \in CleanUp(OrderSteps[n + 1])
<1>1. n = 0 \/ n = 1 \/ n = 2 \/ n = 3 \/ n = 4 \/ n = 5 \/ n = 6
  OBVIOUS
<1>2. /\ Len(OrderSteps) = 7
      /\ OrderSteps[1] = "pool" /\ OrderSteps[2] = "redis"
      /\ OrderSteps[3] = "producer" /\ OrderSteps[4] = "consumer"
      /\ OrderSteps[5] = "statusConsumer" /\ OrderSteps[6] = "policy"
      /\ OrderSteps[7] = "listener"
  BY DEF OrderSteps
<1> QED
  BY <1>1, <1>2 DEF CleanUp, Resources

LEMMA MarketSequence ==
  ASSUME NEW n \in 0..4
  PROVE  /\ Len(MarketSteps) = 5
         /\ \A i \in 1..n : MarketSteps[i] \in Resources =>
                              MarketSteps[i] \in CleanUp(MarketSteps[n + 1])
<1>1. n = 0 \/ n = 1 \/ n = 2 \/ n = 3 \/ n = 4
  OBVIOUS
<1>2. /\ Len(MarketSteps) = 5
      /\ MarketSteps[1] = "pool" /\ MarketSteps[2] = "redis"
      /\ MarketSteps[3] = "producer" /\ MarketSteps[4] = "consumer"
      /\ MarketSteps[5] = "listener"
  BY DEF MarketSteps
<1> QED
  BY <1>1, <1>2 DEF CleanUp, Resources

LEMMA AuthSequence ==
  ASSUME NEW n \in 0..2
  PROVE  /\ Len(AuthSteps) = 4
         /\ \A i \in 1..n : AuthSteps[i] \in Resources =>
                              AuthSteps[i] \in CleanUp(AuthSteps[n + 1])
<1>1. n = 0 \/ n = 1 \/ n = 2
  OBVIOUS
<1>2. /\ Len(AuthSteps) = 4
      /\ AuthSteps[1] = "pool" /\ AuthSteps[2] = "redis" /\ AuthSteps[3] = "policy"
  BY DEF AuthSteps
<1> QED
  BY <1>1, <1>2 DEF CleanUp, Resources

LEMMA UserSequence ==
  ASSUME NEW n \in 0..1
  PROVE  /\ Len(UserSteps) = 3
         /\ \A i \in 1..n : UserSteps[i] \in Resources =>
                              UserSteps[i] \in CleanUp(UserSteps[n + 1])
<1>1. n = 0 \/ n = 1
  OBVIOUS
<1>2. /\ Len(UserSteps) = 3
      /\ UserSteps[1] = "pool" /\ UserSteps[2] = "redis"
  BY DEF UserSteps
<1> QED
  BY <1>1, <1>2 DEF CleanUp, Resources

(* Whichever step of New fails, CleanUp covers what the steps before it    *)
(* opened.                                                                 *)
LEMMA CleanUpCovers ==
  ASSUME NEW s \in Services, NEW n \in Nat, n < StepsInNew[s]
  PROVE  Opened(s, n) \subseteq CleanUp(Steps[s][n + 1])
<1>1. CASE s = "order"
  <2>1. Steps[s] = OrderSteps /\ n \in 0..6
    BY <1>1 DEF Steps, StepsInNew
  <2> QED
    BY <2>1, OrderSequence DEF Opened
<1>2. CASE s = "market"
  <2>1. Steps[s] = MarketSteps /\ n \in 0..4
    BY <1>2 DEF Steps, StepsInNew
  <2> QED
    BY <2>1, MarketSequence DEF Opened
<1>3. CASE s = "auth"
  <2>1. Steps[s] = AuthSteps /\ n \in 0..2
    BY <1>3 DEF Steps, StepsInNew
  <2> QED
    BY <2>1, AuthSequence DEF Opened
<1>4. CASE s = "user"
  <2>1. Steps[s] = UserSteps /\ n \in 0..1
    BY <1>4 DEF Steps, StepsInNew
  <2> QED
    BY <2>1, UserSequence DEF Opened
<1> QED
  BY <1>1, <1>2, <1>3, <1>4 DEF Services

LEMMA Lengths ==
  /\ Steps["order"] = OrderSteps /\ Steps["market"] = MarketSteps
  /\ Steps["auth"] = AuthSteps /\ Steps["user"] = UserSteps
  /\ Len(Steps["order"]) = 7 /\ StepsInNew["order"] = 7
  /\ Len(Steps["market"]) = 5 /\ StepsInNew["market"] = 5
  /\ Len(Steps["auth"]) = 4 /\ StepsInNew["auth"] = 3
  /\ Len(Steps["user"]) = 3 /\ StepsInNew["user"] = 2
BY DEF Steps, StepsInNew, OrderSteps, MarketSteps, AuthSteps, UserSteps

LEMMA StepCount ==
  ASSUME NEW s \in Services
  PROVE  /\ Len(Steps[s]) \in Nat /\ StepsInNew[s] \in Nat
         /\ StepsInNew[s] <= Len(Steps[s])
         /\ s \in {"order", "market"} => StepsInNew[s] = Len(Steps[s])
<1>1. CASE s = "order"
  BY <1>1, Lengths
<1>2. CASE s = "market"
  BY <1>2, Lengths
<1>3. CASE s = "auth"
  BY <1>3, Lengths
<1>4. CASE s = "user"
  BY <1>4, Lengths
<1> QED
  BY <1>1, <1>2, <1>3, <1>4 DEF Services

(* Where New is over and a step is left, it is the Listen of auth or user. *)
LEMMA OnlyListenIsLeft ==
  ASSUME NEW s \in Services, NEW n \in Nat, StepsInNew[s] <= n, n < Len(Steps[s])
  PROVE  Opened(s, n) = {"pool", "redis"}
<1>1. CASE s \in {"order", "market"}
  BY <1>1, StepCount
<1>2. CASE s = "auth"
  <2>1. Steps[s] = AuthSteps /\ n = 3
    BY <1>2, Lengths
  <2>2. AuthSteps[1] = "pool" /\ AuthSteps[2] = "redis" /\ AuthSteps[3] = "policy"
    BY DEF AuthSteps
  <2>3. Opened(s, n) = {AuthSteps[1], AuthSteps[2], AuthSteps[3]} \cap Resources
    BY <2>1 DEF Opened
  <2> QED
    BY <2>2, <2>3 DEF Resources
<1>3. CASE s = "user"
  <2>1. Steps[s] = UserSteps /\ n = 2
    BY <1>3, Lengths
  <2>2. UserSteps[1] = "pool" /\ UserSteps[2] = "redis"
    BY DEF UserSteps
  <2>3. Opened(s, n) = {UserSteps[1], UserSteps[2]} \cap Resources
    BY <2>1 DEF Opened
  <2> QED
    BY <2>2, <2>3 DEF Resources
<1> QED
  BY <1>1, <1>2, <1>3 DEF Services

(* shutdown's list has all that any step opened, but the listener.         *)
LEMMA ClosingOrderCovers ==
  ASSUME NEW s \in Services
  PROVE  Opened(s, Len(Steps[s])) \ {"listener"} \subseteq Listed(ClosingOrder[s])
<1>1. CASE s = "order"
  <2>2. Opened(s, Len(Steps[s])) \ {"listener"}
          \subseteq {"pool", "redis", "producer", "consumer", "statusConsumer"}
    <3>1. Opened(s, Len(Steps[s])) \subseteq Resources
      BY DEF Opened
    <3> QED
      BY <3>1 DEF Resources
  <2> DEFINE q == <<"statusConsumer", "consumer", "producer", "redis", "pool">>
  <2>3. ClosingOrder[s] = q
    BY <1>1 DEF ClosingOrder
  <2>4. /\ Len(q) = 5 /\ q[1] = "statusConsumer" /\ q[2] = "consumer"
        /\ q[3] = "producer" /\ q[4] = "redis" /\ q[5] = "pool"
    OBVIOUS
  <2>5. \A r \in {"pool", "redis", "producer", "consumer", "statusConsumer"} :
          \E i \in 1..Len(q) : q[i] = r
    BY <2>4
  <2> QED
    BY <2>2, <2>3, <2>5 DEF Listed
<1>2. CASE s = "market"
  <2>1. /\ MarketSteps[1] = "pool" /\ MarketSteps[2] = "redis"
        /\ MarketSteps[3] = "producer" /\ MarketSteps[4] = "consumer"
        /\ MarketSteps[5] = "listener" /\ Len(MarketSteps) = 5
    BY DEF MarketSteps
  <2>2. Opened(s, Len(Steps[s])) \ {"listener"}
          \subseteq {"pool", "redis", "producer", "consumer"}
    <3>1. Opened(s, Len(Steps[s])) = {MarketSteps[i] : i \in 1..5} \cap Resources
      BY <1>2, <2>1 DEF Opened, Steps
    <3>2. \A i \in 1..5 :
            MarketSteps[i] \in {"pool", "redis", "producer", "consumer", "listener"}
      BY <2>1
    <3> QED
      BY <3>1, <3>2
  <2> DEFINE q == <<"consumer", "producer", "redis", "pool">>
  <2>3. ClosingOrder[s] = q
    BY <1>2 DEF ClosingOrder
  <2>4. /\ Len(q) = 4 /\ q[1] = "consumer" /\ q[2] = "producer"
        /\ q[3] = "redis" /\ q[4] = "pool"
    OBVIOUS
  <2>5. \A r \in {"pool", "redis", "producer", "consumer"} :
          \E i \in 1..Len(q) : q[i] = r
    BY <2>4
  <2> QED
    BY <2>2, <2>3, <2>5 DEF Listed
<1>3. CASE s \in {"auth", "user"}
  <2>1. Opened(s, Len(Steps[s])) \ {"listener"} \subseteq {"pool", "redis"}
    <3>1. /\ AuthSteps[1] = "pool" /\ AuthSteps[2] = "redis" /\ AuthSteps[3] = "policy"
          /\ AuthSteps[4] = "listener" /\ Len(AuthSteps) = 4
      BY DEF AuthSteps
    <3>2. /\ UserSteps[1] = "pool" /\ UserSteps[2] = "redis"
          /\ UserSteps[3] = "listener" /\ Len(UserSteps) = 3
      BY DEF UserSteps
    <3>3. CASE s = "auth"
      <4>1. Opened(s, Len(Steps[s])) = {AuthSteps[i] : i \in 1..4} \cap Resources
        BY <3>1, <3>3 DEF Opened, Steps
      <4>2. \A i \in 1..4 : AuthSteps[i] \in {"pool", "redis", "policy", "listener"}
        BY <3>1
      <4> QED
        BY <4>1, <4>2 DEF Resources
    <3>4. CASE s = "user"
      <4>1. Opened(s, Len(Steps[s])) = {UserSteps[i] : i \in 1..3} \cap Resources
        BY <3>2, <3>4 DEF Opened, Steps
      <4>2. \A i \in 1..3 : UserSteps[i] \in {"pool", "redis", "listener"}
        BY <3>2
      <4> QED
        BY <4>1, <4>2
    <3> QED
      BY <1>3, <3>3, <3>4
  <2> DEFINE q == <<"pool", "redis">>
  <2>2. ClosingOrder[s] = q
    BY <1>3 DEF ClosingOrder
  <2>3. Len(q) = 2 /\ q[1] = "pool" /\ q[2] = "redis"
    OBVIOUS
  <2>4. \A r \in {"pool", "redis"} : \E i \in 1..Len(q) : q[i] = r
    BY <2>3
  <2> QED
    BY <2>1, <2>2, <2>4 DEF Listed
<1> QED
  BY <1>1, <1>2, <1>3 DEF Services

(* Closing the head of the list leaves what is open on its tail.           *)
LEMMA TailCovers ==
  ASSUME NEW q \in Seq(Resources), q # <<>>
  PROVE  Listed(q) \ {Head(q)} \subseteq Listed(Tail(q))
<1> SUFFICES ASSUME NEW i \in 1..Len(q), q[i] # Head(q)
             PROVE  q[i] \in Listed(Tail(q))
  BY DEF Listed
<1>1. i # 1 /\ Len(Tail(q)) = Len(q) - 1
  OBVIOUS
<1>2. i - 1 \in 1..Len(Tail(q)) /\ Tail(q)[i - 1] = q[i]
  BY <1>1
<1> QED
  BY <1>2 DEF Listed

LEMMA ClosingOrderType ==
  ASSUME NEW s \in Services PROVE ClosingOrder[s] \in Seq(Resources)
<1>1. /\ ClosingOrder.order \in Seq(Resources)
      /\ ClosingOrder.market \in Seq(Resources)
      /\ ClosingOrder.auth \in Seq(Resources)
      /\ ClosingOrder.user \in Seq(Resources)
  BY DEF Resources, ClosingOrder
<1>2. CASE s = "order"
  BY <1>1, <1>2
<1>3. CASE s = "market"
  BY <1>1, <1>3
<1>4. CASE s = "auth"
  BY <1>1, <1>4
<1>5. CASE s = "user"
  BY <1>1, <1>5
<1> QED
  BY <1>2, <1>3, <1>4, <1>5 DEF Services

-----------------------------------------------------------------------------
LEMMA Initially == Init => IInv
<1> SUFFICES ASSUME Init PROVE IInv
  OBVIOUS
<1>1. built \in 0..Len(Steps[service]) /\ built = 0
  BY StepCount DEF Init
<1>2. /\ closing \in Seq(Resources)
      /\ worker \in [AllWorkers -> {"off", "running", "gone"}]
      /\ call \in [Calls -> {"none", "running", "done"}]
  BY DEF Init
<1>3. TypeOK
  BY <1>1, <1>2 DEF Init, TypeOK, Phases
<1>4. Opened(service, built) = {}
  BY <1>1 DEF Opened
<1>5. ResourceInv
  BY <1>4 DEF Init, ResourceInv, OpenIsBuilt, BuiltBeforeRun, OnlyKnownRemains
<1>6. CallInv
  BY DEF Init, CallInv, NoCallYet, DrainedAtTheEnd, HeldPoolIsOpen, CallsWhileClosing
<1> QED
  BY <1>3, <1>5, <1>6 DEF IInv

(* The steps of the main goroutine: calls, workers and connections are as  *)
(* they were.                                                              *)
LEMMA BuildStepKeeps == IInv /\ BuildStep => IInv'
<1> SUFFICES ASSUME IInv, BuildStep PROVE IInv'
  OBVIOUS
<1>1. /\ service \in Services /\ Len(Steps[service]) \in Nat
      /\ built \in Nat /\ built' = built + 1 /\ built' <= Len(Steps[service])
      /\ open' = open \cup ({Steps[service][built + 1]} \cap Resources)
      /\ UNCHANGED <<service, phase, closing, cancelled, drained, worker, call, held>>
      /\ phase = "building" /\ open = Opened(service, built)
  BY StepCount DEF BuildStep, IInv, TypeOK, ResourceInv, OpenIsBuilt
<1>2. open' = Opened(service, built')
  <2>1. {Steps[service][i] : i \in 1..(built + 1)}
          = {Steps[service][i] : i \in 1..built} \cup {Steps[service][built + 1]}
    <3>1. 1..(built + 1) = (1..built) \cup {built + 1}
      BY <1>1
    <3> QED
      BY <3>1
  <2> QED
    BY <1>1, <2>1 DEF Opened
<1>3. TypeOK'
  BY <1>1 DEF IInv, TypeOK, Active
<1>4. ResourceInv'
  BY <1>1, <1>2 DEF ResourceInv, OpenIsBuilt, BuiltBeforeRun, OnlyKnownRemains, Opened
<1>5. CallInv'
  BY <1>1 DEF IInv, CallInv, NoCallYet, DrainedAtTheEnd, HeldPoolIsOpen, CallsWhileClosing
<1> QED
  BY <1>3, <1>4, <1>5 DEF IInv

LEMMA BuildFailsKeeps == IInv /\ BuildFails => IInv'
<1> SUFFICES ASSUME IInv, BuildFails PROVE IInv'
  OBVIOUS
<1>1. /\ service \in Services /\ built \in Nat /\ phase = "building"
      /\ built < Len(Steps[service])
      /\ UNCHANGED <<service, built, closing, cancelled, drained, worker, call, held>>
      /\ open = Opened(service, built) /\ open \subseteq Resources
      /\ Len(Steps[service]) \in Nat /\ StepsInNew[service] \in Nat
  BY StepCount DEF BuildFails, IInv, TypeOK, ResourceInv, OpenIsBuilt
<1>2. held = {} /\ (\A c \in Calls : call[c] = "none") /\ ~ drained
  BY <1>1 DEF IInv, CallInv, NoCallYet, DrainedAtTheEnd
<1>3. phase' \in {"failed", "exited"} /\ open' = Remains'
  <2>1. CASE built < StepsInNew[service]
    <3> DEFINE step == Steps[service][built + 1]
    <3>1. phase' = "failed" /\ open' = (open \cup LeftBy(step)) \ CleanUp(step)
      BY <2>1 DEF BuildFails
    <3>2. open \subseteq CleanUp(step)
      BY <1>1, <2>1, CleanUpCovers
    <3>3. LeftBy(step) \cap CleanUp(step) = {}
      BY DEF LeftBy, CleanUp
    <3>4. open' = LeftBy(step)
      BY <3>1, <3>2, <3>3
    <3>5. Remains' = IF step = "redis" THEN {"redis"} ELSE {}
      BY <1>1, <2>1 DEF Remains
    <3> QED
      BY <3>1, <3>4, <3>5 DEF LeftBy
  <2>2. CASE StepsInNew[service] <= built
    <3>1. phase' = "exited" /\ open' = open
      BY <1>1, <2>2 DEF BuildFails
    <3>2. open = {"pool", "redis"}
      BY <1>1, <2>2, OnlyListenIsLeft
    <3>3. Remains' = {"pool", "redis"}
      BY <1>1, <2>2 DEF Remains
    <3> QED
      BY <3>1, <3>2, <3>3
  <2> QED
    BY <1>1, <2>1, <2>2
<1>4. open' \subseteq Resources
  BY <1>1 DEF BuildFails, LeftBy, Resources
<1>5. TypeOK'
  BY <1>1, <1>3, <1>4 DEF IInv, TypeOK, Active, Phases
<1>6. ResourceInv'
  BY <1>3 DEF ResourceInv, OpenIsBuilt, BuiltBeforeRun, OnlyKnownRemains
<1>7. CallInv'
  BY <1>1, <1>2, <1>3
     DEF CallInv, NoCallYet, DrainedAtTheEnd, HeldPoolIsOpen, CallsWhileClosing, Active
<1> QED
  BY <1>5, <1>6, <1>7 DEF IInv

LEMMA RunKeeps == IInv /\ Run => IInv'
<1> SUFFICES ASSUME IInv, Run PROVE IInv'
  OBVIOUS
<1>1. /\ phase = "building" /\ phase' = "serving" /\ built = Len(Steps[service])
      /\ UNCHANGED <<service, built, open, closing, cancelled, drained, call, held>>
      /\ open = Opened(service, built) /\ held = {} /\ ~ drained
  BY DEF Run, IInv, ResourceInv, OpenIsBuilt, CallInv, NoCallYet, DrainedAtTheEnd
<1>2. worker' \in [AllWorkers -> {"off", "running", "gone"}]
  BY DEF Run
<1>3. TypeOK'
  BY <1>1, <1>2 DEF IInv, TypeOK, Active, Phases
<1>4. ResourceInv'
  BY <1>1 DEF ResourceInv, OpenIsBuilt, BuiltBeforeRun, OnlyKnownRemains, Opened
<1>5. CallInv'
  BY <1>1 DEF CallInv, NoCallYet, DrainedAtTheEnd, HeldPoolIsOpen, CallsWhileClosing
<1> QED
  BY <1>3, <1>4, <1>5 DEF IInv

LEMMA SignalledKeeps == IInv /\ Signalled => IInv'
<1> SUFFICES ASSUME IInv, Signalled PROVE IInv'
  OBVIOUS
<1>1. /\ phase = "serving" /\ phase' = "stopping" /\ cancelled' = TRUE
      /\ UNCHANGED <<service, built, open, closing, drained, worker, call, held>>
  BY DEF Signalled
<1>2. TypeOK'
  BY <1>1 DEF IInv, TypeOK, Active, Phases
<1>3. ResourceInv'
  BY <1>1 DEF IInv, ResourceInv, OpenIsBuilt, BuiltBeforeRun, OnlyKnownRemains, Opened
<1>4. CallInv'
  BY <1>1 DEF IInv, CallInv, NoCallYet, DrainedAtTheEnd, HeldPoolIsOpen, CallsWhileClosing
<1> QED
  BY <1>2, <1>3, <1>4 DEF IInv

(* When the listener is gone, the rest is what shutdown closes.            *)
LEMMA RestIsListed ==
  ASSUME IInv, phase \in {"serving", "stopping"}
  PROVE  open \ {"listener"} \subseteq Listed(ClosingOrder[service])
<1>1. /\ service \in Services /\ built = Len(Steps[service])
      /\ open \subseteq Opened(service, built)
  BY DEF IInv, TypeOK, ResourceInv, OpenIsBuilt, BuiltBeforeRun
<1> QED
  BY <1>1, ClosingOrderCovers

LEMMA ServeFailsKeeps == IInv /\ ServeFails => IInv'
<1> SUFFICES ASSUME IInv, ServeFails PROVE IInv'
  OBVIOUS
<1>1. /\ phase = "serving" /\ service \in Services /\ ~ drained
      /\ open' = open \ {"listener"}
      /\ UNCHANGED <<service, built, drained, worker, call, held>>
      /\ phase' = IF service \in {"auth", "user"} THEN "closing" ELSE "stopping"
      /\ phase' = "closing" => closing' = ClosingOrder[service]
      /\ open \subseteq Opened(service, built) /\ built = Len(Steps[service])
  BY DEF ServeFails, IInv, TypeOK, CallInv, DrainedAtTheEnd, ResourceInv, OpenIsBuilt,
         BuiltBeforeRun
<1>2. closing' \in Seq(Resources) /\ cancelled' \in BOOLEAN
  BY <1>1, ClosingOrderType DEF ServeFails, IInv, TypeOK
<1>3. open' \subseteq Listed(ClosingOrder[service])
  BY <1>1, RestIsListed
<1>4. "pool" \notin open' => held = {}
  BY <1>1 DEF IInv, CallInv, HeldPoolIsOpen
<1>5. TypeOK'
  BY <1>1, <1>2 DEF IInv, TypeOK, Active, Phases
<1>6. ResourceInv'
  BY <1>1, <1>3 DEF ResourceInv, OpenIsBuilt, BuiltBeforeRun, OnlyKnownRemains, Opened, Listed
<1>7. CallInv'
  BY <1>1, <1>4 DEF CallInv, NoCallYet, DrainedAtTheEnd, HeldPoolIsOpen, CallsWhileClosing
<1> QED
  BY <1>5, <1>6, <1>7 DEF IInv

LEMMA GracefulStopKeeps == IInv /\ GracefulStop => IInv'
<1> SUFFICES ASSUME IInv, GracefulStop PROVE IInv'
  OBVIOUS
<1>1. /\ phase = "stopping" /\ phase' = "closing" /\ drained' = TRUE
      /\ \A c \in Calls : ~ Active(c)
      /\ open' = open \ {"listener"} /\ closing' = ClosingOrder[service]
      /\ UNCHANGED <<service, built, cancelled, worker, call, held>>
      /\ built = Len(Steps[service])
  BY DEF GracefulStop, IInv, ResourceInv, BuiltBeforeRun
<1>2. closing' \in Seq(Resources)
  BY <1>1, ClosingOrderType DEF IInv, TypeOK
<1>3. open' \subseteq Listed(ClosingOrder[service])
  BY <1>1, RestIsListed
<1>4. "pool" \notin open' => held = {}
  BY <1>1 DEF IInv, CallInv, HeldPoolIsOpen
<1>5. TypeOK'
  BY <1>1, <1>2 DEF IInv, TypeOK, Active, Phases
<1>6. ResourceInv'
  BY <1>1, <1>3 DEF ResourceInv, OpenIsBuilt, BuiltBeforeRun, OnlyKnownRemains, Listed
<1>7. CallInv'
  BY <1>1, <1>4
     DEF CallInv, NoCallYet, DrainedAtTheEnd, HeldPoolIsOpen, CallsWhileClosing, Active
<1> QED
  BY <1>5, <1>6, <1>7 DEF IInv

LEMMA CloseNextKeeps == IInv /\ CloseNext => IInv'
<1> SUFFICES ASSUME IInv, CloseNext PROVE IInv'
  OBVIOUS
<1>1. /\ phase = "closing" /\ closing # <<>> /\ closing \in Seq(Resources)
      /\ open' = open \ {Head(closing)} /\ closing' = Tail(closing)
      /\ Head(closing) = "pool" => held = {}
      /\ UNCHANGED <<service, phase, built, cancelled, drained, worker, call, held>>
      /\ open \subseteq Listed(closing) /\ built = Len(Steps[service])
  BY DEF CloseNext, IInv, TypeOK, ResourceInv, OpenIsBuilt, BuiltBeforeRun
<1>2. open' \subseteq Listed(closing')
  BY <1>1, TailCovers
<1>3. "pool" \notin open' => held = {}
  BY <1>1 DEF IInv, CallInv, HeldPoolIsOpen
<1>4. closing' \in Seq(Resources)
  BY <1>1
<1>5. TypeOK'
  BY <1>1, <1>4 DEF IInv, TypeOK, Active
<1>6. ResourceInv'
  BY <1>1, <1>2 DEF ResourceInv, OpenIsBuilt, BuiltBeforeRun, OnlyKnownRemains, Listed
<1>7. CallInv'
  BY <1>1, <1>3
     DEF IInv, CallInv, NoCallYet, DrainedAtTheEnd, HeldPoolIsOpen, CallsWhileClosing, Active
<1> QED
  BY <1>5, <1>6, <1>7 DEF IInv

LEMMA ExitKeeps == IInv /\ Exit => IInv'
<1> SUFFICES ASSUME IInv, Exit PROVE IInv'
  OBVIOUS
<1>1. /\ phase = "closing" /\ phase' = "exited" /\ closing = <<>>
      /\ UNCHANGED <<service, built, open, closing, cancelled, drained, worker, call, held>>
      /\ open \subseteq Listed(closing) /\ built = Len(Steps[service])
      /\ service \in Services
  BY DEF Exit, IInv, TypeOK, ResourceInv, OpenIsBuilt, BuiltBeforeRun
<1>2. open = {}
  BY <1>1 DEF Listed
<1>3. Remains' = {}
  BY <1>1, StepCount DEF Remains
<1>4. TypeOK'
  BY <1>1 DEF IInv, TypeOK, Active, Phases
<1>5. ResourceInv'
  BY <1>1, <1>2, <1>3 DEF ResourceInv, OpenIsBuilt, BuiltBeforeRun, OnlyKnownRemains
<1>6. CallInv'
  BY <1>1
     DEF IInv, CallInv, NoCallYet, DrainedAtTheEnd, HeldPoolIsOpen, CallsWhileClosing, Active
<1> QED
  BY <1>4, <1>5, <1>6 DEF IInv

-----------------------------------------------------------------------------
(* A step of a worker or a call, which the main goroutine does not notice. *)
LEMMA OthersStep ==
  ASSUME IInv, Alive, UNCHANGED main,
         worker' \in [AllWorkers -> {"off", "running", "gone"}],
         call' \in [Calls -> {"none", "running", "done"}],
         \A c \in Calls : Active(c)' => Active(c) \/ phase = "serving",
         held' \subseteq held \/ "pool" \in open,
         held' \subseteq {w \in AllWorkers : worker'[w] = "running"}
                    \cup {c \in Calls : Active(c)'}
  PROVE  IInv'
<1>1. UNCHANGED <<service, phase, built, open, closing, cancelled, drained>>
  BY DEF main
<1>2. phase \in {"serving", "stopping", "closing"}
  BY DEF Alive
<1>3. TypeOK'
  BY <1>1 DEF IInv, TypeOK
<1>4. ResourceInv'
  BY <1>1, <1>2
     DEF IInv, ResourceInv, OpenIsBuilt, BuiltBeforeRun, OnlyKnownRemains, Opened, Listed
<1>5. (HeldPoolIsOpen /\ NoCallYet /\ DrainedAtTheEnd)'
  BY <1>1, <1>2 DEF IInv, CallInv, HeldPoolIsOpen, NoCallYet, DrainedAtTheEnd
<1>6. CallsWhileClosing'
  BY <1>1, <1>2, <1>5 DEF IInv, CallInv, CallsWhileClosing, HeldPoolIsOpen
<1> QED
  BY <1>3, <1>4, <1>5, <1>6 DEF IInv, CallInv

LEMMA WorkerKeeps ==
  ASSUME IInv, NEW w \in AllWorkers,
         WorkerBegins(w) \/ WorkerEnds(w) \/ WorkerStops(w) \/ WorkerPanics(w)
  PROVE  IInv'
<1>1. /\ worker \in [AllWorkers -> {"off", "running", "gone"}]
      /\ call \in [Calls -> {"none", "running", "done"}]
      /\ held \subseteq {v \in AllWorkers : worker[v] = "running"}
                    \cup {c \in Calls : Active(c)}
  BY DEF IInv, TypeOK
<1>2. UNCHANGED <<main, call>> /\ Alive
  BY DEF WorkerBegins, WorkerEnds, WorkerStops, WorkerPanics
<1>3. \A c \in Calls : Active(c)' <=> Active(c)
  BY <1>2 DEF Active
<1>4. worker' \in [AllWorkers -> {"off", "running", "gone"}]
  BY <1>1 DEF WorkerBegins, WorkerEnds, WorkerStops, WorkerPanics
<1>5. held' \subseteq {v \in AllWorkers : worker'[v] = "running"}
                 \cup {c \in Calls : Active(c)}
  <2>1. CASE WorkerBegins(w) \/ WorkerEnds(w)
    BY <1>1, <2>1 DEF WorkerBegins, WorkerEnds
  <2>2. CASE WorkerStops(w) \/ WorkerPanics(w)
    <3>1. \A v \in AllWorkers \ {w} : worker'[v] = worker[v]
      BY <1>1, <2>2 DEF WorkerStops, WorkerPanics
    <3>2. held' \subseteq held \ {w}
      BY <2>2 DEF WorkerStops, WorkerPanics
    <3> QED
      BY <1>1, <3>1, <3>2
  <2> QED
    BY <2>1, <2>2
<1>6. held' \subseteq held \/ "pool" \in open
  BY DEF WorkerBegins, WorkerEnds, WorkerStops, WorkerPanics
<1> QED
  BY <1>1, <1>2, <1>3, <1>4, <1>5, <1>6, OthersStep

LEMMA CallKeeps ==
  ASSUME IInv, NEW c \in Calls,
         CallBegins(c) \/ CallQueries(c) \/ QueryEnds(c) \/ CallEnds(c)
  PROVE  IInv'
<1>1. /\ worker \in [AllWorkers -> {"off", "running", "gone"}]
      /\ call \in [Calls -> {"none", "running", "done"}]
      /\ held \subseteq {v \in AllWorkers : worker[v] = "running"}
                    \cup {d \in Calls : Active(d)}
  BY DEF IInv, TypeOK
<1>2. UNCHANGED <<main, worker>> /\ Alive
  BY DEF CallBegins, CallQueries, QueryEnds, CallEnds, Alive
<1>3. call' \in [Calls -> {"none", "running", "done"}]
  BY <1>1 DEF CallBegins, CallQueries, QueryEnds, CallEnds
<1>4. \A d \in Calls : Active(d)' => Active(d) \/ phase = "serving"
  BY <1>1 DEF CallBegins, CallQueries, QueryEnds, CallEnds, Active
<1>5. held' \subseteq {v \in AllWorkers : worker[v] = "running"}
                 \cup {d \in Calls : Active(d)'}
  <2>1. CASE CallBegins(c)
    BY <1>1, <2>1 DEF CallBegins, Active
  <2>2. CASE CallQueries(c) \/ QueryEnds(c)
    BY <1>1, <2>2 DEF CallQueries, QueryEnds, Active
  <2>3. CASE CallEnds(c)
    BY <1>1, <2>3 DEF CallEnds, Active
  <2> QED
    BY <2>1, <2>2, <2>3
<1>6. held' \subseteq held \/ "pool" \in open
  BY DEF CallBegins, CallQueries, QueryEnds, CallEnds
<1> QED
  BY <1>1, <1>2, <1>3, <1>4, <1>5, <1>6, OthersStep

-----------------------------------------------------------------------------
LEMMA Inductive == IInv /\ [Next]_lifecycle => IInv'
<1> SUFFICES ASSUME IInv, [Next]_lifecycle PROVE IInv'
  OBVIOUS
<1>1. CASE MainStep \/ BuildFails \/ Signalled \/ ServeFails
  BY <1>1, BuildStepKeeps, RunKeeps, GracefulStopKeeps, CloseNextKeeps, ExitKeeps,
     BuildFailsKeeps, SignalledKeeps, ServeFailsKeeps DEF MainStep
<1>2. CASE \E w \in AllWorkers :
             WorkerBegins(w) \/ WorkerEnds(w) \/ WorkerStops(w) \/ WorkerPanics(w)
  BY <1>2, WorkerKeeps
<1>3. CASE \E c \in Calls :
             CallBegins(c) \/ CallQueries(c) \/ QueryEnds(c) \/ CallEnds(c)
  BY <1>3, CallKeeps
<1>4. CASE UNCHANGED lifecycle
  <2>1. UNCHANGED <<service, phase, built, open, closing, cancelled, drained, worker, call, held>>
    BY <1>4 DEF lifecycle, main
  <2>2. TypeOK'
    BY <2>1 DEF IInv, TypeOK, Active
  <2>3. ResourceInv'
    BY <2>1 DEF IInv, ResourceInv, OpenIsBuilt, BuiltBeforeRun, OnlyKnownRemains, Remains,
                Opened, Listed
  <2>4. CallInv'
    BY <2>1 DEF IInv, CallInv, NoCallYet, DrainedAtTheEnd, HeldPoolIsOpen, CallsWhileClosing,
                Active
  <2> QED
    BY <2>2, <2>3, <2>4 DEF IInv
<1> QED
  BY <1>1, <1>2, <1>3, <1>4 DEF Next

(* The invariant of a process: what it has open follows from the steps it  *)
(* has done and from what shutdown has still to close; calls run only      *)
(* while the server does, or where shutdown does not wait for them; and    *)
(* whoever holds a connection keeps the pool from being closed.            *)
THEOREM Invariance == Spec => []IInv
<1> QED
  BY Initially, Inductive, PTL DEF Spec

(* Only resources are open, and a connection of the pool is held by a      *)
(* worker or a call that is there to give it back.                         *)
THEOREM TypeCorrectness == Spec => []TypeOK
<1>1. IInv => TypeOK
  BY DEF IInv
<1> QED
  BY <1>1, Invariance, PTL

(* Whichever step fails, in whichever service, and whichever way the       *)
(* process ends, it has open just what Remains says: the Redis client      *)
(* whose own ping failed, the pool and Redis where auth or user could not  *)
(* listen, and nothing else, nor anything in the other cases.              *)
THEOREM EndsWithKnownRemains == Spec => []OnlyKnownRemains
<1>1. IInv => OnlyKnownRemains
  BY DEF IInv, ResourceInv
<1> QED
  BY <1>1, Invariance, PTL

(* However many calls and workers there are: a call is served while        *)
(* shutdown closes the resources only in auth and user after an error of   *)
(* Serve, and there too the pool outlives the queries.                     *)
THEOREM CallsThatShutdownMeets == Spec => []CallsWhileClosing
<1>1. IInv => CallsWhileClosing
  BY DEF IInv, CallInv
<1> QED
  BY <1>1, Invariance, PTL
=============================================================================

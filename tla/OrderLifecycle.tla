--------------------------- MODULE OrderLifecycle ---------------------------
(***************************************************************************)
(* What the saga promises about each order, with nothing of how: it is     *)
(* created, the market decides once, and the order's status follows the    *)
(* decision, once.                                                         *)
(***************************************************************************)
EXTENDS SagaTopics

CONSTANT Orders

VARIABLES
  status,   \* what a client reads of each order
  verdict   \* the market's decision on each order

lifecycle == <<status, verdict>>

LifecycleInit ==
  /\ status = [o \in Orders |-> StatusAbsent]
  /\ verdict = [o \in Orders |-> ReservationNone]

Create(o) ==
  /\ status[o] = StatusAbsent
  /\ status' = [status EXCEPT ![o] = StatusCreated]
  /\ UNCHANGED verdict

Decide(o) ==
  /\ status[o] = StatusCreated /\ verdict[o] = ReservationNone
  /\ \E v \in Verdicts : verdict' = [verdict EXCEPT ![o] = v]
  /\ UNCHANGED status

Settle(o) ==
  /\ status[o] = StatusCreated /\ verdict[o] # ReservationNone
  /\ status' = [status EXCEPT ![o] = StatusFor(verdict[o])]
  /\ UNCHANGED verdict

LifecycleNext == \E o \in Orders : Create(o) \/ Decide(o) \/ Settle(o)

LifecycleSpec == LifecycleInit /\ [][LifecycleNext]_lifecycle

(* Nothing obliges a client to create an order; a created one is decided   *)
(* and settled.                                                            *)
LifecycleFairSpec ==
  LifecycleSpec /\ \A o \in Orders : WF_lifecycle(Decide(o) \/ Settle(o))
=============================================================================

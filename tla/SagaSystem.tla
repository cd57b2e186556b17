----------------------------- MODULE SagaSystem -----------------------------
(***************************************************************************)
(* The order saga as it runs: copies of both services, each with its       *)
(* outbox relay and its consumer loop, over one database and one Kafka.    *)
(***************************************************************************)
EXTENDS OrderService, MarketService, OutboxRelay

(* What the loop over a batch does when nothing fails.                     *)
ConsumerStep(p) ==
  \/ Poll(p)
  \/ SkipDuplicate(p)
  \/ OrchestratorAcquire(p)
  \/ HandleOrderCreated(p, TRUE)
  \/ HandleReply(p, TRUE)
  \/ ParticipantAcquire(p)
  \/ HandleReserveStock(p, TRUE)
  \/ CommitRecords(p)

ConsumerFault(p) ==
  \/ HandlerFails(p)
  \/ HandleOrderCreated(p, FALSE)
  \/ HandleReply(p, FALSE)
  \/ HandleReserveStock(p, FALSE)
  \/ CommitRecordsFails(p)

Environment ==
  \/ \E o \in Orders, m \in MarketIDs : CreateOrder(o, m)
  \/ \E t \in ConsumedTopics, p \in Procs : Assign(t, p)
  \/ \E t \in ConsumedTopics : Revoke(t)
  \/ \E p \in Procs : Crash(p)

Next ==
  \/ Environment
  \/ \E p \in Procs : \/ ConsumerStep(p) \/ ConsumerFault(p)
  \/ \E p \in RelayProcs : RelayStep(p) \/ RelayFault(p)

Spec == Init /\ [][Next]_vars

(* Each worker goroutine keeps being scheduled and its ticker keeps        *)
(* firing; the group coordinator assigns every topic that has no owner.    *)
Fairness ==
  /\ \A p \in Procs : WF_vars(ConsumerStep(p))
  /\ \A p \in RelayProcs : WF_vars(RelayStep(p))
  /\ \A t \in ConsumedTopics : WF_vars(\E p \in Procs : Assign(t, p))

FairSpec == Spec /\ Fairness

-----------------------------------------------------------------------------
(* The tables, Kafka's logs and offsets and the state of every loop have   *)
(* the shape their readers rely on.                                        *)
TypeOK ==
  /\ orders \in [Orders -> Statuses \cup {StatusAbsent}]
  /\ reservations \in [Orders -> Verdicts \cup {ReservationNone}]
  /\ outbox \in Seq(Row)
  /\ published \subseteq Rows
  /\ processed \subseteq Groups \X Rows
  /\ tx \in [Procs -> Txs]
  /\ relay \in [Procs -> Batches]
  /\ log \in [Topics -> Seq(Rows)]
  /\ committed \in [ConsumedTopics -> Nat]
  /\ owner \in [ConsumedTopics -> Procs \cup {NoProc}]
  /\ position \in [ConsumedTopics -> Nat]
  /\ fetch \in [Procs -> [ConsumedTopics -> Ranges]]
  /\ faults \in 0..MaxFaults

-----------------------------------------------------------------------------
InLog(r) == \E i \in DOMAIN log[outbox[r].topic] : log[outbox[r].topic][i] = r

(* The saga's step an event type belongs to: both replies are one step.    *)
StepOf(type) == IF type \in Replies THEN "reply" ELSE type

(* Whatever is redelivered, to whichever copy, an order gets at most one   *)
(* ReserveStock command, one reply and one OrderStatusChanged event.       *)
EachStepOnce ==
  \A r, s \in Rows :
    (/\ outbox[r].order = outbox[s].order
     /\ StepOf(outbox[r].type) = StepOf(outbox[s].type)) => r = s

(* A settled order's status is the one its reservation calls for, and the  *)
(* market has decided: the two services never disagree about an order.     *)
StatusAgreesWithReservation ==
  \A o \in Orders :
    orders[o] \in Settled =>
      /\ reservations[o] \in Verdicts
      /\ orders[o] = StatusFor(reservations[o])

(* No order of a market that is never open ends reserved: the market id    *)
(* survives the order's way through OrderCreated and ReserveStock.         *)
ShutMarketsRejected ==
  \A r \in Rows :
    (outbox[r].type = EventOrderCreated /\ outbox[r].data \in ShutMarkets)
      => orders[outbox[r].order] # StatusReserved

(* No outbox row is marked published unless Kafka has its message: marking *)
(* loses no event, whatever part of a batch failed.                        *)
PublishedIsInLog == \A r \in published : InLog(r)

(* A message is repeated in Kafka only by a fault, once by each: relays    *)
(* running side by side on the shared table never produce a row twice.     *)
RepeatedOnlyByFaults ==
  \A r \in Rows :
    Cardinality({i \in DOMAIN log[outbox[r].topic] : log[outbox[r].topic][i] = r})
      <= 1 + faults

(* While handlers return no error, a group's committed offset never passes *)
(* a record its handler has not processed: restarts, rebalances, lost and  *)
(* late commits lose no message.                                           *)
CommittedIsProcessed ==
  ~HandlerErrors =>
    \A g \in Groups : \A t \in TopicsOf(g) :
      \A i \in 1..committed[t] :
        i \in DOMAIN log[t] /\ <<g, log[t][i]>> \in processed

(* An order that is not settled has a message that moves it on: a row that *)
(* its reader has not processed and that is either still to be published   *)
(* or in Kafka and, while handlers return no error, not yet committed.     *)
NothingIsLost ==
  \A o \in Orders : orders[o] = StatusCreated =>
    \E r \in Rows, g \in Groups :
      LET t == outbox[r].topic
      IN  /\ outbox[r].order = o /\ t \in TopicsOf(g) /\ <<g, r>> \notin processed
          /\ r \in published =>
               \E i \in DOMAIN log[t] :
                 log[t][i] = r /\ (~HandlerErrors => i > committed[t])

(* A decision is never taken back: no step changes a reservation that      *)
(* exists or the status of a settled order.                                *)
DecisionsAreFinal ==
  [][\A o \in Orders :
       /\ reservations[o] \in Verdicts => reservations'[o] = reservations[o]
       /\ orders[o] \in Settled => orders'[o] = orders[o]]_vars

(* The saga implements the life cycle of an order.                         *)
Lifecycle == INSTANCE OrderLifecycle WITH status <- orders, verdict <- reservations

ImplementsLifecycle == Lifecycle!LifecycleSpec

(* While handlers return no error every order that was created is settled, *)
(* after any bounded number of crashes, rebalances, lost and repeated      *)
(* messages and failed commits.                                            *)
ImplementsFairLifecycle == Lifecycle!LifecycleFairSpec

(* "infrastructure error -> rollback + retry (not a business rejection)",  *)
(* the comment on the error path of Participant.HandleReserveStock: a      *)
(* command that reached Kafka is in the end decided.                       *)
InfraErrorIsRetried ==
  \A o \in Orders :
    (\E r \in Rows : outbox[r].order = o /\ outbox[r].type = CommandReserveStock
                    /\ InLog(r))
      ~> reservations[o] \in Verdicts
=============================================================================

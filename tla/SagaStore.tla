----------------------------- MODULE SagaStore ------------------------------
(***************************************************************************)
(* The state the processes of the order saga share, and the two helpers    *)
(* every transaction is built from.                                        *)
(*                                                                         *)
(* Every service is deployed against one PostgreSQL database (tables       *)
(* orders, reservations, markets, outbox, processed_events), so the        *)
(* outbox drained by each relay holds the rows of both services.  Kafka is *)
(* external: a topic is an append-only log of one partition, a consumer    *)
(* group has one committed offset per topic.                               *)
(*                                                                         *)
(* An idempotency key is a uuid drawn when the row is written.  Rows are   *)
(* never deleted, so the row's index in the table stands for its id, its   *)
(* key and the message carrying it.                                        *)
(***************************************************************************)
EXTENDS Integers, Sequences, FiniteSets, SagaTopics

CONSTANTS
  Orders,        \* order ids the gRPC handler may draw
  MarketIDs,     \* market ids a client may name
  ShutMarkets,   \* those that are not open to orders at any moment
  OrderProcs,    \* running copies of order_service
  MarketProcs,   \* running copies of market_service
  RelayProcs,    \* copies whose outbox relay gets to run
  NoProc,        \* the owner of a topic no member is assigned
  BatchSize,     \* rows one relay transaction selects
  MaxFaults,     \* bound on the faults of a behaviour
  HandlerErrors  \* may a message handler return an infrastructure error?

ASSUME MarketsAssumption == ShutMarkets \subseteq MarketIDs

ASSUME ProcsAssumption ==
  /\ RelayProcs \subseteq OrderProcs \cup MarketProcs
  /\ OrderProcs \cap MarketProcs = {}
  /\ NoProc \notin OrderProcs \cup MarketProcs

ASSUME BoundsAssumption ==
  /\ BatchSize \in Nat \ {0}
  /\ MaxFaults \in Nat
  /\ HandlerErrors \in BOOLEAN

VARIABLES
  orders,        \* table orders: order_status of each order
  reservations,  \* table reservations: the verdict on each order
  outbox,        \* table outbox, in insertion order
  published,     \* rows of outbox whose published_at is set
  processed,     \* table processed_events: pairs <<consumer, key>>
  tx,            \* the open handler transaction of each process
  relay,         \* the open relay transaction of each process
  log,           \* Kafka: the records of each topic
  committed,     \* Kafka: records the topic's group has committed
  owner,         \* Kafka: the member a topic is assigned to
  position,      \* the owner's fetch position in the topic
  fetch,         \* the fetched batch each process is iterating over
  faults         \* faults so far, at most MaxFaults

tables    == <<orders, reservations, processed>>
outboxes  == <<outbox, published, relay>>
consumers == <<committed, owner, position, fetch>>
vars      == <<tables, outboxes, consumers, tx, log, faults>>

Procs      == OrderProcs \cup MarketProcs
GroupOf(p) == IF p \in OrderProcs THEN Orchestrator ELSE MarketReserve

Row  == [type: EventTypes, topic: Topics, order: Orders,
         data: MarketIDs \cup Settled]
Rows == DOMAIN outbox

Txs     == [key: Rows \cup {0}, verdict: Verdicts \cup {ReservationNone}]
Batches == [held: SUBSET Rows, todo: SUBSET Rows, acked: SUBSET Rows]
Ranges  == [from: Nat, cur: Nat, end: Nat]

NoTx    == [key |-> 0, verdict |-> ReservationNone]
NoRange == [from |-> 0, cur |-> 0, end |-> 0]
NoFetch == [t \in ConsumedTopics |-> NoRange]
NoBatch == [held |-> {}, todo |-> {}, acked |-> {}]

-----------------------------------------------------------------------------
(* Writer.Emit inside the caller's transaction: one unpublished row.       *)
Emit(type, topic, o, d) ==
  outbox' = Append(outbox, [type |-> type, topic |-> topic,
                            order |-> o, data |-> d])

(* Each definition named ...Mutant is a plausible bug in the definition    *)
(* that follows it; no specification uses it.  Here: every delivery is     *)
(* taken for the first.                                                    *)
AcquireMutant(p, k) == TRUE

(* Guard.Acquire inserts <<consumer, key>> with ON CONFLICT DO NOTHING.    *)
(* The insert succeeds when no committed transaction has the pair, and     *)
(* waits while an open transaction of the same consumer has it.            *)
Acquire(p, k) ==
  /\ <<GroupOf(p), k>> \notin processed
  /\ \A q \in Procs \ {p} : ~(GroupOf(q) = GroupOf(p) /\ tx[q].key = k)

(* A fault takes one from the budget of the behaviour.                     *)
Fault ==
  /\ faults < MaxFaults
  /\ faults' = faults + 1

-----------------------------------------------------------------------------
Init ==
  /\ orders = [o \in Orders |-> StatusAbsent]
  /\ reservations = [o \in Orders |-> ReservationNone]
  /\ outbox = <<>>
  /\ published = {}
  /\ processed = {}
  /\ tx = [p \in Procs |-> NoTx]
  /\ relay = [p \in Procs |-> NoBatch]
  /\ log = [t \in Topics |-> <<>>]
  /\ committed = [t \in ConsumedTopics |-> 0]
  /\ owner = [t \in ConsumedTopics |-> NoProc]
  /\ position = [t \in ConsumedTopics |-> 0]
  /\ fetch = [p \in Procs |-> NoFetch]
  /\ faults = 0
=============================================================================

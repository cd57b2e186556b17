---------------------------- MODULE OutboxRelay -----------------------------
(***************************************************************************)
(* shared/outbox/relay.go: each process repeats BatchRun, one transaction  *)
(* that locks a batch of unpublished rows, produces them to Kafka and      *)
(* marks the ones Kafka acknowledged.  Both services run a relay on the    *)
(* same table; a transaction of Do commits between any two of its steps.   *)
(***************************************************************************)
EXTENDS SagaStore

LockedRows(p) == UNION {relay[q].held : q \in Procs \ {p}}

(* A bug in Selectable: FOR UPDATE SKIP LOCKED forgotten.                  *)
SelectableMutant(p) == Rows \ published

(* WHERE published_at IS NULL ... FOR UPDATE SKIP LOCKED                   *)
Selectable(p) == Rows \ (published \cup LockedRows(p))

(* The SELECT of BatchRun.  ORDER BY created_at is the order in which the  *)
(* writing transactions began, which may differ from the order in which    *)
(* they committed, so any batch of the right size may be the one found.    *)
RelaySelect(p) ==
  /\ relay[p].held = {}
  /\ \E batch \in SUBSET Selectable(p) \ {{}} :
       /\ \/ Cardinality(batch) = BatchSize
          \/ batch = Selectable(p) /\ Cardinality(batch) < BatchSize
       /\ relay' = [relay EXCEPT ![p] =
                      [held |-> batch, todo |-> batch, acked |-> {}]]
  /\ UNCHANGED <<tables, outbox, published, consumers, tx, log, faults>>

Produced(r) ==
  log' = [log EXCEPT ![outbox[r].topic] = Append(@, r)]

(* PublishBatch produces the records of the batch concurrently: each is    *)
(* acknowledged, ...                                                       *)
RelaySendAcked(p) ==
  /\ \E r \in relay[p].todo :
       /\ Produced(r)
       /\ relay' = [relay EXCEPT ![p].todo = @ \ {r}, ![p].acked = @ \cup {r}]
  /\ UNCHANGED <<tables, outbox, published, consumers, tx, faults>>

(* A bug in RelaySendFails: every row of the batch, whatever its error,    *)
(* goes into publishedIDs.                                                 *)
RelaySendFailsMutant(p) ==
  /\ Fault
  /\ \E r \in relay[p].todo :
       /\ log' = log
       /\ relay' = [relay EXCEPT ![p].todo = @ \ {r}, ![p].acked = @ \cup {r}]
  /\ UNCHANGED <<tables, outbox, published, consumers, tx>>

(* ... or comes back with an error, whether or not the broker appended it. *)
RelaySendFails(p) ==
  /\ Fault
  /\ \E r \in relay[p].todo :
       /\ \/ Produced(r)
          \/ log' = log
       /\ relay' = [relay EXCEPT ![p].todo = @ \ {r}]
  /\ UNCHANGED <<tables, outbox, published, consumers, tx>>

BatchSent(p) == relay[p].held # {} /\ relay[p].todo = {}

(* UPDATE outbox SET published_at ... WHERE id = ANY(publishedIDs), commit.*)
(* With no acknowledged row BatchRun returns and the deferred rollback     *)
(* releases the locks, which marks nothing either.                         *)
RelayMark(p) ==
  /\ BatchSent(p)
  /\ published' = published \cup relay[p].acked
  /\ relay' = [relay EXCEPT ![p] = NoBatch]
  /\ UNCHANGED <<tables, outbox, consumers, tx, log, faults>>

(* The UPDATE or the commit fails: the acknowledged rows stay unpublished. *)
RelayMarkFails(p) ==
  /\ BatchSent(p) /\ relay[p].acked # {}
  /\ Fault
  /\ relay' = [relay EXCEPT ![p] = NoBatch]
  /\ UNCHANGED <<tables, outbox, published, consumers, tx, log>>

RelayStep(p) == RelaySelect(p) \/ RelaySendAcked(p) \/ RelayMark(p)
RelayFault(p) == RelaySendFails(p) \/ RelayMarkFails(p)
=============================================================================

---------------------------- MODULE OrderService ----------------------------
(***************************************************************************)
(* order_service: the CreateOrder use case and the saga orchestrator, the  *)
(* handler of its consumer group.                                          *)
(*                                                                         *)
(* A handler's transaction is two steps: Acquire, which fixes whether this *)
(* delivery is the first, and the commit that makes all its writes visible.*)
(* Between them other processes run, and the transaction may be lost.      *)
(***************************************************************************)
EXTENDS ConsumerGroup

(* The transaction of UseCase.CreateOrder: SaveOrder and Emit.  An order   *)
(* id is a fresh uuid; the quota and NewOrder's checks precede it.         *)
CreateOrder(o, m) ==
  /\ orders[o] = StatusAbsent
  /\ orders' = [orders EXCEPT ![o] = StatusCreated]
  /\ Emit(EventOrderCreated, OrderTopicResolver(EventOrderCreated), o, m)
  /\ UNCHANGED <<reservations, processed, published, relay, consumers,
                 tx, log, faults>>

(* Orchestrator.Handle up to the first delivery's Acquire.                 *)
OrchestratorAcquire(p) ==
  /\ p \in OrderProcs /\ tx[p] = NoTx
  /\ \E t \in ConsumedTopics :
       /\ AtTopic(p, t)
       /\ Acquire(p, Current(p, t))
       /\ tx' = [tx EXCEPT ![p] = [NoTx EXCEPT !.key = Current(p, t)]]
  /\ UNCHANGED <<tables, outboxes, consumers, log, faults>>

OrchestratorTx(p) == p \in OrderProcs /\ tx[p] # NoTx

(* A bug in HandleOrderCreated: the order is taken for reserved as soon as *)
(* the command is sent.                                                    *)
HandleOrderCreatedMutant(p, acked) ==
  /\ OrchestratorTx(p)
  /\ LET r == tx[p].key IN
       /\ outbox[r].type = EventOrderCreated
       /\ processed' = processed \cup {<<Orchestrator, r>>}
       /\ orders' = [orders EXCEPT ![outbox[r].order] = StatusReserved]
       /\ Emit(CommandReserveStock, OrderTopicResolver(CommandReserveStock),
               outbox[r].order, outbox[r].data)
  /\ Finish(p, acked)
  /\ UNCHANGED <<reservations, published, relay, committed,
                 owner, position, log>>

(* handleOrderCreated: the command to reserve, under a fresh key.          *)
HandleOrderCreated(p, acked) ==
  /\ OrchestratorTx(p)
  /\ LET r == tx[p].key IN
       /\ outbox[r].type = EventOrderCreated
       /\ processed' = processed \cup {<<Orchestrator, r>>}
       /\ Emit(CommandReserveStock, OrderTopicResolver(CommandReserveStock),
               outbox[r].order, outbox[r].data)
  /\ Finish(p, acked)
  /\ UNCHANGED <<orders, reservations, published, relay, committed,
                 owner, position, log>>

(* A bug in HandleReply: the two replies are mixed up.                     *)
HandleReplyMutant(p, acked) ==
  /\ OrchestratorTx(p)
  /\ LET r == tx[p].key
         s == IF outbox[r].type = EventStockReserved THEN StatusRejected
                                                     ELSE StatusReserved
     IN
       /\ outbox[r].type \in Replies
       /\ processed' = processed \cup {<<Orchestrator, r>>}
       /\ orders' = [orders EXCEPT ![outbox[r].order] = s]
       /\ Emit(EventOrderStatusChanged,
               OrderTopicResolver(EventOrderStatusChanged), outbox[r].order, s)
  /\ Finish(p, acked)
  /\ UNCHANGED <<reservations, published, relay, committed,
                 owner, position, log>>

(* handleReply: UpdateStatus overwrites whatever the order's status is and *)
(* does not look at the rows it affected; then the change is announced.    *)
HandleReply(p, acked) ==
  /\ OrchestratorTx(p)
  /\ LET r == tx[p].key
         s == IF outbox[r].type = EventStockReserved THEN StatusReserved
                                                     ELSE StatusRejected
     IN
       /\ outbox[r].type \in Replies
       /\ processed' = processed \cup {<<Orchestrator, r>>}
       /\ orders' = [orders EXCEPT ![outbox[r].order] =
                       IF @ = StatusAbsent THEN @ ELSE s]
       /\ Emit(EventOrderStatusChanged,
               OrderTopicResolver(EventOrderStatusChanged), outbox[r].order, s)
  /\ Finish(p, acked)
  /\ UNCHANGED <<reservations, published, relay, committed,
                 owner, position, log>>
=============================================================================

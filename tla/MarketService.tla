--------------------------- MODULE MarketService ----------------------------
(***************************************************************************)
(* market_service: the saga participant, the handler of its consumer       *)
(* group, and the markets table it reads.                                  *)
(***************************************************************************)
EXTENDS ConsumerGroup

(* A market that is not found rejects nothing.                             *)
ReserveMutant(m) == Verdicts

(* Participant.reserve: a market that is not found or not accessible is a  *)
(* business rejection, not an error.  No code of the services writes a     *)
(* seeded market; its row is changed by hand, at any moment, so the read   *)
(* of a market that is not shut throughout may find either.                *)
Reserve(m) == IF m \in ShutMarkets THEN {ReservationRejected} ELSE Verdicts

(* HandleReserveStock up to the market it read.  The verdict is the one of *)
(* this moment, whatever the market is when the transaction commits.       *)
ParticipantAcquire(p) ==
  /\ p \in MarketProcs /\ tx[p] = NoTx
  /\ \E t \in ConsumedTopics :
       /\ AtTopic(p, t)
       /\ Acquire(p, Current(p, t))
       /\ \E v \in Reserve(outbox[Current(p, t)].data) :
            tx' = [tx EXCEPT ![p] = [key |-> Current(p, t), verdict |-> v]]
  /\ UNCHANGED <<tables, outboxes, consumers, log, faults>>

(* A bug in HandleReserveStock: a rejection is saved but not announced.    *)
HandleReserveStockMutant(p, acked) ==
  /\ p \in MarketProcs /\ tx[p] # NoTx
  /\ LET r == tx[p].key IN
       /\ processed' = processed \cup {<<MarketReserve, r>>}
       /\ reservations' = [reservations EXCEPT ![outbox[r].order] =
                             IF @ = ReservationNone THEN tx[p].verdict ELSE @]
       /\ IF tx[p].verdict = ReservationReserved
          THEN Emit(EventStockReserved, MarketTopicResolver(EventStockReserved),
                    outbox[r].order, outbox[r].data)
          ELSE UNCHANGED outbox
  /\ Finish(p, acked)
  /\ UNCHANGED <<orders, published, relay, committed, owner, position,
                 log>>

(* The rest of HandleReserveStock: SaveReservation keeps a reservation     *)
(* that is already there, emitReply announces the verdict of this call.    *)
HandleReserveStock(p, acked) ==
  /\ p \in MarketProcs /\ tx[p] # NoTx
  /\ LET r     == tx[p].key
         reply == IF tx[p].verdict = ReservationReserved
                  THEN EventStockReserved ELSE EventStockRejected
     IN
       /\ processed' = processed \cup {<<MarketReserve, r>>}
       /\ reservations' = [reservations EXCEPT ![outbox[r].order] =
                             IF @ = ReservationNone THEN tx[p].verdict ELSE @]
       /\ Emit(reply, MarketTopicResolver(reply), outbox[r].order,
               outbox[r].data)
  /\ Finish(p, acked)
  /\ UNCHANGED <<orders, published, relay, committed, owner, position,
                 log>>
=============================================================================

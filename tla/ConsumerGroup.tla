--------------------------- MODULE ConsumerGroup ----------------------------
(***************************************************************************)
(* shared/kafka/consumer.go and the group protocol it relies on.           *)
(*                                                                         *)
(* Run polls a batch, hands its records to the handler one by one, topic   *)
(* after topic, and commits the records handled.  The first handler error  *)
(* ends the batch: the records after it are dropped, those before it are   *)
(* still committed, and the next poll continues behind the whole batch.    *)
(*                                                                         *)
(* A member that loses a topic in a rebalance, or is given up for dead,    *)
(* goes on with the batch it holds, and its late commit may still be       *)
(* accepted.                                                               *)
(***************************************************************************)
EXTENDS SagaStore

Idle(p)      == fetch[p] = NoFetch
Done(p)      == \A t \in ConsumedTopics : fetch[p][t].cur = fetch[p][t].end
Handled(p)   == {t \in ConsumedTopics : fetch[p][t].from < fetch[p][t].cur}

(* The record the iterator of p returns next is in topic t: a topic is     *)
(* finished before another is begun.                                       *)
AtTopic(p, t) ==
  /\ fetch[p][t].cur < fetch[p][t].end
  /\ \A u \in ConsumedTopics \ {t} :
       fetch[p][u].cur \in {fetch[p][u].from, fetch[p][u].end}

(* The row carried by that record.                                         *)
Current(p, t) == log[t][fetch[p][t].cur + 1]

(* The topic of p's open handler transaction.                              *)
TxTopic(p) == outbox[tx[p].key].topic

-----------------------------------------------------------------------------
(* A bug in Assign: the member starts at the end of the topic.             *)
AssignMutant(t, p) ==
  /\ owner[t] = NoProc
  /\ t \in TopicsOf(GroupOf(p))
  /\ owner' = [owner EXCEPT ![t] = p]
  /\ position' = [position EXCEPT ![t] = Len(log[t])]
  /\ UNCHANGED <<tables, outboxes, committed, fetch, tx, log, faults>>

(* A member starts a topic at the group's committed offset.                *)
Assign(t, p) ==
  /\ owner[t] = NoProc
  /\ t \in TopicsOf(GroupOf(p))
  /\ owner' = [owner EXCEPT ![t] = p]
  /\ position' = [position EXCEPT ![t] = committed[t]]
  /\ UNCHANGED <<tables, outboxes, committed, fetch, tx, log, faults>>

(* The coordinator takes a topic away; the member keeps its batch.         *)
Revoke(t) ==
  /\ owner[t] # NoProc
  /\ Fault
  /\ owner' = [owner EXCEPT ![t] = NoProc]
  /\ position' = [position EXCEPT ![t] = 0]
  /\ UNCHANGED <<tables, outboxes, committed, fetch, tx, log>>

(* PollFetches returns some records of one or more of p's topics.          *)
Ends(p) ==
  {ends \in [ConsumedTopics -> UNION {0..Len(log[t]) : t \in ConsumedTopics}] :
     \A t \in ConsumedTopics :
       IF owner[t] = p THEN ends[t] \in position[t]..Len(log[t])
                       ELSE ends[t] = position[t]}

Poll(p) ==
  /\ Idle(p)
  /\ \E ends \in Ends(p) \ {position} :
       /\ fetch' = [fetch EXCEPT ![p] = [t \in ConsumedTopics |->
                      IF ends[t] = position[t] THEN NoRange
                      ELSE [from |-> position[t], cur |-> position[t],
                            end |-> ends[t]]]]
       /\ position' = ends
  /\ UNCHANGED <<tables, outboxes, committed, owner, tx, log, faults>>

-----------------------------------------------------------------------------
(* The handler returned nil: on to the next record.                        *)
Advance(p, t) == fetch' = [fetch EXCEPT ![p][t].cur = @ + 1]

(* The handler returned an error: leave the loop over the batch, with the  *)
(* records handled so far still to commit.                                 *)
Break(p) ==
  fetch' = [fetch EXCEPT ![p] =
              IF Handled(p) = {} THEN NoFetch
              ELSE [t \in ConsumedTopics |->
                      IF t \in Handled(p)
                      THEN [fetch[p][t] EXCEPT !.end = fetch[p][t].cur]
                      ELSE NoRange]]

(* How a handler's transaction ends: with acked the commit succeeded and   *)
(* so did the handler; otherwise the commit reached the database but came  *)
(* back as an error.                                                       *)
Finish(p, acked) ==
  /\ tx' = [tx EXCEPT ![p] = NoTx]
  /\ \/ acked /\ Advance(p, TxTopic(p)) /\ faults' = faults
     \/ ~acked /\ HandlerErrors /\ Break(p) /\ Fault

(* Acquire finds the key taken: the handler returns nil.                   *)
SkipDuplicate(p) ==
  /\ tx[p] = NoTx
  /\ \E t \in ConsumedTopics :
       /\ AtTopic(p, t)
       /\ <<GroupOf(p), Current(p, t)>> \in processed
       /\ Advance(p, t)
  /\ UNCHANGED <<tables, outboxes, committed, owner, position, tx, log, faults>>

(* A query, the begin or the commit fails and nothing was committed.       *)
HandlerFails(p) ==
  /\ HandlerErrors
  /\ ~Done(p)
  /\ Fault
  /\ tx' = [tx EXCEPT ![p] = NoTx]
  /\ Break(p)
  /\ UNCHANGED <<tables, outboxes, committed, owner, position, log>>

-----------------------------------------------------------------------------
(* A bug in CommitRecords: the offset committed is one too far.            *)
CommitRecordsMutant(p) ==
  /\ ~Idle(p) /\ Done(p)
  /\ committed' = [t \in ConsumedTopics |->
                     IF t \in Handled(p) THEN fetch[p][t].cur + 1
                                         ELSE committed[t]]
  /\ fetch' = [fetch EXCEPT ![p] = NoFetch]
  /\ UNCHANGED <<tables, outboxes, owner, position, tx, log, faults>>

(* The group's offset becomes the one behind the last record handled,      *)
(* even when it was already further on.                                    *)
CommitRecords(p) ==
  /\ ~Idle(p) /\ Done(p)
  /\ committed' = [t \in ConsumedTopics |->
                     IF t \in Handled(p) THEN fetch[p][t].cur ELSE committed[t]]
  /\ fetch' = [fetch EXCEPT ![p] = NoFetch]
  /\ UNCHANGED <<tables, outboxes, owner, position, tx, log, faults>>

(* The commit fails, is logged and forgotten.                              *)
CommitRecordsFails(p) ==
  /\ ~Idle(p) /\ Done(p)
  /\ Fault
  /\ fetch' = [fetch EXCEPT ![p] = NoFetch]
  /\ UNCHANGED <<tables, outboxes, committed, owner, position, tx, log>>

(* The process dies and is started again: its transactions roll back, its  *)
(* batch is gone and the group gives its topics to whoever is there.       *)
Crash(p) ==
  /\ Fault
  /\ tx' = [tx EXCEPT ![p] = NoTx]
  /\ relay' = [relay EXCEPT ![p] = NoBatch]
  /\ fetch' = [fetch EXCEPT ![p] = NoFetch]
  /\ owner' = [t \in ConsumedTopics |->
                 IF owner[t] = p THEN NoProc ELSE owner[t]]
  /\ position' = [t \in ConsumedTopics |->
                    IF owner[t] = p THEN 0 ELSE position[t]]
  /\ UNCHANGED <<tables, outbox, published, committed, log>>
=============================================================================

---------------------------- MODULE StreamSystem ----------------------------
(***************************************************************************)
(* The status streams on top of the order saga that moves the statuses.    *)
(***************************************************************************)
EXTENDS SagaSystem, StatusStream

streamVars == <<vars, streaming>>

(* The saga's steps but for the faults of its consumers, which change      *)
(* nothing a stream depends on beyond what losing a partition or dying do. *)
SagaRuns ==
  /\ \/ \E o \in Orders, m \in MarketIDs : CreateOrder(o, m)
     \/ \E t \in ConsumedTopics, p \in Procs : Assign(t, p)
     \/ \E p \in Procs : ConsumerStep(p)
     \/ \E p \in RelayProcs : RelayStep(p) \/ RelayFault(p)
  /\ UNCHANGED streaming

ProcessDies(p) ==
  /\ Crash(p)
  /\ IF p \in OrderProcs THEN StreamsCrash(p) ELSE UNCHANGED streaming

saga == <<tables, outboxes, consumers, tx, log>>

StreamsRun ==
  /\ \/ \E p \in OrderProcs :
          \/ FeedJoin(p) \/ FeedLost(p) \/ FeedStep(p) \/ FeedCommitFails(p)
          \/ \E s \in Streams : Subscribe(s, p)
     \/ \E s \in Streams : HandlerStep(s) \/ StreamEnds(s)
  /\ UNCHANGED saga

StreamNext == SagaRuns \/ StreamsRun \/ \E p \in Procs : ProcessDies(p)

StreamSpec == Init /\ StreamInit /\ [][StreamNext]_streamVars

(* The status worker and each open call keep being scheduled, a copy       *)
(* without its partition is given it back, and the saga's own fairness.    *)
StreamFairness ==
  /\ Fairness
  /\ \A p \in OrderProcs :
       /\ WF_streamVars(FeedJoin(p) /\ UNCHANGED saga)
       /\ WF_streamVars(FeedStep(p) /\ UNCHANGED saga)
  /\ \A s \in Streams : WF_streamVars(HandlerStep(s) /\ UNCHANGED saga)

StreamFairSpec == StreamSpec /\ StreamFairness

-----------------------------------------------------------------------------
Places == {"unopened", "reading", "sending", "waiting", "returned"}

(* The streams, the hubs and the status consumers have their shapes, and   *)
(* every subscriber of a hub is a call of that copy that has not returned. *)
StreamTypeOK ==
  /\ stream \in [Streams -> [at: Places, proc: OrderProcs \cup {NoProc},
                             read: Statuses \cup {StatusAbsent},
                             sent: Seq(Statuses)]]
  /\ subs = [p \in OrderProcs |-> {s \in Streams : Open(s) /\ stream[s].proc = p}]
  /\ wake \cup missed \subseteq {s \in Streams : Open(s)}
  /\ feed \in [OrderProcs -> [joined: BOOLEAN, next: Nat,
                              offset: Nat \cup {NoOffset}, batch: Ranges]]

(* A client sees the statuses of its order in the order they happened and  *)
(* each of them once, however often it is announced.                       *)
StatusesSentOnceInOrder ==
  \A s \in Streams :
    LET sent == stream[s].sent IN
      /\ \A i, j \in DOMAIN sent : sent[i] = sent[j] => i = j
      /\ \A i \in DOMAIN sent : sent[i] \in Settled => i = Len(sent)

(* Some announcement of the order is in the outbox, in the topic or in the *)
(* hands of the status consumer of p, on its way to p's hub.               *)
OnItsWay(o, p) ==
  \E r \in Rows :
    /\ outbox[r].order = o /\ outbox[r].type = EventOrderStatusChanged
    /\ \/ ~InLog(r)
       \/ \E i \in DOMAIN Announcements :
            /\ Announcements[i] = r
            /\ \/ feed[p].next < i
               \/ feed[p].batch.cur < i /\ i <= feed[p].batch.end

(* No update is lost between the hub and a stream: one that waits with an  *)
(* outdated status has an update in its channel or coming, unless the      *)
(* status consumer passed over the announcement when it started.           *)
NoLostWakeup ==
  \A s \in Streams :
    (/\ stream[s].at = "waiting"
     /\ Last(s) # orders[Watched[s]])
      => s \in wake \cup missed \/ OnItsWay(Watched[s], stream[s].proc)

(* A stream that is open when its order is settled tells the client so, if *)
(* it stays and the status consumer does not pass over the announcement.   *)
StreamsCatchUp ==
  \A s \in Streams :
    (Open(s) /\ orders[Watched[s]] \in Settled)
      ~> (Last(s) \in Settled \/ stream[s].at = "returned" \/ s \in missed)

(* The stream of a rejected order ends by itself.                          *)
RejectedStreamsEnd ==
  \A s \in Streams :
    (Open(s) /\ orders[Watched[s]] = StatusRejected)
      ~> (stream[s].at = "returned" \/ s \in missed)
=============================================================================

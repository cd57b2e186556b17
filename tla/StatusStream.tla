---------------------------- MODULE StatusStream ----------------------------
(***************************************************************************)
(* Order status streams: the hub of internal/streaming, the consumer that  *)
(* feeds it from the topic order.status, and Handler.StreamOrderUpdates.   *)
(*                                                                         *)
(* Every copy of order_service reads the topic in a group of its own, from *)
(* the end.  An update only wakes the streams of its order, through a      *)
(* channel of one slot; a woken stream reads the orders table again and    *)
(* sends what it finds when that differs from what it sent last.           *)
(***************************************************************************)
EXTENDS SagaStore

CONSTANTS
  Streams,   \* calls of StreamOrderUpdates
  Watched,   \* the order each call asks for
  NoOffset   \* the offset of a group that never committed one

ASSUME StreamsAssumption ==
  /\ Watched \in [Streams -> Orders]
  /\ NoOffset \notin Nat

VARIABLES
  stream,  \* each call: where it is, what it read and what it sent
  subs,    \* Hub.subs of each copy: the streams subscribed
  wake,    \* streams whose channel holds an update
  feed,    \* the status consumer of each copy
  missed   \* history: streams an update passed by since they last read

streaming == <<stream, subs, wake, feed, missed>>

NoStream == [at |-> "unopened", proc |-> NoProc, read |-> StatusAbsent,
             sent |-> <<>>]
NoFeed   == [joined |-> FALSE, next |-> 0, offset |-> NoOffset,
             batch |-> NoRange]

Announcements == log[TopicOrderStatus]

(* The streams of p an announcement is for.                                *)
Audience(p, i) == {s \in subs[p] : Watched[s] = outbox[Announcements[i]].order}

StreamInit ==
  /\ stream = [s \in Streams |-> NoStream]
  /\ subs = [p \in OrderProcs |-> {}]
  /\ wake = {}
  /\ feed = [p \in OrderProcs |-> NoFeed]
  /\ missed = {}

-----------------------------------------------------------------------------
(* The status consumer.                                                    *)

(* The group of one gets the partition: it starts at its committed offset, *)
(* or at the end of the topic if it has none.  What it passes over wakes   *)
(* nobody; a stream that has still to read is none the worse for it.       *)
FeedJoin(p) ==
  /\ ~feed[p].joined
  /\ LET start == IF feed[p].offset = NoOffset THEN Len(Announcements)
                                               ELSE feed[p].offset
         passedOver == feed[p].next + 1 .. start
     IN /\ feed' = [feed EXCEPT ![p].joined = TRUE, ![p].next = start]
        /\ missed' = missed \cup
             {s \in UNION {Audience(p, i) : i \in passedOver} :
                stream[s].at \in {"sending", "waiting"}}
  /\ UNCHANGED <<stream, subs, wake, faults>>

(* The session times out and the partition is lost; the batch in hand is   *)
(* kept.                                                                   *)
FeedLost(p) ==
  /\ feed[p].joined
  /\ Fault
  /\ feed' = [feed EXCEPT ![p].joined = FALSE]
  /\ UNCHANGED <<stream, subs, wake, missed>>

FeedPoll(p) ==
  /\ feed[p].joined /\ feed[p].batch = NoRange
  /\ \E end \in feed[p].next + 1 .. Len(Announcements) :
       feed' = [feed EXCEPT ![p].next = end,
                  ![p].batch = [from |-> feed[p].next, cur |-> feed[p].next,
                                end |-> end]]
  /\ UNCHANGED <<stream, subs, wake, missed, faults>>

(* A bug in Publish: the channels have no slot, so that an update reaches  *)
(* only the streams that are waiting for one.                              *)
PublishMutant(p, i) ==
  wake' = wake \cup {s \in Audience(p, i) : stream[s].at = "waiting"}

(* Hub.Publish: a channel that already holds an update keeps that one.     *)
Publish(p, i) == wake' = wake \cup Audience(p, i)

(* publishStatusUpdate, which never returns an error.                      *)
PublishStatusUpdate(p) ==
  /\ feed[p].batch.cur < feed[p].batch.end
  /\ Publish(p, feed[p].batch.cur + 1)
  /\ feed' = [feed EXCEPT ![p].batch.cur = @ + 1]
  /\ UNCHANGED <<stream, subs, missed, faults>>

FeedBatchDone(p) ==
  feed[p].batch # NoRange /\ feed[p].batch.cur = feed[p].batch.end

FeedCommit(p) ==
  /\ FeedBatchDone(p)
  /\ feed' = [feed EXCEPT ![p].offset = feed[p].batch.cur,
                          ![p].batch = NoRange]
  /\ UNCHANGED <<stream, subs, wake, missed, faults>>

FeedCommitFails(p) ==
  /\ FeedBatchDone(p)
  /\ Fault
  /\ feed' = [feed EXCEPT ![p].batch = NoRange]
  /\ UNCHANGED <<stream, subs, wake, missed>>

FeedStep(p) ==
  FeedPoll(p) \/ PublishStatusUpdate(p) \/ FeedCommit(p)

-----------------------------------------------------------------------------
(* StreamOrderUpdates.                                                     *)

Open(s) == stream[s].at \in {"reading", "sending", "waiting"}

Last(s) == IF stream[s].sent = <<>> THEN StatusAbsent
           ELSE stream[s].sent[Len(stream[s].sent)]

(* ORDER_RESERVED is not terminal, and no code of the repository writes    *)
(* ORDER_HAS_BEEN_DELIVERED, the other terminal status.                    *)
IsTerminal(status) == status = StatusRejected

(* The call arrives and subscribes, before it reads.                       *)
Subscribe(s, p) ==
  /\ stream[s].at = "unopened"
  /\ stream' = [stream EXCEPT ![s] = [@ EXCEPT !.at = "reading", !.proc = p]]
  /\ subs' = [subs EXCEPT ![p] = @ \cup {s}]
  /\ UNCHANGED <<wake, feed, missed, faults>>

(* A bug in Return: an early return before the defer leaves the channel    *)
(* in the hub.                                                             *)
ReturnMutant(s) ==
  /\ subs' = subs
  /\ wake' = wake \ {s}
  /\ missed' = missed \ {s}

(* The call returns; its deferred Unsubscribe forgets the channel.         *)
Return(s) ==
  /\ subs' = [subs EXCEPT ![stream[s].proc] = @ \ {s}]
  /\ wake' = wake \ {s}
  /\ missed' = missed \ {s}

(* send, first half: FindByID.  An order that is not there ends the call.  *)
ReadStatus(s) ==
  /\ stream[s].at = "reading"
  /\ LET status == orders[Watched[s]] IN
       \/ /\ status # StatusAbsent
          /\ stream' = [stream EXCEPT ![s].at = "sending", ![s].read = status]
          /\ missed' = missed \ {s}
          /\ UNCHANGED <<subs, wake>>
       \/ /\ status = StatusAbsent
          /\ stream' = [stream EXCEPT ![s].at = "returned"]
          /\ Return(s)
  /\ UNCHANGED <<feed, faults>>

(* A bug in Sent: the comparison with the last status is left out.         *)
SentMutant(s) == Append(stream[s].sent, stream[s].read)

Sent(s) == IF stream[s].read = Last(s) THEN stream[s].sent
                                       ELSE Append(stream[s].sent, stream[s].read)

(* send, second half: to the client, then out or back to the select.       *)
SendStatus(s) ==
  /\ stream[s].at = "sending"
  /\ \/ /\ IsTerminal(stream[s].read)
        /\ stream' = [stream EXCEPT ![s].at = "returned", ![s].sent = Sent(s)]
        /\ Return(s)
     \/ /\ ~IsTerminal(stream[s].read)
        /\ stream' = [stream EXCEPT ![s].at = "waiting", ![s].sent = Sent(s)]
        /\ UNCHANGED <<subs, wake, missed>>
  /\ UNCHANGED <<feed, faults>>

(* case <-updates: the update itself is thrown away.                       *)
ReceiveUpdate(s) ==
  /\ stream[s].at = "waiting" /\ s \in wake
  /\ wake' = wake \ {s}
  /\ stream' = [stream EXCEPT ![s].at = "reading"]
  /\ UNCHANGED <<subs, feed, missed, faults>>

(* The client goes away, or the read or the send fails.                    *)
StreamEnds(s) ==
  /\ Open(s)
  /\ stream' = [stream EXCEPT ![s].at = "returned"]
  /\ Return(s)
  /\ UNCHANGED <<feed, faults>>

HandlerStep(s) == ReadStatus(s) \/ SendStatus(s) \/ ReceiveUpdate(s)

-----------------------------------------------------------------------------
(* The process dies: its hub and its streams go with it, and its next life *)
(* reads the topic in a new group.                                         *)
StreamsCrash(p) ==
  /\ stream' = [s \in Streams |->
                  IF s \in subs[p] THEN [stream[s] EXCEPT !.at = "returned"]
                                   ELSE stream[s]]
  /\ subs' = [subs EXCEPT ![p] = {}]
  /\ wake' = wake \ subs[p]
  /\ missed' = missed \ subs[p]
  /\ feed' = [feed EXCEPT ![p] = NoFeed]
=============================================================================

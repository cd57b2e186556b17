-------------------------- MODULE ServiceLifecycle --------------------------
(***************************************************************************)
(* The life of a process of each service: New, Run and shutdown of its     *)
(* app package, with the workers and the gRPC calls that use the database  *)
(* pool meanwhile.                                                         *)
(*                                                                         *)
(* order_service and market_service run workers, which nobody waits for:   *)
(* they are told to stop by the context and are still at work while the    *)
(* resources are being closed.  auth_service and user_service have none.   *)
(***************************************************************************)
EXTENDS Integers, Sequences, FiniteSets

CONSTANTS
  Unary,    \* unary gRPC calls
  Streams   \* calls of StreamOrderUpdates, which order_service alone has

Services == {"order", "market", "auth", "user"}

VARIABLES
  service,   \* which service the process is
  phase,     \* where the main goroutine is
  built,     \* construction steps done
  open,      \* resources that are open
  closing,   \* resources shutdown has still to close, in order
  cancelled, \* the workers' context is cancelled
  worker,    \* each worker goroutine
  call,      \* each gRPC call
  held,      \* who holds a connection of the pool
  drained    \* GracefulStop has returned

main      == <<service, phase, built, open, closing, cancelled, drained>>
lifecycle == <<main, worker, call, held>>

Calls  == Unary \cup Streams
Phases == {"building", "failed", "serving", "stopping", "closing", "exited"}

(* What New opens, or checks, in order; auth and user listen in Run.       *)
OrderSteps  == <<"pool", "redis", "producer", "consumer", "statusConsumer",
                 "policy", "listener">>
MarketSteps == <<"pool", "redis", "producer", "consumer", "listener">>
AuthSteps   == <<"pool", "redis", "policy", "listener">>
UserSteps   == <<"pool", "redis", "listener">>

Steps == [order |-> OrderSteps, market |-> MarketSteps,
          auth |-> AuthSteps, user |-> UserSteps]

StepsInNew == [order |-> 7, market |-> 5, auth |-> 3, user |-> 2]

Workers ==
  [order  |-> {"outbox-relay", "saga-orchestrator", "status-stream"},
   market |-> {"outbox-relay", "market-reserve"},
   auth   |-> {}, user |-> {}]

AllWorkers == UNION {Workers[s] : s \in Services}
Resources  == {"pool", "redis", "producer", "consumer", "statusConsumer",
               "listener"}

(* A bug in CleanUp: one resource fewer is closed than was opened.         *)
CleanUpMutant(step) ==
  CASE step = "pool"     -> {}
    [] step = "redis"    -> {"pool"}
    [] step = "producer" -> {"redis", "pool"}
    [] step = "consumer" -> {"producer", "redis", "pool"}
    [] OTHER             -> {"consumer", "producer", "redis", "pool"}

(* What New closes when a step fails.                                      *)
CleanUp(step) ==
  CASE step = "pool"           -> {}
    [] step = "redis"          -> {"pool"}
    [] step = "producer"       -> {"redis", "pool"}
    [] step = "consumer"       -> {"producer", "redis", "pool"}
    [] step = "statusConsumer" -> {"consumer", "producer", "redis", "pool"}
    [] OTHER -> {"statusConsumer", "consumer", "producer", "redis", "pool"}

(* What the step that fails leaves open of its own: redis_client.New       *)
(* returns on a failed ping with the client it has made; the constructors  *)
(* of the pool, the producer and the consumers close theirs.               *)
LeftBy(step) == {step} \cap {"redis"}

(* What shutdown closes, in order; the listener is the server's.           *)
ClosingOrder ==
  [order  |-> <<"statusConsumer", "consumer", "producer", "redis", "pool">>,
   market |-> <<"consumer", "producer", "redis", "pool">>,
   auth   |-> <<"pool", "redis">>,
   user   |-> <<"pool", "redis">>]

Init ==
  /\ service \in Services
  /\ phase = "building"
  /\ built = 0
  /\ open = {}
  /\ closing = <<>>
  /\ cancelled = FALSE
  /\ worker = [w \in AllWorkers |-> "off"]
  /\ call = [c \in Calls |-> "none"]
  /\ held = {}
  /\ drained = FALSE

-----------------------------------------------------------------------------
(* New, and the start of Run in auth and user.                             *)
BuildStep ==
  /\ phase = "building" /\ built < Len(Steps[service])
  /\ built' = built + 1
  /\ open' = open \cup ({Steps[service][built + 1]} \cap Resources)
  /\ UNCHANGED <<service, phase, closing, cancelled, drained, worker, call, held>>

(* A step fails: New closes what the steps before it opened and returns    *)
(* the error; Run of auth and user just returns it.                        *)
BuildFails ==
  /\ phase = "building" /\ built < Len(Steps[service])
  /\ IF built < StepsInNew[service]
       THEN /\ phase' = "failed"
            /\ LET step == Steps[service][built + 1]
               IN  open' = (open \cup LeftBy(step)) \ CleanUp(step)
       ELSE phase' = "exited" /\ open' = open
  /\ UNCHANGED <<service, built, closing, cancelled, drained, worker, call, held>>

(* Run starts the workers and the server.                                  *)
Run ==
  /\ phase = "building" /\ built = Len(Steps[service])
  /\ phase' = "serving"
  /\ worker' = [w \in AllWorkers |-> IF w \in Workers[service] THEN "running" ELSE "off"]
  /\ UNCHANGED <<service, built, open, closing, cancelled, drained, call, held>>

(* The select of Run.  On a signal every service stops its server          *)
(* gracefully.                                                             *)
Signalled ==
  /\ phase = "serving"
  /\ phase' = "stopping"
  /\ cancelled' = TRUE
  /\ UNCHANGED <<service, built, open, closing, drained, worker, call, held>>

(* A bug in ServeFails: straight to shutdown in every service.             *)
ServeFailsMutant ==
  /\ phase = "serving"
  /\ phase' = "closing"
  /\ closing' = ClosingOrder[service]
  /\ cancelled' = TRUE
  /\ open' = open \ {"listener"}
  /\ UNCHANGED <<service, built, drained, worker, call, held>>

(* Serve returns an error: its calls go on.  auth and user close at once,  *)
(* the others stop their server gracefully.                                *)
ServeFails ==
  /\ phase = "serving"
  /\ IF service \in {"auth", "user"}
       THEN /\ phase' = "closing"
            /\ closing' = ClosingOrder[service]
            /\ cancelled' = cancelled
       ELSE /\ phase' = "stopping"
            /\ cancelled' = TRUE
            /\ closing' = closing
  /\ open' = open \ {"listener"}
  /\ UNCHANGED <<service, built, drained, worker, call, held>>

Active(c) == call[c] = "running"

(* GracefulStop accepts no call any more and returns when none is left.    *)
GracefulStop ==
  /\ phase = "stopping"
  /\ \A c \in Calls : ~Active(c)
  /\ phase' = "closing"
  /\ closing' = ClosingOrder[service]
  /\ open' = open \ {"listener"}
  /\ drained' = TRUE
  /\ UNCHANGED <<service, built, cancelled, worker, call, held>>

(* shutdown: closing the pool waits for every connection to be returned.   *)
CloseNext ==
  /\ phase = "closing" /\ closing # <<>>
  /\ Head(closing) = "pool" => held = {}
  /\ open' = open \ {Head(closing)}
  /\ closing' = Tail(closing)
  /\ UNCHANGED <<service, phase, built, cancelled, drained, worker, call, held>>

Exit ==
  /\ phase = "closing" /\ closing = <<>>
  /\ phase' = "exited"
  /\ UNCHANGED <<service, built, open, closing, cancelled, drained, worker, call, held>>

MainStep == BuildStep \/ Run \/ GracefulStop \/ CloseNext \/ Exit

-----------------------------------------------------------------------------
Alive == phase \in {"serving", "stopping", "closing"}

(* BeginTx takes a connection, which a cancelled context does not get.     *)
WorkerBegins(w) ==
  /\ worker[w] = "running" /\ w \notin held
  /\ Alive /\ ~cancelled /\ "pool" \in open
  /\ held' = held \cup {w}
  /\ UNCHANGED <<main, worker, call>>

(* Commit or rollback gives it back.                                       *)
WorkerEnds(w) ==
  /\ worker[w] = "running" /\ w \in held /\ Alive
  /\ held' = held \ {w}
  /\ UNCHANGED <<main, worker, call>>

(* Run of the relay or of a consumer returns.                              *)
WorkerStops(w) ==
  /\ worker[w] = "running" /\ w \notin held
  /\ Alive /\ cancelled
  /\ worker' = [worker EXCEPT ![w] = "gone"]
  /\ UNCHANGED <<main, call, held>>

(* A bug in WorkerPanics: the rollback of the transaction is not deferred. *)
WorkerPanicsMutant(w) ==
  /\ worker[w] = "running" /\ Alive
  /\ worker' = [worker EXCEPT ![w] = "gone"]
  /\ UNCHANGED <<main, call, held>>

(* The panic rolls the transaction back on its way to runWorker, which     *)
(* recovers it and does not start the worker again.                        *)
WorkerPanics(w) ==
  /\ worker[w] = "running" /\ Alive
  /\ worker' = [worker EXCEPT ![w] = "gone"]
  /\ held' = held \ {w}
  /\ UNCHANGED <<main, call>>

-----------------------------------------------------------------------------
CallBegins(c) ==
  /\ phase = "serving" /\ call[c] = "none"
  /\ c \in Streams => service = "order"
  /\ call' = [call EXCEPT ![c] = "running"]
  /\ UNCHANGED <<main, worker, held>>

CallQueries(c) ==
  /\ Active(c) /\ c \notin held /\ Alive /\ "pool" \in open
  /\ held' = held \cup {c}
  /\ UNCHANGED <<main, worker, call>>

QueryEnds(c) ==
  /\ c \in held /\ Alive
  /\ held' = held \ {c}
  /\ UNCHANGED <<main, worker, call>>

(* A unary call returns after finitely many queries; a stream when its     *)
(* client leaves or its order is rejected, neither of which has to happen. *)
CallEnds(c) ==
  /\ Active(c) /\ c \notin held /\ Alive
  /\ call' = [call EXCEPT ![c] = "done"]
  /\ UNCHANGED <<main, worker, held>>

Next ==
  \/ MainStep \/ BuildFails \/ Signalled \/ ServeFails
  \/ \E w \in AllWorkers :
       WorkerBegins(w) \/ WorkerEnds(w) \/ WorkerStops(w) \/ WorkerPanics(w)
  \/ \E c \in Calls :
       CallBegins(c) \/ CallQueries(c) \/ QueryEnds(c) \/ CallEnds(c)

Spec == Init /\ [][Next]_lifecycle

(* The main goroutine and the workers keep being scheduled, queries come   *)
(* back, and a unary call returns.                                         *)
Fairness ==
  /\ WF_lifecycle(MainStep)
  /\ \A w \in AllWorkers :
       WF_lifecycle(WorkerEnds(w)) /\ WF_lifecycle(WorkerStops(w))
  /\ \A c \in Calls : WF_lifecycle(QueryEnds(c))
  /\ \A c \in Unary : SF_lifecycle(CallEnds(c))

FairSpec == Spec /\ Fairness

-----------------------------------------------------------------------------
(* Shapes; a connection is held by a worker or call that is still there to *)
(* give it back.                                                           *)
TypeOK ==
  /\ service \in Services /\ phase \in Phases
  /\ built \in 0..Len(Steps[service])
  /\ open \subseteq Resources
  /\ closing \in Seq(Resources)
  /\ cancelled \in BOOLEAN /\ drained \in BOOLEAN
  /\ worker \in [AllWorkers -> {"off", "running", "gone"}]
  /\ call \in [Calls -> {"none", "running", "done"}]
  /\ held \subseteq {w \in AllWorkers : worker[w] = "running"}
                 \cup {c \in Calls : Active(c)}

(* What a process has still open when main takes over: nothing after a     *)
(* shutdown or a failed New, but for the client whose own ping failed; the *)
(* pool and Redis where auth and user cannot listen.                       *)
Remains ==
  CASE built = Len(Steps[service])          -> {}
    [] StepsInNew[service] <= built
       /\ built < Len(Steps[service])       -> {"pool", "redis"}
    [] built < StepsInNew[service]          -> IF Steps[service][built + 1] = "redis"
                                               THEN {"redis"} ELSE {}

(* Whichever step fails, in whichever service, and however it ends: what   *)
(* is left open is known, and it is never a consumer, a producer or a      *)
(* listener.                                                               *)
OnlyKnownRemains == phase \in {"failed", "exited"} => open = Remains

(* While shutdown closes the resources a call is served only in auth and   *)
(* user, when Serve returned an error, which is where they do not stop     *)
(* their server gracefully; and not even there is the pool closed under a  *)
(* query of a call, nor anywhere under a worker's transaction.             *)
CallsWhileClosing ==
  phase \in {"closing", "exited"} =>
    /\ (\E c \in Calls : Active(c)) => service \in {"auth", "user"} /\ ~drained
    /\ "pool" \notin open => held = {}

(* A process that is told to stop, or whose server fails, closes all it    *)
(* opened and exits, once the clients have left its streams: no worker,    *)
(* unary call or panic can hold it up.                                     *)
ShutdownCompletes ==
  <>[](\A c \in Streams : ~Active(c))
    => (phase \in {"stopping", "closing"} ~> (phase = "exited" /\ open = {}))
=============================================================================

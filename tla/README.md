# BHLA in TLA+

TLA+ specifications of BHLA, a small exchange back end in Go: four gRPC services
(orders, markets, users, authentication) over PostgreSQL, Kafka and Redis. The
order saga, a transactional outbox, idempotent consumers and an orchestrator, is
where its correctness lives, and is what the specifications start from.

Every definition is translated from `src/`; `PROJECT.json` names the lines each
one stands for (`map`), the runs, the theorems, the hazards the properties are
for and the mutants that show that a property can fail.

## 1. The system

### Components

| Component | State it keeps | Operations | What makes it correct |
|---|---|---|---|
| Order use case (`order_service/internal/usecase`) | table `orders` | `CreateOrder`, reads | an order and its `OrderCreated` event are written together or not at all |
| Saga orchestrator (`order_service/internal/saga`) | `orders.order_status` | `handleOrderCreated`, `handleReply` | one command and one settlement per order, whatever is delivered again |
| Saga participant (`market_service/internal/saga`) | table `reservations`; reads `markets` | `HandleReserveStock` | one decision per order; the reply says what the reservation says |
| Outbox (`shared/outbox`) | table `outbox` (`published_at`) | `Writer.Emit`, `Relay.BatchRun` | every row reaches Kafka at least once, rows are marked only when they did |
| Idempotency guard, transactions (`shared/idempotency`, `shared/tx_manager`) | table `processed_events` | `Acquire`, `Do` | the effects of a delivery and its mark are one transaction |
| Consumer loop (`shared/kafka/consumer.go`) | group offsets, the batch in hand | `Run`: poll, handle, commit | no record is skipped |
| Status streaming (`order_service/internal/streaming`, `StreamOrderUpdates`) | subscriber channels of one entry | `Subscribe`, `Publish`, `Unsubscribe`, the stream loop | a stream shows the order's latest status and ends with it |
| Service life cycle (`*/internal/app`) | workers, server, connections | `New`, `Run`, `runWorker`, `shutdown` | an early return closes what was opened, nothing is closed under those who use it, shutdown ends |
| Rate limiter, quota, policy (`shared/rate_limiter`, `quota`, `policy`) | Redis sorted set per key | `AllowKey`, `Check` | at most `limit` requests in a window |
| Sessions (`shared/session_validation`, `session_auth`, auth service) | Redis key per session | `Login`, `Validate`, `Save`, `Revoke` | only live sessions of known users authenticate |
| User service | table `users` | `Register`, `PlanChange` | a user has the plan he asked for |
| Market catalogue, order list | reads | pages by id | each row on exactly one page |
| gRPC adapters and converters, messages and their rules | none | translation, validation | values survive the translation, answers obey the rules of their messages |
| Interceptors, error mapping (`panic_recover`, `err_map`, `validation`, `session_auth`) | registered errors | around every handler | a code tells what was done, a hidden failure is in the log |
| Configuration, logging, metrics, clients | none of interest | | |

### How they interact

    client --CreateOrder--> order_service --(orders, outbox)--> database
    relay of any service:  outbox --> Kafka topic of the row
    order.events         --> order-orchestrator: OrderCreated  -> outbox ReserveStock
    order.saga.commands  --> market-reserve:     ReserveStock  -> reservations, outbox reply
    order.saga.replies   --> order-orchestrator: reply         -> orders, outbox OrderStatusChanged
    order.status         --> every order_service's status consumer -> hub -> streams

Both services use one database (one `DATABASE_URL`; the two outbox migrations
create the same table), so each relay drains the rows of both. A consumer group
has one committed offset per topic; topics have one partition. Every handler is
one READ COMMITTED transaction that begins with `Acquire`.

### What is hard

* a relay publishes before it marks, so every message may be repeated;
* a batch may be published in part, and an error does not say whether the broker
  appended the record;
* a rebalance hands a topic to another copy while the first still handles its batch
  and later commits an old offset;
* a commit may come back as an error after it took effect;
* `Consumer.Run` drops the rest of a batch at the first handler error and polls on;
* the market is read anew at each delivery, and may have changed in between;
* a stream reads the table and is woken by a channel of one slot, in no order with
  the writes;
* the quota's clock is read before its transaction, on the caller's host;
* `created_at` orders the outbox by the beginning of transactions, not by their end;
* each early return of `New` closes by hand what was opened before it;
* pages are cut by random ids while rows are added;
* the two services trust each other's payloads and drop one that breaks a rule.

`PROJECT.json` lists each of these as a hazard at its line, with the properties
that would catch it going wrong.

## 2. Plan

The modules in the order they were written:

| Group | Modules |
|---|---|
| 1. saga | `SagaTopics`, `SagaStore` (names, shared state, `Emit`, `Acquire`), one module per actor: `OutboxRelay`, `ConsumerGroup`, `OrderService`, `MarketService`; `SagaSystem` composes them |
| 2. promise | `OrderLifecycle`, one order as its client sees it, implemented by `SagaSystem`, safety and liveness, and by `RpcServer`, safety |
| 3. streams | `StatusStream` (hub, status consumer, stream loop); `StreamSystem` puts it on the saga |
| 4. quota | `RateLimiter` |
| 5. processes | `ServiceLifecycle` |
| 6. sessions | `Accounts` (users, logins, sessions, plan) in time |
| 7. relay order | `RelayQueue` (the outbox as a queue by `created_at`, batches, rows that stay at its head) |
| 8. reads | `Pages` (the query of a page), `PageWalk` (a walk through all pages of a growing table) |
| 9. calls | `Prices`, `Messages`, `Services` (data), `RpcPipeline` (interceptors), `OrderApi`, `SagaPayloads`, `AccountApi` (handlers); `RpcServer` composes them |
| 10. proofs | `SagaInvariant`, `SagaSystemProofs`, `StreamSystemProofs`, `RateLimiterProofs`, `ServiceLifecycleProofs`, `AccountsProofs`, `RelayQueueProofs`, `PageWalkProofs`, `RpcServerProofs` |

The saga and the calls are two views of the same handlers. `SagaSystem` has every
interleaving, failure and redelivery and abstracts a payload to the order and its
market; `RpcServer` has the payloads, the rules and the codes and handles each event
once. What joins them is proved on each side: `StepsAreTakenOnce` lets the second
handle an event once, `RpcNoPayloadIsSkipped` lets the first leave out payloads that a
handler takes for poison, and both implement `OrderLifecycle`
(`ImplementsOrderLifecycle`, `RpcImplementsLifecycle`).

## 3. The modules and the code

**SagaTopics** holds the constants of `saga_topics`, the two `topicResolver`s, the
groups and topics of the consumers, statuses and verdicts.

**SagaStore** declares the state. `orders`, `reservations`, `processed` and `outbox`
are the tables (`outbox` a sequence in insertion order; a row's index stands for its
id and idempotency key, a fresh uuid each), `published` the rows with a
`published_at`. `log`, `committed` and `owner` are Kafka's; `position` and `fetch`
(a stretch of each topic: where the batch begins, where the loop is, where it ends)
belong to the consumers, `relay` to the relays, `tx` to the open handler
transactions. `Acquire(p, k)` is enabled when the INSERT would report one row; while
another transaction holds the key it waits, as PostgreSQL makes it wait.

**OutboxRelay**: `BatchRun` is `RelaySelect`, one `RelaySendAcked` or
`RelaySendFails` per record in any order (a failed record may have been appended),
then `RelayMark`, or `RelayMarkFails` when the UPDATE or the commit fails. Any batch
of the right size may be selected: `created_at` is the start of the writing
transaction and says little about visibility.

**ConsumerGroup**: `Run` is `Poll`, the handler's actions per record, `Break` at the
first error, `CommitRecords`. `Assign`, `Revoke` and `Crash` are the group's and the
host's; a member that lost a topic keeps its batch and its late commit succeeds.

**OrderService**, **MarketService**: a handler is two steps, `...Acquire` (for the
participant with the market read of `reserve`) and the commit that makes its writes
visible; `acked = FALSE` is the commit that took effect and returned an error.
`HandlerFails` is every error before that. No service writes a seeded market and its
row is changed by hand, so the read of a market may find either value at any moment;
`ShutMarkets` are those that are not open at any moment of a behaviour.

**SagaSystem** composes the processes and states fairness and properties;
**OrderLifecycle** says what a client may rely on: created, decided once, settled
accordingly.

**StatusStream** adds the status consumer of each copy, with a group of one that
starts at the end of the topic (`FeedJoin` ... `FeedCommit`), the hub (`subs`, `wake`:
a channel of one slot either holds an update or does not, and what it holds is never
looked at) and `StreamOrderUpdates` as `Subscribe`, `ReadStatus`, `SendStatus`,
`ReceiveUpdate` and its ways to end. **StreamSystem** runs it beside the saga that
moves the statuses; a crash takes both down.

**RateLimiter** is one subject's sorted set. `Check` reads the clock, `Exec` is the
Redis transaction (ZREMRANGEBYSCORE, ZADD, ZCARD, PEXPIRE), `Remove` the ZREM of a
refused call, `RetryAfter` the ZRANGE behind the hint; calls interleave between them
and any of the commands may fail. A failed transaction lets the call through, as both
callers of `Check` do.

**ServiceLifecycle** is a process of any of the four services: `New` as the list of
what it opens, `CleanUp` what each early return closes, `LeftBy` what the constructor
that failed leaves open itself (`redis_client.New` its client, when the ping fails; the
others close their own), the select of `Run`, `GracefulStop`, `shutdown`, and around it
the workers and calls that hold connections of the pool. Closing the pool waits for
them. The steps of auth and user include the `net.Listen` of `Run`, whose error returns
without `shutdown`.

**Accounts** spans three programs: registration and `ChangeUserPlan` of the user
service, `Login` of the auth service as its three steps (row, checks, SET), and the
validation of a session by the interceptor of every service (GET, then the clock).

**RelayQueue** looks at the same outbox as `OutboxRelay` but keeps `created_at`,
`ORDER BY`, `LIMIT`, the `SKIP LOCKED` of several relays and the ticks of `Run`. A
writer is `Begin` (its `now()`) and `Commit`; `Refused` are rows of a topic Kafka takes
nothing for. `BatchRun` is `Select`, `Send`, `Mark` and goes on at once when a whole
batch got through. `OutboxRelay` may select any rows, so it is the more general one for
safety; this one says what the order buys.

**Pages** is the query of `FindAll` and `ViewAllMarkets` (rows behind the token, one
more than the page; `Listings` puts a page in order), **PageWalk** a client that follows the tokens while rows are
added. The order of ids is any linear order (`Before`), since ids are random.

**Prices** has `google.type.Money` and decimals counted in nanos, with Go's truncating
conversions to integers from `-UnitLimit` or `-NanoLimit` up (2^63 and 2^31 in the
code). **Messages** has every protobuf message of
`src/proto` as the set of its values and, for each, the fields `ValidateAll` reports;
a text is told apart by what patterns, lengths and PostgreSQL's `uuid` tell apart, an
amount by its sign. **Services** has the four service descriptors, the messages of each
method and the errors each service registers.

**RpcPipeline** is a call on its way: `Receive`, `Validation` (unary calls only),
`PassWithSession` and the ways around it, a handler, `Answer` (which is `err_map`: the
code and whether the text is hidden and logged) or `Panic`. The handlers are the actions of
**OrderApi** (`CheckOrderQuota`, then `SaveNewOrder`, the two reads, the stream's
`SendUpdate`, whose `stream.Send` may fail when the client has gone), **AccountApi** (registration, user data, the unimplemented
`ChangeUserPlan`, login, the two catalogue reads) and **SagaPayloads** (what the saga's
handlers do with the fields). **RpcServer** lets calls, the saga's steps and the expiry
of sessions interleave. Its map to `OrderLifecycle` is about the orders that calls make
(`Drawn`, the ids they draw): `statuses` reads the row, and `verdicts` the reply of the
market that is on its way or, once it was handled, the status that came of it.

Left out of `SagaSystem`: payloads that do not decode or validate, an empty
idempotency key, events of other types on the saga's topics; none is reachable. `ttl`
of a market is never read by the saga. Left out of the calls: registered errors that no
call can return (`ErrInvalidUserID`, `ErrEmptyName` and the like stand behind the
validation of the same field; `ErrOrderAlreadyExists` needs a UUID drawn twice), the
parsing of the authorization header beyond "no session id, a known one, an unknown
one", texts of errors, the fields without a rule.
The page sizes of the catalogue (10 of 50) and of the order list (20 of 100) are the
same two constants, as their code is the same.

## 4. Runs

Model values for orders, markets and processes; `CHECK_DEADLOCK FALSE` everywhere,
because the system rests when all orders are settled and the fault budget is spent.
In the saga `Orders`, `MaxFaults` (crashes, rebalances, failed sends, commits and
handlers share the budget) and `BatchSize` are the only bounds; logs, offsets and the
outbox are bounded by them. In the models with a clock it is `MaxTime`.

| Run | Instance | Shows |
|---|---|---|
| saga | 1 order of an open or a shut market, 2+2 copies, relays of both services, 1 fault, handlers may fail | no step repeated, no decision changed, services agree, a shut market reserves nothing, relays repeat nothing by themselves; `SagaSystem` implements `OrderLifecycle` |
| delivery | 1 order, 1+1 copies, no handler errors, 2 faults, fairness | marked rows are in Kafka, no record is skipped, an unsettled order has a message on its way, every order is settled (`FairSpec` of `OrderLifecycle`) |
| handler_error | 1 fault | **violated**: the failed command is not retried |
| streams | 1 stream on a saga of 1 order, 1+1 copies, the market's relay draining the table, 1 fault, fairness | statuses once and in order, no lost wake-up, open streams end up with the settled status, those of a rejected order end; through crashes, lost partitions and repeated announcements |
| quota | 4 calls, limit 2, window 3, delay up to 1, 1 failing command, 6 ticks, symmetry | the window holds the limit, hints suffice, nobody is refused by stale members |
| lifecycle | each service, 1 unary call, 1 stream, fairness | what a failed `New` or `Run` leaves open, which calls `shutdown` may meet, no query on a closed pool, shutdown ends |
| accounts | 1 user, 2 logins, 1 call, sessions of 2 ticks, logins of up to 1 | the plan of a call is at most a session and a login old |
| plan_change | 1 user, fairness | **violated**: `ChangeUserPlan` is not implemented |
| relay_queue | 3 rows, one refused, 2 relays, batches of 2, fairness | marked rows were acknowledged, no row is taken before one committed before it began, every row gets out |
| pages | 4 ids, page sizes on and beyond both ends, fairness | a walk ends, misses nothing that was there and shows nothing twice |
| first_page | the same | **violated**: without `page_token` there is no first page |
| rpc | 2 calls of any of the ten methods, 2 users, 3 orders, 2 markets, one slot of quota | the properties of `RpcServer`, below |

One fault with two copies is enough for the races that matter: a single revocation
puts one record into two open transactions, a single late commit moves an offset
back. Two faults with one copy cover a fault during the recovery from another. No
action reads two orders, and the invariant is proved for any number of them; the
instance needs two markets only to tell the shut one. Streams share nothing
but the hub, where each has a channel of its own, so one stream sees every race with
the saga. The bound `SomeoneWatches` ends a behaviour of `streams` when the stream has
returned: it changes no more, and no property asks anything of it. Four calls are two
more than the limit: one refused while another is being refused. Six ticks are two windows. A session of two ticks can expire in the middle of a
call and outlive a change of the plan; two logins make an old and a new session of one
user. Three rows of overlapping transactions and a batch of two leave one behind and
put one at the head that stays. Four ids and pages of two make a page in the middle, and
room for an insertion on every side of a token.

In `rpc` the first call may be any (method, request, header) that the rules, the tables
and the sessions tell apart; the second is one that can meet it: another order of the
same user for the one slot, a registration of the same name, a stream of an order
that the saga moves. The constraint `OnlyMeetings` pairs it only with a first call of
the same kinds; every other call runs alone, beside the saga and expiring sessions.
`UnitLimit = 32`, `NanoLimit = 16` and 7 nanos to the unit keep the relation of the real widths: nanos may exceed two units, and a price the units.

The orders that are there at first have prices at both ends and in the middle, so that
the reads and the streams bring edge prices back; one request asks in euros.

The properties of `rpc`: answers, the messages of a stream included, have the caller's own data (`AnswersBelongToTheCaller`)
and the form their messages ask for (`AnswersMeetTheirRules`), though only requests are
validated; a code other than `Internal` tells what was done (`AnswersTellTheEffect`),
`Internal` is never an outcome of the domain (`InternalIsNoOutcome`) and leaves a line in
the log (`FailuresAreLogged`); orders have slots of the quota (`OrdersWithinQuota`); the
saga accepts every order that `CreateOrder` accepts (`NoPayloadIsSkipped`); streams see
each change (`StreamsKeepUp`); a price survives `Money`, `Decimal`, `NUMERIC` and back,
into every answer and message that tells of the order (`PriceIsKept`); and an order that a call makes is created once, decided once and settled
as it was decided (`ImplementsLifecycle`), whatever the other calls, orders and events do.

Limits of what the properties say:

* `WindowHoldsLimit` is about windows shortened by `MaxDelay`. `AllowKey` reads the
  clock before its transaction, so a call that is late counts in a window that others
  have already moved on from; for the full window the property does not hold.
* `NoLostWakeup` and `StreamsCatchUp` except streams in `missed`. The status consumer
  starts at the end of its topic, so an announcement made before it has joined wakes
  no stream; a stream opened and first read before that keeps the old status until the
  next announcement, and after `ORDER_RESERVED` there is none.
* `PriceIsKept` is about amounts whose units `int64` holds (`Fits`); a `Money` with a larger
  sum cannot be answered. It is about amounts, not currencies: the answer says `USD`
  whatever was asked for, and the property says so.
* `OnlyKnownRemains` lists what the code does leave open: the Redis client when its ping
  fails (any service), the pool and Redis when auth or user cannot listen. `main` ends the
  process at once in both cases. `CallsWhileClosing` lets calls meet `shutdown` in auth
  and user after an error of `Serve`, where nothing waits for them; even there the pool
  waits for the queries it has lent connections to.
* `OrdersWithinQuota` is one-sided: a call that fails after the quota keeps its slot, and
  one that Redis did not answer takes none (`unmetered`).
* `AnswersTellTheEffect` says nothing of `Internal`, which is also the answer to a commit
  that took effect. `CreateOrder` draws its id itself, so the client's retry makes a
  second order; no code could tell.
* `StreamsKeepUp` is about ids as Go spells them. Streams pass no validation, so a call may
  name its order in capitals: PostgreSQL finds it, but the hub's key is a text
  `Publish` never names, and the stream is not woken (`handler.go:90`). A text that is no
  UUID is answered `Internal`.
* `EveryRowGetsOut` needs fewer refused rows than a batch holds
  (`RelayQueueAssumption`): with a whole batch of them at the head, `ORDER BY` and `LIMIT`
  select nothing else.

### Fairness

`FairSpec` is weakly fair to each consumer loop and each relay (`runWorker`
goroutines that poll or tick for ever, if they do not panic) and to the assignment of topics without an
owner (the coordinator). Nothing is assumed of clients, of faults or of the order
of messages.

`StreamFairSpec` adds weak fairness to each status consumer (joining, and its loop)
and to each open stream's goroutine. A client that stays away or a send that fails is
a way to end a stream, never assumed.

`ServiceLifecycle` is weakly fair to the main goroutine, to a worker's transaction and
its return after cancellation, and to queries; strongly to the return of a unary call,
which may be between two queries or in one infinitely often but makes finitely many. A
stream need not end, and `ShutdownCompletes` says "once the clients have left": a
reserved order is not terminal, so `GracefulStop` waits for those clients for ever.
No signal, failure or panic is fair.

`FairSpec` of `Accounts` says that a call of `ChangeUserPlan` is answered; that of
`PageWalk` that the client asks for the next page.

`FairSpec` of `RelayQueue` is weakly fair to the ticks and to a relay's sending, strongly to
its SELECT, which fails now and then, and strongly, row by row, to a row's being
acknowledged and marked. The last two say that neither Kafka nor the database fails one
row for ever: a row tried again and again gets through. They say nothing of rows that are
never selected; that those do not exist is what `EveryRowGetsOut` shows.

### Findings

`participant.go:71` says of an infrastructure error "откат+ретрай" (rollback and
retry). The transaction is rolled back, but `consumer.go:88-93` leaves the loop and
polls behind the batch, so nothing is retried until the process restarts or loses
the topic; later commits then move the group's offset past the lost command. The run
`handler_error` shows an order that stays `ORDER_CREATED`. `delivery` shows that it
is the only way to lose a message as long as the workers run: without handler errors
every order is settled. The other way to stop a saga is a worker that panics.
`runWorker` (`app.go:218`) recovers and logs, but starts no worker again, so its relay or
its consumer loop is dead while the process serves on; its client stays in the group,
and its topics are assigned to nobody else until the process ends. The records wait in
their topics, and the rows in the table unless another process has a relay. `delivery` leaves panics out,
and its fairness is that of workers that keep running; `ServiceLifecycle` has the
panic, without the messages.

`user_service.proto:19` declares `rpc ChangeUserPlan(PlanChangeRequest) returns
(PlanChangeResponse)`. The handler (`grpc_adapters/handler.go:57`) has a method
`PlanChange`, so the server answers with the `ChangeUserPlan` of the embedded
`UnimplementedUserServiceServer`; the use case behind it is reached by no call. The
run `plan_change` shows a user who asks for pro and stays free. That is why a plan is
changed by an operator in `Accounts`.

`order_service/internal/adapters/postgres_adapter/repo.go:82` and
`market_service/internal/adapters/postgres_adapter/repo.go:56` compare a column of type
UUID with the text of `page_token`. A client that leaves the field unset sends the empty
text, PostgreSQL refuses the query and the client is answered `Internal`; no other value
is documented for the first page. The run `first_page` shows such a walk fail. One
that names the least UUID gets through, and `pages` is about those.

Observations that no document or test speaks to, so that no run is about them: the
currency of a price is dropped on the way in and `USD` put in its place on the way out
(`converters.go:39`); `redis_client.New` (`redisClient.go:35`) returns on a failed ping with
the client it has made still open; `Store.Revoke` has no caller, so a session lives as long as its
key; the metrics interceptor counts a call that panics as `OK`, since it sees the code
before `panic_recover` sets one.

## 5. Proofs

Eight modules hold theorems; each is about every value of the constants, from the
assumptions declared beside them, which the runs evaluate. `theorems` in
`PROJECT.json` names the results and the properties of runs they state.

**SagaSystemProofs** (`MarketsAssumption`, `ProcsAssumption`, `BoundsAssumption` of
`SagaStore`): `Invariance` of `IInv`; `TypeCorrectness`, `StepsAreTakenOnce`,
`ServicesAgree`, `ShutMarketsReject`; `ImplementsOrderLifecycle`, the refinement; the
action property `DecisionsStay`. None of the properties is inductive (`SagaInvariant`).
That a step is taken once needs to know why the row that would repeat it cannot be
emitted. The rows of an order form a chain `OrderCreated -> ReserveStock -> reply ->
OrderStatusChanged`, and a row exists only if the one before it has been processed by
its reader (`ChainOfRows`). A handler's transaction holds a row that is not processed
yet (`TxsExclusive`), which `Acquire` and the uniqueness of the row for its group
give. So when a handler emits, the next link cannot exist (`NextStepNotTaken`): it
would have been caused by a processed row of the same order and step, which
`EachStepOnce` makes the very row in hand. `RepliesAgree` carries the verdict from
the reservation over the reply to the status, `MarketsKept` the market along the
chain; `BatchesAreLog` and `RowsInTheirTopics` tie the record in hand to the row.

In the same module, on delivery: `PublishedWasProduced`, `CopiesNeedFaults`,
`CommitsAreProcessed`, `NothingGetsLost`. The relays' invariant `RInv` says that no two relays hold a row, that
what a relay knows as acknowledged is in Kafka, and that copies are paid for
(`CopiesArePaid`): a row no relay knows to be in Kafka has at most as many copies as
there were faults, so the next one may be sent. The consumers' invariant
`LoopsProcess` says that the committed offset, the place of every loop in its batch and,
but for the rest of the owner's batch, the owner's position are behind processed
records; a late commit commits such a place.

`NothingGetsLost` puts the two together for an order that is not settled. `ChainGoesOn`
is `ChainOfRows` read forwards: an order has its `OrderCreated` row, and a row that its
reader has processed has led to the next row, or to the order's settlement, because a
handler's transaction emits and marks as one (`ChainInvariance`). So the last row of an
unsettled order is not processed; were it published and not in Kafka it would contradict
`PublishedIsInLog`, and were it in Kafka behind the committed offset it would contradict
`CommittedIsProcessed`.

**StreamSystemProofs**, on top of it (`StreamsAssumption`): `StreamTypeCorrectness`,
`StatusesAreOrdered`, `NoWakeupIsLost`. `SInv` adds to `IInv` where a status consumer is
in its topic (`FeedOK`), what a call may have read and sent given its order's status
(`CallOK`) and that a call past its first read has read the latest status, or an update
is in its channel, or was passed over, or an announcement is on its way (`WakeOK`). The
step that settles an order writes an announcement (`SettlingAnnounces`), which stays on
its way whatever the saga does (`OnItsWayStays`) until `Publish` turns it into a
wake-up; subscribing before the first read is why `WakeOK` starts with that read.

**RateLimiterProofs** (`WindowAssumption`): `LimitHolds`, `HintsAreEnough`, the action
property `RefusalsAreDue`. A call that passed was one of at most `Limit` members of the
set; the members it may have purged are older than the window less the delay, so those
inside are all still there (`CountedAreMembers`, `KeyOutlivesMembers`). What nobody
counts on any more has cost a failed command each (`LeftoversArePaid`).

**ServiceLifecycleProofs**: `TypeCorrectness`, `EndsWithKnownRemains`,
`CallsThatShutdownMeets`. While a process is being built, what is open is what its steps
so far have opened, and while it closes, all that is open is still on the list
(`OpenIsBuilt`); for each of the four sequences the clean-up of a step covers the
resources of the steps before it (`CleanUpCovers`), so that only `LeftBy` the failed step
remains. Whoever holds a connection keeps the pool open (`HeldPoolIsOpen`), and a
process that was drained has no call left.

**AccountsProofs** (`TimesAssumption`): `PlansAreRecent`, from the times a login's steps
put between the plan it read, the session's end and the passing of a request.

**RelayQueueProofs** (`RelayQueueAssumption`): `RelaysDoNotMeet`, `MarkedWasSent`, the
action property `InOrder`: what was visible when a row's transaction began is older than
the row (`SeenIsOlder`), and a batch takes the oldest that are free.

**PageWalkProofs** (`IdsAssumption`, `PageSizeAssumption`): `NothingIsMissed`,
`NothingIsRepeated`. The token splits the table: rows shown are up to it
(`ShownIsUpToToken`), rows of the beginning not shown are behind it (`RestIsBehind`).

**RpcServerProofs** (`WidthsAssumption`, `TextsAssumption`, `AbsentAssumption`,
`PageSizeAssumption`, `AttemptsAssumption`, `OrderApiAssumption`, `MarketsAssumption`,
`RpcServerAssumption`): every invariant of the run `rpc`, for any number of calls, users,
texts, markets and rows and for integers of any width, and the refinement
`RpcImplementsLifecycle`. None of them is inductive; `RpcInv` is. `CallOK` is what the
record of a call says by itself: a request past the validation breaks no rule, an error
is one that the method's handler or interceptors make (`Errors`), and what a handler
returned or a stream sent (`HasBody`) is what the handler builds (`BodyOK`); that the codes of those errors are known, that a registered
one is never `Internal` and that a hidden one is logged are facts about `Errors` and
`ToGRPCStatus` alone. `EffectOK` ties a call to what is stored under the id it drew:
nothing until it returns, nor when an error of the domain or of an interceptor comes
back; the order or the user when `OK` does. That needs ids that no other call and no row
has, which is what `uuid.NewString` is taken to give (`OrderApiAssumption`,
`RpcServerAssumption`). `KeepsUp` ties what a stream sent to the row: it lags only while
an `OrderStatusChanged` of the order is among the events, and the handler of that event
wakes it in the same step. `EventOK` carries the rules of `saga_events.proto` from the
row's columns through each handler. `SlotsOK` counts: a metered call that is past the
quota, or whose order is stored, has one of the user's slots (`Metered`), so a slot is
taken before a call joins that set. For prices, `PriceTold` says that every order a
body tells of has a row, and the price `DecToMoney` makes of the row's; `Amount` undoes
`DecToMoney` where `Fits` holds (`DecToMoneyIsMoney`), by the arithmetic of
`WholeAndRest`.

The refinement needs `LifeInv` besides: an event of the saga is about a stored order that
is still `ORDER_CREATED`, and is the only one of its order. So the handler of
`ReserveStock` decides on an order that has no verdict, and the handler of a reply settles
one whose verdict is that reply. All other steps leave an order's life alone.

### Only model-checked

* Liveness (`ImplementsFairLifecycle`, `StreamsCatchUp`, `RejectedStreamsEnd`,
  `ShutdownCompletes`, `EveryRowGetsOut`, `WalkEnds`): fairness and ENABLED are out of the
  prover's reach.
* The violated properties, whose counterexamples TLC gives.

## 6. Not modelled

Configuration, logging, metrics, construction of clients, bcrypt: no state of the protocol
is in them. `UserUseCase.PlanChange` is reached by no call, `Store.Revoke` and the
messages `User` and `ValidateSession...` of `src/proto` have no user, and none has a
definition. Of the generated code, the marshalling, the accessors and the error types of
validators are left out; the messages, the rules, the methods and the dispatch are in
`Messages` and `Services`.

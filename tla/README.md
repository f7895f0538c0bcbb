# Formal models of the telemetry backend

TLA+ models of the playback backend, the TLC configurations that check them on
small instances, and TLAPS proofs of the results that should hold for every
setting. Paths are relative to the repository; `PROJECT.json` maps every
definition to the lines it models.

    tlc -config MCKinesisBuffer_tenants.cfg MCKinesisBuffer.tla
    tlapm ProgressProofs.tla

## 1. The system

Telemetry (traces, metrics, logs) enters by gRPC or HTTP, passes the rate
limiters and, if it is a trace by gRPC, waits in a buffer per tenant; it is
published to one Kinesis stream per type, and a second process consumes the
streams into ClickHouse. What fails on the way through the buffer goes to a dead
letter queue on SQS. Beside that path stand the configuration and its secrets,
health and database monitoring, and the tools for secrets and migrations.

| Component | State | Operations | Talks to |
|---|---|---|---|
| Circuit breaker, `internal/resilience/circuit_breaker.go` | state, generation, counts, expiry, behind a mutex | `Execute` (admit, run unlocked, report), `State` | wraps the publish of a whole batch in the buffer, and the global rate limiter |
| Kinesis buffer, `internal/resilience/kinesis_buffer.go` | a buffer and mutex per tenant, bounded job channel, closed flag | `BufferEvent`, workers, periodic `flushAll`, `Close` | rate limiter, breaker, publisher, dead letter queue |
| Dead letter queue, `internal/resilience/dead_letter_queue.go` | local buffer behind a mutex, SQS messages | `SendToDLQ`, `ProcessRetries`, `StartRetryProcessor` | SQS, the event processor |
| Batch processor, `internal/streaming/batch_processor.go` | a channel and a goroutine per stream, `isRunning`, shutdown channel | `Start`, `PublishAsync`, `processBatch`, `Stop` | Kinesis |
| Stream consumer, `internal/consumer/`, `internal/app/consumer.go` | an iterator and a goroutine per stream, stop channel | `Start`, `pollStream`, batch insert with individual fallback, `Stop`, process shutdown | Kinesis, ClickHouse |
| Storage clients, `internal/storage/` | a pool of connections | inserts, queries | ClickHouse, S3 |
| Rate limiters, `internal/resilience/rate_limiter.go`, `api/` | a token bucket per client, last use, custom settings | `Allow`, `SetTenantConfig`, clean-up | every request, the buffer |
| Ingestion services, `internal/grpc/`, `internal/handlers/base.go` | the validator's counter of requests | `Export`, `HandleTelemetryEvent` | validator, limiter, buffer, Kinesis client |
| Kinesis client, `internal/streaming/` | names of the streams | check at the start, publish | AWS SDK |
| Configuration manager, `internal/config/manager.go` | snapshot pointer, fingerprint, subscribers, watchers | `Reload`, `StartWatchers`, `Subscribe`, broadcast | the thirteen sections, the environment |
| Secrets manager, `internal/secrets/`, `internal/config/secrets_integration.go` | a TTL cache, ordered providers, the file's mutex | get, set, rotate, delete, refresh | environment, secrets file, AWS |
| Health service, `internal/services/health_service.go` | a channel of results per request | concurrent checks with a timeout | everything it checks |
| Error handling, `pkg/errors/` | four pools | `New`, `ErrorHandler`, `logError`, `Release` | every HTTP request that fails |
| Database monitor, `internal/monitoring/` | running queries, table sizes | wrapped queries, refresh loop, `Stop` | ClickHouse |
| Lifecycle, `internal/app/`, `cmd/` | the objects above | start, shutdown in order | all |
| Tools, `cmd/secrets`, `db/scripts/migrate.go` | none of their own | secrets commands, migrations | providers, ClickHouse |
| The rest: query handlers, service metrics, logging, generated documentation | mostly none | parse, query, format, export | ClickHouse, S3 |

What is hard, and what makes each part correct:

- **Breaker.** The protected call runs without the lock, so its answer comes back
  in a later generation; trials race for the half-open slots; the lazy state
  change needs traffic. Correct: late answers change nothing, at most
  `MaxRequests` trials, only a trial closes it, no state is kept for ever.
- **Buffer.** Requests, workers and the flush loop take events from one tenant's
  buffer and publish unlocked; the job channel may be full; batches fail
  halfway; `Close` races with all of it. Correct: one holder per event, true
  answers, everything leaves, nothing owed at close is left behind.
- **Dead letter queue.** At-least-once delivery, sends and deletes that fail
  after taking effect, cancellation in mid-drain, eviction. Correct: an event
  is held, processed, or given up for a known reason, after all its retries.
- **Batch processor.** Channel, batch, ticker, retries with back-off, a stop with
  a timeout, restarts. Correct: order and uniqueness of what is acknowledged,
  no event in two places, a clean stop.
- **Consumer and storage.** The iterator moves before the records are stored;
  inserts fail in part and keep connections; restarts start at the beginning;
  iterators expire; shards close. Correct: nothing is passed over silently,
  duplicates have a known cause, a stop does not abandon work.
- **Rate limiters.** A bucket is looked up under a mutex and used without it;
  idle buckets are dropped, settings change. Correct: no client gets more than
  its burst and rate, over any period.
- **Ingestion.** A request is a loop over items that can stop in the middle, and
  the client sends all of it again. Correct: success is true of every item, and
  an attempt hands an item over once.
- **Configuration.** Overlapping reloads, unordered notifications, defaults that
  decoding writes through. Correct: the last settings win, and what runs could
  be started again.
- **Secrets.** A cache filled from a read made before a write; a file that is
  loaded, changed and saved. Correct: between its own commands a manager answers
  what its providers hold; the file keeps what was stored.
- **Health, monitoring, errors.** Results that come after the timeout; a list
  replaced by a merge of itself with an older answer; objects that pass from
  request to request. Correct: a response is true of its own subject.
- **Lifecycle, migrations.** Stops with limits of time of their own, in sequence;
  statements that are committed one by one. Correct: nothing is closed under
  work that uses it, a stop ends; what is recorded was done.

## 2. The modules

Each component has a module. An operator is named after the function it models.
Three conventions: a section under one mutex is one action; code that runs with
no lock held is split at its blocking or shared steps, with a program counter
per goroutine; definitions whose names have a suffix and whose comment begins
"Mutated form" are plausible bugs, used only to see that a property notices them.

**CircuitBreaker.** `cb` is the structure under `cb.mutex`; `admitted[c]` is the
generation a running call `c` remembers between `beforeRequest` and
`afterRequest`. `currentState`, `setState`, `toNewGeneration`, `onSuccess` and
`onFailure` are functions from breaker to breaker, composed in the order of the
code. Time is kept as the number of ticks until `expiry`, so it needs no bound;
a zero expiry ("no deadline") stays distinct from a passed one. `ReadyToTrip`
is a parameter, as in the program. `MaxGeneration` and `MaxCount` bound
exploration: no new call or read moves the breaker on past them.

**KinesisBuffer.** `pc[e]` places the request that carries event `e` in
`BufferEvent`; `held[f]` is what a running flush took and has not published,
for each flusher: a request (whose buffer was full), a worker, or the goroutine
`flushAll` starts for a tenant. `jobs` is the channel. A flush publishes a batch
or fails; failing, it hands that batch to the dead letter queue and lets the
others go (`abandoned`). A failing publish is open: it covers Kinesis, the
timeout and an open breaker. Buffers are sets: a batch is any `maxBatchSize` of
them, an over-approximation of the order in which the code takes them.
`SendToDLQ` is atomic here and has its own module; the queue is taken to be
configured.

**EventJourney** is the abstract specification of an ingestion buffer: an event
is outside, inside or settled, enters and leaves once, and its request gets one
answer that agrees with its place. `KeepsItsPromise` is the instance of it with
`place` computed from the buffers, flushes and outcomes.

**DeadLetterQueue.** `local` is `localBuffer`, `sqs` the set of messages in the
queue, and each caller of `ProcessRetries` has the local batch it took, the
messages it received and the one it handled but has not deleted. A received
message stays in `sqs` until its delete succeeds, so redelivery and copies need
no state of their own. A send that reports an error may have been delivered.
`Decodable` selects the events whose message `json.Unmarshal` can rebuild. Both
branches are in the code and are modelled; in the program as it stands the event
is an interface field, and `Decodable` is empty (finding 3).

**BatchProcessor.** `mu` says whether `Start` or `Stop` holds the lifecycle mutex;
`pc[s]` places the goroutine of stream `s`; channels and batches are sequences.
The read of the channel map without the mutex is a step of its own: if it
overlaps the insertion by `Start`, the Go runtime may end the process
(`crashed`).

**ClickHouse** has the inserts of `internal/storage/clickhouse.go` that the
consumer calls, by what they store, what they report, and what becomes of their
connection. Spans and log records never pass the type assertions of
`AppendSpanToBatch` and `AppendLogToBatch`, so a batch insert of them fails after
`PrepareBatch` and is dropped without `Send` or `Abort`: the connection stays
with it (`kept`). Protobuf metrics are only counted. Of the single inserts
`InsertTrace` stores; `InsertMetric` and `InsertLog` want a `json.RawMessage` and
get `[]byte`. **KinesisConsumer** extends it. A record is its position in the
first shard of its stream, which is the only one the code reads; `iterator[s]`
moves as soon as `GetRecords` returns, `batch[s]` is what is left to insert.
`batchInsert` and `singleInsert` select the insert by stream, `processBatch` and
`processRecordDirect` are the steps of a goroutine. `Exit` is the end of the
process, `Crash` may come at any time.

**RateLimiter.** `buckets` are the buckets ever made, `limiters` the map; a call
looks its bucket up (`getLimiter`) and uses it later (`Allow`), one limiter of its
chain after the other. `ChainGRPCInterceptors` and `RestChain` are the chains of
the two APIs. Tokens are computed on use, as in `golang.org/x/time/rate` (external).
Of one observed limiter and client the auxiliary `credit` counts what they may
still be given from an arbitrary moment on.

**Ingestion.** A request is a sequence of items by one of four paths: the three
`Export` services, item by item behind the validator with its counter, and the
HTTP handlers. `copies[r][i]` counts how often an item was handed over. Only
traces by gRPC go to the buffer, which takes a second token from the same bucket;
metrics, logs and HTTP publish directly through the stream choice of the Kinesis
client. A client that is refused sends the whole request again.

**ConfigDecode**, **ConfigSections** and **ConfigManager.** The first has the decode
hooks and validators over settings reduced to what their text parses as; the
second the fields, defaults, limits and `Validate` of all thirteen sections; the
third `NewManager`, `Reload` (fetch, plan, swap, store) in any number of
goroutines, the watchers that coalesce into a debounced reloader, and the
goroutine per notification. `shared` is the memory that the defaults hand out and
decoding writes into.

**SecretsSetup** and **SecretsManager.** The first says which providers the server
and each command of the tool end up with, and which operations a command is; the
second has the operations, split wherever no lock is held: look in the cache,
read the providers in order, cache the result; load, truncate and write the file;
create, fail, update in AWS. `excused` marks a cache entry whose reader overlapped
a change or met a failure, and `ledger` is what the file should amount to.

**HealthService**, **DatabaseMonitor**, **ErrorHandler** and **Migrations** are
`PerformHealthCheck` with its goroutines and its bounded channel; the list of
running queries and the loop that merges it with the server's; the errors that
go through `errorPool` and the slices of `logFieldPool`, whose entries are read as
another type than they are put in as; and the runner that reads what is recorded,
executes each statement of the next migration, and records it.

**Lifecycle.** `main` is where `main` stands in starting and stopping either
process; `server[s]` the goroutine that serves HTTP, gRPC or the shards; `work[w]`
a request or poll it runs. `Shutdown` and `Stop` wait for work until their time
runs out (`overdue`). `waits` says whether the gRPC library, told to stop by force
while a graceful stop waits, lets that one return before its handlers do: both are
possible.

**Server**, **Progress** and **Delivery** put several components into one
specification. The parts of one such module share no state in the program: their
steps commute, so every property of a part holds of all interleavings if it holds
of the part's own behaviours. A behaviour therefore picks a `focus` and runs that
part, with the others at their start. Server has the breaker, rate limiters,
ingestion, health, errors, monitor, migrations and secrets; Progress the buffer,
consumer, breaker, process and batch processor, with fairness; Delivery the dead
letter queue, batch processor and consumer. **Pipeline** has the instances of the
batch processor and the consumer, and their properties, for Progress and Delivery.
All four leave the constants open; **MCServer**, **MCProgress** and **MCDelivery** give
them values for TLC. Where parts do meet, one module has them: the limiter and the
answers of the buffer in Ingestion, the inserts in KinesisConsumer, the buffer's
promise in EventJourney. **Ascending** picks positions out of a sequence in
increasing order, as the loops that build batches do.

## 3. The runs

| Run | Checks | Instance and why it is enough |
|---|---|---|
| `requests` (MCServer) | breaker: `RequestsAccounted`, `HalfOpenAdmission`, `ClosedBelowThreshold`, `OnlyTrialCloses`, `StaleResultIgnored` | three calls, two trials, trip at the second failure in a row, five generations. Closed, open, half-open and back, with a call of the first generation answering in any later one, and more callers than trials |
| | rate limiters: `RateKept` | two goroutines of one client on two routes that share the router's limiter, three buckets, two units of time, one change of settings: a bucket is dropped while a goroutine holds it |
| | ingestion: `SuccessIsTrue`, `OncePerAttempt` | two requests, each of six offers by all four paths, two attempts, a bucket of three tokens, one failing publish; streams named, unnamed or missing; with and without buffer and dead letter queue |
| | health: `HealthTold` | every subset of three dependencies, the time ending anywhere |
| | errors: `OwnError` | three requests, so that the third may get the first one's error from the pool |
| | monitor: `NothingEndedIsListed` | two callers, two ids, one process of the server's |
| | migrations: `RecordedWasRun` | two runners that run twice, one file of two statements |
| | secrets: `Coherent`, `FileKept` | two goroutines of a server and the tool, all on AWS or all on the file, two values written, one failure |
| `live` (MCProgress) | `KeepsItsPromise` (refinement), `BufferDrains` | three events of one tenant, batch of two, so a lone event never asks for a flush |
| | `EventuallyRead` | the log stream with two records, a restart, a pool of one connection |
| | `BreakerRecovers` | the breaker of `requests`: as many trials as failures to trip |
| | `OpenWhileServed`, `ShutdownCompletes` | either process, two pieces of work, two signals, every call of the start-up failing |
| | `BatchesFlushed` | one stream, three events, batch of two |
| `delivery` (MCDelivery) | `Custody`, `ExhaustedAfterRetries` | three events (one decodable), local buffer of one, two retries: eviction, put-back over the limit, redelivery after a failed delete, retries used up |
| | `BatchCustody`, `InOrder`, `CleanStop` | two streams, four events, batch of two, two attempts, restarts, cancellation |
| | `Accounted`, `StoredUntilDry`, `Duplicates`, `CleanStop` | two trace records and one metric, each of any format, a restart, a pool of two connections and one outage: a fallback of two records with the first failing, a batch of mixed formats, a pool that runs dry |
| `buffer_tenants` | `TypeOK`, `SingleCustody`, `AnswerIsTrue`, `FinalFlush` | four requests, two tenants, a worker, a job channel of one, buffers of two with batches of one: full buffers, dropped jobs, two-batch flushes, flushes of one tenant by three parties at once. Events of one tenant are symmetric |
| `config` | `TypeOK`, `RestartSafe`, `Converges`, `SubscribersConverge` | three environments (loadable, with a version, and with two equal ports that the whole rejects), two providers, a caller of `Reload`, a subscriber, two changes |
| `breaker_trials` | refutes `HalfOpenSettles` | one trial, two failures to trip, the settings of `TestCircuitBreakerHalfOpenState` |
| `buffer_loss` | refutes `NoDataLoss` | two batches, the first fails |
| `dlq_undecodable` | refutes `RetriedBeforeLeaving` | `Decodable = {}`, as in the program |
| `batch_stop` | refutes `NoCrash` | one stream, so that the crash is not the map race |
| `config_immutable` | refutes `SnapshotImmutable` | the environments of `config`, no callers |
| `export_throttle` | refutes `LimiterSkipsItems` | one request of two spans, a bucket of three tokens |
| `error_pools` | refutes `AnsweredAsRaised` | two requests that abort |

Each composite run also checks `TypesOK`, the type invariants of its parts.

Bounds that the code does not have are `MaxGeneration`, `MaxCount` (breaker),
`MaxTime`, `MaxBuckets`, `MaxConfigs` (limiters), `MaxAttempts`, `MaxRefills`,
`MaxFailures` (ingestion), `MaxRecords`, `MaxStarts`, `MaxOutages` (consumer),
`MaxSignals` (lifecycle), `MaxRuns` (migrations), `MaxWrites`, `MaxMishaps`
(secrets, whose own module calls the latter `MaxFailures`), `MaxChanges`, `MaxCalls` (configuration), `Slots` (errors), the finite
sets of events, calls and requests, and the saturation of two history counters
(`attempts` of the dead letter queue at one past the limit, `rows` at two, which
is all "twice" needs). An event set bounds how often `BufferEvent`, `SendToDLQ`
and `PublishAsync` are called: each event comes once. In the limiters
`RefillAssumption` says that a bucket idle for `maxIdleTime` has filled up again,
as half an hour does at the rates and bursts in use; without it the clean-up would give a client more
than its rate.

### Fairness

Safety is checked without fairness, or with a fairness that safety does not use.
Liveness assumes:

- breaker: time passes, calls arrive, and an admitted call returns. The calls
  made through it end with a deadline or their connection; their results are
  not constrained. Without traffic an open breaker would stay open, since only
  a call or a read of the state moves it;
- buffer: running requests, flushes and workers are scheduled, and the ticker
  fires. Go's `select` picks a ready case at random, so a flush loop that finds
  both the ticker and the closed channel ready stops in the end: strong fairness
  of that one choice. Nobody must send or call `Close`;
- batch processor: goroutines are scheduled, `PutRecords` and the back-off timer
  return; reading the channel competes with the ticker in a `select`, hence
  strong fairness;
- consumer: the ticker fires, Kinesis does not hide available records from every
  poll, database calls return. No record must arrive, and the process need not
  start. Expiry of the iterator is an escape in `EventuallyRead`, not assumed
  away: a goroutine whose iterator expired polls in vain for ever, because only
  `Start` makes an iterator;
- lifecycle: `main` and the goroutines are scheduled, the limits of time pass, and
  a handler whose connection or context was ended returns. Other work may go on
  for ever;
- configuration: goroutines are scheduled, tickers and the debounce timer fire. The
  environment need not change, and nobody must call `Reload` or subscribe.

In Progress the fairness is that of the part in focus; the others take no step.

## 4. Where the code and its text disagree

1. `breaker_trials`: `internal/config/circuitbreaker/doc.go:36` says any failure
   in the half-open state goes back to open. A failed trial only counts; the trip
   condition decides. When all `MaxRequests` trials fail below it, the breaker
   stays half-open, refuses every call and has no deadline. The defaults of
   `NewCircuitBreaker` (one trial, more than five consecutive failures) are such
   settings; those of `internal/app/resilience.go` (a hundred trials, a rate over ten
   requests) are not, as long as the rate can be exceeded.
2. `buffer_loss`: `docs/RESILIENCE_ARCHITECTURE.md:5` promises no data loss.
   `flushTenantBuffer` empties the buffer and returns at the first failed batch;
   the later batches were acknowledged and are gone.
3. `dlq_undecodable`: line 150 of the same document has every failed event
   retried. A message decodes into an interface field, which `json.Unmarshal`
   cannot fill, and an undecodable message is deleted.
4. `batch_stop`: `Start` and `Stop` are called idempotent
   (`batch_processor.go:446`). A `Stop` that times out leaves `isRunning` set and
   the channel closed, and the next one panics.
5. `config_immutable`: `internal/config/manager.go:33` calls a snapshot immutable.
   The default version and the CORS lists are handed out themselves, decoding a
   setting writes into them, and so into every published snapshot that has them,
   even if the load is then rejected.
6. `export_throttle`: `internal/grpc/trace_service.go:98` skips a span that the
   limiter refuses and goes on. The buffer takes a second token from the same
   bucket for each span, and its refusal fails the whole request after the spans
   before it were buffered; the client sends them again.
7. `error_pools`: `internal/handlers/trace_handler.go:201` documents a 404 with its
   code. `logError` puts a pointer to a slice into `logFieldPool` and takes a
   slice out (`pkg/errors/middleware.go:101`), so an error answered after another
   panics and becomes a bare 500.

Seen while modelling, with no run of their own:

- A batch of traces or logs that the inserts refuse keeps its connection; after
  `MaxOpenConns` such polls nothing is stored any more (`StoredUntilDry` is stated
  up to there).
- The consumer stores traces only, although `InsertMetricProtobuf` is described as
  inserting metrics (`internal/storage/clickhouse.go:473`).
- `StartRetryProcessor` stops its ticker as it returns: no retry is ever made.
- Streams without a name are skipped by the check at the start, and what goes to
  them is lost with a log line only.
- The metric and log services answer with success when an item could not be
  published. The count of rejected spans in a trace answer counts resource spans.
- Only traces by gRPC have a dead letter queue behind them, though
  `docs/RESILIENCE_ARCHITECTURE.md:145` shows one on the direct path.
- The access log of the HTTP API reads an error after the middleware released it.
- Of the server's other clients, queries that ended stay in the monitor's list:
  the merge drops none of them. `NothingEndedIsListed` is about wrapped queries.
- `HTTP_MODE` and `FEATURES_EXPORT_FORMATS` cannot be set by text: no decode hook
  makes their types. Ports wrap modulo 2^16 where they are decoded.
- `init` of the secrets tool takes a failing read for a missing secret
  (`cmd/secrets/main.go:405`) and writes over it.

## 5. The proofs

Every invariant and every action property of the passing runs is also a theorem.
A theorem holds for every value of the constants that satisfies the named
assumption of its module; TLC evaluates those assumptions on the instances. In
each part one inductive invariant is proved, and the theorems about the part follow
from it. What the composition modules promise is then carried over: `ServerOfParts`,
`DeliveryOfParts` and `ProgressOfParts` show that a behaviour of the composition is
one of each part (the part in focus steps, the others stutter), and `ServerKept`,
`DeliveryKept` and `ProgressKept` collect what holds of the whole.

**CircuitBreakerProofs** (`BreakerAssumption`: finitely many calls, settings that are
numbers; any trip condition). The invariant a proof by induction needs is more than
`RequestsAccounted`: if a call could carry a generation the breaker has yet to
reach, then starting that generation would find a call in flight that its zeroed
counts do not have. `Consistent` adds that no call is ahead of the breaker and
that generations are positive (`NotRunning` is zero). Each method of the breaker
has a lemma: it either keeps the generation and accounts for the one request it
counts, or starts a generation with nothing in flight. From `Invariance` follow
`TypeCorrect`, `Accounting`, `HalfOpenBound` (which adds that a half-open breaker
has had no success and no more than `MaxRequests` requests), `StaleResults` and
`TrialsClose`. `BelowThreshold` needs `TripsOnFailure` of the trip condition: only a
counted failure makes it true. A threshold on consecutive failures, the default of
`NewCircuitBreaker` and the condition of the runs, is such a condition. The one
that `internal/app/resilience.go` sets is not: it asks for ten requests and a rate
of failures, and `beforeRequest` counts a request without asking it, so that
breaker may stay closed above its rate until the next failure.

**ProgressProofs** has the buffer, the start and stop of a process, and the whole of
Progress.

- *Buffer* (`BufferAssumption`: the three kinds of flushers are distinct and sizes
  positive). `SingleCustody` says where events are, `AnswerIsTrue` what requests
  were told; neither is inductive. `RequestInv` connects them: a request's position
  says whether its event has entered. `FinalInv` is the argument for the drain: a
  tenant with an owed event is still to be scanned or flushed in the final round,
  because events acknowledged before `Close` can only leave a buffer, and those a
  request adds later are not owed. `Custody`, `Answered` and `Drained` follow, and
  `Implements`: every step of the buffer is a step of `EventJourney` or a stutter.
  The lemmas about what appending, taking and settling do to `Nowhere` carry all of
  them.
- *Process* (`LifecycleAssumption`). `Stages` says for each step of the stop which
  servers are down by then, `Halted` being no work or no time left. `ClosedLast` is
  `OpenWhileServed`.

**PipelineProofs** (`PipelineAssumption`: `ProcessorAssumption` and
`ConsumerAssumption`) has the two users of Kinesis.

- *Batch processor.* `LinesInv` is the argument for `Custody` and `InOrder`: of each
  stream, what was acknowledged, the batch and the channel stand in one line, and
  the line is a part, in order, of what `PublishAsync` accepted. The lemmas about
  `InLine` say what appending, moving from channel to batch, acknowledging a part
  of a batch and giving it up do to such a line, of any length. `MutexInv` ties the
  holder of the lifecycle mutex to `isRunning`; `GoroutineInv` says that a goroutine
  that ended has emptied its batch, and that a full batch is being flushed.
- *Consumer.* `PassedBy` is `Accounted` for every position behind the iterator, with
  the batch in hand as one of the places a record may be; `BatchInOrder` keeps a
  batch increasing and behind the iterator, so that a record in it is not also
  ahead; `StoredOnce` says that in the first run of an open shard a stored record is
  behind the iterator and out of the batch, which is `Duplicates` made inductive;
  `MissingInv` charges each missing trace to an outage. The batches are made with
  `Ascending`, a filter that picks positions in increasing order without recursion:
  `SelectSeq` is defined by recursion, and nothing could be proved of it.

**DeliveryProofs** (`QueueAssumption`) adds the dead letter queue, for any `Decodable`.
Several callers may hold copies of one message, handle them in turn and delete
them all; that no event vanishes needs a measure. `HandledInv`: a caller's handled
message is settled, or its event is queued with strictly more retries, so among the
copies of an event one with the most retries is never about to be deleted.
`RetriesInv` bounds a message's retries by the attempts its event really had.
`NothingVanishes` (`Custody`) and `EveryRetryTaken` (`ExhaustedAfterRetries`) follow.
`RoomInv` gives `LocalBounded`: a caller that still holds a local batch has not used
the place that the limit allows it beyond, so the buffer outgrows its limit by one
event for each caller and no more.

**IngestionProofs** (`IngestionAssumption`: offers have the shape of requests).
`Told` is inductive where `SuccessIsTrue` is not. It says of a request at any item
that those it has passed and nobody has are counted as rejected, or on record as
logged; the items ahead are no part of it, and a resent request starts over with
the copies it has. `Once` makes `OncePerAttempt` inductive: an item not yet reached
has fewer copies than there were attempts. `Counted` ties each validator's counter
to the requests that are in it, which keeps it between zero and its limit.

**SecretsProofs** (`SecretsAssumption`: goroutines belong to processes, a tool has one,
every process has at least one provider).

- *The cache.* `Coherent` needs to know what a read under way will put into the cache.
  `Reading`: if nothing overlapped a command that is going through the providers,
  those it has passed still have nothing. `Caching`: what it is about to cache is
  then what a lookup finds now. Both survive the changes of others because a change
  marks every command and entry whose lookup moved. That a delete in one store
  cannot uncover the same value in another needs `StoresApart`: values are numbered
  by the writes, and two stores, with what is about to be saved to the file, have
  none in common.
- *The file.* `FileLedger`: as long as no operation was cut short and no two processes
  were at the file, at most one process has its mutex, and what that one is about to
  write is the ledger with its own change.

Proving this found two flaws in the model. Loading a file that is torn did not mark
commands and entries whose lookup depends on the file, so a cached value was called
stale without an excuse; `LoadFile` now marks them as the other changes do. And the
assumption let a process have no providers, for which a read has no first step.

**ServerProofs** (`InstancesAssumption`: that of each part) has the remaining parts and
the whole of Server.

- *Errors* (`ErrorAssumption`). `OwnsIt`: the error of a request that is being answered
  is in no pool, is no other request's, and has the code it was raised with, from its
  abort to its release. `NobodyElses` is `OwnError`. `Pooling` bounds the pools by
  the requests that gave something back.
- *Migrations* (`MigrationsAssumption`). A runner in the middle of a migration has seen
  all earlier ones recorded (`PassedRecorded`) and all statements before the next
  executed, by itself or another (`Applying`). `WholeMigrations` is `RecordedWasRun`.
- *Health* (`HealthAssumption`: the channel has room for every dependency). `ResultsWait`:
  what waits in the channel is what an ended check found, once per check, and was
  not told before; `Tallied`: what is in the channel and what was collected make up
  the ended checks, and what was collected was told. So an answer that waited for
  all is true of all, and a late check never blocks. `HealthTruth` is `HealthTold`.
- *Monitor* (`MonitorAssumption`: ids of the application's are none of the server's). The
  merge adds processes of the server only. `ListingTrue` is `NothingEndedIsListed`.
- *Rate limiters* (`RefillAssumption`, `ChainsAssumption`). `RateKept` needs more than
  that the credit covers the tokens of the observed bucket: the clean-up may drop
  that bucket, and the next request starts a full one. `Covered` adds that the credit
  covers the part of a full bucket which the time unused has earned, in proportion;
  when the bucket may be dropped, that part is all of it. `Held` makes the bucket in
  a caller's hand the one in the map, `OnePair` gives each bucket one owner, `SetAs`
  the settings of its owner. `NoneTooMany` follows.
- *Secrets.* `Manager` is SecretsProofs with the names of Server. `ManagerSame` shows that
  it talks about the same manager as `Secrets`, definition by definition, and
  `SecretsTrue` and `NoSecretLost` carry the theorems over.

**ConfigManagerProofs** (`ConfigAssumption`: at least one provider, and no settings are
mistaken for the absence of a snapshot). That what the pointer holds would load in a
new process is not obvious, because loading writes into the defaults that the next
load reads: what was accepted was accepted over other defaults than a new process
has. `DecodeOnly` shows that the shared defaults decide no section's decoding and
change only their own fields; `LookedNames` that neither `Validate` nor `validateAll`
looks at any of those fields; `LoadableAnyway` puts the two together. The invariant
then says that a plan on its way to the pointer loads over the defaults of a new
process. `MergeOfSettings` shows that a merge finds the last layer of each key.
`RestartsSafely` is `RestartSafe`, `ConfigTypes` is `TypeOK`. A field added to
`SharedKeys` that `Validate` looks at would break the proof, and the property.

Only model-checked are the liveness properties: `BufferDrains`, `EventuallyRead`,
`BreakerRecovers`, `ShutdownCompletes`, `BatchesFlushed`, `Converges` and
`SubscribersConverge`. The prover has no rules for `WF`, `SF` and `ENABLED` here, nor
for induction over data: nothing is proved about what a recursive definition
computes, and the modules have no `RECURSIVE` operator.
The theorems about specifications that state fairness do not use it.

## 6. Not modelled

Formatting, SQL, partition keys, logging and exported metrics; compression, CORS
and query handlers, which are stateless; generated documentation, examples, the
query tool and the chaos harness. `PROJECT.json` gives the reason for each
component. Within the modelled ones:

- a Kinesis buffer without a dead letter queue (`kinesis_buffer.go:288`): the first
  failed batch ends the program, and there is nothing more to state;
- `StartRetryProcessor`, whose loop never runs: the calls of `ProcessRetries` are
  made directly;
- a batch of which some publishes succeed before another fails
  (`kinesis_buffer.go:554`) is one failed batch. Its events go to the dead letter
  queue, which may publish them a second time: nothing promises "once";
- the inserts of the real-time handler, which nothing calls, and the parsing of
  `clickhouse.go` that no input reaches; `rows.Err` of the queries;
- `GlobalRateLimiter`, `AdaptiveRateLimiter`, `AllowN`, `Wait` and `Reserve`, which
  only tests call;
- route verification, a sequential check at the start; the recovery window of a
  deleted AWS secret; Vault, a placeholder that always fails;
- the end of the context given to the configuration manager's watchers: nothing is
  promised after it;
- service metrics: gauges that nothing reads back. Its tracker deletes under a read
  lock, a data race that no other component observes.

## 7. Plan

1. Abstract specifications with a refinement proof, as the buffer has: the breaker
   as a gate that admits, trips and tries again; the dead letter queue and the batch
   processor as journeys of events that end in a known place; the configuration
   manager as a register that holds loadable settings only.
2. The steps that liveness rests on, as safety: that a step which must be taken
   stays possible until it is (a flush that is owed, a retry that is due, a poll).
3. `NothingEndedIsListed` for the queries of other clients, if the merge ever drops
   them; a stop of the process that is ordered across the buffer and the batch
   processor in one specification.
4. Route verification and the service tracker.

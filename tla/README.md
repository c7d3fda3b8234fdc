# PulseAnalytics: a verification project

TLA+ models of the concurrent and failure-prone parts of PulseAnalytics, TLC
runs that check them on small instances, and TLAPS proofs of their main
properties for instances of any size. Everything is translated from the Go
source; `PROJECT.json` names the lines behind every definition.

## 1. The system

PulseAnalytics collects events from client SDKs, cuts them into sessions and
funnels, stores them in ClickHouse and answers queries about them.

    SDKs -> gateway -> raw-events -> enricher -> enriched-events -> session engine
         -> session-events -> { CH-Writer -> ClickHouse, funnel processor, notifications }
    query API -> L1 cache -> Redis -> singleflight -> bulkhead -> breaker -> ClickHouse
    alert engine -> ClickHouse, webhooks          auth service -> Postgres, Redis

The repository holds two generations of it: a monolith of `cmd/*` and
`internal/*`, and one directory per service with `shared/pkg`, which repeats
`internal`. The models follow the first. Where a service of the second differs:
`session/internal/service` measures gaps with `time.Now()` instead of
`ServerTime`, so the stamps that are out of order in `SessionService` are in
order there; `chwriter/cmd/main.go` also stops its writer twice (51, 87).

### Components

| Component | State | Operations | What makes it correct |
|---|---|---|---|
| Bulkhead `internal/bulkhead` | a global channel of tokens, one per tenant, a counter | Acquire, Release, Do | no token leaked or returned twice; limits never exceeded |
| Circuit breaker `internal/circuitbreaker` | state, counters, time of opening | Execute (allow, record), State, Reset | moves only on evidence; recovers |
| Query service `internal/querying` | L1, Redis, singleflight, breaker, bulkhead | EventCount, Funnel, DAU, Retention, background refresh | queries only under a slot; bounded staleness; one query per key |
| L1 cache `internal/cache` | entries, insertion order, revalidating marks | Get, Set, Delete, eviction | never serves expired data; one refresh at a time; marks do not outlive refreshes |
| Batch writer `internal/clickhouse/writer.go` | channel, batch, pending counter, ticker | Write, loop, doFlush, Stop | bounded; in order; nothing stranded; Stop ends |
| CH-Writer `cmd/chwriter` | Kafka position, writer | handler, shutdown | what a committed offset vouches for |
| Kafka loops `internal/kafka` | position, commits; producer buffer | ConsumeLoop, ConcurrentConsumeLoop, Publish* | order per partition; no commit ahead of the work |
| Session engine `internal/session`, `cmd/session` | one Redis value per device with a TTL | Process | starts and ends pair up; no gap inside a session |
| Gateway `cmd/gateway`, dedup, rate limit | Bloom filter, Redis bucket | ingest, track, identify | accepted events are published; duplicates are not; limits hold |
| Enricher `cmd/enricher` | none | Enrich | order per device |
| Funnel processor `internal/funnel` | a Redis sorted set per user and funnel | Process, UpdateFunnels | conversion only if all steps occurred in order in the window |
| Auth `internal/auth`, `cmd/authservice` | Postgres keys, Redis cache | ValidateAPIKey, rotate, tokens | a rotated key stops working within a bounded time |
| Alerts, notifications | cooldown keys | evaluate, dispatch | once per cooldown |
| Hash ring `internal/consistent` | sorted positions, owners | Add, Remove, Get, GetN | total, stable, distinct replicas |
| SDKs `sdk/go`, `sdk/js` | queue | track, flush, close | nothing queued is lost silently |

The rest (configuration, metrics, tracing, validation, GeoIP, storage clients,
CRUD handlers, SQL text, frontend, deployments) keeps no state a property would
be about; `PROJECT.json` lists it with the reason.

### What is hard here

Goroutines share channels, atomics and mutexes at a fine grain (bulkhead,
breaker, writer). Kafka offsets, memory and ClickHouse change at different
moments, and a process may end between them. Redis may fail or expire while
events arrive late, out of order or twice. Several pods share Redis and
Postgres and keep caches of their own. `PROJECT.json` lists each hazard at its
line, with the properties that would catch it or the reason none does.

## 2. Modules

    Goroutines ----- Bulkhead --------- QueryGuard ---- MCQueryGuard
              \----- CircuitBreaker ---/
    SlotPool (abstract) <= Bulkhead
    BatchWriter ---- ChWriter --------- MCChWriter
    SessionEngine -- SessionService --- MCSession
    EventIds ------- GoSdk ------------ Ingest -------- MCIngest
            \------- DedupFilter - Gateway -/
    L1Cache -------- QueryCache ------- MCQueryCache
    RateLimiter ---- Tenancy ---------- MCTenancy (also MCLateClock.cfg)
    ApiKeys -------/
    Enricher ------- MCEnricher
    Relay (abstract) <= ChWriter, Enricher
    <Module>Proofs: the theorems about <Module> and its parts (QueryGuardProofs:
                    bulkhead, breaker and guard; SessionProofs: engine and service;
                    ChWriterProofs: writer and process); Relay holds its own

**SlotPool** says what a bulkhead promises: `Grant` and `Return` of slots under
two limits. **Bulkhead** implements it: a channel of empty structs is its
length; `Acquire` is `ReserveGlobal` or `RefuseGlobal`, then `EnterTenant` or
`RefuseTenant`, then `CountIn` or `ReturnGlobal`; `Release` is `LeaveTenant`,
`LeaveGlobal`, `CountOut`. Each is one channel operation or one atomic, and
callers interleave between any two. A caller holds a slot, in the sense of the
pool, from the send on its tenant's channel to the receive from it.

**CircuitBreaker** has one action per critical section: `Admit` and `Reject`
are `allow`, with the lazy move to half-open inside; `RecordFailure` and
`RecordSuccess` are `record`; `ReadState` and `Reset` are `State` and `Reset`,
which no service calls. The caller is in `calling` between `allow` and
`record`. Counters saturate at `CountCap`, above which nothing tests them; time
is the age of an open state in ticks.

**QueryGuard** composes the two as `execEventCount` does, `bh.Do` around
`chBreaker.Execute` around the query: a caller asks the breaker only with both
tokens in hand and starts to return them only when `Execute` has returned. The
query ends in success or failure as it likes. The history variable `trail`
keeps what the breaker saw since it last changed state.

**BatchWriter** is `Writer`: the channel `ch`, the goroutine's batch `buf` and
the row it has received and not yet counted, `held`; `pending` is moved by
`CountSent` and `CountReceived`, steps of their own as in the code. `Receive`,
`DrainReceive`, `DrainEnd`, `TakeTick`, `SeeClosed` and `Flush` are the places
where `loop` can be. The soft limit's error is left out because its only caller
ignores it.

**ChWriter** puts it into its process: `ConsumeLoop` (`CheckContext`, `Poll`,
the handler, `HandledAll`, `Commit`), the ticker, and the main goroutine
(`Signal`, `StopCloses`, `StopReturns`, `DeferredStopPanics`). Between the last
two run the deferred `Close` of producer and consumer, which change nothing the
model has but may hang (see Fairness below). An insert stores
its batch or loses it, a commit may fail, and the process may be killed at any
step; the next one resumes at the committed offset. `gone` collects the rows
the code loses: dropped by a full channel, in a failed insert, or committed and
in memory when the process ended. One partition and one shard:
`NewShardedWriter` hands rows to its only writer then.

**Relay** says what a service promises that hands the records of a partition on
to a sink: it reaches them in order and takes, skips or drops each (`Take`,
`Skip`, `Drop`), later hands some on or gives them up (`HandOn`, `GiveUp`),
commits nothing it has not reached (`Commit`), and on a `Restart` goes back to
the committed record, losing of what it holds what is committed. **ChWriter**
implements it with a record reached when `Write` has sent it, held while in
memory, and done when ClickHouse has it; **Enricher** with a record reached when
the loop has sent it to the workers, and done when it is in enriched-events. The
committed offset vouches for the same in both: `RelayAccounts`.

**SessionEngine** is `Process` on one device's Redis value: load (failing or
not), time out, start, end, save (failing or not). A call is one step, since
one goroutine handles a partition. `SessionTick` is Redis expiring the key.
`started`, `ended`, `members` are what Process has returned so far, `forgotten`
the sessions whose last state left Redis, or never reached it, unended. **SessionService** runs it as `cmd/session` does: events are
stamped by the gateway and appended up to `MaxDelay` ticks later; the consumer
may lag, commit after any record, crash and replay; records are published
through a producer's buffer, `outbox`, that sends in order, may give a record
up and is lost in a crash. A crash between `Process`'s save and the publishing
loses what a crash right after the publishing loses, so the two are one step.

**GoSdk** is the client's queue and its goroutines: `Track` appends under the
mutex and flushes outside it when the batch is full, `Flush` takes the queue,
`CallClose`, `LoopStops` and `JoinReturns` are `Close` waiting for `flushLoop`.
A sender is in `posting` from the unlock to the return of the HTTP call, with
the `batch` it took.

**DedupFilter** is `TestAndAdd` lock by lock: `Seen` or `TestNew` under the read
lock, `Add` under the write lock, with other handlers and `Rotate` in between.
The Bloom filter is the set of ids added; once it holds any, it may answer
"known" for an id it does not hold. `admitted` counts, per id and window, how
often the filter said "new". **Gateway** puts it into the handlers
(`HandleIngest`, `HandleTrack`, `HandleIdentify`), which test the events one by
one (`FilterFinds`, `FilterMisses`, `FilterAdds`), publish what is new as one
record, and answer. The producer's `buffer` sends in order (`Deliver`) or gives
up (`GiveUp`); `Shutdown` and `Restart` are main's flush before `srv.Shutdown`,
and the end of the process whether orderly or not. **Ingest** composes SDK and
gateway over an HTTP exchange: `Receive` starts a handler for a batch, `Reply`
is its 202, `PostFails` a refusal, a lost request, a lost answer or a timeout,
of which the handler knows nothing.

**L1Cache** has an entry's ticks to expiry and its value's age, counted from the
start of the query that computed it, the insertion `order` and the revalidating
`mark`. `Set`, `Delete`, `DeleteExpired` (`Get`'s second lock), `Mark`
(`LoadOrStore`) and `Janitor` are its critical sections. **QueryCache** is an
endpoint around it: `Lookup`, `RemoveExpired`, `ServeStale`, `ReadRedis`, `Fill`,
the flight of `singleflight` (`FlightStoresL1`, `FlightStoresRedis`,
`FlightFails`) and the background refresh of `EventCount` (`Refresh...`), with
other pods writing to the same Redis (`OtherPod`). The four endpoints have the
same shape, written out four times in the source; the map names one of them for
each definition. A read and what follows it are separate steps, so a value
may be stale when it is used.

**RateLimiter** is the Lua script: the bucket's tokens, the age of its stamp and
the keys' time to expiry; `Take(late)` runs it with a clock reading `late` ticks
old, `FailOpen` is a call that fails before or after the script. `meter` is the
leaky bucket of the textbook, filled by every request that passes. **ApiKeys**
is the app's row in all its versions, what each replica has seen of it, and the
cache in Redis. **Tenancy** lets requests validate a key (`CacheHit`,
`CacheMiss`, `Fetch`, `StoreKey`), be metered or get a token, while `RowChanges`
rotates, deactivates and replicates. `tokens` has the longest-lived token for
each key and number of exchanges: `IssueToken` and `Login` issue one, `Refresh`
exchanges it for the next.

**Enricher** is `ConcurrentConsumeLoop` with its workers: `Poll`, `Send`, `Commit`,
`LoopEnds`; `Take`, `Skip`, `Publish` per worker; `Deliver` for the producer;
`Signal`, `FlushReturns`, `Return` (with the deferred closes), `Crash`, `Restart`
for the process, whose
memory (`channel`, `hand`, `buffer`) goes with it. `gone` are the records the
producer gave up and those of that memory whose offset was committed; the rest
is polled again.

## 3. Runs

| Run | Instance | Shows |
|---|---|---|
| `query_guard` | 3 callers, 2 tenants, limits 1 and 2, thresholds 2 | 83 thousand states. Tokens accounted, limits kept (by refinement of `SlotPool` too), breaker counters truthful, transitions earned, calls return, an open breaker probes again |
| `ch_writer` | 4 records, 1 malformed, channel and batch of 2, polls of up to 2, 2 processes | 223 thousand states. Order, accounting, no stranded row, the first Stop returns and the second takes no row with it |
| `session` | 3 events, timeout 2, grace 1, 6 ticks, delay 1, 1 failed call, 1 crash | 5.5 million states. Ids started, starts accounted, no gap inside a session, ended for good, ends behind starts, starts close behind their first event |
| `ingest` | 1 application goroutine and the flush loop, 2 ids, 3 calls, batches of 2, 2 handlers, a producer's buffer of 1 | 5.4 million states. Filtered ids and acknowledged events are on their way or among the known losses; duplicates pass once per handler and window |
| `query_cache` | 2 readers, a key of `EventCount` and one of `Funnel`, 2 refreshes, L1 lifetime 3 (stale after 2), L2 lifetime 1, queries up to 1 tick, capacity 1, up to 3 listings | 2.0 million states. Age of whatever is served is bounded, marks have their refresh, the janitor restores the capacity, also with a key listed twice |
| `tenancy` | 1 request, 2 keys, 2 replicas, rate 2, burst 3, lag 2, lookups 1, cache and tokens 2 ticks, 1 exchange | 3.4 million states. Dropped keys and their tokens end in time, an exchanged token one lifetime later, the limit holds when scripts run in the tick of their reading |
| `enricher` | 4 records, 1 malformed, 2 workers, channel and buffer of 1, polls of up to 2, 3 processes | 178 thousand states. Implements `Relay`; every record is settled in the end |
| `half_open` | as `query_guard` | violation: a half-open breaker is stuck after one successful probe |
| `at_least_once` | as `ch_writer` | violation: committed rows missing from ClickHouse |
| `graceful_stop` | as `ch_writer` | violation: Stop panics and loses pending rows |
| `session_end` | 2 events, no failures | violation: a session that expired in Redis is never ended |
| `late_clock` | 2 requests, 1 key, scripts up to 1 tick late | violation: a late script stores an older stamp, and more than the burst passes |

Why the bounds are enough. *Guard*: with three callers and limits of one per
tenant and two in all, a call is refused by either limit while others are in
every other place; thresholds of two let streaks be built and broken, and three
callers overlap a breaker's change of state. *Writer*: capacity two and four
records fill the channel and the batch, drop a row, and leave one behind a full
batch; two processes give one crash and one recovery. *Session*: six ticks let
a key expire (three ticks) and two gaps longer than the timeout pass; three
events open, close and reopen; `2 * MaxDelay <= Timeout` says that events are
delayed by less than a quarter of an hour in the code's units. The assumption
matters: with longer delays a late event that shares its stamp with the first
event of an ended session may start a session with the same id again.
*Ingest*: two handlers with one id race between test and add; three calls of
two ids give a full batch, a repeat and a lone event; with room for one record
the second publication blocks; a restart or a rotation may come at any step, any
number of times. *Query cache*: capacity one and two keys overfill the cache; an
entry is fresh for two ticks, stale for one, then expired; Redis loses its value
before L1 does. `Refresher` bounds the refreshes at a time and `MaxOrder` the
length of the insertion order between two runs of the janitor: with three, a key
is deleted and stored again, and so listed twice, while both keys are live and
the cache is over its capacity, which is where eviction could go wrong. (With an
L2 lifetime of 2 the run passes as well, in 8.9 million states.) `MaxQuery < L1Stale` is an assumption: a query that takes as long as
an entry stays fresh could store a value that is already stale. The background
refresh has a deadline of ten seconds against two minutes and cannot. *Tenancy*:
`MaxTime` is the sum of lag, lookup, cache lifetime, token and exchanged token,
so every deadline is reached in the run; the request races with logins,
exchanges, the script, replicas and the row (two requests at a time, with
`MaxLag` 1 and `MaxTime` 8, pass as well, in 9.2 million states); `MaxLag`, `MaxSet` and `MaxDelay` bound what lies
outside the code: a replica's lag, a lookup's `SetJSON`, and the time from
reading the clock to the end of the script. `Rate <= 2 * Burst` excludes buckets
whose TTL would be zero seconds, which Redis refuses. The pods' clocks agree, and
an app's rate and burst do not change. *Enricher*: two workers overtake one
another, a channel and a buffer of one make loop and workers wait, and two of
three processes may be signalled or crash anywhere.

Deadlock is checked in `query_guard` and `half_open`. In the others the system
may stop: after the last process has ended, when every call has been made, when
the topic ends, or when the clock or a refresh reaches its bound. Whether
readers, workers and producer may wait for each other for ever is checked of the
enricher, as `EveryRecordSettled`, and of the writer and the guard by their
liveness properties.

Fairness. `query_guard`: goroutines are scheduled, clients keep calling, the
clock advances (weak fairness of each caller and of the clock); a query in
flight ends, since the client's context has a deadline. `ch_writer`: weak
fairness of the consumer, the writer's goroutine, main inside `Stop` and the
ticker; strong fairness of the cases of the outer `select`, since Go picks at
random among ready cases. Nothing is assumed of signals, kills, restarts,
inserts and commits, nor of `DeferredStopPanics`: the deferred `consumer.Close`
comes before it, on a client that blocks rebalances from its first poll
(`consumer.go:36`) and is never told to allow them, and may hang.
`StopTerminates` therefore says that `Stop` returns, not that the process ends.
`enricher`: weak fairness of the loop, of each worker, of main, of the
process's end and restart, and of the producer, which settles each record by
delivering it or giving it up; none of signals and crashes, which `MaxStarts`
bounds. Its `consumer.Close` may hang as well: that a signalled process ends
rests on the orchestrator, which kills it after a minute
(`deployments/k8s/enricher/deployment.yaml:22`) and starts another. The other runs check safety only.

Every property of a passing run has a mutant in `PROJECT.json`: a form of one
definition with a plausible bug (a forgotten token, a dropped guard, a missing
reset) under which TLC finds the property violated.

## 4. Proofs

All for arbitrary constants under the named assumptions: `CallersAssumption`
(finitely many callers), `BulkheadAssumption`, `BreakerAssumption`,
`WriterAssumption` (capacities and thresholds are positive numbers),
`ChWriterAssumption` (rows are the offsets of the partition),
`SessionAssumption`, `ServiceAssumption` (timeouts and bounds are numbers, a stamp
is late by at most half a timeout),
`SdkAssumption`, `FilterAssumption`, `GatewayAssumption`, `IngestAssumption`
(finitely many handlers, sizes are positive, the values for "none" are none),
`EnricherAssumption` (capacities are positive, malformed records are records),
`LimiterAssumption`, `KeysAssumption`, `TenancyAssumption` (lifetimes are
positive, `Rate <= 2 * Burst`), `L1Assumption`, `QueryCacheAssumption` (a query
takes less time than an entry needs to become stale).

* `QueryGuardProofs`. The bulkhead: `TokensAccounted` equates channels with
  cardinalities of sets of callers. It is inductive with the type invariant and
  `InsideHasTenant` (a caller past `ReserveGlobal` has a tenant), without which
  the tenant's set would not lose a member when its channel does. Each step
  moves one caller, so each set changes by at most that caller (`CountsByOne`).
  `BulkheadImplementsSlotPool`: `EnterTenant` is a `Grant`, because its caller
  already owns a global token and is no holder yet, so the holders are fewer
  than `MaxGlobal`; `LeaveTenant` is a `Return`; the others stutter. The
  breaker: `CountsMatchState` with the type invariant is inductive, since every
  change of state clears the counts, and in half-open a failure reopens at once.
  The guard: every step is one of the bulkhead and one of the breaker, or a
  stutter of either, so both parts' theorems hold of it. `QueriesHoldSlots`
  follows from token accounting once `calling` and `executed` are known to be
  inside `At({"running"})`. `TransitionsEarned` needs `TrailMatches`: the counter
  that decides in the present state counts the latest entries of the history, so
  that a threshold reached is a streak seen.
* `ChWriterProofs`, of the writer and of its process. Type, pending counter and
  drained stop
  are inductive together; the service restarts the writer only in its initial
  state, so they hold over any number of processes. For order and accounting
  the rows in memory are one sequence, `Pipeline`: the loop's steps leave it as
  it is (`PipedReceive`, `PipedCollect`), `Send` appends to it (`PipedSend`), an
  insert cuts off its front. `OrderInv` says that it rises from above `flushed`
  up to `Reached`, the last offset handled or being handled (`handled + sent`);
  `FateInv` that every row up to there is stored, in memory, gone or malformed.
  Both need `KafkaInv` (where `Write` is between send and count, nothing else
  of the handler moves) and `BatchInv` (no insert of an empty batch, so that
  `flushed` moves to a row). The same invariant gives `ChWriterImplementsRelay`:
  as the pipeline rises, no row is both in the batch and behind it
  (`RiseSplits`), so that an insert takes exactly its batch out of memory.
* `Relay` and `EnricherProofs`. `RelayAccounts` is inductive with types alone.
  The enricher's invariant is `OncePerProcess` - a record is in one place of one
  process at most, and was sent by its loop - with `DownIsEmpty` and
  `MayRestart`. Without the first, a record delivered could still be in memory,
  and `EnricherImplementsRelay` would fail at `Deliver`; the workers' steps
  leave what is held as it is. `CommittedAlwaysAccounted` is then not proved of
  the enricher at all: it is `RelayAccounts` under the refinement.
* `SessionProofs`. `EveryIdStarted` and `StartsAccounted` are inductive with
  the type invariant. The service implements the engine's specification once
  stamps are known to lie in the past. `EndsFollowStarts` needs the
  strengthening `OutboxInv`: each started session's `session_start` is
  published, lost or buffered, and never behind its `session_end`.
  `StartsCloseBehind` needs `StartInv`: for every event in the buffer, its
  session's start is published, lost, or at most two places behind the event.
  `NoGapInsideSession` and `EndedForGood` come from `StampOrder`, that until a
  crash no stamp reaches `Process` more than `MaxDelay` below an earlier one, and
  from `SessionShape`, that a session's first and last event are members of it
  and an ended one lies more than `Timeout - MaxDelay` behind an event processed
  since. With `2 * MaxDelay <= Timeout` an event that joins is within the timeout
  of the session's last, and a new session cannot have an ended one's id.
* `IngestProofs`. `GatewayInv` holds of the gateway for any clients
  (`GatewayFilters`), and then of the composition. Its parts: the id a handler
  is adding is that of the event it tests (`HandsInv`); an id that is not in the
  filter was not called new in this window (`AdmittedKnown`), so whoever finds it
  missing is the first or tested before the first added it; and
  `KnownIdsCovered`. The key lemma is `CoverGrows`: an event in hands, buffer,
  topic or among the losses stays in their union in every step, only moving from
  one to the next. `AckedCovered` then needs `ClientInv`, that every event of a
  waiting client's batch is covered, mistaken, or still to be tested by its
  handler, and `ClientsDiffer`, that no two handlers answer one sender.
* `TenancyProofs`. `RevokedKeyExpires` is inductive with a bound for each place
  where a dropped key may live on: in a replica behind (`LagBounded`), in a
  lookup on its way to the cache (`CallersInTime`), in a cache entry
  (`CachedInTime`). `TokensEnd` is inductive with these (`TokenInTime`): a token is
  issued only for a key bounded so, and exchanged only while it is valid, which
  adds at most a lifetime to the `Bound` of its number of exchanges. Of tokens
  exchanged without end it bounds each link, and so not the chain. The versions of the row never repeat and the
  earlier of two keys has been gone longer (`History`), so that a replica
  catching up never shows an older key.
  `MeterWithinBurst`, for `MaxDelay = 0`, ties the meter to the bucket: what the
  meter holds and what the bucket would be filled to together never exceed the
  burst, also over an expiry, because the keys live for two fill times.
* `QueryCacheProofs`. `ReadableIsRecent` needs that a value in a caller's hands
  came from Redis in this tick (`InHands`), since time does not pass before it
  is stored. `MarkedIsRefreshing` is not inductive: its second part follows from
  `UnmarkedIsNewer`, that an unmarked entry is no older than any refresh of its
  key, for a refresh takes less than `L1Stale` ticks. `QueryTypeOK` and
  `JanitorBounds` need `OrderInv`, that every entry is listed in the insertion
  order. Then dropping all that is listed empties the cache, so the least number
  of keys to drop exists and suffices (`EvictedIsEnough`). That the janitor
  keeps the order listed is a fact about its loop, the recursive function
  `Filtered`: it has a value, and lists what it was given of the kept keys
  (`FilteredKeeps`). Both go by induction over the loop's steps, in the
  form that a set with 0 and the successor of each `m < n` it holds has all of
  `0..n` (`UpTo`, by `LeastNumber` from `NatLessThanWellFounded`).

How far the violated claims of section 5 do hold is proved too. With
`SuccessThreshold` 1 a half-open breaker always admits a call
(`OneSuccessNeverSticks`); with a larger one, once a success is recorded and no
call is in flight, it is stuck in every later state (`StuckForGood`). The second
`Stop` loses no row (`SecondStopLosesNothing`), so a graceful stop loses rows
only in the `Write` that panics (`DeferredStopLosesNothing`). Apart from sessions Redis forgot, at most
one is started and not ended (`OneSessionOpen`). `MeterStaysWithinBurst` holds
without delay between clock and script. `HandledAlwaysAccounted` names the ways
in which at-least-once delivery fails, and says that there is no other.

Not listed with a run: `EnricherTypeOK`, `OncePerProcess`, `RelayAccounts` and
`ChWriter`'s `ImplementsRelay` hold in TLC's runs as well but are not part of
them, as the theorems say more; the last makes `ch_writer` three times as long.

Only model-checked is liveness: `CallsReturn`, `OpenEventuallyProbes`,
`RowsLeaveMemory`, `StopTerminates` and `EveryRecordSettled` are out of the
prover's reach, as it knows neither fairness nor `ENABLED`.

## 5. Where the code and its documents disagree

With a run: the half-open breaker (`breaker.go:154`), at-least-once delivery
(`consumer.go:119`), the graceful stop (`writer.go:227`), the end of an expired
session (`engine.go:137`), the race of late clock readings in the rate limiter
(`redis/client.go:202`).

Without one, in `PROJECT.json`, each with the line that says otherwise:

* several probes at once in half-open; the second `Stop`, and the `Close` that
  may hang before it; the drop that a
  comment calls blocking; sessions started while Redis is away; session events
  stored as nameless rows;
* `TestAndAdd` is not atomic and does not touch Redis; main flushes the producer
  while the server still accepts requests; the SDK's `Flush` drops its batch on
  an error and does not wait for another goroutine's;
* values read from Redis into L1 live longer than the documented five minutes;
  `Funnel`, `DAU` and `Retention` never refresh what they mark;
* `AllowRate` never fails, so the local limiter is never asked; a rotated key
  stays in the cache; a token may be refreshed for ever;
* `ConcurrentConsumeLoop` does not keep the order of a partition.

## 6. Not modelled, and why

* **Funnel processor**: `cmd/funnel` starts it without funnels and drops every
  list it reloads, so the running service changes nothing.
* **Alert engine**: its evaluate loop is an empty loop and `evaluateRule` has no
  caller.
* **Notification service**: one check before and one write after the senders,
  which are I/O; the race between the two is listed as a hazard.
* **Hash ring**: nothing uses it.
* **JavaScript SDK**: a browser's queue with retries inside a flush; the gateway
  it talks to is modelled with the Go SDK.
* **Second generation of services, `shared/pkg`**: copies of the code the models
  are of. They are a large part of the repository's lines, and modelling them
  again would say nothing new; section 1 names where they differ.
* **CRUD handlers, SQL text, storage clients, health, metrics, tracing,
  validation, GeoIP, configuration, frontend, deployments**: no state of their
  own that a property would be about. Most of the remaining lines are these.
* **Inside modelled parts**: sharding over several writers, `PublishSync`,
  `PublishBatch`, `FilterBatch`, `TestAndAddExact` (no callers or only the
  readiness check), the gateway's copies in MongoDB, changes of an app's rate
  and burst, group rebalances, which look like a crash to a partition.

# A formal model of the KPI streaming platform

This directory holds TLA+ modules that model the platform's services, TLC
configurations that check them on small instances, and proofs that the TLA+
proof system checks for every size. Paths below are relative to the repository
(`services/...`, `db/...`); `PROJECT.json` maps every definition to its lines.

## 1. The system

Events enter at `ingest-api`, travel through Kafka, become rows and aggregates
in TimescaleDB by way of `stream-processor`, and are watched by `alerting`;
`simulator` plays the clients.

    simulator --HTTP--> ingest-api --Kafka: orders, sessions--> stream-processor
                            |                                        |
                            | SELECT (KPI, alerts, freshness)        | INSERT facts
                            v                                        v UPSERT aggregates
                        TimescaleDB <------------------------- TimescaleDB
                            ^ SELECT kpi_minute, INSERT alerts
                            |
                         alerting

| Component | State | Operations | Interacts by |
|---|---|---|---|
| ingest-api, publishing (`api/ingest.py`, `services/ingest_service.py`) | a Kafka producer with messages in flight, the requests in progress, a counter | `POST /events/order`, `POST /events/session`: choose an `event_id`, stamp, publish, 503 when the publish raised | messages in the topics `orders` and `sessions`, keyed by `event_id` |
| ingest-api, KPI queries (`api/kpi.py`, `services/kpi_service.py`, `domain/kpi_repository.py`) | none | range, latest, alerts, freshness, time to signal | reads all tables |
| stream-processor (`services/processor.py`, `dedupe.py`, `aggregation.py`, `domain/repository.py`) | Kafka offsets, `DedupeCache._items`, `Aggregates._minute/_hour`, the drained batch; tables `orders`, `sessions`, `kpi_minute`, `kpi_hour` | take a message, insert the fact, add to the aggregates; drain and flush every second; clean the cache | shared memory of two asyncio tasks; four tables |
| alerting (`main.py`, `alert_service.py`, `alert_repository.py`) | the table `alerts`; inside a check the buckets seen so far | every minute, per KPI: up to 2 * DURATION + 2 queries | reads `kpi_minute` while the processor writes it |
| simulator control (`controller.py`, `api.py`) | `self._task` and the tasks it made | start, stop, status, lifespan; the loop's life | awaiting its own cancelled task |
| simulator rounds (`controller.py` 22-82, 129-206) | the plan of the round in progress | plan a round from the clock, the settings and chance; post views, checkouts, orders and purchases; sleep | HTTP to ingest-api, errors logged and ignored |
| database (`db/init`) | tables, unique keys, views | | everything |
| legacy `stream_processor/main.py` 12-343 | | a dead copy of the processor | called by nothing |

What is hard here, and what makes each component right:

* **stream-processor.** Two tasks interleave at every `await`. A fact is durable
  before its count is, and the offset is committed by a third party, so each
  kill point leaves a different mixture. Right means: an aggregate never counts
  a row twice and never counts what is not a fact, whatever is redelivered; only
  a failure loses a count; a failure loses a bounded number of messages; without
  failures everything is counted.
* **alerting.** A check reads from several moments. Right means: what an alert
  says of itself is true up to the rounding of its columns, a KPI's alerts never go
  back to an earlier bucket, a deviation that lasts is reported although queries fail.
* **simulator control.** Calls overlap with a loop that takes time to end. Right
  means: one loop, stopped loops stay stopped, stop and shutdown complete.
* **simulator rounds.** Posts fail without consequence and loops end between an
  order and its purchase. Right means: the load keeps the pace it is set to,
  orders and purchases stay in balance, planned anomalies come when planned.
* **ingest-api, publishing.** A 503 may come from a message that was stored, and
  copies land after the handler is gone. Right means: an accepted event is in the
  topic, and ends up counted once, whatever was repeated.
* **KPI queries.** The same number computed from facts and from aggregates must
  agree, at bucket edges, offsets and roundings; a listed alert is found under the
  filter it is labelled with.

The hazards, each at its line and with the properties that watch it, are listed
in `PROJECT.json`.

## 2. The modules

| Module | What it is |
|---|---|
| `KpiLedger` | abstract specification: facts, what is owed to each aggregate, what is counted |
| `StreamProcessor` | the processor with Kafka's and the database's side of it |
| `StreamProcessorProofs` | type correctness, the inductive invariant, three safety theorems |
| `StreamProcessorRefinement` | the processor implements `KpiLedger`; only failures forget, and without one nothing is forgotten |
| `StreamProcessorBounds` | each death loses at most one event; rows per id are paid for |
| `IngestApi` | ingest-api's handlers and producer, up to the broker |
| `Pipeline` | `IngestApi` and `StreamProcessor` joined by the topics, with end-to-end properties |
| `PipelineProofs` | the pipeline implements both halves; accepted events are published, accounted for and, without failures, counted |
| `Alerting` | the alerting loop, query by query, beside a flushing processor, and the list of its alerts |
| `AlertingProofs` | types; alerts advance, rest on their buckets, state true numbers and keep their baselines; the list fits together |
| `SimulatorController` | the load loop, the control API and the lifespan |
| `SimulatorRound` | what the loop sends: `SimulatorController` with plans, clock and posts |
| `SimulatorProofs` | the controller's inductive invariant and its theorems; rounds implement the controller; pace, balance and recurrence |
| `KpiQueries` | what ingest-api answers, beside a processor that inserts, adds and flushes |
| `KpiQueriesProofs` | types; all that the runs check of the API's answers |
| `Sums` | lemmas about least elements and sums over finite sets |
| `MC...` | instances for TLC |

Definitions whose name begins with `Mutant_` are the wrong variants of the
definition that follows them. No specification uses them; each shows that a
property notices the mistake.

### StreamProcessor

State and code: `log` and `committed` are Kafka's; `position` is the consumer's
next offset; `pc` and `msg` say where `process_message` is; `items` is
`DedupeCache._items`; `agg` is `Aggregates`; `batch` and `flush` are the locals
and the place of `flush_loop`; `stored` and `kpi` are the tables.

A step is the code between two awaits that matter. `Receive` is everything from
the message to the insert (`seen` marks the id before anything is stored).
`InsertLands` is the statement on the server, `Count` or `Skip` what the process
does with its answer. `Drain` takes both dictionaries away, `FlushGrain("minute")`
and `FlushGrain("hour")` are the two `executemany`, each atomic, neither in a
transaction with the other. The lock of `Aggregates` needs no state: nothing
awaits while it is held, so nobody ever waits for it.

Data: a bucket's metrics are sums of events, so an aggregate is kept as how often
each event was added to it. The bucket an event falls in is fixed by the event,
so all buckets of a grain are kept as one multiset: "no event twice in a grain"
says that no bucket counts it twice. Amounts, offsets and rounding are out of
this module. Two events with the same `row` have the same primary key; two with
the same `id` are the same to the cache.

Failures: `FlushFails` is any exception in `flush_loop`: the statement landed or
not, the batch is gone, the task is over, and nothing tells the consumer.
`Crash` is a kill: offsets fall back to what was committed. `Shutdown` is the
`finally` block, reached by cancellation or by an exception of
`process_message`: `consumer.stop()` commits the position, the failed message
included. In both, a statement in flight lands or does not, and does so before
the next process starts. A message that cannot be parsed is a `Shutdown` whose
insert did not land. There is one member in the consumer group and no rebalance.

Properties. `NoDoubleCount`, `KpiOnlyOfFacts`, `HourNeverAheadOfMinute` are about
what the tables say; `RowsPerIdBounded` and `LossBounded` bound what cache
expiry and deaths can do; `OnlyFailuresForget` is the action property that
interleavings lose nothing; `EveryIdCounted` and `BacklogDrains` are liveness;
`ImplementsLedger` is the refinement, with `owed` mapped to everything on its way
(inserted, added or drained) and `counted` to what the tables contain.

`EveryIdCounted` promises an id a row that is counted, and no more, because an id is
all the cache knows. Of an order and a session with one id (one cache serves both
topics), or of one order with two event times, the one that comes second within the
TTL is dropped. The instance has such a pair. Nothing in the repository says that ids
differ across topics, so this is a hazard without a property. `LaterFactsAreFlushed`, which `flush_failure` violates, is
about what is stored *after* a flush failed: a flush task that somebody restarted
would satisfy it.

### IngestApi and Pipeline

A request is a variable-free input (`Body`) and a `phase`. `Post` is a handler up to
`send_and_wait`; `Accept` and `PublishRaises` are its two ends, and the second is
possible whatever became of the message. The producer is built without idempotence
and resends what is not acknowledged, so a message has copies (`flying`) that
land, or are dropped, independently and also after the handler answered or its
process died. `GoDown` is a kill, `StartUp` the next process. A client that sends
the same again after a 503 is a request of its own.

`EventId` is the code's default (`order_id`, or session, type and time), an id being
the sequence of its parts. `Message` carries the id, which is the Kafka key, and
the primary key its row will have; a partition is a topic and the hash of the id,
so that a retry with the same id stays in its partition.

`Pipeline` EXTENDS `StreamProcessor` and INSTANCEs `IngestApi` over the same `log`.
`Hand`, a landing copy, replaces `Publish`, which lets any event appear at any time;
every other action of either half is kept, with the other half unchanged.
`AcceptedIsPublished` is what a 200 means. `AcceptedAccounted` follows an id from the
answer to the fact table across both components: at most one goes astray per death
of the processor. `AcceptedIsCounted` is the promise of the whole path without failures, for
requests that are the same event (`SameEvent`) or are meant as two (`Apart`): whenever
all work is done, the event is in both aggregates once. It is a safety property, so
that it can be proved; that the work does get done is the processor's liveness
(`BacklogDrains`, `EveryIdCounted`). An order that is sent again with a new event_time
is another row: it is counted with one of its times, and with both if the TTL lay
between them.

### Alerting

Time is counted in minutes and `table` is `kpi_minute`. Each query of
`check_and_alert` is an action, so that `Write` (a flush) and `Tick` fall
between any two. `AVG` is kept as a sum and a count and thresholds are compared
by multiplication, exactly; the code does it in floats. An alert stores its average
and its baseline as `NUMERIC(14, 2)`, which rounds them (`Rounded`; the model counts
in hundredths): `AlertExplainsItself` therefore speaks of an average and a
baseline that the stored numbers are the roundings of. `NOW()` has seconds, so
the oldest minute of the lookback may be in or out (`Cutoffs`). `QueryRaises` is
the `except` clause: the KPIs still to come are skipped. `AcquireRaises` is the
`pool.acquire` outside the `try`, which ends the process. An alert carries an
auxiliary `trail` with the buckets and directions of the check behind it; the
code's row does not, and no action reads it. `created` is `created_at`.
`History` may have rows up to `Ahead` minutes after `Start` (`HistoryAssumption`): what
was written before the model starts obeys the same bound on event times.

`GET /alerts` reads the table at any moment, so it is an operator (`Answer`) over it,
with the two mappings between filter, stored name and label; `ListsFitTogether`
asks that they agree and that a limit cuts off the oldest. The order among alerts of
one time is open in the SQL, so `Answer` is some page it may return.

### SimulatorController

A loop is known by the request it awaits (`born`, `view`, `checkout`, `order`,
`purchase`, `sleep`), then `cancelling`, then `over`. `start()` is one step.
`stop()` is two: `Stop` cancels and gives up `self._task`, `Stopped` answers when
the task is over, and other calls run in between. Its await raises what the loop's
client raised when it was closed; then the answer is an error, and the loop is over
all the same. `Step` covers a request that
succeeded and one that raised an `HTTPError`, because `_post_event` makes no
difference; `Break` is any other exception. `Drain` models what `uvicorn` does
before the lifespan ends: no new requests, those in progress are answered.

### SimulatorRound

The module EXTENDS the controller and adds what it leaves open. `Plans(now)` is the set of plans `_run_once` can
make: `Band` is the two schedule functions, `Factors` the fixed or random anomaly,
`Counts` the two sampled numbers, `views` the sessions and `odds` the chance of an
order in each. Multipliers and chances are in percent; of a random draw the
outcomes with a positive probability are kept, and a `gauss` with a jitter may be any
number up to a bound. Python's `round` goes to the even neighbour (`Rounded`).

`BeginRound`, `Browse` and `Buy` are the controller's `Step` with the plan behind it;
`Control` is everything else the controller does, and says what becomes of a post a
loop is ended in: it lands or not, and is one of the `cuts`. `surplus` counts landed
orders less landed purchases, `lost` the posts of either kind that raised; both are
what an observer of the ingest API sees, and no action reads them.

Properties. `ImplementsController` is the refinement. `PurchasesMatchOrders` bounds the
drift of the two numbers by failures and cuts. `RoundsAreSpaced` says that stops and
starts add no load beyond a round each. `PlansRecurDaily` has a consequence across
services: with the slots of 60 minutes of the simulator's `settings.toml` an anomaly recurs at the same
minute each day, and with the `BASELINE_DAYS = 1` of alerting's `settings.toml` that minute of the day before
is its baseline, so that such an anomaly deviates on its first day only. With a jitter, as in that file,
any count can be drawn in any minute; what recurs then is the factor of the mean, which
the property states beside the plans.

### KpiQueries

The API is stateless, so its queries are operators (`RangeRows`, `LatestRow`,
`Freshness`, `TimeToSignal`, named for the repository's functions) and the state
is what they read: `facts`, the rows of both fact tables; `kpi`, the rows of
`kpi_minute` and `kpi_hour`; and what is still on its way: `hand`, the row whose
insert `process_message` awaited and which it has not added yet, `agg` and `batch`.
`Insert`, `Add`, `Drain`, `FlushMinute` and `FlushHour` are the processor's steps as
in `StreamProcessor`, with what that leaves out: event
times, offsets, channels, amounts and processing times. A query, which is an operator
on the state, can fall between any two of them. A dictionary of
`Aggregates` is the set of rows that were added to it; its buckets and sums are
computed when it is written. `FlushFails` ends the flush task and `ProcessEnds` the
process; in both a statement in flight was executed or was not.

`Bucket` is the processor's `replace(minute=0, ...)`, which works on the local time
an event was written in; `Trunc` is the database's `date_trunc` in UTC (the
database image's time zone). `Rounded` is what `NUMERIC(14, 2)` and `ROUND` do. The
float sums of the processor are exact here. `campaign` filters exactly like
`channel` and is left out.

Properties. `EachFactShownOnce` holds for every offset, so an offset moves a
count to another bucket and loses none; it accounts for the row in hand, the
Aggregates and what of the batch is not written, in every state. `SegmentsAddUp` compares the two
implementations of a series, and holds where offsets are whole multiples of the
grain. `SeriesFitsWindow` states what a series without a segment shows at the
edges of its window. `RoundingStaysSmall`, `LatestIsFresh` and
`SignalWithinDelays` relate answers of different endpoints. `LatestIsFresh` gives an
interval for any offsets (the latest point began at most a bucket before the freshest
event) and the freshest event's own bucket only where no offset is out of step with the
grain: with half-hour offsets the latest hour need not count the freshest event. One consequence for
users of the API: after a failure, answers with a segment come from the facts
and can exceed the answer without one.

## 3. The runs

| Run | Instance and bounds | Shows |
|---|---|---|
| `counts` | an order, the same id with another event time (another row), the same row under another id in another partition; 2 messages per partition, TTL 2, cleanup after every message, 2 ticks, 1 death, failing flushes | the safety of the tables, rows per id, lost messages, and that only failures forget |
| `ledger` | two orders and a session event that shares the id of one, in two topics; TTL 1, 1 death, failing flushes, restarts | `ImplementsLedger`; the backlog drains again; as long as nothing failed, every id ends up counted |
| `flush_failure` | two orders, a failing flush, no death | a counterexample to "what is stored after a failed flush is flushed" |
| `lost_count` | one event, one death | a counterexample to "what is stored gets counted" |
| `pipeline` | a purchase, and the same with a later event_time, without `event_id`; 2 sends each, 2 messages in the topic, TTL 1, 1 tick, cleanup after two messages, 1 death | accepted means published, accounted for and, without failures, counted |
| `alert_safety` | two KPIs, a day of 6 minutes, flat yesterday, 3 minutes of today, flushes of one KPI each, values in hundredths of which one average has three decimals, 1 failing query, 1 end of the process and its restart | consistency of stored alerts and of their list; a deviation that lasts is alerted for both |
| `alert_persist`, `alert_future` | one KPI, flushes that add nothing or 1.4 times yesterday's value; events dated 1 minute ahead in the last | counterexamples to the settings' descriptions |
| `simulator` | 2 tasks, 2 calls, autostart, 1 broken loop, a day of four hours of a minute, an interval of a minute, 1 lost order or purchase; a low round of one session that may buy and a high round of two that do | rounds implement the controller, keep pace and balance; one loop, stopped means over, nothing left behind; stop and shutdown complete |
| `kpi_queries` | 3 kinds of events (an order that rounds down, an order without a channel that rounds up, sent an hour behind UTC, and a view sent half an hour ahead), 3 facts, 2 ticks, events up to a tick late or ahead, 1 failure; a minute of 2 ticks, an hour of 2 minutes | the API's answers fit together |
| `time_to_signal`, `hour_granularity` | two events, as `kpi_queries` | counterexamples to the endpoints' descriptions |

Why these bounds are enough to be interesting. A double count needs one row to be
published twice and one moment at which the cache has forgotten it (expiry or a
death); a lost count needs one death or one failed flush; hour and minute come
apart with one flush. The clock of `counts` reaches the TTL, so that
entries expire and are swept, and both an expiry and a restart admit an id again.
`CleanupEvery = 1` makes the cleanup run as often as it can. Alerting's instance
has more minutes of today than `DURATION_MINUTES` and more rows than the lookback
holds at the end, so windows move and leave gaps; its values lie below, at and
above both thresholds. Two calls and the autostart are the fewest with a stop, a start in
its gap and another stop, and two minutes the fewest with a low and a high slot and a sleep between. A client that repeats a purchase with a new event_time makes another event with
another id, and the two ids differ in the time alone; a room of two messages is
enough for a message and its copy, or for both, and a tick for a copy to come when the
dedupe entry of the first has expired. `Late + Ahead < MinutesPerDay` in
`alert_safety`: `BaselineIsHistory` speaks of baselines older than the writers reach, and
compares each alert with what the table says in every later state.

Deadlock is checked for `Alerting`, whose loop always has a next step. The
processor comes to rest when every log of the bounded instance is consumed and
its clock stands, the tables of `KpiQueries` fill up, and the simulator's service
ends, so their cfgs say
`CHECK_DEADLOCK FALSE`; that processor and simulator do not stop too early is what the liveness
properties are for.

Fairness. `StreamProcessor!FairSpec` has weak fairness on the consumer and on the
flush task: asyncio resumes a task whose awaited result is there, and Kafka and
the database answer; a failure is a step of its own and not owed a turn. Each
task is one sequential program, so one weak fairness condition for all its steps
is what the code gives. The pipeline states no fairness. `RecoveringSpec`, of the processor
and of alerting, adds the restart: `docker-compose.yml`
has no restart policy, so this is an assumption about whoever operates the
services. Of the processor, only `ledger` and the two counterexamples use it (they show that
even then facts stay uncounted). `Alerting!FairSpec` is fair to the loop,
and without the restart its liveness would end with the first failing acquire;
that a deviation persists is the premise of the property. `SimulatorRound!FairRoundSpec`
is fair, as `SimulatorController!FairSpec`, to what a cancelled task and resumed handlers do, not to requests, calls or the clock.

### What the violated properties mean

* `LaterFactsAreFlushed`. A failing flush ends the flush task for good: the trace's
  second order is stored and added after the failure and never drained.
* `FactsReachAggregates`. A process that ends between insert and
  flush leaves a row that its redelivered message then conflicts with. The
  aggregates under-count for ever in both cases, and `ImplementsLedger` says that
  this is all that happens: nothing is ever counted wrongly.
* `DeviationPersisted`. "Minutes the deviation must persist" is `DURATION_MINUTES` rows, which may be minutes apart and may deviate
  in opposite directions.
* `AlertLooksBack`. The lookback is open towards the future.
* `SignalIsMaxDelay`. Time to signal is the difference of two maxima per bucket:
  never more than the largest delay (`SignalWithinDelays`), often less.
* `HourGranularity`. An event with an offset of half an hour gets an hour of its
  own, which begins at half past and overlaps two others.

## 4. The proofs

All theorems hold for every value of the constants that satisfies the named
assumptions of its module and for every bound (events, TTL, cleanup
interval, requests, partitioner, KPIs, thresholds, windows, tasks, calls, settings).

* **Argument.** No safety property of the processor is inductive by itself: to
  know that an upsert does not count an event twice one must know that what is in
  the batch is not in the table yet. The invariant `IInv` follows an event
  through the places on its way (`inserted`, `agg`, `batch`, `kpi`):
  `OnePlace` says that per grain these add up to at most one, and to none for an
  event without a row; `UniqueRows` that two stored events differ in their
  row; `Twins` that minute and hour hold the same events until the batch is
  written; `Drained` that a sleeping or dead flush has an empty batch and that
  the minute's is empty when the hour is written; `HourTrails` that what the hour
  counts or is about to count, the minute counts. There is one lemma per action
  that disturbs it, and one for all that do not.
* `TypeCorrect`, `Invariance`, `NoDoubleCountHolds`, `KpiOnlyOfFactsHolds`,
  `HourNeverAheadHolds` follow.
* `Refinement` uses the invariant step by step: `InsertLands` is `Record` or a
  stutter, `Count` and `Drain` move what is owed from place to place, `FlushGrain`
  is `Post`, and the failures are `Fail` with the statement that landed.
  `OnlyFailuresForgetHolds` is read off the same mapping, and `NothingForgottenHolds`
  follows: until something fails every fact is counted or on its way.
* `StreamProcessorBounds`, losses: an id in the log that has no row is ahead of the consumer, in its hand, or
  lost. `Offsets` (committed up to position, position up to the log), `InHand` (the
  message in hand was published) and `Remembered` (the cache knows only ids that are
  being inserted or have a row) make `FewLost` inductive: only a death moves an id
  into the lost ones, at most one at a time. For rows, `AdmissionsPaid` is an account: a
  row beyond the first, plus the one in hand, is covered by TTLs that passed and
  deaths, and a cached id has its next one still to pay.
* `PipelineProofs`: every step of the pipeline is one of the processor and one of
  the API, or leaves them alone (`PipelineImplementsProcessor`, `PipelineImplementsApi`); the processor's
  theorems therefore hold behind the API (`PipelineCounts`). The joint
  invariant says in addition that accepted has landed and landed is in the log, and with the
  processor's loss invariant what has gone astray is among the lost
  (`AcceptedAccountedHolds`). `AcceptedIsCountedHolds` puts these together: without a
  death nothing is astray, so with nothing left to consume or insert an accepted id has
  its row (`SettledHasRow`); nothing is forgotten, so with nothing left to write that row
  is counted (`SettledIsCounted`); and the ids and rows of requests meant as two differ
  (`OneIdIsOneEvent`, `OneRowIsOneEvent`), so the row is that of the request.
* `AlertingProofs`: `AlertsAdvanceHolds` needs that the newest row of a check is at least
  as new as every alert of its KPI: rows are never deleted, and a check reads the newest
  (`AdvanceInv`). That an alert
  rests on its buckets needs the check's progress: trail and todo together are
  `DURATION_MINUTES` buckets (`CheckCounts`), the trail ascends and all of todo lies
  behind it (`Ascending`), for which the oldest of a finite set must exist. Its numbers
  (`AlertExplainsItselfHolds`) are those of the last bucket looked at, so the invariant says
  that the direction at the trail's end is what `current` and `baseline` amount to
  (`NumbersInv`), and writes between the queries do not touch these. What the table keeps
  of the two is within half a hundredth of them (`RoundedIsNear`).
  `BaselineIsHistoryHolds` says that no write ever changes what a bucket was held to. It
  needs that no bucket is known which lies further ahead than event times do
  (`NothingBeyond`): then the rows behind its baseline are too old to be written as soon
  as the bucket has been read (`ReferenceStands`). The hypothesis is `Late + Ahead <
  MinutesPerDay`, event times within a day of the clock. The API enforces no such bound;
  an event dated a day back or more does change a baseline that was used. With nothing dated ahead,
  `NothingBeyond` also gives `AlertLooksBackWithoutAhead`: the counterexample of `alert_future`
  has no other cause.
  For the list, a page filled to its limit must exist (`PageExists`): one with the least room
  left has none, or leaves out nothing. `FilterAssumption` says that no filter is no type.
* `SimulatorProofs`, the controller: a loop at work is `self._task`, a cancelled one is
  awaited by somebody, and while the lifespan closes nobody else awaits anything.
  From these `TypeCorrect`, `OneLoopHolds`, `StoppedMeansOverHolds`, `HttpErrorsDoNotStopHolds`
  and `NothingLeftBehindHolds`, for any number of tasks and calls.
* `SimulatorProofs`, the rounds: they implement the controller, so its invariant may be
  used. Pace is an account again: births and intervals are credit, and a loop that is to
  begin, or to wake, finds its round paid for (`NextIsPaid`). Balance: at most one loop is
  in a sale, so each landed, lost or cut post moves the drift by what pays for it.
  Recurrence is arithmetic: the hour and the parity of the slot repeat after a day.
  `RoundTypeCorrect` assumes the rates and factors of the settings to be natural numbers
  (`RatesAssumption`).
* `Sums`: an average, a count or a revenue is a sum over a set of rows, written with the
  community modules' folds. A fold is a recursive function on the subsets of a set, and
  what it computes is proved by induction over these: of the subsets that are not good,
  one is the smallest (`SubsetInduction`, where the good ones are a set and not a predicate,
  because the provers cannot instantiate an operator). From there: a sum takes out
  an element, splits over disjoint sets, is monotone, and adds up by groups.
* `KpiQueriesProofs`, first invariant: `/kpi/latest` reads the aggregates, `/metrics/freshness`
  the facts; `BucketInv` ties them together by the buckets alone: each is that of a fact, and that of a
  flushed fact is there unless something was lost. `LatestIsFreshHolds` follows, and that
  points of `/kpi/hour` lie an hour apart as long as offsets are whole hours
  (`HourGranularityWhenAligned`): the counterexample of `hour_granularity` needs another.
* `KpiQueriesProofs`, second invariant: of each table, some set of facts has *landed* in it
  (`LandedInv`). None of them is on its way, each that is not on its way has landed
  unless something was lost, and the table stands for them: its buckets are theirs, its
  counts are how many of them fall in a bucket, and its revenue is the sum of their
  amounts up to half a cent for each order, which is what one rounding per flush, of at
  least one order, can do. A flush adds a batch to what has landed (`LandedInvariance`). The
  answers then are sums over landed facts, by bucket: `EachFactShownOnceHolds` counts them
  over all buckets, `SeriesFitsWindowHolds` over those of a window (a limit of `MaxFacts`
  cuts off none, since there are no more buckets than facts), `SegmentsAddUpHolds` over one
  bucket and each channel, `RoundingStaysSmallHolds` compares revenues and averages with
  those of the rows, rounded one by one. In the last two, Python's buckets and the
  database's are the same by `Aligned`. `SignalWithinDelaysHolds` is about the facts only: per bucket, the
  latest processing less the latest event is the delay of at most the former's row.
  `ChannelAssumption` says in addition that the channels are finitely many; the sum of
  their answers would otherwise mean nothing.

Every invariant of a passing run is a theorem, and so is every property of theirs that
states no fairness. Only model-checked is what is under fairness (`BacklogDrains`,
`EveryIdCounted`, `SustainedDeviationAlerts`, `StopIsAnswered`,
`ShutdownCompletes`): liveness and ENABLED are beyond the proof system.

## 5. Not modelled

* The dead copy in `stream_processor/main.py` 12-343, which repeats the processor
  and is called by nothing.
* TOML settings (what the protocols depend on are constants), logging,
  authentication, request validation, CORS: no state, or turned away before any changes.
* Connection pools beyond the failure of an acquire; column widths, indexes and
  hypertables of the schema.
* Consumer group rebalances: the deployment has one member, and with one nothing is
  reassigned.
* Distributions: of the simulator's random draws only what is possible is modelled,
  not how likely. The prices, segments and random ids of its events are data.
* The load tests, which are evidence and not part of the system.

What the models show and no document promises otherwise is recorded as hazards
without a property, among them: an alert stored from the first seconds of a minute is never
corrected, and a total outage, after which there are no recent rows, never alerts.

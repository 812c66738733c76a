---------------------------- MODULE StreamProcessor ----------------------------
(***************************************************************************)
(* services/stream-processor: one asyncio process with two tasks.          *)
(*                                                                         *)
(*  - the consumer task takes one Kafka message at a time, drops it when   *)
(*    the in-memory DedupeCache has its event_id, inserts the fact row     *)
(*    (ON CONFLICT DO NOTHING) and, if the row is new, adds the event to   *)
(*    the in-memory Aggregates;                                            *)
(*  - the flush task wakes up every FLUSH_INTERVAL_SECONDS, takes the      *)
(*    Aggregates away and adds them to kpi_minute, then to kpi_hour, in    *)
(*    two separate statements.                                             *)
(*                                                                         *)
(* Kafka remembers the group's committed offsets, TimescaleDB the rows;    *)
(* everything else dies with the process.  An insert or an upsert is one   *)
(* atomic statement on the server; between the statement and its answer    *)
(* the process can be killed, or the connection can fail.                  *)
(*                                                                         *)
(* A BucketMetrics is the sum of the events added to it, so an aggregate   *)
(* is modelled as the multiset of those events, over all buckets of a      *)
(* grain: how often the buckets of that grain contain each event.          *)
(***************************************************************************)
EXTENDS Naturals, Sequences, FiniteSets

CONSTANTS
    Events,        \* records [id, row, partition]: event_id, primary key of the fact
                   \* row, and the topic partition the producer's key chooses
    NoEvent,       \* no message is being processed
    Ttl,           \* DEDUPE_TTL_SECONDS, in ticks
    CleanupEvery,  \* LOG_EVERY_N * 5
    FlushCanFail,  \* may a flush statement raise
    MaxLog,        \* bound: messages per partition
    MaxTime,       \* bound: ticks of the clock
    MaxDeaths      \* bound: crashes and shutdowns

EventIds   == {e.id : e \in Events}
Partitions == {e.partition : e \in Events}
Grains     == {"minute", "hour"}

ASSUME NoEventAssumption == NoEvent \notin Events
ASSUME TtlAssumption == Ttl \in Nat \ {0}
ASSUME CleanupAssumption == CleanupEvery \in Nat \ {0}
ASSUME FlushAssumption == FlushCanFail \in BOOLEAN
ASSUME BoundsAssumption == MaxLog \in Nat /\ MaxTime \in Nat /\ MaxDeaths \in Nat

VARIABLES
    log,        \* Kafka: the messages of each partition
    committed,  \* Kafka: the consumer group's committed offset per partition
    stored,     \* TimescaleDB: the events whose row is in orders / sessions
    kpi,        \* TimescaleDB: per grain, how often each event was added
    status,     \* "up" or "down"
    position,   \* consumer: next offset per partition (messages already handed out)
    pc, msg,    \* consumer: step inside process_message, and its message
    items,      \* DedupeCache._items: event_id -> expiry, 0 when absent
    processed,  \* run_processor's counter, modulo CleanupEvery
    agg,        \* Aggregates._minute and ._hour
    batch,      \* the dicts flush_loop drained and has not written yet
    flush,      \* flush task: "sleep", about to write a grain, or "dead"
    now,        \* the clock
    deaths      \* how often the process died (only to bound it)

kafka    == <<log, committed>>
tables   == <<stored, kpi>>
consumer == <<position, pc, msg, items, processed>>
flusher  == <<batch, flush>>
vars == <<kafka, tables, status, consumer, agg, flusher, now, deaths>>

Nothing == [e \in Events |-> 0]
Plus(m, n) == [e \in Events |-> m[e] + n[e]]
OnlyOne(x) == [e \in Events |-> IF e = x THEN 1 ELSE 0]

Empty == [g \in Grains |-> Nothing]

-----------------------------------------------------------------------------
NoKeys == [i \in EventIds |-> 0]

Init == /\ log = [p \in Partitions |-> <<>>]
        /\ committed = [p \in Partitions |-> 0]
        /\ position = committed
        /\ stored = {} /\ kpi = Empty
        /\ status = "up"
        /\ pc = "idle" /\ msg = NoEvent
        /\ items = NoKeys /\ processed = 0
        /\ agg = Empty /\ batch = Empty /\ flush = "sleep"
        /\ now = 0 /\ deaths = 0

-----------------------------------------------------------------------------
\* The environment: the clock, and ingest-api's producer.  A client that got a 503
\* or timed out sends the same event again, so an event may be published repeatedly.

Tick == /\ now < MaxTime
        /\ now' = now + 1
        /\ UNCHANGED <<kafka, tables, status, consumer, agg, flusher, deaths>>

Publish(e) ==
    /\ Len(log[e.partition]) < MaxLog
    /\ log' = [log EXCEPT ![e.partition] = Append(@, e)]
    /\ UNCHANGED <<committed, tables, status, consumer, agg, flusher, now, deaths>>

\* enable_auto_commit: aiokafka commits the position in the background, and the
\* position is past every message handed out, the one being processed included.
AutoCommit ==
    /\ status = "up"
    /\ committed # position
    /\ committed' = position
    /\ UNCHANGED <<log, tables, status, consumer, agg, flusher, now, deaths>>

-----------------------------------------------------------------------------
\* The consumer task.

Seen(i) == items[i] > now

Mutant_Marked(i) == [items EXCEPT ![i] = now - Ttl]   \* the sign is wrong

Marked(i) == [items EXCEPT ![i] = now + Ttl]

\* Mutant: the event is added to the aggregates before its insert.
Mutant_Receive(p) ==
    /\ status = "up" /\ pc = "idle"
    /\ position[p] < Len(log[p])
    /\ position' = [position EXCEPT ![p] = @ + 1]
    /\ LET e == log[p][position[p] + 1] IN
         IF Seen(e.id)
         THEN UNCHANGED <<pc, msg, items, agg>>
         ELSE /\ items' = Marked(e.id)
              /\ msg' = e
              /\ pc' = "insert"
              /\ agg' = [g \in Grains |-> Plus(agg[g], OnlyOne(e))]
    /\ UNCHANGED <<kafka, tables, status, processed, flusher, now, deaths>>

\* Mutant: a duplicate is left where it is.
Mutant_ReceiveStuck(p) ==
    /\ status = "up" /\ pc = "idle"
    /\ position[p] < Len(log[p])
    /\ LET e == log[p][position[p] + 1] IN
         /\ ~Seen(e.id)
         /\ items' = Marked(e.id)
         /\ msg' = e
         /\ pc' = "insert"
    /\ position' = [position EXCEPT ![p] = @ + 1]
    /\ UNCHANGED <<kafka, tables, status, processed, agg, flusher, now, deaths>>

Receive(p) ==
    /\ status = "up" /\ pc = "idle"
    /\ position[p] < Len(log[p])
    /\ position' = [position EXCEPT ![p] = @ + 1]
    /\ LET e == log[p][position[p] + 1] IN
         IF Seen(e.id)
         THEN UNCHANGED <<pc, msg, items>>
         ELSE /\ items' = Marked(e.id)
              /\ msg' = e
              /\ pc' = "insert"
    /\ UNCHANGED <<kafka, tables, status, processed, agg, flusher, now, deaths>>

RowTaken(e) == \E f \in stored : f.row = e.row

\* Mutant: RETURNING is ignored, a row that was there counts as inserted.
Mutant_InsertLands ==
    /\ status = "up" /\ pc = "insert"
    /\ pc' = "inserted"
    /\ stored' = IF RowTaken(msg) THEN stored ELSE stored \union {msg}
    /\ UNCHANGED <<kafka, kpi, status, position, msg, items, processed, agg, flusher,
                   now, deaths>>

\* The server executes INSERT ... ON CONFLICT DO NOTHING RETURNING.
InsertLands ==
    /\ status = "up" /\ pc = "insert"
    /\ IF RowTaken(msg)
       THEN pc' = "conflict" /\ UNCHANGED stored
       ELSE pc' = "inserted" /\ stored' = stored \union {msg}
    /\ UNCHANGED <<kafka, kpi, status, position, msg, items, processed, agg, flusher,
                   now, deaths>>

Mutant_Swept == [i \in EventIds |-> IF items[i] > now THEN 0 ELSE items[i]]

Swept == [i \in EventIds |-> IF items[i] <= now THEN 0 ELSE items[i]]

\* The row is new: aggregates.add, and the loop's counter with its cleanup.
Count ==
    /\ status = "up" /\ pc = "inserted"
    /\ agg' = [g \in Grains |-> Plus(agg[g], OnlyOne(msg))]
    /\ processed' = (processed + 1) % CleanupEvery
    /\ items' = IF processed' = 0 THEN Swept ELSE items
    /\ pc' = "idle" /\ msg' = NoEvent
    /\ UNCHANGED <<kafka, tables, status, position, flusher, now, deaths>>

\* The row was there: process_message returns None.
Skip ==
    /\ status = "up" /\ pc = "conflict"
    /\ pc' = "idle" /\ msg' = NoEvent
    /\ UNCHANGED <<kafka, tables, status, position, items, processed, agg, flusher,
                   now, deaths>>

-----------------------------------------------------------------------------
\* The flush task.  flush_kpis returns at once when nothing was drained.

\* Mutant: the hour is written first, and only the hour.
Mutant_Drain ==
    /\ status = "up" /\ flush = "sleep"
    /\ agg # Empty
    /\ batch' = agg
    /\ agg' = Empty
    /\ flush' = "hour"
    /\ UNCHANGED <<kafka, tables, status, consumer, now, deaths>>

Drain ==
    /\ status = "up" /\ flush = "sleep"
    /\ agg # Empty
    /\ batch' = agg
    /\ agg' = Empty
    /\ flush' = "minute"
    /\ UNCHANGED <<kafka, tables, status, consumer, now, deaths>>

Posted(g) == [kpi EXCEPT ![g] = Plus(@, batch[g])]

\* Mutant: the aggregates are cleared once more when the flush is complete.
Mutant_FlushClears(g) ==
    /\ status = "up" /\ flush = g
    /\ kpi' = Posted(g)
    /\ batch' = [batch EXCEPT ![g] = Nothing]
    /\ flush' = IF g = "minute" THEN "hour" ELSE "sleep"
    /\ agg' = IF g = "minute" THEN agg ELSE Empty
    /\ UNCHANGED <<kafka, stored, status, consumer, now, deaths>>

\* Mutant: flush_kpis returns after the minute.
Mutant_FlushMinuteOnly(g) ==
    /\ status = "up" /\ flush = g
    /\ kpi' = Posted(g)
    /\ batch' = [batch EXCEPT ![g] = Nothing]
    /\ flush' = "sleep"
    /\ UNCHANGED <<kafka, stored, status, consumer, agg, now, deaths>>

\* One executemany: all buckets of the grain, atomically.
FlushGrain(g) ==
    /\ status = "up" /\ flush = g
    /\ kpi' = Posted(g)
    /\ batch' = [batch EXCEPT ![g] = Nothing]
    /\ flush' = IF g = "minute" THEN "hour" ELSE "sleep"
    /\ UNCHANGED <<kafka, stored, status, consumer, agg, now, deaths>>

\* The outcomes of a statement whose answer never arrives.
InsertOutcome == IF pc = "insert" /\ ~RowTaken(msg) THEN {stored, stored \union {msg}}
                                                    ELSE {stored}
FlushOutcome == IF flush \in Grains THEN {kpi, Posted(flush)} ELSE {kpi}

\* Mutant: a statement that raised is tried again, although it may have landed.
Mutant_FlushRetries ==
    /\ FlushCanFail
    /\ status = "up" /\ flush \in Grains
    /\ kpi' \in FlushOutcome
    /\ UNCHANGED <<kafka, stored, status, consumer, agg, flusher, now, deaths>>

\* acquire or executemany raises: nobody awaits the task, so it dies in silence
\* and the consumer goes on.
FlushFails ==
    /\ FlushCanFail
    /\ status = "up" /\ flush \in Grains
    /\ kpi' \in FlushOutcome
    /\ batch' = Empty
    /\ flush' = "dead"
    /\ UNCHANGED <<kafka, stored, status, consumer, agg, now, deaths>>

-----------------------------------------------------------------------------
\* The end of the process.  The next one starts from run_processor's empty memory.

Die ==
    /\ status = "up" /\ deaths < MaxDeaths
    /\ status' = "down"
    /\ deaths' = deaths + 1
    /\ stored' \in InsertOutcome
    /\ kpi' \in FlushOutcome
    /\ pc' = "idle" /\ msg' = NoEvent
    /\ items' = NoKeys /\ processed' = 0
    /\ agg' = Empty /\ batch' = Empty /\ flush' = "sleep"
    /\ UNCHANGED <<log, now>>

\* Killed: what was not committed is delivered again.
Crash ==
    /\ Die
    /\ position' = committed
    /\ UNCHANGED committed

\* Mutant: the loop swallows the exception and takes the next message.
Mutant_Shutdown ==
    /\ status = "up" /\ pc = "insert"
    /\ stored' \in InsertOutcome
    /\ pc' = "idle" /\ msg' = NoEvent
    /\ UNCHANGED <<kafka, kpi, status, position, items, processed, agg, flusher, now,
                   deaths>>

\* process_message raised (connection lost, value the table rejects) or the loop was
\* cancelled: the finally block cancels the flush task, and consumer.stop() commits
\* the position, the message that failed included.
Shutdown ==
    /\ Die
    /\ committed' = position
    /\ UNCHANGED position

Restart ==
    /\ status = "down"
    /\ status' = "up"
    /\ UNCHANGED <<kafka, tables, consumer, agg, flusher, now, deaths>>

-----------------------------------------------------------------------------
Consume == (\E p \in Partitions : Receive(p)) \/ InsertLands \/ Count \/ Skip
Flush == Drain \/ \E g \in Grains : FlushGrain(g)

Next == \/ Tick
        \/ \E e \in Events : Publish(e)
        \/ AutoCommit
        \/ Consume
        \/ Flush
        \/ FlushFails
        \/ Crash
        \/ Shutdown
        \/ Restart

Spec == Init /\ [][Next]_vars

-----------------------------------------------------------------------------
\* Fairness.  asyncio runs each task again when what it awaits is ready, so neither
\* task stalls for ever; nothing else (clock, clients, failures, the operator who
\* restarts the container) is owed a turn.
FairSpec == Spec /\ WF_vars(Consume) /\ WF_vars(Flush)

\* The same with an operator who starts the processor again each time it ended.
RecoveringSpec == FairSpec /\ WF_vars(Restart)

-----------------------------------------------------------------------------
\* Every variable has the values the code can give it.
TypeOK ==
    /\ log \in [Partitions -> Seq(Events)]
    /\ committed \in [Partitions -> Nat]
    /\ position \in [Partitions -> Nat]
    /\ stored \subseteq Events
    /\ kpi \in [Grains -> [Events -> Nat]]
    /\ status \in {"up", "down"}
    /\ pc \in {"idle", "insert", "inserted", "conflict"}
    /\ msg \in Events \union {NoEvent}
    /\ pc # "idle" => msg \in Events
    /\ items \in [EventIds -> Nat]
    /\ processed \in Nat
    /\ agg \in [Grains -> [Events -> Nat]]
    /\ batch \in [Grains -> [Events -> Nat]]
    /\ flush \in {"sleep", "minute", "hour", "dead"}
    /\ now \in Nat
    /\ deaths \in Nat

\* However often a row is published, redelivered after a crash, or admitted again when
\* its dedupe entry expired, an aggregate contains it at most once.
NoDoubleCount ==
    \A g \in Grains : \A e, f \in Events :
        e.row = f.row /\ kpi[g][e] > 0 /\ kpi[g][f] > 0 => e = f /\ kpi[g][e] = 1

\* An aggregate contains no event whose row is not in the fact tables: the insert is
\* complete before the event reaches the memory the flush reads.
KpiOnlyOfFacts == \A g \in Grains : \A e \in Events : kpi[g][e] > 0 => e \in stored

\* kpi_hour never shows an event that kpi_minute does not show, whatever statement of
\* a flush was lost: the hour is written second and dropped with the minute.
HourNeverAheadOfMinute == \A e \in Events : kpi["hour"][e] <= kpi["minute"][e]

\* Orders sent again under the same event_id but another event_time are other rows:
\* only the cache stops them.  An id gets at most one row per TTL and per process life:
\* neither the cleanup, nor a conflict, nor a duplicate shortens the TTL.
RowsPerIdBounded ==
    \A i \in EventIds :
        Cardinality({e \in stored : e.id = i}) <= 1 + deaths + (now \div Ttl)

\* The ids of consumed messages that left no row and are not being inserted.
Published == UNION {{log[p][i] : i \in 1..Len(log[p])} : p \in Partitions}
Consumed == UNION {{log[p][i] : i \in 1..position[p]} : p \in Partitions}
LostIds == {e.id : e \in {c \in Consumed :
                            /\ ~(pc = "insert" /\ msg.id = c.id)
                            /\ \A f \in Published : f.id = c.id => ~RowTaken(f)}}

\* The consumer loses nothing by itself.  A death loses at most one event, the one
\* whose offset was committed while its insert was in flight.
LossBounded == Cardinality(LostIds) <= deaths

\* Where an event is on its way to the aggregate of a grain: in process_message, in
\* the Aggregates, or drained.
OnItsWay(g, e) == \/ pc = "inserted" /\ msg = e
                  \/ agg[g][e] > 0
                  \/ batch[g][e] > 0

\* Facts no aggregate contains and none will.
Forgotten(g) == {e \in stored : kpi[g][e] = 0 /\ ~OnItsWay(g, e)}

\* A fact drops out of the way to its aggregate only when the process dies or a flush
\* statement fails: an add during a flush, and a drain during an add, lose nothing.
OnlyFailuresForget ==
    [][(\E g \in Grains : ~(Forgotten(g)' \subseteq Forgotten(g)))
          => status' = "down" \/ flush' = "dead"]_vars

\* The processor keeps the ledger's promise: what is owed is what is on its way.
Owed    == [g \in Grains |-> {e \in Events : OnItsWay(g, e)}]
Counted == [g \in Grains |-> {e \in Events : kpi[g][e] = 1}]

Ledger == INSTANCE KpiLedger WITH facts <- stored, owed <- Owed, counted <- Counted
ImplementsLedger == Ledger!Spec

\* Liveness: as long as nothing fails, every published event_id gets a row and both
\* aggregates come to contain that row's event exactly once.  It is a promise to ids, and
\* an id is all the cache knows: an event that shares its id with no other has its own
\* row counted, but of an order and a session of one id, or of one order with two event
\* times, the later within the TTL is dropped and is promised nothing.
NothingFailed == deaths = 0 /\ flush # "dead"
CountedAsFact(f) == \E e \in stored : /\ e.row = f.row
                                      /\ \A g \in Grains : kpi[g][e] = 1
EveryIdCounted ==
    []NothingFailed =>
        \A e \in Events :
            e \in Published ~> \E f \in Published : f.id = e.id /\ CountedAsFact(f)

\* Where the processor is restarted whenever it ended, it comes back to an empty backlog
\* again and again: no duplicate, conflict, redelivery or lost message blocks a partition.
BacklogDrains ==
    []<>(/\ status = "up" /\ pc = "idle"
         /\ \A p \in Partitions : position[p] = Len(log[p]))

\* README: the processor "writes facts and aggregates": what is stored gets counted.
FactsReachAggregates ==
    \A e \in Events : e \in stored ~> \A g \in Grains : kpi[g][e] > 0

\* The same of what is stored after a flush statement raised: whatever became of that
\* flush, a later one takes the fact along.
LaterFactsAreFlushed ==
    \A e \in Events :
        flush = "dead" /\ pc = "inserted" /\ msg = e
            ~> \E g \in Grains : batch[g][e] > 0 \/ kpi[g][e] > 0
=============================================================================

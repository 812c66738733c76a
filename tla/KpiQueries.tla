------------------------------ MODULE KpiQueries ------------------------------
(***************************************************************************)
(* What ingest-api answers from the tables that the stream processor       *)
(* fills.  The API keeps no state; its queries are operators here, and the *)
(* state they read is the two fact tables, the two KPI tables and what is  *)
(* still on its way between them: a row whose insert process_message       *)
(* awaited and that it has not added to the Aggregates yet, the Aggregates,*)
(* and the dictionaries a flush has drained.  A query can run between any  *)
(* two of these steps.                                                     *)
(*                                                                         *)
(* Without a segment a query reads kpi_minute or kpi_hour, whose buckets   *)
(* the processor computed in Python; with a segment it groups the facts by *)
(* the database's date_trunc.  The two must say the same.                  *)
(*                                                                         *)
(* Time is counted in ticks; an event carries the UTC offset its client    *)
(* wrote it with.  Amounts are counted in mils, Cent of them to the cent,  *)
(* and NUMERIC(14, 2) rounds to cents.  The sums of floats are exact here, *)
(* channel stands for channel and campaign alike, and of the fact tables'  *)
(* keys nothing is left: StreamProcessor is about those.                   *)
(***************************************************************************)
EXTENDS Integers, Sequences, FiniteSets, FiniteSetsExt, Functions

CONSTANTS
    MinuteLength,  \* ticks of a minute
    HourLength,    \* ticks of an hour
    Cent,          \* mils of a cent
    Samples,       \* what clients send: [kind, offset, channel, amount]
    Channels,      \* the channels one can ask for
    NoChannel,     \* an event's NULL channel
    AnyChannel,    \* the parameter that was not given
    NotGiven,      \* from or to that was not given
    MinuteSpan,    \* ticks a series of minutes reaches back without from: 2 hours
    HourSpan,      \* the same for hours: 3 days
    Start,         \* the tick the model starts in
    End,           \* bound: the clock stops here
    Late,          \* bound: how old an event_time may be
    Ahead,         \* bound: how far an event_time may lie in the future
    MaxFacts,      \* bound: rows of the fact tables
    MaxLosses      \* bound: crashes and failing flushes

Kinds  == {"order", "view", "checkout", "purchase"}
Grains == {"minute", "hour"}
Times  == (Start - Late)..(End + Ahead)

ASSUME LengthAssumption == /\ MinuteLength \in Nat \ {0} /\ Cent \in Nat \ {0}
                           /\ HourLength \in Nat /\ HourLength > MinuteLength
                           /\ HourLength % MinuteLength = 0
ASSUME ChannelAssumption == /\ NoChannel \notin Channels /\ AnyChannel \notin Channels
                            /\ IsFiniteSet(Channels)
ASSUME SampleAssumption ==
    \A s \in Samples : /\ s.kind \in Kinds /\ s.channel \in Channels \union {NoChannel}
                       /\ s.offset \in Int /\ s.offset % MinuteLength = 0
                       /\ s.amount \in Nat /\ (s.kind = "order" <=> s.amount > 0)
ASSUME SpanAssumption == MinuteSpan \in Nat /\ HourSpan \in Nat /\ NotGiven \notin Int
ASSUME BoundsAssumption == /\ {Start, End, Late, Ahead, MaxFacts, MaxLosses} \subseteq Nat
                           /\ Start >= Late

VARIABLES
    now,
    facts,   \* the rows of orders and sessions; a row is known by its position
    hand,    \* process_message: the row that is inserted and not added yet
    agg,     \* Aggregates: the rows that were added since the last drain
    batch,   \* the rows that were drained and whose flush is not complete
    flush,   \* flush task: "sleep", about to write a grain, or "dead"
    kpi,     \* kpi_minute and kpi_hour: per grain, bucket -> row
    losses

vars == <<now, facts, hand, agg, batch, flush, kpi, losses>>

Length(g) == IF g = "minute" THEN MinuteLength ELSE HourLength
Trunc(t, n) == t - (t % n)

\* NUMERIC(14, 2): the quotient n / d to the next integer, a half away from zero.
Rounded(n, d) == (2 * n + d) \div (2 * d)

-----------------------------------------------------------------------------
\* The processor's side: fact, aggregate, flush.

\* Mutant: the bucket keeps the local time it was computed in.
Mutant_Bucket(g, f) == Trunc(f.time + f.offset, Length(g))

\* value.replace(second=0, ...) works on the local time the event was written in; the
\* database stores the instant.
Bucket(g, f) == Trunc(f.time + f.offset, Length(g)) - f.offset

HowMany(kind, S) == Cardinality({i \in S : facts[i].kind = kind})

\* What the counted columns of both kinds of answer have in common.
Counts(S) == [kind \in Kinds |-> HowMany(kind, S)]

\* BucketMetrics of the rows S; the parameter of the upsert is rounded once.
Metrics(S) == [revenue |-> Rounded(SumFunction([i \in S |-> facts[i].amount]), Cent),
               counts  |-> Counts(S)]

NoMetrics == [revenue |-> 0, counts |-> [kind \in Kinds |-> 0]]
At(table, b) == IF b \in DOMAIN table THEN table[b] ELSE NoMetrics

\* Mutant: the row of a bucket that was there is replaced.
Mutant_Upserted(g, S) ==
    LET buckets == {Bucket(g, facts[i]) : i \in S}
    IN  [b \in DOMAIN kpi[g] \union buckets |->
           IF b \in buckets THEN Metrics({i \in S : Bucket(g, facts[i]) = b})
                            ELSE kpi[g][b]]

\* INSERT ... ON CONFLICT (bucket) DO UPDATE for every bucket of a drained dictionary.
Upserted(g, S) ==
    LET buckets == {Bucket(g, facts[i]) : i \in S}
    IN  [b \in DOMAIN kpi[g] \union buckets |->
           LET new == Metrics({i \in S : Bucket(g, facts[i]) = b})
               old == At(kpi[g], b)
           IN  [revenue |-> old.revenue + new.revenue,
                counts  |-> [k \in Kinds |-> old.counts[k] + new.counts[k]]]]

Init == /\ now = Start
        /\ facts = <<>>
        /\ hand = {} /\ agg = {} /\ batch = {}
        /\ flush = "sleep"
        /\ kpi = [g \in Grains |-> <<>>]
        /\ losses = 0

Tick == /\ now < End
        /\ now' = now + 1
        /\ UNCHANGED <<facts, hand, agg, batch, flush, kpi, losses>>

\* An event becomes a row.  processed_at was taken before the insert was awaited, so it
\* may lie behind the clock, and after the message before was done with.
Insert(s, t, processed) ==
    /\ hand = {} /\ Len(facts) < MaxFacts
    /\ Start <= processed /\ processed <= now
    /\ \A i \in DOMAIN facts : facts[i].processed <= processed
    /\ t >= processed - Late /\ t <= processed + Ahead
    /\ facts' = Append(facts, [kind |-> s.kind, time |-> t, offset |-> s.offset,
                               channel |-> s.channel, amount |-> s.amount,
                               processed |-> processed])
    /\ hand' = {Len(facts')}
    /\ UNCHANGED <<now, agg, batch, flush, kpi, losses>>

\* aggregates.add, after the insert was awaited.
Add ==
    /\ hand # {}
    /\ agg' = agg \union hand /\ hand' = {}
    /\ UNCHANGED <<now, facts, batch, flush, kpi, losses>>

\* The flush: drain, the minutes' upsert, and then the hours'.
Drain ==
    /\ flush = "sleep" /\ agg # {}
    /\ batch' = agg /\ agg' = {}
    /\ flush' = "minute"
    /\ UNCHANGED <<now, facts, hand, kpi, losses>>

Posted(g) == [kpi EXCEPT ![g] = Upserted(g, batch)]

FlushMinute ==
    /\ flush = "minute"
    /\ kpi' = Posted("minute")
    /\ flush' = "hour"
    /\ UNCHANGED <<now, facts, hand, agg, batch, losses>>

\* Mutant: the hours of what was added meanwhile are written as well.
Mutant_FlushHour ==
    /\ flush = "hour"
    /\ kpi' = [kpi EXCEPT !["hour"] = Upserted("hour", batch \union agg)]
    /\ batch' = {} /\ flush' = "sleep"
    /\ UNCHANGED <<now, facts, hand, agg, losses>>

FlushHour ==
    /\ flush = "hour"
    /\ kpi' = Posted("hour")
    /\ batch' = {} /\ flush' = "sleep"
    /\ UNCHANGED <<now, facts, hand, agg, losses>>

\* The statement of a flush whose answer never arrives has been executed, or has not.
Outcome == {kpi} \union {Posted(g) : g \in Grains \intersect {flush}}

\* A statement raises: the flush task dies, and the consumer goes on.
FlushFails ==
    /\ losses < MaxLosses /\ flush \in Grains
    /\ kpi' \in Outcome
    /\ batch' = {} /\ flush' = "dead"
    /\ losses' = losses + 1
    /\ UNCHANGED <<now, facts, hand, agg>>

\* The process ends and another one starts: what was on its way is gone.
ProcessEnds ==
    /\ losses < MaxLosses
    /\ hand \union agg \union batch # {} \/ flush = "dead"
    /\ kpi' \in Outcome
    /\ hand' = {} /\ agg' = {} /\ batch' = {} /\ flush' = "sleep"
    /\ losses' = losses + 1
    /\ UNCHANGED <<now, facts>>

Next == \/ Tick
        \/ \E s \in Samples, t \in Times, processed \in Start..End : Insert(s, t, processed)
        \/ Add
        \/ Drain
        \/ FlushMinute
        \/ FlushHour
        \/ FlushFails
        \/ ProcessEnds

Spec == Init /\ [][Next]_vars

-----------------------------------------------------------------------------
\* The queries.

\* The division of the views and of the segmented query: 0 without a divisor.
Ratio(n, d) == IF d > 0 THEN Rounded(n, d) ELSE 0

\* A KpiPoint; the conversion rate is in percent.
Point(b, m) ==
    [bucket  |-> b,
     revenue |-> m.revenue,
     counts  |-> m.counts,
     average_order_value |-> Ratio(m.revenue, m.counts["order"]),
     conversion_rate     |-> Ratio(100 * m.counts["purchase"], m.counts["view"])]

Rows == DOMAIN facts
Orders == {i \in Rows : facts[i].kind = "order"}
Tables == {Orders, Rows \ Orders}

\* Mutant: a NULL channel is in every segment.
Mutant_Segment(ch) ==
    {i \in Rows : ch = AnyChannel \/ facts[i].channel \in {ch, NoChannel}}

\* $4 IS NULL OR channel = $4: a NULL channel equals nothing.
Segment(ch) == {i \in Rows : ch = AnyChannel \/ facts[i].channel = ch}

Mutant_Between(S, from, to) ==      \* Mutant: the end is exclusive.
    {i \in S : from <= facts[i].time /\ facts[i].time < to}

Between(S, from, to) == {i \in S : from <= facts[i].time /\ facts[i].time <= to}

Stored(i) == Rounded(facts[i].amount, Cent)   \* orders.amount

\* GROUP BY date_trunc(bucket, event_time).
Groups(g, S) == {Trunc(facts[i].time, Length(g)) : i \in S}
Group(g, S, b) == {i \in S : Trunc(facts[i].time, Length(g)) = b}

\* orders_agg FULL OUTER JOIN sessions_agg: one point per bucket that has a row.
Grouped(g, S) ==
    {Point(b, [revenue |-> SumFunction([i \in Group(g, S, b) |-> Stored(i)]),
               counts  |-> Counts(Group(g, S, b))]) : b \in Groups(g, S)}

\* kpi_minute_view, kpi_hour_view.
View(g) == {Point(b, kpi[g][b]) : b \in DOMAIN kpi[g]}

\* ORDER BY bucket ASC LIMIT n, and DESC LIMIT 1.
FirstOf(P, n) == {p \in P : Cardinality({q \in P : q.bucket < p.bucket}) < n}
Mutant_Newest(P) == {p \in P : \A q \in P : p.bucket <= q.bucket}   \* Mutant: ASC
Newest(P) == {p \in P : \A q \in P : q.bucket <= p.bucket}

\* The window of kpi_minute and kpi_hour; _ensure_range answers 400 to an empty one.
Window(g, from, to) ==
    LET end  == IF to = NotGiven THEN now ELSE to
        span == IF g = "minute" THEN MinuteSpan ELSE HourSpan
    IN  [from |-> IF from = NotGiven THEN end - span ELSE from, to |-> end]

\* Mutant: the bucket that begins at the end of the window is left out.
Mutant_RangeRows(g, from, to, limit, ch) ==
    IF ch = AnyChannel
    THEN FirstOf({p \in View(g) : from <= p.bucket /\ p.bucket < to}, limit)
    ELSE FirstOf(Grouped(g, Between(Segment(ch), from, to)), limit)

\* fetch_range_rows.
RangeRows(g, from, to, limit, ch) ==
    IF ch = AnyChannel
    THEN FirstOf({p \in View(g) : from <= p.bucket /\ p.bucket <= to}, limit)
    ELSE FirstOf(Grouped(g, Between(Segment(ch), from, to)), limit)

\* fetch_latest_row: no point, or one.
LatestRow(g, ch) ==
    Newest(IF ch = AnyChannel THEN View(g) ELSE Grouped(g, Segment(ch)))

\* fetch_freshness and fetch_freshness_info of the orders or of the sessions S.
LastTime(S) == Max({facts[i].time : i \in S})
Freshness(S) == now - LastTime(S)
LastProcessed(S) == Max({facts[i].processed : i \in S})

Mutant_Lag(S) == LastProcessed(S) - Min({facts[i].time : i \in S})   \* Mutant: MIN

Lag(S) == LastProcessed(S) - LastTime(S)

\* fetch_time_to_signal of the orders or of the sessions S: the average, as a sum and a
\* count, and the maximum of the groups' lags.
TimeToSignal(g, S) ==
    [sum   |-> SumFunction([b \in Groups(g, S) |-> Lag(Group(g, S, b))]),
     count |-> Cardinality(Groups(g, S)),
     max   |-> Max({Lag(Group(g, S, b)) : b \in Groups(g, S)})]

-----------------------------------------------------------------------------
\* Every variable has the values the code can give it; a bucket begins no later than
\* its events and no more than an hour before them.
TypeOK ==
    /\ now \in Nat /\ losses \in Nat
    /\ \A i \in Rows : /\ facts[i].kind \in Kinds
                        /\ facts[i].time \in Times /\ facts[i].processed \in Nat
    /\ hand \subseteq Rows /\ agg \subseteq Rows /\ batch \subseteq Rows
    /\ flush \in {"sleep", "minute", "hour", "dead"}
    /\ DOMAIN kpi = Grains
    /\ \A g \in Grains : \A b \in DOMAIN kpi[g] :
          /\ \E t \in Times : b \in (t - HourLength + 1)..t
          /\ kpi[g][b].revenue \in Nat /\ kpi[g][b].counts \in [Kinds -> Nat]

\* The rows no bucket of the grain contains yet: inserted, added, or drained.
Unwritten(g) == IF g = "minute" /\ flush = "hour" THEN {} ELSE batch
Pending(g) == hand \union agg \union Unwritten(g)
Settled == hand \union agg \union batch = {} /\ losses = 0
Everything(g, ch) == RangeRows(g, Start - Late - HourLength, End + Ahead, MaxFacts, ch)
Answered(P, k) == SumFunction([p \in P |-> p.counts[k]])

\* Whatever offsets the events carry and wherever inserts, adds, the two statements of a
\* flush and queries interleave, the two series of /kpi/minute and /kpi/hour show every
\* fact once, but for what is on its way and what a failure lost; also one whose
\* statement was executed and whose answer was lost.
EachFactShownOnce ==
    \A g \in Grains :
        LET series == Everything(g, AnyChannel)
        IN  \A k \in Kinds :
              LET shown == Answered(series, k) + HowMany(k, Pending(g))
              IN  /\ shown <= HowMany(k, Rows)
                  /\ losses = 0 => shown = HowMany(k, Rows)

\* No event's offset is out of step with the buckets of the grain.
Aligned(g) == \A i \in Rows : facts[i].offset % Length(g) = 0

\* One bucket, asked for as a range: Python's buckets and the database's agree, so that
\* the answers for the segments and the events without one add up to the whole.
SegmentsAddUp ==
    \A g \in Grains, k \in Kinds : Settled /\ Aligned(g) =>
        \A b \in Groups(g, Rows) :
            LET ask(ch) == Answered(RangeRows(g, b, b + Length(g) - 1, 1, ch), k)
                none    == {i \in Group(g, Rows, b) : facts[i].channel = NoChannel}
            IN  ask(AnyChannel) = SumFunction([ch \in Channels |-> ask(ch)]) + HowMany(k, none)

\* The facts round every amount and the aggregates every flush: the revenue of a bucket
\* differs by no more than a cent for each order, whether it is read from the aggregates
\* or from the facts, and the average order value by no more than a cent.
Near(x, y, d) == x - y <= d /\ y - x <= d
RoundingStaysSmall ==
    \A g \in Grains : Settled /\ Aligned(g) =>
        \A p \in View(g) : \E q \in Grouped(g, Rows) :
            /\ p.bucket = q.bucket
            /\ Near(p.revenue, q.revenue, p.counts["order"])
            /\ Near(p.average_order_value, q.average_order_value, 1)
            /\ p.conversion_rate = q.conversion_rate

\* A series without a segment consists of whole buckets: it shows every event of its
\* window but for those of a bucket the window cuts off at its start, and beyond the
\* window's end no more than the rest of the last bucket.  This is about the window: the
\* limit is MaxFacts here and never cuts, where the API's cuts off the newest buckets.
SeriesFitsWindow ==
    Settled => \A g \in Grains, from, to \in Times \union {NotGiven} :
        LET w     == Window(g, from, to)
            shown == RangeRows(g, w.from, w.to, MaxFacts, AnyChannel)
        IN  w.from <= w.to => \A k \in Kinds :
              /\ Answered(shown, k) >=
                    HowMany(k, Between(Rows, w.from + Length(g) - 1, w.to))
              /\ Answered(shown, k) <=
                    HowMany(k, Between(Rows, w.from, w.to + Length(g) - 1))

\* /kpi/latest and /metrics/freshness fit together.  The latest point is never younger
\* than the freshest event; when nothing is on its way or lost, it began less than a
\* bucket before that event.  It counts the event only where no offset is out of step
\* with the grain: an event with half an hour's offset may be the freshest and have an
\* hour bucket that another event's follows.
LatestIsFresh ==
    LET freshest == Min({Freshness(T) : T \in Tables \ {{}}})
    IN  \A g \in Grains : \A p \in LatestRow(g, AnyChannel) :
          /\ now - p.bucket >= freshest
          /\ Settled => now - p.bucket < freshest + Length(g)
          /\ Settled /\ Aligned(g) =>
               \A i \in Rows : now - facts[i].time = freshest =>
                  p.bucket = Bucket(g, facts[i]) /\ p.counts[facts[i].kind] > 0

\* What one call of /metrics/time-to-signal looks at, in one of the two tables; a window
\* that begins and ends with events stands for all that select them.
EventTimes == {facts[i].time : i \in Rows}
Selections == {S \in {Between(Segment(ch) \intersect T, from, to) :
                          ch \in Channels \union {AnyChannel}, T \in Tables,
                          from \in EventTimes, to \in EventTimes} : S # {}}
Delay(i) == facts[i].processed - facts[i].time
MaxDelay(S) == Max({Delay(i) : i \in S})

\* tests/test_kpi_accuracy_and_validation.py on time to signal: not negative, and the
\* maximum no less than the average.  That holds unless an event is dated ahead, and the
\* maximum does not exceed the largest delay of an event.
SignalWithinDelays ==
    \A S \in Selections, g \in Grains : (\A i \in S : Delay(i) >= 0) =>
        LET signal == TimeToSignal(g, S)
        IN  /\ 0 <= signal.sum /\ signal.sum <= signal.max * signal.count
            /\ signal.max <= MaxDelay(S)

\* api/kpi.py on /metrics/time-to-signal: "Returns average and max delay between
\* event_time and processed_time".
SignalIsMaxDelay ==
    \A g \in Grains, S \in Selections : TimeToSignal(g, S).max = MaxDelay(S)

\* api/kpi.py on /kpi/hour: "Returns KPI time series with hour granularity".  Two points
\* of the series lie an hour apart, or more.
HourGranularity ==
    \A p, q \in Everything("hour", AnyChannel) :
        p.bucket < q.bucket => q.bucket - p.bucket >= HourLength
=============================================================================

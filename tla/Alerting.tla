------------------------------- MODULE Alerting -------------------------------
(***************************************************************************)
(* services/alerting: one loop that looks at kpi_minute once a minute, for *)
(* each monitored KPI in turn, and stores an alert when the KPI deviates   *)
(* from its baseline in each of the most recent buckets.                   *)
(*                                                                         *)
(* A check is a row of separate queries on one connection, with no         *)
(* transaction around them: the stream processor writes kpi_minute and the *)
(* clock runs between any two of them.  Any query can raise; the loop      *)
(* catches that, skips the KPIs that were still to come, and sleeps.       *)
(*                                                                         *)
(* Time is counted in minutes, kpi_minute is a function of the minute, and *)
(* a KPI's value is counted in hundredths, in which revenue and the alerts *)
(* are stored.  The AVG of a query is kept as sum and count, so that       *)
(* thresholds are compared exactly; the numbers of an alert are rounded.   *)
(***************************************************************************)
EXTENDS Integers, Sequences, FiniteSets, FiniteSetsExt, Functions

CONSTANTS
    Services,      \* the monitored KPIs, in the order the loop checks them
    UpPct,         \* *_UP_THRESHOLD_PCT per KPI, in percent
    DownPct,       \* *_DOWN_THRESHOLD_PCT per KPI, in percent
    MinBaseline,   \* MIN_BASELINE, in hundredths
    Lookback,      \* LOOKBACK_MINUTES
    Window,        \* CURRENT_WINDOW_MINUTES
    Duration,      \* DURATION_MINUTES
    BaselineDays,  \* BASELINE_DAYS
    MinutesPerDay, \* length of the day (1440 in the code, a bound here)
    History,       \* kpi_minute when the model starts: minute -> row or Absent
    Start,         \* the minute the model starts in
    End,           \* bound: the clock stops here
    Late,          \* bound: how old an event_time may be, in minutes
    Ahead,         \* bound: how far an event_time may lie in the future
    Increments,    \* what one flush may add to a row: KPI -> number
    MaxValue,      \* bound: the largest value of each KPI in a row
    MaxFailures,   \* bound: queries that raise
    MaxDeaths,     \* bound: pool.acquire raises, which ends the process
    Absent         \* no row, no filter, no label

Kpis == {Services[i] : i \in DOMAIN Services}
Minutes == 0..(End + Ahead)

ASSUME ServicesAssumption == Services \in Seq(STRING) /\ Services # <<>>
ASSUME ThresholdAssumption == /\ UpPct \in [Kpis -> Nat] /\ DownPct \in [Kpis -> Nat]
                              /\ MinBaseline \in Nat \ {0}
ASSUME WindowAssumption == /\ {Lookback, Window, Duration} \subseteq Nat \ {0}
                           /\ {BaselineDays, MinutesPerDay} \subseteq Nat \ {0}
ASSUME BoundsAssumption == /\ {Start, End, Late, Ahead} \subseteq Nat
                           /\ {MaxFailures, MaxDeaths} \subseteq Nat
                           /\ MaxValue \in [Kpis -> Nat]
ASSUME DataAssumption == /\ Absent \notin [Kpis -> Nat]
                         /\ History \in [Minutes -> [Kpis -> Nat] \union {Absent}]
                         /\ Increments \subseteq [Kpis -> Nat]
ASSUME HistoryAssumption == \A m \in Minutes : m > Start + Ahead => History[m] = Absent

VARIABLES
    now,       \* the current minute
    table,     \* kpi_minute
    alerts,    \* the alerts table; "trail" is auxiliary, it records the check behind it
    pc,        \* the loop: "sleep", a query of check_and_alert, or "down"
    service,   \* index of the KPI being checked
    todo,      \* check_and_alert's buckets that were not looked at yet
    trail,     \* those that were, each with the direction it deviated in
    current,   \* the latest fetch_smoothed_current
    baseline,  \* the latest fetch_baseline
    failures, deaths

check == <<todo, trail, current, baseline>>
vars == <<now, table, alerts, pc, service, check, failures, deaths>>

NoAverage == [sum |-> 0, count |-> 0]
Kpi == Services[service]

Init == /\ now = Start
        /\ table = History
        /\ alerts = {}
        /\ pc = "sleep" /\ service = 1
        /\ todo = {} /\ trail = <<>>
        /\ current = NoAverage /\ baseline = NoAverage
        /\ failures = 0 /\ deaths = 0

-----------------------------------------------------------------------------
\* The environment: the clock and flush_kpis.

Tick == /\ now < End
        /\ now' = now + 1
        /\ UNCHANGED <<table, alerts, pc, service, check, failures, deaths>>

Added(row, inc) == IF row = Absent THEN inc ELSE [k \in Kpis |-> row[k] + inc[k]]

Write(m, inc) ==
    /\ m >= now - Late /\ m <= now + Ahead
    /\ \A k \in Kpis : Added(table[m], inc)[k] <= MaxValue[k]
    /\ table' = [table EXCEPT ![m] = Added(@, inc)]
    /\ UNCHANGED <<now, alerts, pc, service, check, failures, deaths>>

-----------------------------------------------------------------------------
\* The queries.

Rows(t) == {m \in Minutes : t[m] # Absent}

\* AVG over a set of rows; count 0 is the NULL of an empty set.
Average(t, k, ms) == [sum   |-> SumFunction([m \in ms |-> t[m][k]]),
                      count |-> Cardinality(ms)]

\* Mutant: ORDER BY bucket without DESC.
Mutant_Recent(t, cutoff) ==
    LET found == {m \in Rows(t) : m >= cutoff}
    IN  {m \in found : Cardinality({n \in found : n < m}) < Duration}

\* ORDER BY bucket DESC LIMIT Duration, from the cutoff on.
Recent(t, cutoff) ==
    LET found == {m \in Rows(t) : m >= cutoff}
    IN  {m \in found : Cardinality({n \in found : n > m}) < Duration}

\* bucket >= NOW() - Lookback: NOW() has seconds, so the oldest minute is in or out.
Cutoffs == {now - Lookback, now - Lookback + 1}

Smoothed(t, k, b) ==
    Average(t, k, {m \in Rows(t) : b - (Window - 1) <= m /\ m <= b})

\* The same minute of the previous days, or of the same weekday from 7 days on.
SamePeriod(m, b) ==
    LET cycle == IF BaselineDays >= 7 THEN 7 * MinutesPerDay ELSE MinutesPerDay
    IN  (b - m) % cycle = 0

Mutant_Reference(t, k, b) ==    \* Mutant: the bucket itself is in its own baseline.
    Average(t, k, {m \in Rows(t) : /\ b - BaselineDays * MinutesPerDay <= m /\ m <= b
                                   /\ SamePeriod(m, b)})

Reference(t, k, b) ==
    Average(t, k, {m \in Rows(t) : /\ b - BaselineDays * MinutesPerDay <= m /\ m < b
                                   /\ SamePeriod(m, b)})

-----------------------------------------------------------------------------
\* check_and_alert's judgement of one bucket: which way cur deviates from base, or
\* "none" when there is no usable baseline or the deviation is below its threshold.

Usable(base) == base.count > 0 /\ base.sum >= MinBaseline * base.count

\* Mutant: one threshold for both directions.
Mutant_Direction(k, cur, base) ==
    LET gap  == cur.sum * base.count - base.sum * cur.count
        unit == base.sum * cur.count
    IN  CASE ~Usable(base)                              -> "none"
          [] Usable(base) /\ gap > 0 /\ gap * 100 >= DownPct[k] * unit  -> "up"
          [] Usable(base) /\ gap < 0 /\ -gap * 100 >= DownPct[k] * unit -> "down"
          [] OTHER                                      -> "none"

Direction(k, cur, base) ==
    LET gap  == cur.sum * base.count - base.sum * cur.count
        unit == base.sum * cur.count
    IN  CASE ~Usable(base)                                            -> "none"
          [] Usable(base) /\ gap > 0 /\ gap * 100 >= UpPct[k] * unit    -> "up"
          [] Usable(base) /\ gap < 0 /\ -gap * 100 >= DownPct[k] * unit -> "down"
          [] OTHER                                                    -> "none"

-----------------------------------------------------------------------------
\* The loop.

Forget == todo' = {} /\ trail' = <<>> /\ current' = NoAverage /\ baseline' = NoAverage

\* Mutant: the last KPI is left out.
Mutant_Return ==
    /\ Forget
    /\ IF service + 1 < Len(Services)
       THEN service' = service + 1 /\ pc' = "recent"
       ELSE service' = 1 /\ pc' = "sleep"

\* check_and_alert returns: the next KPI is checked, or the loop sleeps.
Return ==
    /\ Forget
    /\ IF service < Len(Services)
       THEN service' = service + 1 /\ pc' = "recent"
       ELSE service' = 1 /\ pc' = "sleep"

Wake ==
    /\ pc = "sleep"
    /\ pc' = "recent"
    /\ UNCHANGED <<now, table, alerts, service, check, failures, deaths>>

FetchRecent(cutoff) ==
    /\ pc = "recent"
    /\ IF Cardinality(Recent(table, cutoff)) < Duration
       THEN Return
       ELSE /\ todo' = Recent(table, cutoff)
            /\ pc' = "current"
            /\ UNCHANGED <<service, trail, current, baseline>>
    /\ UNCHANGED <<now, table, alerts, failures, deaths>>

\* Mutant: the rows are not reversed, so the last one is the oldest.
Mutant_Bucket == CHOOSE b \in todo : \A c \in todo : b >= c

\* The buckets are looked at from the oldest to the latest.
Bucket == CHOOSE b \in todo : \A c \in todo : b <= c

FetchCurrent ==
    /\ pc = "current"
    /\ current' = Smoothed(table, Kpi, Bucket)
    /\ pc' = "baseline"
    /\ UNCHANGED <<now, table, alerts, service, todo, trail, baseline, failures, deaths>>

\* Mutant: a bucket that does not deviate is passed over, not a reason to return.
Mutant_FetchBaseline ==
    /\ pc = "baseline"
    /\ LET base == Reference(table, Kpi, Bucket)
           dir  == Direction(Kpi, current, base)
       IN  IF dir = "none" /\ Cardinality(todo) = 1
           THEN Return
           ELSE /\ baseline' = base
                /\ trail' = Append(trail, [bucket |-> Bucket, direction |-> dir])
                /\ todo' = todo \ {Bucket}
                /\ pc' = IF todo' = {} THEN "insert" ELSE "current"
                /\ UNCHANGED <<service, current>>
    /\ UNCHANGED <<now, table, alerts, failures, deaths>>

FetchBaseline ==
    /\ pc = "baseline"
    /\ LET base == Reference(table, Kpi, Bucket)
           dir  == Direction(Kpi, current, base)
       IN  IF dir = "none"
           THEN Return
           ELSE /\ baseline' = base
                /\ trail' = Append(trail, [bucket |-> Bucket, direction |-> dir])
                /\ todo' = todo \ {Bucket}
                /\ pc' = IF todo' = {} THEN "insert" ELSE "current"
                /\ UNCHANGED <<service, current>>
    /\ UNCHANGED <<now, table, alerts, failures, deaths>>

\* What the columns keep of sum / count, NUMERIC(14, 2): the nearest hundredth, the
\* greater one of two.
Rounded(avg) == (2 * avg.sum + avg.count) \div (2 * avg.count)

\* insert_alert's row: the numbers of the latest bucket.
Alert == [bucket    |-> trail[Len(trail)].bucket,
          kpi       |-> Kpi,
          current   |-> Rounded(current),
          baseline  |-> Rounded(baseline),
          direction |-> trail[Len(trail)].direction,
          created   |-> now,
          trail     |-> trail]

\* ON CONFLICT (bucket, kpi) DO NOTHING: the first alert of a bucket stays.
WithAlert ==
    IF \E a \in alerts : a.bucket = Alert.bucket /\ a.kpi = Kpi
    THEN alerts
    ELSE alerts \union {Alert}

InsertAlert ==
    /\ pc = "insert"
    /\ alerts' = WithAlert
    /\ Return
    /\ UNCHANGED <<now, table, failures, deaths>>

-----------------------------------------------------------------------------
\* Failures.

\* A query raises, the insert perhaps after it was executed; the except clause logs it,
\* the services that were still to come are skipped, and the loop sleeps.
QueryRaises ==
    /\ failures < MaxFailures
    /\ pc \in {"recent", "current", "baseline", "insert"}
    /\ failures' = failures + 1
    /\ alerts' \in IF pc = "insert" THEN {alerts, WithAlert} ELSE {alerts}
    /\ pc' = "sleep" /\ service' = 1
    /\ Forget
    /\ UNCHANGED <<now, table, deaths>>

\* pool.acquire is outside the try: its exception ends the process.
AcquireRaises ==
    /\ pc = "sleep" /\ deaths < MaxDeaths
    /\ pc' = "down"
    /\ deaths' = deaths + 1
    /\ UNCHANGED <<now, table, alerts, service, check, failures>>

Restart ==
    /\ pc = "down"
    /\ pc' = "sleep"
    /\ UNCHANGED <<now, table, alerts, service, check, failures, deaths>>

-----------------------------------------------------------------------------
Check == \/ Wake
         \/ \E c \in Cutoffs : FetchRecent(c)
         \/ FetchCurrent
         \/ FetchBaseline
         \/ InsertAlert

Next == \/ Tick
        \/ \E m \in Minutes, inc \in Increments : Write(m, inc)
        \/ Check
        \/ QueryRaises
        \/ AcquireRaises
        \/ Restart

Spec == Init /\ [][Next]_vars

\* The loop's task runs again whenever its query or its sleep is over.
FairSpec == Spec /\ WF_vars(Check)

\* The same with an operator who starts the service again each time it ended.
RecoveringSpec == FairSpec /\ WF_vars(Restart)

-----------------------------------------------------------------------------
\* ingest-api's GET /alerts, which reads the table at any moment.

AlertTypes == {"revenue", "views"}

ASSUME FilterAssumption == Absent \notin AlertTypes

\* Mutant: an alert type is looked up by its own name.
Mutant_KpiOf(type) == type

\* _map_alert_kpi: what a filter means to the query.
KpiOf(type) == IF type = "views" THEN "view_count" ELSE "revenue"

\* _alert_type_from_kpi: how a listed alert is labelled.
LabelOf(k) == CASE k = "revenue"    -> "revenue"
                [] k = "view_count" -> "views"
                [] OTHER            -> Absent

\* WHERE; a filter that is not given is Absent.
Matching(from, to, type) ==
    {a \in alerts : /\ from <= a.created /\ a.created <= to
                    /\ type = Absent \/ a.kpi = KpiOf(type)}

\* ORDER BY created_at DESC LIMIT; alerts of one time come in any order.
Answer(from, to, type, limit) ==
    LET found == Matching(from, to, type)
    IN  CHOOSE page \in SUBSET found :
            /\ Cardinality(page) = Min({limit, Cardinality(found)})
            /\ \A a \in page, b \in found \ page : a.created >= b.created

-----------------------------------------------------------------------------
Averages == [sum : Nat, count : Nat]
Trails == Seq([bucket : Minutes, direction : {"up", "down"}])

\* Every variable has the values the code can give it.
TypeOK ==
    /\ now \in Nat
    /\ table \in [Minutes -> [Kpis -> Nat] \union {Absent}]
    /\ \A a \in alerts : /\ a.bucket \in Minutes /\ a.kpi \in Kpis
                         /\ {a.current, a.baseline} \subseteq Nat
                         /\ a.direction \in {"up", "down"} /\ a.trail \in Trails
                         /\ a.created \in Nat
    /\ pc \in {"sleep", "recent", "current", "baseline", "insert", "down"}
    /\ service \in DOMAIN Services
    /\ todo \subseteq Minutes
    /\ trail \in Trails
    /\ current \in Averages /\ baseline \in Averages
    /\ failures \in Nat /\ deaths \in Nat

\* The alerts of a KPI move forward: whatever was written while a check ran, however
\* often a bucket is checked again, whether or not an insert that raised was executed
\* and across restarts, a bucket that is alerted lies behind every one alerted before.
AlertsAdvance ==
    [][\A new \in alerts' \ alerts, old \in alerts :
          new.kpi = old.kpi => old.bucket < new.bucket]_alerts

\* The stored numbers explain the alert as well as their two decimals can: each of them
\* stands for an average at most half a hundredth away, and there are two such averages
\* as far apart as the threshold of this KPI and this direction asks, whatever was
\* written between the queries and whatever way the other buckets went.  (The numbers
\* themselves need not be: 17.5 is half of 35, and the alert says 18.)
AlertExplainsItself ==
    \A a \in alerts :
        /\ a.baseline >= MinBaseline
        /\ a.direction = "up" =>
              100 * (2 * a.current + 1) >= (100 + UpPct[a.kpi]) * (2 * a.baseline - 1)
        /\ a.direction = "down" =>
              100 * (2 * a.current - 1) <= (100 - DownPct[a.kpi]) * (2 * a.baseline + 1)

\* An alert stands for the latest of Duration buckets that were looked at from old to
\* new and that all deviated: none was skipped, none was looked at twice.
AlertRestsOnItsBuckets ==
    \A a \in alerts :
        /\ Len(a.trail) = Duration
        /\ \A i, j \in DOMAIN a.trail : i < j => a.trail[i].bucket < a.trail[j].bucket
        /\ \A i \in DOMAIN a.trail : /\ a.trail[i].bucket <= a.bucket
                                     /\ a.trail[i].direction # "none"

\* A baseline is made of days that are over: neither a flush that runs between the
\* queries, nor one to the bucket itself, nor any later one changes what the bucket was
\* held to.  (With event times within a day of the clock: Late + Ahead < MinutesPerDay.)
BaselineIsHistory ==
    \A a \in alerts : a.baseline = Rounded(Reference(table, a.kpi, a.bucket))

\* What the alerts page shows fits together: an alert of the window is listed under the
\* filter that it is labelled with and under no other, and a list cut off by its limit
\* leaves out no alert that is newer than one it contains.
ListsFitTogether ==
    \A from \in Start..now, limit \in {1, 3} :
        LET list(type) == Answer(from, now, type, limit)
            Whole(type) == Cardinality(list(type)) < limit
            Stored == {a \in alerts : a.created >= from}
        IN  /\ \A type \in AlertTypes : \A a \in list(type) : LabelOf(a.kpi) = type
            /\ \A type \in AlertTypes \union {Absent} : Whole(type) =>
                  \A a \in Stored : type \in {LabelOf(a.kpi), Absent} => a \in list(type)
            /\ \A a \in Stored \ list(Absent) : \A b \in list(Absent) : b.created >= a.created

\* The most recent buckets deviate, all of them in the lookback for certain.
Newest == Recent(table, now - Lookback + 1)
Sustained(k) ==
    /\ Cardinality(Newest) = Duration
    /\ \A b \in Newest :
          Direction(k, Smoothed(table, k, b), Reference(table, k, b)) # "none"
Alerted(k) == \E a \in alerts : a.kpi = k /\ \A b \in Newest : b <= a.bucket

\* A deviation that lasts is reported, for every KPI, whatever query raised before:
\* a failure of one KPI's check delays the other's alert and does not lose it.
SustainedDeviationAlerts == \A k \in Kpis : <>[]Sustained(k) => <>[]Alerted(k)

\* settings.py on DURATION_MINUTES: "Minutes the deviation must persist".  A deviation
\* that persisted so long is one deviation, up or down, through that many minutes in a
\* row: no minute was passed over and none of them deviated the other way.
DeviationPersisted ==
    \A a \in alerts : \A i \in DOMAIN a.trail :
        /\ a.trail[i].bucket = a.bucket - (Duration - i)
        /\ a.trail[i].direction = a.direction

\* settings.py on LOOKBACK_MINUTES: "Lookback window for recent KPIs".  What an alert
\* rests on lies in that window, and so never in the future.
AlertLooksBack ==
    \A a \in alerts : \A i \in DOMAIN a.trail : a.trail[i].bucket <= now
=============================================================================

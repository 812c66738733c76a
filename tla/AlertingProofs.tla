----------------------------- MODULE AlertingProofs -----------------------------
(***************************************************************************)
(* What an alert rests on and what a list of alerts shows, for any KPIs,   *)
(* thresholds, windows, histories and writes.                              *)
(*                                                                         *)
(* An alert is stored at the end of a check that can be cut off anywhere.  *)
(* The invariant counts the buckets of the check: while it runs, those     *)
(* looked at and those still to be are Duration together, the former older *)
(* than the latter.  What the alert says of itself is followed in the same *)
(* way, through all that is written between the queries: its numbers and   *)
(* what rounding leaves of them, the days behind its baseline, which no    *)
(* later write reaches, and its bucket, which is ahead of every alert      *)
(* before it because rows never disappear.                                 *)
(***************************************************************************)
EXTENDS Alerting, Sums

\* A direction of a bucket of the trail is one it deviated in.
Deviations == [bucket : Minutes, direction : {"up", "down"}]

\* The buckets of a trail are in the order of time, each deviates, and bs come later.
Ascending(tr, bs) ==
    /\ tr \in Seq(Deviations)
    /\ \A i, j \in 1..Len(tr) : i < j => tr[i].bucket < tr[j].bucket
    /\ \A i \in 1..Len(tr) : \A b \in bs : tr[i].bucket < b

CheckCounts ==
    CASE pc \in {"current", "baseline"} -> todo # {} /\ Len(trail) + Cardinality(todo) = Duration
      [] pc = "insert"                  -> todo = {} /\ Len(trail) = Duration
      [] OTHER                          -> todo = {} /\ trail = <<>>

AlertRests(a) == /\ Ascending(a.trail, {}) /\ Len(a.trail) = Duration
                 /\ a.bucket = a.trail[Len(a.trail)].bucket

CheckInv == /\ todo \in SUBSET Minutes
            /\ Ascending(trail, todo)
            /\ CheckCounts
            /\ \A a \in alerts : AlertRests(a)

\* The minutes of the model are finitely many naturals.
LEMMA MinutesFacts == /\ Minutes \subseteq Nat
                      /\ \A ms \in SUBSET Minutes : IsFiniteSet(ms) /\ Cardinality(ms) \in Nat
<1>1. 0 \in Int /\ End + Ahead \in Int
  BY BoundsAssumption
<1>2. IsFiniteSet(Minutes) /\ Minutes \subseteq Nat
  BY <1>1, FS_Interval DEF Minutes
<1> QED
  BY <1>2, FS_Subset, FS_CardinalityType

\* A set of minutes has an oldest one, and without it one fewer.
LEMMA Oldest == ASSUME NEW ms \in SUBSET Minutes, ms # {}
                PROVE  /\ \E b \in ms : \A c \in ms : b <= c
                       /\ \A b \in ms : Cardinality(ms \ {b}) = Cardinality(ms) - 1
<1>1. \E b \in ms : \A c \in ms : b <= c
  BY MinutesFacts, Least
<1>2. \A b \in ms : Cardinality(ms \ {b}) = Cardinality(ms) - 1
  BY MinutesFacts, FS_RemoveElement
<1> QED
  BY <1>1, <1>2

\* The query's LIMIT: however many rows there are, no more than Duration are recent.
LEMMA RecentIsLimited == ASSUME NEW t, NEW cutoff
                         PROVE  /\ Recent(t, cutoff) \in SUBSET Minutes
                                /\ Cardinality(Recent(t, cutoff)) <= Duration
<1> DEFINE found == {m \in Rows(t) : m >= cutoff}
           recent == Recent(t, cutoff)
<1>1. recent \in SUBSET Minutes /\ found \in SUBSET Minutes /\ recent \subseteq found
  BY DEF Recent, Rows
<1>2. Duration \in Nat \ {0}
  BY WindowAssumption
<1>3. CASE recent = {}
  BY <1>1, <1>2, <1>3, FS_EmptySet
<1>4. CASE recent # {}
  <2>1. PICK b \in recent : \A c \in recent : b <= c
    BY <1>1, <1>4, Oldest
  <2> DEFINE later == {n \in found : n > b}
  <2>2. Cardinality(later) < Duration
    BY <2>1 DEF Recent
  <2>3. recent \ {b} \in SUBSET later
    <3> SUFFICES ASSUME NEW c \in recent, c # b PROVE c \in found /\ c > b
      OBVIOUS
    <3>1. c \in Nat /\ b \in Nat /\ b <= c
      BY <1>1, <2>1, MinutesFacts
    <3> HIDE DEF recent
    <3> QED
      BY <1>1, <3>1
  <2>4. later \in SUBSET Minutes
    BY <1>1
  <2>5. Cardinality(recent \ {b}) <= Cardinality(later)
    BY <2>3, <2>4, MinutesFacts, FS_Subset
  <2>6. Cardinality(recent \ {b}) = Cardinality(recent) - 1
    BY <1>1, <2>1, Oldest
  <2>7. Cardinality(recent) \in Nat /\ Cardinality(later) \in Nat
    BY <1>1, <2>4, MinutesFacts
  <2> HIDE DEF recent, later
  <2>8. Cardinality(recent) <= Duration
    BY <1>2, <2>2, <2>5, <2>6, <2>7
  <2> QED
    BY <1>1, <2>8 DEF recent
<1> QED
  BY <1>3, <1>4

\* A direction that is not "none" is up or down.
LEMMA DirectionValues == ASSUME NEW k, NEW cur, NEW base, Direction(k, cur, base) # "none"
                         PROVE  Direction(k, cur, base) \in {"up", "down"}
  BY DEF Direction

-----------------------------------------------------------------------------
\* The trail of a check that returns, or that has not begun, is empty.
LEMMA NothingLookedAt == Ascending(<<>>, {})
  BY DEF Ascending

\* What returning leaves: no check is under way.
LEMMA ReturnCounts == ASSUME Return \/ (Forget /\ pc' \in {"sleep", "recent", "down"})
                      PROVE  todo' \in SUBSET Minutes /\ Ascending(trail, todo)' /\ CheckCounts'
<1>1. todo' = {} /\ trail' = <<>> /\ pc' \in {"sleep", "recent", "down"}
  BY DEF Return, Forget
<1> QED
  BY <1>1, NothingLookedAt DEF CheckCounts, Ascending

\* A check begins with as many buckets as it is to look at.
LEMMA RecentKeeps == ASSUME CheckInv, NEW cutoff, FetchRecent(cutoff)
                     PROVE  todo' \in SUBSET Minutes /\ Ascending(trail, todo)' /\ CheckCounts'
<1> DEFINE found == Recent(table, cutoff)
<1>1. CASE Return
  BY <1>1, ReturnCounts
<1>2. CASE ~Return
  <2>1. /\ pc = "recent" /\ pc' = "current" /\ todo' = found /\ trail' = trail
        /\ ~(Cardinality(found) < Duration)
    BY <1>2 DEF FetchRecent
  <2>2. found \in SUBSET Minutes /\ Cardinality(found) <= Duration /\ Cardinality(found) \in Nat
    BY RecentIsLimited, MinutesFacts
  <2>3. Duration \in Nat \ {0}
    BY WindowAssumption
  <2>4. Cardinality(found) = Duration
    BY <2>1, <2>2, <2>3
  <2>5. found # {}
    BY <2>3, <2>4, FS_EmptySet
  <2>6. trail = <<>>
    BY <2>1 DEF CheckInv, CheckCounts
  <2>7. Ascending(<<>>, found)
    BY DEF Ascending
  <2>8. Len(<<>>) + Cardinality(found) = Duration
    BY <2>3, <2>4
  <2> QED
    BY <2>1, <2>2, <2>5, <2>6, <2>7, <2>8 DEF CheckCounts
<1> QED
  BY <1>1, <1>2

\* A bucket that deviates is added at the end of the trail, and the next is later.
LEMMA BaselineKeeps == ASSUME CheckInv, FetchBaseline
                       PROVE  todo' \in SUBSET Minutes /\ Ascending(trail, todo)' /\ CheckCounts'
<1> DEFINE dir == Direction(Kpi, current, Reference(table, Kpi, Bucket))
           new == [bucket |-> Bucket, direction |-> dir]
<1>1. CASE Return
  BY <1>1, ReturnCounts
<1>2. CASE ~Return
  <2>1. /\ pc = "baseline" /\ dir # "none"
        /\ trail' = Append(trail, new) /\ todo' = todo \ {Bucket}
        /\ pc' = IF todo' = {} THEN "insert" ELSE "current"
    BY <1>2 DEF FetchBaseline
  <2>2. /\ todo \in SUBSET Minutes /\ todo # {} /\ Len(trail) + Cardinality(todo) = Duration
        /\ Ascending(trail, todo)
    BY <2>1 DEF CheckInv, CheckCounts
  <2>3. Bucket \in todo /\ \A c \in todo : Bucket <= c
    BY <2>2, Oldest DEF Bucket
  <2>4. new \in Deviations
    BY <2>1, <2>2, <2>3, DirectionValues DEF Deviations
  <2>5. /\ Cardinality(todo') = Cardinality(todo) - 1 /\ Cardinality(todo) \in Nat
        /\ Cardinality(todo') \in Nat /\ todo' \in SUBSET Minutes
    BY <2>1, <2>2, <2>3, Oldest, MinutesFacts
  <2>6. trail \in Seq(Deviations) /\ Len(trail) \in Nat /\ Len(trail') = Len(trail) + 1
    BY <2>1, <2>2 DEF Ascending
  <2>7. Len(trail') + Cardinality(todo') = Duration
    BY <2>2, <2>5, <2>6
  <2>8. Ascending(trail, todo)'
    <3>1. trail' \in Seq(Deviations)
      BY <2>1, <2>4, <2>6
    <3>2. /\ \A i \in 1..Len(trail) : trail'[i] = trail[i]
          /\ trail'[Len(trail) + 1] = new
      BY <2>1, <2>4, <2>6
    <3>3. \A i \in 1..Len(trail) : trail[i].bucket < Bucket
      BY <2>2, <2>3 DEF Ascending
    <3>4. \A i, j \in 1..Len(trail') : i < j => trail'[i].bucket < trail'[j].bucket
      <4> SUFFICES ASSUME NEW i \in 1..Len(trail'), NEW j \in 1..Len(trail'), i < j
                   PROVE  trail'[i].bucket < trail'[j].bucket
        OBVIOUS
      <4>1. i \in 1..Len(trail) /\ (j \in 1..Len(trail) \/ j = Len(trail) + 1)
        BY <2>6
      <4>2. trail'[i] = trail[i]
        BY <3>2, <4>1
      <4>3. CASE j \in 1..Len(trail)
        BY <2>2, <3>2, <4>1, <4>2, <4>3 DEF Ascending
      <4>4. CASE j = Len(trail) + 1
        BY <3>2, <3>3, <4>1, <4>2, <4>4
      <4> QED
        BY <4>1, <4>3, <4>4
    <3>5. \A i \in 1..Len(trail') : \A b \in todo' : trail'[i].bucket < b
      <4> SUFFICES ASSUME NEW i \in 1..Len(trail'), NEW b \in todo' PROVE trail'[i].bucket < b
        OBVIOUS
      <4>1. b \in todo /\ b # Bucket /\ b \in Nat /\ Bucket \in Nat /\ Bucket <= b
        BY <2>1, <2>2, <2>3, MinutesFacts
      <4>2. CASE i \in 1..Len(trail)
        BY <2>2, <3>2, <4>1, <4>2 DEF Ascending
      <4>3. CASE i = Len(trail) + 1
        BY <3>2, <4>1, <4>3
      <4> QED
        BY <2>6, <4>2, <4>3
    <3> QED
      BY <3>1, <3>4, <3>5 DEF Ascending
  <2>9. CASE todo' = {}
    <3>1. Cardinality(todo') = 0
      BY <2>9, FS_EmptySet
    <3>2. Len(trail') = Duration
      BY <2>6, <2>7, <3>1
    <3> QED
      BY <2>1, <2>5, <2>8, <2>9, <3>2 DEF CheckCounts
  <2>10. CASE todo' # {}
    BY <2>1, <2>5, <2>7, <2>8, <2>10 DEF CheckCounts
  <2> QED
    BY <2>9, <2>10
<1> QED
  BY <1>1, <1>2

\* What is stored at the end of a check rests on all of its buckets.
LEMMA AlertsKeep == ASSUME CheckInv, pc = "insert", NEW a \in WithAlert PROVE AlertRests(a)
<1>1. a \in alerts \/ a = Alert
  BY DEF WithAlert
<1>2. Alert.trail = trail /\ Alert.bucket = trail[Len(trail)].bucket
  BY DEF Alert
<1>3. Ascending(trail, {}) /\ Len(trail) = Duration
  BY DEF CheckInv, CheckCounts
<1> QED
  BY <1>1, <1>2, <1>3 DEF CheckInv, AlertRests

\* Every step keeps the count.
LEMMA CheckStep == ASSUME CheckInv, [Next]_vars PROVE CheckInv'
<1>1. \A a \in alerts' : AlertRests(a)
  <2>1. alerts' = alerts \/ (pc = "insert" /\ alerts' = WithAlert)
    BY DEF Next, vars, Tick, Write, Check, Wake, FetchRecent, FetchCurrent, FetchBaseline,
           InsertAlert, QueryRaises, AcquireRaises, Restart
  <2> QED
    BY <2>1, AlertsKeep DEF CheckInv
<1>2. todo' \in SUBSET Minutes /\ Ascending(trail, todo)' /\ CheckCounts'
  <2>1. CASE \E c \in Cutoffs : FetchRecent(c)
    BY <2>1, RecentKeeps
  <2>2. CASE FetchBaseline
    BY <2>2, BaselineKeeps
  <2>3. CASE InsertAlert \/ QueryRaises
    BY <2>3, ReturnCounts DEF InsertAlert, QueryRaises
  <2>4. CASE Wake \/ AcquireRaises \/ Restart
    BY <2>4 DEF Wake, AcquireRaises, Restart, check, CheckInv, CheckCounts
  <2>5. CASE FetchCurrent
    BY <2>5 DEF FetchCurrent, CheckInv, CheckCounts
  <2>6. CASE UNCHANGED <<pc, todo, trail>>
    BY <2>6 DEF CheckInv, CheckCounts
  <2> QED
    BY <2>1, <2>2, <2>3, <2>4, <2>5, <2>6 DEF Next, vars, check, Check, Tick, Write
<1> QED
  BY <1>1, <1>2 DEF CheckInv

\* Behind every alert are as many buckets as DURATION_MINUTES asks for, each of them
\* looked at once, from old to new, and each a deviation.
THEOREM AlertRestsOnItsBucketsHolds == Spec => []AlertRestsOnItsBuckets
<1>1. Init => CheckInv
  BY NothingLookedAt DEF Init, CheckInv, CheckCounts
<1>2. ASSUME CheckInv PROVE AlertRestsOnItsBuckets
  <2> SUFFICES ASSUME NEW a \in alerts
               PROVE  /\ Len(a.trail) = Duration
                      /\ \A i, j \in DOMAIN a.trail : i < j => a.trail[i].bucket < a.trail[j].bucket
                      /\ \A i \in DOMAIN a.trail : /\ a.trail[i].bucket <= a.bucket
                                                   /\ a.trail[i].direction # "none"
    BY DEF AlertRestsOnItsBuckets
  <2>1. AlertRests(a)
    BY <1>2 DEF CheckInv
  <2>2. /\ a.trail \in Seq(Deviations) /\ Len(a.trail) = Duration /\ Duration \in Nat \ {0}
        /\ DOMAIN a.trail = 1..Len(a.trail)
    BY <2>1, WindowAssumption DEF AlertRests, Ascending
  <2>3. \A i, j \in DOMAIN a.trail : i < j => a.trail[i].bucket < a.trail[j].bucket
    BY <2>1, <2>2 DEF AlertRests, Ascending
  <2>4. ASSUME NEW i \in DOMAIN a.trail
        PROVE  a.trail[i].bucket <= a.bucket /\ a.trail[i].direction # "none"
    <3>1. a.trail[i] \in Deviations /\ a.trail[Len(a.trail)] \in Deviations
      BY <2>2
    <3>2. a.trail[i].bucket \in Nat /\ a.trail[i].direction # "none"
      BY <3>1, MinutesFacts DEF Deviations
    <3>3. CASE i = Len(a.trail)
      BY <2>1, <3>2, <3>3 DEF AlertRests
    <3>4. CASE i < Len(a.trail)
      <4>1. Len(a.trail) \in DOMAIN a.trail
        BY <2>2
      <4>2. a.trail[i].bucket < a.bucket
        BY <2>1, <2>3, <3>4, <4>1 DEF AlertRests
      <4>3. a.bucket \in Nat
        BY <2>1, <3>1, MinutesFacts DEF AlertRests, Deviations
      <4> QED
        BY <3>2, <4>2, <4>3
    <3> QED
      BY <2>2, <3>3, <3>4
  <2> QED
    BY <2>2, <2>3, <2>4
<1> QED
  BY <1>1, <1>2, CheckStep, PTL DEF Spec

-----------------------------------------------------------------------------
(* Types.                                                                  *)

\* A trail of deviations is a trail.
LEMMA TrailTypes == Trails = Seq(Deviations)
  BY DEF Trails, Deviations

\* A KPI is being checked.
LEMMA KpiIsOne == ASSUME service \in DOMAIN Services PROVE Kpi \in Kpis
  BY DEF Kpi, Kpis

\* An average over rows of the table is one of natural numbers.
LEMMA AverageTypes == ASSUME NEW t \in [Minutes -> [Kpis -> Nat] \union {Absent}], NEW k \in Kpis,
                             NEW ms \in SUBSET Rows(t)
                      PROVE  Average(t, k, ms) \in Averages
<1> DEFINE values == [m \in ms |-> t[m][k]]
<1>1. IsFiniteSet(ms) /\ Cardinality(ms) \in Nat
  BY MinutesFacts DEF Rows
<1>2. \A m \in ms : values[m] \in Nat
  BY DEF Rows
<1>3. DOMAIN values = ms
  OBVIOUS
<1> HIDE DEF values
<1>4. SumFunction(values) \in Nat
  BY <1>1, <1>2, <1>3, SumNat DEF SumFunction
<1> QED
  BY <1>1, <1>4 DEF Average, Averages, values

\* So are the queries' averages.
LEMMA QueryTypes == ASSUME TypeOK, NEW b
                    PROVE  Smoothed(table, Kpi, b) \in Averages /\ Reference(table, Kpi, b) \in Averages
<1>1. table \in [Minutes -> [Kpis -> Nat] \union {Absent}] /\ Kpi \in Kpis
  BY KpiIsOne DEF TypeOK
<1> QED
  BY <1>1, AverageTypes DEF Smoothed, Reference

\* What a flush leaves is a table.
LEMMA WriteTypes == ASSUME TypeOK, NEW m \in Minutes, NEW inc \in Increments, Write(m, inc)
                    PROVE  table' \in [Minutes -> [Kpis -> Nat] \union {Absent}]
<1>1. inc \in [Kpis -> Nat]
  BY DataAssumption
<1>2. table[m] = Absent \/ table[m] \in [Kpis -> Nat]
  BY DEF TypeOK
<1>3. Added(table[m], inc) \in [Kpis -> Nat]
  BY <1>1, <1>2 DEF Added
<1> QED
  BY <1>3 DEF Write, TypeOK

\* The buckets of a check have rows, so the averages it is made of are no NULLs.
CountInv == /\ todo \subseteq Rows(table)
            /\ pc \in {"baseline", "insert"} => current.count > 0
            /\ pc = "insert" => baseline.count > 0

\* No row is ever taken away.
LEMMA RowsStay == ASSUME TypeOK, [Next]_vars PROVE Rows(table) \subseteq Rows(table')
<1>1. CASE \E m \in Minutes, inc \in Increments : Write(m, inc)
  <2>1. PICK m \in Minutes : \E inc \in Increments : Write(m, inc)
    BY <1>1
  <2>2. PICK inc \in Increments : Write(m, inc)
    BY <2>1
  <2>3. inc \in [Kpis -> Nat] /\ (table[m] = Absent \/ table[m] \in [Kpis -> Nat])
    BY DataAssumption DEF TypeOK
  <2>4. Added(table[m], inc) \in [Kpis -> Nat]
    BY <2>3 DEF Added
  <2>5. table'[m] # Absent /\ \A n \in Minutes : n # m => table'[n] = table[n]
    BY <2>2, <2>4, DataAssumption DEF Write, TypeOK
  <2> QED
    BY <2>5 DEF Rows
<1>2. CASE table' = table
  BY <1>2
<1> QED
  BY <1>1, <1>2 DEF Next, vars, Tick, Check, Wake, FetchRecent, FetchCurrent, FetchBaseline,
                    InsertAlert, QueryRaises, AcquireRaises, Restart

\* The window of a bucket that has a row has a row.
LEMMA SmoothedCounts == ASSUME NEW t, NEW k, NEW b \in Rows(t) PROVE Smoothed(t, k, b).count > 0
<1> DEFINE window == {m \in Rows(t) : b - (Window - 1) <= m /\ m <= b}
<1>1. window \in SUBSET Minutes
  BY DEF Rows
<1>2. b \in window
  <2>1. b \in Nat /\ Window \in Nat \ {0}
    BY MinutesFacts, WindowAssumption DEF Rows
  <2>2. b - (Window - 1) <= b
    BY <2>1
  <2> QED
    BY <2>1, <2>2
<1>3. Smoothed(t, k, b).count = Cardinality(window)
  BY DEF Smoothed, Average
<1>4. IsFiniteSet(window) /\ Cardinality(window) \in Nat /\ Cardinality(window) # 0
  <2> HIDE DEF window
  <2> QED
    BY <1>1, <1>2, MinutesFacts, FS_EmptySet
<1> QED
  BY <1>3, <1>4

\* A baseline with no row is not usable: its bucket does not deviate.
LEMMA CountStep == ASSUME TypeOK, CheckInv, CountInv, [Next]_vars PROVE CountInv'
<1>1. Rows(table) \subseteq Rows(table')
  BY RowsStay
<1>2. CASE todo' = {} /\ pc' \in {"sleep", "recent", "down"}
  BY <1>2 DEF CountInv
<1>3. CASE \E c \in Cutoffs : FetchRecent(c) /\ ~Return
  <2>1. todo' \subseteq Rows(table) /\ pc' = "current"
    BY <1>3 DEF FetchRecent, Recent
  <2> QED
    BY <1>1, <2>1 DEF CountInv
<1>4. CASE FetchCurrent
  <2>1. Bucket \in todo
    BY <1>4, Oldest DEF FetchCurrent, CheckInv, CheckCounts, Bucket
  <2>2. Smoothed(table, Kpi, Bucket).count > 0
    BY <2>1, SmoothedCounts DEF CountInv
  <2> QED
    BY <1>1, <1>4, <2>2 DEF FetchCurrent, CountInv
<1>5. CASE FetchBaseline /\ ~Return
  <2> DEFINE base == Reference(table, Kpi, Bucket)
  <2>1. /\ Direction(Kpi, current, base) # "none" /\ baseline' = base /\ current' = current
        /\ todo' \subseteq todo /\ pc' \in {"insert", "current"} /\ pc = "baseline"
    BY <1>5 DEF FetchBaseline
  <2>2. base.count > 0
    BY <2>1 DEF Direction, Usable
  <2> QED
    BY <1>1, <2>1, <2>2 DEF CountInv
<1>6. CASE UNCHANGED <<pc, todo, current, baseline>>
  BY <1>1, <1>6 DEF CountInv
<1>7. CASE Return \/ (Forget /\ pc' = "sleep")
  BY <1>2, <1>7 DEF Return, Forget
<1>8. CASE Wake \/ AcquireRaises \/ Restart
  <2>1. todo' = todo /\ pc \in {"sleep", "down"} /\ pc' \in {"sleep", "recent", "down"}
    BY <1>8 DEF Wake, AcquireRaises, Restart, check
  <2>2. todo' = {}
    BY <2>1 DEF CheckInv, CheckCounts
  <2> QED
    BY <1>2, <2>1, <2>2
<1> QED
  BY <1>3, <1>4, <1>5, <1>6, <1>7, <1>8
     DEF Next, vars, check, Check, Tick, Write, InsertAlert, QueryRaises

\* Quotient and remainder.
LEMMA Quotient == ASSUME NEW n \in Nat, NEW d \in Nat \ {0}
                  PROVE  /\ n \div d \in Nat
                         /\ d * (n \div d) <= n /\ n < d * (n \div d) + d
<1> DEFINE q == n \div d
           rest == n % d
<1>1. n = d * q + rest /\ rest \in 0..(d - 1) /\ q \in Int
  OBVIOUS
<1>2. q \in Nat
  OBVIOUS
<1> HIDE DEF q, rest
<1>3. d * q <= n /\ n < d * q + d
  BY <1>1
<1> QED
  BY <1>2, <1>3 DEF q

\* What a column keeps is no more than half a hundredth from the average.
LEMMA RoundedIsNear ==
    ASSUME NEW avg \in Averages, avg.count > 0
    PROVE  /\ Rounded(avg) \in Nat
           /\ avg.count * (2 * Rounded(avg) + 1) > 2 * avg.sum
           /\ avg.count * (2 * Rounded(avg) - 1) <= 2 * avg.sum
<1> DEFINE n == 2 * avg.sum + avg.count
           d == 2 * avg.count
           q == n \div d
<1>1. avg.sum \in Nat /\ avg.count \in Nat \ {0}
  BY DEF Averages
<1>2. n \in Nat /\ d \in Nat \ {0}
  BY <1>1
<1>3. q \in Nat /\ d * q <= n /\ n < d * q + d
  <2> HIDE DEF n, d
  <2> QED
    BY <1>2, Quotient
<1>4. Rounded(avg) = q
  BY DEF Rounded
<1> HIDE DEF q
<1>5. /\ d * q = avg.count * (2 * q)
      /\ avg.count * (2 * q + 1) = avg.count * (2 * q) + avg.count
      /\ avg.count * (2 * q - 1) = avg.count * (2 * q) - avg.count
      /\ avg.count * (2 * q) \in Int
  BY <1>1, <1>3
<1> QED
  BY <1>1, <1>3, <1>4, <1>5

\* At the end of a check an alert has its latest bucket, which deviated.
LEMMA InsertTypes == ASSUME TypeOK, CheckInv, CountInv, pc = "insert"
                     PROVE  /\ Len(trail) \in 1..Len(trail) /\ trail[Len(trail)] \in Deviations
                            /\ Alert.bucket \in Minutes /\ Alert.kpi \in Kpis
                            /\ {Alert.current, Alert.baseline} \subseteq Nat
                            /\ Alert.direction \in {"up", "down"} /\ Alert.trail \in Trails
                            /\ Alert.created \in Nat
<1>1. trail \in Seq(Deviations) /\ Len(trail) = Duration /\ Duration \in Nat \ {0}
  BY WindowAssumption DEF CheckInv, CheckCounts, Ascending
<1>2. Len(trail) \in 1..Len(trail) /\ trail[Len(trail)] \in Deviations
  BY <1>1
<1>3. Kpi \in Kpis
  BY KpiIsOne DEF TypeOK
<1>4. Rounded(current) \in Nat /\ Rounded(baseline) \in Nat
  BY RoundedIsNear DEF TypeOK, CountInv
<1>5. {Alert.current, Alert.baseline} \subseteq Nat
  BY <1>4 DEF Alert
<1> QED
  BY <1>2, <1>3, <1>5 DEF Alert, TypeOK, Deviations

\* The next KPI, or the first again.
LEMMA ReturnTypes == ASSUME TypeOK, Return \/ (Forget /\ service' = 1 /\ pc' = "sleep")
                     PROVE  /\ service' \in DOMAIN Services /\ pc' \in {"recent", "sleep"}
                            /\ current' \in Averages /\ baseline' \in Averages
<1>1. service \in DOMAIN Services /\ DOMAIN Services = 1..Len(Services) /\ Len(Services) \in Nat \ {0}
  BY ServicesAssumption DEF TypeOK
<1>2. NoAverage \in Averages
  BY DEF NoAverage, Averages
<1> QED
  BY <1>1, <1>2 DEF Return, Forget

\* Each step keeps the types.
LEMMA TypeStep == ASSUME TypeOK, CheckInv, CountInv, [Next]_vars PROVE TypeOK'
<1>1. CheckInv'
  BY CheckStep
<1>2. todo' \subseteq Minutes /\ trail' \in Trails
  BY <1>1, TrailTypes DEF CheckInv, Ascending
<1>3. /\ now' \in Nat /\ failures' \in Nat /\ deaths' \in Nat
  BY DEF Next, vars, Tick, Write, Check, Wake, FetchRecent, FetchCurrent, FetchBaseline,
         InsertAlert, QueryRaises, AcquireRaises, Restart, TypeOK
<1>4. table' \in [Minutes -> [Kpis -> Nat] \union {Absent}]
  <2>1. table' = table \/ \E m \in Minutes, inc \in Increments : Write(m, inc)
    BY DEF Next, vars, Tick, Check, Wake, FetchRecent, FetchCurrent, FetchBaseline,
           InsertAlert, QueryRaises, AcquireRaises, Restart
  <2> QED
    BY <2>1, WriteTypes DEF TypeOK
<1>5. \A a \in alerts' : /\ a.bucket \in Minutes /\ a.kpi \in Kpis
                         /\ {a.current, a.baseline} \subseteq Nat
                         /\ a.direction \in {"up", "down"} /\ a.trail \in Trails
                         /\ a.created \in Nat
  <2>1. alerts' = alerts \/ (pc = "insert" /\ alerts' \subseteq alerts \union {Alert})
    BY DEF Next, vars, Tick, Write, Check, Wake, FetchRecent, FetchCurrent, FetchBaseline,
           InsertAlert, QueryRaises, AcquireRaises, Restart, WithAlert
  <2> QED
    BY <2>1, InsertTypes DEF TypeOK
<1>6. /\ service' \in DOMAIN Services
      /\ pc' \in {"sleep", "recent", "current", "baseline", "insert", "down"}
      /\ current' \in Averages /\ baseline' \in Averages
  <2>1. CASE Return \/ QueryRaises
    BY <2>1, ReturnTypes DEF QueryRaises
  <2>2. CASE ~Return /\ \E c \in Cutoffs : FetchRecent(c)
    BY <2>2 DEF FetchRecent, TypeOK
  <2>3. CASE FetchCurrent
    BY <2>3, QueryTypes DEF FetchCurrent, TypeOK
  <2>4. CASE ~Return /\ FetchBaseline
    <3>1. baseline' = Reference(table, Kpi, Bucket) /\ pc' \in {"insert", "current"}
          /\ UNCHANGED <<service, current>>
      BY <2>4 DEF FetchBaseline
    <3> QED
      BY <3>1, QueryTypes DEF TypeOK
  <2>5. CASE Wake \/ AcquireRaises \/ Restart \/ Tick \/ (\E m \in Minutes, inc \in Increments : Write(m, inc))
             \/ UNCHANGED vars
    BY <2>5 DEF Wake, AcquireRaises, Restart, Tick, Write, vars, check, TypeOK
  <2>6. InsertAlert => Return
    BY DEF InsertAlert
  <2> QED
    BY <2>1, <2>2, <2>3, <2>4, <2>5, <2>6 DEF Next, Check
<1> QED
  BY <1>2, <1>3, <1>4, <1>5, <1>6 DEF TypeOK

\* What holds of the check in every state.
THEOREM CheckInvariance == Spec => []CheckInv
<1>1. Init => CheckInv
  BY NothingLookedAt DEF Init, CheckInv, CheckCounts
<1> QED
  BY <1>1, CheckStep, PTL DEF Spec

\* Types and counts rest on each other.
LEMMA TypeInvariance == Spec => [](TypeOK /\ CountInv)
<1>1. Init => TypeOK /\ CountInv
  <2>1. 1 \in DOMAIN Services /\ NoAverage \in Averages /\ <<>> \in Trails
    BY ServicesAssumption DEF NoAverage, Averages, Trails
  <2> QED
    BY <2>1, BoundsAssumption, DataAssumption DEF Init, TypeOK, CountInv
<1>2. TypeOK /\ CountInv /\ CheckInv /\ [Next]_vars => TypeOK' /\ CountInv'
  BY TypeStep, CountStep
<1> QED
  BY <1>1, <1>2, CheckInvariance, PTL DEF Spec

\* Every variable keeps to the values the code can give it.
THEOREM TypeCorrect == Spec => []TypeOK
  BY TypeInvariance, PTL

-----------------------------------------------------------------------------
(* The numbers of an alert.                                                *)

\* What a direction says of the two averages: cur deviates from base by the threshold.
Deviates(k, cur, base, dir) ==
    /\ base.sum >= MinBaseline * base.count
    /\ dir = "up"   => cur.sum * base.count * 100 >= (100 + UpPct[k]) * (base.sum * cur.count)
    /\ dir = "down" => cur.sum * base.count * 100 <= (100 - DownPct[k]) * (base.sum * cur.count)

\* A share of a whole, added to it or taken from it.
LEMMA Shares == ASSUME NEW x \in Int, NEW y \in Int, NEW p \in Int
                PROVE  /\ (x - y) * 100 >= p * y => x * 100 >= (100 + p) * y
                       /\ -(x - y) * 100 >= p * y => x * 100 <= (100 - p) * y
  OBVIOUS

\* The judgement of a bucket is right about its numbers.
LEMMA DirectionMeans ==
    ASSUME NEW k \in Kpis, NEW cur \in Averages, NEW base \in Averages,
           Direction(k, cur, base) # "none"
    PROVE  Deviates(k, cur, base, Direction(k, cur, base))
<1> DEFINE x == cur.sum * base.count
           y == base.sum * cur.count
<1>1. /\ cur.sum \in Nat /\ cur.count \in Nat /\ base.sum \in Nat /\ base.count \in Nat
      /\ UpPct[k] \in Nat /\ DownPct[k] \in Nat
  BY ThresholdAssumption DEF Averages
<1>2. x \in Int /\ y \in Int
  BY <1>1
<1>3. Usable(base)
  BY DEF Direction
<1>4. Direction(k, cur, base) = "up" => (x - y) * 100 >= UpPct[k] * y
  BY DEF Direction
<1>5. Direction(k, cur, base) = "down" => -(x - y) * 100 >= DownPct[k] * y
  BY DEF Direction
<1> HIDE DEF x, y
<1>6. /\ Direction(k, cur, base) = "up" => x * 100 >= (100 + UpPct[k]) * y
      /\ Direction(k, cur, base) = "down" => x * 100 <= (100 - DownPct[k]) * y
  BY <1>1, <1>2, <1>4, <1>5, Shares
<1> QED
  BY <1>3, <1>6 DEF x, y, Usable, Deviates

\* What is left of that in the rounded numbers.
Explains(k, c, b, dir) ==
    /\ b >= MinBaseline
    /\ dir = "up"   => 100 * (2 * c + 1) >= (100 + UpPct[k]) * (2 * b - 1)
    /\ dir = "down" => 100 * (2 * c - 1) <= (100 - DownPct[k]) * (2 * b + 1)

\* A positive factor can be taken out of an inequality.
LEMMA Cancels == ASSUME NEW z \in Nat \ {0}, NEW x \in Int, NEW y \in Int, z * x >= z * y
                 PROVE  x >= y
<1> SUFFICES ASSUME x < y PROVE FALSE
  OBVIOUS
<1>1. y - x \in Nat \ {0} /\ z * (y - x) = z * y - z * x
  OBVIOUS
<1>2. z * (y - x) > 0
  BY <1>1
<1> QED
  BY <1>1, <1>2

\* A product of positive numbers is positive.
LEMMA Positive == ASSUME NEW x \in Nat \ {0}, NEW y \in Nat \ {0} PROVE x * y \in Nat \ {0}
  OBVIOUS

\* An inequality can be multiplied by a factor that is not negative.
LEMMA Multiplies == ASSUME NEW z \in Nat, NEW x \in Int, NEW y \in Int, x >= y
                    PROVE  z * x >= z * y
<1>1. x - y \in Nat /\ z * (x - y) = z * x - z * y
  OBVIOUS
<1>2. z * (x - y) >= 0
  BY <1>1
<1> QED
  BY <1>1, <1>2

\* Rounding moves either number by less than the explanation allows.
LEMMA RoundedExplains ==
    ASSUME NEW k \in Kpis, NEW cur \in Averages, NEW base \in Averages, NEW dir,
           cur.count > 0, base.count > 0, Deviates(k, cur, base, dir)
    PROVE  Explains(k, Rounded(cur), Rounded(base), dir)
<1> DEFINE cs == cur.sum
           cc == cur.count
           bs == base.sum
           bc == base.count
           c == Rounded(cur)
           b == Rounded(base)
           up == UpPct[k]
           down == DownPct[k]
<1>1. cs \in Nat /\ cc \in Nat \ {0} /\ bs \in Nat /\ bc \in Nat \ {0} /\ up \in Nat /\ down \in Nat
  BY ThresholdAssumption DEF Averages
<1>2. /\ c \in Nat /\ cc * (2 * c + 1) > 2 * cs /\ cc * (2 * c - 1) <= 2 * cs
      /\ b \in Nat /\ bc * (2 * b + 1) > 2 * bs /\ bc * (2 * b - 1) <= 2 * bs
  BY RoundedIsNear
<1>3. /\ bs >= MinBaseline * bc /\ MinBaseline \in Nat \ {0}
      /\ dir = "up" => cs * bc * 100 >= (100 + up) * (bs * cc)
      /\ dir = "down" => cs * bc * 100 <= (100 - down) * (bs * cc)
  BY ThresholdAssumption DEF Deviates
<1> HIDE DEF cs, cc, bs, bc, c, b, up, down
<1>4. b >= MinBaseline
  <2>1. bc * (2 * b + 1) >= bc * (2 * MinBaseline)
    <3>1. bc * (2 * MinBaseline) = 2 * (MinBaseline * bc) /\ MinBaseline * bc \in Int
      BY <1>1, <1>3
    <3> QED
      BY <1>1, <1>2, <1>3, <3>1
  <2>2. 2 * b + 1 >= 2 * MinBaseline
    BY <1>1, <1>2, <1>3, <2>1, Cancels
  <2> QED
    BY <1>2, <1>3, <2>2
<1>5. ASSUME dir = "up" PROVE 100 * (2 * c + 1) >= (100 + up) * (2 * b - 1)
  <2>1. (100 * bc) * (cc * (2 * c + 1)) >= (100 * bc) * (2 * cs)
    BY <1>1, <1>2, Multiplies
  <2>2. ((100 + up) * cc) * (2 * bs) >= ((100 + up) * cc) * (bc * (2 * b - 1))
    BY <1>1, <1>2, Multiplies
  <2>3. /\ (100 * bc) * (2 * cs) = 2 * (cs * bc * 100)
        /\ ((100 + up) * cc) * (2 * bs) = 2 * ((100 + up) * (bs * cc))
    BY <1>1
  <2>4. /\ (100 * bc) * (cc * (2 * c + 1)) = (cc * bc) * (100 * (2 * c + 1))
        /\ ((100 + up) * cc) * (bc * (2 * b - 1)) = (cc * bc) * ((100 + up) * (2 * b - 1))
    BY <1>1, <1>2
  <2>5. (cc * bc) * (100 * (2 * c + 1)) >= (cc * bc) * ((100 + up) * (2 * b - 1))
    BY <1>1, <1>2, <1>3, <1>5, <2>1, <2>2, <2>3, <2>4
  <2>6. /\ cc * bc \in Nat \ {0} /\ 100 * (2 * c + 1) \in Int
        /\ (100 + up) * (2 * b - 1) \in Int
    BY <1>1, <1>2
  <2> QED
    BY <2>5, <2>6, Cancels
<1>6. ASSUME dir = "down" PROVE 100 * (2 * c - 1) <= (100 - down) * (2 * b + 1)
  <2>1. 100 - down \in Nat
    <3> SUFFICES ASSUME down - 100 \in Nat \ {0} PROVE FALSE
      BY <1>1
    <3>1. bs \in Nat \ {0}
      BY <1>1, <1>3
    <3>2. bs * cc \in Nat \ {0} /\ cs * bc * 100 \in Nat
      <4>1. bs * cc \in Nat \ {0}
        BY <1>1, <3>1
      <4>2. cs * bc \in Nat
        BY <1>1
      <4> QED
        BY <4>1, <4>2
    <3>3. (down - 100) * (bs * cc) \in Nat \ {0}
      BY <3>2, Positive
    <3>4. (100 - down) * (bs * cc) = 0 - (down - 100) * (bs * cc)
      BY <1>1, <3>2
    <3> QED
      BY <1>3, <1>6, <3>2, <3>3, <3>4
  <2>2. (100 * bc) * (2 * cs) >= (100 * bc) * (cc * (2 * c - 1))
    BY <1>1, <1>2, Multiplies
  <2>3. ((100 - down) * cc) * (bc * (2 * b + 1)) >= ((100 - down) * cc) * (2 * bs)
    BY <1>1, <1>2, <2>1, Multiplies
  <2>4. /\ (100 * bc) * (2 * cs) = 2 * (cs * bc * 100)
        /\ ((100 - down) * cc) * (2 * bs) = 2 * ((100 - down) * (bs * cc))
    BY <1>1
  <2>5. /\ (100 * bc) * (cc * (2 * c - 1)) = (cc * bc) * (100 * (2 * c - 1))
        /\ ((100 - down) * cc) * (bc * (2 * b + 1)) = (cc * bc) * ((100 - down) * (2 * b + 1))
    BY <1>1, <1>2
  <2>6. (cc * bc) * ((100 - down) * (2 * b + 1)) >= (cc * bc) * (100 * (2 * c - 1))
    BY <1>1, <1>2, <1>3, <1>6, <2>2, <2>3, <2>4, <2>5
  <2>7. /\ cc * bc \in Nat \ {0} /\ 100 * (2 * c - 1) \in Int
        /\ (100 - down) * (2 * b + 1) \in Int
    BY <1>1, <1>2
  <2>8. (100 - down) * (2 * b + 1) >= 100 * (2 * c - 1)
    BY <2>6, <2>7, Cancels
  <2> QED
    BY <2>7, <2>8
<1> QED
  BY <1>4, <1>5, <1>6 DEF Explains, c, b, up, down

\* When an alert is to be stored, the numbers at hand are those its bucket was judged by.
NumbersInv ==
    /\ pc = "insert" => trail[Len(trail)].direction = Direction(Kpi, current, baseline)
    /\ \A a \in alerts : Explains(a.kpi, a.current, a.baseline, a.direction)

\* Each step keeps that: nothing comes between a judgement and the numbers it was made of.
LEMMA NumbersStep == ASSUME TypeOK, CheckInv, CountInv, NumbersInv, [Next]_vars PROVE NumbersInv'
<1>1. pc' = "insert" => trail'[Len(trail')].direction = Direction(Kpi', current', baseline')
  <2> SUFFICES ASSUME pc' = "insert"
               PROVE  trail'[Len(trail')].direction = Direction(Kpi', current', baseline')
    OBVIOUS
  <2>1. CASE FetchBaseline
    <3> DEFINE base == Reference(table, Kpi, Bucket)
               new == [bucket |-> Bucket, direction |-> Direction(Kpi, current, base)]
    <3>1. /\ baseline' = base /\ trail' = Append(trail, new)
          /\ current' = current /\ service' = service
      BY <2>1 DEF FetchBaseline, Return
    <3>2. trail'[Len(trail')] = new
      <4> HIDE DEF new
      <4> QED
        BY <3>1 DEF CheckInv, Ascending
    <3> QED
      BY <3>1, <3>2 DEF Kpi
  <2>2. CASE ~FetchBaseline
    <3>1. pc = "insert" /\ UNCHANGED <<trail, current, baseline, service>>
      BY <2>2 DEF Next, vars, check, Tick, Write, Check, Wake, FetchRecent, FetchCurrent,
                  InsertAlert, QueryRaises, AcquireRaises, Restart, Return
    <3> QED
      BY <3>1 DEF NumbersInv, Kpi
  <2> QED
    BY <2>1, <2>2
<1>2. \A a \in alerts' : Explains(a.kpi, a.current, a.baseline, a.direction)
  <2>1. alerts' = alerts \/ (pc = "insert" /\ alerts' \subseteq alerts \union {Alert})
    BY DEF Next, vars, Tick, Write, Check, Wake, FetchRecent, FetchCurrent, FetchBaseline,
           InsertAlert, QueryRaises, AcquireRaises, Restart, WithAlert
  <2>2. ASSUME pc = "insert"
        PROVE  Explains(Alert.kpi, Alert.current, Alert.baseline, Alert.direction)
    <3>1. /\ Alert.kpi = Kpi /\ Alert.current = Rounded(current) /\ Alert.baseline = Rounded(baseline)
          /\ Alert.direction = Direction(Kpi, current, baseline)
      BY <2>2 DEF Alert, NumbersInv
    <3>2. Direction(Kpi, current, baseline) # "none"
      BY <2>2, <3>1, InsertTypes
    <3>3. Kpi \in Kpis /\ current \in Averages /\ baseline \in Averages
      BY KpiIsOne DEF TypeOK
    <3>4. current.count > 0 /\ baseline.count > 0
      BY <2>2 DEF CountInv
    <3>5. Deviates(Kpi, current, baseline, Direction(Kpi, current, baseline))
      BY <3>2, <3>3, DirectionMeans
    <3> QED
      BY <3>1, <3>3, <3>4, <3>5, RoundedExplains
  <2> QED
    BY <2>1, <2>2 DEF NumbersInv
<1> QED
  BY <1>1, <1>2 DEF NumbersInv

\* The numbers of an alert explain it up to their rounding, for any thresholds and
\* whatever was written between the queries they come from.
THEOREM AlertExplainsItselfHolds == Spec => []AlertExplainsItself
<1>1. Init => NumbersInv
  BY DEF Init, NumbersInv
<1>2. NumbersInv => AlertExplainsItself
  BY DEF NumbersInv, Explains, AlertExplainsItself
<1> QED
  BY <1>1, <1>2, NumbersStep, CheckInvariance, TypeInvariance, PTL DEF Spec

-----------------------------------------------------------------------------
(* What a bucket is held to.                                               *)

\* Nothing is known of a minute that lies further ahead than event times do.
NothingBeyond == /\ \A m \in Minutes : m > now + Ahead => table[m] = Absent
                 /\ \A b \in todo : b <= now + Ahead
                 /\ \A i \in 1..Len(trail) : trail[i].bucket <= now + Ahead
                 /\ \A a \in alerts : a.bucket <= now + Ahead

\* Less than a day is no whole number of days.
LEMMA LessThanACycle == ASSUME NEW d \in Nat, NEW c \in Nat, 0 < d, d < c PROVE d % c # 0
<1>1. d = c * 0 + d
  OBVIOUS
<1> QED
  BY <1>1

\* A flush while a bucket is known leaves the days before the bucket alone.
LEMMA ReferenceStands ==
    ASSUME TypeOK, Late + Ahead < MinutesPerDay,
           NEW m \in Minutes, NEW inc, Write(m, inc),
           NEW k, NEW b \in Minutes, b <= now + Ahead
    PROVE  Reference(table', k, b) = Reference(table, k, b)
<1> DEFINE days(t) == {n \in Rows(t) : /\ b - BaselineDays * MinutesPerDay <= n /\ n < b
                                      /\ SamePeriod(n, b)}
<1>1. ~(m < b /\ SamePeriod(m, b))
  <2> SUFFICES ASSUME m < b PROVE ~SamePeriod(m, b)
    OBVIOUS
  <2> DEFINE cycle == IF BaselineDays >= 7 THEN 7 * MinutesPerDay ELSE MinutesPerDay
  <2>1. /\ m \in Nat /\ b \in Nat /\ now \in Nat /\ Late \in Nat /\ Ahead \in Nat
        /\ MinutesPerDay \in Nat /\ BaselineDays \in Nat
    BY MinutesFacts, BoundsAssumption, WindowAssumption DEF TypeOK
  <2>2. cycle \in Nat /\ MinutesPerDay <= cycle
    BY <2>1
  <2>3. m >= now - Late
    BY DEF Write
  <2> HIDE DEF cycle
  <2>4. b - m \in Nat /\ 0 < b - m /\ b - m < cycle
    BY <2>1, <2>2, <2>3
  <2>5. (b - m) % cycle # 0
    BY <2>2, <2>4, LessThanACycle
  <2> QED
    BY <2>5 DEF SamePeriod, cycle
<1>2. \A n \in Minutes : n # m => table'[n] = table[n]
  BY DEF Write, TypeOK
<1>3. days(table') = days(table)
  BY <1>1, <1>2 DEF Rows
<1>4. \A n \in days(table) : table'[n] = table[n]
  BY <1>1, <1>2 DEF Rows
<1>5. [n \in days(table) |-> table'[n][k]] = [n \in days(table) |-> table[n][k]]
  BY <1>4
<1>6. Reference(table', k, b) = Average(table', k, days(table'))
  BY DEF Reference
<1>7. Reference(table, k, b) = Average(table, k, days(table))
  BY DEF Reference
<1> HIDE DEF days
<1> QED
  BY <1>3, <1>5, <1>6, <1>7 DEF Average

\* The buckets of a check are minutes that a flush has written.
LEMMA RecentIsKnown == ASSUME TypeOK, NothingBeyond, NEW cutoff
                       PROVE  \A b \in Recent(table, cutoff) : b <= now + Ahead
<1> SUFFICES ASSUME NEW b \in Recent(table, cutoff) PROVE b <= now + Ahead
  OBVIOUS
<1>1. b \in Minutes /\ table[b] # Absent
  BY DEF Recent, Rows
<1>2. ~(b > now + Ahead)
  BY <1>1 DEF NothingBeyond
<1>3. b \in Nat /\ now + Ahead \in Nat
  BY <1>1, MinutesFacts, BoundsAssumption DEF TypeOK
<1> QED
  BY <1>2, <1>3

\* What is known stays known.
LEMMA KnownStays == ASSUME NEW n \in Int, NEW t \in Nat, NEW u \in Nat, t <= u, Ahead \in Nat
                    PROVE  /\ n <= t + Ahead => n <= u + Ahead
                           /\ n > u + Ahead => n > t + Ahead
  OBVIOUS

\* No step knows of a minute too early.
LEMMA BeyondStep == ASSUME TypeOK, CheckInv, CountInv, NothingBeyond, [Next]_vars PROVE NothingBeyond'
<1>1. now \in Nat /\ Ahead \in Nat /\ now' \in Nat /\ now <= now'
  BY BoundsAssumption
     DEF Next, vars, Tick, Write, Check, Wake, FetchRecent, FetchCurrent, FetchBaseline,
         InsertAlert, QueryRaises, AcquireRaises, Restart, TypeOK
<1>2. \A n \in Int : n <= now + Ahead => n <= now' + Ahead
  BY <1>1, KnownStays
<1>3. /\ todo \subseteq Int /\ Minutes \subseteq Int
      /\ \A i \in 1..Len(trail) : trail[i].bucket \in Int
  <2>1. trail \in Seq(Deviations)
    BY DEF CheckInv, Ascending
  <2>2. \A i \in 1..Len(trail) : trail[i] \in Deviations
    BY <2>1
  <2> QED
    <3>1. Minutes \subseteq Int
      BY MinutesFacts
    <3> QED
      BY <2>2, <3>1 DEF CheckInv, Deviations
<1>4. \A m \in Minutes : m > now' + Ahead => table'[m] = Absent
  <2> SUFFICES ASSUME NEW m \in Minutes, m > now' + Ahead PROVE table'[m] = Absent
    OBVIOUS
  <2>1. m \in Int /\ m > now + Ahead
    BY <1>1, <1>3, KnownStays
  <2>2. table[m] = Absent
    BY <2>1 DEF NothingBeyond
  <2>3. CASE \E n \in Minutes, inc \in Increments : Write(n, inc)
    <3>1. PICK n \in Minutes : \E inc \in Increments : Write(n, inc)
      BY <2>3
    <3>2. n <= now + Ahead
      BY <3>1 DEF Write
    <3>3. n # m
      BY <2>1, <3>2, <1>1
    <3> QED
      BY <2>2, <3>1, <3>3 DEF Write, TypeOK
  <2>4. CASE table' = table
    BY <2>2, <2>4
  <2> QED
    BY <2>3, <2>4 DEF Next, vars, Tick, Check, Wake, FetchRecent, FetchCurrent, FetchBaseline,
                      InsertAlert, QueryRaises, AcquireRaises, Restart
<1>5. /\ \A b \in todo' : b <= now' + Ahead
      /\ \A i \in 1..Len(trail') : trail'[i].bucket <= now' + Ahead
  <2>1. CASE todo' = {} /\ trail' = <<>>
    BY <2>1
  <2>2. CASE UNCHANGED <<todo, trail>>
    BY <1>2, <1>3, <2>2 DEF NothingBeyond
  <2>3. CASE \E c \in Cutoffs : FetchRecent(c) /\ ~Return
    <3>1. PICK c \in Cutoffs : FetchRecent(c) /\ ~Return
      BY <2>3
    <3>2. todo' = Recent(table, c) /\ trail' = trail /\ now' = now
      BY <3>1 DEF FetchRecent
    <3> QED
      BY <3>2, RecentIsKnown DEF NothingBeyond
  <2>4. CASE FetchBaseline /\ ~Return
    <3> DEFINE new == [bucket |-> Bucket, direction |-> Direction(Kpi, current, Reference(table, Kpi, Bucket))]
    <3>1. trail' = Append(trail, new) /\ todo' = todo \ {Bucket} /\ now' = now /\ todo # {}
      BY <2>4 DEF FetchBaseline, CheckInv, CheckCounts
    <3>2. Bucket \in todo
      BY <3>1, Oldest DEF Bucket, CheckInv
    <3>3. new.bucket <= now + Ahead
      BY <3>2 DEF NothingBeyond
    <3>4. trail \in Seq(Deviations)
      BY DEF CheckInv, Ascending
    <3> HIDE DEF new
    <3>5. \A i \in 1..Len(trail') : trail'[i] = new \/ (i \in 1..Len(trail) /\ trail'[i] = trail[i])
      BY <3>1, <3>4
    <3> QED
      BY <3>1, <3>3, <3>5 DEF NothingBeyond
  <2> QED
    BY <2>1, <2>2, <2>3, <2>4
       DEF Next, vars, check, Tick, Write, Check, Wake, FetchRecent, FetchCurrent, FetchBaseline,
           InsertAlert, QueryRaises, AcquireRaises, Restart, Return, Forget
<1>6. \A a \in alerts' : a.bucket <= now' + Ahead
  <2>1. CASE alerts' = alerts
    BY <1>2, <1>3, <2>1 DEF NothingBeyond, TypeOK
  <2>2. CASE pc = "insert" /\ alerts' \subseteq alerts \union {Alert} /\ now' = now
    <3>1. Len(trail) \in 1..Len(trail)
      BY <2>2, InsertTypes
    <3>2. Alert.bucket <= now + Ahead
      BY <3>1 DEF Alert, NothingBeyond
    <3> QED
      BY <2>2, <3>2 DEF NothingBeyond
  <2> QED
    BY <2>1, <2>2
       DEF Next, vars, Tick, Write, Check, Wake, FetchRecent, FetchCurrent, FetchBaseline,
           InsertAlert, QueryRaises, AcquireRaises, Restart, WithAlert
<1> QED
  BY <1>4, <1>5, <1>6 DEF NothingBeyond

\* The baseline at hand when an alert is to be stored is still what the table says of its
\* bucket, and so is that of every alert.
HistoryInv ==
    /\ NothingBeyond
    /\ pc = "insert" => baseline = Reference(table, Kpi, trail[Len(trail)].bucket)
    /\ BaselineIsHistory

\* Every step keeps that, a flush between the queries too.
LEMMA HistoryStep ==
    ASSUME TypeOK, CheckInv, CountInv, HistoryInv, [Next]_vars, Late + Ahead < MinutesPerDay
    PROVE  HistoryInv'
<1>1. NothingBeyond'
  BY BeyondStep DEF HistoryInv
<1>2. \A b \in Minutes : b <= now + Ahead =>
         \A k : Reference(table', k, b) = Reference(table, k, b)
  <2>1. CASE \E m \in Minutes, inc \in Increments : Write(m, inc)
    BY <2>1, ReferenceStands
  <2>2. CASE table' = table
    BY <2>2
  <2> QED
    BY <2>1, <2>2 DEF Next, vars, Tick, Check, Wake, FetchRecent, FetchCurrent, FetchBaseline,
                      InsertAlert, QueryRaises, AcquireRaises, Restart
<1>3. pc' = "insert" => baseline' = Reference(table', Kpi', trail'[Len(trail')].bucket)
  <2> SUFFICES ASSUME pc' = "insert"
               PROVE  baseline' = Reference(table', Kpi', trail'[Len(trail')].bucket)
    OBVIOUS
  <2>1. CASE FetchBaseline
    <3> DEFINE base == Reference(table, Kpi, Bucket)
               new == [bucket |-> Bucket, direction |-> Direction(Kpi, current, base)]
    <3>1. /\ baseline' = base /\ trail' = Append(trail, new)
          /\ table' = table /\ service' = service
      BY <2>1 DEF FetchBaseline, Return
    <3>2. trail'[Len(trail')] = new
      <4> HIDE DEF new
      <4> QED
        BY <3>1 DEF CheckInv, Ascending
    <3> QED
      BY <3>1, <3>2 DEF Kpi
  <2>2. CASE ~FetchBaseline
    <3>1. pc = "insert" /\ UNCHANGED <<trail, baseline, service>>
      BY <2>2 DEF Next, vars, check, Tick, Write, Check, Wake, FetchRecent, FetchCurrent,
                  InsertAlert, QueryRaises, AcquireRaises, Restart, Return
    <3>2. /\ trail[Len(trail)].bucket \in Minutes
          /\ trail[Len(trail)].bucket <= now + Ahead
      BY <3>1, InsertTypes DEF Deviations, HistoryInv, NothingBeyond
    <3>3. Reference(table', Kpi, trail[Len(trail)].bucket)
            = Reference(table, Kpi, trail[Len(trail)].bucket)
      BY <1>2, <3>2
    <3> QED
      BY <3>1, <3>3 DEF HistoryInv, Kpi
  <2> QED
    BY <2>1, <2>2
<1>4. \A a \in alerts' : a.baseline = Rounded(Reference(table', a.kpi, a.bucket))
  <2>1. CASE alerts' = alerts
    <3> SUFFICES ASSUME NEW a \in alerts
                 PROVE  a.baseline = Rounded(Reference(table', a.kpi, a.bucket))
      BY <2>1
    <3>1. a.bucket \in Minutes /\ a.bucket <= now + Ahead
      BY DEF TypeOK, HistoryInv, NothingBeyond
    <3>2. Reference(table', a.kpi, a.bucket) = Reference(table, a.kpi, a.bucket)
      BY <1>2, <3>1
    <3> QED
      BY <3>2 DEF HistoryInv, BaselineIsHistory
  <2>2. CASE pc = "insert" /\ alerts' \subseteq alerts \union {Alert} /\ table' = table
    <3>1. Alert.baseline = Rounded(Reference(table, Alert.kpi, Alert.bucket))
      BY <2>2 DEF Alert, HistoryInv
    <3> QED
      BY <2>2, <3>1 DEF HistoryInv, BaselineIsHistory
  <2> QED
    BY <2>1, <2>2
       DEF Next, vars, Tick, Write, Check, Wake, FetchRecent, FetchCurrent, FetchBaseline,
           InsertAlert, QueryRaises, AcquireRaises, Restart, WithAlert
<1> QED
  BY <1>1, <1>3, <1>4 DEF HistoryInv, BaselineIsHistory

\* As long as event times lie within a day of the clock, no flush changes the baseline of
\* an alert, neither before it is stored nor after.
THEOREM BaselineIsHistoryHolds == ASSUME Late + Ahead < MinutesPerDay
                                  PROVE  Spec => []BaselineIsHistory
<1>1. Init => HistoryInv
  BY HistoryAssumption DEF Init, HistoryInv, NothingBeyond, BaselineIsHistory
<1>2. TypeOK /\ CheckInv /\ CountInv /\ HistoryInv /\ [Next]_vars => HistoryInv'
  BY HistoryStep
<1>3. HistoryInv => BaselineIsHistory
  BY DEF HistoryInv
<1> QED
  BY <1>1, <1>2, <1>3, CheckInvariance, TypeInvariance, PTL DEF Spec

\* As long as no event is dated ahead, a check looks back only: a minute in the future,
\* once it has a row, is what AlertLooksBack needs to fail.
THEOREM AlertLooksBackWithoutAhead == ASSUME Ahead = 0 PROVE Spec => []AlertLooksBack
<1>1. Init => NothingBeyond
  BY HistoryAssumption DEF Init, NothingBeyond
<1>2. TypeOK /\ CheckInv /\ CountInv /\ NothingBeyond /\ [Next]_vars => NothingBeyond'
  BY BeyondStep
<1>3. ASSUME TypeOK, NothingBeyond, AlertRestsOnItsBuckets PROVE AlertLooksBack
  <2> SUFFICES ASSUME NEW a \in alerts, NEW i \in DOMAIN a.trail PROVE a.trail[i].bucket <= now
    BY DEF AlertLooksBack
  <2>1. a.trail[i].bucket <= a.bucket
    BY <1>3 DEF AlertRestsOnItsBuckets
  <2>2. a.bucket <= now + Ahead
    BY <1>3 DEF NothingBeyond
  <2>3. a.bucket \in Nat /\ now \in Nat
    BY <1>3, MinutesFacts DEF TypeOK
  <2>4. a.trail[i].bucket \in Nat
    <3>1. a.trail \in Seq(Deviations)
      BY <1>3, TrailTypes DEF TypeOK
    <3>2. a.trail[i] \in Deviations
      BY <3>1
    <3> QED
      BY <3>2, MinutesFacts DEF Deviations
  <2> QED
    BY <2>1, <2>2, <2>3, <2>4
<1> QED
  BY <1>1, <1>2, <1>3, CheckInvariance, TypeInvariance, AlertRestsOnItsBucketsHolds, PTL DEF Spec

-----------------------------------------------------------------------------
(* The order of alerts.                                                    *)

\* The newest row of the table is behind no row of a check, whatever the cutoff.
LEMMA RecentHasNewest ==
    ASSUME NEW t, NEW cutoff \in Int, Recent(t, cutoff) # {}, NEW n \in Rows(t)
    PROVE  \E b \in Recent(t, cutoff) : n <= b
<1> DEFINE found == {m \in Rows(t) : m >= cutoff}
           b == Max(found)
<1>1. found # {} /\ found \subseteq Minutes /\ n \in Minutes
  BY DEF Recent, Rows
<1>2. End + Ahead \in Int /\ Minutes \subseteq Int /\ \A m \in Minutes : m <= End + Ahead
  BY BoundsAssumption, MinutesFacts DEF Minutes
<1>3. b \in found /\ \A m \in found : m <= b
  <2> HIDE DEF found
  <2> QED
    BY <1>1, <1>2, HasMax
<1>4. b \in Int /\ n \in Int /\ b >= cutoff
  BY <1>1, <1>2, <1>3
<1> HIDE DEF b
<1>5. {m \in found : m > b} = {}
  <2> SUFFICES ASSUME NEW m \in found, m > b PROVE FALSE
    OBVIOUS
  <2>1. m \in Int /\ m <= b
    BY <1>1, <1>2, <1>3
  <2> QED
    BY <1>4, <2>1
<1>6. Cardinality({m \in found : m > b}) < Duration
  BY <1>5, FS_EmptySet, WindowAssumption
<1>7. b \in Recent(t, cutoff)
  BY <1>3, <1>6 DEF Recent
<1>8. n <= b
  <2>1. CASE n >= cutoff
    BY <1>3, <2>1
  <2>2. CASE ~(n >= cutoff)
    BY <1>4, <2>2
  <2> QED
    BY <2>1, <2>2
<1> QED
  BY <1>7, <1>8

\* A check that is under way has a bucket that no alert is ahead of.
AdvanceInv ==
    /\ \A a \in alerts : a.bucket \in Rows(table)
    /\ \A i \in 1..Len(trail) : trail[i].bucket \in Rows(table)
    /\ pc \in {"current", "baseline"} => \A a \in alerts : \E b \in todo : a.bucket <= b
    /\ pc = "insert" => \A a \in alerts : a.bucket <= trail[Len(trail)].bucket

\* The queries of a check leave the alerts alone and keep such a bucket.
LEMMA AheadKeeps ==
    ASSUME TypeOK, CheckInv, CountInv, AdvanceInv, alerts' = alerts, [Next]_vars
    PROVE  /\ pc' \in {"current", "baseline"} => \A a \in alerts : \E b \in todo' : a.bucket <= b
           /\ pc' = "insert" => \A a \in alerts : a.bucket <= trail'[Len(trail')].bucket
           /\ \A i \in 1..Len(trail') : trail'[i].bucket \in Rows(table)
<1>1. CASE trail' = <<>> /\ pc' \notin {"current", "baseline", "insert"}
  BY <1>1
<1>2. CASE UNCHANGED <<pc, todo, trail>>
  BY <1>2 DEF AdvanceInv
<1>3. CASE \E c \in Cutoffs : FetchRecent(c) /\ ~Return
  <2>1. PICK c \in Cutoffs : FetchRecent(c) /\ ~Return
    BY <1>3
  <2>2. pc' = "current" /\ todo' = Recent(table, c) /\ trail' = trail /\ c \in Int
    <3>1. now \in Nat /\ Lookback \in Nat
      BY WindowAssumption DEF TypeOK
    <3> QED
      BY <2>1, <3>1 DEF FetchRecent, Cutoffs
  <2>3. Recent(table, c) # {}
    <3>1. CheckInv'
      BY CheckStep
    <3> QED
      BY <2>2, <3>1 DEF CheckInv, CheckCounts
  <2>4. \A a \in alerts : \E b \in todo' : a.bucket <= b
    BY <2>2, <2>3, RecentHasNewest DEF AdvanceInv
  <2> QED
    BY <2>2, <2>4 DEF AdvanceInv
<1>4. CASE FetchCurrent
  BY <1>4 DEF FetchCurrent, AdvanceInv
<1>5. CASE FetchBaseline /\ ~Return
  <2> DEFINE new == [bucket |-> Bucket,
                     direction |-> Direction(Kpi, current, Reference(table, Kpi, Bucket))]
  <2>1. /\ pc = "baseline" /\ trail' = Append(trail, new) /\ todo' = todo \ {Bucket}
        /\ pc' = IF todo' = {} THEN "insert" ELSE "current"
    BY <1>5 DEF FetchBaseline
  <2>2. /\ todo \in SUBSET Minutes /\ todo # {} /\ trail \in Seq(Deviations)
        /\ todo \subseteq Rows(table)
    BY <2>1 DEF CheckInv, CheckCounts, Ascending, CountInv
  <2>3. Bucket \in todo /\ \A b \in todo : Bucket <= b
    BY <2>2, Oldest DEF Bucket
  <2>4. new.bucket = Bucket
    OBVIOUS
  <2> HIDE DEF new
  <2>5. /\ Len(trail') = Len(trail) + 1 /\ trail'[Len(trail')] = new /\ Len(trail) \in Nat
        /\ \A i \in 1..Len(trail') : trail'[i] = new \/ (i \in 1..Len(trail) /\ trail'[i] = trail[i])
    BY <2>1, <2>2
  <2>6. \A i \in 1..Len(trail') : trail'[i].bucket \in Rows(table)
    BY <2>2, <2>3, <2>4, <2>5 DEF AdvanceInv
  <2>7. ASSUME todo' = {}, NEW a \in alerts PROVE a.bucket <= trail'[Len(trail')].bucket
    <3>1. PICK b \in todo : a.bucket <= b
      BY <2>1 DEF AdvanceInv
    <3>2. b = Bucket
      BY <2>1, <2>7
    <3> QED
      BY <2>4, <2>5, <3>1, <3>2
  <2>8. ASSUME todo' # {}, NEW a \in alerts PROVE \E b \in todo' : a.bucket <= b
    <3>1. PICK b \in todo : a.bucket <= b
      BY <2>1 DEF AdvanceInv
    <3>2. PICK d \in todo' : TRUE
      BY <2>8
    <3>3. d \in todo /\ Bucket <= d
      BY <2>1, <2>3, <3>2
    <3>4. a.bucket \in Int /\ Bucket \in Int /\ d \in Int
      <4>1. a.bucket \in Minutes /\ Bucket \in Minutes /\ d \in Minutes
        BY <2>2, <2>3, <3>3 DEF TypeOK
      <4>2. Minutes \subseteq Int
        BY MinutesFacts
      <4> QED
        BY <4>1, <4>2
    <3>5. CASE b = Bucket
      BY <3>1, <3>2, <3>3, <3>4, <3>5
    <3>6. CASE b # Bucket
      BY <2>1, <3>1, <3>6
    <3> QED
      BY <3>5, <3>6
  <2> QED
    BY <2>1, <2>6, <2>7, <2>8
<1>6. CASE Return \/ (Forget /\ pc' = "sleep")
  BY <1>1, <1>6 DEF Return, Forget
<1>7. CASE Wake \/ AcquireRaises \/ Restart
  <2>1. trail' = trail /\ pc \in {"sleep", "down"} /\ pc' \in {"sleep", "recent", "down"}
    BY <1>7 DEF Wake, AcquireRaises, Restart, check
  <2>2. trail' = <<>>
    BY <2>1 DEF CheckInv, CheckCounts
  <2> QED
    BY <1>1, <2>1, <2>2
<1> QED
  BY <1>2, <1>3, <1>4, <1>5, <1>6, <1>7
     DEF Next, vars, check, Check, Tick, Write, InsertAlert, QueryRaises

\* A new alert is ahead of those there are.
LEMMA NewAlertAdvances ==
    ASSUME TypeOK, CheckInv, CountInv, AdvanceInv, pc = "insert"
    PROVE  /\ \A a \in WithAlert : a.bucket \in Rows(table)
           /\ \A new \in WithAlert \ alerts, old \in alerts :
                 new.kpi = old.kpi => old.bucket < new.bucket
<1>1. Alert.bucket = trail[Len(trail)].bucket /\ Len(trail) \in 1..Len(trail) /\ Alert.kpi = Kpi
  BY InsertTypes DEF Alert
<1>2. Alert.bucket \in Rows(table)
  BY <1>1 DEF AdvanceInv
<1>3. \A a \in WithAlert : a.bucket \in Rows(table)
  BY <1>2 DEF WithAlert, AdvanceInv
<1>4. ASSUME NEW new \in WithAlert \ alerts, NEW old \in alerts, new.kpi = old.kpi
      PROVE  old.bucket < new.bucket
  <2>1. new = Alert /\ old.bucket # Alert.bucket
    BY <1>1, <1>4 DEF WithAlert
  <2>2. old.bucket <= Alert.bucket
    BY <1>1 DEF AdvanceInv
  <2>3. old.bucket \in Minutes /\ Alert.bucket \in Minutes
    BY <1>2 DEF TypeOK, Rows
  <2>4. old.bucket \in Nat /\ Alert.bucket \in Nat
    BY <2>3, MinutesFacts
  <2> QED
    BY <2>1, <2>2, <2>4
<1> QED
  BY <1>3, <1>4

\* The alerts stay as they are, or a check stores one and is over.
LEMMA AlertSteps == ASSUME [Next]_vars
                    PROVE  \/ alerts' = alerts
                           \/ /\ pc = "insert" /\ alerts' = WithAlert /\ trail' = <<>>
                              /\ pc' \in {"recent", "sleep"}
  BY DEF Next, vars, Tick, Write, Check, Wake, FetchRecent, FetchCurrent, FetchBaseline,
         InsertAlert, QueryRaises, AcquireRaises, Restart, Return, Forget

\* Each step keeps the bucket ahead.
LEMMA AdvanceStep ==
    ASSUME TypeOK, CheckInv, CountInv, AdvanceInv, [Next]_vars PROVE AdvanceInv'
<1>1. Rows(table) \subseteq Rows(table')
  BY RowsStay
<1>2. CASE alerts' = alerts
  BY <1>1, <1>2, AheadKeeps DEF AdvanceInv
<1>3. CASE pc = "insert" /\ alerts' = WithAlert /\ trail' = <<>> /\ pc' \in {"recent", "sleep"}
  BY <1>1, <1>3, NewAlertAdvances DEF AdvanceInv
<1> QED
  BY <1>2, <1>3, AlertSteps

\* The alerts of a KPI move forward, whatever is written, fails or is repeated.
THEOREM AlertsAdvanceHolds == Spec => AlertsAdvance
<1>1. Init => AdvanceInv
  BY DEF Init, AdvanceInv
<1>2. ASSUME TypeOK, CheckInv, CountInv, AdvanceInv, [Next]_vars
      PROVE  [\A new \in alerts' \ alerts, old \in alerts :
                 new.kpi = old.kpi => old.bucket < new.bucket]_alerts
  BY <1>2, AlertSteps, NewAlertAdvances
<1> QED
  BY <1>1, <1>2, AdvanceStep, CheckInvariance, TypeInvariance, PTL DEF Spec, AlertsAdvance

-----------------------------------------------------------------------------
(* The list of alerts.                                                     *)

AlertsKnown == /\ now \in Nat /\ IsFiniteSet(alerts)
               /\ \A a \in alerts : a.created \in Nat /\ a.created <= now

\* A page is a part of what was found, newest first and no longer than its limit.
PageOf(page, found, limit) ==
    /\ Cardinality(page) <= limit
    /\ \A a \in page, b \in found \ page : a.created >= b.created

\* Of some alerts, one is the newest.
LEMMA NewestAlert == ASSUME AlertsKnown, NEW S \in SUBSET alerts, S # {}
                     PROVE  \E b \in S : \A c \in S : b.created >= c.created
<1> DEFINE Ages == {now - a.created : a \in S}
<1>1. \A a \in S : a.created \in Nat /\ now - a.created \in Nat
  BY DEF AlertsKnown
<1>2. Ages \subseteq Nat /\ Ages # {}
  BY <1>1
<1>3. PICK age \in Ages : \A other \in Ages : age <= other
  <2> HIDE DEF Ages
  <2> QED
    BY <1>2, Least
<1>4. PICK b \in S : age = now - b.created
  BY DEF Ages
<1>5. ASSUME NEW c \in S PROVE b.created >= c.created
  <2>1. now - b.created <= now - c.created
    BY <1>3, <1>4, <1>5
  <2> QED
    BY <1>1, <2>1 DEF AlertsKnown
<1> QED
  BY <1>5

\* However many alerts there are, a page can be filled up to its limit.
LEMMA PageExists ==
    ASSUME AlertsKnown, NEW found \in SUBSET alerts, NEW limit \in Nat
    PROVE  \E page \in SUBSET found :
              /\ Cardinality(page) = Min({limit, Cardinality(found)})
              /\ \A a \in page, b \in found \ page : a.created >= b.created
<1> DEFINE Pages == {page \in SUBSET found : PageOf(page, found, limit)}
           Rooms == {limit - Cardinality(page) : page \in Pages}
<1>1. /\ IsFiniteSet(found)
      /\ \A page \in SUBSET found : /\ IsFiniteSet(page) /\ Cardinality(page) \in Nat
                                    /\ Cardinality(page) <= Cardinality(found)
  <2>1. IsFiniteSet(found)
    BY FS_Subset DEF AlertsKnown
  <2> QED
    BY <2>1, FS_Subset, FS_CardinalityType
<1>2. {} \in Pages
  BY FS_EmptySet DEF PageOf
<1>3. Rooms \subseteq Nat /\ Rooms # {}
  <2>1. ASSUME NEW page \in Pages PROVE limit - Cardinality(page) \in Nat
    BY <1>1 DEF PageOf
  <2> QED
    BY <1>2, <2>1
<1>4. PICK room \in Rooms : \A other \in Rooms : room <= other
  <2> HIDE DEF Rooms
  <2> QED
    BY <1>3, Least
<1>5. PICK page \in Pages : room = limit - Cardinality(page)
  BY DEF Rooms
<1>6. ~(Cardinality(page) < limit /\ found \ page # {})
  <2> SUFFICES ASSUME Cardinality(page) < limit, found \ page # {} PROVE FALSE
    OBVIOUS
  <2>1. PICK b \in found \ page : \A c \in found \ page : b.created >= c.created
    BY NewestAlert
  <2> DEFINE longer == page \union {b}
  <2>2. Cardinality(longer) = Cardinality(page) + 1 /\ Cardinality(page) \in Nat
    BY <1>1, <2>1, FS_AddElement
  <2>3. longer \in Pages
    <3>1. longer \in SUBSET found
      BY <2>1
    <3>2. Cardinality(longer) <= limit
      BY <2>2
    <3>3. ASSUME NEW a \in longer, NEW c \in found \ longer PROVE a.created >= c.created
      BY <1>5, <2>1 DEF PageOf
    <3> HIDE DEF longer
    <3> QED
      BY <3>1, <3>2, <3>3 DEF PageOf
  <2>4. limit - Cardinality(longer) \in Rooms
    BY <2>3
  <2>5. limit - Cardinality(page) <= limit - Cardinality(longer)
    BY <1>4, <1>5, <2>4
  <2> HIDE DEF longer
  <2> QED
    BY <2>2, <2>5
<1>7. /\ Cardinality(page) \in Nat /\ Cardinality(found) \in Nat
      /\ Cardinality(page) <= Cardinality(found) /\ Cardinality(page) <= limit
      /\ \A a \in page, b \in found \ page : a.created >= b.created
  BY <1>1, <1>5 DEF PageOf
<1>8. Cardinality(page) = limit \/ Cardinality(page) = Cardinality(found)
  <2>1. CASE found \ page = {}
    <3>1. page = found
      BY <2>1, <1>5
    <3> QED
      BY <3>1
  <2>2. CASE found \ page # {}
    BY <1>6, <1>7, <2>2
  <2> QED
    BY <2>1, <2>2
<1>9. Cardinality(page) = Min({limit, Cardinality(found)})
  BY <1>7, <1>8 DEF Min
<1> QED
  BY <1>5, <1>7, <1>9

\* Hence what the endpoint answers is such a page.
LEMMA AnswerIsPage ==
    ASSUME AlertsKnown, NEW from, NEW to, NEW type, NEW limit \in Nat
    PROVE  LET found == Matching(from, to, type)
               page  == Answer(from, to, type, limit)
           IN  /\ page \in SUBSET found
               /\ Cardinality(page) < limit => page = found
               /\ \A a \in page, b \in found \ page : a.created >= b.created
<1> DEFINE found == Matching(from, to, type)
           page  == Answer(from, to, type, limit)
<1>1. found \in SUBSET alerts
  BY DEF Matching
<1>2. /\ page \in SUBSET found
      /\ Cardinality(page) = Min({limit, Cardinality(found)})
      /\ \A a \in page, b \in found \ page : a.created >= b.created
  <2> HIDE DEF found
  <2>1. \E p \in SUBSET found :
              /\ Cardinality(p) = Min({limit, Cardinality(found)})
              /\ \A a \in p, b \in found \ p : a.created >= b.created
    BY <1>1, PageExists
  <2>2. page = CHOOSE p \in SUBSET found :
              /\ Cardinality(p) = Min({limit, Cardinality(found)})
              /\ \A a \in p, b \in found \ p : a.created >= b.created
    BY DEF Answer, found
  <2> HIDE DEF page
  <2> QED
    BY <2>1, <2>2
<1>3. IsFiniteSet(found) /\ Cardinality(found) \in Nat
  BY <1>1, FS_Subset, FS_CardinalityType DEF AlertsKnown
<1>4. ASSUME Cardinality(page) < limit PROVE page = found
  <2>1. Cardinality(page) = Cardinality(found)
    BY <1>2, <1>3, <1>4 DEF Min
  <2> QED
    BY <1>2, <1>3, <2>1, FS_Subset
<1> QED
  BY <1>2, <1>4

\* The list fits together, for any alerts that were ever stored.
THEOREM ListsFitTogetherHolds == Spec => []ListsFitTogether
<1>1. Init => AlertsKnown
  BY FS_EmptySet, BoundsAssumption DEF Init, AlertsKnown
<1>2. AlertsKnown /\ [Next]_vars => AlertsKnown'
  <2> SUFFICES ASSUME AlertsKnown, [Next]_vars PROVE AlertsKnown'
    OBVIOUS
  <2>1. /\ alerts' = alerts \/ alerts' = alerts \union {Alert}
        /\ now' = now \/ (now' = now + 1 /\ alerts' = alerts)
    BY DEF Next, vars, Tick, Write, Check, Wake, FetchRecent, FetchCurrent, FetchBaseline,
           InsertAlert, QueryRaises, AcquireRaises, Restart, WithAlert
  <2>2. Alert.created = now
    BY DEF Alert
  <2>3. IsFiniteSet(alerts')
    BY <2>1, FS_AddElement DEF AlertsKnown
  <2>4. now' \in Nat /\ now <= now'
    BY <2>1 DEF AlertsKnown
  <2>5. ASSUME NEW a \in alerts' PROVE a.created \in Nat /\ a.created <= now'
    BY <2>1, <2>2, <2>4, <2>5 DEF AlertsKnown
  <2> QED
    BY <2>3, <2>4, <2>5 DEF AlertsKnown
<1>3. ASSUME AlertsKnown PROVE ListsFitTogether
  <2> SUFFICES ASSUME NEW from \in Start..now, NEW limit \in {1, 3}
               PROVE  LET list(type) == Answer(from, now, type, limit)
                          Whole(type) == Cardinality(list(type)) < limit
                          Stored == {a \in alerts : a.created >= from}
                      IN  /\ \A type \in AlertTypes : \A a \in list(type) : LabelOf(a.kpi) = type
                          /\ \A type \in AlertTypes \union {Absent} : Whole(type) =>
                                \A a \in Stored : type \in {LabelOf(a.kpi), Absent} => a \in list(type)
                          /\ \A a \in Stored \ list(Absent) : \A b \in list(Absent) : b.created >= a.created
    BY DEF ListsFitTogether
  <2> DEFINE Stored == {a \in alerts : a.created >= from}
  <2>1. \A a \in Stored : from <= a.created /\ a.created <= now
    BY <1>3, BoundsAssumption DEF AlertsKnown
  <2>2. Matching(from, now, Absent) = Stored
    BY <2>1 DEF Matching
  <2>3. ASSUME NEW type \in AlertTypes, NEW a \in Answer(from, now, type, limit)
        PROVE  LabelOf(a.kpi) = type
    <3>1. a \in Matching(from, now, type)
      BY <1>3, <2>3, AnswerIsPage
    <3>2. a.kpi = KpiOf(type)
      BY <3>1, FilterAssumption DEF Matching
    <3> QED
      BY <3>2 DEF AlertTypes, KpiOf, LabelOf
  <2>4. ASSUME NEW type \in AlertTypes \union {Absent},
               Cardinality(Answer(from, now, type, limit)) < limit,
               NEW a \in Stored, type \in {LabelOf(a.kpi), Absent}
        PROVE  a \in Answer(from, now, type, limit)
    <3>1. Answer(from, now, type, limit) = Matching(from, now, type)
      BY <1>3, <2>4, AnswerIsPage
    <3>2. type = Absent \/ a.kpi = KpiOf(type)
      BY <2>4, FilterAssumption DEF AlertTypes, KpiOf, LabelOf
    <3> QED
      BY <2>1, <3>1, <3>2 DEF Matching
  <2>5. \A a \in Stored \ Answer(from, now, Absent, limit) :
           \A b \in Answer(from, now, Absent, limit) : b.created >= a.created
    BY <1>3, <2>2, AnswerIsPage
  <2> QED
    BY <2>3, <2>4, <2>5
<1> QED
  BY <1>1, <1>2, <1>3, PTL DEF Spec
=============================================================================

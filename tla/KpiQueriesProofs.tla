---------------------------- MODULE KpiQueriesProofs ----------------------------
(***************************************************************************)
(* The answers of the KPI API, for any events, offsets, lengths of the     *)
(* buckets, flushes and losses.                                            *)
(*                                                                         *)
(* Some are read from the aggregates and some from the facts.  The buckets *)
(* of the aggregates are those of facts, and a fact that was flushed has   *)
(* its bucket there (BucketInv).  What the buckets hold: each table stands *)
(* for a set of facts that landed in it, which grows by the batch with     *)
(* each statement that is executed, whether its answer arrives or not, has *)
(* nothing in common with what is still on its way, and counts and sums up *)
(* what the table shows (LandedInv).                                       *)
(***************************************************************************)
EXTENDS KpiQueries, Sums

Facts == [kind : Kinds, time : Times, offset : Int, channel : Channels \union {NoChannel},
          amount : Nat, processed : Nat]

BucketsAreOfFacts ==
    \A g \in Grains : \A b \in DOMAIN kpi[g] : \E i \in Rows : b = Bucket(g, facts[i])

FlushedHaveBuckets ==
    losses = 0 => \A g \in Grains : \A i \in Rows \ Pending(g) :
                     Bucket(g, facts[i]) \in DOMAIN kpi[g]

BucketInv == /\ now \in Nat /\ losses \in Nat
             /\ facts \in Seq(Facts)
             /\ hand \subseteq Rows /\ agg \subseteq Rows /\ batch \subseteq Rows
             /\ flush \in {"sleep", "minute", "hour", "dead"}
             /\ flush \notin Grains => batch = {}
             /\ DOMAIN kpi = Grains
             /\ BucketsAreOfFacts
             /\ FlushedHaveBuckets

-----------------------------------------------------------------------------
\* The lengths of the grains.
LEMMA Lengths == \A g \in Grains : Length(g) \in Nat \ {0}
  BY LengthAssumption DEF Grains, Length

\* The times of the model are integers up to a bound.
LEMMA TimesFacts == /\ End + Ahead \in Int
                    /\ Times \subseteq Int /\ \A t \in Times : t <= End + Ahead
  BY BoundsAssumption DEF Times

\* What is known of a row's time.
LEMMA FactTimes == ASSUME NEW f \in Facts
                   PROVE  /\ f.time \in Times /\ f.time \in Int /\ f.time <= End + Ahead
                          /\ f.offset \in Int
<1>1. f.time \in Times /\ f.offset \in Int
  BY DEF Facts
<1> QED
  BY <1>1, TimesFacts

\* The same of the rows of the tables.
LEMMA RowTimes == ASSUME BucketInv, NEW i \in Rows
                  PROVE  /\ facts[i] \in Facts
                         /\ facts[i].time \in Int /\ facts[i].time <= End + Ahead
<1>1. facts[i] \in Facts
  BY DEF BucketInv, Rows
<1> QED
  BY <1>1, FactTimes

\* Truncation goes back by less than the unit.
LEMMA Truncated == ASSUME NEW x \in Int, NEW n \in Nat \ {0}
                   PROVE  Trunc(x, n) \in Int /\ Trunc(x, n) <= x /\ x < Trunc(x, n) + n
<1>1. x % n \in Nat /\ x % n < n
  OBVIOUS
<1> QED
  BY <1>1 DEF Trunc

\* An event's bucket begins no later than the event and ends after it, whatever its offset.
LEMMA BucketHolds == ASSUME NEW g \in Grains, NEW f \in Facts
                     PROVE  /\ Bucket(g, f) \in Int /\ f.time \in Int
                            /\ Bucket(g, f) <= f.time /\ f.time < Bucket(g, f) + Length(g)
<1>1. f.time \in Int /\ f.offset \in Int /\ f.time + f.offset \in Int
  BY FactTimes
<1>2. Length(g) \in Nat \ {0}
  BY Lengths
<1> DEFINE t == Trunc(f.time + f.offset, Length(g))
<1>3. t \in Int /\ t <= f.time + f.offset /\ f.time + f.offset < t + Length(g)
  BY <1>1, <1>2, Truncated
<1>4. Bucket(g, f) = t - f.offset
  BY DEF Bucket
<1> HIDE DEF t
<1> QED
  BY <1>1, <1>2, <1>3, <1>4

-----------------------------------------------------------------------------
(* The invariant.                                                          *)

\* What an upsert leaves are the buckets that were there and those of its rows.
LEMMA UpsertedBuckets ==
    ASSUME NEW g, NEW S
    PROVE  DOMAIN Upserted(g, S) = DOMAIN kpi[g] \union {Bucket(g, facts[i]) : i \in S}
  BY DEF Upserted

\* A new row leaves the others as they are, and is pending.
LEMMA InsertKeeps ==
    ASSUME BucketInv, NEW s \in Samples, NEW t \in Times, NEW q \in Start..End, Insert(s, t, q)
    PROVE  BucketInv'
<1> DEFINE f == [kind |-> s.kind, time |-> t, offset |-> s.offset, channel |-> s.channel,
                 amount |-> s.amount, processed |-> q]
           n == Len(facts) + 1
<1>1. f \in Facts
  <2>1. s.kind \in Kinds /\ s.channel \in Channels \union {NoChannel} /\ s.offset \in Int /\ s.amount \in Nat
    BY SampleAssumption
  <2>2. q \in Nat
    BY BoundsAssumption
  <2> QED
    BY <2>1, <2>2 DEF Facts
<1>2. facts' = Append(facts, f) /\ UNCHANGED <<now, agg, batch, flush, kpi, losses>>
  BY DEF Insert
<1> HIDE DEF f
<1>3. /\ facts' \in Seq(Facts) /\ Len(facts') = n /\ Len(facts) \in Nat
      /\ \A i \in 1..Len(facts) : facts'[i] = facts[i]
      /\ Rows = 1..Len(facts) /\ Rows' = 1..n
  BY <1>1, <1>2 DEF BucketInv, Rows
<1>4. hand = {} /\ hand' = {n}
  BY <1>3 DEF Insert
<1>5. Rows \subseteq Rows' /\ hand' \subseteq Rows' /\ agg' \subseteq Rows' /\ batch' \subseteq Rows'
  <2>1. Rows \subseteq Rows' /\ n \in Rows'
    BY <1>3
  <2> QED
    BY <1>2, <1>4, <2>1 DEF BucketInv
<1>6. BucketsAreOfFacts'
  <2>1. ASSUME NEW g \in Grains, NEW b \in DOMAIN kpi'[g]
        PROVE  \E i \in Rows' : b = Bucket(g, facts'[i])
    <3>1. PICK i \in Rows : b = Bucket(g, facts[i])
      BY <1>2, <2>1 DEF BucketInv, BucketsAreOfFacts
    <3> QED
      BY <1>3, <1>5, <3>1
  <2> QED
    BY <2>1 DEF BucketsAreOfFacts, Bucket
<1>7. FlushedHaveBuckets'
  <2>1. ASSUME NEW g \in Grains, NEW i \in Rows', i \notin Pending(g)', losses' = 0
        PROVE  Bucket(g, facts'[i]) \in DOMAIN kpi'[g]
    <3>1. Pending(g)' = Pending(g) \union {n}
      BY <1>2, <1>4 DEF Pending, Unwritten
    <3>2. i \in Rows /\ i \notin Pending(g)
      BY <1>3, <2>1, <3>1
    <3> QED
      BY <1>2, <1>3, <2>1, <3>2 DEF BucketInv, FlushedHaveBuckets
  <2> QED
    BY <2>1 DEF FlushedHaveBuckets, Bucket
<1> QED
  BY <1>2, <1>3, <1>5, <1>6, <1>7 DEF BucketInv

\* What an executed statement does to the buckets.
LEMMA PostedBuckets ==
    ASSUME BucketInv, NEW g \in Grains, kpi' = Posted(g), facts' = facts
    PROVE  /\ DOMAIN kpi' = Grains
           /\ DOMAIN kpi'[g] = DOMAIN kpi[g] \union {Bucket(g, facts[i]) : i \in batch}
           /\ \A h \in Grains \ {g} : kpi'[h] = kpi[h]
           /\ BucketsAreOfFacts'
<1>1. /\ DOMAIN kpi' = Grains
      /\ DOMAIN kpi'[g] = DOMAIN kpi[g] \union {Bucket(g, facts[i]) : i \in batch}
      /\ \A h \in Grains \ {g} : kpi'[h] = kpi[h]
  BY UpsertedBuckets DEF BucketInv, Posted
<1>2. ASSUME NEW h \in Grains, NEW b \in DOMAIN kpi'[h]
      PROVE  \E i \in Rows : b = Bucket(h, facts[i])
  BY <1>1, <1>2 DEF BucketInv, BucketsAreOfFacts
<1>3. Rows' = Rows
  BY DEF Rows
<1> QED
  BY <1>1, <1>2, <1>3 DEF BucketsAreOfFacts, Bucket

\* A flush of a grain gives its rows their buckets.
LEMMA FlushKeeps ==
    ASSUME BucketInv, NEW g \in Grains, kpi' = Posted(g), UNCHANGED <<now, facts, losses>>,
           hand' \subseteq Rows, agg' \subseteq Rows, batch' \subseteq Rows,
           flush' \in {"sleep", "hour"}, flush' = "sleep" => batch' = {},
           Pending(g) \subseteq Pending(g)' \union batch,
           \A h \in Grains \ {g} : Pending(h)' = Pending(h)
    PROVE  BucketInv'
<1>1. /\ DOMAIN kpi' = Grains
      /\ DOMAIN kpi'[g] = DOMAIN kpi[g] \union {Bucket(g, facts[i]) : i \in batch}
      /\ \A h \in Grains \ {g} : kpi'[h] = kpi[h]
      /\ BucketsAreOfFacts'
  BY PostedBuckets
<1>2. Rows' = Rows
  BY DEF Rows
<1>3. ASSUME NEW h \in Grains, NEW i \in Rows, i \notin Pending(h)', losses = 0
      PROVE  Bucket(h, facts[i]) \in DOMAIN kpi'[h]
  <2>1. CASE h = g
    BY <1>1, <1>3, <2>1 DEF BucketInv, FlushedHaveBuckets
  <2>2. CASE h # g
    BY <1>1, <1>3, <2>2 DEF BucketInv, FlushedHaveBuckets
  <2> QED
    BY <2>1, <2>2
<1>4. FlushedHaveBuckets'
  BY <1>2, <1>3 DEF FlushedHaveBuckets, Bucket
<1>5. flush' \in {"sleep", "minute", "hour", "dead"} /\ (flush' \notin Grains => batch' = {})
  BY DEF Grains
<1> QED
  BY <1>1, <1>2, <1>4, <1>5 DEF BucketInv

\* A failure leaves buckets of facts, whether its statement was executed or not.
LEMMA LossKeeps ==
    ASSUME BucketInv, kpi' \in Outcome, UNCHANGED <<now, facts>>, losses' = losses + 1,
           hand' \subseteq hand, agg' \subseteq agg, batch' = {}, flush' \in {"sleep", "dead"}
    PROVE  BucketInv'
<1>1. DOMAIN kpi' = Grains /\ BucketsAreOfFacts'
  <2>1. CASE kpi' = kpi
    BY <2>1 DEF BucketInv, BucketsAreOfFacts, Rows, Bucket
  <2>2. CASE \E g \in Grains : kpi' = Posted(g)
    BY <2>2, PostedBuckets
  <2> QED
    BY <2>1, <2>2 DEF Outcome
<1>2. losses' \in Nat /\ losses' # 0 /\ Rows' = Rows
  BY DEF BucketInv, Rows
<1> QED
  BY <1>1, <1>2 DEF BucketInv, FlushedHaveBuckets

\* What is pending after a step that moves rows on their way, and writes none.
LEMMA MovesKeep ==
    ASSUME BucketInv, UNCHANGED <<now, facts, kpi, losses>>,
           hand' \subseteq Rows, agg' \subseteq Rows, batch' \subseteq Rows,
           flush' \in {"sleep", "minute", "hour", "dead"}, flush' \notin Grains => batch' = {},
           \A g \in Grains : Pending(g)' = Pending(g)
    PROVE  BucketInv'
<1>1. Rows' = Rows
  BY DEF Rows
<1>2. FlushedHaveBuckets'
  BY <1>1 DEF BucketInv, FlushedHaveBuckets, Bucket
<1>3. BucketsAreOfFacts'
  BY <1>1 DEF BucketInv, BucketsAreOfFacts, Bucket
<1> QED
  BY <1>1, <1>2, <1>3 DEF BucketInv

\* What the steps of a row and of a flush do to what is pending.
LEMMA AddMoves == ASSUME BucketInv, Add PROVE \A g \in Grains : Pending(g)' = Pending(g)
  BY DEF Add, Pending, Unwritten

\* A drain finds the flush task asleep, with no batch.
LEMMA DrainMoves == ASSUME BucketInv, Drain PROVE \A g \in Grains : Pending(g)' = Pending(g)
<1>1. batch = {} /\ batch' = agg /\ agg' = {} /\ hand' = hand /\ flush = "sleep" /\ flush' = "minute"
  BY DEF Drain, BucketInv, Grains
<1> QED
  BY <1>1 DEF Pending, Unwritten, Grains

\* The statement of the minutes writes the batch for them alone.
LEMMA MinuteMoves == ASSUME BucketInv, FlushMinute
                     PROVE  /\ Pending("minute") = hand \union agg \union batch
                            /\ Pending("minute")' = hand \union agg
                            /\ Pending("hour")' = Pending("hour")
  BY DEF FlushMinute, Pending, Unwritten

\* The statement of the hours completes the flush.
LEMMA HourMoves == ASSUME BucketInv, FlushHour
                   PROVE  /\ Pending("hour") = hand \union agg \union batch
                          /\ Pending("hour")' = hand \union agg
                          /\ Pending("minute")' = Pending("minute")
  BY DEF FlushHour, Pending, Unwritten

\* Each step keeps the buckets those of the facts.
LEMMA BucketStep == ASSUME BucketInv, [Next]_vars PROVE BucketInv'
<1>1. ASSUME Tick PROVE BucketInv'
  BY <1>1 DEF Tick, BucketInv, BucketsAreOfFacts, FlushedHaveBuckets, Rows, Pending, Unwritten, Bucket
<1>2. ASSUME NEW s \in Samples, NEW t \in Times, NEW q \in Start..End, Insert(s, t, q)
      PROVE  BucketInv'
  BY <1>2, InsertKeeps
<1>3. ASSUME Add PROVE BucketInv'
  <2>1. /\ UNCHANGED <<now, facts, kpi, losses>> /\ hand' \subseteq Rows /\ agg' \subseteq Rows
        /\ batch' \subseteq Rows /\ flush' \in {"sleep", "minute", "hour", "dead"}
        /\ flush' \notin Grains => batch' = {}
    BY <1>3 DEF Add, BucketInv
  <2> QED
    BY <1>3, <2>1, AddMoves, MovesKeep
<1>4. ASSUME Drain PROVE BucketInv'
  <2>1. /\ UNCHANGED <<now, facts, kpi, losses>> /\ hand' \subseteq Rows /\ agg' \subseteq Rows
        /\ batch' \subseteq Rows /\ flush' \in {"sleep", "minute", "hour", "dead"}
        /\ flush' \notin Grains => batch' = {}
    BY <1>4 DEF Drain, BucketInv, Grains
  <2> QED
    BY <1>4, <2>1, DrainMoves, MovesKeep
<1>5. ASSUME FlushMinute PROVE BucketInv'
  <2>1. /\ hand' \subseteq Rows /\ agg' \subseteq Rows /\ batch' \subseteq Rows
        /\ flush' \in {"sleep", "hour"} /\ (flush' = "sleep" => batch' = {})
        /\ kpi' = Posted("minute") /\ UNCHANGED <<now, facts, losses>>
    BY <1>5 DEF FlushMinute, BucketInv
  <2>2. /\ Pending("minute") \subseteq Pending("minute")' \union batch
        /\ \A h \in Grains \ {"minute"} : Pending(h)' = Pending(h)
        /\ "minute" \in Grains
    BY <1>5, MinuteMoves DEF Grains
  <2> QED
    BY <2>1, <2>2, FlushKeeps
<1>6. ASSUME FlushHour PROVE BucketInv'
  <2>1. /\ hand' \subseteq Rows /\ agg' \subseteq Rows /\ batch' \subseteq Rows
        /\ flush' \in {"sleep", "hour"} /\ (flush' = "sleep" => batch' = {})
        /\ kpi' = Posted("hour") /\ UNCHANGED <<now, facts, losses>>
    BY <1>6 DEF FlushHour, BucketInv
  <2>2. /\ Pending("hour") \subseteq Pending("hour")' \union batch
        /\ \A h \in Grains \ {"hour"} : Pending(h)' = Pending(h)
        /\ "hour" \in Grains
    BY <1>6, HourMoves DEF Grains
  <2> QED
    BY <2>1, <2>2, FlushKeeps
<1>7. ASSUME FlushFails \/ ProcessEnds PROVE BucketInv'
  BY <1>7, LossKeeps DEF FlushFails, ProcessEnds
<1>8. ASSUME UNCHANGED vars PROVE BucketInv'
  BY <1>8 DEF vars, BucketInv, BucketsAreOfFacts, FlushedHaveBuckets, Rows, Pending, Unwritten, Bucket
<1> QED
  BY <1>1, <1>2, <1>3, <1>4, <1>5, <1>6, <1>7, <1>8 DEF Next

\* In every state, the buckets of the two KPI tables are those of the facts.
THEOREM BucketInvariance == Spec => []BucketInv
<1>1. Init => BucketInv
  BY BoundsAssumption DEF Init, BucketInv, BucketsAreOfFacts, FlushedHaveBuckets, Rows, Pending,
                          Unwritten
<1> QED
  BY <1>1, BucketStep, PTL DEF Spec

-----------------------------------------------------------------------------
(* The two answers.                                                        *)

\* The freshest of some rows.
LEMMA LastTimeHolds == ASSUME BucketInv, NEW S \in SUBSET Rows, S # {}
                       PROVE  /\ LastTime(S) \in Int /\ LastTime(S) <= End + Ahead
                              /\ \A i \in S : facts[i].time <= LastTime(S)
                              /\ \E i \in S : facts[i].time = LastTime(S)
<1> DEFINE times == {facts[i].time : i \in S}
<1>1. \A i \in S : facts[i].time \in Int /\ facts[i].time <= End + Ahead
  BY RowTimes
<1>2. times \subseteq Int /\ times # {} /\ \A t \in times : t <= End + Ahead
  BY <1>1
<1>3. Max(times) \in times /\ \A t \in times : t <= Max(times)
  BY <1>2, TimesFacts, HasMax
<1> QED
  BY <1>2, <1>3 DEF LastTime

\* What the endpoint calls fresh, over both tables, is the freshness of one of them.
LEMMA FreshestHolds ==
    ASSUME BucketInv, Rows # {}
    PROVE  LET fresh == {Freshness(T) : T \in Tables \ {{}}}
           IN  /\ Min(fresh) \in Int
               /\ \A i \in Rows : Min(fresh) <= now - facts[i].time
               /\ \E i \in Rows : Min(fresh) = now - facts[i].time
<1> DEFINE fresh == {Freshness(T) : T \in Tables \ {{}}}
           low == now - (End + Ahead)
<1>1. /\ \A T \in Tables : T \in SUBSET Rows
      /\ \A i \in Rows : \E T \in Tables : i \in T
  BY DEF Tables, Orders
<1>2. ASSUME NEW T \in Tables \ {{}}
      PROVE  /\ Freshness(T) \in Int /\ low <= Freshness(T)
             /\ \A i \in T : Freshness(T) <= now - facts[i].time
             /\ \E i \in T : Freshness(T) = now - facts[i].time
  <2>1. /\ LastTime(T) \in Int /\ LastTime(T) <= End + Ahead
        /\ \A i \in T : facts[i].time <= LastTime(T)
        /\ \E i \in T : facts[i].time = LastTime(T)
    BY <1>1, <1>2, LastTimeHolds
  <2>2. \A i \in T : facts[i].time \in Int
    BY <1>1, <1>2, RowTimes
  <2>3. now \in Int /\ End + Ahead \in Int
    BY TimesFacts DEF BucketInv
  <2> QED
    BY <2>1, <2>2, <2>3 DEF Freshness
<1>3. low \in Int /\ fresh \subseteq Int /\ fresh # {} /\ \A s \in fresh : low <= s
  BY <1>1, <1>2, TimesFacts DEF BucketInv
<1>4. Min(fresh) \in fresh /\ \A s \in fresh : Min(fresh) <= s
  BY <1>3, HasMin
<1>5. ASSUME NEW i \in Rows PROVE Min(fresh) <= now - facts[i].time
  <2>1. PICK T \in Tables \ {{}} : i \in T
    BY <1>1
  <2>2. Freshness(T) \in Int /\ Freshness(T) <= now - facts[i].time /\ Min(fresh) <= Freshness(T)
    BY <1>2, <1>4, <2>1
  <2>3. Min(fresh) \in Int /\ now - facts[i].time \in Int
    BY <1>3, <1>4, RowTimes DEF BucketInv
  <2> QED
    BY <2>2, <2>3
<1>6. \E i \in Rows : Min(fresh) = now - facts[i].time
  <2>1. PICK T \in Tables \ {{}} : Min(fresh) = Freshness(T)
    BY <1>4
  <2>2. \E i \in T : Freshness(T) = now - facts[i].time
    BY <1>2
  <2> QED
    BY <1>1, <2>1, <2>2
<1> QED
  BY <1>3, <1>4, <1>5, <1>6

\* The latest point is that of the newest bucket.
LEMMA LatestPoint ==
    ASSUME NEW g \in Grains, NEW p \in LatestRow(g, AnyChannel)
    PROVE  /\ p.bucket \in DOMAIN kpi[g] /\ \A b \in DOMAIN kpi[g] : b <= p.bucket
           /\ p.counts = kpi[g][p.bucket].counts
<1>1. p \in View(g) /\ \A q \in View(g) : q.bucket <= p.bucket
  BY DEF LatestRow, Newest
<1>2. \A b \in DOMAIN kpi[g] : Point(b, kpi[g][b]) \in View(g) /\ Point(b, kpi[g][b]).bucket = b
  BY DEF View, Point
<1>3. \E b \in DOMAIN kpi[g] : p = Point(b, kpi[g][b])
  BY <1>1 DEF View
<1>4. \A b, m : Point(b, m).bucket = b /\ Point(b, m).counts = m.counts
  BY DEF Point
<1> QED
  BY <1>1, <1>2, <1>3, <1>4

-----------------------------------------------------------------------------
(* Division.                                                               *)

\* A quotient and its remainder.
LEMMA Quotient == ASSUME NEW a \in Int, NEW d \in Nat \ {0}
                  PROVE  \E q, r \in Int : /\ q = a \div d /\ r = a % d
                                           /\ a = d * q + r /\ 0 <= r /\ r < d
<1> DEFINE q == a \div d
           r == a % d
<1>1. d > 0 /\ q \in Int
  OBVIOUS
<1>2. r \in Int /\ 0 <= r /\ r < d
  OBVIOUS
<1>3. r = a - d * q
  BY <1>1
<1>4. d * q \in Int
  BY <1>1
<1> HIDE DEF q, r
<1>5. a = d * q + r
  BY <1>2, <1>3, <1>4
<1> QED
  BY <1>1, <1>2, <1>5 DEF q, r

\* They are unique.
LEMMA QuotientIsOne == ASSUME NEW d \in Nat \ {0}, NEW q \in Int, NEW r \in Int,
                              NEW u \in Int, NEW v \in Int, d * q + r = d * u + v,
                              0 <= r, r < d, 0 <= v, v < d
                       PROVE  q = u /\ r = v
<1>1. d * (q - u) = v - r
  OBVIOUS
<1>2. q - u >= 1 => d * (q - u) >= d
  OBVIOUS
<1>3. u - q >= 1 => d * (u - q) >= d
  OBVIOUS
<1>4. d * (u - q) = r - v
  OBVIOUS
<1> QED
  BY <1>1, <1>2, <1>3, <1>4

\* Rounding moves a quotient by half a unit at most.
LEMMA RoundedHolds == ASSUME NEW n \in Int, NEW d \in Nat \ {0}
                      PROVE  /\ Rounded(n, d) \in Int
                             /\ 2 * (d * Rounded(n, d)) - 2 * n <= d
                             /\ 2 * n - 2 * (d * Rounded(n, d)) < d
<1> DEFINE a == 2 * n + d
           c == 2 * d
<1>1. a \in Int /\ c \in Nat \ {0}
  OBVIOUS
<1> HIDE DEF a, c
<1>2. PICK q, r \in Int : /\ q = a \div c /\ r = a % c
                          /\ a = c * q + r /\ 0 <= r /\ r < c
  BY <1>1, Quotient
<1>3. Rounded(n, d) = q
  BY <1>2 DEF Rounded, a, c
<1>4. c * q = 2 * (d * q) /\ d * q \in Int
  BY DEF c
<1> QED
  BY <1>2, <1>3, <1>4 DEF a, c

\* A numerator that is larger by a unit at most gives a quotient larger by one at most.
LEMMA RoundedClose == ASSUME NEW m \in Int, NEW n \in Int, NEW d \in Nat \ {0}, m - n <= d
                      PROVE  Rounded(m, d) - Rounded(n, d) <= 1
<1> DEFINE x == Rounded(m, d)
           y == Rounded(n, d)
           u == d * x
           v == d * y
<1>1. /\ x \in Int /\ y \in Int
      /\ 2 * u - 2 * m <= d /\ 2 * n - 2 * v < d
  BY RoundedHolds
<1> HIDE DEF x, y
<1>2. x - y >= 2 => u - v >= 2 * d
  <2>1. \A z \in Int : z >= 2 => d * z >= 2 * d
    OBVIOUS
  <2>2. u - v = d * (x - y) /\ x - y \in Int
    BY <1>1
  <2> QED
    BY <2>1, <2>2
<1>3. u \in Int /\ v \in Int
  BY <1>1
<1> HIDE DEF u, v
<1>4. ~(u - v >= 2 * d)
  BY <1>1, <1>3
<1>5. ~(x - y >= 2)
  BY <1>2, <1>4
<1> QED
  BY <1>1, <1>5 DEF x, y

\* Truncation does not see whole units.
LEMMA TruncShift == ASSUME NEW t \in Int, NEW o \in Int, NEW n \in Nat \ {0}, o % n = 0
                    PROVE  Trunc(t + o, n) - o = Trunc(t, n)
<1>1. PICK q, r \in Int : r = t % n /\ t = n * q + r /\ 0 <= r /\ r < n
  BY Quotient
<1>2. PICK u, v \in Int : v = o % n /\ o = n * u + v
  BY Quotient
<1>3. PICK x, y \in Int : y = (t + o) % n /\ t + o = n * x + y /\ 0 <= y /\ y < n
  <2>1. t + o \in Int
    OBVIOUS
  <2> QED
    BY <2>1, Quotient
<1>4. PICK z \in Int : n * z = n * q + n * u
  <2>1. q + u \in Int /\ n * (q + u) = n * q + n * u
    OBVIOUS
  <2> QED
    BY <2>1
<1>5. n * x + y = n * z + r
  <2> DEFINE nq == n * q
             nu == n * u
             nx == n * x
             nz == n * z
  <2>1. nq \in Int /\ nu \in Int /\ nx \in Int /\ nz \in Int
    OBVIOUS
  <2>2. t = nq + r /\ o = nu + 0 /\ t + o = nx + y /\ nz = nq + nu
    BY <1>1, <1>2, <1>3, <1>4
  <2> HIDE DEF nq, nu, nx, nz
  <2>3. nx + y = nz + r
    BY <1>1, <1>3, <2>1, <2>2
  <2> QED
    BY <2>3 DEF nx, nz
<1>6. y = r
  BY <1>1, <1>3, <1>4, <1>5, QuotientIsOne
<1>7. Trunc(t + o, n) = (t + o) - y /\ Trunc(t, n) = t - r
  BY <1>1, <1>3 DEF Trunc
<1> QED
  BY <1>1, <1>3, <1>6, <1>7

\* The times that are truncated to x are those of its unit.
LEMMA TruncUnique == ASSUME NEW t \in Int, NEW s \in Int, NEW n \in Nat \ {0},
                            Trunc(s, n) <= t, t < Trunc(s, n) + n
                     PROVE  Trunc(t, n) = Trunc(s, n)
<1>1. PICK q, r \in Int : r = t % n /\ t = n * q + r /\ 0 <= r /\ r < n
  BY Quotient
<1>2. PICK u, v \in Int : v = s % n /\ s = n * u + v /\ 0 <= v /\ v < n
  BY Quotient
<1>3. n * q \in Int /\ n * u \in Int
  OBVIOUS
<1>4. Trunc(t, n) = n * q /\ Trunc(s, n) = n * u
  <2>1. Trunc(t, n) = t - r /\ Trunc(s, n) = s - v
    BY <1>1, <1>2 DEF Trunc
  <2> QED
    BY <1>1, <1>2, <1>3, <2>1
<1>5. n * q + r = n * u + (t - n * u) /\ t - n * u \in Int /\ 0 <= t - n * u /\ t - n * u < n
  BY <1>1, <1>3, <1>4
<1>6. q = u
  BY <1>1, <1>5, QuotientIsOne
<1> QED
  BY <1>4, <1>6

-----------------------------------------------------------------------------
(* What the KPI tables say of the facts.                                   *)

\* The rows of L in one bucket, how many of a kind, and the amounts of them.
In(fs, g, L, b) == {i \in L : Bucket(g, fs[i]) = b}
CountOf(fs, k, L) == Cardinality({i \in L : fs[i].kind = k})
AmountOf(fs, L) == SumFunction([i \in L |-> fs[i].amount])

\* A row that tells of the facts L counts them, and its revenue differs from their amounts
\* by half a cent for each order at most.
Tells(fs, row, L) ==
    /\ row.revenue \in Nat
    /\ row.counts = [k \in Kinds |-> CountOf(fs, k, L)]
    /\ 2 * (Cent * row.revenue) - 2 * AmountOf(fs, L) <= Cent * CountOf(fs, "order", L)
    /\ 2 * AmountOf(fs, L) - 2 * (Cent * row.revenue) <= Cent * CountOf(fs, "order", L)

\* A table that stands for the facts L has their buckets, each telling of its facts.
StandsFor(fs, g, table, L) ==
    /\ DOMAIN table = {Bucket(g, fs[i]) : i \in L}
    /\ \A b \in DOMAIN table : Tells(fs, table[b], In(fs, g, L, b))

\* Facts as the model has them: orders are what has an amount.
FactLists == {fs \in Seq(Facts) : \A i \in DOMAIN fs : fs[i].kind = "order" <=> fs[i].amount > 0}

\* Sets of rows are finite.
LEMMA RowSets == ASSUME NEW fs \in FactLists, NEW S \in SUBSET DOMAIN fs
                 PROVE  /\ IsFiniteSet(S) /\ Cardinality(S) \in Nat /\ Cardinality(S) <= Len(fs)
                        /\ \A i \in S : fs[i] \in Facts /\ fs[i].amount \in Nat
<1>1. DOMAIN fs = 1..Len(fs) /\ Len(fs) \in Nat /\ \A i \in DOMAIN fs : fs[i] \in Facts
  BY DEF FactLists
<1>2. IsFiniteSet(1..Len(fs)) /\ Cardinality(1..Len(fs)) = Len(fs)
  <2>1. 1 \in Int /\ Len(fs) \in Int
    BY <1>1
  <2>2. /\ IsFiniteSet(1..Len(fs))
        /\ Cardinality(1..Len(fs)) = IF 1 > Len(fs) THEN 0 ELSE Len(fs) - 1 + 1
    BY <2>1, FS_Interval
  <2> QED
    BY <1>1, <2>2
<1>3. IsFiniteSet(S) /\ Cardinality(S) <= Len(fs)
  BY <1>1, <1>2, FS_Subset
<1> QED
  BY <1>1, <1>3, FS_CardinalityType DEF Facts

\* Counting is additive, and a larger set has no fewer.
LEMMA CountsAdd == ASSUME NEW fs \in FactLists, NEW k, NEW S \in SUBSET DOMAIN fs, NEW T \in SUBSET DOMAIN fs
                   PROVE  /\ CountOf(fs, k, S) \in Nat /\ CountOf(fs, k, T) \in Nat
                          /\ S \intersect T = {} =>
                                CountOf(fs, k, S \union T) = CountOf(fs, k, S) + CountOf(fs, k, T)
                          /\ S \subseteq T => CountOf(fs, k, S) <= CountOf(fs, k, T)
<1> DEFINE A == {i \in S : fs[i].kind = k}
           B == {i \in T : fs[i].kind = k}
<1>1. /\ IsFiniteSet(A) /\ IsFiniteSet(B) /\ Cardinality(A) \in Nat /\ Cardinality(B) \in Nat
  <2>1. A \in SUBSET DOMAIN fs /\ B \in SUBSET DOMAIN fs
    OBVIOUS
  <2> HIDE DEF A, B
  <2> QED
    BY <2>1, RowSets
<1>2. ASSUME S \intersect T = {} PROVE Cardinality(A \union B) = Cardinality(A) + Cardinality(B)
  <2>1. A \intersect B = {}
    BY <1>2
  <2> HIDE DEF A, B
  <2>2. Cardinality(A \intersect B) = 0
    BY <2>1, FS_EmptySet
  <2>3. Cardinality(A \union B) = Cardinality(A) + Cardinality(B) - Cardinality(A \intersect B)
    BY <1>1, FS_Union
  <2> QED
    BY <1>1, <2>2, <2>3
<1>3. {i \in S \union T : fs[i].kind = k} = A \union B
  OBVIOUS
<1>4. ASSUME S \subseteq T PROVE Cardinality(A) <= Cardinality(B)
  <2>1. A \in SUBSET B
    BY <1>4
  <2> HIDE DEF A, B
  <2> QED
    BY <1>1, <2>1, FS_Subset
<1> QED
  BY <1>1, <1>2, <1>3, <1>4 DEF CountOf

\* So is the sum of the amounts; without an order there is none.
LEMMA AmountsAdd == ASSUME NEW fs \in FactLists, NEW S \in SUBSET DOMAIN fs, NEW T \in SUBSET DOMAIN fs
                    PROVE  /\ AmountOf(fs, S) \in Nat /\ AmountOf(fs, T) \in Nat
                           /\ S \intersect T = {} =>
                                 AmountOf(fs, S \union T) = AmountOf(fs, S) + AmountOf(fs, T)
                           /\ CountOf(fs, "order", S) = 0 => AmountOf(fs, S) = 0
<1> DEFINE amounts == [i \in DOMAIN fs |-> fs[i].amount]
<1>1. ASSUME NEW U \in SUBSET DOMAIN fs
      PROVE  /\ AmountOf(fs, U) = SumFunctionOnSet(amounts, U) /\ AmountOf(fs, U) \in Nat
  <2> DEFINE f == [i \in U |-> fs[i].amount]
  <2>1. AmountOf(fs, U) = SumFunctionOnSet(f, U)
    BY DEF AmountOf, SumFunction
  <2>2. /\ IsFiniteSet(U)
        /\ \A i \in U : f[i] \in Nat
        /\ \A i \in U : f[i] \in Int /\ f[i] = amounts[i]
    <3>1. IsFiniteSet(U) /\ \A i \in U : fs[i].amount \in Nat
      BY RowSets
    <3> QED
      BY <3>1
  <2> HIDE DEF f, amounts
  <2>3. SumFunctionOnSet(f, U) = SumFunctionOnSet(amounts, U)
    BY <2>2, SumEqual
  <2>4. SumFunctionOnSet(f, U) \in Nat
    BY <2>2, SumNat
  <2> QED
    BY <2>1, <2>3, <2>4
<1>2. IsFiniteSet(S) /\ IsFiniteSet(T) /\ \A i \in S \union T : amounts[i] \in Int
  <2>1. /\ IsFiniteSet(S) /\ \A i \in S : fs[i].amount \in Nat
        /\ IsFiniteSet(T) /\ \A i \in T : fs[i].amount \in Nat
    BY RowSets
  <2> QED
    BY <2>1
<1>3. S \union T \in SUBSET DOMAIN fs
  OBVIOUS
<1>4. ASSUME CountOf(fs, "order", S) = 0 PROVE \A i \in S : amounts[i] = 0
  <2>1. {i \in S : fs[i].kind = "order"} \in SUBSET DOMAIN fs
    OBVIOUS
  <2>2. IsFiniteSet({i \in S : fs[i].kind = "order"})
    BY <2>1, RowSets
  <2>3. {i \in S : fs[i].kind = "order"} = {}
    BY <1>4, <2>2, FS_EmptySet DEF CountOf
  <2> SUFFICES ASSUME NEW i \in S PROVE amounts[i] = 0
    OBVIOUS
  <2>4. fs[i].amount \in Nat /\ ~(fs[i].amount > 0)
    BY <2>3, RowSets DEF FactLists
  <2> QED
    BY <2>4
<1> HIDE DEF amounts
<1>5. S \intersect T = {} => SumFunctionOnSet(amounts, S \union T)
                               = SumFunctionOnSet(amounts, S) + SumFunctionOnSet(amounts, T)
  BY <1>2, SumUnion
<1>6. CountOf(fs, "order", S) = 0 => SumFunctionOnSet(amounts, S) = 0
  <2>1. ASSUME CountOf(fs, "order", S) = 0 PROVE SumFunctionOnSet(amounts, S) = 0 * Cardinality(S)
    BY <1>2, <1>4, <2>1, SumConstant
  <2>2. 0 * Cardinality(S) = 0
    BY RowSets
  <2> QED
    BY <2>1, <2>2
<1> QED
  BY <1>1, <1>3, <1>5, <1>6

\* What a flush computes of its rows tells of them.
LEMMA MetricsTell == ASSUME NEW S \in SUBSET DOMAIN facts, facts \in FactLists
                     PROVE  Tells(facts, Metrics(S), S)
<1> DEFINE a == AmountOf(facts, S)
           n == CountOf(facts, "order", S)
           r == Rounded(a, Cent)
<1>1. a \in Nat /\ n \in Nat /\ (n = 0 => a = 0) /\ Cent \in Nat \ {0}
  BY AmountsAdd, CountsAdd, LengthAssumption
<1>2. Metrics(S) = [revenue |-> r, counts |-> [k \in Kinds |-> CountOf(facts, k, S)]]
  BY DEF Metrics, Counts, HowMany, CountOf, AmountOf
<1> HIDE DEF a, n
<1>3. r \in Int /\ 2 * (Cent * r) - 2 * a <= Cent /\ 2 * a - 2 * (Cent * r) < Cent
  BY <1>1, RoundedHolds
<1>4. r \in Nat
  <2>1. ~(r < 0)
    <3> SUFFICES ASSUME r <= -1 PROVE FALSE
      BY <1>3
    <3>1. Cent * r <= Cent * (-1)
      BY <1>1, <1>3
    <3>2. Cent * r \in Int
      BY <1>1, <1>3
    <3> HIDE DEF r
    <3> QED
      BY <1>1, <1>3, <3>1, <3>2
  <2> QED
    BY <1>3, <2>1
<1>5. 2 * (Cent * r) - 2 * a <= Cent * n /\ 2 * a - 2 * (Cent * r) <= Cent * n
  <2> HIDE DEF r
  <2>1. Cent * r \in Int
    BY <1>1, <1>4
  <2>2. CASE n = 0
    <3>1. r = 0
      <4> SUFFICES ASSUME r >= 1 PROVE FALSE
        BY <1>4
      <4>1. Cent * r >= Cent
        BY <1>1, <1>4
      <4> QED
        BY <1>1, <1>3, <2>1, <2>2, <4>1
    <3> QED
      BY <1>1, <2>2, <3>1
  <2>3. CASE n # 0
    <3>1. Cent * n >= Cent /\ Cent * n \in Int
      BY <1>1, <2>3
    <3> QED
      BY <1>1, <1>3, <2>1, <3>1
  <2> QED
    BY <2>2, <2>3
<1> HIDE DEF r
<1> QED
  BY <1>2, <1>4, <1>5 DEF Tells, a, n

\* Two rows that tell of facts with nothing in common add up to one that tells of both.
LEMMA TellsAdd ==
    ASSUME NEW fs \in FactLists, NEW S \in SUBSET DOMAIN fs, NEW T \in SUBSET DOMAIN fs,
           S \intersect T = {}, NEW old, NEW new, Tells(fs, old, S), Tells(fs, new, T)
    PROVE  Tells(fs, [revenue |-> old.revenue + new.revenue,
                      counts  |-> [k \in Kinds |-> old.counts[k] + new.counts[k]]], S \union T)
<1> DEFINE row == [revenue |-> old.revenue + new.revenue,
                   counts  |-> [k \in Kinds |-> old.counts[k] + new.counts[k]]]
           r == old.revenue
           q == new.revenue
           a == AmountOf(fs, S)
           b == AmountOf(fs, T)
           m == CountOf(fs, "order", S)
           n == CountOf(fs, "order", T)
<1>1. \A k \in Kinds : /\ CountOf(fs, k, S \union T) = CountOf(fs, k, S) + CountOf(fs, k, T)
                       /\ old.counts[k] = CountOf(fs, k, S) /\ new.counts[k] = CountOf(fs, k, T)
  <2>1. \A k \in Kinds : CountOf(fs, k, S \union T) = CountOf(fs, k, S) + CountOf(fs, k, T)
    BY CountsAdd
  <2>2. \A k \in Kinds : old.counts[k] = CountOf(fs, k, S) /\ new.counts[k] = CountOf(fs, k, T)
    BY DEF Tells
  <2> QED
    BY <2>1, <2>2
<1>2. row.counts = [k \in Kinds |-> CountOf(fs, k, S \union T)]
  BY <1>1
<1>3. /\ AmountOf(fs, S \union T) = a + b /\ CountOf(fs, "order", S \union T) = m + n
      /\ a \in Nat /\ b \in Nat /\ m \in Nat /\ n \in Nat /\ Cent \in Nat
  BY AmountsAdd, CountsAdd, LengthAssumption
<1>4. /\ r \in Nat /\ q \in Nat
      /\ 2 * (Cent * r) - 2 * a <= Cent * m /\ 2 * a - 2 * (Cent * r) <= Cent * m
      /\ 2 * (Cent * q) - 2 * b <= Cent * n /\ 2 * b - 2 * (Cent * q) <= Cent * n
  BY DEF Tells
<1> HIDE DEF a, b, m, n, r, q
<1>5. /\ Cent * (r + q) = Cent * r + Cent * q /\ Cent * (m + n) = Cent * m + Cent * n
      /\ Cent * r \in Int /\ Cent * q \in Int /\ Cent * m \in Int /\ Cent * n \in Int
  <2>1. \A x, y \in Int : Cent * (x + y) = Cent * x + Cent * y /\ Cent * x \in Int
    BY <1>3
  <2> QED
    BY <1>3, <1>4, <2>1
<1>6. /\ r + q \in Nat
      /\ 2 * (Cent * (r + q)) - 2 * (a + b) <= Cent * (m + n)
      /\ 2 * (a + b) - 2 * (Cent * (r + q)) <= Cent * (m + n)
  <2> DEFINE cr == Cent * r
             cq == Cent * q
             cm == Cent * m
             cn == Cent * n
  <2>1. /\ cr \in Int /\ cq \in Int /\ cm \in Int /\ cn \in Int
        /\ 2 * cr - 2 * a <= cm /\ 2 * a - 2 * cr <= cm
        /\ 2 * cq - 2 * b <= cn /\ 2 * b - 2 * cq <= cn
    BY <1>4, <1>5
  <2> HIDE DEF cr, cq, cm, cn
  <2>2. 2 * (cr + cq) - 2 * (a + b) <= cm + cn /\ 2 * (a + b) - 2 * (cr + cq) <= cm + cn
    BY <1>3, <2>1
  <2> QED
    BY <1>4, <1>5, <2>2 DEF cr, cq, cm, cn
<1>7. row.revenue = r + q
  BY DEF r, q
<1> HIDE DEF row
<1>8. Tells(fs, row, S \union T)
  BY <1>2, <1>3, <1>6, <1>7 DEF Tells
<1> QED
  BY <1>8 DEF row

\* A row that is not there tells of nothing.
LEMMA NothingTells == facts \in FactLists => Tells(facts, NoMetrics, {})
<1> SUFFICES ASSUME facts \in FactLists PROVE Tells(facts, NoMetrics, {})
  OBVIOUS
<1>1. \A k : {i \in {} : facts[i].kind = k} = {}
  OBVIOUS
<1>2. \A k : CountOf(facts, k, {}) = 0
  BY <1>1, FS_EmptySet DEF CountOf
<1>3. {} \in SUBSET DOMAIN facts
  OBVIOUS
<1>4. AmountOf(facts, {}) = 0
  BY <1>2, <1>3, AmountsAdd
<1>5. Cent * 0 = 0
  BY LengthAssumption
<1> QED
  BY <1>2, <1>4, <1>5 DEF Tells, NoMetrics

\* A flush makes the table stand for its rows too.
LEMMA UpsertStands ==
    ASSUME facts \in FactLists, NEW g \in Grains, NEW L \in SUBSET DOMAIN facts,
           NEW S \in SUBSET DOMAIN facts, L \intersect S = {}, StandsFor(facts, g, kpi[g], L)
    PROVE  StandsFor(facts, g, Upserted(g, S), L \union S)
<1> DEFINE buckets == {Bucket(g, facts[i]) : i \in S}
           table == Upserted(g, S)
<1>1. DOMAIN table = DOMAIN kpi[g] \union buckets
  BY DEF Upserted
<1>2. DOMAIN table = {Bucket(g, facts[i]) : i \in L \union S}
  BY <1>1 DEF StandsFor
<1>3. ASSUME NEW b \in DOMAIN table
      PROVE  Tells(facts, table[b], In(facts, g, L \union S, b))
  <2> DEFINE new == Metrics(In(facts, g, S, b))
             old == At(kpi[g], b)
  <2>1. table[b] = [revenue |-> old.revenue + new.revenue,
                    counts  |-> [k \in Kinds |-> old.counts[k] + new.counts[k]]]
    BY <1>1, <1>3 DEF Upserted, In
  <2>2. /\ In(facts, g, L \union S, b) = In(facts, g, L, b) \union In(facts, g, S, b)
        /\ In(facts, g, L, b) \intersect In(facts, g, S, b) = {}
        /\ In(facts, g, L, b) \in SUBSET DOMAIN facts /\ In(facts, g, S, b) \in SUBSET DOMAIN facts
    BY DEF In
  <2>3. Tells(facts, new, In(facts, g, S, b))
    BY <2>2, MetricsTell
  <2>4. Tells(facts, old, In(facts, g, L, b))
    <3>1. CASE b \in DOMAIN kpi[g]
      BY <3>1 DEF At, StandsFor
    <3>2. CASE b \notin DOMAIN kpi[g]
      <4>1. In(facts, g, L, b) = {}
        BY <3>2 DEF In, StandsFor
      <4> QED
        BY <3>2, <4>1, NothingTells DEF At
    <3> QED
      BY <3>1, <3>2
  <2> HIDE DEF new, old
  <2> QED
    BY <2>1, <2>2, <2>3, <2>4, TellsAdd
<1> HIDE DEF table
<1>4. StandsFor(facts, g, table, L \union S)
  BY <1>2, <1>3 DEF StandsFor
<1> QED
  BY <1>4 DEF table

\* Rows that are added change nothing of what a table says of the others.
LEMMA StandsStill ==
    ASSUME NEW fs, NEW gs, NEW L, \A i \in L : gs[i] = fs[i],
           NEW g, NEW table, StandsFor(fs, g, table, L)
    PROVE  StandsFor(gs, g, table, L)
<1>1. {Bucket(g, gs[i]) : i \in L} = {Bucket(g, fs[i]) : i \in L}
  OBVIOUS
<1>2. ASSUME NEW b PROVE In(gs, g, L, b) = In(fs, g, L, b) /\ In(fs, g, L, b) \subseteq L
  BY DEF In
<1>3. ASSUME NEW T \in SUBSET L, NEW row, Tells(fs, row, T) PROVE Tells(gs, row, T)
  <2>1. \A k : CountOf(gs, k, T) = CountOf(fs, k, T)
    <3> SUFFICES ASSUME NEW k PROVE CountOf(gs, k, T) = CountOf(fs, k, T)
      OBVIOUS
    <3>1. {i \in T : gs[i].kind = k} = {i \in T : fs[i].kind = k}
      OBVIOUS
    <3> QED
      BY <3>1 DEF CountOf
  <2>2. AmountOf(gs, T) = AmountOf(fs, T)
    <3>1. [i \in T |-> gs[i].amount] = [i \in T |-> fs[i].amount]
      OBVIOUS
    <3> QED
      BY <3>1 DEF AmountOf
  <2> QED
    BY <1>3, <2>1, <2>2 DEF Tells
<1> QED
  BY <1>1, <1>2, <1>3 DEF StandsFor

\* Each table stands for some of the facts: for none that is still to be flushed, and,
\* while nothing was lost, for all the others.
Apart == hand \intersect agg = {} /\ (hand \union agg) \intersect batch = {}

LandedInv ==
    /\ facts \in FactLists /\ Len(facts) <= MaxFacts
    /\ Apart
    /\ \A g \in Grains : \E L \in SUBSET Rows :
          /\ L \intersect Pending(g) = {}
          /\ losses = 0 => L \union Pending(g) = Rows
          /\ StandsFor(facts, g, kpi[g], L)

\* What a step that executes the statement of one grain keeps, whether its answer arrives
\* or is lost.
LEMMA FlushLands ==
    ASSUME BucketInv, LandedInv, NEW g \in Grains, kpi' = Posted(g), facts' = facts,
           batch \subseteq Pending(g), Pending(g)' \subseteq Pending(g) \ batch,
           losses' = 0 => losses = 0 /\ Pending(g)' = Pending(g) \ batch,
           \A h \in Grains \ {g} : /\ Pending(h)' \subseteq Pending(h)
                                   /\ losses' = 0 => Pending(h)' = Pending(h),
           Apart'
    PROVE  LandedInv'
<1>1. Rows' = Rows /\ Rows = DOMAIN facts /\ batch \in SUBSET Rows
  BY DEF Rows, BucketInv
<1>2. kpi'[g] = Upserted(g, batch) /\ \A h \in Grains \ {g} : kpi'[h] = kpi[h]
  BY DEF BucketInv, Posted
<1>3. ASSUME NEW h \in Grains
      PROVE  \E L \in SUBSET Rows' : /\ L \intersect Pending(h)' = {}
                                     /\ losses' = 0 => L \union Pending(h)' = Rows'
                                     /\ StandsFor(facts', h, kpi'[h], L)
  <2>1. PICK L \in SUBSET Rows : /\ L \intersect Pending(h) = {}
                                 /\ losses = 0 => L \union Pending(h) = Rows
                                 /\ StandsFor(facts, h, kpi[h], L)
    BY DEF LandedInv
  <2>2. CASE h # g
    <3>1. L \intersect Pending(h)' = {} /\ (losses' = 0 => L \union Pending(h)' = Rows)
      BY <2>1, <2>2
    <3> QED
      BY <1>1, <1>2, <2>1, <2>2, <3>1
  <2>3. CASE h = g
    <3>1. L \intersect batch = {} /\ facts \in FactLists /\ L \in SUBSET DOMAIN facts /\ batch \in SUBSET DOMAIN facts
      BY <1>1, <2>1, <2>3 DEF LandedInv
    <3>2. StandsFor(facts, h, kpi'[h], L \union batch)
      BY <1>2, <2>1, <2>3, <3>1, UpsertStands
    <3>3. L \union batch \in SUBSET Rows /\ (L \union batch) \intersect Pending(h)' = {}
      BY <1>1, <2>1, <2>3
    <3>4. losses' = 0 => (L \union batch) \union Pending(h)' = Rows
      BY <2>1, <2>3
    <3> QED
      BY <1>1, <3>2, <3>3, <3>4
  <2> QED
    BY <2>2, <2>3
<1>4. facts' \in FactLists /\ Len(facts') <= MaxFacts
  BY DEF LandedInv
<1> QED
  BY <1>3, <1>4 DEF LandedInv

\* What a step that writes nothing keeps: it moves rows, or loses some.
LEMMA MovesLand ==
    ASSUME LandedInv, UNCHANGED <<facts, kpi>>,
           \A g \in Grains : /\ Pending(g)' \subseteq Pending(g)
                             /\ losses' = 0 => losses = 0 /\ Pending(g)' = Pending(g),
           Apart'
    PROVE  LandedInv'
<1>1. Rows' = Rows
  BY DEF Rows
<1>2. ASSUME NEW g \in Grains
      PROVE  \E L \in SUBSET Rows' : /\ L \intersect Pending(g)' = {}
                                     /\ losses' = 0 => L \union Pending(g)' = Rows'
                                     /\ StandsFor(facts', g, kpi'[g], L)
  <2>1. PICK L \in SUBSET Rows : /\ L \intersect Pending(g) = {}
                                 /\ losses = 0 => L \union Pending(g) = Rows
                                 /\ StandsFor(facts, g, kpi[g], L)
    BY DEF LandedInv
  <2>2. L \intersect Pending(g)' = {} /\ (losses' = 0 => L \union Pending(g)' = Rows)
    BY <2>1
  <2> QED
    BY <1>1, <2>1, <2>2
<1> QED
  BY <1>2 DEF LandedInv

\* A new row is on its way; what the tables stand for is as it was.
LEMMA InsertLands ==
    ASSUME BucketInv, LandedInv, NEW s \in Samples, NEW t \in Times, NEW q \in Start..End,
           Insert(s, t, q)
    PROVE  LandedInv'
<1> DEFINE f == [kind |-> s.kind, time |-> t, offset |-> s.offset, channel |-> s.channel,
                 amount |-> s.amount, processed |-> q]
           n == Len(facts) + 1
<1>1. f \in Facts /\ (f.kind = "order" <=> f.amount > 0)
  <2>1. /\ s.kind \in Kinds /\ s.channel \in Channels \union {NoChannel}
        /\ s.offset \in Int /\ s.amount \in Nat /\ (s.kind = "order" <=> s.amount > 0)
    BY SampleAssumption
  <2>2. q \in Nat
    BY BoundsAssumption
  <2> QED
    BY <2>1, <2>2 DEF Facts
<1>2. /\ facts' = Append(facts, f) /\ UNCHANGED <<now, agg, batch, flush, kpi, losses>>
      /\ Len(facts) < MaxFacts
  BY DEF Insert
<1> HIDE DEF f
<1>3. /\ facts \in Seq(Facts) /\ facts' \in Seq(Facts) /\ Len(facts') = n /\ Len(facts) \in Nat
      /\ \A i \in 1..Len(facts) : facts'[i] = facts[i]
      /\ facts'[n] = f
      /\ Rows = 1..Len(facts) /\ Rows' = 1..n
  BY <1>1, <1>2 DEF BucketInv, Rows
<1>4. Rows' = Rows \union {n} /\ n \notin Rows
  BY <1>3
<1>5. hand = {} /\ hand' = {n}
  BY <1>3 DEF Insert
<1>6. facts' \in FactLists
  <2>1. \A i \in DOMAIN facts' : facts'[i].kind = "order" <=> facts'[i].amount > 0
    BY <1>1, <1>3, <1>4 DEF LandedInv, FactLists, Rows
  <2> QED
    BY <1>3, <2>1 DEF FactLists
<1>7. Len(facts') <= MaxFacts
  BY <1>2, <1>3, BoundsAssumption
<1>8. Apart'
  BY <1>2, <1>4, <1>5 DEF LandedInv, BucketInv, Apart
<1>9. ASSUME NEW g \in Grains
      PROVE  \E L \in SUBSET Rows' : /\ L \intersect Pending(g)' = {}
                                     /\ losses' = 0 => L \union Pending(g)' = Rows'
                                     /\ StandsFor(facts', g, kpi'[g], L)
  <2>1. PICK L \in SUBSET Rows : /\ L \intersect Pending(g) = {}
                                 /\ losses = 0 => L \union Pending(g) = Rows
                                 /\ StandsFor(facts, g, kpi[g], L)
    BY DEF LandedInv
  <2>2. Pending(g)' = Pending(g) \union {n}
    BY <1>2, <1>5 DEF Pending, Unwritten
  <2>3. \A i \in L : facts'[i] = facts[i]
    BY <1>3, <2>1
  <2>4. StandsFor(facts', g, kpi'[g], L)
    BY <1>2, <2>1, <2>3, StandsStill
  <2>5. L \in SUBSET Rows' /\ L \intersect Pending(g)' = {}
    BY <1>4, <2>1, <2>2
  <2>6. losses' = 0 => L \union Pending(g)' = Rows'
    BY <1>2, <1>4, <2>1, <2>2
  <2> QED
    BY <2>4, <2>5, <2>6
<1> QED
  BY <1>6, <1>7, <1>8, <1>9 DEF LandedInv

\* A failure loses what was on its way; the statement in flight may have been executed.
LEMMA LossLands ==
    ASSUME BucketInv, LandedInv, kpi' \in Outcome, facts' = facts, losses' = losses + 1,
           hand' \subseteq hand, agg' \subseteq agg, batch' = {}
    PROVE  LandedInv'
<1>1. losses' # 0
  BY DEF BucketInv
<1>2. Apart'
  BY DEF LandedInv, Apart
<1>3. \A g \in Grains : Pending(g)' \subseteq Pending(g)
  BY DEF Pending, Unwritten
<1>4. CASE kpi' = kpi
  BY <1>1, <1>2, <1>3, <1>4, MovesLand
<1>5. ASSUME NEW g \in Grains, g = flush, kpi' = Posted(g) PROVE LandedInv'
  <2>1. batch \subseteq Pending(g)
    BY <1>5 DEF Pending, Unwritten
  <2>2. Pending(g)' \subseteq Pending(g) \ batch
    BY DEF Pending, Unwritten, LandedInv, Apart
  <2> QED
    BY <1>1, <1>2, <1>3, <1>5, <2>1, <2>2, FlushLands
<1> QED
  BY <1>4, <1>5 DEF Outcome

\* Each step keeps the tables standing for what was flushed.
LEMMA LandedStep == ASSUME BucketInv, LandedInv, [Next]_vars PROVE LandedInv'
<1>1. ASSUME Tick \/ UNCHANGED vars PROVE LandedInv'
  <2>1. UNCHANGED <<facts, hand, agg, batch, flush, kpi, losses>>
    BY <1>1 DEF Tick, vars
  <2>2. Rows' = Rows /\ Apart' /\ \A g : Pending(g)' = Pending(g)
    BY <2>1 DEF Rows, Pending, Unwritten, LandedInv, Apart
  <2> QED
    BY <2>1, <2>2 DEF LandedInv
<1>2. ASSUME NEW s \in Samples, NEW t \in Times, NEW q \in Start..End, Insert(s, t, q)
      PROVE  LandedInv'
  BY <1>2, InsertLands
<1>3. ASSUME Add PROVE LandedInv'
  <2>1. UNCHANGED <<facts, kpi, losses>> /\ Apart'
    BY <1>3 DEF Add, LandedInv, Apart
  <2> QED
    BY <1>3, <2>1, AddMoves, MovesLand
<1>4. ASSUME Drain PROVE LandedInv'
  <2>1. UNCHANGED <<facts, kpi, losses>> /\ Apart'
    BY <1>4 DEF Drain, LandedInv, Apart
  <2> QED
    BY <1>4, <2>1, DrainMoves, MovesLand
<1>5. ASSUME FlushMinute PROVE LandedInv'
  <2>1. kpi' = Posted("minute") /\ facts' = facts /\ losses' = losses /\ Apart'
    BY <1>5 DEF FlushMinute, LandedInv, Apart
  <2>2. /\ batch \subseteq Pending("minute") /\ Pending("minute")' = Pending("minute") \ batch
        /\ \A h \in Grains \ {"minute"} : Pending(h)' = Pending(h)
        /\ "minute" \in Grains
    BY <1>5, MinuteMoves DEF Grains, LandedInv, Apart
  <2> QED
    BY <2>1, <2>2, FlushLands
<1>6. ASSUME FlushHour PROVE LandedInv'
  <2>1. kpi' = Posted("hour") /\ facts' = facts /\ losses' = losses /\ Apart'
    BY <1>6 DEF FlushHour, LandedInv, Apart
  <2>2. /\ batch \subseteq Pending("hour") /\ Pending("hour")' = Pending("hour") \ batch
        /\ \A h \in Grains \ {"hour"} : Pending(h)' = Pending(h)
        /\ "hour" \in Grains
    BY <1>6, HourMoves DEF Grains, LandedInv, Apart
  <2> QED
    BY <2>1, <2>2, FlushLands
<1>7. ASSUME FlushFails \/ ProcessEnds PROVE LandedInv'
  BY <1>7, LossLands DEF FlushFails, ProcessEnds
<1> QED
  BY <1>1, <1>2, <1>3, <1>4, <1>5, <1>6, <1>7 DEF Next

\* The two KPI tables stand for the facts that were flushed.
THEOREM LandedInvariance == Spec => [](BucketInv /\ LandedInv)
<1>1. Init => LandedInv
  <2> SUFFICES ASSUME Init PROVE LandedInv
    OBVIOUS
  <2>1. facts = <<>> /\ hand = {} /\ agg = {} /\ batch = {} /\ kpi = [g \in Grains |-> <<>>]
    BY DEF Init
  <2>2. <<>> \in FactLists /\ Len(<<>>) <= MaxFacts /\ Rows = {}
    BY <2>1, BoundsAssumption DEF FactLists, Rows
  <2>3. \A g \in Grains : StandsFor(facts, g, kpi[g], {})
    BY <2>1 DEF StandsFor
  <2> QED
    BY <2>1, <2>2, <2>3 DEF LandedInv, Apart, Pending, Unwritten
<1>2. BucketInv /\ LandedInv /\ [Next]_vars => LandedInv'
  BY LandedStep
<1> QED
  BY <1>1, <1>2, BucketInvariance, PTL DEF Spec

-----------------------------------------------------------------------------
(* What a series adds up to.                                               *)

\* An image of a finite set is finite, and no larger.
LEMMA FiniteImage == ASSUME NEW S, IsFiniteSet(S), NEW p
                     PROVE  /\ IsFiniteSet({p[x] : x \in S})
                            /\ Cardinality({p[x] : x \in S}) <= Cardinality(S)
<1> DEFINE T == {p[x] : x \in S}
           f == [x \in S |-> p[x]]
<1>1. f \in Surjection(S, T)
  BY DEF Surjection
<1> HIDE DEF f, T
<1>2. IsFiniteSet(T) /\ Cardinality(T) <= Cardinality(S)
  BY <1>1, FS_Surjection
<1> QED
  BY <1>2 DEF T

\* A bucket has one point; rows[p] are those elements of T whose bucket, at, is p's.
Distinct(P) == \A p, q \in P : p.bucket = q.bucket => p = q
Grouping(rows, T, at, P) ==
    /\ \A i \in T : \E p \in P : p.bucket = at[i]
    /\ \A p \in P : \A i : i \in rows[p] <=> i \in T /\ at[i] = p.bucket

\* Elements that are counted point by point, each at the point of its bucket.
LEMMA CountByBucket ==
    ASSUME NEW T, IsFiniteSet(T), NEW P, IsFiniteSet(P), Distinct(P),
           NEW at, NEW rows, Grouping(rows, T, at, P),
           NEW c, \A p \in P : c[p] = Cardinality(rows[p])
    PROVE  SumFunctionOnSet(c, P) = Cardinality(T)
<1>1. PICK pointOf : \A i \in T : pointOf[i] \in P /\ pointOf[i].bucket = at[i]
  <2> DEFINE f == [i \in T |-> CHOOSE p \in P : p.bucket = at[i]]
  <2>1. \A i \in T : f[i] \in P /\ f[i].bucket = at[i]
    BY DEF Grouping
  <2> HIDE DEF f
  <2> QED
    BY <2>1
<1>2. \A p \in P : \A i : i \in rows[p] <=> i \in T /\ pointOf[i] = p
  BY <1>1 DEF Grouping, Distinct
<1>3. \A i \in T : pointOf[i] \in P
  BY <1>1
<1> QED
  BY <1>2, <1>3, CountGroups

\* Points that count the rows S, each those of its own bucket, count them all.
LEMMA PointsCount ==
    ASSUME facts \in FactLists, NEW S \in SUBSET DOMAIN facts, NEW k, NEW P, IsFiniteSet(P),
           Distinct(P), NEW at, NEW rows, Grouping(rows, S, at, P),
           \A p \in P : p.counts[k] = CountOf(facts, k, rows[p])
    PROVE  Answered(P, k) = CountOf(facts, k, S)
<1> DEFINE T == {i \in S : facts[i].kind = k}
           c == [p \in P |-> p.counts[k]]
           groups == [p \in P |-> {i \in T : at[i] = p.bucket}]
<1>1. IsFiniteSet(T)
  <2>1. T \in SUBSET DOMAIN facts
    OBVIOUS
  <2> QED
    BY <2>1, RowSets
<1>2. Grouping(groups, T, at, P)
  BY DEF Grouping
<1>4. \A p \in P : c[p] = Cardinality(groups[p])
  <2> SUFFICES ASSUME NEW p \in P PROVE c[p] = Cardinality(groups[p])
    OBVIOUS
  <2>1. groups[p] = {i \in rows[p] : facts[i].kind = k}
    BY DEF Grouping
  <2> QED
    BY <2>1 DEF CountOf
<1>5. Answered(P, k) = SumFunctionOnSet(c, P)
  BY DEF Answered, SumFunction
<1> HIDE DEF c, groups, T
<1>6. SumFunctionOnSet(c, P) = Cardinality(T)
  BY <1>1, <1>2, <1>4, CountByBucket
<1> QED
  BY <1>5, <1>6 DEF CountOf, T

\* A part of a table counts the facts that it stands for in its buckets.
LEMMA TableCounts ==
    ASSUME facts \in FactLists, NEW g \in Grains, NEW L \in SUBSET DOMAIN facts,
           StandsFor(facts, g, kpi[g], L), NEW D \in SUBSET DOMAIN kpi[g], NEW k \in Kinds
    PROVE  LET P == {Point(b, kpi[g][b]) : b \in D}
           IN  /\ IsFiniteSet(P) /\ Cardinality(P) <= Len(facts)
               /\ Answered(P, k) = CountOf(facts, k, {i \in L : Bucket(g, facts[i]) \in D})
<1> DEFINE P == {Point(b, kpi[g][b]) : b \in D}
           S == {i \in L : Bucket(g, facts[i]) \in D}
           at == [i \in DOMAIN facts |-> Bucket(g, facts[i])]
           pt == [b \in D |-> Point(b, kpi[g][b])]
<1>1. S \in SUBSET DOMAIN facts /\ IsFiniteSet(S) /\ Cardinality(S) <= Len(facts) /\ Cardinality(S) \in Nat
  <2>1. S \in SUBSET DOMAIN facts
    OBVIOUS
  <2> HIDE DEF S
  <2> QED
    BY <2>1, RowSets
<1>2. D = {at[i] : i \in S}
  BY DEF StandsFor
<1>3. P = {pt[b] : b \in D}
  OBVIOUS
<1>4. IsFiniteSet(P) /\ Cardinality(P) <= Len(facts)
  <2> HIDE DEF P, S, at, pt
  <2>1. IsFiniteSet(D) /\ Cardinality(D) <= Cardinality(S)
    BY <1>1, <1>2, FiniteImage
  <2>2. IsFiniteSet(P) /\ Cardinality(P) <= Cardinality(D)
    BY <1>3, <2>1, FiniteImage
  <2>3. Cardinality(D) \in Nat /\ Cardinality(P) \in Nat /\ Len(facts) \in Nat
    BY <2>1, <2>2, FS_CardinalityType DEF FactLists
  <2> QED
    BY <1>1, <2>1, <2>2, <2>3
<1>5. \A b \in D : pt[b].bucket = b /\ pt[b].counts[k] = CountOf(facts, k, In(facts, g, L, b))
  BY DEF Point, StandsFor, Tells
<1>6. \A b \in D : In(facts, g, L, b) = {i \in S : at[i] = b}
  BY DEF In
<1>7. Distinct(P)
  <2> HIDE DEF P, pt
  <2> QED
    BY <1>3, <1>5 DEF Distinct
<1>8. \A i \in S : \E p \in P : p.bucket = at[i]
  <2> HIDE DEF P, pt, at, S
  <2> QED
    BY <1>2, <1>3, <1>5
<1> DEFINE rows == [p \in P |-> In(facts, g, L, p.bucket)]
<1>9. \A p \in P : p.bucket \in D /\ p.counts[k] = CountOf(facts, k, In(facts, g, L, p.bucket))
  <2> HIDE DEF P, pt, at, S
  <2> QED
    BY <1>3, <1>5
<1>10. Grouping(rows, S, at, P) /\ \A p \in P : p.counts[k] = CountOf(facts, k, rows[p])
  <2> HIDE DEF P, pt, at, S
  <2> QED
    BY <1>6, <1>8, <1>9 DEF Grouping
<1> HIDE DEF P, S, at, pt, rows
<1>11. Answered(P, k) = CountOf(facts, k, S)
  BY <1>1, <1>4, <1>7, <1>10, PointsCount
<1> QED
  BY <1>4, <1>11 DEF P, S

\* The limit of a series leaves nothing out: there are no more buckets than facts.
LEMMA LimitIsWide ==
    ASSUME BucketInv, LandedInv, NEW g \in Grains, NEW from, NEW to
    PROVE  RangeRows(g, from, to, MaxFacts, AnyChannel)
              = {Point(b, kpi[g][b]) : b \in {c \in DOMAIN kpi[g] : from <= c /\ c <= to}}
<1> DEFINE D == {c \in DOMAIN kpi[g] : from <= c /\ c <= to}
           P == {Point(b, kpi[g][b]) : b \in D}
<1>1. PICK L \in SUBSET Rows : StandsFor(facts, g, kpi[g], L)
  BY DEF LandedInv
<1>2. IsFiniteSet(P) /\ Cardinality(P) <= MaxFacts /\ Cardinality(P) \in Nat
  <2>1. D \in SUBSET DOMAIN kpi[g] /\ facts \in FactLists /\ L \in SUBSET DOMAIN facts /\ "order" \in Kinds
    BY <1>1 DEF Rows, LandedInv, Kinds
  <2> HIDE DEF D
  <2>2. IsFiniteSet(P) /\ Cardinality(P) <= Len(facts)
    BY <1>1, <2>1, TableCounts
  <2>3. Len(facts) <= MaxFacts /\ Len(facts) \in Nat /\ MaxFacts \in Nat
    BY BoundsAssumption DEF LandedInv, FactLists
  <2> HIDE DEF P
  <2> QED
    BY <2>2, <2>3, FS_CardinalityType
<1>3. P = {p \in View(g) : from <= p.bucket /\ p.bucket <= to}
  <2>1. \A b : Point(b, kpi[g][b]).bucket = b
    BY DEF Point
  <2> QED
    BY <2>1 DEF View
<1>4. \A p \in P : p.bucket \in Int
  <2>1. \A b \in DOMAIN kpi[g] : b \in Int
    <3> SUFFICES ASSUME NEW b \in DOMAIN kpi[g] PROVE b \in Int
      OBVIOUS
    <3>1. PICK i \in Rows : b = Bucket(g, facts[i])
      BY DEF BucketInv, BucketsAreOfFacts
    <3> QED
      BY <3>1, RowTimes, BucketHolds
  <2> QED
    BY <2>1 DEF Point
<1> HIDE DEF P
<1>5. FirstOf(P, MaxFacts) = P
  <2> SUFFICES ASSUME NEW p \in P PROVE Cardinality({q \in P : q.bucket < p.bucket}) < MaxFacts
    BY DEF FirstOf
  <2> DEFINE earlier == {q \in P : q.bucket < p.bucket}
  <2>1. earlier \in SUBSET (P \ {p})
    BY <1>4
  <2> HIDE DEF earlier
  <2>2. Cardinality(P \ {p}) = Cardinality(P) - 1 /\ IsFiniteSet(P \ {p})
    BY <1>2, FS_RemoveElement
  <2>3. Cardinality(earlier) <= Cardinality(P \ {p}) /\ Cardinality(earlier) \in Nat
    BY <2>1, <2>2, FS_Subset, FS_CardinalityType
  <2>4. MaxFacts \in Nat
    BY BoundsAssumption
  <2> QED
    BY <1>2, <2>2, <2>3, <2>4 DEF earlier
<1> QED
  BY <1>3, <1>5 DEF RangeRows, P

\* No grain is longer than an hour.
LEMMA LengthsInHour == \A g \in Grains : Length(g) \in Nat \ {0} /\ Length(g) <= HourLength /\ HourLength \in Nat
  BY LengthAssumption DEF Grains, Length

\* A bucket lies within the times of the model, less the hour it may reach back.
LEMMA BucketsInTime ==
    ASSUME BucketInv, NEW g \in Grains, NEW i \in Rows
    PROVE  /\ Bucket(g, facts[i]) \in Int /\ facts[i].time \in Int
           /\ Bucket(g, facts[i]) <= facts[i].time /\ facts[i].time < Bucket(g, facts[i]) + Length(g)
           /\ Bucket(g, facts[i]) \in (facts[i].time - HourLength + 1)..facts[i].time
           /\ Start - Late - HourLength <= Bucket(g, facts[i]) /\ Bucket(g, facts[i]) <= End + Ahead
           /\ facts[i].time \in Times
<1> DEFINE b == Bucket(g, facts[i])
           t == facts[i].time
<1>1. b \in Int /\ t \in Int /\ b <= t /\ t < b + Length(g) /\ t \in Times
  BY RowTimes, BucketHolds, FactTimes
<1>2. Start - Late <= t /\ t <= End + Ahead /\ Start - Late \in Int /\ End + Ahead \in Int
  BY <1>1, BoundsAssumption DEF Times
<1>3. Length(g) \in Nat /\ Length(g) <= HourLength /\ HourLength \in Nat
  BY LengthsInHour
<1> HIDE DEF b, t
<1>4. b \in (t - HourLength + 1)..t /\ Start - Late - HourLength <= b /\ b <= End + Ahead
  BY <1>1, <1>2, <1>3
<1> QED
  BY <1>1, <1>4 DEF b, t

\* Every variable keeps to the values the code can give it.
THEOREM TypeCorrect == Spec => []TypeOK
<1>1. ASSUME BucketInv, LandedInv PROVE TypeOK
  <2>1. \A i \in Rows : /\ facts[i].kind \in Kinds
                        /\ facts[i].time \in Times /\ facts[i].processed \in Nat
    BY <1>1, RowTimes DEF Facts
  <2>2. ASSUME NEW g \in Grains, NEW b \in DOMAIN kpi[g]
        PROVE  /\ \E t \in Times : b \in (t - HourLength + 1)..t
               /\ kpi[g][b].revenue \in Nat /\ kpi[g][b].counts \in [Kinds -> Nat]
    <3>1. PICK i \in Rows : b = Bucket(g, facts[i])
      BY <1>1, <2>2 DEF BucketInv, BucketsAreOfFacts
    <3>2. \E t \in Times : b \in (t - HourLength + 1)..t
      BY <1>1, <3>1, BucketsInTime
    <3>3. PICK L \in SUBSET Rows : StandsFor(facts, g, kpi[g], L)
      BY <1>1 DEF LandedInv
    <3>4. Tells(facts, kpi[g][b], In(facts, g, L, b)) /\ In(facts, g, L, b) \in SUBSET DOMAIN facts
      BY <2>2, <3>3 DEF StandsFor, In, Rows
    <3>5. \A k \in Kinds : CountOf(facts, k, In(facts, g, L, b)) \in Nat
      BY <1>1, <3>4, CountsAdd DEF LandedInv
    <3> QED
      BY <3>2, <3>4, <3>5 DEF Tells
  <2> QED
    BY <1>1, <2>1, <2>2 DEF TypeOK, BucketInv
<1>2. BucketInv /\ LandedInv => TypeOK
  BY <1>1
<1> QED
  BY <1>2, LandedInvariance, PTL

\* A whole series shows the facts that its table stands for.
LEMMA EverythingShows ==
    ASSUME BucketInv, LandedInv, NEW g \in Grains, NEW L \in SUBSET Rows,
           StandsFor(facts, g, kpi[g], L), NEW k \in Kinds
    PROVE  Answered(Everything(g, AnyChannel), k) = HowMany(k, L)
<1> DEFINE D == {c \in DOMAIN kpi[g] : Start - Late - HourLength <= c /\ c <= End + Ahead}
<1>1. Everything(g, AnyChannel) = {Point(b, kpi[g][b]) : b \in D}
  BY LimitIsWide DEF Everything
<1>2. \A i \in L : Bucket(g, facts[i]) \in D
  BY BucketsInTime DEF StandsFor
<1>3. D \in SUBSET DOMAIN kpi[g] /\ facts \in FactLists /\ L \in SUBSET DOMAIN facts
  BY DEF LandedInv, Rows
<1>4. {i \in L : Bucket(g, facts[i]) \in D} = L
  BY <1>2
<1> HIDE DEF D
<1>5. Answered({Point(b, kpi[g][b]) : b \in D}, k) = CountOf(facts, k, {i \in L : Bucket(g, facts[i]) \in D})
  BY <1>3, TableCounts
<1> QED
  BY <1>1, <1>4, <1>5 DEF CountOf, HowMany

\* Whatever was flushed, is on its way or was lost: both series show every fact once.
THEOREM EachFactShownOnceHolds == Spec => []EachFactShownOnce
<1>1. ASSUME BucketInv, LandedInv, NEW g \in Grains, NEW k \in Kinds
      PROVE  LET shown == Answered(Everything(g, AnyChannel), k) + HowMany(k, Pending(g))
             IN  shown <= HowMany(k, Rows) /\ (losses = 0 => shown = HowMany(k, Rows))
  <2>1. PICK L \in SUBSET Rows : /\ L \intersect Pending(g) = {}
                                 /\ losses = 0 => L \union Pending(g) = Rows
                                 /\ StandsFor(facts, g, kpi[g], L)
    BY <1>1 DEF LandedInv
  <2>2. Answered(Everything(g, AnyChannel), k) = HowMany(k, L)
    BY <1>1, <2>1, EverythingShows
  <2>3. Pending(g) \in SUBSET Rows /\ L \union Pending(g) \in SUBSET Rows
    BY <1>1, <2>1 DEF BucketInv, Pending, Unwritten
  <2>4. \A S : HowMany(k, S) = CountOf(facts, k, S)
    BY DEF HowMany, CountOf
  <2>5. /\ CountOf(facts, k, L \union Pending(g)) = CountOf(facts, k, L) + CountOf(facts, k, Pending(g))
        /\ CountOf(facts, k, L \union Pending(g)) <= CountOf(facts, k, Rows)
    <3>1. facts \in FactLists /\ Rows = DOMAIN facts
      BY <1>1 DEF LandedInv, Rows
    <3>2. L \in SUBSET DOMAIN facts /\ Pending(g) \in SUBSET DOMAIN facts
      BY <2>3, <3>1
    <3>3. CountOf(facts, k, L \union Pending(g)) = CountOf(facts, k, L) + CountOf(facts, k, Pending(g))
      BY <2>1, <3>1, <3>2, CountsAdd
    <3>4. L \union Pending(g) \in SUBSET DOMAIN facts /\ Rows \in SUBSET DOMAIN facts
      BY <2>3, <3>1
    <3>5. CountOf(facts, k, L \union Pending(g)) <= CountOf(facts, k, Rows)
      BY <2>3, <3>1, <3>4, CountsAdd
    <3> QED
      BY <3>3, <3>5
  <2> QED
    BY <2>1, <2>2, <2>4, <2>5
<1>2. BucketInv /\ LandedInv => EachFactShownOnce
  BY <1>1 DEF EachFactShownOnce
<1> QED
  BY <1>2, LandedInvariance, PTL

\* When nothing is on its way and nothing was lost, the tables stand for all the facts.
LEMMA SettledStands == ASSUME BucketInv, LandedInv, Settled, NEW g \in Grains
                       PROVE  /\ StandsFor(facts, g, kpi[g], Rows)
                              /\ facts \in FactLists /\ Rows = DOMAIN facts
<1>1. PICK L \in SUBSET Rows : /\ losses = 0 => L \union Pending(g) = Rows
                               /\ StandsFor(facts, g, kpi[g], L)
  BY DEF LandedInv
<1>2. L = Rows
  BY <1>1 DEF Settled, Pending, Unwritten
<1> QED
  BY <1>1, <1>2 DEF LandedInv, Rows

\* A series consists of the whole buckets of its window, which no limit cuts off.
THEOREM SeriesFitsWindowHolds == Spec => []SeriesFitsWindow
<1>1. ASSUME BucketInv, LandedInv, Settled, NEW g \in Grains, NEW from \in Int, NEW to \in Int,
             NEW k \in Kinds
      PROVE  LET shown == RangeRows(g, from, to, MaxFacts, AnyChannel)
             IN  /\ Answered(shown, k) >= HowMany(k, Between(Rows, from + Length(g) - 1, to))
                 /\ Answered(shown, k) <= HowMany(k, Between(Rows, from, to + Length(g) - 1))
  <2> DEFINE D == {c \in DOMAIN kpi[g] : from <= c /\ c <= to}
             S == {i \in Rows : Bucket(g, facts[i]) \in D}
             inner == Between(Rows, from + Length(g) - 1, to)
             outer == Between(Rows, from, to + Length(g) - 1)
  <2>1. StandsFor(facts, g, kpi[g], Rows) /\ facts \in FactLists /\ Rows = DOMAIN facts
    BY <1>1, SettledStands
  <2>2. RangeRows(g, from, to, MaxFacts, AnyChannel) = {Point(b, kpi[g][b]) : b \in D}
    BY <1>1, LimitIsWide
  <2>3. Answered({Point(b, kpi[g][b]) : b \in D}, k) = CountOf(facts, k, S)
    <3>1. D \in SUBSET DOMAIN kpi[g] /\ Rows \in SUBSET DOMAIN facts
      BY <2>1
    <3> HIDE DEF D
    <3> QED
      BY <2>1, <3>1, TableCounts
  <2>4. \A i \in Rows : /\ Bucket(g, facts[i]) \in Int /\ facts[i].time \in Int
                        /\ Bucket(g, facts[i]) <= facts[i].time
                        /\ facts[i].time < Bucket(g, facts[i]) + Length(g)
                        /\ Bucket(g, facts[i]) \in DOMAIN kpi[g]
    BY <1>1, <2>1, BucketsInTime DEF StandsFor
  <2>5. Length(g) \in Int
    BY Lengths
  <2>6. inner \subseteq S /\ S \subseteq outer
    BY <2>4, <2>5 DEF Between
  <2>7. inner \in SUBSET Rows /\ S \in SUBSET Rows /\ outer \in SUBSET Rows
    BY DEF Between
  <2> HIDE DEF inner, outer, S, D
  <2>8. /\ CountOf(facts, k, inner) <= CountOf(facts, k, S)
        /\ CountOf(facts, k, S) <= CountOf(facts, k, outer)
        /\ CountOf(facts, k, inner) \in Nat /\ CountOf(facts, k, S) \in Nat
    BY <2>1, <2>6, <2>7, CountsAdd
  <2>9. \A T : HowMany(k, T) = CountOf(facts, k, T)
    BY DEF HowMany, CountOf
  <2> QED
    BY <2>2, <2>3, <2>8, <2>9 DEF inner, outer
<1>2. ASSUME BucketInv, LandedInv, Settled, NEW g \in Grains,
             NEW from \in Times \union {NotGiven}, NEW to \in Times \union {NotGiven}
      PROVE  Window(g, from, to).from \in Int /\ Window(g, from, to).to \in Int
  <2>1. now \in Int /\ MinuteSpan \in Int /\ HourSpan \in Int /\ NotGiven \notin Int /\ Times \subseteq Int
    BY <1>2, SpanAssumption, TimesFacts DEF BucketInv
  <2> QED
    BY <2>1 DEF Window
<1>3. BucketInv /\ LandedInv => SeriesFitsWindow
  BY <1>1, <1>2 DEF SeriesFitsWindow
<1> QED
  BY <1>3, LandedInvariance, PTL

-----------------------------------------------------------------------------
(* The two ways to answer.                                                 *)

\* Where no offset is out of step, Python's buckets are the database's.
LEMMA BucketIsTrunc == ASSUME BucketInv, NEW g \in Grains, Aligned(g), NEW i \in Rows
                       PROVE  Bucket(g, facts[i]) = Trunc(facts[i].time, Length(g))
<1>1. /\ facts[i].time \in Int /\ facts[i].offset \in Int /\ Length(g) \in Nat \ {0}
      /\ facts[i].offset % Length(g) = 0
  BY RowTimes, FactTimes, Lengths DEF Aligned
<1> QED
  BY <1>1, TruncShift DEF Bucket

\* A time that is truncated to b is one of the unit that begins with b.
LEMMA UnitOf == ASSUME NEW n \in Nat \ {0}, NEW s \in Int, NEW t \in Int
                PROVE  /\ Trunc(s, n) \in Int
                       /\ Trunc(s, n) <= t /\ t <= Trunc(s, n) + n - 1 <=> Trunc(t, n) = Trunc(s, n)
<1> DEFINE b == Trunc(s, n)
           c == Trunc(t, n)
<1>1. b \in Int /\ c \in Int /\ c <= t /\ t < c + n
  BY Truncated
<1>2. b <= t /\ t < b + n => c = b
  BY TruncUnique
<1> HIDE DEF b, c
<1>3. b <= t /\ t <= b + n - 1 <=> c = b
  BY <1>1, <1>2
<1> QED
  BY <1>1, <1>3 DEF b, c

\* Two truncated times that share a unit are the same.
LEMMA UnitsApart == ASSUME NEW n \in Nat \ {0}, NEW s \in Int, NEW t \in Int,
                           Trunc(s, n) <= Trunc(t, n), Trunc(t, n) <= Trunc(s, n) + n - 1
                    PROVE  Trunc(t, n) = Trunc(s, n)
<1> DEFINE c == Trunc(t, n)
<1>1. c \in Int /\ Trunc(t, n) <= c /\ c <= Trunc(t, n) + n - 1
  <2>1. c \in Int
    BY Truncated
  <2> QED
    BY <2>1
<1>2. Trunc(c, n) = Trunc(s, n)
  BY <1>1, UnitOf
<1>3. Trunc(c, n) = Trunc(t, n)
  <2> HIDE DEF c
  <2> QED
    BY <1>1, UnitOf
<1> QED
  BY <1>2, <1>3

\* A settled table has a row for the bucket of every fact, and the row counts it.
LEMMA SettledCounts ==
    ASSUME BucketInv, LandedInv, Settled, NEW g \in Grains, NEW i \in Rows
    PROVE  /\ Bucket(g, facts[i]) \in DOMAIN kpi[g]
           /\ kpi[g][Bucket(g, facts[i])].counts[facts[i].kind] > 0
<1> DEFINE b == Bucket(g, facts[i])
           k == facts[i].kind
           same == {j \in In(facts, g, Rows, b) : facts[j].kind = k}
<1>1. StandsFor(facts, g, kpi[g], Rows) /\ facts \in FactLists /\ Rows = DOMAIN facts
  BY SettledStands
<1>2. b \in DOMAIN kpi[g]
  BY <1>1 DEF StandsFor
<1>3. k \in Kinds
  BY RowTimes DEF Facts
<1>4. i \in same /\ same \in SUBSET DOMAIN facts
  BY <1>1 DEF In
<1>5. Cardinality(same) \in Nat /\ Cardinality(same) # 0
  <2>1. IsFiniteSet(same) /\ Cardinality(same) \in Nat
    BY <1>1, <1>4, RowSets
  <2> QED
    BY <1>4, <2>1, FS_EmptySet
<1>6. kpi[g][b].counts[k] = Cardinality(same)
  BY <1>1, <1>2, <1>3 DEF StandsFor, Tells, CountOf
<1> QED
  BY <1>2, <1>5, <1>6

\* The latest point is never younger than the freshest event; when nothing is on its way
\* or lost it began less than a bucket before that event, and where no offset is out of
\* step with the grain it is that event's bucket and counts it.
THEOREM LatestIsFreshHolds == Spec => []LatestIsFresh
<1>1. ASSUME BucketInv, LandedInv, NEW g \in Grains, NEW p \in LatestRow(g, AnyChannel)
      PROVE  LET freshest == Min({Freshness(T) : T \in Tables \ {{}}})
             IN  /\ now - p.bucket >= freshest
                 /\ Settled => now - p.bucket < freshest + Length(g)
                 /\ Settled /\ Aligned(g) =>
                      \A i \in Rows : now - facts[i].time = freshest =>
                         p.bucket = Bucket(g, facts[i]) /\ p.counts[facts[i].kind] > 0
  <2> DEFINE freshest == Min({Freshness(T) : T \in Tables \ {{}}})
  <2>1. /\ p.bucket \in DOMAIN kpi[g] /\ \A b \in DOMAIN kpi[g] : b <= p.bucket
        /\ p.counts = kpi[g][p.bucket].counts
    BY LatestPoint
  <2>2. PICK i \in Rows : p.bucket = Bucket(g, facts[i])
    BY <1>1, <2>1 DEF BucketInv, BucketsAreOfFacts
  <2>3. /\ freshest \in Int
        /\ \A j \in Rows : freshest <= now - facts[j].time
        /\ \E j \in Rows : freshest = now - facts[j].time
    BY <1>1, <2>2, FreshestHolds
  <2> HIDE DEF freshest
  <2>4. \A j \in Rows : /\ Bucket(g, facts[j]) \in Int /\ facts[j].time \in Int
                        /\ Bucket(g, facts[j]) <= facts[j].time
                        /\ facts[j].time < Bucket(g, facts[j]) + Length(g)
    BY <1>1, BucketHolds, RowTimes
  <2>5. now \in Int /\ Length(g) \in Nat \ {0}
    BY <1>1, Lengths DEF BucketInv
  <2>6. now - p.bucket >= freshest
    BY <2>2, <2>3, <2>4, <2>5
  <2>7. ASSUME Settled PROVE now - p.bucket < freshest + Length(g)
    <3>1. PICK j \in Rows : freshest = now - facts[j].time
      BY <2>3
    <3>2. Bucket(g, facts[j]) \in DOMAIN kpi[g]
      BY <1>1, <2>7, SettledCounts
    <3>3. Bucket(g, facts[j]) <= p.bucket /\ p.bucket \in Int
      BY <2>1, <2>2, <2>4, <3>2
    <3> QED
      BY <2>4, <2>5, <3>1, <3>3
  <2>8. ASSUME Settled, Aligned(g), NEW j \in Rows, now - facts[j].time = freshest
        PROVE  p.bucket = Bucket(g, facts[j]) /\ p.counts[facts[j].kind] > 0
    <3> DEFINE s == facts[j].time
               t == facts[i].time
               n == Length(g)
    <3>1. /\ Bucket(g, facts[j]) \in DOMAIN kpi[g]
          /\ kpi[g][Bucket(g, facts[j])].counts[facts[j].kind] > 0
      BY <1>1, <2>8, SettledCounts
    <3>2. Bucket(g, facts[j]) = Trunc(s, n) /\ Bucket(g, facts[i]) = Trunc(t, n)
      BY <1>1, <2>8, BucketIsTrunc
    <3>3. s \in Int /\ t \in Int /\ t <= s
      BY <2>3, <2>4, <2>5, <2>8
    <3>4. /\ Trunc(s, n) \in Int /\ Trunc(t, n) \in Int
          /\ Trunc(t, n) <= t /\ s < Trunc(s, n) + n
      BY <2>5, <3>3, Truncated
    <3>5. Trunc(s, n) <= Trunc(t, n)
      BY <2>1, <2>2, <3>1, <3>2
    <3> HIDE DEF s, t, n
    <3>6. n \in Nat \ {0}
      BY <2>5 DEF n
    <3>7. Trunc(t, n) <= Trunc(s, n) + n - 1
      BY <3>3, <3>4, <3>6
    <3>8. Trunc(t, n) = Trunc(s, n)
      BY <3>3, <3>5, <3>6, <3>7, UnitsApart
    <3> QED
      BY <2>1, <2>2, <3>1, <3>2, <3>8
  <2> QED
    BY <2>6, <2>7, <2>8 DEF freshest
<1>2. BucketInv /\ LandedInv => LatestIsFresh
  BY <1>1 DEF LatestIsFresh
<1> QED
  BY <1>2, LandedInvariance, PTL

\* The facts' points count the facts.
LEMMA GroupedCounts == ASSUME facts \in FactLists, NEW g, NEW S \in SUBSET DOMAIN facts, NEW k \in Kinds
                       PROVE  Answered(Grouped(g, S), k) = CountOf(facts, k, S)
<1> DEFINE P == Grouped(g, S)
           at == [i \in DOMAIN facts |-> Trunc(facts[i].time, Length(g))]
           row(b) == [revenue |-> SumFunction([i \in Group(g, S, b) |-> Stored(i)]),
                      counts  |-> Counts(Group(g, S, b))]
           pt == [b \in Groups(g, S) |-> Point(b, row(b))]
           rows == [p \in P |-> Group(g, S, p.bucket)]
<1>1. Groups(g, S) = {at[i] : i \in S} /\ P = {pt[b] : b \in Groups(g, S)}
  BY DEF Groups, Grouped
<1>2. \A b \in Groups(g, S) : pt[b].bucket = b /\ pt[b].counts[k] = CountOf(facts, k, Group(g, S, b))
  BY DEF Point, Counts, HowMany, CountOf
<1>3. \A b : \A i : i \in Group(g, S, b) <=> i \in S /\ at[i] = b
  BY DEF Group
<1>4. IsFiniteSet(S)
  BY RowSets
<1> HIDE DEF P, at, pt
<1>5. IsFiniteSet(P)
  <2>1. IsFiniteSet(Groups(g, S))
    BY <1>1, <1>4, FiniteImage
  <2> QED
    BY <1>1, <2>1, FiniteImage
<1>6. Distinct(P)
  BY <1>1, <1>2 DEF Distinct
<1>7. Grouping(rows, S, at, P)
  BY <1>1, <1>2, <1>3 DEF Grouping
<1>8. \A p \in P : p.counts[k] = CountOf(facts, k, rows[p])
  BY <1>1, <1>2
<1> HIDE DEF rows
<1>9. Answered(P, k) = CountOf(facts, k, S)
  BY <1>5, <1>6, <1>7, <1>8, PointsCount
<1> QED
  BY <1>9 DEF P

\* The facts of the channels and those without one are all the facts.
LEMMA ChannelsCount ==
    ASSUME facts \in FactLists, NEW S \in SUBSET DOMAIN facts, NEW k, NEW c,
           \A ch \in Channels : c[ch] = CountOf(facts, k, {i \in S : facts[i].channel = ch})
    PROVE  CountOf(facts, k, S)
              = SumFunctionOnSet(c, Channels) + CountOf(facts, k, {i \in S : facts[i].channel = NoChannel})
<1> DEFINE T == {i \in S : facts[i].channel \in Channels}
           U == {i \in S : facts[i].channel = NoChannel}
           K == {i \in T : facts[i].kind = k}
           channel == [i \in DOMAIN facts |-> facts[i].channel]
           groups == [ch \in Channels |-> {i \in K : facts[i].channel = ch}]
<1>1. IsFiniteSet(K)
  <2>1. K \in SUBSET DOMAIN facts
    OBVIOUS
  <2> QED
    BY <2>1, RowSets
<1>2. \A i \in K : channel[i] \in Channels
  OBVIOUS
<1>3. \A ch \in Channels : \A i : i \in groups[ch] <=> i \in K /\ channel[i] = ch
  OBVIOUS
<1>4. \A ch \in Channels : c[ch] = Cardinality(groups[ch])
  <2> SUFFICES ASSUME NEW ch \in Channels PROVE c[ch] = Cardinality(groups[ch])
    OBVIOUS
  <2>1. groups[ch] = {i \in {j \in S : facts[j].channel = ch} : facts[i].kind = k}
    OBVIOUS
  <2> QED
    BY <2>1 DEF CountOf
<1>5. T \union U = S /\ T \intersect U = {} /\ T \in SUBSET DOMAIN facts /\ U \in SUBSET DOMAIN facts
  BY RowSets, ChannelAssumption DEF Facts
<1>6. CountOf(facts, k, T) = Cardinality(K)
  BY DEF CountOf
<1>7. IsFiniteSet(Channels)
  BY ChannelAssumption
<1> HIDE DEF T, U, K, channel, groups
<1>8. SumFunctionOnSet(c, Channels) = Cardinality(K)
  BY <1>1, <1>2, <1>3, <1>4, <1>7, CountGroups
<1>9. CountOf(facts, k, T \union U) = CountOf(facts, k, T) + CountOf(facts, k, U)
  BY <1>5, CountsAdd
<1> QED
  BY <1>5, <1>6, <1>8, <1>9 DEF U

\* The limit of one point leaves out nothing of one bucket.
LEMMA OneBucket == ASSUME NEW P, NEW b \in Int, \A p \in P : p.bucket = b PROVE FirstOf(P, 1) = P
<1> SUFFICES ASSUME NEW p \in P PROVE Cardinality({q \in P : q.bucket < p.bucket}) < 1
  BY DEF FirstOf
<1>1. {q \in P : q.bucket < p.bucket} = {}
  OBVIOUS
<1> QED
  BY <1>1, FS_EmptySet

\* One bucket, asked for without a segment and for a channel.
LEMMA BucketAnswers ==
    ASSUME BucketInv, LandedInv, Settled, NEW g \in Grains, Aligned(g),
           NEW b \in Groups(g, Rows), NEW k \in Kinds
    PROVE  /\ Answered(RangeRows(g, b, b + Length(g) - 1, 1, AnyChannel), k)
                 = CountOf(facts, k, Group(g, Rows, b))
           /\ \A ch \in Channels : Answered(RangeRows(g, b, b + Length(g) - 1, 1, ch), k)
                 = CountOf(facts, k, {i \in Group(g, Rows, b) : facts[i].channel = ch})
<1> DEFINE n == Length(g)
<1>1. /\ StandsFor(facts, g, kpi[g], Rows) /\ facts \in FactLists /\ Rows = DOMAIN facts
      /\ n \in Nat \ {0}
  BY SettledStands, Lengths
<1>2. PICK j \in Rows : b = Trunc(facts[j].time, n)
  BY DEF Groups
<1>3. \A i \in Rows : facts[i].time \in Int /\ Bucket(g, facts[i]) = Trunc(facts[i].time, n)
  BY RowTimes, BucketIsTrunc
<1>4. b \in Int
  BY <1>1, <1>2, <1>3, UnitOf
<1>5. Answered(RangeRows(g, b, b + n - 1, 1, AnyChannel), k) = CountOf(facts, k, Group(g, Rows, b))
  <2> DEFINE P == {p \in View(g) : b <= p.bucket /\ p.bucket <= b + n - 1}
             D == {b}
  <2>1. b \in DOMAIN kpi[g]
    BY <1>1, <1>2, <1>3 DEF StandsFor
  <2>2. \A c \in DOMAIN kpi[g] : b <= c /\ c <= b + n - 1 <=> c = b
    <3> SUFFICES ASSUME NEW c \in DOMAIN kpi[g] PROVE b <= c /\ c <= b + n - 1 <=> c = b
      OBVIOUS
    <3>1. PICK i \in Rows : c = Trunc(facts[i].time, n)
      BY <1>1, <1>3 DEF StandsFor
    <3>2. facts[i].time \in Int /\ facts[j].time \in Int
      BY <1>3
    <3>3. b <= c /\ c <= b + n - 1 => c = b
      BY <1>1, <1>2, <3>1, <3>2, UnitsApart
    <3>4. b <= b /\ b <= b + n - 1
      BY <1>1, <1>4
    <3> QED
      BY <3>3, <3>4
  <2>3. P = {Point(c, kpi[g][c]) : c \in D}
    <3>1. \A c : Point(c, kpi[g][c]).bucket = c
      BY DEF Point
    <3> QED
      BY <2>1, <2>2, <3>1 DEF View
  <2>4. \A p \in P : p.bucket = b
    BY <2>3 DEF Point
  <2> HIDE DEF P
  <2>5. RangeRows(g, b, b + n - 1, 1, AnyChannel) = P
    BY <1>4, <2>4, OneBucket DEF RangeRows, P
  <2>6. /\ D \in SUBSET DOMAIN kpi[g] /\ Rows \in SUBSET DOMAIN facts /\ facts \in FactLists
        /\ StandsFor(facts, g, kpi[g], Rows)
    BY <1>1, <2>1
  <2>7. {i \in Rows : Bucket(g, facts[i]) \in D} = Group(g, Rows, b)
    BY <1>3 DEF Group
  <2> HIDE DEF D
  <2>8. Answered({Point(c, kpi[g][c]) : c \in D}, k) = CountOf(facts, k, {i \in Rows : Bucket(g, facts[i]) \in D})
    BY <2>6, TableCounts
  <2> QED
    BY <2>3, <2>5, <2>7, <2>8
<1>6. ASSUME NEW ch \in Channels
      PROVE  Answered(RangeRows(g, b, b + n - 1, 1, ch), k)
                = CountOf(facts, k, {i \in Group(g, Rows, b) : facts[i].channel = ch})
  <2> DEFINE S == Between(Segment(ch), b, b + n - 1)
  <2>1. ch # AnyChannel
    BY ChannelAssumption
  <2>2. \A i \in Rows : b <= facts[i].time /\ facts[i].time <= b + n - 1 <=> Trunc(facts[i].time, n) = b
    BY <1>1, <1>2, <1>3, UnitOf
  <2>3. S = {i \in Group(g, Rows, b) : facts[i].channel = ch}
    BY <2>1, <2>2 DEF Between, Segment, Group
  <2>4. \A p \in Grouped(g, S) : p.bucket = b
    <3>1. \A c \in Groups(g, S) : c = b
      BY <2>3 DEF Groups, Group
    <3>2. \A c, m : Point(c, m).bucket = c
      BY DEF Point
    <3> HIDE DEF S
    <3>3. \A p \in Grouped(g, S) : \E c \in Groups(g, S) : \E m : p = Point(c, m)
      BY DEF Grouped
    <3> QED
      BY <3>1, <3>2, <3>3
  <2>5. S \in SUBSET DOMAIN facts
    BY <1>1 DEF Between, Segment
  <2> HIDE DEF S
  <2>6. RangeRows(g, b, b + n - 1, 1, ch) = Grouped(g, S)
    BY <1>4, <2>1, <2>4, OneBucket DEF RangeRows, S
  <2>7. Answered(Grouped(g, S), k) = CountOf(facts, k, S)
    BY <1>1, <2>5, GroupedCounts
  <2> QED
    BY <2>3, <2>6, <2>7
<1> QED
  BY <1>5, <1>6

\* Of one bucket, the answers for the channels and the events without one add up to the
\* answer for all.
THEOREM SegmentsAddUpHolds == Spec => []SegmentsAddUp
<1>1. ASSUME BucketInv, LandedInv, Settled, NEW g \in Grains, Aligned(g),
             NEW b \in Groups(g, Rows), NEW k \in Kinds
      PROVE  LET ask(ch) == Answered(RangeRows(g, b, b + Length(g) - 1, 1, ch), k)
                 none    == {i \in Group(g, Rows, b) : facts[i].channel = NoChannel}
             IN  ask(AnyChannel) = SumFunction([ch \in Channels |-> ask(ch)]) + HowMany(k, none)
  <2> DEFINE ask(ch) == Answered(RangeRows(g, b, b + Length(g) - 1, 1, ch), k)
             S == Group(g, Rows, b)
             c == [ch \in Channels |-> ask(ch)]
  <2>1. ask(AnyChannel) = CountOf(facts, k, S)
    BY <1>1, BucketAnswers
  <2>2. \A ch \in Channels : c[ch] = CountOf(facts, k, {i \in S : facts[i].channel = ch})
    BY <1>1, BucketAnswers
  <2>3. facts \in FactLists /\ S \in SUBSET DOMAIN facts
    BY <1>1 DEF LandedInv, Group, Rows
  <2>4. SumFunction(c) = SumFunctionOnSet(c, Channels)
    BY DEF SumFunction
  <2>5. \A T : HowMany(k, T) = CountOf(facts, k, T)
    BY DEF HowMany, CountOf
  <2> HIDE DEF ask, S, c
  <2>6. CountOf(facts, k, S)
           = SumFunctionOnSet(c, Channels) + CountOf(facts, k, {i \in S : facts[i].channel = NoChannel})
    BY <2>2, <2>3, ChannelsCount
  <2> QED
    BY <2>1, <2>4, <2>5, <2>6 DEF ask, S, c
<1>2. BucketInv /\ LandedInv => SegmentsAddUp
  BY <1>1 DEF SegmentsAddUp
<1> QED
  BY <1>2, LandedInvariance, PTL

\* What the facts add up to tells of them too: each amount was rounded to half a cent.
LEMMA FactsTell ==
    ASSUME facts \in FactLists, NEW S \in SUBSET DOMAIN facts
    PROVE  Tells(facts, [revenue |-> SumFunction([i \in S |-> Stored(i)]), counts |-> Counts(S)], S)
<1> DEFINE stored == [i \in S |-> Stored(i)]
           row(U) == [revenue |-> SumFunctionOnSet(stored, U),
                      counts  |-> [k \in Kinds |-> CountOf(facts, k, U)]]
           Good == {U \in SUBSET S : Tells(facts, row(U), U)}
<1>1. /\ IsFiniteSet(S) /\ Cent \in Nat \ {0}
      /\ \A i \in S : facts[i].amount \in Nat /\ stored[i] = Rounded(facts[i].amount, Cent) /\ stored[i] \in Int
  <2>1. IsFiniteSet(S) /\ Cent \in Nat \ {0} /\ \A i \in S : facts[i].amount \in Nat
    BY RowSets, LengthAssumption
  <2>2. \A n \in Nat : Rounded(n, Cent) \in Int
    BY <2>1, RoundedHolds
  <2> QED
    BY <2>1, <2>2 DEF Stored
<1>2. \A i \in S : stored[i] \in Int
  BY <1>1
<1>3. ASSUME NEW x \in S PROVE Tells(facts, Metrics({x}), {x}) /\ Metrics({x}).revenue = stored[x]
  <2> DEFINE f == [i \in {x} |-> facts[i].amount]
  <2>1. IsFiniteSet({x}) /\ Cardinality({x}) = 1
    BY FS_Singleton
  <2>2. facts[x].amount \in Int /\ \A i \in {x} : f[i] = facts[x].amount
    BY <1>1
  <2>3. SumFunction(f) = SumFunctionOnSet(f, {x})
    BY DEF SumFunction
  <2> HIDE DEF f
  <2>4. SumFunctionOnSet(f, {x}) = facts[x].amount * Cardinality({x})
    BY <2>1, <2>2, SumConstant
  <2>5. SumFunction(f) = facts[x].amount
    BY <2>1, <2>2, <2>3, <2>4
  <2>6. Metrics({x}).revenue = stored[x]
    BY <2>5 DEF Metrics, Stored, f
  <2>7. {x} \in SUBSET DOMAIN facts
    OBVIOUS
  <2> QED
    BY <2>6, <2>7, MetricsTell
<1> HIDE DEF stored
<1>4. {} \in Good
  <2>1. Tells(facts, NoMetrics, {})
    BY NothingTells
  <2>2. SumFunctionOnSet(stored, {}) = 0
    BY SumEmpty
  <2>3. row({}).revenue = NoMetrics.revenue /\ row({}).counts = [k \in Kinds |-> CountOf(facts, k, {})]
    BY <2>2 DEF NoMetrics
  <2> HIDE DEF row
  <2>4. Tells(facts, row({}), {})
    BY <2>1, <2>3 DEF Tells
  <2> QED
    BY <2>4
<1>5. \A U \in SUBSET S : \A x \in S \ U : U \in Good => U \union {x} \in Good
  <2> SUFFICES ASSUME NEW U \in SUBSET S, NEW x \in S \ U, U \in Good PROVE U \union {x} \in Good
    OBVIOUS
  <2> DEFINE old == row(U)
             new == Metrics({x})
             both == [revenue |-> old.revenue + new.revenue,
                      counts  |-> [k \in Kinds |-> old.counts[k] + new.counts[k]]]
  <2>1. Tells(facts, old, U) /\ Tells(facts, new, {x}) /\ new.revenue = stored[x]
    BY <1>3
  <2>2. /\ old.revenue = SumFunctionOnSet(stored, U)
        /\ row(U \union {x}).revenue = SumFunctionOnSet(stored, U \union {x})
        /\ row(U \union {x}).counts = [k \in Kinds |-> CountOf(facts, k, U \union {x})]
    OBVIOUS
  <2>3. /\ SumFunctionOnSet(stored, U) \in Int
        /\ SumFunctionOnSet(stored, U \union {x}) = stored[x] + SumFunctionOnSet(stored, U)
    BY <1>1, <1>2, SumAdds
  <2>4. U \intersect {x} = {} /\ U \in SUBSET DOMAIN facts /\ {x} \in SUBSET DOMAIN facts /\ U \union {x} \in SUBSET S
    OBVIOUS
  <2> HIDE DEF old, new, row
  <2>5. Tells(facts, both, U \union {x})
    BY <2>1, <2>4, TellsAdd
  <2>6. both.revenue = row(U \union {x}).revenue
    BY <1>2, <2>1, <2>2, <2>3
  <2> HIDE DEF both
  <2>7. Tells(facts, row(U \union {x}), U \union {x})
    BY <2>2, <2>5, <2>6 DEF Tells
  <2> QED
    BY <2>4, <2>7
<1>6. S \in Good
  <2> HIDE DEF Good
  <2> QED
    BY <1>1, <1>4, <1>5, SubsetInduction
<1>7. SumFunction(stored) = SumFunctionOnSet(stored, S)
  BY DEF SumFunction, stored
<1>8. Counts(S) = [k \in Kinds |-> CountOf(facts, k, S)]
  BY DEF Counts, HowMany, CountOf
<1>9. Tells(facts, row(S), S)
  BY <1>6
<1> QED
  BY <1>7, <1>8, <1>9 DEF stored

\* A factor can be taken from both sides.
LEMMA FactorOut == ASSUME NEW c \in Nat \ {0}, NEW x \in Int, NEW y \in Int, c * x <= c * y PROVE x <= y
<1> SUFFICES ASSUME x >= y + 1 PROVE FALSE
  OBVIOUS
<1>1. c * x >= c * (y + 1) /\ c * (y + 1) = c * y + c
  OBVIOUS
<1>2. c * x \in Int /\ c * y \in Int
  OBVIOUS
<1> QED
  BY <1>1, <1>2

\* Two sums that tell of the same facts differ by a cent for each order at most.
LEMMA TellingNear ==
    ASSUME NEW fs \in FactLists, NEW S \in SUBSET DOMAIN fs, NEW p, NEW q, Tells(fs, p, S), Tells(fs, q, S)
    PROVE  /\ p.revenue \in Nat /\ q.revenue \in Nat /\ p.counts = q.counts
           /\ p.counts["order"] \in Nat
           /\ p.revenue - q.revenue <= p.counts["order"]
           /\ q.revenue - p.revenue <= p.counts["order"]
<1> DEFINE r == p.revenue
           t == q.revenue
           n == CountOf(fs, "order", S)
           a == AmountOf(fs, S)
<1>1. /\ r \in Nat /\ t \in Nat
      /\ 2 * (Cent * r) - 2 * a <= Cent * n /\ 2 * a - 2 * (Cent * r) <= Cent * n
      /\ 2 * (Cent * t) - 2 * a <= Cent * n /\ 2 * a - 2 * (Cent * t) <= Cent * n
  BY DEF Tells
<1>2. n \in Nat /\ a \in Nat /\ Cent \in Nat \ {0}
  BY CountsAdd, AmountsAdd, LengthAssumption
<1>3. p.counts["order"] = n /\ p.counts = q.counts
  BY DEF Tells, Kinds
<1> HIDE DEF r, t, n, a
<1>4. /\ Cent * r \in Int /\ Cent * t \in Int /\ Cent * n \in Int
      /\ Cent * (r - t) = Cent * r - Cent * t /\ Cent * (t - r) = Cent * t - Cent * r
      /\ r - t \in Int /\ t - r \in Int /\ n \in Int
  <2>1. \A x, y \in Int : Cent * (x - y) = Cent * x - Cent * y /\ Cent * x \in Int
    BY <1>2
  <2> QED
    BY <1>1, <1>2, <2>1
<1>5. Cent * (r - t) <= Cent * n /\ Cent * (t - r) <= Cent * n
  <2> DEFINE cr == Cent * r
             ct == Cent * t
             cn == Cent * n
  <2>1. /\ cr \in Int /\ ct \in Int /\ cn \in Int
        /\ 2 * cr - 2 * a <= cn /\ 2 * a - 2 * cr <= cn
        /\ 2 * ct - 2 * a <= cn /\ 2 * a - 2 * ct <= cn
    BY <1>1, <1>4
  <2> HIDE DEF cr, ct, cn
  <2>2. cr - ct <= cn /\ ct - cr <= cn
    BY <1>2, <2>1
  <2> QED
    BY <1>4, <2>2 DEF cr, ct, cn
<1>6. r - t <= n /\ t - r <= n
  BY <1>2, <1>4, <1>5, FactorOut
<1> QED
  BY <1>1, <1>2, <1>3, <1>6 DEF r, t

\* What rounds to nearly the same is nearly the same per order.
LEMMA RatiosNear == ASSUME NEW x \in Nat, NEW y \in Nat, NEW n \in Nat, x - y <= n, y - x <= n
                    PROVE  Near(Ratio(x, n), Ratio(y, n), 1)
<1>1. CASE n = 0
  BY <1>1 DEF Ratio, Near
<1>2. CASE n # 0
  <2>1. n \in Nat \ {0} /\ x \in Int /\ y \in Int /\ n > 0
    BY <1>2
  <2>2. Rounded(x, n) - Rounded(y, n) <= 1 /\ Rounded(y, n) - Rounded(x, n) <= 1
    BY <2>1, RoundedClose
  <2> QED
    BY <2>1, <2>2 DEF Ratio, Near
<1> QED
  BY <1>1, <1>2

\* However the amounts were rounded on the two ways, the two answers stay together.
THEOREM RoundingStaysSmallHolds == Spec => []RoundingStaysSmall
<1>1. ASSUME BucketInv, LandedInv, Settled, NEW g \in Grains, Aligned(g), NEW p \in View(g)
      PROVE  \E q \in Grouped(g, Rows) :
                /\ p.bucket = q.bucket
                /\ Near(p.revenue, q.revenue, p.counts["order"])
                /\ Near(p.average_order_value, q.average_order_value, 1)
                /\ p.conversion_rate = q.conversion_rate
  <2>1. PICK b \in DOMAIN kpi[g] : p = Point(b, kpi[g][b])
    BY <1>1 DEF View
  <2> DEFINE S == Group(g, Rows, b)
             m == kpi[g][b]
             f == [revenue |-> SumFunction([i \in S |-> Stored(i)]), counts |-> Counts(S)]
             q == Point(b, f)
  <2>2. StandsFor(facts, g, kpi[g], Rows) /\ facts \in FactLists /\ Rows = DOMAIN facts
    BY <1>1, SettledStands
  <2>3. \A i \in Rows : Bucket(g, facts[i]) = Trunc(facts[i].time, Length(g))
    BY <1>1, BucketIsTrunc
  <2>4. In(facts, g, Rows, b) = S /\ S \in SUBSET DOMAIN facts
    BY <2>2, <2>3 DEF In, Group
  <2>5. Tells(facts, m, S)
    BY <2>2, <2>4 DEF StandsFor
  <2>6. Tells(facts, f, S)
    BY <2>2, <2>4, FactsTell
  <2>7. q \in Grouped(g, Rows)
    <3>1. b \in Groups(g, Rows)
      BY <2>2, <2>3 DEF StandsFor, Groups
    <3> QED
      BY <3>1 DEF Grouped
  <2> HIDE DEF f, m
  <2>8. /\ m.revenue \in Nat /\ f.revenue \in Nat /\ m.counts = f.counts
        /\ m.counts["order"] \in Nat
        /\ m.revenue - f.revenue <= m.counts["order"]
        /\ f.revenue - m.revenue <= m.counts["order"]
    BY <2>2, <2>4, <2>5, <2>6, TellingNear
  <2>9. /\ Near(m.revenue, f.revenue, m.counts["order"])
        /\ Near(Ratio(m.revenue, m.counts["order"]), Ratio(f.revenue, f.counts["order"]), 1)
    BY <2>8, RatiosNear DEF Near
  <2>10. /\ p.bucket = q.bucket /\ Near(p.revenue, q.revenue, p.counts["order"])
         /\ Near(p.average_order_value, q.average_order_value, 1)
         /\ p.conversion_rate = q.conversion_rate
    BY <2>1, <2>8, <2>9 DEF Point, m
  <2> QED
    BY <2>7, <2>10
<1>2. BucketInv /\ LandedInv => RoundingStaysSmall
  BY <1>1 DEF RoundingStaysSmall
<1> QED
  BY <1>2, LandedInvariance, PTL

-----------------------------------------------------------------------------
(* Time to signal.                                                         *)

\* The largest of finitely many integers that belong to the rows S.
LEMMA RowMax == ASSUME NEW S, IsFiniteSet(S), S # {}, NEW f, \A i \in S : f[i] \in Int,
                       NEW V, \A v : v \in V <=> \E i \in S : f[i] = v
                PROVE  /\ Max(V) \in Int
                       /\ \A i \in S : f[i] <= Max(V)
                       /\ \E i \in S : f[i] = Max(V)
<1>1. V \subseteq Int /\ V # {} /\ \A i \in S : f[i] \in V
  OBVIOUS
<1>2. IsFiniteSet(V)
  <2>1. V = {f[i] : i \in S}
    OBVIOUS
  <2> QED
    BY <2>1, FiniteImage
<1>3. Max(V) \in V /\ \A v \in V : v <= Max(V)
  BY <1>1, <1>2, FiniteMax
<1> QED
  BY <1>1, <1>3

\* The lag of a group is that of two of its events: no more than the largest delay, and no
\* less than nothing unless an event was dated ahead.
LEMMA LagWithin ==
    ASSUME BucketInv, LandedInv, NEW S \in SUBSET Rows, S # {}, NEW T \in SUBSET S, T # {}
    PROVE  /\ Lag(T) \in Int /\ MaxDelay(S) \in Int
           /\ Lag(T) <= MaxDelay(S)
           /\ (\A i \in S : Delay(i) >= 0) => 0 <= Lag(T)
<1> DEFINE time == [i \in Rows |-> facts[i].time]
           processed == [i \in Rows |-> facts[i].processed]
           delay == [i \in Rows |-> Delay(i)]
           times == {facts[i].time : i \in T}
           ends == {facts[i].processed : i \in T}
           delays == {Delay(i) : i \in S}
<1>1. IsFiniteSet(S) /\ IsFiniteSet(T)
  <2>1. facts \in FactLists /\ S \in SUBSET DOMAIN facts /\ T \in SUBSET DOMAIN facts
    BY DEF LandedInv, Rows
  <2> QED
    BY <2>1, RowSets
<1>2. \A i \in Rows : /\ time[i] \in Int /\ processed[i] \in Int /\ delay[i] \in Int
                      /\ delay[i] = processed[i] - time[i] /\ delay[i] = Delay(i)
  <2> SUFFICES ASSUME NEW i \in Rows
               PROVE  /\ time[i] \in Int /\ processed[i] \in Int /\ delay[i] \in Int
                      /\ delay[i] = processed[i] - time[i] /\ delay[i] = Delay(i)
    OBVIOUS
  <2>1. facts[i] \in Facts /\ facts[i].time \in Int
    BY RowTimes
  <2>2. facts[i].processed \in Nat
    BY <2>1 DEF Facts
  <2> QED
    BY <2>1, <2>2 DEF Delay
<1>3. /\ \A v : v \in times <=> \E i \in T : time[i] = v
      /\ \A v : v \in ends <=> \E i \in T : processed[i] = v
      /\ \A v : v \in delays <=> \E i \in S : delay[i] = v
      /\ LastTime(T) = Max(times) /\ LastProcessed(T) = Max(ends) /\ MaxDelay(S) = Max(delays)
  BY DEF LastTime, LastProcessed, MaxDelay
<1> HIDE DEF time, processed, delay, times, ends, delays
<1>4. /\ \A i \in T : time[i] \in Int /\ processed[i] \in Int
      /\ \A i \in S : delay[i] \in Int
  BY <1>2
<1>5. /\ LastTime(T) \in Int /\ \A i \in T : time[i] <= LastTime(T)
      /\ \E i \in T : time[i] = LastTime(T)
  BY <1>1, <1>3, <1>4, RowMax
<1>6. /\ LastProcessed(T) \in Int /\ \A i \in T : processed[i] <= LastProcessed(T)
      /\ \E i \in T : processed[i] = LastProcessed(T)
  BY <1>1, <1>3, <1>4, RowMax
<1>7. MaxDelay(S) \in Int /\ \A i \in S : delay[i] <= MaxDelay(S)
  BY <1>1, <1>3, <1>4, RowMax
<1>8. Lag(T) = LastProcessed(T) - LastTime(T)
  BY DEF Lag
<1>9. Lag(T) <= MaxDelay(S)
  <2>1. PICK i \in T : processed[i] = LastProcessed(T)
    BY <1>6
  <2>2. time[i] <= LastTime(T) /\ delay[i] <= MaxDelay(S) /\ delay[i] = processed[i] - time[i]
    BY <1>2, <1>5, <1>7
  <2>3. time[i] \in Int /\ processed[i] \in Int
    BY <1>2
  <2> QED
    BY <1>5, <1>6, <1>7, <1>8, <2>1, <2>2, <2>3
<1>10. ASSUME \A i \in S : Delay(i) >= 0 PROVE 0 <= Lag(T)
  <2>1. PICK i \in T : time[i] = LastTime(T)
    BY <1>5
  <2>2. processed[i] <= LastProcessed(T) /\ delay[i] >= 0 /\ delay[i] = processed[i] - time[i]
    BY <1>2, <1>6, <1>10
  <2>3. time[i] \in Int /\ processed[i] \in Int
    BY <1>2
  <2> QED
    BY <1>5, <1>6, <1>8, <2>1, <2>2, <2>3
<1> QED
  BY <1>5, <1>6, <1>7, <1>8, <1>9, <1>10

\* Unless an event is dated ahead, time to signal is not negative, its average is no more
\* than its maximum, and that exceeds no event's delay.
THEOREM SignalWithinDelaysHolds == Spec => []SignalWithinDelays
<1>1. ASSUME BucketInv, LandedInv, NEW g \in Grains, NEW S \in SUBSET Rows, S # {},
             \A i \in S : Delay(i) >= 0
      PROVE  LET signal == TimeToSignal(g, S)
             IN  /\ 0 <= signal.sum /\ signal.sum <= signal.max * signal.count
                 /\ signal.max <= MaxDelay(S)
  <2> DEFINE B == Groups(g, S)
             at == [i \in Rows |-> Trunc(facts[i].time, Length(g))]
             lag == [b \in B |-> Lag(Group(g, S, b))]
             lags == {Lag(Group(g, S, b)) : b \in B}
             most == Max(lags)
             top == [b \in B |-> most]
  <2>1. B = {at[i] : i \in S} /\ \A b \in B : Group(g, S, b) \in SUBSET S /\ Group(g, S, b) # {}
    BY DEF Groups, Group
  <2>2. IsFiniteSet(S)
    <3>1. facts \in FactLists /\ S \in SUBSET DOMAIN facts
      BY <1>1 DEF LandedInv, Rows
    <3> QED
      BY <3>1, RowSets
  <2>3. IsFiniteSet(B) /\ B # {}
    <3>1. B # {}
      BY <1>1, <2>1
    <3> HIDE DEF B, at
    <3> QED
      BY <2>1, <2>2, <3>1, FiniteImage
  <2>4. \A b \in B : lag[b] \in Nat /\ lag[b] <= MaxDelay(S) /\ MaxDelay(S) \in Int
    <3> SUFFICES ASSUME NEW b \in B PROVE lag[b] \in Nat /\ lag[b] <= MaxDelay(S) /\ MaxDelay(S) \in Int
      OBVIOUS
    <3> DEFINE T == Group(g, S, b)
    <3>1. T \in SUBSET S /\ T # {}
      BY <2>1
    <3> HIDE DEF T, B
    <3>2. Lag(T) \in Int /\ MaxDelay(S) \in Int /\ Lag(T) <= MaxDelay(S) /\ 0 <= Lag(T)
      BY <1>1, <3>1, LagWithin
    <3> QED
      BY <3>2 DEF T
  <2>5. \A v : v \in lags <=> \E b \in B : lag[b] = v
    OBVIOUS
  <2>6. TimeToSignal(g, S) = [sum |-> SumFunctionOnSet(lag, B), count |-> Cardinality(B), max |-> most]
    BY DEF TimeToSignal, SumFunction
  <2>7. \A b \in B : top[b] = most
    OBVIOUS
  <2> HIDE DEF lag, B, lags
  <2>8. most \in Int /\ (\A b \in B : lag[b] <= most) /\ \E b \in B : lag[b] = most
    <3>1. \A b \in B : lag[b] \in Int
      BY <2>4
    <3> QED
      BY <2>3, <2>5, <3>1, RowMax
  <2> HIDE DEF most, top
  <2>9. SumFunctionOnSet(lag, B) \in Nat
    BY <2>3, <2>4, SumNat
  <2>10. SumFunctionOnSet(lag, B) <= most * Cardinality(B)
    <3>1. SumFunctionOnSet(top, B) = most * Cardinality(B)
      BY <2>3, <2>7, <2>8, SumConstant
    <3>2. \A b \in B : lag[b] \in Int /\ top[b] \in Int /\ lag[b] <= top[b]
      BY <2>4, <2>7, <2>8
    <3>3. SumFunctionOnSet(lag, B) <= SumFunctionOnSet(top, B)
      BY <2>3, <3>2, SumMonotone
    <3> QED
      BY <3>1, <3>3
  <2>11. most <= MaxDelay(S)
    BY <2>4, <2>8
  <2> QED
    BY <2>6, <2>9, <2>10, <2>11
<1>2. \A S \in Selections : S \in SUBSET Rows /\ S # {}
  BY DEF Selections, Between, Segment
<1>3. BucketInv /\ LandedInv => SignalWithinDelays
  BY <1>1, <1>2 DEF SignalWithinDelays
<1> QED
  BY <1>3, LandedInvariance, PTL

-----------------------------------------------------------------------------
(* The hours.                                                              *)

\* As long as no event's offset is out of step with the hour, the points of /kpi/hour lie
\* an hour apart, as its documentation says.
THEOREM HourGranularityWhenAligned == Spec => [](Aligned("hour") => HourGranularity)
<1>1. ASSUME BucketInv, Aligned("hour") PROVE HourGranularity
  <2> SUFFICES ASSUME NEW p \in Everything("hour", AnyChannel), NEW q \in Everything("hour", AnyChannel),
                      p.bucket < q.bucket
               PROVE  q.bucket - p.bucket >= HourLength
    BY DEF HourGranularity
  <2>1. "hour" \in Grains /\ Length("hour") = HourLength /\ HourLength \in Nat \ {0}
    BY Lengths DEF Grains, Length
  <2>2. \A r \in Everything("hour", AnyChannel) : r.bucket \in DOMAIN kpi["hour"]
    <3>1. \A c, m : Point(c, m).bucket = c
      BY DEF Point
    <3>2. Everything("hour", AnyChannel) \subseteq View("hour")
      BY DEF Everything, RangeRows, FirstOf
    <3> QED
      BY <3>1, <3>2 DEF View
  <2>3. \A b \in DOMAIN kpi["hour"] : \E t \in Int : b = Trunc(t, HourLength) /\ b \in Int
    <3> SUFFICES ASSUME NEW b \in DOMAIN kpi["hour"]
                 PROVE  \E t \in Int : b = Trunc(t, HourLength) /\ b \in Int
      OBVIOUS
    <3>1. PICK i \in Rows : b = Bucket("hour", facts[i])
      BY <1>1, <2>1 DEF BucketInv, BucketsAreOfFacts
    <3>2. b = Trunc(facts[i].time, HourLength) /\ facts[i].time \in Int
      BY <1>1, <2>1, <3>1, BucketIsTrunc, RowTimes
    <3> QED
      BY <2>1, <3>2, Truncated
  <2>4. PICK s \in Int : p.bucket = Trunc(s, HourLength) /\ p.bucket \in Int
    BY <2>2, <2>3
  <2>5. PICK t \in Int : q.bucket = Trunc(t, HourLength) /\ q.bucket \in Int
    BY <2>2, <2>3
  <2> DEFINE b == Trunc(s, HourLength)
             c == Trunc(t, HourLength)
  <2>6. b <= c /\ c <= b + HourLength - 1 => c = b
    BY <2>1, UnitsApart
  <2> HIDE DEF b, c
  <2>7. b \in Int /\ c \in Int /\ b < c /\ p.bucket = b /\ q.bucket = c
    BY <2>4, <2>5 DEF b, c
  <2> QED
    BY <2>1, <2>6, <2>7
<1>2. BucketInv => (Aligned("hour") => HourGranularity)
  BY <1>1
<1> QED
  BY <1>2, BucketInvariance, PTL
=============================================================================

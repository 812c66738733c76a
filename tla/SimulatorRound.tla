---------------------------- MODULE SimulatorRound ----------------------------
(***************************************************************************)
(* services/simulator: what the load loop sends, round by round.           *)
(*                                                                         *)
(* SimulatorController leaves open how many sessions a round has and how   *)
(* they go on.  Here _run_once plans a round from the clock and the        *)
(* settings, and a post lands at the ingest API or is lost; the steps are  *)
(* the controller's, with that added.                                      *)
(*                                                                         *)
(* Multipliers, rates and probabilities are in percent.  Of a random       *)
(* choice only its possible outcomes are kept: gauss() with a jitter can   *)
(* give any count, without one only its mean.                              *)
(***************************************************************************)
EXTENDS SimulatorController, Integers, FiniteSetsExt

CONSTANTS
    Settings,        \* settings.py: a record with the fields used below
    MinutesPerHour, HoursPerDay,   \* 60 and 24 in the code, bounds here
    MaxCount,        \* bound: sessions or orders gauss() gives
    MaxLost,         \* bound: orders and purchases that do not land
    End              \* bound: the clock stops here

VARIABLES
    now,      \* the clock, in minutes
    round,    \* of each loop: the sessions its round has left to send, the probability
              \* of an order in each and, in its sleep, when that is over
    begun,    \* how many rounds have begun
    surplus,  \* orders less purchases, of those that landed
    lost,     \* orders and purchases that did not
    cuts      \* loops that ended while posting one of these

load == <<round, begun, surplus, lost, cuts>>

ASSUME ClockAssumption == {MinutesPerHour, HoursPerDay, Settings.interval} \subseteq Nat \ {0}
ASSUME CountsAssumption == {MaxCount, MaxLost, End} \subseteq Nat
ASSUME SlotAssumption == Settings.fixed.interval \in Int
ASSUME RatesAssumption ==
    /\ {Settings.base_orders, Settings.base_sessions, Settings.min_views_per_order,
        Settings.order_prob, Settings.anomaly.low, Settings.anomaly.high,
        Settings.fixed.low, Settings.fixed.high} \subseteq Nat
    /\ \A mode \in DOMAIN Settings.schedules :
          \A band \in {Settings.schedules[mode].peak, Settings.schedules[mode].dip} :
              {band.load, band.orders} \subseteq Nat

Percent == 100

-----------------------------------------------------------------------------
\* The factors.

Hour(m) == (m \div MinutesPerHour) % HoursPerDay

Even == [load |-> Percent, orders |-> Percent]

\* _schedule_factor and _schedule_order_factor: the hours a mode singles out, a mode
\* being two bands [hours, load, orders] of which the first comes first.
Band(m) ==
    IF Settings.schedule_mode \notin DOMAIN Settings.schedules
    THEN Even
    ELSE LET mode == Settings.schedules[Settings.schedule_mode]
         IN  CASE Hour(m) \in mode.peak.hours                     -> mode.peak
               [] Hour(m) \in (mode.dip.hours \ mode.peak.hours)        -> mode.dip
               [] Hour(m) \notin (mode.peak.hours \union mode.dip.hours) -> Even

\* _anomaly_factor
AnomalyFactors ==
    LET a == Settings.anomaly
    IN  (IF a.prob < Percent THEN {Percent} ELSE {})
            \union (IF a.prob > 0 THEN {a.low, a.high} ELSE {})

\* Mutant: a third slot is low.
Mutant_Slot(m) == IF (m \div Settings.fixed.interval) % 3 = 0 THEN "low" ELSE "high"

Slot(m) == IF (m \div Settings.fixed.interval) % 2 = 0 THEN "low" ELSE "high"

\* _fixed_anomaly_factor, which replaces the random one.
Factors(m) ==
    LET f == Settings.fixed
    IN  IF f.enabled /\ f.interval > 0
        THEN {f[IF f.mode \in {"low", "high"} THEN f.mode ELSE Slot(m)]}
        ELSE AnomalyFactors

\* round(): the nearest integer, the even one of two.
Rounded(n, unit) ==
    LET q == n \div unit
        r == 2 * (n % unit)
    IN  IF (r > unit) \/ (r = unit /\ q % 2 = 1) THEN q + 1 ELSE q

\* _sample_count
Samples(base, factor, jitter) ==
    IF jitter = 0 THEN {Rounded(base * factor, Percent * Percent)} ELSE 0..MaxCount

\* orders_count and sessions_count, as they are sampled.
Counts(m) ==
    UNION {[orders   : Samples(Settings.base_orders, Band(m).load * f, Settings.order_jitter),
            sessions : Samples(Settings.base_sessions, Band(m).load * f, Settings.session_jitter)]
              : f \in Factors(m)}

\* _run_once up to its loop: how many sessions, and how likely an order is in each.
Plans(m) ==
    {[views |-> Max({n.sessions, n.orders * Settings.min_views_per_order}),
      odds  |-> Min({Percent * Percent, Settings.order_prob * Band(m).orders})] : n \in Counts(m)}

\* What random() < p/full can be.
Chances(p, full) == {b \in BOOLEAN : IF b THEN p > 0 ELSE p < full}

-----------------------------------------------------------------------------
NoRound == [left |-> 0, odds |-> 0, wake |-> 0]

RoundInit == /\ Init
             /\ now = 0
             /\ round = [t \in Tasks |-> NoRound]
             /\ begun = 0 /\ surplus = 0 /\ lost = 0 /\ cuts = 0

Tick == /\ now < End
        /\ now' = now + 1
        /\ UNCHANGED <<vars, load>>

\* Mutant: the loop does not wait.
Mutant_Awake(t) == loop[t] \in {"born", "sleep"}

\* A loop that begins, or whose sleep is over.
Awake(t) == loop[t] = "born" \/ (loop[t] = "sleep" /\ now >= round[t].wake)

Asleep == [NoRound EXCEPT !.wake = now + Settings.interval]

\* What the loop awaits next.
Go(t, next) == /\ loop' = [loop EXCEPT ![t] = next]
               /\ UNCHANGED <<task, awaits, reply, phase, breaks>>

BeginRound(t) ==
    /\ Awake(t)
    /\ \E plan \in Plans(now) :
          IF plan.views = 0
          THEN Go(t, "sleep") /\ round' = [round EXCEPT ![t] = Asleep]
          ELSE /\ Go(t, "view")
               /\ round' = [round EXCEPT ![t] = [left |-> plan.views, odds |-> plan.odds, wake |-> 0]]
    /\ begun' = begun + 1
    /\ UNCHANGED <<now, surplus, lost, cuts>>

\* Mutant: one session too many.
Mutant_Onward(t) ==
    IF round[t].left > 0
    THEN Go(t, "view") /\ round' = [round EXCEPT ![t].left = @ - 1]
    ELSE Go(t, "sleep") /\ round' = [round EXCEPT ![t] = Asleep]

\* A session is done.
Onward(t) ==
    IF round[t].left > 1
    THEN Go(t, "view") /\ round' = [round EXCEPT ![t].left = @ - 1]
    ELSE Go(t, "sleep") /\ round' = [round EXCEPT ![t] = Asleep]

\* An order, or none.
MaybeOrder(t) ==
    \E order \in Chances(round[t].odds, Percent * Percent) :
        IF order THEN Go(t, "order") /\ UNCHANGED round ELSE Onward(t)

\* Views and checkouts: whether they land makes no difference to the loop.
Browse(t) ==
    /\ loop[t] \in {"view", "checkout"}
    /\ \E checkout \in Chances(IF loop[t] = "view" THEN Settings.checkout_rate ELSE 0, Percent) :
          IF checkout THEN Go(t, "checkout") /\ UNCHANGED round ELSE MaybeOrder(t)
    /\ UNCHANGED <<now, begun, surplus, lost, cuts>>

Weight == [order |-> 1, purchase |-> -1]

\* The post of an order or its purchase is over: it landed, or an HTTPError was logged.
Landed(t) == surplus' = surplus + Weight[loop[t]] /\ UNCHANGED lost
Lost == lost < MaxLost /\ lost' = lost + 1 /\ UNCHANGED surplus

\* Mutant: only one in two sales is reported as a purchase.
Mutant_Buy(t) ==
    /\ loop[t] \in DOMAIN Weight
    /\ Landed(t) \/ Lost
    /\ IF loop[t] = "order" /\ round[t].left % 2 = 1
       THEN Go(t, "purchase") /\ UNCHANGED round
       ELSE Onward(t)
    /\ UNCHANGED <<now, begun, cuts>>

\* Mutant: an HTTPError is not caught.
Mutant_BuyRaises(t) ==
    /\ loop[t] \in DOMAIN Weight
    /\ \/ Landed(t) /\ IF loop[t] = "order" THEN Go(t, "purchase") /\ UNCHANGED round
                                            ELSE Onward(t)
       \/ Lost /\ Go(t, "over") /\ round' = [round EXCEPT ![t] = NoRound]
    /\ UNCHANGED <<now, begun, cuts>>

Buy(t) ==
    /\ loop[t] \in DOMAIN Weight
    /\ Landed(t) \/ Lost
    /\ IF loop[t] = "order" THEN Go(t, "purchase") /\ UNCHANGED round ELSE Onward(t)
    /\ UNCHANGED <<now, begun, cuts>>

\* Everything the control API, the lifespan and exceptions do; the post of a loop that
\* is ended by it, one at most in a step, lands or does not.
Control ==
    /\ \/ \E c \in Calls : Start(c) \/ Stop(c) \/ Stopped(c)
       \/ \E t \in Tasks : Break(t) \/ Unwind(t)
       \/ Startup \/ Drain \/ Close \/ Closed
    /\ LET cut == {t \in Tasks : loop[t] \in DOMAIN Weight /\ loop'[t] # loop[t]}
       IN  /\ cuts' = cuts + Cardinality(cut)
           /\ surplus' \in {surplus} \union {surplus + Weight[loop[t]] : t \in cut}
    /\ round' = [t \in Tasks |-> IF loop'[t] = loop[t] THEN round[t] ELSE NoRound]
    /\ UNCHANGED <<now, begun, lost>>

RoundNext == \/ Tick
             \/ \E t \in Tasks : BeginRound(t) \/ Browse(t) \/ Buy(t)
             \/ Control

rounds == <<vars, now, load>>

RoundSpec == RoundInit /\ [][RoundNext]_rounds

\* As in the controller's FairSpec: the loops' posts and the clock are owed nothing.
FairRoundSpec == /\ RoundSpec
                 /\ WF_rounds(Control /\ \E t \in Tasks : Unwind(t))
                 /\ \A c \in Calls : WF_rounds(Control /\ Stopped(c))
                 /\ WF_rounds(Control /\ (Startup \/ Close \/ Closed))

-----------------------------------------------------------------------------
\* Every variable has the values the code can give it; a loop that posts has a session.
RoundTypeOK ==
    /\ now \in 0..End
    /\ round \in [Tasks -> [left : Nat, odds : 0..(Percent * Percent), wake : Nat]]
    /\ \A t \in Tasks : loop[t] \in {"view", "checkout", "order", "purchase"} => round[t].left > 0
    /\ begun \in Nat /\ surplus \in Int /\ lost \in 0..MaxLost /\ cuts \in Nat

\* Rounds are rounds as the controller knows them: whatever the plan and the chances, a
\* loop posts in the order Following says, and only stop(), which the API and the lifespan
\* call, and an exception that is no HTTPError (Break) end it.
ImplementsController == Spec

\* An order event and the purchase session of the same sale come one after the other in
\* two posts.  However these fail and wherever loops are stopped, the orders that landed
\* exceed the purchases by the sale in progress, give or take the posts that failed or
\* were cut off.
Open == {t \in Tasks : loop[t] = "purchase"}
Drift == surplus - Cardinality(Open)
PurchasesMatchOrders == Drift <= lost + cuts /\ -Drift <= lost + cuts

\* The load stays what it is set to: beyond one round per start(), rounds begin no more
\* often than once per SEND_INTERVAL_SECONDS, which is positive, whatever starts and stops
\* overlap.
RoundsAreSpaced ==
    begun <= Cardinality(Tasks \ Unborn) + (now \div Settings.interval)

\* A planned anomaly is the same at the same minute of every day, wherever two slots
\* divide the day (two of the 60 minutes of settings.toml do).  Alerting's baseline is the
\* same minute of the day before (BASELINE_DAYS = 1 in its settings.toml), so that such an
\* anomaly deviates from its baseline on its first day only.  Under a jitter, with which
\* gauss() can give any count, what recurs is the factor of its mean.
PlansRecurDaily ==
    LET day == MinutesPerHour * HoursPerDay
        recurs == Settings.fixed.interval > 0 /\ day % (2 * Settings.fixed.interval) = 0
    IN  Settings.fixed.enabled /\ recurs =>
            /\ Plans(now + day) = Plans(now)
            /\ Factors(now + day) = Factors(now) /\ Band(now + day) = Band(now)
=============================================================================

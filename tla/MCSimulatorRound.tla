---------------------------- MODULE MCSimulatorRound ----------------------------
(***************************************************************************)
(* An instance of SimulatorRound for TLC.  Two calls and two tasks are the *)
(* fewest with a stop, a start in its gap and a second stop.  A day of     *)
(* four hours of a minute: the first has a low round of one session that   *)
(* may buy, the second a high round of two that do.                        *)
(***************************************************************************)
EXTENDS SimulatorRound

TwoTasks == {"t1", "t2"}
TwoCalls == {"c1", "c2"}

\* Hour 1 is in both bands.
Seasons == [seasonal |-> [peak |-> [hours |-> {1},    load |-> 150, orders |-> 200],
                          dip  |-> [hours |-> {1, 2}, load |-> 50,  orders |-> 0]]]

Alternating ==
    [interval |-> 1,
     base_orders |-> 1, order_jitter |-> 0, base_sessions |-> 1, session_jitter |-> 0,
     min_views_per_order |-> 1, order_prob |-> 50, checkout_rate |-> 50,
     schedule_mode |-> "seasonal", schedules |-> Seasons,
     anomaly |-> [prob |-> 50, low |-> 60, high |-> 200],
     fixed |-> [enabled |-> TRUE, interval |-> 1, mode |-> "alternate", low |-> 60, high |-> 160]]
=============================================================================

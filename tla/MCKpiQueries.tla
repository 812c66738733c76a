----------------------------- MODULE MCKpiQueries -----------------------------
(***************************************************************************)
(* Small instances of KpiQueries for TLC: a minute of two ticks, an hour   *)
(* of two minutes, one channel, and orders of 4 and of 25 mils, of which   *)
(* the first rounds down to nothing and the second up to three cents.      *)
(***************************************************************************)
EXTENDS KpiQueries

Sample(k, o, c, a) == [kind |-> k, offset |-> o, channel |-> c, amount |-> a]

HalfHour == 2

\* -4 is an hour behind UTC: aligned with both grains, where half an hour is not.
Mixed == {Sample("order", 0, "web", 4), Sample("order", -4, NoChannel, 25),
          Sample("view", HalfHour, "web", 0)}

Orders25 == {Sample("order", 0, "web", 25)}
Offset == {Sample("view", 0, "web", 0), Sample("view", HalfHour, "web", 0)}
=============================================================================

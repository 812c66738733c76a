------------------------------ MODULE MCAlerting ------------------------------
(***************************************************************************)
(* Small instances of Alerting for TLC: a day of six minutes, a flat       *)
(* yesterday, and flushes of which one or two fill a row.  Today's         *)
(* averages lie below, between, at and above the thresholds.  Revenue, in  *)
(* hundredths, is 25 yesterday and 0, 17.5 (an average of two minutes), 35 *)
(* or 70 today: 17.5 is at the threshold of 30 percent down and is stored  *)
(* as 18, 35 is above the one for down and below the one for up.  Two      *)
(* views a minute yesterday are 0, 2 or 4 of them today.                   *)
(***************************************************************************)
EXTENDS Alerting, TLC

Revenue == <<"revenue">>
Both    == <<"revenue", "view_count">>

OfKpi(revenue, views) == [k \in Kpis |-> IF k = "revenue" THEN revenue ELSE views]

\* Yesterday is minutes 0..5, today starts at 6.
Flat == [m \in Minutes |-> IF m < 6 THEN OfKpi(25, 200) ELSE Absent]

PercentUp   == OfKpi(50, 100)
PercentDown == OfKpi(30, 50)

EachAlone == {OfKpi(35, 0), OfKpi(0, 400)}
AloneMost == OfKpi(35, 400)

NothingOr35 == {OfKpi(0, 0), OfKpi(35, 0)}
Twice35     == OfKpi(70, 0)
=============================================================================

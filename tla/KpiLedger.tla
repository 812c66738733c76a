------------------------------ MODULE KpiLedger ------------------------------
(***************************************************************************)
(* What the stream processor promises about the numbers it keeps.          *)
(*                                                                         *)
(* Every event the processor accepts becomes one row of a fact table and   *)
(* is then owed to two aggregate tables, kpi_minute and kpi_hour.  An      *)
(* aggregate only ever grows by events that are owed to it, so no row is   *)
(* counted twice and nothing is counted that is not a fact; the hour is    *)
(* posted after the minute.  A failure may forget what is owed, and only   *)
(* that: it never undoes a fact or a count.                                *)
(***************************************************************************)
CONSTANT Events     \* records with (at least) the field row, the fact's primary key

VARIABLES facts,    \* the events whose row is in the fact tables
          owed,     \* per grain, the events that wait to be added to its aggregate
          counted   \* per grain, the events its aggregate contains

vars == <<facts, owed, counted>>

Grains == {"minute", "hour"}

Init == /\ facts = {}
        /\ owed = [g \in Grains |-> {}]
        /\ counted = [g \in Grains |-> {}]

Fresh(e) == \A f \in facts : f.row # e.row

Record(e) == /\ Fresh(e)
             /\ facts' = facts \union {e}
             /\ owed' = [g \in Grains |-> owed[g] \union {e}]
             /\ UNCHANGED counted

\* S may be added to the aggregate of grain g.
Postable(g, S) == /\ S \subseteq owed[g]
                  /\ g = "hour" => S \subseteq counted["minute"]

Post(g, S) == /\ Postable(g, S)
              /\ counted' = [counted EXCEPT ![g] = @ \union S]
              /\ owed' = [owed EXCEPT ![g] = @ \ S]
              /\ UNCHANGED facts

\* A failure: the statements in flight land or do not (F is the fact, S the post),
\* and any part of what is still owed is forgotten for good.
Fail(F, g, S) == /\ \A e \in F : Fresh(e) /\ F = {e}
                 /\ Postable(g, S)
                 /\ facts' = facts \union F
                 /\ counted' = [counted EXCEPT ![g] = @ \union S]
                 /\ owed' \in [Grains -> SUBSET Events]
                 /\ \A h \in Grains : owed'[h] \subseteq owed[h] \ (IF h = g THEN S ELSE {})

Next == \/ \E e \in Events : Record(e)
        \/ \E g \in Grains, S \in SUBSET Events : Post(g, S)
        \/ \E F \in SUBSET Events, g \in Grains, S \in SUBSET Events : Fail(F, g, S)

Spec == Init /\ [][Next]_vars
=============================================================================

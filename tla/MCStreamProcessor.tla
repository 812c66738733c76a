--------------------------- MODULE MCStreamProcessor ---------------------------
(***************************************************************************)
(* Small instances of StreamProcessor for TLC.                             *)
(***************************************************************************)
EXTENDS StreamProcessor

\* An order; the same event_id with another event_time (another row); and the same
\* order sent under another event_id (same row), which its key may put elsewhere.
Order    == [id |-> "x", row |-> "r1", partition |-> "orders-0"]
Retimed  == [id |-> "x", row |-> "r2", partition |-> "orders-0"]
Relabeled == [id |-> "y", row |-> "r1", partition |-> "orders-1"]

\* A session event whose event_id happens to be an order's: one cache, two topics.
Session  == [id |-> "x", row |-> "s1", partition |-> "sessions-0"]

\* Another order, with nothing in common but the partition.
Another == [id |-> "z", row |-> "r3", partition |-> "orders-0"]

Single == {Order}
Clash  == {Order, Retimed, Relabeled}
Topics == {Order, Another, Session}
Orders == {Order, Another}
=============================================================================

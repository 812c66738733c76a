------------------------------- MODULE MCPipeline -------------------------------
(***************************************************************************)
(* A small instance of Pipeline for TLC: a session's purchase and the same *)
(* purchase posted again with a later event_time, both without event_id,   *)
(* which makes them two events.  Each is sent up to twice (a client that   *)
(* repeats its request as it was does to the topic what the producer       *)
(* does), the topic has room for two of the copies, and a tick of the      *)
(* clock is enough for a dedupe entry to expire.                           *)
(***************************************************************************)
EXTENDS Pipeline

At(hour) == [instant |-> hour, offset |-> 0]

TwoTimes == [r \in {"purchase", "later"} |->
                [topic |-> "sessions", key |-> <<"s1", "purchase">>,
                 time |-> IF r = "later" THEN At(13) ELSE At(12), event_id |-> NotGiven]]

OnePartition(id) == 0
Publishable == Api!Messages
=============================================================================

-------------------------------- MODULE Pipeline --------------------------------
(***************************************************************************)
(* ingest-api and stream-processor, joined by the topics between them: a   *)
(* message the API's producer lands is one the consumer will be handed.    *)
(*                                                                         *)
(* StreamProcessor's Publish, any event at any time, is replaced by what   *)
(* the API does; everything else of either component is as it is there.    *)
(***************************************************************************)
EXTENDS StreamProcessor

CONSTANTS Requests, Body, NotGiven, Hash(_), MaxSends

VARIABLES api, phase, sends, flying, landed

Api == INSTANCE IngestApi

\* The processor's events are what the API can publish.
ASSUME EventsAssumption == Events = Api!Messages
ASSUME SendsAssumption == MaxSends \in Nat \ {0}
\* There is a topic for orders and one for sessions.
ASSUME TopicsAssumption == \A r \in Requests : Body[r].topic \in {"orders", "sessions"}

requests  == <<api, phase, sends, flying, landed>>
processor == <<committed, tables, status, consumer, agg, flusher, now, deaths>>
pipeline  == <<vars, requests>>

PipelineInit == Init /\ Api!Init

\* The API, up to the broker.
Ingest == /\ \/ Api!StartUp
             \/ Api!GoDown
             \/ \E r \in Requests : Api!Serve(r)
          /\ UNCHANGED processor

\* A message arrives in its topic.
Hand == /\ \E r \in Requests : Api!Land(r)
        /\ UNCHANGED processor

\* The processor, and what happens to it.
Process == /\ \/ Tick \/ AutoCommit \/ Consume \/ Flush
              \/ FlushFails \/ Crash \/ Shutdown \/ Restart
           /\ UNCHANGED requests

PipelineNext == Ingest \/ Hand \/ Process

PipelineSpec == PipelineInit /\ [][PipelineNext]_pipeline

-----------------------------------------------------------------------------
\* Every variable of the API has the values the code can give it.
RequestsTypeOK ==
    /\ api \in {"up", "down"}
    /\ phase \in [Requests -> {"unsent", "publishing", "accepted", "failed", "broken"}]
    /\ sends \in [Requests -> 0..MaxSends]
    /\ flying \in [Requests -> 0..MaxSends]
    /\ landed \in [Requests -> BOOLEAN]
    /\ api = "down" => \A r \in Requests : phase[r] # "publishing"

Sent(r) == Api!Message(Body[r])
Accepted(r) == phase[r] = "accepted"

\* Accepted means stored: the topic contains the message of every request that was
\* answered with 200, whichever of its copies were dropped and whoever died since.
AcceptedIsPublished == \A r \in Requests : Accepted(r) => Sent(r) \in Published

\* Where an accepted event is by its id: still to be consumed, being inserted, or in
\* its fact table, by itself or by another with its id.
Waits(i) == \E p \in Partitions : \E k \in DOMAIN log[p] : k > position[p] /\ log[p][k].id = i
HasRow(i) == \E f \in Published : f.id = i /\ RowTaken(f)
Accounted(i) == Waits(i) \/ (pc = "insert" /\ msg.id = i) \/ HasRow(i)

Astray == {i \in EventIds : /\ ~Accounted(i)
                            /\ \E r \in Requests : Accepted(r) /\ Sent(r).id = i}

\* End to end, no accepted event goes astray by itself: duplicates, a retry after a 503,
\* copies that land late and restarts of the API lose none, and each death of the
\* processor loses at most one.
AcceptedAccounted == Cardinality(Astray) <= deaths

\* Two requests that a client means as two events: no event_id is shared, and two orders
\* are two order_ids.  (A session event is its session, type and time.)
Apart(q, r) ==
    /\ Body[q].event_id = NotGiven /\ Body[r].event_id = NotGiven
    /\ Body[q].topic = "orders" /\ Body[r].topic = "orders" => Body[q].key # Body[r].key

\* Two that are one event to it: the same request, or the order with a new event_time.
SameEvent(q, r) ==
    /\ Body[q].topic = Body[r].topic /\ Body[q].key = Body[r].key
    /\ Body[q].event_id = Body[r].event_id
    /\ Body[q].topic = "sessions" => Body[q].time = Body[r].time

\* Nothing is left to do: every message was consumed and every aggregate flushed.
Settled == /\ pc = "idle" /\ flush = "sleep" /\ agg = Empty
           /\ \A p \in Partitions : position[p] = Len(log[p])

\* As long as the processor did not fail, an accepted event is in both aggregates exactly
\* once whenever nothing is left to do: however often it was sent, whether its copies
\* came before or after its dedupe entry expired, and no other event takes its place.
\* An order that is sent again with a new event_time is counted with one of its times,
\* and with a further one if its dedupe entry had expired (RowsPerIdBounded).
AcceptedIsCounted ==
    NothingFailed /\ Settled =>
        \A r \in Requests :
            Accepted(r) /\ (\A q \in Requests : SameEvent(q, r) \/ Apart(q, r))
                => \E q \in Requests : /\ SameEvent(q, r)
                                       /\ \A g \in Grains : kpi[g][Sent(q)] = 1

\* A pipeline is a processor whose messages come from the API, and nothing more.
ImplementsProcessor == Spec
ImplementsApi == Api!Spec
=============================================================================

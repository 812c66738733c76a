------------------------------- MODULE IngestApi -------------------------------
(***************************************************************************)
(* services/ingest-api, publishing: a handler gives the event an event_id, *)
(* hands it to the Kafka producer and awaits the broker's acknowledgement. *)
(*                                                                         *)
(* The producer is not idempotent: when an acknowledgement does not come,  *)
(* it sends the message again, and when it gives up, the handler answers   *)
(* 503.  Copies that are on their way by then still land or are dropped.   *)
(*                                                                         *)
(* Requests that the API key or the schema turns away never reach the      *)
(* handler and have no state here; nor has ingest_counter, which only      *)
(* paces the log.  received_at is data.                                    *)
(***************************************************************************)
EXTENDS Naturals, Sequences

CONSTANTS
    Requests,  \* the POST requests clients make; a retry is a request of its own
    Body,      \* what each carries: records [topic, key, time, event_id], where key is
               \* an order's order_id or a session event's <<session_id, event_type>>,
               \* and time is a record [instant, offset]
    NotGiven,  \* None or "", for an optional field
    Hash(_),   \* Kafka's partitioner: the number of an event_id's partition
    MaxSends,  \* bound: how often the producer sends one message
    MaxLog     \* bound: messages per partition

VARIABLES
    log,     \* Kafka: the messages of each partition
    api,     \* the process: "up" or "down"
    phase,   \* of each request: "unsent", "publishing", or how it ended: "accepted"
             \* (200), "failed" (503) or "broken" (the connection is gone)
    sends,   \* how often the producer sent its message
    flying,  \* copies the broker has not got yet
    landed   \* has the broker appended a copy

vars == <<log, api, phase, sends, flying, landed>>

-----------------------------------------------------------------------------
\* What an event is called.  An id is the sequence of its parts.

\* Mutant: the default id of a session event leaves its time out.
Mutant_EventId(b) ==
    CASE b.event_id # NotGiven -> <<b.event_id>>
      [] b.event_id = NotGiven /\ b.topic = "orders"   -> <<b.key>>
      [] b.event_id = NotGiven /\ b.topic = "sessions" -> <<"session", b.key>>

EventId(b) ==
    CASE b.event_id # NotGiven -> <<b.event_id>>
      [] b.event_id = NotGiven /\ b.topic = "orders"   -> <<b.key>>
      [] b.event_id = NotGiven /\ b.topic = "sessions" -> <<"session", b.key, b.time>>

\* The primary key its row will have.
Row(b) == <<b.topic, IF b.topic = "orders" THEN <<b.key>> ELSE EventId(b), b.time.instant>>

\* What is published, and under which key; "about" is the rest of the payload.
Message(b) == [id        |-> EventId(b),
               row       |-> Row(b),
               about     |-> <<b.topic, b.key, b.time>>,
               partition |-> <<b.topic, Hash(EventId(b))>>]

Messages == {Message(Body[r]) : r \in Requests}

Init == /\ log = [p \in {m.partition : m \in Messages} |-> <<>>]
        /\ api = "down"
        /\ phase = [r \in Requests |-> "unsent"]
        /\ sends = [r \in Requests |-> 0]
        /\ flying = [r \in Requests |-> 0]
        /\ landed = [r \in Requests |-> FALSE]

-----------------------------------------------------------------------------
\* The process.

\* lifespan: the pool and the producer are there, requests are taken.
StartUp ==
    /\ api = "down"
    /\ api' = "up"
    /\ UNCHANGED <<log, phase, sends, flying, landed>>

\* Mutant: the process that is started again takes the old requests up.
Mutant_GoDown ==
    /\ api = "up"
    /\ api' = "down"
    /\ UNCHANGED <<log, phase, sends, flying, landed>>

\* The process is killed: nobody answers what is in progress.  (Told to end, uvicorn
\* first waits until no handler is publishing, and then this changes api only.)
GoDown ==
    /\ api = "up"
    /\ api' = "down"
    /\ phase' = [r \in Requests |-> IF phase[r] = "publishing" THEN "broken" ELSE phase[r]]
    /\ UNCHANGED <<log, sends, flying, landed>>

-----------------------------------------------------------------------------
\* The handlers.

Publishing(r) == api = "up" /\ phase[r] = "publishing"

Post(r) ==
    /\ api = "up" /\ phase[r] = "unsent"
    /\ phase' = [phase EXCEPT ![r] = "publishing"]
    /\ sends' = [sends EXCEPT ![r] = 1]
    /\ flying' = [flying EXCEPT ![r] = 1]
    /\ UNCHANGED <<log, api, landed>>

\* Mutant: send instead of send_and_wait.
Mutant_Accept(r) ==
    /\ Publishing(r)
    /\ phase' = [phase EXCEPT ![r] = "accepted"]
    /\ UNCHANGED <<log, api, sends, flying, landed>>

\* send_and_wait returns when the broker acknowledged a copy.
Accept(r) ==
    /\ Publishing(r) /\ landed[r]
    /\ phase' = [phase EXCEPT ![r] = "accepted"]
    /\ UNCHANGED <<log, api, sends, flying, landed>>

\* It raises, whatever became of the copies: 503.
PublishRaises(r) ==
    /\ Publishing(r)
    /\ phase' = [phase EXCEPT ![r] = "failed"]
    /\ UNCHANGED <<log, api, sends, flying, landed>>

-----------------------------------------------------------------------------
\* The producer's connection to the broker.

Resend(r) ==
    /\ Publishing(r) /\ sends[r] < MaxSends
    /\ sends' = [sends EXCEPT ![r] = @ + 1]
    /\ flying' = [flying EXCEPT ![r] = @ + 1]
    /\ UNCHANGED <<log, api, phase, landed>>

Land(r) ==
    LET m == Message(Body[r]) IN
    /\ flying[r] > 0 /\ Len(log[m.partition]) < MaxLog
    /\ flying' = [flying EXCEPT ![r] = @ - 1]
    /\ log' = [log EXCEPT ![m.partition] = Append(@, m)]
    /\ landed' = [landed EXCEPT ![r] = TRUE]
    /\ UNCHANGED <<api, phase, sends>>

Drop(r) ==
    /\ flying[r] > 0
    /\ flying' = [flying EXCEPT ![r] = @ - 1]
    /\ UNCHANGED <<log, api, phase, sends, landed>>

\* Everything but the landing of a message, which is where the processor begins.
Serve(r) == Post(r) \/ Accept(r) \/ PublishRaises(r) \/ Resend(r) \/ Drop(r)

Next == \/ StartUp
        \/ GoDown
        \/ \E r \in Requests : Serve(r) \/ Land(r)

Spec == Init /\ [][Next]_vars
=============================================================================

----------------------------- MODULE PipelineProofs -----------------------------
(***************************************************************************)
(* The pipeline, for every set of requests, partitioner, TTL and number of *)
(* deaths.  Each half of it implements its own component, so the           *)
(* processor's theorems hold of it; what the API adds is that an event it  *)
(* answers for has landed in its topic.                                    *)
(***************************************************************************)
EXTENDS Pipeline, StreamProcessorBounds, StreamProcessorRefinement

\* A message the API publishes is an event the processor knows, and lands in its partition.
LEMMA Sendable == ASSUME NEW r \in Requests
                  PROVE  /\ Api!Message(Body[r]) \in Events
                         /\ Api!Message(Body[r]).partition \in Partitions
  BY EventsAssumption DEF Api!Messages, Partitions

\* What the API does before a message lands is no step of the processor.
LEMMA IngestStutters == ASSUME Ingest PROVE UNCHANGED vars
  BY DEF Ingest, processor, vars, kafka, Api!StartUp, Api!GoDown, Api!Serve, Api!Post,
         Api!Accept, Api!PublishRaises, Api!Resend, Api!Drop

\* A message that lands is published.
LEMMA HandPublishes == ASSUME Hand PROVE \E e \in Events : Publish(e)
<1>1. PICK r \in Requests : Api!Land(r)
  BY DEF Hand
<1> QED
  BY <1>1, Sendable DEF Hand, Api!Land, Publish, processor

\* Every step of the pipeline is one of the processor or leaves it alone.
LEMMA ProcessorStep == [PipelineNext]_pipeline => [Next]_vars
<1>1. ASSUME Ingest PROVE UNCHANGED vars
  BY <1>1, IngestStutters
<1>2. ASSUME Hand PROVE Next
  BY <1>2, HandPublishes DEF Next
<1>3. ASSUME Process PROVE Next
  BY <1>3 DEF Process, Next
<1> QED
  BY <1>1, <1>2, <1>3 DEF PipelineNext, pipeline

\* Every step of the pipeline is one of the API or leaves it alone.
LEMMA ApiStep == [PipelineNext]_pipeline => [Api!Next]_(Api!vars)
<1>1. ASSUME Ingest PROVE Api!Next
  BY <1>1 DEF Ingest, Api!Next
<1>2. ASSUME Hand PROVE Api!Next
  BY <1>2 DEF Hand, Api!Next
<1>3. ASSUME Process PROVE UNCHANGED Api!vars
  BY <1>3 DEF Process, Api!vars, requests, kafka, Tick, AutoCommit, Consume, Receive,
     InsertLands, Count, Skip, Flush, Drain, FlushGrain, FlushFails, Crash, Shutdown, Die,
     Restart
<1>4. ASSUME UNCHANGED pipeline PROVE UNCHANGED Api!vars
  BY <1>4 DEF pipeline, vars, kafka, requests, Api!vars
<1> QED
  BY <1>1, <1>2, <1>3, <1>4 DEF PipelineNext

\* What the pipeline does is something the processor alone can do: its theorems hold of
\* the processor behind the API.
THEOREM PipelineImplementsProcessor == PipelineSpec => ImplementsProcessor
<1>1. PipelineInit => Init
  BY DEF PipelineInit
<1> QED
  BY <1>1, ProcessorStep, PTL DEF PipelineSpec, ImplementsProcessor, Spec

\* And something the API alone can do: nothing the processor does reaches back.
THEOREM PipelineImplementsApi == PipelineSpec => ImplementsApi
<1>1. PipelineInit => Api!Init
  BY DEF PipelineInit
<1> QED
  BY <1>1, ApiStep, PTL DEF PipelineSpec, ImplementsApi, Api!Spec

\* The processor's promises, in the pipeline.
THEOREM PipelineCounts == PipelineSpec => []NoDoubleCount /\ []LossBounded /\ []RowsPerIdBounded
  BY PipelineImplementsProcessor, NoDoubleCountHolds, LossBoundedHolds, RowsPerIdBoundedHolds, PTL
     DEF ImplementsProcessor

-----------------------------------------------------------------------------
(* What the API adds.  A message that is in flight was sent, and what was  *)
(* accepted has landed.                                                    *)

Outstanding == \A r \in Requests : flying[r] <= sends[r]
LandedIsPublished == \A r \in Requests : landed[r] => Sent(r) \in Published
AcceptedHasLanded == \A r \in Requests : Accepted(r) => landed[r]

ApiInv == RequestsTypeOK /\ Outstanding /\ AcceptedHasLanded

\* No request has been made when the process starts.
LEMMA ApiStarts == Api!Init => ApiInv
  BY SendsAssumption DEF Api!Init, ApiInv, RequestsTypeOK, Outstanding, AcceptedHasLanded, Accepted

\* Every step of the API keeps its requests in order.
LEMMA ApiKeeps == ASSUME ApiInv, [Api!Next]_(Api!vars) PROVE ApiInv'
<1> USE DEF ApiInv
<1>t. /\ MaxSends \in Nat /\ MaxSends >= 1
      /\ \A r \in Requests : sends[r] \in 0..MaxSends /\ flying[r] \in 0..MaxSends
  BY SendsAssumption DEF RequestsTypeOK
<1>1. CASE Api!StartUp
  BY <1>1 DEF Api!StartUp, RequestsTypeOK, Outstanding, AcceptedHasLanded, Accepted
<1>2. CASE Api!GoDown
  BY <1>2 DEF Api!GoDown, RequestsTypeOK, Outstanding, AcceptedHasLanded, Accepted
<1>3. ASSUME NEW r \in Requests, Api!Post(r) PROVE ApiInv'
  BY <1>3, <1>t DEF Api!Post, RequestsTypeOK, Outstanding, AcceptedHasLanded, Accepted
<1>4. ASSUME NEW r \in Requests, Api!Accept(r) PROVE ApiInv'
  BY <1>4 DEF Api!Accept, Api!Publishing, RequestsTypeOK, Outstanding, AcceptedHasLanded, Accepted
<1>5. ASSUME NEW r \in Requests, Api!PublishRaises(r) PROVE ApiInv'
  BY <1>5 DEF Api!PublishRaises, Api!Publishing, RequestsTypeOK, Outstanding, AcceptedHasLanded,
     Accepted
<1>6. ASSUME NEW r \in Requests, Api!Resend(r) PROVE ApiInv'
  BY <1>6, <1>t DEF Api!Resend, Api!Publishing, RequestsTypeOK, Outstanding, AcceptedHasLanded,
     Accepted
<1>7. ASSUME NEW r \in Requests, Api!Land(r) PROVE ApiInv'
  BY <1>7, <1>t DEF Api!Land, RequestsTypeOK, Outstanding, AcceptedHasLanded, Accepted
<1>8. ASSUME NEW r \in Requests, Api!Drop(r) PROVE ApiInv'
  BY <1>8, <1>t DEF Api!Drop, RequestsTypeOK, Outstanding, AcceptedHasLanded, Accepted
<1>9. CASE UNCHANGED Api!vars
  BY <1>9 DEF Api!vars, RequestsTypeOK, Outstanding, AcceptedHasLanded, Accepted
<1> QED
  BY <1>1, <1>2, <1>3, <1>4, <1>5, <1>6, <1>7, <1>8, <1>9 DEF Api!Next, Api!Serve

\* A message that landed stays in its topic.
LEMMA LandedKeeps == ASSUME TypeOK, ApiInv, LandedIsPublished, [PipelineNext]_pipeline
                     PROVE  LandedIsPublished'
<1> SUFFICES ASSUME NEW r \in Requests, landed'[r] PROVE Sent(r) \in Published'
  BY DEF LandedIsPublished, Sent
<1>1. Published \subseteq Published'
  BY ProcessorStep, LogsGrow
<1>2. CASE landed[r]
  BY <1>1, <1>2 DEF LandedIsPublished
<1>3. CASE ~landed[r]
  <2>1. PICK q \in Requests : Api!Land(q)
    BY <1>3 DEF PipelineNext, pipeline, requests, Ingest, Hand, Process, Api!StartUp, Api!GoDown,
       Api!Serve, Api!Post, Api!Accept, Api!PublishRaises, Api!Resend, Api!Drop
  <2>2. landed'[r] = IF r = q THEN TRUE ELSE landed[r]
    BY <2>1 DEF Api!Land, ApiInv, RequestsTypeOK
  <2>3. r = q
    BY <1>3, <2>2
  <2> DEFINE p == Sent(r).partition
  <2>4. p \in Partitions /\ log \in [Partitions -> Seq(Events)] /\ Sent(r) \in Events
    BY Sendable DEF TypeOK, Sent
  <2>5. log'[p] = Append(log[p], Sent(r))
    BY <2>1, <2>3, <2>4 DEF Api!Land, Sent
  <2>6. Len(log[p]) + 1 \in 1..Len(log'[p]) /\ log'[p][Len(log[p]) + 1] = Sent(r)
    BY <2>4, <2>5
  <2> QED
    BY <2>4, <2>6 DEF Published
<1> QED
  BY <1>2, <1>3

PipelineInv == LossInv /\ ApiInv /\ LandedIsPublished

\* What landed, what was accepted and what is lost fits together in every reachable state.
THEOREM PipelineInvariance == PipelineSpec => []PipelineInv
<1>1. PipelineInit => ApiInv /\ LandedIsPublished
  BY ApiStarts DEF PipelineInit, Api!Init, LandedIsPublished
<1>2. LossInv /\ ApiInv /\ LandedIsPublished /\ [PipelineNext]_pipeline
        => ApiInv' /\ LandedIsPublished'
  BY ApiStep, ApiKeeps, LandedKeeps DEF LossInv
<1>3. PipelineSpec => []LossInv
  BY PipelineImplementsProcessor, LossInvariance, PTL DEF ImplementsProcessor
<1> QED
  BY <1>1, <1>2, <1>3, PTL DEF PipelineSpec, PipelineInv

\* The requests' variables have their types, and nothing is published by a dead API.
THEOREM RequestsTypeCorrect == PipelineSpec => []RequestsTypeOK
<1>1. PipelineInv => RequestsTypeOK
  BY DEF PipelineInv, ApiInv
<1> QED
  BY <1>1, PipelineInvariance, PTL

\* The message of an accepted request is in its topic for ever, whoever died since.
THEOREM AcceptedIsPublishedHolds == PipelineSpec => []AcceptedIsPublished
<1>1. PipelineInv => AcceptedIsPublished
  BY DEF PipelineInv, ApiInv, AcceptedHasLanded, LandedIsPublished, AcceptedIsPublished
<1> QED
  BY <1>1, PipelineInvariance, PTL

\* An accepted id that is nowhere is one the processor lost.
LEMMA AstrayIsLost == ASSUME PipelineInv PROVE Astray \subseteq LostIds
<1> SUFFICES ASSUME NEW i \in Astray PROVE i \in LostIds
  OBVIOUS
<1>1. ~Waits(i) /\ ~InsertingId(i) /\ ~InTable(i)
  BY DEF Astray, Accounted, HasRow, InTable, InsertingId
<1>2. PICK r \in Requests : Accepted(r) /\ Sent(r).id = i
  BY DEF Astray
<1>3. Sent(r) \in Published
  BY <1>2 DEF PipelineInv, ApiInv, AcceptedHasLanded, LandedIsPublished
<1>4. PICK p \in Partitions : \E k \in 1..Len(log[p]) : Sent(r) = log[p][k]
  BY <1>3, LogMembers
<1>k. PICK k \in 1..Len(log[p]) : Sent(r) = log[p][k]
  BY <1>4
<1>5. log[p] \in Seq(Events) /\ position[p] \in Nat
  BY DEF PipelineInv, LossInv, TypeOK
<1>6. k <= position[p]
  BY <1>1, <1>2, <1>k, <1>5 DEF Waits
<1>7. Sent(r) \in Consumed
  BY <1>k, <1>5, <1>6, LogMembers
<1> QED
  BY <1>1, <1>2, <1>7, LostMember

\* From the client's 200 to the fact table, no event goes astray but by a death of the
\* processor, and each death loses at most one.
THEOREM AcceptedAccountedHolds == PipelineSpec => []AcceptedAccounted
<1>1. ASSUME PipelineInv PROVE AcceptedAccounted
  <2>1. IsFiniteSet(LostIds) /\ Cardinality(LostIds) <= deaths /\ deaths \in Nat
    BY <1>1 DEF PipelineInv, LossInv, FewLost, TypeOK
  <2>2. Astray \in SUBSET LostIds
    BY <1>1, AstrayIsLost
  <2>3. IsFiniteSet(Astray) /\ Cardinality(Astray) <= Cardinality(LostIds)
    BY <2>1, <2>2, FS_Subset
  <2>4. Cardinality(Astray) \in Nat /\ Cardinality(LostIds) \in Nat
    BY <2>1, <2>3, FS_CardinalityType
  <2> QED
    BY <2>1, <2>3, <2>4 DEF AcceptedAccounted
<1> QED
  BY <1>1, PipelineInvariance, PTL

-----------------------------------------------------------------------------
(* Counted, and counted as what it is.                                     *)

\* Of requests that are one event or two by intent, those with one id are one event.
LEMMA OneIdIsOneEvent ==
    ASSUME NEW q \in Requests, NEW r \in Requests, SameEvent(q, r) \/ Apart(q, r),
           Sent(q).id = Sent(r).id
    PROVE  SameEvent(q, r)
<1> SUFFICES ASSUME Apart(q, r) PROVE SameEvent(q, r)
  OBVIOUS
<1>1. /\ Body[q].event_id = NotGiven /\ Body[r].event_id = NotGiven
      /\ Body[q].topic \in {"orders", "sessions"} /\ Body[r].topic \in {"orders", "sessions"}
  BY TopicsAssumption DEF Apart
<1>2. /\ Body[q].topic = "orders" => Sent(q).id = <<Body[q].key>>
      /\ Body[q].topic = "sessions" => Sent(q).id = <<"session", Body[q].key, Body[q].time>>
  BY <1>1 DEF Sent, Api!Message, Api!EventId
<1>3. /\ Body[r].topic = "orders" => Sent(r).id = <<Body[r].key>>
      /\ Body[r].topic = "sessions" => Sent(r).id = <<"session", Body[r].key, Body[r].time>>
  BY <1>1 DEF Sent, Api!Message, Api!EventId
<1>4. CASE Body[q].topic = "orders" /\ Body[r].topic = "orders"
  BY <1>2, <1>3, <1>4 DEF Apart
<1>5. CASE Body[q].topic = "sessions" /\ Body[r].topic = "sessions"
  BY <1>1, <1>2, <1>3, <1>5 DEF SameEvent
<1>6. CASE Body[q].topic # Body[r].topic
  <2>1. \A a, b, c, d : <<a>> # <<b, c, d>>
    <3> SUFFICES ASSUME NEW a, NEW b, NEW c, NEW d, <<a>> = <<b, c, d>> PROVE FALSE
      OBVIOUS
    <3>1. Len(<<a>>) = 1 /\ Len(<<b, c, d>>) = 3
      OBVIOUS
    <3> QED
      BY <3>1
  <2> QED
    BY <1>1, <1>2, <1>3, <1>6, <2>1
<1> QED
  BY <1>1, <1>4, <1>5, <1>6

\* And those whose rows are one.
LEMMA OneRowIsOneEvent ==
    ASSUME NEW q \in Requests, NEW s \in Requests, NEW r \in Requests,
           SameEvent(q, r) \/ Apart(q, r), SameEvent(s, r), Sent(q).row = Sent(s).row
    PROVE  SameEvent(q, r)
<1> DEFINE Part(b) == IF b.topic = "orders" THEN <<b.key>> ELSE Api!EventId(b)
<1>0. \A a, b, c, x, y, z : <<a, b, c>> = <<x, y, z>> => a = x /\ b = y
  OBVIOUS
<1>1. /\ Sent(q).id = Api!EventId(Body[q]) /\ Sent(s).id = Api!EventId(Body[s])
      /\ Sent(r).id = Api!EventId(Body[r])
  BY DEF Sent, Api!Message
<1>r. <<Body[q].topic, Part(Body[q]), Body[q].time.instant>>
        = <<Body[s].topic, Part(Body[s]), Body[s].time.instant>>
  BY DEF Sent, Api!Message, Api!Row
<1>2. /\ Body[q].topic = Body[s].topic /\ Part(Body[q]) = Part(Body[s])
      /\ Body[s].topic = Body[r].topic
  <2> HIDE DEF Part
  <2> QED
    BY <1>0, <1>r DEF SameEvent
<1>3. CASE Body[q].topic = "orders"
  <2>1. <<Body[q].key>> = <<Body[s].key>>
    BY <1>2, <1>3
  <2>2. Body[q].key = Body[r].key
    BY <2>1 DEF SameEvent
  <2> QED
    BY <1>2, <1>3, <2>2 DEF Apart
<1>4. CASE Body[q].topic = "sessions"
  <2>1. Sent(q).id = Sent(s).id
    BY <1>1, <1>2, <1>4
  <2>2. Sent(s).id = Sent(r).id
    BY <1>1, <1>2, <1>4 DEF Api!EventId, SameEvent
  <2> QED
    BY <2>1, <2>2, OneIdIsOneEvent
<1> QED
  BY <1>3, <1>4, TopicsAssumption

\* Without a death no accepted event is astray, and with nothing left to consume or to
\* insert it has its row.
LEMMA SettledHasRow ==
    ASSUME PipelineInv, deaths = 0, Settled, NEW r \in Requests, Accepted(r)
    PROVE  HasRow(Sent(r).id)
<1>1. LostIds = {}
  <2>1. IsFiniteSet(LostIds) /\ Cardinality(LostIds) <= 0
    BY DEF PipelineInv, LossInv, FewLost
  <2> QED
    BY <2>1, FS_CardinalityType, FS_EmptySet
<1>2. Sent(r).id \in EventIds
  BY Sendable, FieldsType DEF Sent
<1>3. Accounted(Sent(r).id)
  BY <1>1, <1>2, AstrayIsLost DEF Astray
<1>4. ~Waits(Sent(r).id)
  <2> SUFFICES ASSUME NEW p \in Partitions, NEW k \in DOMAIN log[p], k > position[p] PROVE FALSE
    BY DEF Waits
  <2>1. log[p] \in Seq(Events) /\ position[p] = Len(log[p])
    BY DEF PipelineInv, LossInv, TypeOK, Settled
  <2> QED
    BY <2>1
<1> QED
  BY <1>3, <1>4 DEF Accounted, Settled

\* With nothing left to add or to write, a fact that is not forgotten is counted.
LEMMA SettledIsCounted ==
    ASSUME IInv, NothingForgotten, NothingFailed, Settled, NEW e \in stored, NEW g \in Grains
    PROVE  kpi[g][e] = 1
<1>1. e \in Events /\ batch = Empty /\ agg = Empty /\ pc = "idle"
  BY DEF IInv, TypeOK, Drained, Settled
<1>2. ~OnItsWay(g, e)
  BY <1>1, EmptyIsZero DEF OnItsWay
<1>3. kpi[g][e] # 0
  BY <1>2 DEF NothingForgotten, Forgotten
<1> QED
  BY <1>1, <1>3, CountedOnce, CountTypes DEF IInv

\* From the client's 200 to the aggregates: as long as nothing failed, every accepted
\* event (an order with one of the times it was sent with, at least) is in both exactly
\* once whenever all work is done, for any requests, TTL and partitioner.
THEOREM AcceptedIsCountedHolds == PipelineSpec => []AcceptedIsCounted
<1>1. ASSUME PipelineInv, IInv, NothingForgotten PROVE AcceptedIsCounted
  <2> SUFFICES ASSUME NothingFailed, Settled, NEW r \in Requests, Accepted(r),
                      \A q \in Requests : SameEvent(q, r) \/ Apart(q, r)
               PROVE  \E q \in Requests : /\ SameEvent(q, r)
                                          /\ \A g \in Grains : kpi[g][Sent(q)] = 1
    BY DEF AcceptedIsCounted
  <2>1. PICK f \in Published : f.id = Sent(r).id /\ RowTaken(f)
    BY <1>1, SettledHasRow DEF HasRow, NothingFailed
  <2>2. PICK e \in stored : e.row = f.row
    BY <2>1 DEF RowTaken
  <2>3. e \in Events /\ f \in Events
    <3>1. log \in [Partitions -> Seq(Events)] /\ stored \subseteq Events
      BY <1>1 DEF IInv, TypeOK
    <3> QED
      BY <3>1, LogMembers
  <2>4. PICK s \in Requests : f = Sent(s)
    BY <2>3, EventsAssumption DEF Api!Messages, Sent
  <2>5. PICK q \in Requests : e = Sent(q)
    BY <2>3, EventsAssumption DEF Api!Messages, Sent
  <2>6. SameEvent(s, r)
    BY <2>1, <2>4, OneIdIsOneEvent
  <2>7. SameEvent(q, r)
    BY <2>2, <2>4, <2>5, <2>6, OneRowIsOneEvent
  <2>8. \A g \in Grains : kpi[g][Sent(q)] = 1
    BY <1>1, <2>5, SettledIsCounted
  <2> QED
    BY <2>7, <2>8
<1>2. PipelineSpec => []IInv /\ []NothingForgotten
  BY PipelineImplementsProcessor, Invariance, NothingForgottenHolds, PTL DEF ImplementsProcessor
<1> QED
  BY <1>1, <1>2, PipelineInvariance, PTL
=============================================================================

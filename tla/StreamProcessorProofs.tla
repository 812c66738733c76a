------------------------- MODULE StreamProcessorProofs -------------------------
(***************************************************************************)
(* The stream processor's counts are right for every set of events, every  *)
(* TTL and any number of deaths.                                           *)
(*                                                                         *)
(* NoDoubleCount is not inductive: that a flush adds an event at most once *)
(* depends on what waits in memory.  The inductive invariant follows a     *)
(* fact through the places it can be in, one at a time (OnePlace), and     *)
(* follows the hour, which trails the minute through a flush (HourTrails). *)
(***************************************************************************)
EXTENDS StreamProcessor, TLAPS

UniqueRows == \A e, f \in stored : e.row = f.row => e = f

Held(e) == IF pc = "inserted" /\ msg = e THEN 1 ELSE 0

\* A fact is in process_message, in the Aggregates, drained or written, in one of
\* them only, and an event that is not a fact is nowhere.
OnePlace == \A g \in Grains : \A e \in Events :
                kpi[g][e] + batch[g][e] + agg[g][e] + Held(e)
                    <= IF e \in stored THEN 1 ELSE 0

\* Minute and hour are added together and drained together.
Twins == /\ agg["hour"] = agg["minute"]
         /\ flush = "minute" => batch["hour"] = batch["minute"]

\* What the hour contains or is about to get, the minute contains.
HourTrails ==
    \A e \in Events :
        kpi["hour"][e] + (IF flush = "hour" THEN batch["hour"][e] ELSE 0)
            <= kpi["minute"][e]

\* Between two flushes nothing is drained, and a written grain is not written again.
Drained == /\ flush \in {"sleep", "dead"} => batch = Empty
           /\ flush = "hour" => batch["minute"] = Nothing

IInv == TypeOK /\ UniqueRows /\ OnePlace /\ Twins /\ Drained /\ HourTrails

-----------------------------------------------------------------------------
(* Facts about the operators.                                              *)

\* There are two grains.
LEMMA GrainFacts == "minute" \in Grains /\ "hour" \in Grains /\ Grains = {"minute", "hour"}
  BY DEF Grains

\* The counter that triggers the cleanup stays a natural number.
LEMMA RemainderIsNat == ASSUME NEW a \in Nat PROVE a % CleanupEvery \in Nat
  BY CleanupAssumption

\* Freshly drained aggregates are aggregates.
LEMMA EmptyType == Empty \in [Grains -> [Events -> Nat]]
  BY DEF Empty, Nothing

\* ... and contain no event.
LEMMA EmptyIsZero == \A g \in Grains : \A e \in Events : Empty[g][e] = 0
  BY DEF Empty, Nothing

\* Adding two multisets of events adds up how often each event occurs.
LEMMA PlusType == ASSUME NEW m \in [Events -> Nat], NEW n \in [Events -> Nat]
                  PROVE  /\ Plus(m, n) \in [Events -> Nat]
                         /\ \A e \in Events : Plus(m, n)[e] = m[e] + n[e]
  BY DEF Plus

\* One added event is a multiset of events.
LEMMA OnlyOneType == ASSUME NEW x \in Events
                     PROVE  OnlyOne(x) \in [Events -> Nat]
  BY DEF OnlyOne

\* What kpi_minute or kpi_hour holds after an upsert, event by event.
LEMMA PostedType == ASSUME TypeOK, NEW g \in Grains
                    PROVE  /\ Posted(g) \in [Grains -> [Events -> Nat]]
                           /\ \A e \in Events : Posted(g)[g][e] = kpi[g][e] + batch[g][e]
                           /\ \A h \in Grains \ {g} : Posted(g)[h] = kpi[h]
  BY PlusType DEF TypeOK, Posted, Plus

\* The places an event can be counted in hold natural numbers.
LEMMA CountTypes == ASSUME TypeOK, NEW g \in Grains, NEW e \in Events
                    PROVE  /\ kpi[g][e] \in Nat /\ batch[g][e] \in Nat
                           /\ agg[g][e] \in Nat /\ Held(e) \in Nat
  BY DEF TypeOK, Held

\* Whatever becomes of an unanswered upsert, the tables keep their type.
LEMMA FlushOutcomeType == ASSUME TypeOK, NEW k \in FlushOutcome
                          PROVE  k \in [Grains -> [Events -> Nat]]
  BY PostedType DEF FlushOutcome, TypeOK

\* The fields of an event lie in the sets derived from Events.
LEMMA FieldsType == ASSUME NEW e \in Events
                    PROVE  e.id \in EventIds /\ e.partition \in Partitions
  BY DEF EventIds, Partitions

-----------------------------------------------------------------------------
\* The process starts with well-typed state.
LEMMA InitType == Init => TypeOK
  BY EmptyType, NoEventAssumption DEF Init, TypeOK, NoKeys

\* Every step keeps the types.
LEMMA TypeStep == TypeOK /\ [Next]_vars => TypeOK'
<1> SUFFICES ASSUME TypeOK, [Next]_vars PROVE TypeOK'
  OBVIOUS
<1> USE DEF TypeOK
<1>1. CASE Tick
  BY <1>1 DEF Tick, kafka, tables, consumer, flusher
<1>2. ASSUME NEW e \in Events, Publish(e) PROVE TypeOK'
  BY <1>2, FieldsType DEF Publish, tables, consumer, flusher
<1>3. CASE AutoCommit
  BY <1>3 DEF AutoCommit, tables, consumer, flusher
<1>4. ASSUME NEW p \in Partitions, Receive(p) PROVE TypeOK'
  <2> DEFINE e == log[p][position[p] + 1]
  <2>1. e \in Events
    BY <1>4 DEF Receive
  <2>2. items' \in [EventIds -> Nat]
    BY <1>4, <2>1, FieldsType, TtlAssumption DEF Receive, Marked
  <2>3. position' \in [Partitions -> Nat]
    BY <1>4 DEF Receive
  <2>4. /\ pc' \in {"idle", "insert", "inserted", "conflict"}
        /\ msg' \in Events \union {NoEvent}
        /\ pc' # "idle" => msg' \in Events
    BY <1>4, <2>1 DEF Receive
  <2> QED
    BY <1>4, <2>2, <2>3, <2>4 DEF Receive, kafka, tables, flusher
<1>5. CASE InsertLands
  BY <1>5 DEF InsertLands, kafka, flusher
<1>6. CASE Count
  <2>1. agg' \in [Grains -> [Events -> Nat]]
    BY <1>6, PlusType, OnlyOneType DEF Count
  <2>2. items' \in [EventIds -> Nat]
    BY <1>6 DEF Count, Swept
  <2>3. processed' \in Nat
    BY <1>6, RemainderIsNat DEF Count
  <2> QED
    BY <1>6, <2>1, <2>2, <2>3 DEF Count, kafka, tables, flusher
<1>7. CASE Skip
  BY <1>7 DEF Skip, kafka, tables, flusher
<1>8. CASE Drain
  BY <1>8, EmptyType DEF Drain, kafka, tables, consumer
<1>9. ASSUME NEW g \in Grains, FlushGrain(g) PROVE TypeOK'
  <2>1. kpi' \in [Grains -> [Events -> Nat]]
    BY <1>9, PostedType DEF FlushGrain
  <2>2. batch' \in [Grains -> [Events -> Nat]]
    BY <1>9 DEF FlushGrain, Nothing
  <2> QED
    BY <1>9, <2>1, <2>2 DEF FlushGrain, kafka, consumer
<1>10. CASE FlushFails
  <2>1. kpi' \in [Grains -> [Events -> Nat]]
    BY <1>10, FlushOutcomeType DEF FlushFails
  <2> QED
    BY <1>10, <2>1, EmptyType DEF FlushFails, kafka, consumer
<1>11. ASSUME Die PROVE  /\ stored' \subseteq Events
                        /\ kpi' \in [Grains -> [Events -> Nat]]
                        /\ items' \in [EventIds -> Nat]
  BY <1>11, FlushOutcomeType DEF Die, InsertOutcome, NoKeys
<1>12. CASE Crash
  BY <1>11, <1>12, EmptyType DEF Crash, Die
<1>13. CASE Shutdown
  BY <1>11, <1>13, EmptyType DEF Shutdown, Die
<1>14. CASE Restart
  BY <1>14 DEF Restart, kafka, tables, consumer, flusher
<1>15. CASE UNCHANGED vars
  BY <1>15 DEF vars, kafka, tables, consumer, flusher
<1> QED
  BY <1>1, <1>2, <1>3, <1>4, <1>5, <1>6, <1>7, <1>8, <1>9, <1>10, <1>12, <1>13,
     <1>14, <1>15 DEF Next, Consume, Flush

\* Every variable keeps the values the code can give it.
THEOREM TypeCorrect == Spec => []TypeOK
<1>1. Init => TypeOK
  BY InitType
<1>2. TypeOK /\ [Next]_vars => TypeOK'
  BY TypeStep
<1> QED
  BY <1>1, <1>2, PTL DEF Spec


-----------------------------------------------------------------------------
(* The inductive invariant.                                                *)

\* The invariant holds when the process starts.
LEMMA InitIInv == Init => IInv
<1> SUFFICES ASSUME Init PROVE IInv
  OBVIOUS
<1>1. TypeOK
  BY InitType
<1>2. UniqueRows
  BY DEF Init, UniqueRows
<1>3. OnePlace
  BY EmptyIsZero DEF Init, OnePlace, Held
<1>4. Twins
  BY DEF Init, Twins, Empty, Grains
<1>5. HourTrails
  BY EmptyIsZero, GrainFacts DEF Init, HourTrails
<1>6. Drained
  BY DEF Init, Drained
<1> QED
  BY <1>1, <1>2, <1>3, <1>4, <1>5, <1>6 DEF IInv

\* The insert is the only step that adds a fact, and it adds a new row.
LEMMA InsertKeeps == ASSUME IInv, InsertLands
                     PROVE  UniqueRows' /\ OnePlace' /\ Twins' /\ Drained' /\ HourTrails'
<1> USE DEF IInv
<1>1. msg \in Events
  BY DEF InsertLands, TypeOK
<1>2. UniqueRows'
  BY DEF InsertLands, UniqueRows, RowTaken
<1>3. UNCHANGED <<kpi, batch, agg, flush, msg>>
  BY DEF InsertLands, flusher
<1>4. CASE RowTaken(msg)
  BY <1>2, <1>3, <1>4 DEF InsertLands, OnePlace, Held, Twins, Drained, HourTrails
<1>5. CASE ~RowTaken(msg)
  <2>1. msg \notin stored /\ stored' = stored \union {msg} /\ pc' = "inserted" /\ pc = "insert"
    BY <1>5 DEF InsertLands, RowTaken
  <2>2. OnePlace'
    <3> SUFFICES ASSUME NEW g \in Grains, NEW e \in Events
                 PROVE  kpi[g][e] + batch[g][e] + agg[g][e] + Held(e)'
                          <= IF e \in stored' THEN 1 ELSE 0
      BY <1>3 DEF OnePlace
    <3>1. kpi[g][e] \in Nat /\ batch[g][e] \in Nat /\ agg[g][e] \in Nat
      BY CountTypes
    <3>2. kpi[g][e] + batch[g][e] + agg[g][e] + Held(e) <= IF e \in stored THEN 1 ELSE 0
      BY DEF OnePlace
    <3>3. Held(e) = 0 /\ Held(e)' = IF e = msg THEN 1 ELSE 0
      BY <2>1, <1>3 DEF Held
    <3> QED
      BY <2>1, <3>1, <3>2, <3>3
  <2> QED
    BY <1>2, <1>3, <2>2 DEF Twins, Drained, HourTrails
<1> QED
  BY <1>4, <1>5

\* The event moves from process_message into both aggregates.
LEMMA CountKeeps == ASSUME IInv, Count
                    PROVE  UniqueRows' /\ OnePlace' /\ Twins' /\ Drained' /\ HourTrails'
<1> USE DEF IInv
<1>1. msg \in Events
  BY DEF Count, TypeOK
<1>2. UNCHANGED <<stored, kpi, batch, flush>>
  BY DEF Count, tables, flusher
<1>3. \A g \in Grains : \A e \in Events :
         agg'[g][e] = agg[g][e] + (IF e = msg THEN 1 ELSE 0)
  <2> SUFFICES ASSUME NEW g \in Grains, NEW e \in Events
               PROVE  agg'[g][e] = agg[g][e] + (IF e = msg THEN 1 ELSE 0)
    OBVIOUS
  <2>1. agg'[g] = Plus(agg[g], OnlyOne(msg))
    BY DEF Count
  <2>2. OnlyOne(msg) \in [Events -> Nat] /\ agg[g] \in [Events -> Nat]
    BY <1>1, OnlyOneType DEF TypeOK
  <2>3. agg'[g][e] = agg[g][e] + OnlyOne(msg)[e]
    BY <2>1, <2>2, PlusType
  <2> QED
    BY <2>3 DEF OnlyOne
<1>4. \A e \in Events : Held(e) = (IF e = msg THEN 1 ELSE 0) /\ Held(e)' = 0
  BY DEF Count, Held
<1>5. OnePlace'
  <2> SUFFICES ASSUME NEW g \in Grains, NEW e \in Events
               PROVE  kpi[g][e] + batch[g][e] + agg'[g][e] + Held(e)'
                        <= IF e \in stored THEN 1 ELSE 0
    BY <1>2 DEF OnePlace
  <2>1. kpi[g][e] \in Nat /\ batch[g][e] \in Nat /\ agg[g][e] \in Nat
    BY CountTypes
  <2>2. kpi[g][e] + batch[g][e] + agg[g][e] + Held(e) <= IF e \in stored THEN 1 ELSE 0
    BY DEF OnePlace
  <2> QED
    BY <1>3, <1>4, <2>1, <2>2
<1>6. agg'["hour"] = agg'["minute"]
  BY GrainFacts DEF Count, Twins
<1> QED
  BY <1>2, <1>5, <1>6 DEF UniqueRows, Twins, Drained, HourTrails

\* A drain moves the aggregates into the batch, and both were disjoint.
LEMMA DrainKeeps == ASSUME IInv, Drain
                    PROVE  UniqueRows' /\ OnePlace' /\ Twins' /\ Drained' /\ HourTrails'
<1> USE DEF IInv
<1>1. UNCHANGED <<stored, kpi, pc, msg>> /\ batch' = agg /\ agg' = Empty /\ flush' = "minute"
  BY DEF Drain, tables, consumer
<1>2. OnePlace'
  <2> SUFFICES ASSUME NEW g \in Grains, NEW e \in Events
               PROVE  kpi[g][e] + agg[g][e] + Empty[g][e] + Held(e)
                        <= IF e \in stored THEN 1 ELSE 0
    BY <1>1 DEF OnePlace, Held
  <2>1. /\ kpi[g][e] \in Nat /\ batch[g][e] \in Nat /\ agg[g][e] \in Nat
        /\ Held(e) \in Nat /\ Empty[g][e] = 0
    BY EmptyIsZero, CountTypes
  <2>2. kpi[g][e] + batch[g][e] + agg[g][e] + Held(e) <= IF e \in stored THEN 1 ELSE 0
    BY DEF OnePlace
  <2> QED
    BY <2>1, <2>2
<1>3. Twins'
  BY <1>1, GrainFacts DEF Twins, Empty
<1>4. HourTrails'
  <2>1. \A e \in Events : /\ kpi["hour"][e] \in Nat /\ batch["hour"][e] \in Nat
                          /\ kpi["minute"][e] \in Nat
    BY GrainFacts, CountTypes
  <2>2. \A e \in Events : kpi["hour"][e] <= kpi["minute"][e]
    BY <2>1 DEF HourTrails
  <2>3. \A e \in Events : kpi["hour"][e] + 0 <= kpi["minute"][e]
    BY <2>1, <2>2
  <2> QED
    BY <1>1, <2>3 DEF HourTrails
<1> QED
  BY <1>1, <1>2, <1>3, <1>4 DEF UniqueRows, Drained

\* A batch moves from memory into its table; the hour follows the minute.
LEMMA FlushKeeps == ASSUME IInv, NEW g \in Grains, FlushGrain(g)
                    PROVE  UniqueRows' /\ OnePlace' /\ Twins' /\ Drained' /\ HourTrails'
<1> USE DEF IInv
<1>1. UNCHANGED <<stored, agg, pc, msg>> /\ kpi' = Posted(g) /\ flush = g
  BY DEF FlushGrain, consumer
<1>2. \A e \in Events : kpi'[g][e] = kpi[g][e] + batch[g][e] /\ batch'[g][e] = 0
  <2>1. batch'[g] = Nothing
    BY DEF FlushGrain, TypeOK
  <2> QED
    BY <1>1, <2>1, PostedType DEF Nothing
<1>3. \A h \in Grains \ {g} : kpi'[h] = kpi[h] /\ batch'[h] = batch[h]
  <2>1. \A h \in Grains \ {g} : batch'[h] = batch[h]
    BY DEF FlushGrain, TypeOK
  <2> QED
    BY <1>1, <2>1, PostedType
<1>4. OnePlace'
  <2> SUFFICES ASSUME NEW h \in Grains, NEW e \in Events
               PROVE  kpi'[h][e] + batch'[h][e] + agg[h][e] + Held(e)
                        <= IF e \in stored THEN 1 ELSE 0
    BY <1>1 DEF OnePlace, Held
  <2>1. kpi[h][e] \in Nat /\ batch[h][e] \in Nat /\ agg[h][e] \in Nat /\ Held(e) \in Nat
    BY CountTypes
  <2>2. kpi[h][e] + batch[h][e] + agg[h][e] + Held(e) <= IF e \in stored THEN 1 ELSE 0
    BY DEF OnePlace
  <2>3. kpi'[h][e] + batch'[h][e] = kpi[h][e] + batch[h][e]
    <3>1. CASE h = g
      BY <1>2, <2>1, <3>1
    <3>2. CASE h # g
      BY <1>3, <3>2
    <3> QED
      BY <3>1, <3>2
  <2> QED
    BY <2>1, <2>2, <2>3
<1>5. Twins'
  BY <1>1, GrainFacts DEF Twins, FlushGrain
<1>6. HourTrails'
  <2> SUFFICES ASSUME NEW e \in Events
               PROVE  kpi'["hour"][e] + (IF flush' = "hour" THEN batch'["hour"][e] ELSE 0)
                        <= kpi'["minute"][e]
    BY DEF HourTrails
  <2>1. /\ kpi["hour"][e] \in Nat /\ batch["hour"][e] \in Nat
        /\ kpi["minute"][e] \in Nat /\ batch["minute"][e] \in Nat
    BY GrainFacts, CountTypes
  <2>2. kpi["hour"][e] + (IF flush = "hour" THEN batch["hour"][e] ELSE 0)
          <= kpi["minute"][e]
    BY DEF HourTrails
  <2>3. CASE g = "minute"
    <3>1. batch["hour"][e] = batch["minute"][e]
      BY <1>1, <2>3 DEF Twins
    <3>2. /\ kpi'["hour"][e] = kpi["hour"][e] /\ batch'["hour"][e] = batch["hour"][e]
          /\ kpi'["minute"][e] = kpi["minute"][e] + batch["minute"][e]
          /\ flush' = "hour"
      BY <1>2, <1>3, <2>3, GrainFacts DEF FlushGrain
    <3> QED
      BY <1>1, <2>1, <2>2, <2>3, <3>1, <3>2
  <2>4. CASE g = "hour"
    <3>1. /\ kpi'["hour"][e] = kpi["hour"][e] + batch["hour"][e]
          /\ kpi'["minute"][e] = kpi["minute"][e]
          /\ flush' = "sleep"
      BY <1>2, <1>3, <2>4, GrainFacts DEF FlushGrain
    <3> QED
      BY <1>1, <2>1, <2>2, <2>4, <3>1
  <2> QED
    BY <2>3, <2>4, GrainFacts
<1>7. Drained'
  <2>1. CASE g = "minute"
    BY <1>1, <2>1, GrainFacts DEF FlushGrain, Drained, TypeOK
  <2>2. CASE g = "hour"
    <3>1. batch'["minute"] = Nothing /\ batch'["hour"] = Nothing
      BY <1>1, <2>2, GrainFacts DEF FlushGrain, Drained, TypeOK
    <3>2. batch' \in [Grains -> [Events -> Nat]]
      BY DEF FlushGrain, TypeOK, Nothing
    <3>3. batch' = Empty
      BY <3>1, <3>2, GrainFacts DEF Empty
    <3> QED
      BY <1>1, <2>2, <3>3 DEF FlushGrain, Drained
  <2> QED
    BY <2>1, <2>2, GrainFacts
<1> QED
  BY <1>1, <1>4, <1>5, <1>6, <1>7 DEF UniqueRows

\* A failed flush and a death share their effect on the tables: the statements in
\* flight land or do not, and what waited in memory is gone, all of it or the batch.

\* An upsert nobody saw the answer of still counts an event at most once.
LEMMA PostKeepsPlace ==
    ASSUME IInv, NEW k \in FlushOutcome, NEW g \in Grains, NEW e \in Events
    PROVE  k[g][e] + agg[g][e] + Held(e) <= IF e \in stored THEN 1 ELSE 0
<1> USE DEF IInv
<1>1. /\ kpi[g][e] \in Nat /\ batch[g][e] \in Nat
      /\ agg[g][e] \in Nat /\ Held(e) \in Nat
  BY CountTypes
<1>2. kpi[g][e] + batch[g][e] + agg[g][e] + Held(e) <= IF e \in stored THEN 1 ELSE 0
  BY DEF OnePlace
<1>3. k[g][e] = kpi[g][e] \/ k[g][e] = kpi[g][e] + batch[g][e]
  BY PostedType DEF FlushOutcome
<1> QED
  BY <1>1, <1>2, <1>3

\* ... and does not let the hour overtake the minute.
LEMMA PostKeepsHour ==
    ASSUME IInv, NEW k \in FlushOutcome, NEW e \in Events
    PROVE  k["hour"][e] + 0 <= k["minute"][e]
<1> USE DEF IInv
<1>1. /\ kpi["hour"][e] \in Nat /\ batch["hour"][e] \in Nat
      /\ kpi["minute"][e] \in Nat /\ batch["minute"][e] \in Nat
  BY GrainFacts, CountTypes
<1>2. kpi["hour"][e] + (IF flush = "hour" THEN batch["hour"][e] ELSE 0) <= kpi["minute"][e]
  BY DEF HourTrails
<1>3. CASE k = kpi
  BY <1>1, <1>2, <1>3
<1>4. CASE flush = "minute" /\ k = Posted("minute")
  <2>1. k["hour"][e] = kpi["hour"][e] /\ k["minute"][e] = kpi["minute"][e] + batch["minute"][e]
    BY <1>4, PostedType, GrainFacts
  <2> QED
    BY <1>1, <1>2, <1>4, <2>1
<1>5. CASE flush = "hour" /\ k = Posted("hour")
  <2>1. k["hour"][e] = kpi["hour"][e] + batch["hour"][e] /\ k["minute"][e] = kpi["minute"][e]
    BY <1>5, PostedType, GrainFacts
  <2> QED
    BY <1>1, <1>2, <1>5, <2>1
<1> QED
  BY <1>3, <1>4, <1>5, GrainFacts DEF FlushOutcome

\* The flush task dies: its batch is gone, written or not.
LEMMA FlushFailsKeeps == ASSUME IInv, FlushFails
                         PROVE  UniqueRows' /\ OnePlace' /\ Twins' /\ Drained' /\ HourTrails'
<1>1. /\ UNCHANGED <<stored, agg, pc, msg>>
      /\ kpi' \in FlushOutcome /\ batch' = Empty /\ flush' = "dead"
  BY DEF FlushFails, consumer
<1>2. OnePlace'
  <2> SUFFICES ASSUME NEW g \in Grains, NEW e \in Events
               PROVE  kpi'[g][e] + Empty[g][e] + agg[g][e] + Held(e)
                        <= IF e \in stored THEN 1 ELSE 0
    BY <1>1 DEF OnePlace, Held
  <2>1. kpi'[g][e] \in Nat /\ agg[g][e] \in Nat /\ Held(e) \in Nat /\ Empty[g][e] = 0
    BY <1>1, CountTypes, FlushOutcomeType, EmptyIsZero DEF IInv
  <2>2. kpi'[g][e] + agg[g][e] + Held(e) <= IF e \in stored THEN 1 ELSE 0
    BY <1>1, PostKeepsPlace
  <2> QED
    BY <2>1, <2>2
<1>3. HourTrails'
  BY <1>1, PostKeepsHour DEF HourTrails
<1> QED
  BY <1>1, <1>2, <1>3 DEF IInv, UniqueRows, Twins, Drained

\* The process dies: all memory is gone, statements in flight land or not.
LEMMA DieKeeps == ASSUME IInv, Die
                  PROVE  UniqueRows' /\ OnePlace' /\ Twins' /\ Drained' /\ HourTrails'
<1>1. /\ stored' \in InsertOutcome /\ kpi' \in FlushOutcome
      /\ batch' = Empty /\ agg' = Empty /\ flush' = "sleep" /\ pc' = "idle"
  BY DEF Die
<1>2. UniqueRows' /\ stored \subseteq stored'
  BY <1>1 DEF InsertOutcome, UniqueRows, RowTaken, IInv
<1>3. OnePlace'
  <2> SUFFICES ASSUME NEW g \in Grains, NEW e \in Events
               PROVE  kpi'[g][e] + Empty[g][e] + Empty[g][e] + 0
                        <= IF e \in stored' THEN 1 ELSE 0
    BY <1>1 DEF OnePlace, Held
  <2>1. kpi'[g][e] \in Nat /\ agg[g][e] \in Nat /\ Held(e) \in Nat /\ Empty[g][e] = 0
    BY <1>1, CountTypes, FlushOutcomeType, EmptyIsZero DEF IInv
  <2>2. kpi'[g][e] + agg[g][e] + Held(e) <= IF e \in stored THEN 1 ELSE 0
    BY <1>1, PostKeepsPlace
  <2> QED
    BY <1>2, <2>1, <2>2
<1>4. HourTrails'
  BY <1>1, PostKeepsHour DEF HourTrails
<1>5. Twins'
  BY <1>1, GrainFacts DEF Twins, Empty
<1> QED
  BY <1>1, <1>2, <1>3, <1>4, <1>5 DEF Drained

\* Steps that touch neither the tables nor the way to them.
LEMMA OthersKeep == ASSUME IInv, UNCHANGED <<stored, kpi, batch, agg, flush>>,
                           \/ pc # "inserted" /\ pc' # "inserted"
                           \/ UNCHANGED <<pc, msg>>
                    PROVE  UniqueRows' /\ OnePlace' /\ Twins' /\ Drained' /\ HourTrails'
  BY DEF IInv, UniqueRows, OnePlace, Held, Twins, Drained, HourTrails

\* Every step keeps the invariant.
LEMMA StepIInv == IInv /\ [Next]_vars => IInv'
<1> SUFFICES ASSUME IInv, [Next]_vars PROVE IInv'
  OBVIOUS
<1>1. TypeOK'
  BY TypeStep DEF IInv
<1>2. UniqueRows' /\ OnePlace' /\ Twins' /\ Drained' /\ HourTrails'
  <2>1. CASE Tick
    BY <2>1, OthersKeep DEF Tick, tables, consumer, flusher
  <2>2. ASSUME NEW e \in Events, Publish(e)
        PROVE  UniqueRows' /\ OnePlace' /\ Twins' /\ Drained' /\ HourTrails'
    BY <2>2, OthersKeep DEF Publish, tables, consumer, flusher
  <2>3. CASE AutoCommit
    BY <2>3, OthersKeep DEF AutoCommit, tables, consumer, flusher
  <2>4. ASSUME NEW p \in Partitions, Receive(p)
        PROVE  UniqueRows' /\ OnePlace' /\ Twins' /\ Drained' /\ HourTrails'
    BY <2>4, OthersKeep DEF Receive, tables, flusher
  <2>5. CASE InsertLands
    BY <2>5, InsertKeeps
  <2>6. CASE Count
    BY <2>6, CountKeeps
  <2>7. CASE Skip
    BY <2>7, OthersKeep DEF Skip, tables, flusher
  <2>8. CASE Drain
    BY <2>8, DrainKeeps
  <2>9. ASSUME NEW g \in Grains, FlushGrain(g)
        PROVE  UniqueRows' /\ OnePlace' /\ Twins' /\ Drained' /\ HourTrails'
    BY <2>9, FlushKeeps
  <2>10. CASE FlushFails
    BY <2>10, FlushFailsKeeps
  <2>11. CASE Crash \/ Shutdown
    BY <2>11, DieKeeps DEF Crash, Shutdown
  <2>12. CASE Restart
    BY <2>12, OthersKeep DEF Restart, tables, consumer, flusher
  <2>13. CASE UNCHANGED vars
    BY <2>13, OthersKeep DEF vars, tables, consumer, flusher
  <2> QED
    BY <2>1, <2>2, <2>3, <2>4, <2>5, <2>6, <2>7, <2>8, <2>9, <2>10, <2>11, <2>12,
       <2>13 DEF Next, Consume, Flush
<1> QED
  BY <1>1, <1>2 DEF IInv

\* Every fact and every count stays in its place, through any interleaving of the two
\* tasks, any failed statement and any number of deaths.
THEOREM Invariance == Spec => []IInv
<1>1. Init => IInv
  BY InitIInv
<1>2. IInv /\ [Next]_vars => IInv'
  BY StepIInv
<1> QED
  BY <1>1, <1>2, PTL DEF Spec

\* What a table counts is a stored event, counted once and nowhere else.
LEMMA CountedOnce == ASSUME IInv, NEW g \in Grains, NEW e \in Events, kpi[g][e] > 0
                     PROVE  e \in stored /\ kpi[g][e] = 1
<1>1. kpi[g][e] + batch[g][e] + agg[g][e] + Held(e) <= IF e \in stored THEN 1 ELSE 0
  BY DEF IInv, OnePlace
<1> QED
  BY <1>1, CountTypes DEF IInv

\* No aggregate contains a row twice, whatever is sent, delivered or admitted again.
THEOREM NoDoubleCountHolds == Spec => []NoDoubleCount
<1>1. IInv => NoDoubleCount
  BY CountedOnce DEF NoDoubleCount, IInv, UniqueRows
<1> QED
  BY <1>1, Invariance, PTL

\* No aggregate contains an event that is not a fact.
THEOREM KpiOnlyOfFactsHolds == Spec => []KpiOnlyOfFacts
<1>1. IInv => KpiOnlyOfFacts
  BY CountedOnce DEF KpiOnlyOfFacts
<1> QED
  BY <1>1, Invariance, PTL

\* The hour shows nothing the minute does not show, whatever is lost.
THEOREM HourNeverAheadHolds == Spec => []HourNeverAheadOfMinute
<1>1. IInv => HourNeverAheadOfMinute
  <2> SUFFICES ASSUME IInv, NEW e \in Events PROVE kpi["hour"][e] <= kpi["minute"][e]
    BY DEF HourNeverAheadOfMinute
  <2>1. /\ kpi["hour"][e] \in Nat /\ batch["hour"][e] \in Nat
        /\ kpi["minute"][e] \in Nat
    BY CountTypes, GrainFacts DEF IInv
  <2>2. kpi["hour"][e] + (IF flush = "hour" THEN batch["hour"][e] ELSE 0)
          <= kpi["minute"][e]
    BY DEF IInv, HourTrails
  <2> QED
    BY <2>1, <2>2
<1> QED
  BY <1>1, Invariance, PTL
=============================================================================

----------------------- MODULE StreamProcessorRefinement -----------------------
(***************************************************************************)
(* The stream processor implements the ledger.                             *)
(*                                                                         *)
(* Each step that is not a failure is a Record (the insert of a new row),  *)
(* a Post (a flush statement) or a stutter; a failed flush and a death are *)
(* a Fail.  OnlyFailuresForget follows from the same case split.           *)
(***************************************************************************)
EXTENDS StreamProcessorProofs

\* What OnePlace says about one event, spelt out.
LEMMA Places ==
    ASSUME IInv, NEW g \in Grains, NEW e \in Events
    PROVE  /\ OnItsWay(g, e) => kpi[g][e] = 0 /\ e \in stored
           /\ kpi[g][e] > 0 => kpi[g][e] = 1 /\ e \in stored /\ ~OnItsWay(g, e)
           /\ batch[g][e] > 0 => batch[g][e] = 1 /\ agg[g][e] = 0
                                 /\ ~(pc = "inserted" /\ msg = e)
<1>1. kpi[g][e] + batch[g][e] + agg[g][e] + Held(e) <= IF e \in stored THEN 1 ELSE 0
  BY DEF IInv, OnePlace
<1>2. /\ kpi[g][e] \in Nat /\ batch[g][e] \in Nat /\ agg[g][e] \in Nat
      /\ Held(e) \in {0, 1} /\ (Held(e) = 1 <=> pc = "inserted" /\ msg = e)
  BY CountTypes DEF IInv, Held
<1> QED
  BY <1>1, <1>2 DEF OnItsWay

\* The refinement mapping, applied to members.
LEMMA Mapping ==
    /\ \A g \in Grains : /\ Owed[g] = {e \in Events : OnItsWay(g, e)}
                         /\ Counted[g] = {e \in Events : kpi[g][e] = 1}
    /\ Owed \in [Grains -> SUBSET Events] /\ Counted \in [Grains -> SUBSET Events]
    /\ Ledger!Grains = Grains
  BY DEF Owed, Counted, Ledger!Grains, Grains

\* Two states with the same facts, the same counts and the same events on their way
\* are one state of the ledger.
LEMMA Stutter ==
    ASSUME UNCHANGED <<stored, kpi>>,
           \A g \in Grains : \A e \in Events : OnItsWay(g, e)' <=> OnItsWay(g, e)
    PROVE  UNCHANGED Ledger!vars
<1>1. Owed' = Owed
  BY DEF Owed
<1>2. Counted' = Counted
  BY DEF Counted
<1> QED
  BY <1>1, <1>2 DEF Ledger!vars

\* The empty tables and memory are the empty ledger.
LEMMA InitRefines == Init => Ledger!Init
  BY EmptyIsZero, Mapping DEF Init, Ledger!Init, Owed, Counted, OnItsWay, Ledger!Grains, Grains

\* The insert of a new row records it and owes it to both grains.
LEMMA InsertRefines ==
    ASSUME IInv, InsertLands
    PROVE  UNCHANGED Ledger!vars \/ \E e \in Events : Ledger!Record(e)
<1>1. msg \in Events /\ UNCHANGED <<kpi, agg, batch, msg>> /\ pc = "insert"
  BY DEF InsertLands, IInv, TypeOK, flusher
<1>2. CASE RowTaken(msg)
  BY <1>1, <1>2, Stutter DEF InsertLands, OnItsWay
<1>3. CASE ~RowTaken(msg)
  <2>1. stored' = stored \union {msg} /\ pc' = "inserted"
    BY <1>3 DEF InsertLands
  <2>2. Ledger!Fresh(msg)
    BY <1>3 DEF RowTaken, Ledger!Fresh
  <2>3. \A g \in Grains : \A e \in Events : OnItsWay(g, e)' <=> OnItsWay(g, e) \/ e = msg
    BY <1>1, <2>1 DEF OnItsWay
  <2>4. Owed' = [g \in Grains |-> Owed[g] \union {msg}]
    BY <1>1, <2>3 DEF Owed
  <2>5. Counted' = Counted
    BY <1>1 DEF Counted
  <2>6. Ledger!Record(msg)
    BY <2>1, <2>2, <2>4, <2>5, Mapping DEF Ledger!Record
  <2> QED
    BY <1>1, <2>6
<1> QED
  BY <1>2, <1>3

\* Adding an inserted event to the aggregates changes nothing in the ledger.
LEMMA CountRefines == ASSUME IInv, Count PROVE UNCHANGED Ledger!vars
<1>1. msg \in Events /\ UNCHANGED <<stored, kpi, batch>> /\ pc = "inserted" /\ pc' = "idle"
  BY DEF Count, IInv, TypeOK, tables, flusher
<1>2. ASSUME NEW g \in Grains, NEW e \in Events
      PROVE  OnItsWay(g, e)' <=> OnItsWay(g, e)
  <2>1. agg'[g] = Plus(agg[g], OnlyOne(msg))
    BY DEF Count
  <2>2. agg[g] \in [Events -> Nat]
    BY DEF IInv, TypeOK
  <2>3. agg'[g][e] = agg[g][e] + OnlyOne(msg)[e]
    BY <1>1, <2>1, <2>2, OnlyOneType, PlusType
  <2>4. agg[g][e] \in Nat /\ OnlyOne(msg)[e] = IF e = msg THEN 1 ELSE 0
    BY <2>2 DEF OnlyOne
  <2>5. agg'[g][e] > 0 <=> agg[g][e] > 0 \/ e = msg
    BY <2>3, <2>4
  <2> QED
    BY <1>1, <2>5 DEF OnItsWay
<1> QED
  BY <1>1, <1>2, Stutter

\* Nor does draining them: what is owed moves from one place to another.
LEMMA DrainRefines == ASSUME IInv, Drain PROVE UNCHANGED Ledger!vars
<1>1. /\ UNCHANGED <<stored, kpi, pc, msg>>
      /\ batch = Empty /\ batch' = agg /\ agg' = Empty
  BY DEF Drain, IInv, Drained, tables, consumer
<1>2. ASSUME NEW g \in Grains, NEW e \in Events
      PROVE  OnItsWay(g, e)' <=> OnItsWay(g, e)
  BY <1>1, EmptyIsZero DEF OnItsWay
<1> QED
  BY <1>1, <1>2, Stutter

-----------------------------------------------------------------------------
(* What a flush statement writes.                                          *)

Written(g) == {e \in Events : batch[g][e] > 0}

\* What a flush writes is owed, and for the hour already counted by the minute.
LEMMA WrittenIsPostable == ASSUME IInv, NEW g \in Grains, flush = g
                           PROVE  Ledger!Postable(g, Written(g))
<1>1. Written(g) \subseteq Owed[g]
  BY Mapping DEF Written, OnItsWay
<1>2. ASSUME g = "hour", NEW e \in Written(g) PROVE e \in Counted["minute"]
  <2>1. e \in Events /\ batch["hour"][e] > 0
    BY <1>2 DEF Written
  <2>2. /\ kpi["hour"][e] \in Nat /\ batch["hour"][e] \in Nat
        /\ kpi["minute"][e] \in Nat
    BY <2>1, CountTypes, GrainFacts DEF IInv
  <2>3. kpi["hour"][e] + batch["hour"][e] <= kpi["minute"][e]
    BY <1>2, <2>1 DEF IInv, HourTrails
  <2>4. kpi["minute"][e] > 0
    BY <2>1, <2>2, <2>3
  <2> QED
    BY <2>1, <2>4, Places, Mapping, GrainFacts
<1> QED
  BY <1>1, <1>2 DEF Ledger!Postable

\* What a flush writes is what it newly counts.
LEMMA WrittenIsCounted ==
    ASSUME IInv, NEW g \in Grains, kpi' = Posted(g)
    PROVE  Counted' = [Counted EXCEPT ![g] = @ \union Written(g)]
<1>1. ASSUME NEW e \in Events
      PROVE  kpi'[g][e] = 1 <=> kpi[g][e] = 1 \/ batch[g][e] > 0
  <2>1. kpi'[g][e] = kpi[g][e] + batch[g][e]
    BY PostedType DEF IInv
  <2>2. kpi[g][e] \in Nat /\ batch[g][e] \in Nat
    BY CountTypes DEF IInv
  <2>3. kpi[g][e] + batch[g][e] + agg[g][e] + Held(e) <= IF e \in stored THEN 1 ELSE 0
    BY DEF IInv, OnePlace
  <2>4. agg[g][e] \in Nat /\ Held(e) \in Nat
    BY CountTypes DEF IInv
  <2> QED
    BY <2>1, <2>2, <2>3, <2>4
<1>2. Counted'[g] = Counted[g] \union Written(g)
  BY <1>1 DEF Counted, Written
<1>3. \A h \in Grains \ {g} : Counted'[h] = Counted[h]
  BY PostedType DEF Counted, IInv
<1> QED
  BY <1>2, <1>3 DEF Counted

\* A flush of one grain posts what it writes.
LEMMA FlushRefines == ASSUME IInv, NEW g \in Grains, FlushGrain(g)
                      PROVE  Ledger!Post(g, Written(g))
<1>1. UNCHANGED <<stored, agg, pc, msg>> /\ kpi' = Posted(g) /\ flush = g
  BY DEF FlushGrain, consumer
<1>2. /\ \A e \in Events : batch'[g][e] = 0
      /\ \A h \in Grains \ {g} : batch'[h] = batch[h]
  BY DEF FlushGrain, IInv, TypeOK, Nothing
<1>3. Owed'[g] = Owed[g] \ Written(g)
  <2> SUFFICES ASSUME NEW e \in Events
               PROVE  OnItsWay(g, e)' <=> OnItsWay(g, e) /\ ~(batch[g][e] > 0)
    BY DEF Owed, Written
  <2> QED
    BY <1>1, <1>2, Places DEF OnItsWay
<1>4. \A h \in Grains \ {g} : Owed'[h] = Owed[h]
  BY <1>1, <1>2 DEF Owed, OnItsWay
<1>5. Owed' = [Owed EXCEPT ![g] = @ \ Written(g)]
  BY <1>3, <1>4 DEF Owed
<1> QED
  BY <1>1, <1>5, WrittenIsPostable, WrittenIsCounted DEF Ledger!Post

-----------------------------------------------------------------------------
(* Failures.                                                               *)

\* A statement in flight posts its grain's batch or nothing at all.
LEMMA FlushOutcomePosts ==
    ASSUME IInv, kpi' \in FlushOutcome
    PROVE  \E g \in Grains : \E S \in SUBSET Events :
              /\ Ledger!Postable(g, S)
              /\ Counted' = [Counted EXCEPT ![g] = @ \union S]
              /\ \A e \in S : batch[g][e] > 0 /\ kpi'[g][e] > 0
<1>1. CASE kpi' = kpi
  <2>1. Ledger!Postable("minute", {}) /\ {} \in SUBSET Events
    BY DEF Ledger!Postable
  <2>2. Counted' = [Counted EXCEPT !["minute"] = @ \union {}]
    BY <1>1 DEF Counted
  <2> QED
    BY <2>1, <2>2, GrainFacts
<1>2. CASE flush \in Grains /\ kpi' = Posted(flush)
  <2> DEFINE g == flush
             S == Written(g)
  <2>1. Ledger!Postable(g, S) /\ Counted' = [Counted EXCEPT ![g] = @ \union S]
    BY <1>2, WrittenIsPostable, WrittenIsCounted
  <2>2. S \in SUBSET Events
    BY DEF Written
  <2>3. ASSUME NEW e \in S PROVE batch[g][e] > 0 /\ kpi'[g][e] > 0
    <3>1. e \in Events /\ batch[g][e] > 0
      BY DEF Written
    <3>2. kpi'[g][e] = kpi[g][e] + batch[g][e]
      BY <1>2, <3>1, PostedType DEF IInv
    <3>3. kpi[g][e] \in Nat /\ batch[g][e] \in Nat
      BY <1>2, <3>1, CountTypes DEF IInv
    <3> QED
      BY <3>1, <3>2, <3>3
  <2> QED
    BY <1>2, <2>1, <2>2, <2>3
<1> QED
  BY <1>1, <1>2 DEF FlushOutcome

\* The batch is gone; what waits in the Aggregates or in process_message stays owed.
LEMMA FlushFailsRefines ==
    ASSUME IInv, FlushFails
    PROVE  \E g \in Grains, S \in SUBSET Events : Ledger!Fail({}, g, S)
<1>1. /\ UNCHANGED <<stored, agg, pc, msg>>
      /\ kpi' \in FlushOutcome /\ batch' = Empty
  BY DEF FlushFails, consumer
<1>2. PICK g \in Grains, S \in SUBSET Events :
              /\ Ledger!Postable(g, S)
              /\ Counted' = [Counted EXCEPT ![g] = @ \union S]
              /\ \A e \in S : batch[g][e] > 0 /\ kpi'[g][e] > 0
  BY <1>1, FlushOutcomePosts
<1>3. ASSUME NEW h \in Grains
      PROVE  Owed'[h] \subseteq Owed[h] \ (IF h = g THEN S ELSE {})
  <2> SUFFICES ASSUME NEW e \in Owed'[h]
               PROVE  e \in Owed[h] /\ ~(h = g /\ e \in S)
    OBVIOUS
  <2>1. e \in Events /\ OnItsWay(h, e)'
    BY DEF Owed
  <2>2. (pc = "inserted" /\ msg = e) \/ agg[h][e] > 0
    BY <1>1, <2>1, EmptyIsZero DEF OnItsWay
  <2>3. e \in Owed[h]
    BY <2>1, <2>2 DEF Owed, OnItsWay
  <2>4. ~(h = g /\ e \in S)
    BY <1>2, <2>1, <2>2, Places, CountTypes DEF IInv
  <2> QED
    BY <2>3, <2>4
<1>4. Owed' \in [Grains -> SUBSET Events]
  BY DEF Owed
<1> QED
  BY <1>1, <1>2, <1>3, <1>4, Mapping DEF Ledger!Fail

\* Nothing waits any more; the insert in flight may leave a fact that is never owed.
LEMMA DieRefines ==
    ASSUME IInv, Die
    PROVE  \E F \in SUBSET Events, g \in Grains, S \in SUBSET Events : Ledger!Fail(F, g, S)
<1>1. /\ stored' \in InsertOutcome /\ kpi' \in FlushOutcome
      /\ batch' = Empty /\ agg' = Empty /\ pc' = "idle"
  BY DEF Die
<1>2. PICK g \in Grains, S \in SUBSET Events :
              /\ Ledger!Postable(g, S)
              /\ Counted' = [Counted EXCEPT ![g] = @ \union S]
              /\ \A e \in S : batch[g][e] > 0 /\ kpi'[g][e] > 0
  BY <1>1, FlushOutcomePosts
<1>3. Owed' \in [Grains -> SUBSET Events]
  BY DEF Owed
<1>4. ASSUME NEW h \in Grains PROVE Owed'[h] = {}
  BY <1>1, EmptyIsZero DEF Owed, OnItsWay
<1>5. \E F \in SUBSET Events : /\ \A e \in F : Ledger!Fresh(e) /\ F = {e}
                               /\ stored' = stored \union F
  <2>1. CASE stored' = stored
    <3>1. {} \in SUBSET Events /\ stored' = stored \union {}
      BY <2>1
    <3> QED
      BY <3>1
  <2>2. CASE stored' = stored \union {msg} /\ pc = "insert" /\ ~RowTaken(msg)
    <3>1. Ledger!Fresh(msg) /\ {msg} \in SUBSET Events
      BY <2>2 DEF RowTaken, Ledger!Fresh, IInv, TypeOK
    <3> QED
      BY <2>2, <3>1
  <2> QED
    BY <1>1, <2>1, <2>2 DEF InsertOutcome
<1> QED
  BY <1>2, <1>3, <1>4, <1>5, Mapping DEF Ledger!Fail

-----------------------------------------------------------------------------
\* Steps that touch neither the tables nor the way to them.
LEMMA OthersRefine == ASSUME UNCHANGED <<stored, kpi, batch, agg>>,
                             \/ pc # "inserted" /\ pc' # "inserted"
                             \/ UNCHANGED <<pc, msg>>
                      PROVE  UNCHANGED Ledger!vars
  BY Stutter DEF OnItsWay

\* A step that is not a failure records, posts or stutters.
LEMMA WorkRefines ==
    ASSUME IInv, [Next]_vars, ~FlushFails, ~Crash, ~Shutdown
    PROVE  \/ UNCHANGED Ledger!vars
           \/ \E e \in Events : Ledger!Record(e)
           \/ \E g \in Grains, S \in SUBSET Events : Ledger!Post(g, S)
<1>1. CASE Tick
  BY <1>1, OthersRefine DEF Tick, tables, consumer, flusher
<1>2. ASSUME NEW e \in Events, Publish(e) PROVE UNCHANGED Ledger!vars
  BY <1>2, OthersRefine DEF Publish, tables, consumer, flusher
<1>3. CASE AutoCommit
  BY <1>3, OthersRefine DEF AutoCommit, tables, consumer, flusher
<1>4. ASSUME NEW p \in Partitions, Receive(p) PROVE UNCHANGED Ledger!vars
  BY <1>4, OthersRefine DEF Receive, tables, flusher
<1>5. CASE InsertLands
  BY <1>5, InsertRefines
<1>6. CASE Count
  BY <1>6, CountRefines
<1>7. CASE Skip
  BY <1>7, OthersRefine DEF Skip, tables, flusher
<1>8. CASE Drain
  BY <1>8, DrainRefines
<1>9. ASSUME NEW g \in Grains, FlushGrain(g)
      PROVE  \E h \in Grains, S \in SUBSET Events : Ledger!Post(h, S)
  <2>1. Written(g) \in SUBSET Events
    BY DEF Written
  <2> QED
    BY <1>9, <2>1, FlushRefines
<1>10. CASE Restart
  BY <1>10, OthersRefine DEF Restart, tables, consumer, flusher
<1>11. CASE UNCHANGED vars
  BY <1>11, OthersRefine DEF vars, tables, consumer, flusher
<1> QED
  BY <1>1, <1>2, <1>3, <1>4, <1>5, <1>6, <1>7, <1>8, <1>9, <1>10, <1>11
     DEF Next, Consume, Flush

\* Every step is a step of the ledger or leaves it alone.
LEMMA StepRefines == IInv /\ [Next]_vars => [Ledger!Next]_Ledger!vars
<1> SUFFICES ASSUME IInv, [Next]_vars PROVE [Ledger!Next]_Ledger!vars
  OBVIOUS
<1>1. CASE FlushFails
  <2>1. {} \in SUBSET Events
    OBVIOUS
  <2> QED
    BY <1>1, <2>1, FlushFailsRefines, Mapping DEF Ledger!Next
<1>2. CASE Crash \/ Shutdown
  BY <1>2, DieRefines, Mapping DEF Crash, Shutdown, Ledger!Next
<1>3. CASE ~FlushFails /\ ~Crash /\ ~Shutdown
  BY <1>3, WorkRefines, Mapping DEF Ledger!Next
<1> QED
  BY <1>1, <1>2, <1>3

\* The two tasks, the tables and every failure together keep the ledger's promise.
THEOREM Refinement == Spec => ImplementsLedger
<1>1. Init => Ledger!Init
  BY InitRefines
<1>2. IInv /\ [Next]_vars => [Ledger!Next]_Ledger!vars
  BY StepRefines
<1> QED
  BY <1>1, <1>2, Invariance, PTL DEF Spec, ImplementsLedger, Ledger!Spec

-----------------------------------------------------------------------------
\* In terms of the ledger, a fact is forgotten when it is neither counted nor owed.
ForgottenIsNeither ==
    \A g \in Grains : Forgotten(g) = stored \ (Counted[g] \union Owed[g])

\* Forgotten, in terms of the tables, is neither counted nor owed.
LEMMA ForgottenInLedger == IInv => ForgottenIsNeither
<1> SUFFICES ASSUME IInv, NEW g \in Grains, NEW e \in stored
             PROVE  kpi[g][e] = 0 <=> ~(kpi[g][e] = 1)
  BY Mapping DEF ForgottenIsNeither, Forgotten, IInv, TypeOK
<1>1. e \in Events
  BY DEF IInv, TypeOK
<1> QED
  BY <1>1, Places, CountTypes DEF IInv

\* A step that is not a failure forgets nothing.
LEMMA WorkForgetsNothing ==
    ASSUME IInv, IInv', [Next]_vars, ~FlushFails, ~Crash, ~Shutdown, NEW g \in Grains
    PROVE  Forgotten(g)' \subseteq Forgotten(g)
<1>0. IInv' => ForgottenIsNeither'
  BY ForgottenInLedger, PTL
<1>1. Forgotten(g) = stored \ (Counted[g] \union Owed[g])
  BY ForgottenInLedger DEF ForgottenIsNeither
<1>2. Forgotten(g)' = stored' \ (Counted'[g] \union Owed'[g])
  BY <1>0 DEF ForgottenIsNeither
<1>3. CASE UNCHANGED Ledger!vars
  BY <1>1, <1>2, <1>3 DEF Ledger!vars
<1>4. ASSUME NEW e \in Events, Ledger!Record(e)
      PROVE  stored' \ (Counted'[g] \union Owed'[g])
                \subseteq stored \ (Counted[g] \union Owed[g])
  BY <1>4, Mapping DEF Ledger!Record
<1>5. ASSUME NEW h \in Grains, NEW S \in SUBSET Events, Ledger!Post(h, S)
      PROVE  stored' \ (Counted'[g] \union Owed'[g])
                \subseteq stored \ (Counted[g] \union Owed[g])
  BY <1>5, Mapping DEF Ledger!Post
<1> QED
  BY <1>1, <1>2, <1>3, <1>4, <1>5, WorkRefines

\* Only a death or a failed flush makes a fact drop out of the way to its aggregate.
THEOREM OnlyFailuresForgetHolds == Spec => OnlyFailuresForget
<1>1. IInv /\ IInv' /\ [Next]_vars
        => [(\E g \in Grains : ~(Forgotten(g)' \subseteq Forgotten(g)))
              => status' = "down" \/ flush' = "dead"]_vars
  BY WorkForgetsNothing DEF FlushFails, Crash, Shutdown, Die
<1> QED
  BY <1>1, Invariance, PTL DEF Spec, OnlyFailuresForget

-----------------------------------------------------------------------------
\* Until something fails, no fact is forgotten.
NothingForgotten == NothingFailed => \A g \in Grains : Forgotten(g) = {}

\* A failure stays visible: as a death, or as a flush task that is dead.
LEMMA FailuresShow == ASSUME TypeOK, [Next]_vars, NothingFailed'
                      PROVE  NothingFailed /\ ~FlushFails /\ ~Crash /\ ~Shutdown
<1>1. ~FlushFails
  BY DEF NothingFailed, FlushFails
<1>2. ~Die
  <2> SUFFICES ASSUME Die PROVE deaths' # 0
    BY DEF NothingFailed
  <2> QED
    BY DEF Die, TypeOK
<1>3. ~Crash /\ ~Shutdown
  BY <1>2 DEF Crash, Shutdown
<1>4. deaths' = deaths /\ (flush = "dead" => flush' = "dead")
  BY <1>1, <1>3, GrainFacts
     DEF Next, vars, flusher, Tick, Publish, AutoCommit, Consume, Receive, InsertLands, Count,
         Skip, Flush, Drain, FlushGrain, Restart
<1> QED
  BY <1>1, <1>3, <1>4 DEF NothingFailed

\* Without a failure every fact is in its aggregate or on its way there.
THEOREM NothingForgottenHolds == Spec => []NothingForgotten
<1>1. Init => NothingForgotten
  BY DEF Init, NothingForgotten, Forgotten
<1>2. IInv /\ IInv' /\ NothingForgotten /\ [Next]_vars => NothingForgotten'
  BY WorkForgetsNothing, FailuresShow DEF IInv, NothingForgotten
<1> QED
  BY <1>1, <1>2, Invariance, PTL DEF Spec
=============================================================================

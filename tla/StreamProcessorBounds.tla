-------------------------- MODULE StreamProcessorBounds --------------------------
(***************************************************************************)
(* How much the stream processor can lose and how often it can admit an    *)
(* id again: LossBounded and RowsPerIdBounded, for every set of events,    *)
(* TTL and number of deaths.                                               *)
(*                                                                         *)
(* A consumed message can only go missing when its id is marked as seen    *)
(* and its insert does not happen.  Remembered says that while the process *)
(* lives, an id in the cache is being inserted or has its row; a death     *)
(* empties the cache, and only the id being inserted is then without one.  *)
(***************************************************************************)
EXTENDS StreamProcessorProofs, FiniteSetTheorems

\* An offset is committed after its message was handed out, which the log contains.
Offsets == \A p \in Partitions : committed[p] <= position[p] /\ position[p] <= Len(log[p])

\* The message in hand was published.
InHand == pc # "idle" => msg \in Published

InsertingId(i) == pc = "insert" /\ msg.id = i
InTable(i) == \E f \in Published : f.id = i /\ RowTaken(f)

\* What the cache remembers is accounted for.
Remembered == \A i \in EventIds : items[i] > 0 => InsertingId(i) \/ InTable(i)

FewLost == IsFiniteSet(LostIds) /\ Cardinality(LostIds) <= deaths

LossInv == TypeOK /\ Offsets /\ InHand /\ Remembered /\ FewLost

\* LostIds, one id at a time.
LEMMA LostMember ==
    \A i : i \in LostIds <=> /\ \E c \in Consumed : c.id = i
                             /\ ~InsertingId(i) /\ ~InTable(i)
  BY DEF LostIds, InsertingId, InTable

\* Published and Consumed, one message at a time.
LEMMA LogMembers ==
    /\ \A e : e \in Published <=> \E p \in Partitions : \E k \in 1..Len(log[p]) : e = log[p][k]
    /\ \A e : e \in Consumed <=> \E p \in Partitions : \E k \in 1..position[p] : e = log[p][k]
  BY DEF Published, Consumed

\* Messages are never taken out of a log, nor rows out of a table.
LEMMA LogsGrow == ASSUME TypeOK, [Next]_vars
                  PROVE  /\ Published \subseteq Published'
                         /\ stored \subseteq stored'
                         /\ \A p \in Partitions : Len(log'[p]) >= Len(log[p])
                         /\ \A p \in Partitions : \A k \in 1..Len(log[p]) : log'[p][k] = log[p][k]
<1>1. log' = log \/ \E e \in Events : Publish(e)
  BY DEF Next, vars, kafka, Tick, AutoCommit, Consume, Receive, InsertLands, Count, Skip,
         Flush, Drain, FlushGrain, FlushFails, Crash, Shutdown, Die, Restart
<1>2. /\ \A p \in Partitions : Len(log'[p]) >= Len(log[p])
      /\ \A p \in Partitions : \A k \in 1..Len(log[p]) : log'[p][k] = log[p][k]
  <2>1. CASE log' = log
    BY <2>1 DEF TypeOK
  <2>2. ASSUME NEW e \in Events, Publish(e), NEW p \in Partitions
        PROVE  /\ Len(log'[p]) >= Len(log[p])
               /\ \A k \in 1..Len(log[p]) : log'[p][k] = log[p][k]
    <3>1. log[p] \in Seq(Events)
      BY DEF TypeOK
    <3>2. log'[p] = log[p] \/ log'[p] = Append(log[p], e)
      BY <2>2, FieldsType DEF Publish, TypeOK
    <3> QED
      BY <3>1, <3>2
  <2> QED
    BY <1>1, <2>1, <2>2
<1>3. Published \subseteq Published'
  <2> SUFFICES ASSUME NEW p \in Partitions, NEW k \in 1..Len(log[p])
               PROVE  log[p][k] \in Published'
    BY LogMembers
  <2>1. k \in 1..Len(log'[p]) /\ log'[p][k] = log[p][k]
    <3>1. Len(log[p]) \in Nat
      BY DEF TypeOK
    <3>2. Len(log'[p]) \in Nat
      BY TypeStep DEF TypeOK
    <3> QED
      BY <1>2, <3>1, <3>2
  <2> QED
    BY <2>1 DEF Published
<1>4. stored \subseteq stored'
  BY DEF Next, vars, tables, Tick, Publish, AutoCommit, Consume, Receive, InsertLands, Count,
         Skip, Flush, Drain, FlushGrain, FlushFails, Crash, Shutdown, Die, Restart, InsertOutcome
<1> QED
  BY <1>2, <1>3, <1>4

\* An id that has a row keeps it.
LEMMA RowsStay == ASSUME TypeOK, [Next]_vars, NEW i, InTable(i) PROVE InTable(i)'
  BY LogsGrow DEF InTable, RowTaken

-----------------------------------------------------------------------------
\* Offsets stay in order: the consumer is never ahead of the log, nor the group of the
\* consumer.
LEMMA OffsetsStep == ASSUME TypeOK, Offsets, [Next]_vars PROVE Offsets'
<1>1. /\ committed \in [Partitions -> Nat] /\ position \in [Partitions -> Nat]
      /\ \A p \in Partitions : Len(log[p]) \in Nat
  BY DEF TypeOK
<1>2. \A p \in Partitions : Len(log'[p]) \in Nat /\ Len(log'[p]) >= Len(log[p])
  BY TypeStep, LogsGrow DEF TypeOK
<1>3. \/ UNCHANGED <<committed, position>>
      \/ committed' = position /\ UNCHANGED position
      \/ position' = committed /\ UNCHANGED committed
      \/ \E p \in Partitions : Receive(p)
  BY DEF Next, vars, kafka, consumer, Tick, Publish, AutoCommit, Consume, InsertLands, Count,
         Skip, Flush, Drain, FlushGrain, FlushFails, Crash, Shutdown, Restart
<1>4. CASE UNCHANGED <<committed, position>>
  BY <1>1, <1>2, <1>4 DEF Offsets
<1>5. CASE committed' = position /\ UNCHANGED position
  BY <1>1, <1>2, <1>5 DEF Offsets
<1>6. CASE position' = committed /\ UNCHANGED committed
  BY <1>1, <1>2, <1>6 DEF Offsets
<1>7. ASSUME NEW q \in Partitions, Receive(q) PROVE Offsets'
  <2>1. /\ UNCHANGED <<log, committed>> /\ position[q] < Len(log[q])
        /\ position' = [position EXCEPT ![q] = @ + 1]
    BY <1>7 DEF Receive, kafka
  <2> QED
    BY <1>1, <2>1 DEF Offsets
<1> QED
  BY <1>3, <1>4, <1>5, <1>6, <1>7

\* What Receive takes was published, and is what it newly consumes.
LEMMA ReceiveConsumes ==
    ASSUME TypeOK, Offsets, NEW p \in Partitions, Receive(p)
    PROVE  LET e == log[p][position[p] + 1]
           IN  /\ e \in Published /\ e \in Events
               /\ Consumed' \subseteq Consumed \union {e}
<1> DEFINE e == log[p][position[p] + 1]
<1>1. /\ position[p] \in Nat /\ Len(log[p]) \in Nat /\ position[p] < Len(log[p])
      /\ position' = [position EXCEPT ![p] = @ + 1] /\ log' = log
  BY DEF Receive, TypeOK, kafka
<1>2. position[p] + 1 \in 1..Len(log[p])
  BY <1>1
<1>3. e \in Published /\ e \in Events
  BY <1>2, LogMembers DEF TypeOK
<1>4. ASSUME NEW q \in Partitions, NEW k \in 1..position'[q]
      PROVE  log[q][k] \in Consumed \/ log[q][k] = e
  <2>1. CASE q = p
    <3>1. position'[q] = position[p] + 1
      BY <1>1, <2>1 DEF TypeOK
    <3>2. k \in 1..position[p] \/ k = position[p] + 1
      BY <1>1, <3>1
    <3> QED
      BY <2>1, <3>2, LogMembers
  <2>2. CASE q # p
    <3>1. position'[q] = position[q]
      BY <1>1, <2>2 DEF TypeOK
    <3> QED
      BY <3>1, LogMembers
  <2> QED
    BY <2>1, <2>2
<1>5. Consumed' \subseteq Consumed \union {e}
  BY <1>1, <1>4 DEF Consumed
<1> QED
  BY <1>3, <1>5

\* The message in hand stays published.
LEMMA InHandStep == ASSUME TypeOK, Offsets, InHand, [Next]_vars PROVE InHand'
<1>1. \/ pc' = "idle"
      \/ pc # "idle" /\ msg' = msg
      \/ \E p \in Partitions : Receive(p) /\ msg' = log[p][position[p] + 1]
      \/ UNCHANGED <<pc, msg>>
  BY DEF Next, vars, consumer, Tick, Publish, AutoCommit, Consume, Receive, InsertLands, Count,
         Skip, Flush, Drain, FlushGrain, FlushFails, Crash, Shutdown, Die, Restart
<1> QED
  BY <1>1, LogsGrow, ReceiveConsumes DEF InHand

\* The cache only forgets, except for what it is told to remember.
LEMMA RememberedStep == ASSUME TypeOK, Offsets, InHand, Remembered, [Next]_vars
                        PROVE  Remembered'
<1> SUFFICES ASSUME NEW i \in EventIds, items'[i] > 0
             PROVE  InsertingId(i)' \/ InTable(i)'
  BY DEF Remembered
<1>1. items[i] \in Nat /\ (items[i] > 0 => InsertingId(i) \/ InTable(i))
  BY DEF TypeOK, Remembered
<1>2. CASE items[i] > 0 /\ InTable(i)
  BY <1>2, RowsStay
<1>3. CASE items[i] > 0 /\ InsertingId(i)
  <2>1. CASE UNCHANGED <<pc, msg>>
    BY <1>3, <2>1 DEF InsertingId
  <2>2. CASE InsertLands
    <3>1. RowTaken(msg)' /\ msg' = msg
      BY <2>2 DEF InsertLands, RowTaken
    <3>2. msg \in Published'
      BY <1>3, LogsGrow DEF InHand, InsertingId
    <3> QED
      BY <1>3, <3>1, <3>2 DEF InTable, InsertingId, RowTaken
  <2>3. CASE Die
    BY <1>3, <2>3 DEF Die, NoKeys
  <2> QED
    BY <1>3, <2>1, <2>2, <2>3
       DEF InsertingId, Next, vars, consumer, Tick, Publish, AutoCommit, Consume, Receive,
           Count, Skip, Flush, Drain, FlushGrain, FlushFails, Crash, Shutdown, Restart
<1>4. CASE items[i] = 0
  <2>1. PICK p \in Partitions : Receive(p) /\ items' # items
    BY <1>1, <1>4 DEF Next, vars, consumer, Tick, Publish, AutoCommit, Consume, InsertLands,
       Count, Skip, Swept, Flush, Drain, FlushGrain, FlushFails, Crash, Shutdown, Die, NoKeys,
       Restart
  <2>2. pc' = "insert" /\ items' = Marked(msg'.id)
    BY <2>1 DEF Receive
  <2>3. i = msg'.id
    BY <1>4, <2>2 DEF Marked, TypeOK
  <2> QED
    BY <2>2, <2>3 DEF InsertingId
<1> QED
  BY <1>1, <1>2, <1>3, <1>4

-----------------------------------------------------------------------------
(* What a step can add to the lost ids.                                    *)

\* While nothing new is consumed and nothing in hand is let go, nothing is lost.
LEMMA NothingLost ==
    ASSUME TypeOK, [Next]_vars, Consumed' \subseteq Consumed,
           \A i : InsertingId(i) => InsertingId(i)' \/ InTable(i)'
    PROVE  LostIds' \subseteq LostIds
<1> SUFFICES ASSUME NEW i \in LostIds' PROVE i \in LostIds
  OBVIOUS
<1>1. (\E c \in Consumed' : c.id = i) /\ ~InsertingId(i)' /\ ~InTable(i)'
  BY DEF LostIds, InsertingId, InTable
<1> QED
  BY <1>1, RowsStay, LostMember

\* A received message is being inserted, or its id is accounted for.
LEMMA ReceiveLosesNothing ==
    ASSUME LossInv, NEW p \in Partitions, Receive(p)
    PROVE  LostIds' \subseteq LostIds
<1> DEFINE e == log[p][position[p] + 1]
<1> USE DEF LossInv
<1>1. e \in Events /\ Consumed' \subseteq Consumed \union {e}
  BY ReceiveConsumes
<1>2. [Next]_vars
  BY DEF Next, Consume
<1> SUFFICES ASSUME NEW i \in LostIds' PROVE i \in LostIds
  OBVIOUS
<1>3. (\E c \in Consumed' : c.id = i) /\ ~InsertingId(i)' /\ ~InTable(i)'
  BY DEF LostIds, InsertingId, InTable
<1>4. ~InsertingId(i) /\ ~InTable(i)
  BY <1>2, <1>3, RowsStay DEF Receive, InsertingId
<1>5. i # e.id
  <2>1. CASE Seen(e.id)
    <3>1. items[e.id] > 0 /\ e.id \in EventIds
      BY <1>1, <2>1, FieldsType DEF Seen, TypeOK
    <3> QED
      BY <1>4, <3>1 DEF Remembered
  <2>2. CASE ~Seen(e.id)
    <3>1. pc' = "insert" /\ msg' = e
      BY <2>2 DEF Receive
    <3> QED
      BY <1>3, <3>1 DEF InsertingId
  <2> QED
    BY <2>1, <2>2
<1> QED
  BY <1>1, <1>3, <1>4, <1>5, LostMember

\* A death may lose the id whose insert was in flight.
LEMMA DieLosesOne ==
    ASSUME LossInv, Crash \/ Shutdown
    PROVE  LostIds' \subseteq LostIds \union {msg.id}
<1> USE DEF LossInv
<1>1. [Next]_vars /\ log' = log
  BY DEF Next, Crash, Shutdown, Die
<1>2. Consumed' \subseteq Consumed
  <2>1. \A p \in Partitions : position'[p] <= position[p] /\ position'[p] \in Nat
    BY DEF Crash, Shutdown, TypeOK, Offsets
  <2>2. \A p \in Partitions : position[p] \in Nat
    BY DEF TypeOK
  <2>3. \A p \in Partitions : 1..position'[p] \subseteq 1..position[p]
    BY <2>1, <2>2
  <2> QED
    BY <1>1, <2>3 DEF Consumed
<1> SUFFICES ASSUME NEW i \in LostIds', i # msg.id PROVE i \in LostIds
  OBVIOUS
<1>3. (\E c \in Consumed' : c.id = i) /\ ~InTable(i)'
  BY DEF LostIds, InTable
<1> QED
  BY <1>1, <1>2, <1>3, RowsStay, LostMember DEF InsertingId

\* Every other step loses nothing.
LEMMA OthersLoseNothing ==
    ASSUME LossInv, [Next]_vars, ~Crash, ~Shutdown
    PROVE  LostIds' \subseteq LostIds
<1> USE DEF LossInv
<1>1. CASE \E p \in Partitions : Receive(p)
  BY <1>1, ReceiveLosesNothing
<1>2. CASE ~\E p \in Partitions : Receive(p)
  <2>1. position' = position
    BY <1>2 DEF Next, vars, consumer, Tick, Publish, AutoCommit, Consume, InsertLands, Count,
       Skip, Flush, Drain, FlushGrain, FlushFails, Restart
  <2>2. Consumed' \subseteq Consumed
    <3> SUFFICES ASSUME NEW p \in Partitions, NEW k \in 1..position[p]
                 PROVE  log'[p][k] \in Consumed
      BY <2>1 DEF Consumed
    <3>1. k \in 1..Len(log[p])
      BY DEF Offsets, TypeOK
    <3>2. log'[p][k] = log[p][k]
      BY <3>1, LogsGrow
    <3> QED
      BY <3>2, LogMembers
  <2>3. ASSUME NEW i, InsertingId(i) PROVE InsertingId(i)' \/ InTable(i)'
    <3>1. CASE UNCHANGED <<pc, msg>>
      BY <2>3, <3>1 DEF InsertingId
    <3>2. CASE InsertLands
      <4>1. RowTaken(msg)' /\ msg' = msg
        BY <3>2 DEF InsertLands, RowTaken
      <4>2. msg \in Published'
        BY <2>3, LogsGrow DEF InHand, InsertingId
      <4> QED
        BY <2>3, <4>1, <4>2 DEF InTable, InsertingId, RowTaken
    <3> QED
      BY <1>2, <2>3, <3>1, <3>2
         DEF InsertingId, Next, vars, consumer, Tick, Publish, AutoCommit, Consume, Count,
             Skip, Flush, Drain, FlushGrain, FlushFails, Restart
  <2> QED
    BY <2>2, <2>3, NothingLost
<1> QED
  BY <1>1, <1>2

\* No step loses more than its death pays for.
LEMMA FewLostStep == ASSUME LossInv, [Next]_vars PROVE FewLost'
<1> USE DEF LossInv
<1>1. deaths \in Nat /\ Cardinality(LostIds) \in Nat
  BY FS_CardinalityType DEF FewLost, TypeOK
<1>2. CASE Crash \/ Shutdown
  <2>1. deaths' = deaths + 1
    BY <1>2 DEF Crash, Shutdown, Die
  <2>2. /\ IsFiniteSet(LostIds \union {msg.id})
        /\ Cardinality(LostIds \union {msg.id}) <= Cardinality(LostIds) + 1
    BY <1>1, FS_AddElement DEF FewLost
  <2>3. LostIds' \in SUBSET (LostIds \union {msg.id})
    BY <1>2, DieLosesOne
  <2>4. IsFiniteSet(LostIds') /\ Cardinality(LostIds') <= Cardinality(LostIds \union {msg.id})
    BY <2>2, <2>3, FS_Subset
  <2>5. Cardinality(LostIds') \in Nat /\ Cardinality(LostIds \union {msg.id}) \in Nat
    BY <2>2, <2>4, FS_CardinalityType
  <2> QED
    BY <1>1, <2>1, <2>2, <2>4, <2>5 DEF FewLost
<1>3. CASE ~Crash /\ ~Shutdown
  <2>1. LostIds' \in SUBSET LostIds
    BY <1>3, OthersLoseNothing
  <2>2. IsFiniteSet(LostIds') /\ Cardinality(LostIds') <= Cardinality(LostIds)
    BY <2>1, FS_Subset DEF FewLost
  <2>3. Cardinality(LostIds') \in Nat
    BY <2>2, FS_CardinalityType
  <2>4. deaths' = deaths
    BY <1>3 DEF Next, vars, Tick, Publish, AutoCommit, Consume, Receive, InsertLands, Count,
       Skip, Flush, Drain, FlushGrain, FlushFails, Restart
  <2> QED
    BY <1>1, <2>2, <2>3, <2>4 DEF FewLost
<1> QED
  BY <1>2, <1>3

\* Nothing has been consumed when the process starts.
LEMMA LossInit == Init => LossInv
<1> SUFFICES ASSUME Init PROVE LossInv
  OBVIOUS
<1>1. TypeOK /\ InHand /\ Remembered
  BY InitType DEF Init, InHand, Remembered, NoKeys
<1>2. Offsets
  BY DEF Init, Offsets
<1>3. LostIds = {}
  BY DEF Init, LostIds, Consumed
<1>4. FewLost
  BY <1>3, FS_EmptySet DEF FewLost, Init
<1> QED
  BY <1>1, <1>2, <1>4 DEF LossInv

\* What is consumed, remembered and lost fits together in every reachable state.
THEOREM LossInvariance == Spec => []LossInv
<1>1. LossInv /\ [Next]_vars => LossInv'
  BY TypeStep, OffsetsStep, InHandStep, RememberedStep, FewLostStep DEF LossInv
<1> QED
  BY <1>1, LossInit, PTL DEF Spec

\* Each death of the process loses at most one event, and nothing else loses any.
THEOREM LossBoundedHolds == Spec => []LossBounded
<1>1. LossInv => LossBounded
  BY DEF LossInv, FewLost, LossBounded
<1> QED
  BY <1>1, LossInvariance, PTL

-----------------------------------------------------------------------------
(* Rows per id.  An id is admitted when its entry is absent or expired, so *)
(* each admission but the first pays with a TTL of the clock or with a     *)
(* death.  The row of an id being inserted is counted in advance.          *)

RowsOf(i) == {e \in stored : e.id = i}
Admitted(i) == Cardinality(RowsOf(i)) + (IF InsertingId(i) THEN 1 ELSE 0)

\* Until when the admissions of an id are paid for.
PaidUntil(i) == IF items[i] > now THEN items[i] ELSE now

AdmissionsPaid ==
    \A i \in EventIds : /\ IsFiniteSet(RowsOf(i))
                        /\ items[i] <= now + Ttl
                        /\ Admitted(i) <= deaths + (PaidUntil(i) \div Ttl)

RowsInv == TypeOK /\ AdmissionsPaid

\* One TTL more is one admission more.
LEMMA DivTtl == ASSUME NEW a \in Nat
                PROVE  /\ a \div Ttl \in Nat
                       /\ (a + Ttl) \div Ttl = (a \div Ttl) + 1
  BY TtlAssumption

\* A later time pays for no fewer admissions.
LEMMA DivMonotone == ASSUME NEW a \in Nat, NEW b \in Nat, a <= b
                     PROVE  a \div Ttl <= b \div Ttl
  BY TtlAssumption

\* The types of what AdmissionsPaid relates.
LEMMA PaidTypes == ASSUME RowsInv, NEW i \in EventIds
                   PROVE  /\ Cardinality(RowsOf(i)) \in Nat /\ Admitted(i) \in Nat
                          /\ items[i] \in Nat /\ now \in Nat /\ deaths \in Nat
                          /\ PaidUntil(i) \in Nat /\ PaidUntil(i) \div Ttl \in Nat
                          /\ Ttl \in Nat /\ now \div Ttl \in Nat
<1>1. items[i] \in Nat /\ now \in Nat /\ deaths \in Nat /\ Ttl \in Nat
  BY TtlAssumption DEF RowsInv, TypeOK
<1>2. IsFiniteSet(RowsOf(i))
  BY DEF RowsInv, AdmissionsPaid
<1>3. Cardinality(RowsOf(i)) \in Nat
  BY <1>2, FS_CardinalityType
<1>4. Admitted(i) \in Nat
  BY <1>3 DEF Admitted
<1>5. PaidUntil(i) \in Nat
  BY <1>1 DEF PaidUntil
<1>6. PaidUntil(i) \div Ttl \in Nat /\ now \div Ttl \in Nat
  BY <1>1, <1>5, DivTtl
<1> QED
  BY <1>1, <1>3, <1>4, <1>5, <1>6

\* A set grows by at most one when an element is added.
LEMMA OneMore == ASSUME NEW S, NEW x, IsFiniteSet(S)
                 PROVE  /\ IsFiniteSet(S \union {x})
                        /\ Cardinality(S \union {x}) <= Cardinality(S) + 1
<1>1. Cardinality(S) \in Nat
  BY FS_CardinalityType
<1> QED
  BY <1>1, FS_AddElement

\* What a death leaves: at most the rows that were admitted.
LEMMA InsertOutcomeRows ==
    ASSUME RowsInv, NEW s \in InsertOutcome, NEW i \in EventIds
    PROVE  LET rows == {e \in s : e.id = i}
           IN  /\ IsFiniteSet(rows) /\ Cardinality(rows) \in Nat
               /\ Cardinality(rows) <= Admitted(i)
<1> DEFINE rows == {e \in s : e.id = i}
<1>1. IsFiniteSet(RowsOf(i)) /\ Cardinality(RowsOf(i)) \in Nat
  BY PaidTypes DEF RowsInv, AdmissionsPaid
<1>2. CASE rows = RowsOf(i)
  <2>1. Cardinality(RowsOf(i)) <= Admitted(i)
    BY <1>1 DEF Admitted
  <2> QED
    BY <1>1, <1>2, <2>1
<1>3. CASE rows = RowsOf(i) \union {msg} /\ InsertingId(i)
  <2>1. /\ IsFiniteSet(RowsOf(i) \union {msg})
        /\ Cardinality(RowsOf(i) \union {msg}) <= Cardinality(RowsOf(i)) + 1
    BY <1>1, OneMore
  <2>2. Cardinality(rows) \in Nat
    BY <1>3, <2>1, FS_CardinalityType
  <2> QED
    BY <1>1, <1>3, <2>1, <2>2 DEF Admitted
<1>4. CASE s = stored
  BY <1>2, <1>4 DEF RowsOf
<1>5. CASE s = stored \union {msg} /\ pc = "insert"
  <2>1. CASE msg.id = i
    BY <1>3, <1>5, <2>1 DEF RowsOf, InsertingId
  <2>2. CASE msg.id # i
    BY <1>2, <1>5, <2>2 DEF RowsOf
  <2> QED
    BY <2>1, <2>2
<1> QED
  BY <1>4, <1>5 DEF InsertOutcome

\* The insert makes a row of what was admitted.
LEMMA InsertPaid == ASSUME RowsInv, InsertLands PROVE AdmissionsPaid'
<1> SUFFICES ASSUME NEW i \in EventIds
             PROVE  /\ IsFiniteSet(RowsOf(i))' /\ items'[i] <= now' + Ttl
                    /\ Admitted(i)' <= deaths' + (PaidUntil(i)' \div Ttl)
  BY DEF AdmissionsPaid
<1>1. UNCHANGED <<items, now, deaths, msg>> /\ stored' \in InsertOutcome /\ pc' # "insert"
  BY DEF InsertLands, InsertOutcome
<1>2. /\ IsFiniteSet({e \in stored' : e.id = i})
      /\ Cardinality({e \in stored' : e.id = i}) <= Admitted(i)
      /\ Cardinality({e \in stored' : e.id = i}) \in Nat
  BY <1>1, InsertOutcomeRows
<1>3. Admitted(i)' = Cardinality({e \in stored' : e.id = i}) + 0
  BY <1>1 DEF Admitted, RowsOf, InsertingId
<1>4. Admitted(i)' <= Admitted(i)
  BY <1>2, <1>3
<1>5. PaidUntil(i)' = PaidUntil(i)
  BY <1>1 DEF PaidUntil
<1>6. Admitted(i) <= deaths + (PaidUntil(i) \div Ttl) /\ items[i] <= now + Ttl
  BY DEF RowsInv, AdmissionsPaid
<1>7. IsFiniteSet(RowsOf(i))'
  BY <1>2 DEF RowsOf
<1>8. Admitted(i)' \in Nat /\ Admitted(i) \in Nat /\ PaidUntil(i) \div Ttl \in Nat
  BY <1>2, <1>3, PaidTypes
<1>9. deaths' = deaths /\ deaths \in Nat /\ items'[i] = items[i] /\ now' = now
  BY <1>1, PaidTypes
<1> QED
  BY <1>4, <1>5, <1>6, <1>7, <1>8, <1>9

\* The end of the process pays for the cache it empties.
LEMMA DiePaid == ASSUME RowsInv, Die PROVE AdmissionsPaid'
<1> SUFFICES ASSUME NEW i \in EventIds
             PROVE  /\ IsFiniteSet(RowsOf(i))' /\ items'[i] <= now' + Ttl
                    /\ Admitted(i)' <= deaths' + (PaidUntil(i)' \div Ttl)
  BY DEF AdmissionsPaid
<1>1. /\ items'[i] = 0 /\ now' = now /\ deaths' = deaths + 1
      /\ stored' \in InsertOutcome /\ pc' = "idle"
  BY DEF Die, NoKeys
<1>2. /\ IsFiniteSet({e \in stored' : e.id = i})
      /\ Cardinality({e \in stored' : e.id = i}) <= Admitted(i)
      /\ Cardinality({e \in stored' : e.id = i}) \in Nat
  BY <1>1, InsertOutcomeRows
<1>3. Admitted(i)' = Cardinality({e \in stored' : e.id = i}) + 0
  BY <1>1 DEF Admitted, RowsOf, InsertingId
<1>4. /\ Admitted(i) <= deaths + (PaidUntil(i) \div Ttl)
      /\ items[i] <= now + Ttl
  BY DEF RowsInv, AdmissionsPaid
<1>5. PaidUntil(i) <= now + Ttl /\ PaidUntil(i)' = now
  BY <1>1, <1>4, PaidTypes DEF PaidUntil
<1>6. PaidUntil(i) \div Ttl <= (now \div Ttl) + 1
  BY <1>5, PaidTypes, DivTtl, DivMonotone
<1>7. Cardinality({e \in stored' : e.id = i}) <= deaths + 1 + (now \div Ttl)
  BY <1>2, <1>4, <1>6, PaidTypes
<1>8. IsFiniteSet(RowsOf(i))'
  BY <1>2 DEF RowsOf
<1>9. items'[i] <= now' + Ttl
  BY <1>1, PaidTypes
<1>10. Admitted(i)' <= deaths' + (PaidUntil(i)' \div Ttl)
  BY <1>1, <1>2, <1>3, <1>5, <1>7
<1> QED
  BY <1>8, <1>9, <1>10

\* An id that is admitted gets an entry that pays for it.
LEMMA ReceivePaid == ASSUME RowsInv, NEW p \in Partitions, Receive(p) PROVE AdmissionsPaid'
<1> SUFFICES ASSUME NEW i \in EventIds
             PROVE  /\ IsFiniteSet(RowsOf(i))' /\ items'[i] <= now' + Ttl
                    /\ Admitted(i)' <= deaths' + (PaidUntil(i)' \div Ttl)
  BY DEF AdmissionsPaid
<1> DEFINE e == log[p][position[p] + 1]
<1>1. UNCHANGED <<now, deaths, stored>> /\ pc = "idle" /\ items \in [EventIds -> Nat]
  BY DEF Receive, tables, RowsInv, TypeOK
<1>2. /\ IsFiniteSet(RowsOf(i)) /\ items[i] <= now + Ttl
      /\ Admitted(i) <= deaths + (PaidUntil(i) \div Ttl)
  BY DEF RowsInv, AdmissionsPaid
<1>3. CASE ~Seen(e.id) /\ e.id = i
  <2>1. pc' = "insert" /\ msg' = e /\ items' = Marked(e.id)
    BY <1>3 DEF Receive
  <2>2. items'[i] = now + Ttl
    BY <1>1, <1>3, <2>1 DEF Marked
  <2>3. PaidUntil(i) = now /\ PaidUntil(i)' = now + Ttl
    BY <1>1, <1>3, <2>2, PaidTypes, TtlAssumption DEF Seen, PaidUntil
  <2>4. Admitted(i) = Cardinality(RowsOf(i)) + 0
    BY <1>1 DEF Admitted, InsertingId
  <2>5. Admitted(i)' = Cardinality(RowsOf(i)) + 1
    BY <1>1, <1>3, <2>1 DEF Admitted, RowsOf, InsertingId
  <2> QED
    BY <1>1, <1>2, <2>2, <2>3, <2>4, <2>5, PaidTypes, DivTtl DEF RowsOf
<1>4. CASE Seen(e.id) \/ e.id # i
  <2>1. items'[i] = items[i] /\ ~InsertingId(i)' /\ ~InsertingId(i)
    BY <1>1, <1>4 DEF Receive, Marked, InsertingId
  <2>2. Admitted(i)' = Admitted(i) /\ PaidUntil(i)' = PaidUntil(i)
    BY <1>1, <2>1 DEF Admitted, RowsOf, PaidUntil
  <2> QED
    BY <1>1, <1>2, <2>1, <2>2 DEF RowsOf
<1> QED
  BY <1>3, <1>4

\* Time only pays, and the cleanup drops only what has expired.
LEMMA OthersPaid ==
    ASSUME RowsInv, now' \in Nat, now' >= now, UNCHANGED <<stored, deaths>>,
           pc' = "insert" => pc = "insert" /\ msg' = msg,
           items' = items \/ (items' = Swept /\ now' = now)
    PROVE  AdmissionsPaid'
<1> SUFFICES ASSUME NEW i \in EventIds
             PROVE  /\ IsFiniteSet(RowsOf(i))' /\ items'[i] <= now' + Ttl
                    /\ Admitted(i)' <= deaths' + (PaidUntil(i)' \div Ttl)
  BY DEF AdmissionsPaid
<1>1. /\ IsFiniteSet(RowsOf(i)) /\ items[i] <= now + Ttl
      /\ Admitted(i) <= deaths + (PaidUntil(i) \div Ttl)
  BY DEF RowsInv, AdmissionsPaid
<1>2. items'[i] = items[i] \/ (items'[i] = 0 /\ items[i] <= now)
  BY DEF Swept
<1>3. items'[i] <= now' + Ttl /\ PaidUntil(i)' \in Nat /\ PaidUntil(i) <= PaidUntil(i)'
  BY <1>1, <1>2, PaidTypes DEF PaidUntil
<1>4. InsertingId(i)' => InsertingId(i)
  BY DEF InsertingId
<1>5. RowsOf(i)' = RowsOf(i)
  BY DEF RowsOf
<1>6. Admitted(i)' \in Nat /\ Admitted(i)' <= Admitted(i)
  BY <1>4, <1>5, PaidTypes DEF Admitted
<1>7. /\ PaidUntil(i)' \div Ttl \in Nat
      /\ PaidUntil(i) \div Ttl <= PaidUntil(i)' \div Ttl
  BY <1>3, PaidTypes, DivTtl, DivMonotone
<1> QED
  BY <1>1, <1>3, <1>5, <1>6, <1>7, PaidTypes

\* Every step keeps the account.
LEMMA RowsStep == ASSUME RowsInv, [Next]_vars PROVE RowsInv'
<1>1. TypeOK'
  BY TypeStep DEF RowsInv
<1>2. CASE InsertLands
  BY <1>1, <1>2, InsertPaid DEF RowsInv
<1>3. CASE Crash \/ Shutdown
  BY <1>1, <1>3, DiePaid DEF Crash, Shutdown, RowsInv
<1>4. CASE \E p \in Partitions : Receive(p)
  BY <1>1, <1>4, ReceivePaid DEF RowsInv
<1>5. CASE ~InsertLands /\ ~Crash /\ ~Shutdown /\ ~\E p \in Partitions : Receive(p)
  <2>1. now \in Nat /\ now' \in Nat
    BY <1>1 DEF RowsInv, TypeOK
  <2>2. now' >= now
    BY <1>5, <2>1 DEF Next, vars, Tick, Publish, AutoCommit, Consume, Count, Skip,
       Flush, Drain, FlushGrain, FlushFails, Restart
  <2>3. UNCHANGED <<stored, deaths>>
    BY <1>5 DEF Next, vars, tables, Tick, Publish, AutoCommit, Consume, Count, Skip,
       Flush, Drain, FlushGrain, FlushFails, Restart
  <2>4. pc' = "insert" => pc = "insert" /\ msg' = msg
    BY <1>5 DEF Next, vars, consumer, Tick, Publish, AutoCommit, Consume, Count, Skip,
       Flush, Drain, FlushGrain, FlushFails, Restart
  <2>5. items' = items \/ (items' = Swept /\ now' = now)
    BY <1>5 DEF Next, vars, consumer, Tick, Publish, AutoCommit, Consume, Count, Skip,
       Flush, Drain, FlushGrain, FlushFails, Restart
  <2> QED
    BY <1>1, <2>1, <2>2, <2>3, <2>4, <2>5, OthersPaid DEF RowsInv
<1> QED
  BY <1>1, <1>2, <1>3, <1>4, <1>5 DEF RowsInv

\* No id has been admitted when the process starts.
LEMMA RowsInit == Init => RowsInv
<1> SUFFICES ASSUME Init PROVE RowsInv
  OBVIOUS
<1>1. TypeOK
  BY InitType
<1> SUFFICES ASSUME NEW i \in EventIds
             PROVE  /\ IsFiniteSet(RowsOf(i)) /\ items[i] <= now + Ttl
                    /\ Admitted(i) <= deaths + (PaidUntil(i) \div Ttl)
  BY <1>1 DEF RowsInv, AdmissionsPaid
<1>2. RowsOf(i) = {} /\ items[i] = 0 /\ now = 0 /\ deaths = 0 /\ ~InsertingId(i)
  BY DEF Init, RowsOf, NoKeys, InsertingId
<1>3. PaidUntil(i) = 0 /\ PaidUntil(i) \div Ttl \in Nat
  BY <1>2, DivTtl DEF PaidUntil
<1>4. IsFiniteSet(RowsOf(i)) /\ Admitted(i) = 0
  BY <1>2, FS_EmptySet DEF Admitted
<1> QED
  BY <1>2, <1>3, <1>4, TtlAssumption

\* However often an order is sent again under its id with another time, it gets one row,
\* one more per TTL and one more per death.
THEOREM RowsPerIdBoundedHolds == Spec => []RowsPerIdBounded
<1>1. RowsInv => RowsPerIdBounded
  <2> SUFFICES ASSUME RowsInv, NEW i \in EventIds
               PROVE  Cardinality(RowsOf(i)) <= 1 + deaths + (now \div Ttl)
    BY DEF RowsPerIdBounded, RowsOf
  <2>1. /\ Admitted(i) <= deaths + (PaidUntil(i) \div Ttl)
        /\ items[i] <= now + Ttl
    BY DEF RowsInv, AdmissionsPaid
  <2>2. PaidUntil(i) <= now + Ttl
    BY <2>1, PaidTypes DEF PaidUntil
  <2>3. PaidUntil(i) \div Ttl <= (now \div Ttl) + 1
    BY <2>2, PaidTypes, DivTtl, DivMonotone
  <2>4. Cardinality(RowsOf(i)) <= Admitted(i)
    BY PaidTypes DEF Admitted
  <2> QED
    BY <2>1, <2>3, <2>4, PaidTypes
<1>2. RowsInv /\ [Next]_vars => RowsInv'
  BY RowsStep
<1> QED
  BY <1>1, <1>2, RowsInit, PTL DEF Spec
=============================================================================

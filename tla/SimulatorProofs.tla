------------------------------- MODULE SimulatorProofs ------------------------------
(***************************************************************************)
(* The load loop and its control API, for any settings, number of tasks    *)
(* and calls.                                                              *)
(*                                                                         *)
(* The invariant of the controller follows a loop to its end: while it     *)
(* works it is self._task, while it is cancelled somebody awaits it, and   *)
(* once the lifespan closes nobody but the lifespan is left to await       *)
(* anything.                                                               *)
(*                                                                         *)
(* A round is a round of the controller, which gives the loops' order and  *)
(* that one works at a time.  That rounds stay spaced rests on an account: *)
(* a loop that is to begin a round, by its birth or after its sleep, finds *)
(* it paid for.                                                            *)
(***************************************************************************)
EXTENDS SimulatorRound, FiniteSetTheorems, TLAPS

-----------------------------------------------------------------------------
(* The controller.                                                         *)

Stages == {"born", "view", "checkout", "order", "purchase", "sleep"}

\* What a call is answered.
Answers == [status  : {"none", "started", "already_running", "stopped", "already_stopped",
                       "error"},
            running : BOOLEAN,
            stopped : Tasks \union {NoTask}]

\* A cancelled loop is awaited by the call that cancelled it.
Awaited == \A t \in Tasks : loop[t] = "cancelling" => \E c \in Callers : awaits[c] = t

\* While the lifespan closes no loop works and no other call awaits one.
Quiet == phase = "closing" => /\ \A t \in Tasks : ~Working(t)
                              /\ \A c \in Calls : awaits[c] = NoTask

\* Only the lifespan handler, and only while it closes, awaits as the lifespan.
LifespanAwaitsLast == phase # "closing" => awaits[Lifespan] = NoTask

IInv == /\ TypeOK
        /\ OneLoop
        /\ StoppedMeansOver
        /\ Awaited
        /\ Quiet
        /\ LifespanAwaitsLast
        /\ NothingLeftBehind

-----------------------------------------------------------------------------
\* The stages of a loop are those it can be cancelled in, and a round stays among them.
LEMMA Rounds == /\ DOMAIN Following = Stages
                /\ \A s \in Stages : Following[s] \subseteq Stages
  BY DEF Following, Stages

\* The invariant holds when the process starts.
LEMMA Initially == Init => IInv
  BY Rounds, TaskAssumption, CallAssumption, BoundAssumption
     DEF Init, IInv, TypeOK, OneLoop, StoppedMeansOver, Awaited, Quiet,
         LifespanAwaitsLast, NothingLeftBehind, NoReply, Callers, Working, Stages

\* What start() leaves behind, as far as the invariant goes.
LEMMA BeginKeeps ==
  ASSUME IInv, Begin
  PROVE  /\ task' \in Tasks
         /\ loop' \in [Tasks -> Stages \union {"unborn", "cancelling", "over"}]
         /\ \A t \in Tasks : loop'[t] \in Stages => task' = t
         /\ \A t \in Tasks : loop[t] = "over" => loop'[t] = "over"
         /\ \A t \in Tasks : loop'[t] = "cancelling" => loop[t] = "cancelling"
         /\ \A t \in Tasks : loop[t] \in Stages => loop'[t] # "over"
  <1>1. CASE IsRunning
    BY <1>1, Rounds DEF IInv, Begin, TypeOK, OneLoop, Working, IsRunning, Stages
  <1>2. CASE ~IsRunning
    <2>1. PICK n \in Unborn : task' = n /\ loop' = [loop EXCEPT ![n] = "born"]
      BY <1>2 DEF Begin, Create
    <2>2. n \in Tasks /\ loop[n] = "unborn"
      BY DEF Unborn
    <2>3. \A t \in Tasks : loop[t] \notin Stages
      BY <1>2, Rounds, TaskAssumption DEF IInv, OneLoop, Working, IsRunning, Stages
    <2>4. loop \in [Tasks -> Stages \union {"unborn", "cancelling", "over"}]
      BY Rounds DEF IInv, TypeOK
    <2>. QED
      BY <2>1, <2>2, <2>3, <2>4 DEF Stages
  <1>. QED
    BY <1>1, <1>2

\* What stop() leaves behind up to its await.
LEMMA CancelKeeps ==
  ASSUME IInv, IsRunning, NEW c \in Callers, awaits[c] = NoTask, Cancel(c)
  PROVE  /\ task' = NoTask
         /\ awaits' \in [Callers -> Tasks \union {NoTask}]
         /\ loop' \in [Tasks -> Stages \union {"unborn", "cancelling", "over"}]
         /\ \A t \in Tasks : loop'[t] \notin Stages
         /\ \A t \in Tasks : loop[t] = "over" <=> loop'[t] = "over"
         /\ \A t \in Tasks : loop'[t] = "cancelling" => \E d \in Callers : awaits'[d] = t
         /\ \A d \in Callers : d # c => awaits'[d] = awaits[d]
  <1>1. task \in Tasks /\ loop[task] # "over"
    BY DEF IInv, TypeOK, IsRunning
  <1>2. awaits' = [awaits EXCEPT ![c] = task] /\ loop' = [loop EXCEPT ![task] = "cancelling"]
    BY DEF Cancel
  <1>3. ASSUME NEW t \in Tasks, loop'[t] = "cancelling"
        PROVE  \E d \in Callers : awaits'[d] = t
    <2>1. CASE t = task
      BY <1>2, <2>1 DEF IInv, TypeOK
    <2>2. CASE t # task
      <3>1. PICK d \in Callers : awaits[d] = t
        BY <1>1, <1>2, <1>3, <2>2 DEF IInv, TypeOK, Awaited
      <3>2. d # c
        BY <3>1, TaskAssumption
      <3>. QED
        BY <1>2, <3>1, <3>2 DEF IInv, TypeOK
    <2>. QED
      BY <2>1, <2>2
  <1>4. task' = NoTask
    BY DEF Cancel
  <1>. QED
    BY <1>1, <1>2, <1>3, <1>4, Rounds, TaskAssumption
       DEF IInv, TypeOK, OneLoop, Working, Stages

-----------------------------------------------------------------------------
\* Every step of the service keeps the invariant.
LEMMA Inductive == IInv /\ [Next]_vars => IInv'
  <1> SUFFICES ASSUME IInv, [Next]_vars PROVE IInv'
    OBVIOUS
  <1> USE Rounds, TaskAssumption, CallAssumption
  <1>1. ASSUME NEW c \in Calls, Start(c) PROVE IInv'
    <2>1. Begin /\ phase = "up" /\ UNCHANGED <<awaits, phase, breaks>>
      BY <1>1 DEF Start, CanCall
    <2>2. reply' = [reply EXCEPT ![c] =
                Reply(IF IsRunning THEN "already_running" ELSE "started", TRUE, NoTask)]
      BY <1>1 DEF Start
    <2>3. reply' \in [Calls -> Answers]
      BY <2>2 DEF IInv, TypeOK, Reply, Answers
    <2>4. \A d \in Calls : reply'[d].status = "stopped" => reply'[d] = reply[d]
      BY <2>2 DEF IInv, TypeOK, Reply
    <2>. QED
      BY <2>1, <2>3, <2>4, BeginKeeps
         DEF IInv, TypeOK, OneLoop, StoppedMeansOver, Awaited, Quiet,
             LifespanAwaitsLast, NothingLeftBehind, Working, Answers
  <1>2. ASSUME NEW c \in Calls, Stop(c) PROVE IInv'
    <2>1. phase = "up" /\ awaits[c] = NoTask /\ UNCHANGED <<phase, breaks>> /\ c \in Callers
      BY <1>2 DEF Stop, CanCall, Callers
    <2>2. CASE IsRunning
      <3>1. Cancel(c) /\ reply' = [reply EXCEPT ![c] = NoReply]
        BY <1>2, <2>2 DEF Stop
      <3>2. c # Lifespan /\ Lifespan \in Callers
        BY DEF Callers
      <3>. QED
        BY <2>1, <2>2, <3>1, <3>2, CancelKeeps
           DEF IInv, TypeOK, OneLoop, StoppedMeansOver, Awaited, Quiet,
               LifespanAwaitsLast, NothingLeftBehind, Working, NoReply
    <2>3. CASE ~IsRunning
      <3>1. /\ task' = NoTask /\ UNCHANGED <<loop, awaits>>
            /\ reply' = [reply EXCEPT ![c] = Reply("already_stopped", FALSE, NoTask)]
        BY <1>2, <2>3 DEF Stop
      <3>2. \A t \in Tasks : ~Working(t)
        BY <2>3 DEF IInv, TypeOK, OneLoop, Working, IsRunning, Stages
      <3>. QED
        BY <2>1, <3>1, <3>2
           DEF IInv, TypeOK, OneLoop, StoppedMeansOver, Awaited, Quiet,
               LifespanAwaitsLast, NothingLeftBehind, Working, Reply
    <2>. QED
      BY <2>2, <2>3
  <1>3. ASSUME NEW c \in Calls, Stopped(c) PROVE IInv'
    <2>1. /\ awaits[c] # NoTask /\ loop[awaits[c]] = "over" /\ awaits[c] \in Tasks
          /\ awaits' = [awaits EXCEPT ![c] = NoTask]
          /\ \E answer \in {Reply("stopped", IsRunning, awaits[c]), Failed} :
                reply' = [reply EXCEPT ![c] = answer]
          /\ UNCHANGED <<task, loop, phase, breaks>>
      BY <1>3 DEF Stopped, IInv, TypeOK, Callers
    <2>2. c # Lifespan /\ Lifespan \in Callers /\ c \in Callers /\ IsRunning \in BOOLEAN
      BY DEF Callers, IsRunning
    <2>3. Awaited'
      <3> SUFFICES ASSUME NEW t \in Tasks, loop[t] = "cancelling"
                   PROVE  \E d \in Callers : awaits'[d] = t
        BY <2>1 DEF Awaited
      <3>1. PICK d \in Callers : awaits[d] = t
        BY DEF IInv, Awaited
      <3>. QED
        BY <2>1, <2>2, <3>1 DEF IInv, TypeOK
    <2>4. StoppedMeansOver'
      BY <2>1 DEF IInv, TypeOK, StoppedMeansOver, Reply, Failed
    <2>5. TypeOK'
      <3>1. Reply("stopped", IsRunning, awaits[c]) \in Answers /\ Failed \in Answers
        BY <2>1, <2>2 DEF Answers, Reply, Failed
      <3>2. /\ Reply("stopped", IsRunning, awaits[c]).stopped \in Tasks
            /\ Failed.status # "stopped"
        BY <2>1 DEF Reply, Failed
      <3>3. PICK answer \in {Reply("stopped", IsRunning, awaits[c]), Failed} :
               reply' = [reply EXCEPT ![c] = answer]
        BY <2>1
      <3>4. reply' \in [Calls -> Answers]
        BY <3>1, <3>3 DEF IInv, TypeOK, Answers
      <3>5. \A d \in Calls : reply'[d].status = "stopped" => reply'[d].stopped \in Tasks
        BY <3>2, <3>3 DEF IInv, TypeOK
      <3>. QED
        BY <2>1, <2>2, <3>4, <3>5 DEF IInv, TypeOK, Answers
    <2>6. OneLoop' /\ Quiet' /\ LifespanAwaitsLast' /\ NothingLeftBehind'
      BY <2>1, <2>2
         DEF IInv, TypeOK, OneLoop, Quiet, LifespanAwaitsLast, NothingLeftBehind, Working,
             Callers
    <2>. QED
      BY <2>3, <2>4, <2>5, <2>6 DEF IInv
  <1>4. ASSUME NEW t \in Tasks, Step(t) PROVE IInv'
    <2>1. PICK next \in Stages : loop' = [loop EXCEPT ![t] = next]
      BY <1>4 DEF Step, Working
    <2>2. loop[t] \in Stages /\ UNCHANGED <<task, awaits, reply, phase, breaks>>
      BY <1>4 DEF Step, Working
    <2>3. phase # "closing" /\ phase # "down"
      BY <2>2 DEF IInv, Quiet, NothingLeftBehind, Working, Stages
    <2>. QED
      BY <2>1, <2>2, <2>3
         DEF IInv, TypeOK, OneLoop, StoppedMeansOver, Awaited, Quiet,
             LifespanAwaitsLast, NothingLeftBehind, Working, Stages
  <1>5. ASSUME NEW t \in Tasks, Break(t) PROVE IInv'
    <2>1. /\ loop' = [loop EXCEPT ![t] = "over"] /\ loop[t] \in Stages
          /\ UNCHANGED <<task, awaits, reply, phase>>
      BY <1>5 DEF Break, Working
    <2>2. breaks' \in 0..MaxBreaks
      BY <1>5, BoundAssumption DEF Break, IInv, TypeOK
    <2>. QED
      BY <2>1, <2>2
         DEF IInv, TypeOK, OneLoop, StoppedMeansOver, Awaited, Quiet,
             LifespanAwaitsLast, NothingLeftBehind, Working, Stages
  <1>6. ASSUME NEW t \in Tasks, Unwind(t) PROVE IInv'
    <2>1. /\ loop' = [loop EXCEPT ![t] = "over"]
          /\ UNCHANGED <<task, awaits, reply, phase, breaks>>
      BY <1>6 DEF Unwind
    <2>. QED
      BY <2>1
         DEF IInv, TypeOK, OneLoop, StoppedMeansOver, Awaited, Quiet,
             LifespanAwaitsLast, NothingLeftBehind, Working, Stages
  <1>7. CASE Startup
    <2>1. phase = "starting" /\ phase' = "up" /\ UNCHANGED <<awaits, reply, breaks>>
      BY <1>7 DEF Startup
    <2>2. CASE Begin
      BY <2>1, <2>2, BeginKeeps
         DEF IInv, TypeOK, OneLoop, StoppedMeansOver, Awaited, Quiet,
             LifespanAwaitsLast, NothingLeftBehind, Working
    <2>3. CASE UNCHANGED <<task, loop>>
      BY <2>1, <2>3
         DEF IInv, TypeOK, OneLoop, StoppedMeansOver, Awaited, Quiet,
             LifespanAwaitsLast, NothingLeftBehind, Working
    <2>. QED
      BY <1>7, <2>2, <2>3 DEF Startup
  <1>8. CASE Drain
    BY <1>8
       DEF Drain, IInv, TypeOK, OneLoop, StoppedMeansOver, Awaited, Quiet,
           LifespanAwaitsLast, NothingLeftBehind, Working
  <1>9. CASE Close
    <2>1. /\ phase' = "closing" /\ UNCHANGED <<reply, breaks>>
          /\ \A c \in Callers : awaits[c] = NoTask
      BY <1>9 DEF Close
    <2>2. Lifespan \in Callers /\ \A c \in Calls : c \in Callers /\ c # Lifespan
      BY DEF Callers
    <2>3. CASE IsRunning
      <3>1. Cancel(Lifespan)
        BY <1>9, <2>3 DEF Close
      <3>. QED
        BY <2>1, <2>2, <2>3, <3>1, CancelKeeps
           DEF IInv, TypeOK, OneLoop, StoppedMeansOver, Awaited, Quiet,
               LifespanAwaitsLast, NothingLeftBehind, Working
    <2>4. CASE ~IsRunning
      <3>1. task' = NoTask /\ UNCHANGED <<loop, awaits>>
        BY <1>9, <2>4 DEF Close
      <3>2. \A t \in Tasks : ~Working(t)
        BY <2>4 DEF IInv, TypeOK, OneLoop, Working, IsRunning, Stages
      <3>. QED
        BY <2>1, <2>2, <3>1, <3>2
           DEF IInv, TypeOK, OneLoop, StoppedMeansOver, Awaited, Quiet,
               LifespanAwaitsLast, NothingLeftBehind, Working
    <2>. QED
      BY <2>3, <2>4
  <1>10. CASE Closed
    <2>1. /\ phase = "closing" /\ phase' = "down"
          /\ awaits[Lifespan] # NoTask => loop[awaits[Lifespan]] = "over"
          /\ awaits' = [awaits EXCEPT ![Lifespan] = NoTask]
          /\ UNCHANGED <<task, loop, reply, breaks>>
      BY <1>10 DEF Closed
    <2>2. Lifespan \in Callers /\ \A c \in Calls : c \in Callers /\ c # Lifespan
      BY DEF Callers
    <2>3. \A t \in Tasks : loop[t] \in {"unborn", "over"}
      <3> SUFFICES ASSUME NEW t \in Tasks PROVE loop[t] \in {"unborn", "over"}
        OBVIOUS
      <3>1. loop[t] \notin Stages
        BY <2>1 DEF IInv, Quiet, Working
      <3>2. loop[t] # "cancelling"
        <4> SUFFICES ASSUME loop[t] = "cancelling" PROVE FALSE
          OBVIOUS
        <4>1. PICK c \in Callers : awaits[c] = t
          BY DEF IInv, Awaited
        <4>2. c = Lifespan
          BY <2>1, <4>1 DEF IInv, Quiet, Callers
        <4>. QED
          BY <2>1, <4>1, <4>2
      <3>. QED
        BY <3>1, <3>2 DEF IInv, TypeOK
    <2>. QED
      BY <2>1, <2>2, <2>3
         DEF IInv, TypeOK, OneLoop, StoppedMeansOver, Awaited, Quiet,
             LifespanAwaitsLast, NothingLeftBehind, Working, Stages
  <1>11. CASE UNCHANGED vars
    BY <1>11
       DEF vars, IInv, TypeOK, OneLoop, StoppedMeansOver, Awaited, Quiet,
           LifespanAwaitsLast, NothingLeftBehind, Working
  <1>. QED
    BY <1>1, <1>2, <1>3, <1>4, <1>5, <1>6, <1>7, <1>8, <1>9, <1>10, <1>11 DEF Next

\* The invariant holds in every state the service reaches.
THEOREM Invariance == Spec => []IInv
  BY Initially, Inductive, PTL DEF Spec

\* Every variable keeps the values the code can give it.
THEOREM TypeCorrect == Spec => []TypeOK
  <1>1. IInv => TypeOK
    BY DEF IInv
  <1>. QED
    BY <1>1, Invariance, PTL

\* However many calls overlap, at most one loop generates load and stop() can reach it.
THEOREM OneLoopHolds == Spec => []OneLoop
  <1>1. IInv => OneLoop
    BY DEF IInv
  <1>. QED
    BY <1>1, Invariance, PTL

\* An answer "stopped" stays true: the loop it is about never sends again.
THEOREM StoppedMeansOverHolds == Spec => []StoppedMeansOver
  <1>1. IInv => StoppedMeansOver
    BY DEF IInv
  <1>. QED
    BY <1>1, Invariance, PTL

\* A loop at work ends only through stop(), or by an exception that is no HTTPError.
THEOREM HttpErrorsDoNotStopHolds == Spec => HttpErrorsDoNotStop
  <1> DEFINE Ends == \A t \in Tasks : Working(t) /\ loop'[t] = "over" => breaks' > breaks
  <1>1. ASSUME IInv, [Next]_vars PROVE [Ends]_vars
    <2> SUFFICES ASSUME Next, NEW t \in Tasks, Working(t), loop'[t] = "over"
                 PROVE  breaks' > breaks
      BY <1>1
    <2> USE Rounds
    <2>0. /\ loop[t] \in Stages /\ loop[t] # "over"
          /\ loop \in [Tasks -> Stages \union {"unborn", "cancelling", "over"}]
      BY <1>1 DEF Working, Stages, IInv, TypeOK
    <2>1. ~Begin
      BY <1>1, <2>0, BeginKeeps
    <2>2. ~(UNCHANGED loop)
      BY <2>0
    <2>3. \A c \in Callers : ~Cancel(c)
      BY <2>0 DEF Cancel
    <2>4. \A u \in Tasks : ~Step(u) /\ ~Unwind(u)
      <3>1. ASSUME NEW u \in Tasks, Step(u) PROVE FALSE
        <4>1. PICK next \in Stages : loop' = [loop EXCEPT ![u] = next]
          BY <3>1 DEF Step, Working
        <4>. QED
          BY <2>0, <4>1 DEF Stages
      <3>2. ASSUME NEW u \in Tasks, Unwind(u) PROVE FALSE
        BY <2>0, <3>2 DEF Unwind, Stages
      <3>. QED
        BY <3>1, <3>2
    <2>5. PICK u \in Tasks : Break(u)
      BY <2>1, <2>2, <2>3, <2>4
         DEF Next, Start, Stop, Stopped, Startup, Drain, Close, Closed, Callers
    <2>. QED
      BY <1>1, <2>5, BoundAssumption DEF Break, IInv, TypeOK
  <1>. QED
    BY <1>1, Invariance, PTL DEF Spec, HttpErrorsDoNotStop

\* When the service is down no loop is left.
THEOREM NothingLeftBehindHolds == Spec => []NothingLeftBehind
  <1>1. IInv => NothingLeftBehind
    BY DEF IInv
  <1>. QED
    BY <1>1, Invariance, PTL

-----------------------------------------------------------------------------
(* What the loop sends.                                                    *)

\* A loop goes on as Following says.
LEMMA GoSteps == ASSUME NEW t \in Tasks, NEW next, Working(t), next \in Following[loop[t]], Go(t, next)
                 PROVE  Step(t)
  BY DEF Go, Step

\* Where a session leaves the loop.
LEMMA OnwardGoes == ASSUME NEW t, Onward(t) PROVE Go(t, "view") \/ Go(t, "sleep")
  BY DEF Onward

\* What a loop does in a round is a step of the controller's loop.
LEMMA RoundSteps == ASSUME NEW t \in Tasks, BeginRound(t) \/ Browse(t) \/ Buy(t) PROVE Step(t)
<1> DEFINE Moves(s) == Go(t, s) /\ s \in Following[loop[t]]
<1>1. ASSUME BeginRound(t) PROVE Working(t) /\ \E s \in Stages : Moves(s)
  BY <1>1 DEF BeginRound, Awake, Working, Following, Stages
<1>2. ASSUME Browse(t) PROVE Working(t) /\ \E s \in Stages : Moves(s)
  BY <1>2, OnwardGoes DEF Browse, MaybeOrder, Working, Following, Stages, Chances
<1>3. ASSUME Buy(t) PROVE Working(t) /\ \E s \in Stages : Moves(s)
  BY <1>3, OnwardGoes DEF Buy, Weight, Onward, Working, Following, Stages
<1> QED
  BY <1>1, <1>2, <1>3, GoSteps

\* The clock apart, every step is one of the controller.
LEMMA ControllerStep == [RoundNext]_rounds => [Next]_vars
<1>1. ASSUME NEW t \in Tasks, BeginRound(t) \/ Browse(t) \/ Buy(t) PROVE Next
  BY <1>1, RoundSteps DEF Next
<1>2. ASSUME Control PROVE Next
  BY <1>2 DEF Control, Next
<1> QED
  BY <1>1, <1>2 DEF RoundNext, rounds, Tick, vars

\* Whatever a round's plan is, the loop is the one the controller's theorems are about.
THEOREM RoundsImplementController == RoundSpec => ImplementsController
<1>1. RoundInit => Init
  BY DEF RoundInit
<1> QED
  BY <1>1, ControllerStep, PTL DEF RoundSpec, ImplementsController, Spec

-----------------------------------------------------------------------------
(* Types.                                                                  *)

RoundTypes == [left : Nat, odds : 0..(Percent * Percent), wake : Nat]

\* Factors are natural numbers.
LEMMA FactorTypes == ASSUME NEW m
                     PROVE  /\ Band(m).load \in Nat /\ Band(m).orders \in Nat
                            /\ Factors(m) \subseteq Nat
<1>1. Even.load \in Nat /\ Even.orders \in Nat
  BY DEF Even, Percent
<1>2. ASSUME Settings.schedule_mode \in DOMAIN Settings.schedules
      PROVE  LET mode == Settings.schedules[Settings.schedule_mode]
             IN  /\ mode.peak.load \in Nat /\ mode.peak.orders \in Nat
                 /\ mode.dip.load \in Nat /\ mode.dip.orders \in Nat
  BY <1>2, RatesAssumption
<1>3. Band(m).load \in Nat /\ Band(m).orders \in Nat
  BY <1>1, <1>2 DEF Band
<1>4. AnomalyFactors \subseteq Nat
  BY RatesAssumption DEF AnomalyFactors, Percent
<1>5. Slot(m) \in {"low", "high"}
  BY DEF Slot
<1>6. Factors(m) \subseteq Nat
  BY <1>4, <1>5, RatesAssumption DEF Factors
<1> QED
  BY <1>3, <1>6

\* A count is a natural number.
LEMMA SampleTypes == ASSUME NEW base \in Nat, NEW factor \in Nat, NEW jitter
                     PROVE  Samples(base, factor, jitter) \subseteq Nat
<1>1. base * factor \in Nat
  OBVIOUS
<1>2. ASSUME NEW n \in Nat PROVE Rounded(n, Percent * Percent) \in Nat
  <2>1. n \div 10000 \in Nat /\ n % 10000 \in Nat
    BY <1>2
  <2>2. Percent * Percent = 10000
    BY DEF Percent
  <2> QED
    BY <2>1, <2>2 DEF Rounded
<1>3. 0..MaxCount \subseteq Nat
  BY CountsAssumption
<1> QED
  BY <1>1, <1>2, <1>3 DEF Samples

\* Whatever is drawn, a plan is a number of sessions and a chance.
LEMMA PlanTypes == ASSUME NEW m, NEW plan \in Plans(m)
                   PROVE  plan.views \in Nat /\ plan.odds \in 0..(Percent * Percent)
<1>1. PICK n \in Counts(m) :
         /\ plan.views = Max({n.sessions, n.orders * Settings.min_views_per_order})
         /\ plan.odds = Min({Percent * Percent, Settings.order_prob * Band(m).orders})
  BY DEF Plans
<1>2. n.orders \in Nat /\ n.sessions \in Nat
  <2>1. PICK f \in Factors(m) :
           n \in [orders   : Samples(Settings.base_orders, Band(m).load * f, Settings.order_jitter),
                  sessions : Samples(Settings.base_sessions, Band(m).load * f, Settings.session_jitter)]
    BY DEF Counts
  <2>2. f \in Nat /\ Band(m).load \in Nat
    BY FactorTypes
  <2>3. Band(m).load * f \in Nat /\ Settings.base_orders \in Nat /\ Settings.base_sessions \in Nat
    BY <2>2, RatesAssumption
  <2> QED
    BY <2>1, <2>3, SampleTypes
<1>3. ASSUME NEW a \in Nat, NEW b \in Nat
      PROVE  Max({a, b}) \in {a, b} /\ Min({a, b}) \in {a, b} /\ Min({a, b}) <= a
  <2>1. \E x \in {a, b} : \A y \in {a, b} : x >= y
    BY <1>3
  <2>2. \E x \in {a, b} : \A y \in {a, b} : x <= y
    BY <1>3
  <2>3. Max({a, b}) \in {a, b}
    BY <2>1 DEF Max
  <2>4. Min({a, b}) \in {a, b} /\ \A y \in {a, b} : Min({a, b}) <= y
    BY <2>2 DEF Min
  <2> QED
    BY <2>3, <2>4
<1>4. plan.views \in Nat
  <2>1. n.orders * Settings.min_views_per_order \in Nat
    BY <1>2, RatesAssumption
  <2> QED
    BY <1>1, <1>2, <1>3, <2>1
<1>5. plan.odds \in 0..(Percent * Percent)
  <2>1. Percent * Percent \in Nat /\ Settings.order_prob * Band(m).orders \in Nat
    BY FactorTypes, RatesAssumption DEF Percent
  <2>2. plan.odds \in Nat /\ plan.odds <= Percent * Percent
    BY <1>1, <1>3, <2>1
  <2> QED
    BY <2>1, <2>2
<1> QED
  BY <1>4, <1>5

\* A loop that moves on keeps a round of its type, with a session left while it posts.
LEMMA OwnStepTypes == ASSUME TypeOK, RoundTypeOK, NEW t \in Tasks,
                             BeginRound(t) \/ Browse(t) \/ Buy(t)
                      PROVE  RoundTypeOK'
<1> DEFINE Posting(u) == loop[u] \in {"view", "checkout", "order", "purchase"}
           Kept == /\ round' \in [Tasks -> RoundTypes]
                   /\ \A u \in Tasks : Posting(u)' => round'[u].left > 0
<1>1. /\ DOMAIN loop = Tasks
      /\ round \in [Tasks -> RoundTypes] /\ now \in 0..End /\ 0..End \subseteq Nat
      /\ \A u \in Tasks : Posting(u) => round[u].left > 0
  BY CountsAssumption DEF TypeOK, RoundTypeOK, RoundTypes
<1>2. Asleep \in RoundTypes
  <2>1. now + Settings.interval \in Nat /\ 0 \in 0..(Percent * Percent)
    BY <1>1, ClockAssumption DEF Percent
  <2> QED
    BY <2>1 DEF Asleep, NoRound, RoundTypes
<1>3. ASSUME NEW s, Go(t, s), UNCHANGED round, Posting(t) PROVE Kept
  BY <1>1, <1>3 DEF Go
<1>4. ASSUME NEW s, Go(t, s), NEW r \in RoundTypes, round' = [round EXCEPT ![t] = r],
             s = "sleep" \/ r.left > 0
      PROVE  Kept
  BY <1>1, <1>4 DEF Go
<1>5. ASSUME Onward(t) PROVE Kept
  <2>1. CASE round[t].left > 1
    <3> DEFINE r == [round[t] EXCEPT !.left = @ - 1]
    <3>1. r \in RoundTypes /\ r.left > 0
      BY <1>1, <2>1 DEF RoundTypes
    <3>2. Go(t, "view") /\ round' = [round EXCEPT ![t] = r]
      BY <1>5, <2>1 DEF Onward
    <3> HIDE DEF r
    <3> QED
      BY <1>4, <3>1, <3>2
  <2>2. CASE ~(round[t].left > 1)
    BY <1>2, <1>4, <1>5, <2>2 DEF Onward
  <2> QED
    BY <2>1, <2>2
<1>6. ASSUME BeginRound(t) PROVE Kept
  <2>1. PICK plan \in Plans(now) :
           IF plan.views = 0
           THEN Go(t, "sleep") /\ round' = [round EXCEPT ![t] = Asleep]
           ELSE /\ Go(t, "view")
                /\ round' = [round EXCEPT ![t] = [left |-> plan.views, odds |-> plan.odds, wake |-> 0]]
    BY <1>6 DEF BeginRound
  <2>2. plan.views \in Nat /\ plan.odds \in 0..(Percent * Percent)
    BY PlanTypes
  <2>3. CASE plan.views = 0
    BY <1>2, <1>4, <2>1, <2>3
  <2>4. CASE plan.views # 0
    <3> DEFINE r == [left |-> plan.views, odds |-> plan.odds, wake |-> 0]
    <3>1. r \in RoundTypes /\ r.left > 0
      BY <2>2, <2>4 DEF RoundTypes
    <3>2. Go(t, "view") /\ round' = [round EXCEPT ![t] = r]
      BY <2>1, <2>4
    <3> HIDE DEF r
    <3> QED
      BY <1>4, <3>1, <3>2
  <2> QED
    BY <2>3, <2>4
<1>7. ASSUME Browse(t) PROVE Kept
  BY <1>3, <1>5, <1>7 DEF Browse, MaybeOrder
<1>8. ASSUME Buy(t) PROVE Kept
  BY <1>3, <1>5, <1>8 DEF Buy, Weight
<1>9. /\ now' \in 0..End /\ begun' \in Nat /\ surplus' \in Int
      /\ lost' \in 0..MaxLost /\ cuts' \in Nat
  <2>1. now \in 0..End /\ begun \in Nat /\ surplus \in Int /\ lost \in 0..MaxLost /\ cuts \in Nat
    BY DEF RoundTypeOK
  <2>2. CASE BeginRound(t) \/ Browse(t)
    BY <2>1, <2>2 DEF BeginRound, Browse
  <2>3. CASE Buy(t)
    <3>1. Weight[loop[t]] \in Int
      BY <2>3 DEF Buy, Weight
    <3> QED
      BY <2>1, <2>3, <3>1, CountsAssumption DEF Buy, Landed, Lost
  <2> QED
    BY <2>2, <2>3
<1> QED
  BY <1>6, <1>7, <1>8, <1>9 DEF RoundTypeOK, RoundTypes

\* Nor does anything else give a loop a post, or take a session from one that posts.
LEMMA ControlTypes == ASSUME TypeOK, RoundTypeOK, Control PROVE RoundTypeOK'
<1> DEFINE cut == {t \in Tasks : loop[t] \in DOMAIN Weight /\ loop'[t] # loop[t]}
<1>1. /\ DOMAIN loop = Tasks /\ round \in [Tasks -> RoundTypes]
      /\ \A t \in Tasks : loop[t] \in {"view", "checkout", "order", "purchase"} => round[t].left > 0
      /\ now \in 0..End /\ begun \in Nat /\ surplus \in Int /\ lost \in 0..MaxLost /\ cuts \in Nat
  BY DEF TypeOK, RoundTypeOK, RoundTypes
<1>2. /\ cuts' = cuts + Cardinality(cut)
      /\ surplus' \in {surplus} \union {surplus + Weight[loop[t]] : t \in cut}
      /\ round' = [t \in Tasks |-> IF loop'[t] = loop[t] THEN round[t] ELSE NoRound]
      /\ UNCHANGED <<now, begun, lost>>
  BY DEF Control
<1>3. ASSUME Begin
      PROVE  loop' = loop \/ \E n \in Unborn : loop' = [loop EXCEPT ![n] = "born"]
  BY <1>3 DEF Begin, Create
<1>4. \/ loop' = loop
      \/ \E u, s : loop' = [loop EXCEPT ![u] = s] /\ s \in {"born", "cancelling", "over"}
  BY <1>3 DEF Control, Start, Stop, Stopped, Break, Unwind, Startup, Drain, Close, Closed, Cancel
<1>5. \A t \in Tasks : loop'[t] = loop[t] \/ loop'[t] \in {"born", "cancelling", "over"}
  BY <1>1, <1>4
<1>6. NoRound \in RoundTypes
  BY DEF NoRound, RoundTypes, Percent
<1>7. /\ round' \in [Tasks -> RoundTypes]
      /\ \A t \in Tasks : loop'[t] \in {"view", "checkout", "order", "purchase"} => round'[t].left > 0
  BY <1>1, <1>2, <1>5, <1>6
<1>8. cuts' \in Nat
  <2>1. IsFiniteSet(cut)
    BY TaskAssumption, FS_Subset
  <2>2. Cardinality(cut) \in Nat
    BY <2>1, FS_CardinalityType
  <2> QED
    BY <1>1, <1>2, <2>2
<1>9. surplus' \in Int
  <2>1. \A t \in cut : Weight[loop[t]] \in Int
    BY DEF Weight
  <2> QED
    BY <1>1, <1>2, <2>1
<1> QED
  BY <1>1, <1>2, <1>7, <1>8, <1>9 DEF RoundTypeOK, RoundTypes

\* Every variable keeps to the values the code can give it, for any settings and draws.
THEOREM RoundTypeCorrect == RoundSpec => []RoundTypeOK
<1>1. RoundInit => RoundTypeOK
  BY CountsAssumption DEF RoundInit, Init, RoundTypeOK, NoRound, Percent
<1>2. ASSUME IInv, RoundTypeOK, [RoundNext]_rounds PROVE RoundTypeOK'
  <2>1. TypeOK
    BY <1>2 DEF IInv
  <2>2. CASE Tick
    BY <1>2, <2>2, CountsAssumption DEF Tick, RoundTypeOK, vars, load
  <2>3. CASE UNCHANGED rounds
    BY <1>2, <2>3 DEF rounds, vars, load, RoundTypeOK
  <2> QED
    BY <1>2, <2>1, <2>2, <2>3, OwnStepTypes, ControlTypes DEF RoundNext
<1>3. RoundSpec => []IInv
  BY RoundsImplementController, Invariance, PTL DEF ImplementsController
<1> QED
  BY <1>1, <1>2, <1>3, PTL DEF RoundSpec

-----------------------------------------------------------------------------
(* The account of the rounds.                                              *)

Interval == Settings.interval

\* The loops start() has made.
Born == Tasks \ Unborn

\* How many rounds are paid for by the time m.
Credit(m) == Cardinality(Born) + (m \div Interval)

\* A loop that is to begin a round finds it paid for when it may.
NextIsPaid ==
    \A t \in Tasks : /\ loop[t] = "born" => begun + 1 <= Credit(now)
                     /\ loop[t] = "sleep" => /\ round[t].wake \in Nat
                                             /\ begun + 1 <= Credit(round[t].wake)

SpacedInv == /\ now \in Nat /\ begun \in Nat /\ DOMAIN round = Tasks
             /\ begun <= Credit(now)
             /\ NextIsPaid

\* Time pays one round per interval, and never takes one back.
LEMMA CreditGrows == ASSUME NEW a \in Nat, NEW b \in Nat
                     PROVE  /\ Interval \in Nat \ {0} /\ Cardinality(Born) \in Nat /\ Credit(a) \in Nat
                            /\ a <= b => Credit(a) <= Credit(b)
                            /\ Credit(a + Interval) = Credit(a) + 1
<1>1. Interval \in Nat \ {0}
  BY ClockAssumption DEF Interval
<1>2. IsFiniteSet(Born)
  BY TaskAssumption, FS_Subset DEF Born
<1>3. Cardinality(Born) \in Nat
  BY <1>2, FS_CardinalityType
<1>4. /\ a \div Interval \in Nat
      /\ a <= b => a \div Interval <= b \div Interval
      /\ (a + Interval) \div Interval = (a \div Interval) + 1
  BY <1>1
<1> QED
  BY <1>1, <1>3, <1>4 DEF Credit

\* start() makes loops and nothing takes them back; each new one pays for its first round.
LEMMA BirthsPay == ASSUME Unborn' \subseteq Unborn
                   PROVE  /\ Cardinality(Born) \in Nat /\ Cardinality(Born') \in Nat
                          /\ Cardinality(Born) <= Cardinality(Born')
                          /\ \A t \in Tasks : t \in Unborn /\ t \notin Unborn'
                                => Cardinality(Born) + 1 <= Cardinality(Born')
<1>1. /\ IsFiniteSet(Born) /\ Cardinality(Born) \in Nat
      /\ IsFiniteSet(Born') /\ Cardinality(Born') \in Nat
  <2>1. Born \in SUBSET Tasks /\ Born' \in SUBSET Tasks
    BY DEF Born
  <2>2. IsFiniteSet(Born) /\ IsFiniteSet(Born')
    BY <2>1, TaskAssumption, FS_Subset
  <2> QED
    BY <2>2, FS_CardinalityType
<1>2. Born \in SUBSET Born'
  BY DEF Born
<1>3. Cardinality(Born) <= Cardinality(Born')
  BY <1>1, <1>2, FS_Subset
<1>4. ASSUME NEW t \in Tasks, t \in Unborn, t \notin Unborn'
      PROVE  Cardinality(Born) + 1 <= Cardinality(Born')
  <2>1. t \notin Born /\ Born \union {t} \in SUBSET Born'
    BY <1>4 DEF Born
  <2>2. Cardinality(Born \union {t}) = Cardinality(Born) + 1
    BY <1>1, <2>1, FS_AddElement
  <2>3. Cardinality(Born \union {t}) <= Cardinality(Born')
    BY <1>1, <2>1, FS_Subset
  <2> QED
    BY <2>2, <2>3
<1> QED
  BY <1>1, <1>3, <1>4

\* What a loop leaves when it moves on: it sleeps until the next round is due, or it
\* awaits a post.
LEMMA MovesOn ==
    ASSUME NEW t \in Tasks, DOMAIN round = Tasks, DOMAIN loop = Tasks,
           BeginRound(t) \/ Browse(t) \/ Buy(t)
    PROVE  /\ now' = now /\ DOMAIN round' = Tasks
           /\ \/ loop'[t] = "sleep" /\ round'[t].wake = now + Interval
              \/ loop'[t] \notin {"born", "sleep", "unborn"}
           /\ \A u \in Tasks : u # t => loop'[u] = loop[u] /\ round'[u] = round[u]
<1> DEFINE Left == /\ DOMAIN round' = Tasks
                   /\ \/ loop'[t] = "sleep" /\ round'[t].wake = now + Interval
                      \/ loop'[t] \notin {"born", "sleep", "unborn"}
                   /\ \A u \in Tasks : u # t => loop'[u] = loop[u] /\ round'[u] = round[u]
<1>1. Asleep.wake = now + Interval
  BY DEF Asleep, NoRound, Interval
<1>2. ASSUME Onward(t) PROVE Left
  BY <1>1, <1>2 DEF Onward, Go
<1>3. ASSUME BeginRound(t) PROVE Left
  BY <1>1, <1>3 DEF BeginRound, Go
<1>4. ASSUME Browse(t) PROVE Left
  BY <1>2, <1>4 DEF Browse, MaybeOrder, Go
<1>5. ASSUME Buy(t) PROVE Left
  BY <1>2, <1>5 DEF Buy, Go
<1>6. now' = now
  BY DEF BeginRound, Browse, Buy
<1> QED
  BY <1>3, <1>4, <1>5, <1>6

\* A round is begun on the account, and the sleep after it pays for the next.
LEMMA OwnStepPaid ==
    ASSUME TypeOK, OneLoop, SpacedInv, NEW t \in Tasks, BeginRound(t) \/ Browse(t) \/ Buy(t)
    PROVE  SpacedInv'
<1>1. DOMAIN loop = Tasks /\ DOMAIN round = Tasks /\ now \in Nat /\ begun \in Nat
  BY DEF TypeOK, SpacedInv
<1>2. Working(t)
  BY DEF BeginRound, Awake, Browse, Buy, Weight, Working, Following
<1>3. /\ now' = now /\ DOMAIN round' = Tasks
      /\ \/ loop'[t] = "sleep" /\ round'[t].wake = now + Interval
         \/ loop'[t] \notin {"born", "sleep", "unborn"}
      /\ \A u \in Tasks : u # t => loop'[u] = loop[u] /\ round'[u] = round[u]
  BY <1>1, MovesOn
<1>4. \A u \in Tasks : u # t => loop'[u] \notin {"born", "sleep"}
  BY <1>2, <1>3 DEF OneLoop, Working, Following
<1>5. Unborn' = Unborn
  BY <1>2, <1>3 DEF Unborn, Working, Following
<1>7. begun' \in Nat /\ begun' <= Credit(now)
  <2>1. CASE BeginRound(t)
    <3>1. begun' = begun + 1
      BY <2>1 DEF BeginRound
    <3>2. begun + 1 <= Credit(now)
      <4>1. CASE loop[t] = "born"
        BY <4>1 DEF SpacedInv, NextIsPaid
      <4>2. CASE loop[t] = "sleep"
        <5>1. round[t].wake \in Nat /\ begun + 1 <= Credit(round[t].wake) /\ round[t].wake <= now
          BY <2>1, <4>2 DEF BeginRound, Awake, SpacedInv, NextIsPaid
        <5> QED
          BY <1>1, <5>1, CreditGrows
      <4> QED
        BY <2>1, <4>1, <4>2 DEF BeginRound, Awake
    <3> QED
      BY <1>1, <3>1, <3>2
  <2>2. CASE Browse(t) \/ Buy(t)
    BY <1>1, <2>2 DEF Browse, Buy, SpacedInv
  <2> QED
    BY <2>1, <2>2
<1>8. begun' + 1 <= Credit(now + Interval) /\ now + Interval \in Nat
  BY <1>1, <1>7, CreditGrows
<1>6. \A m \in Nat : Cardinality(Born)' + (m \div Interval) = Credit(m)
  BY <1>5 DEF Born, Credit
<1> QED
  BY <1>1, <1>3, <1>4, <1>6, <1>7, <1>8 DEF SpacedInv, NextIsPaid, Credit

\* What the API, the lifespan and exceptions do to loops: none starts to wait for a round
\* but one that is born.
LEMMA ControlMoves ==
    ASSUME TypeOK, Control, NEW t \in Tasks
    PROVE  /\ loop'[t] \in {"born", "sleep"} /\ loop'[t] # loop[t]
                => loop'[t] = "born" /\ loop[t] = "unborn"
           /\ loop'[t] = "unborn" => loop[t] = "unborn"
<1>1. ASSUME Begin
      PROVE  loop' = loop \/ \E n \in Unborn : loop' = [loop EXCEPT ![n] = "born"]
  BY <1>1 DEF Begin, Create
<1>2. \/ loop' = loop
      \/ \E n \in Unborn : loop' = [loop EXCEPT ![n] = "born"]
      \/ \E u : loop' = [loop EXCEPT ![u] = "cancelling"]
      \/ \E u : loop' = [loop EXCEPT ![u] = "over"]
  BY <1>1 DEF Control, Start, Stop, Stopped, Break, Unwind, Startup, Drain, Close, Closed, Cancel
<1> QED
  BY <1>2 DEF TypeOK, Unborn

\* start() pays for the round its loop begins with, and a loop that goes on sleeping has
\* paid already.
LEMMA ControlPaid == ASSUME TypeOK, SpacedInv, Control PROVE SpacedInv'
<1>1. Unborn' \subseteq Unborn
  BY ControlMoves DEF Unborn
<1>2. /\ UNCHANGED <<now, begun>> /\ now \in Nat /\ begun \in Nat
      /\ DOMAIN round' = Tasks
      /\ \A t \in Tasks : loop'[t] = loop[t] => round'[t] = round[t]
  BY DEF Control, SpacedInv
<1>3. Cardinality(Born) \in Nat /\ Cardinality(Born') \in Nat /\ Cardinality(Born) <= Cardinality(Born')
  BY <1>1, BirthsPay
<1>4. \A m \in Nat : /\ m \div Interval \in Nat /\ Credit(m) \in Nat
                      /\ Credit(m) <= Cardinality(Born') + (m \div Interval)
  <2>1. \A m \in Nat : m \div Interval \in Nat
    BY ClockAssumption DEF Interval
  <2> QED
    BY <1>3, <2>1 DEF Credit
<1>5. begun' <= Cardinality(Born') + (now' \div Interval)
  <2>1. /\ Credit(now) \in Nat /\ now \div Interval \in Nat /\ begun <= Credit(now)
        /\ Credit(now) <= Cardinality(Born') + (now \div Interval)
    BY <1>2, <1>4 DEF SpacedInv
  <2> QED
    BY <1>2, <1>3, <2>1
<1>6. ASSUME NEW t \in Tasks, loop'[t] \in {"born", "sleep"}
      PROVE  /\ loop'[t] = "born" => begun' + 1 <= Cardinality(Born') + (now' \div Interval)
             /\ loop'[t] = "sleep" =>
                   /\ round'[t].wake \in Nat
                   /\ begun' + 1 <= Cardinality(Born') + (round'[t].wake \div Interval)
  <2>1. CASE loop'[t] = loop[t]
    <3>1. CASE loop[t] = "born"
      <4>1. begun + 1 <= Credit(now)
        BY <3>1 DEF SpacedInv, NextIsPaid
      <4>2. /\ Credit(now) \in Nat /\ now \div Interval \in Nat
            /\ Credit(now) <= Cardinality(Born') + (now \div Interval)
        BY <1>2, <1>4
      <4> QED
        BY <1>2, <1>3, <2>1, <3>1, <4>1, <4>2
    <3>2. CASE loop[t] = "sleep"
      <4>1. round[t].wake \in Nat /\ begun + 1 <= Credit(round[t].wake) /\ round'[t] = round[t]
        BY <1>2, <2>1, <3>2 DEF SpacedInv, NextIsPaid
      <4>2. /\ Credit(round[t].wake) \in Nat /\ round[t].wake \div Interval \in Nat
            /\ Credit(round[t].wake) <= Cardinality(Born') + (round[t].wake \div Interval)
        BY <1>4, <4>1
      <4>3. begun + 1 <= Cardinality(Born') + (round[t].wake \div Interval)
        BY <1>2, <1>3, <4>1, <4>2
      <4> QED
        BY <1>2, <2>1, <3>2, <4>1, <4>3
    <3> QED
      BY <1>6, <2>1, <3>1, <3>2
  <2>2. CASE loop'[t] # loop[t]
    <3>1. loop'[t] = "born" /\ loop[t] = "unborn"
      BY <1>6, <2>2, ControlMoves
    <3>2. Cardinality(Born) + 1 <= Cardinality(Born')
      BY <1>1, <3>1, BirthsPay DEF Unborn
    <3>3. begun <= Cardinality(Born) + (now \div Interval) /\ now \div Interval \in Nat
      BY <1>2, <1>4 DEF SpacedInv, Credit
    <3> QED
      BY <1>2, <1>3, <3>1, <3>2, <3>3
  <2> QED
    BY <2>1, <2>2
<1> QED
  BY <1>2, <1>5, <1>6 DEF SpacedInv, NextIsPaid, Credit

\* Waiting costs nothing.
LEMMA TickPaid == ASSUME SpacedInv, Tick PROVE SpacedInv'
<1>1. UNCHANGED <<loop, round, begun>> /\ now' = now + 1 /\ now \in Nat /\ begun \in Nat
  BY DEF Tick, vars, load, SpacedInv
<1>2. Credit(now) <= Credit(now + 1) /\ Credit(now) \in Nat /\ Credit(now + 1) \in Nat
  BY <1>1, CreditGrows
<1>3. Unborn' = Unborn
  BY <1>1 DEF Unborn
<1>4. \A m \in Nat : Cardinality(Born') + (m \div Interval) = Credit(m)
  BY <1>3 DEF Born, Credit
<1>5. begun <= Credit(now + 1) /\ (begun + 1 <= Credit(now) => begun + 1 <= Credit(now + 1))
  BY <1>1, <1>2 DEF SpacedInv
<1>6. now + 1 \in Nat
  BY <1>1
<1> QED
  BY <1>1, <1>4, <1>5, <1>6 DEF SpacedInv, NextIsPaid, Credit

\* The load stays what it is set to, for any interval and however often the loop is
\* stopped and started.
THEOREM RoundsAreSpacedHolds == RoundSpec => []RoundsAreSpaced
<1>1. RoundInit => SpacedInv
  <2> SUFFICES ASSUME RoundInit PROVE SpacedInv
    OBVIOUS
  <2>1. now = 0 /\ begun = 0 /\ DOMAIN round = Tasks /\ \A t \in Tasks : loop[t] = "unborn"
    BY DEF RoundInit, Init
  <2> QED
    BY <2>1, CreditGrows DEF SpacedInv, NextIsPaid
<1>2. ASSUME IInv, SpacedInv, [RoundNext]_rounds PROVE SpacedInv'
  <2>1. TypeOK /\ OneLoop
    BY <1>2 DEF IInv
  <2>2. ASSUME UNCHANGED rounds PROVE SpacedInv'
    BY <1>2, <2>2 DEF rounds, vars, load, SpacedInv, NextIsPaid, Credit, Born, Unborn
  <2> QED
    BY <1>2, <2>1, <2>2, OwnStepPaid, ControlPaid, TickPaid DEF RoundNext
<1>3. SpacedInv => RoundsAreSpaced
  BY DEF SpacedInv, Credit, Born, Interval, RoundsAreSpaced
<1>4. RoundSpec => []IInv
  BY RoundsImplementController, Invariance, PTL DEF ImplementsController
<1> QED
  BY <1>1, <1>2, <1>3, <1>4, PTL DEF RoundSpec

-----------------------------------------------------------------------------
(* Orders and purchases.                                                   *)

SalesInv == /\ surplus \in Int /\ lost \in Nat /\ cuts \in Nat
            /\ PurchasesMatchOrders

\* How the sales in progress change when one loop moves.
LEMMA OpenMoves ==
    ASSUME NEW t \in Tasks, NEW s, DOMAIN loop = Tasks, loop' = [loop EXCEPT ![t] = s]
    PROVE  /\ Cardinality(Open) \in Nat /\ Cardinality(Open') \in Nat
           /\ loop[t] = "purchase" /\ s # "purchase" => Cardinality(Open') = Cardinality(Open) - 1
           /\ loop[t] # "purchase" /\ s = "purchase" => Cardinality(Open') = Cardinality(Open) + 1
           /\ (loop[t] = "purchase") = (s = "purchase") => Open' = Open
<1>1. IsFiniteSet(Open) /\ IsFiniteSet(Open')
  <2>1. Open \in SUBSET Tasks /\ Open' \in SUBSET Tasks
    BY DEF Open
  <2> QED
    BY <2>1, TaskAssumption, FS_Subset
<1>2. Cardinality(Open) \in Nat /\ Cardinality(Open') \in Nat
  BY <1>1, FS_CardinalityType
<1>3. CASE loop[t] = "purchase" /\ s # "purchase"
  <2>1. t \in Open /\ Open' = Open \ {t}
    BY <1>3 DEF Open
  <2> QED
    BY <1>1, <1>2, <1>3, <2>1, FS_RemoveElement
<1>4. CASE loop[t] # "purchase" /\ s = "purchase"
  <2>1. t \notin Open /\ Open' = Open \union {t}
    BY <1>4 DEF Open
  <2> QED
    BY <1>1, <1>2, <1>4, <2>1, FS_AddElement
<1>5. CASE (loop[t] = "purchase") = (s = "purchase")
  <2>1. Open' = Open
    BY <1>5 DEF Open
  <2> QED
    BY <1>2, <1>5, <2>1
<1> QED
  BY <1>3, <1>4, <1>5

\* A post of a sale: what lands is matched by the sale in progress, what does not is lost.
LEMMA BuyMatches == ASSUME TypeOK, SalesInv, NEW t \in Tasks, Buy(t) PROVE SalesInv'
<1>1. DOMAIN loop = Tasks /\ surplus \in Int /\ lost \in Nat /\ cuts \in Nat /\ cuts' = cuts
  BY DEF TypeOK, SalesInv, Buy
<1>2. /\ surplus - Cardinality(Open) <= lost + cuts
      /\ -(surplus - Cardinality(Open)) <= lost + cuts
  BY DEF SalesInv, PurchasesMatchOrders, Drift
<1>3. CASE loop[t] = "order"
  <2>1. loop' = [loop EXCEPT ![t] = "purchase"]
    BY <1>3 DEF Buy, Go
  <2>2. /\ Cardinality(Open') = Cardinality(Open) + 1 /\ Cardinality(Open) \in Nat
    BY <1>1, <1>3, <2>1, OpenMoves
  <2>3. \/ surplus' = surplus + 1 /\ lost' = lost
        \/ surplus' = surplus /\ lost' = lost + 1
    BY <1>3 DEF Buy, Landed, Lost, Weight
  <2> QED
    BY <1>1, <1>2, <2>2, <2>3 DEF SalesInv, PurchasesMatchOrders, Drift
<1>4. CASE loop[t] = "purchase"
  <2>1. PICK s \in {"view", "sleep"} : loop' = [loop EXCEPT ![t] = s]
    BY <1>4, OnwardGoes DEF Buy, Go
  <2>2. Cardinality(Open') = Cardinality(Open) - 1 /\ Cardinality(Open) \in Nat
    <3>1. s # "purchase"
      OBVIOUS
    <3> QED
      BY <1>1, <1>4, <2>1, <3>1, OpenMoves
  <2>3. \/ surplus' = surplus - 1 /\ lost' = lost
        \/ surplus' = surplus /\ lost' = lost + 1
    <3>1. Weight["purchase"] = -1
      BY DEF Weight
    <3> QED
      BY <1>1, <1>4, <3>1 DEF Buy, Landed, Lost
  <2> QED
    BY <1>1, <1>2, <2>2, <2>3 DEF SalesInv, PurchasesMatchOrders, Drift
<1> QED
  BY <1>3, <1>4 DEF Buy, Weight

\* A loop that is ended while it posts a sale: the post is cut off, landed or not.
LEMMA ControlMatches == ASSUME TypeOK, SalesInv, Control PROVE SalesInv'
<1> DEFINE cut == {t \in Tasks : loop[t] \in DOMAIN Weight /\ loop'[t] # loop[t]}
<1>1. /\ DOMAIN loop = Tasks /\ surplus \in Int /\ lost \in Nat /\ cuts \in Nat /\ lost' = lost
      /\ cuts' = cuts + Cardinality(cut)
      /\ surplus' \in {surplus} \union {surplus + Weight[loop[t]] : t \in cut}
  BY DEF TypeOK, SalesInv, Control
<1>2. /\ surplus - Cardinality(Open) <= lost + cuts
      /\ -(surplus - Cardinality(Open)) <= lost + cuts
  BY DEF SalesInv, PurchasesMatchOrders, Drift
<1>3. ASSUME Begin
      PROVE  loop' = loop \/ \E n \in Unborn : loop' = [loop EXCEPT ![n] = "born"]
  BY <1>3 DEF Begin, Create
<1>4. \/ loop' = loop
      \/ \E u, s : loop' = [loop EXCEPT ![u] = s] /\ s \in {"born", "cancelling", "over"}
  BY <1>3 DEF Control, Start, Stop, Stopped, Break, Unwind, Startup, Drain, Close, Closed, Cancel
<1>5. CASE loop' = loop
  <2>1. cut = {} /\ Open' = Open
    BY <1>5 DEF Open
  <2>2. Cardinality(cut) = 0
    BY <2>1, FS_EmptySet
  <2> QED
    BY <1>1, <1>2, <2>1, <2>2 DEF SalesInv, PurchasesMatchOrders, Drift
<1>6. ASSUME NEW u \in Tasks, NEW s, loop' = [loop EXCEPT ![u] = s],
             s \in {"born", "cancelling", "over"}
      PROVE  SalesInv'
  <2>1. CASE loop[u] \in DOMAIN Weight
    <3>1. cut = {u}
      BY <1>1, <1>6, <2>1 DEF Weight
    <3>2. Cardinality(cut) = 1
      BY <3>1, FS_Singleton
    <3>3. CASE loop[u] = "order"
      <4>1. Open' = Open /\ Cardinality(Open) \in Nat
        BY <1>1, <1>6, <3>3, OpenMoves
      <4>2. surplus' = surplus \/ surplus' = surplus + 1
        BY <1>1, <3>1, <3>3 DEF Weight
      <4> QED
        BY <1>1, <1>2, <3>2, <4>1, <4>2 DEF SalesInv, PurchasesMatchOrders, Drift
    <3>4. CASE loop[u] = "purchase"
      <4>1. Cardinality(Open') = Cardinality(Open) - 1 /\ Cardinality(Open) \in Nat
        BY <1>1, <1>6, <3>4, OpenMoves
      <4>2. surplus' = surplus \/ surplus' = surplus - 1
        <5>1. Weight["purchase"] = -1
          BY DEF Weight
        <5> QED
          BY <1>1, <3>1, <3>4, <5>1
      <4> QED
        BY <1>1, <1>2, <3>2, <4>1, <4>2 DEF SalesInv, PurchasesMatchOrders, Drift
    <3> QED
      BY <2>1, <3>3, <3>4 DEF Weight
  <2>2. CASE loop[u] \notin DOMAIN Weight
    <3>1. cut = {} /\ Open' = Open /\ Cardinality(cut) = 0
      BY <1>1, <1>6, <2>2, OpenMoves, FS_EmptySet DEF Weight
    <3> QED
      BY <1>1, <1>2, <3>1 DEF SalesInv, PurchasesMatchOrders, Drift
  <2> QED
    BY <2>1, <2>2
<1>7. ASSUME NEW u, NEW s, u \notin Tasks, loop' = [loop EXCEPT ![u] = s] PROVE loop' = loop
  BY <1>1, <1>7 DEF TypeOK
<1> QED
  BY <1>4, <1>5, <1>6, <1>7

\* Views and checkouts are no part of a sale.
LEMMA BrowsingMatches == ASSUME TypeOK, SalesInv, NEW t \in Tasks, BeginRound(t) \/ Browse(t)
                         PROVE  SalesInv'
<1>1. UNCHANGED <<surplus, lost, cuts>> /\ DOMAIN loop = Tasks /\ loop[t] # "purchase"
  BY DEF BeginRound, Awake, Browse, TypeOK
<1>2. \E s \in Stages \ {"purchase"} : loop' = [loop EXCEPT ![t] = s]
  BY OnwardGoes DEF BeginRound, Browse, MaybeOrder, Go, Stages
<1>3. Open' = Open
  BY <1>1, <1>2, OpenMoves
<1> QED
  BY <1>1, <1>3 DEF SalesInv, PurchasesMatchOrders, Drift

\* Orders and purchases match, for any number of loops, rounds and failures.
THEOREM PurchasesMatchOrdersHolds == RoundSpec => []PurchasesMatchOrders
<1>1. RoundInit => SalesInv
  <2> SUFFICES ASSUME RoundInit PROVE SalesInv
    OBVIOUS
  <2>1. Open = {} /\ surplus = 0 /\ lost = 0 /\ cuts = 0
    BY DEF RoundInit, Init, Open
  <2>2. Cardinality(Open) = 0
    BY <2>1, FS_EmptySet
  <2> QED
    BY <2>1, <2>2 DEF SalesInv, PurchasesMatchOrders, Drift
<1>2. ASSUME IInv, SalesInv, [RoundNext]_rounds PROVE SalesInv'
  <2>1. TypeOK
    BY <1>2 DEF IInv
  <2>2. ASSUME UNCHANGED <<loop, surplus, lost, cuts>> PROVE SalesInv'
    BY <1>2, <2>2 DEF SalesInv, PurchasesMatchOrders, Drift, Open
  <2>3. ASSUME Tick \/ UNCHANGED rounds PROVE SalesInv'
    BY <2>2, <2>3 DEF Tick, rounds, vars, load
  <2> QED
    BY <1>2, <2>1, <2>3, BuyMatches, BrowsingMatches, ControlMatches DEF RoundNext
<1>3. SalesInv => PurchasesMatchOrders
  BY DEF SalesInv
<1>4. RoundSpec => []IInv
  BY RoundsImplementController, Invariance, PTL DEF ImplementsController
<1> QED
  BY <1>1, <1>2, <1>3, <1>4, PTL DEF RoundSpec

-----------------------------------------------------------------------------
(* The plans.                                                              *)

\* A division and its remainder are the only ones.
LEMMA Division == ASSUME NEW a \in Int, NEW d \in Nat \ {0}, NEW q \in Int, NEW r \in Int,
                         a = d * q + r, 0 <= r, r < d
                  PROVE  a \div d = q /\ a % d = r
  OBVIOUS

\* Adding a multiple of the divisor adds to the quotient and leaves the remainder.
LEMMA Multiples == ASSUME NEW a \in Nat, NEW d \in Nat \ {0}, NEW k \in Nat
                   PROVE  (a + d * k) \div d = (a \div d) + k /\ (a + d * k) % d = a % d
<1> DEFINE q == a \div d
           r == a % d
<1>1. q \in Int /\ r \in Int /\ a = d * q + r /\ 0 <= r /\ r < d
  OBVIOUS
<1>2. q + k \in Int /\ a + d * k \in Int /\ d * (q + k) = d * q + d * k
  BY <1>1
<1> HIDE DEF q, r
<1>3. a + d * k = d * (q + k) + r
  BY <1>1, <1>2
<1>4. (a + d * k) \div d = q + k /\ (a + d * k) % d = r
  BY <1>1, <1>2, <1>3, Division
<1> QED
  BY <1>4 DEF q, r

\* A number without remainder is its quotient times the divisor.
LEMMA Exact == ASSUME NEW a \in Nat, NEW d \in Nat \ {0}, a % d = 0
               PROVE  a \div d \in Nat /\ a = d * (a \div d)
  OBVIOUS

Day == MinutesPerHour * HoursPerDay

\* A day later it is the same hour.
LEMMA HoursRecur == ASSUME NEW m \in Nat PROVE Hour(m + Day) = Hour(m)
<1>1. MinutesPerHour \in Nat \ {0} /\ HoursPerDay \in Nat \ {0}
  BY ClockAssumption
<1>2. (m + Day) \div MinutesPerHour = (m \div MinutesPerHour) + HoursPerDay
  BY <1>1, Multiples DEF Day
<1>3. m \div MinutesPerHour \in Nat
  BY <1>1
<1>4. ((m \div MinutesPerHour) + HoursPerDay * 1) % HoursPerDay = (m \div MinutesPerHour) % HoursPerDay
  BY <1>1, <1>3, Multiples
<1> QED
  BY <1>1, <1>2, <1>4 DEF Hour

\* A multiple of two slots.
LEMMA TwoSlots == ASSUME NEW a \in Nat, NEW n \in Nat \ {0}, a % (2 * n) = 0
                  PROVE  \E k \in Nat : a = n * (2 * k)
<1> DEFINE d == 2 * n
           k == a \div d
<1>1. d \in Nat \ {0}
  OBVIOUS
<1>2. k \in Nat /\ a = d * k
  <2> HIDE DEF d
  <2> QED
    BY <1>1, Exact DEF d
<1> HIDE DEF k
<1>3. a = n * (2 * k)
  BY <1>2
<1> QED
  BY <1>2, <1>3

\* Where two slots divide the day, it is the same slot.
LEMMA SlotsRecur ==
    ASSUME NEW m \in Nat, Settings.fixed.interval \in Nat \ {0}, Day % (2 * Settings.fixed.interval) = 0
    PROVE  Slot(m + Day) = Slot(m)
<1> DEFINE n == Settings.fixed.interval
<1>1. Day \in Nat /\ n \in Nat \ {0} /\ Day % (2 * n) = 0
  BY ClockAssumption DEF Day
<1> HIDE DEF n
<1>2. PICK k \in Nat : Day = n * (2 * k)
  BY <1>1, TwoSlots
<1>3. 2 * k \in Nat
  BY <1>2
<1>4. (m + n * (2 * k)) \div n = (m \div n) + 2 * k
  BY <1>1, <1>3, Multiples
<1>5. m \div n \in Nat
  BY <1>1
<1>6. ((m \div n) + 2 * k) % 2 = (m \div n) % 2
  BY <1>5, Multiples
<1> QED
  BY <1>2, <1>4, <1>6 DEF Slot, n

ClockRuns == now \in Nat

\* A planned anomaly recurs daily, whatever its length, if two of its slots divide the day.
THEOREM PlansRecurDailyHolds == RoundSpec => []PlansRecurDaily
<1>1. ASSUME ClockRuns PROVE PlansRecurDaily
  <2> SUFFICES ASSUME Settings.fixed.enabled, Settings.fixed.interval > 0,
                      Day % (2 * Settings.fixed.interval) = 0
               PROVE  /\ Plans(now + Day) = Plans(now)
                      /\ Factors(now + Day) = Factors(now) /\ Band(now + Day) = Band(now)
    BY DEF PlansRecurDaily, Day
  <2>1. Slot(now + Day) = Slot(now)
    BY <1>1, SlotAssumption, SlotsRecur DEF ClockRuns
  <2>2. Band(now + Day) = Band(now)
    BY <1>1, HoursRecur DEF Band, ClockRuns
  <2>3. Factors(now + Day) = Factors(now)
    BY <2>1 DEF Factors
  <2>4. Counts(now + Day) = Counts(now)
    BY <2>2, <2>3 DEF Counts
  <2> QED
    BY <2>2, <2>3, <2>4 DEF Plans
<1>2. RoundInit => ClockRuns
  BY DEF RoundInit, ClockRuns
<1>3. ClockRuns /\ [RoundNext]_rounds => ClockRuns'
  <2>1. [RoundNext]_rounds => now' = now \/ now' = now + 1
    BY DEF RoundNext, rounds, Tick, BeginRound, Browse, Buy, Control
  <2> QED
    BY <2>1 DEF ClockRuns
<1> QED
  BY <1>1, <1>2, <1>3, PTL DEF RoundSpec
=============================================================================

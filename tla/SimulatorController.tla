-------------------------- MODULE SimulatorController --------------------------
(***************************************************************************)
(* services/simulator: the load loop and the control API that starts and   *)
(* stops it.  Everything runs on one event loop, so that code between two  *)
(* awaits is one step: start() never yields (nobody waits while holding    *)
(* the lock), and stop() yields once, where it awaits the loop it has      *)
(* cancelled.  Other calls and the loops themselves run in that gap.       *)
(*                                                                         *)
(* A loop is known by the request it awaits.  How many sessions a round    *)
(* has, and which of them check out or buy, is random in the code and open *)
(* here; ids, amounts, segments and load factors are left out.             *)
(***************************************************************************)
EXTENDS Naturals, FiniteSets

CONSTANTS
    Tasks,       \* the tasks create_task may make; their number is a bound
    NoTask,      \* None
    Calls,       \* requests of the control API that are in progress at a time (a bound)
    Lifespan,    \* the lifespan handler, which calls stop() too
    ENABLED_AT_START,  \* settings.ENABLED
    MaxBreaks    \* bound: exceptions _run_loop does not catch

Callers == Calls \union {Lifespan}

ASSUME TaskAssumption == NoTask \notin Tasks /\ IsFiniteSet(Tasks)
ASSUME CallAssumption == Lifespan \notin Calls
ASSUME EnabledAssumption == ENABLED_AT_START \in BOOLEAN
ASSUME BoundAssumption == MaxBreaks \in Nat

VARIABLES
    task,    \* self._task
    loop,    \* what each task does
    awaits,  \* the task a caller in stop() awaits, or NoTask
    reply,   \* the last answer of each call
    phase,   \* of the service: "starting", "up", "draining", "closing", "down"
    breaks

vars == <<task, loop, awaits, reply, phase, breaks>>

\* After the request it awaits, what a loop may send next; "sleep" ends a round.
Following == [born     |-> {"view", "sleep"},
              view     |-> {"checkout", "order", "view", "sleep"},
              checkout |-> {"order", "view", "sleep"},
              order    |-> {"purchase"},
              purchase |-> {"view", "sleep"},
              sleep    |-> {"view", "sleep"}]

Working(t) == loop[t] \in DOMAIN Following

IsRunning == task # NoTask /\ loop[task] # "over"

Unborn == {t \in Tasks : loop[t] = "unborn"}

NoReply == [status |-> "none", running |-> FALSE, stopped |-> NoTask]
Reply(status, running, stopped) ==
    [status |-> status, running |-> running, stopped |-> stopped]

Init == /\ task = NoTask
        /\ loop = [t \in Tasks |-> "unborn"]
        /\ awaits = [c \in Callers |-> NoTask]
        /\ reply = [c \in Calls |-> NoReply]
        /\ phase = "starting"
        /\ breaks = 0

-----------------------------------------------------------------------------
\* The controller.

\* create_task: a task of its own, which begins at a later turn of the event loop.
Create == \E t \in Unborn : task' = t /\ loop' = [loop EXCEPT ![t] = "born"]

\* Mutant: no test of is_running.
Mutant_Begin == Create

\* start(): the tasks of the model must not be used up.
Begin == IF IsRunning THEN UNCHANGED <<task, loop>> ELSE Create

\* Mutant: self._task is forgotten and its task not cancelled.
Mutant_Cancel(c) ==
    /\ awaits' = [awaits EXCEPT ![c] = task]
    /\ task' = NoTask
    /\ UNCHANGED loop

\* stop() up to its await: cancel() throws into the loop where it awaits, and what is
\* left of it is to close its client.
Cancel(c) ==
    /\ awaits' = [awaits EXCEPT ![c] = task]
    /\ loop' = [loop EXCEPT ![task] = "cancelling"]
    /\ task' = NoTask

-----------------------------------------------------------------------------
\* The control API.

CanCall(c) == phase = "up" /\ awaits[c] = NoTask

Start(c) ==
    /\ CanCall(c)
    /\ Begin
    /\ reply' = [reply EXCEPT ![c] =
                    Reply(IF IsRunning THEN "already_running" ELSE "started", TRUE, NoTask)]
    /\ UNCHANGED <<awaits, phase, breaks>>

\* Mutant: stop() returns True when there was nothing to stop.
Mutant_Stop(c) ==
    /\ CanCall(c)
    /\ IF IsRunning
       THEN Cancel(c) /\ reply' = [reply EXCEPT ![c] = NoReply]
       ELSE /\ task' = NoTask
            /\ reply' = [reply EXCEPT ![c] = Reply("stopped", FALSE, NoTask)]
            /\ UNCHANGED <<loop, awaits>>
    /\ UNCHANGED <<phase, breaks>>

\* With nothing to stop, stop() answers at once.
Stop(c) ==
    /\ CanCall(c)
    /\ IF IsRunning
       THEN Cancel(c) /\ reply' = [reply EXCEPT ![c] = NoReply]
       ELSE /\ task' = NoTask
            /\ reply' = [reply EXCEPT ![c] = Reply("already_stopped", FALSE, NoTask)]
            /\ UNCHANGED <<loop, awaits>>
    /\ UNCHANGED <<phase, breaks>>

\* Mutant: the cancelled task is not awaited.
Mutant_Stopped(c) ==
    /\ awaits[c] # NoTask
    /\ awaits' = [awaits EXCEPT ![c] = NoTask]
    /\ reply' = [reply EXCEPT ![c] = Reply("stopped", IsRunning, awaits[c])]
    /\ UNCHANGED <<task, loop, phase, breaks>>

Failed == Reply("error", FALSE, NoTask)

\* stop() resumes when its task is over; the answer reports what runs by then.  Its await
\* raises what the loop's client raised when it was closed: no answer but an error.
Stopped(c) ==
    /\ awaits[c] # NoTask
    /\ loop[awaits[c]] = "over"
    /\ awaits' = [awaits EXCEPT ![c] = NoTask]
    /\ \E answer \in {Reply("stopped", IsRunning, awaits[c]), Failed} :
          reply' = [reply EXCEPT ![c] = answer]
    /\ UNCHANGED <<task, loop, phase, breaks>>

-----------------------------------------------------------------------------
\* The loops.

\* The request is answered, or fails with an HTTPError that _post_event logs: both ways
\* the round goes on, so an order that failed is still followed by its purchase.
Step(t) ==
    /\ Working(t)
    /\ \E next \in Following[loop[t]] : loop' = [loop EXCEPT ![t] = next]
    /\ UNCHANGED <<task, awaits, reply, phase, breaks>>

\* Any other exception ends the loop, and nobody is told.
Break(t) ==
    /\ breaks < MaxBreaks
    /\ Working(t) /\ loop[t] # "sleep"
    /\ loop' = [loop EXCEPT ![t] = "over"]
    /\ breaks' = breaks + 1
    /\ UNCHANGED <<task, awaits, reply, phase>>

\* The cancelled loop closes its client, which may raise, and ends.
Unwind(t) ==
    /\ loop[t] = "cancelling"
    /\ loop' = [loop EXCEPT ![t] = "over"]
    /\ UNCHANGED <<task, awaits, reply, phase, breaks>>

-----------------------------------------------------------------------------
\* The lifespan.

Startup ==
    /\ phase = "starting"
    /\ phase' = "up"
    /\ IF ENABLED_AT_START THEN Begin ELSE UNCHANGED <<task, loop>>
    /\ UNCHANGED <<awaits, reply, breaks>>

\* The server is told to end: it takes no more requests ...
Drain ==
    /\ phase = "up"
    /\ phase' = "draining"
    /\ UNCHANGED <<task, loop, awaits, reply, breaks>>

\* Mutant: the lifespan ends without calling stop().
Mutant_Close ==
    /\ phase = "draining"
    /\ \A c \in Callers : awaits[c] = NoTask
    /\ phase' = "closing"
    /\ UNCHANGED <<task, loop, awaits, reply, breaks>>

\* ... and when those in progress are answered, the lifespan calls stop().
Close ==
    /\ phase = "draining"
    /\ \A c \in Callers : awaits[c] = NoTask
    /\ phase' = "closing"
    /\ IF IsRunning THEN Cancel(Lifespan) ELSE task' = NoTask /\ UNCHANGED <<loop, awaits>>
    /\ UNCHANGED <<reply, breaks>>

\* stop() returned, or raised: the server ends in either case.
Closed ==
    /\ phase = "closing"
    /\ awaits[Lifespan] # NoTask => loop[awaits[Lifespan]] = "over"
    /\ awaits' = [awaits EXCEPT ![Lifespan] = NoTask]
    /\ phase' = "down"
    /\ UNCHANGED <<task, loop, reply, breaks>>

Next == \/ \E c \in Calls : Start(c) \/ Stop(c) \/ Stopped(c)
        \/ \E t \in Tasks : Step(t) \/ Break(t) \/ Unwind(t)
        \/ Startup \/ Drain \/ Close \/ Closed

Spec == Init /\ [][Next]_vars

\* The event loop runs whatever is ready, and closing a client takes finite time.
FairSpec == /\ Spec
            /\ \A t \in Tasks : WF_vars(Unwind(t))
            /\ \A c \in Calls : WF_vars(Stopped(c))
            /\ WF_vars(Startup) /\ WF_vars(Close) /\ WF_vars(Closed)

-----------------------------------------------------------------------------
\* Every variable has the values the code can give it; "stopped" is said of a task.
TypeOK ==
    /\ task \in Tasks \union {NoTask}
    /\ loop \in [Tasks -> DOMAIN Following \union {"unborn", "cancelling", "over"}]
    /\ awaits \in [Callers -> Tasks \union {NoTask}]
    /\ reply \in [Calls -> [status  : {"none", "started", "already_running", "stopped",
                                       "already_stopped", "error"},
                            running : BOOLEAN,
                            stopped : Tasks \union {NoTask}]]
    /\ \A c \in Calls : reply[c].status = "stopped" => reply[c].stopped \in Tasks
    /\ phase \in {"starting", "up", "draining", "closing", "down"}
    /\ breaks \in 0..MaxBreaks

\* At most one loop generates load, and it is the one self._task can stop: whatever
\* starts and stops overlap, a loop that stop() no longer reaches is being cancelled.
OneLoop == \A t \in Tasks : Working(t) => task = t

\* A caller that was told "stopped" can rely on it: the loop it stopped sends nothing
\* any more, even if another call has started a new one meanwhile.
StoppedMeansOver ==
    \A c \in Calls : reply[c].status = "stopped" => loop[reply[c].stopped] = "over"

\* Nothing the requests of a round come back with ends the loop, short of an exception
\* that is no HTTPError: a loop at work ends only by way of stop().
HttpErrorsDoNotStop ==
    [][\A t \in Tasks : Working(t) /\ loop'[t] = "over" => breaks' > breaks]_vars

\* The service goes down only when no loop is left, working or being cancelled.
NothingLeftBehind == phase = "down" => \A t \in Tasks : loop[t] \in {"unborn", "over"}

\* No call waits for ever for the loop it stopped, whatever other calls do meanwhile.
StopIsAnswered == \A c \in Calls : awaits[c] # NoTask ~> awaits[c] = NoTask

\* Once told to end, the service ends: the calls in progress and the loop let it.
ShutdownCompletes == phase = "draining" ~> phase = "down"
=============================================================================

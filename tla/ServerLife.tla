------------------------------ MODULE ServerLife ------------------------------
(***************************************************************************)
(* The life of the server, from the constructor of ConcurrentServer to the *)
(* end of main(): the order in which its members are made and destroyed,   *)
(* the event thread that is started before most of them, the thread pool   *)
(* that outlives them, the detached timeout threads, and stop().  What the *)
(* handlers do with a datagram is the business of Server; here a handler   *)
(* may start a timeout thread, and may or may not yield an event.          *)
(*                                                                         *)
(* Using a member that is not there is undefined behaviour: the model      *)
(* stops there, with the outcome "undefined".                              *)
(***************************************************************************)
EXTENDS ThreadPool

VARIABLES
    main,     \* what the thread that runs main() does next
    flag,     \* running_
    members,  \* the members declared after running_: the queue, the sessions ...
    stopper,  \* another thread that calls stop()
    joined,   \* whether stop() has joined event_processor_thread_ and closed the socket
    evt,      \* where the event thread is
    events,   \* how many events are in event_queue_
    stage,    \* what each worker that is busy does next
    sleepers, \* how many timeout threads sleep
    outcome   \* how the process ended

controlVars == <<main, flag, members, stopper, joined>>
eventVars == <<evt, events>>
taskVars == <<stage, sleepers>>
lifeVars == <<poolVars, controlVars, eventVars, taskVars, outcome>>

Phases == {"thread", "flag", "members", "socket", "loop",
           "destructor", "joining", "unwinding", "clearing", "queue", "evthread", "pool"}
LifeTypeOK ==
    /\ PoolTypeOK
    /\ main \in Phases
    /\ flag \in {"unset", "true", "false"}
    /\ members \in {"unmade", "made", "going", "gone"}
    /\ stopper \in {"idle", "stopping", "stopped"}
    /\ joined \in BOOLEAN
    /\ evt \in {"unborn", "loop", "pop", "asleep", "event", "ended", "stray"}
    /\ events \in 0 .. MaxTasks
    /\ stage \in [PoolWorkers -> {"handle", "push", "notify"}]
    /\ sleepers \in 0 .. MaxTasks
    /\ outcome \in {"running", "ended", "aborted", "undefined"}

\* thread_pool_ is the first member: its workers run already.
LifeInit ==
    /\ PoolInit
    /\ main = "thread"
    /\ flag = "unset"
    /\ members = "unmade"
    /\ stopper = "idle"
    /\ joined = FALSE
    /\ evt = "unborn" /\ events = 0
    /\ stage = [w \in PoolWorkers |-> "handle"]
    /\ sleepers = 0
    /\ outcome = "running"

Undefined ==
    /\ outcome' = "undefined"
    /\ UNCHANGED <<poolVars, controlVars, eventVars, taskVars>>

Goes(from, to) ==
    /\ main = from
    /\ main' = to

-------------------------------------------------------------------------------
(* The constructor: event_processor_thread_, running_, the other members,  *)
(* then setupSocket() and the handlers.                                    *)

StartEventThread ==
    /\ Goes("thread", "flag")
    /\ evt' = "loop"
    /\ UNCHANGED <<poolVars, flag, members, stopper, joined, events, taskVars, outcome>>

SetRunning ==
    /\ Goes("flag", "members")
    /\ flag' = "true"
    /\ UNCHANGED <<poolVars, members, stopper, joined, eventVars, taskVars, outcome>>

MakeMembers ==
    /\ Goes("members", "socket")
    /\ members' = "made"
    /\ UNCHANGED <<poolVars, flag, stopper, joined, eventVars, taskVars, outcome>>

\* If socket() or bind() fails the members are destroyed, without ~ConcurrentServer().
SetupSocket ==
    /\ Goes("socket", "loop") \/ Goes("socket", "unwinding")
    /\ UNCHANGED <<poolVars, flag, members, stopper, joined, eventVars, taskVars, outcome>>

Construct == StartEventThread \/ SetRunning \/ MakeMembers \/ SetupSocket

-------------------------------------------------------------------------------
(* start() and stop(). *)

\* recvfrom gives nothing once the socket is closed.
ReceiveMessage ==
    /\ main = "loop"
    /\ ~joined
    /\ notices = 0
    /\ Enqueue
    /\ UNCHANGED <<controlVars, eventVars, taskVars, outcome>>

NotifyWorker ==
    /\ NotifyOne
    /\ UNCHANGED <<controlVars, eventVars, taskVars, outcome>>

LeaveLoop ==
    /\ flag = "false" /\ notices = 0
    /\ Goes("loop", "destructor")
    /\ UNCHANGED <<poolVars, flag, members, stopper, joined, eventVars, taskVars, outcome>>

\* handleNewMessage() runs out of memory: main() unwinds, with running_ still set.
StartThrows ==
    /\ notices = 0
    /\ Goes("loop", "destructor")
    /\ UNCHANGED <<poolVars, flag, members, stopper, joined, eventVars, taskVars, outcome>>

\* Fault: stop() joins without running_ = false.
FlagAsBefore == flag
FlagCleared == "false"

\* Some other thread calls stop() while start() runs.
CallStop ==
    /\ main = "loop" /\ stopper = "idle"
    /\ stopper' = "stopping"
    /\ flag' = FlagCleared
    /\ UNCHANGED <<poolVars, main, members, joined, eventVars, taskVars, outcome>>

StopReturns ==
    /\ stopper = "stopping" /\ evt = "ended"
    /\ stopper' = "stopped"
    /\ joined' = TRUE
    /\ UNCHANGED <<poolVars, main, flag, members, eventVars, taskVars, outcome>>

-------------------------------------------------------------------------------
(* ~ConcurrentServer() and the destructors of the members, in the reverse  *)
(* order of their declarations.                                            *)

Destructor ==
    /\ \/ /\ flag = "true"
          /\ Goes("destructor", "joining")
          /\ flag' = FlagCleared
       \/ /\ flag # "true"
          /\ Goes("destructor", "clearing")
          /\ UNCHANGED flag
    /\ UNCHANGED <<poolVars, members, stopper, joined, eventVars, taskVars, outcome>>

OwnStopReturns ==
    /\ evt = "ended"
    /\ Goes("joining", "clearing")
    /\ joined' = TRUE
    /\ UNCHANGED <<poolVars, flag, members, stopper, eventVars, taskVars, outcome>>

\* peer_sessions_ and what is declared after it.
DestroySessions ==
    /\ Goes("clearing", "queue") \/ Goes("unwinding", "queue")
    /\ members' = "going"
    /\ UNCHANGED <<poolVars, flag, stopper, joined, eventVars, taskVars, outcome>>

\* event_queue_ and command_handlers_.  The destructor of the condition variable
\* waits until no thread waits in it.
DestroyQueue ==
    /\ evt # "asleep"
    /\ Goes("queue", "evthread")
    /\ members' = "gone"
    /\ UNCHANGED <<poolVars, flag, stopper, joined, eventVars, taskVars, outcome>>

\* A std::thread that is destroyed before it was joined calls std::terminate.
DestroyEventThread ==
    /\ IF joined THEN Goes("evthread", "pool") /\ UNCHANGED outcome
                 ELSE main = "evthread" /\ outcome' = "aborted" /\ UNCHANGED main
    /\ UNCHANGED <<poolVars, flag, members, stopper, joined, eventVars, taskVars>>

\* ~ThreadPool() is the last one; main() returns after it.
DestroyPool ==
    /\ main = "pool"
    /\ SetStop \/ NotifyAll \/ Join
    /\ outcome' = IF closing' = "joined" THEN "ended" ELSE outcome
    /\ UNCHANGED <<controlVars, eventVars, taskVars>>

Destruct ==
    \/ Destructor \/ OwnStopReturns
    \/ DestroySessions \/ DestroyQueue \/ DestroyEventThread \/ DestroyPool

-------------------------------------------------------------------------------
(* The event thread.  Until running_ is set, what it reads there is up to  *)
(* chance.  If it enters the queue before that is made, the constructor of *)
(* the condition variable forgets that it waits.                           *)

LookAtFlag ==
    /\ evt = "loop"
    /\ \/ flag # "false" /\ evt' = "pop"
       \/ flag # "true" /\ evt' = "ended"
    /\ UNCHANGED <<poolVars, controlVars, events, taskVars, outcome>>

EnterEarly ==
    /\ evt = "pop" /\ members = "unmade"
    /\ evt' = "stray"
    /\ UNCHANGED <<poolVars, controlVars, events, taskVars, outcome>>

Pop ==
    /\ evt = "pop" /\ members \in {"made", "going"}
    /\ events > 0
    /\ events' = events - 1
    /\ evt' = "event"
    /\ UNCHANGED <<poolVars, controlVars, taskVars, outcome>>

\* Fault: wait() is called without a predicate.
SleepsAnyway == TRUE
NothingToPop == events = 0

WaitForEvent ==
    /\ evt = "pop" /\ members \in {"made", "going"}
    /\ NothingToPop
    /\ evt' = "asleep"
    /\ UNCHANGED <<poolVars, controlVars, events, taskVars, outcome>>

EventWakesUp ==
    /\ evt = "asleep"
    /\ evt' = "pop"
    /\ UNCHANGED <<poolVars, controlVars, events, taskVars, outcome>>

EventProcessed ==
    /\ evt = "event" /\ members = "made"
    /\ evt' = "loop"
    /\ UNCHANGED <<poolVars, controlVars, events, taskVars, outcome>>

\* It uses the queue, or the session table, before or after its life.
EventThreadStrays ==
    /\ \/ evt = "pop" /\ members \in {"unmade", "gone"}
       \/ evt = "event" /\ members # "made"
    /\ Undefined

EventThread ==
    LookAtFlag \/ EnterEarly \/ Pop \/ WaitForEvent \/ EventProcessed \/ EventThreadStrays

-------------------------------------------------------------------------------
(* The tasks and the timeout threads. *)

TakeTask(w) ==
    /\ WorkerThread(w)
    /\ stage' = [stage EXCEPT ![w] = "handle"]
    /\ UNCHANGED <<controlVars, eventVars, sleepers, outcome>>

WorkerWakesUp(w) == WakeUp(w) /\ UNCHANGED <<controlVars, eventVars, taskVars, outcome>>

\* handleCommand(); the parser may not make an event of the message.
HandleMessage(w) ==
    /\ at[w] = "busy" /\ stage[w] = "handle"
    /\ members # "gone"
    /\ sleepers' \in {sleepers, sleepers + 1}
    /\ \/ stage' = [stage EXCEPT ![w] = "push"] /\ UNCHANGED poolVars
       \/ Finish(w) /\ UNCHANGED stage
    /\ UNCHANGED <<controlVars, eventVars, outcome>>

PushEvent(w) ==
    /\ at[w] = "busy" /\ stage[w] = "push"
    /\ members # "gone"
    /\ events' = events + 1
    /\ stage' = [stage EXCEPT ![w] = "notify"]
    /\ UNCHANGED <<poolVars, controlVars, evt, sleepers, outcome>>

NotifyEventThread(w) ==
    /\ stage[w] = "notify"
    /\ members # "gone"
    /\ evt' = IF evt = "asleep" THEN "pop" ELSE evt
    /\ Finish(w)
    /\ UNCHANGED <<controlVars, events, taskVars, outcome>>

\* It uses the session table, the handlers or the queue after their life.
TaskStrays(w) ==
    /\ at[w] = "busy"
    /\ \/ members = "gone"
       \/ members = "going" /\ stage[w] = "handle"
    /\ Undefined

RunTask(w) == HandleMessage(w) \/ PushEvent(w) \/ NotifyEventThread(w) \/ TaskStrays(w)

TimeoutThread ==
    /\ sleepers > 0
    /\ \/ /\ members # "gone"
          /\ sleepers' = sleepers - 1
          /\ UNCHANGED <<poolVars, controlVars, eventVars, stage, outcome>>
       \/ members = "gone" /\ Undefined

-------------------------------------------------------------------------------
MainThread == Construct \/ NotifyWorker \/ LeaveLoop \/ Destruct
LifeNext ==
    /\ outcome = "running"
    /\ \/ MainThread \/ ReceiveMessage \/ StartThrows
       \/ CallStop \/ StopReturns
       \/ EventThread \/ EventWakesUp
       \/ \E w \in PoolWorkers : TakeTask(w) \/ RunTask(w) \/ WorkerWakesUp(w)
       \/ TimeoutThread

LifeSpec == LifeInit /\ [][LifeNext]_lifeVars

Runs(A) == outcome = "running" /\ A
FairLifeSpec ==
    /\ LifeSpec
    /\ WF_lifeVars(Runs(MainThread))
    /\ WF_lifeVars(Runs(EventThread))
    /\ WF_lifeVars(Runs(StopReturns))
    /\ \A w \in PoolWorkers : WF_lifeVars(Runs(TakeTask(w) \/ RunTask(w)))

-------------------------------------------------------------------------------
(* Properties. *)

(***************************************************************************)
(* No event is forgotten: the event thread sleeps on a queue that is not   *)
(* empty only while some worker has still to notify it (push notifies      *)
(* after it has released the mutex).                                       *)
(***************************************************************************)
NoForgottenEvent ==
    evt = "asleep" /\ events > 0 =>
        \E w \in PoolWorkers : at[w] = "busy" /\ stage[w] = "notify"

(***************************************************************************)
(* If main() returns, every message that was received has been handled and *)
(* the event thread has been joined (the pool is destroyed after all that  *)
(* its tasks use; a run that gets to the end has not needed any of it).    *)
(***************************************************************************)
OrderlyEnd ==
    outcome = "ended" =>
        /\ \A n \in 1 .. accepted : Done(n)
        /\ evt = "ended" /\ joined

(***************************************************************************)
(* Liveness: every message received is handled, unless the process breaks  *)
(* down first (enqueue wakes a worker; a worker looks at the queue before  *)
(* it sleeps; the destructor of the pool drains it).                       *)
(***************************************************************************)
Broken == outcome \in {"aborted", "undefined"}
TasksAreRun == \A n \in 1 .. MaxTasks : accepted >= n ~> Done(n) \/ Broken

(***************************************************************************)
(* Liveness: the events pushed are processed, unless the server is stopped *)
(* or its event thread was lost when it started (processEvents waits for   *)
(* an event only while there is none).                                     *)
(***************************************************************************)
EventsAreProcessed ==
    events > 0 ~> events = 0 \/ flag = "false" \/ evt \in {"ended", "stray"} \/ Broken

(***************************************************************************)
(* Liveness: stop() returns if there is an event left for the event thread *)
(* to come back with (without one it waits in wait_and_pop, and stop() in  *)
(* join(), for good).                                                      *)
(***************************************************************************)
Stopping == stopper = "stopping" \/ main = "joining"
StopEnds ==
    Stopping /\ evt # "stray" /\ (evt = "event" \/ events > 0) ~> ~Stopping \/ Broken

(***************************************************************************)
(* Liveness: once the event thread is out of the way, the destructor of    *)
(* the pool comes to its end (it wakes every worker, whatever they did).   *)
(***************************************************************************)
PoolIsDestroyed == main = "pool" ~> outcome # "running"

(***************************************************************************)
(* A server that cannot have its port reports that: main() catches what    *)
(* the constructor throws, prints "Server Error" and returns.              *)
(***************************************************************************)
BindFailureIsReported == main = "unwinding" ~> outcome = "ended"
===============================================================================

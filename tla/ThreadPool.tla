------------------------------ MODULE ThreadPool ------------------------------
(***************************************************************************)
(* The pool of worker threads: a queue of tasks under a mutex and a        *)
(* condition variable.  A critical section is one action.  The             *)
(* notification that follows it is another one, made after the mutex was   *)
(* released, so that workers may look at the queue in between.  A worker   *)
(* that sleeps in wait() may wake up without a notification.               *)
(*                                                                         *)
(* An operator marked Fault is used by no specification: it is the         *)
(* definition below it as a plausible bug would make it, there to show     *)
(* that a property fails when the code is broken that way.                 *)
(***************************************************************************)
EXTENDS Integers, Sequences, FiniteSets

CONSTANTS
    PoolWorkers,  \* the threads in workers_
    MaxTasks      \* bound: tasks given to the pool

ASSUME PoolWorkersAssumption == IsFiniteSet(PoolWorkers) /\ PoolWorkers # {}
ASSUME MaxTasksAssumption == MaxTasks \in Nat

VARIABLES
    accepted,  \* how many tasks were put in tasks_; the n-th one is task n
    tasks,     \* tasks_
    at,        \* where each worker is
    doing,     \* the task each worker has taken, or 0
    notices,   \* calls of notify_one() that enqueue() has still to make
    closing    \* stop_, and how far the destructor is; "no": stop_ is false

poolVars == <<accepted, tasks, at, doing, notices, closing>>

\* About to lock the mutex; in wait(), which has released it; in task(); returned.
Places == {"checking", "asleep", "busy", "gone"}
PoolTypeOK ==
    /\ accepted \in 0 .. MaxTasks
    /\ tasks \in Seq(1 .. MaxTasks)
    /\ at \in [PoolWorkers -> Places]
    /\ doing \in [PoolWorkers -> 0 .. MaxTasks]
    /\ \A w \in PoolWorkers : doing[w] = 0 <=> at[w] # "busy"
    /\ notices \in 0 .. accepted
    /\ closing \in {"no", "stopped", "notified", "joined"}

PoolInit ==
    /\ accepted = 0
    /\ tasks = <<>>
    /\ at = [w \in PoolWorkers |-> "checking"]
    /\ doing = [w \in PoolWorkers |-> 0]
    /\ notices = 0
    /\ closing = "no"

Stopped == closing # "no"

-------------------------------------------------------------------------------
(* enqueue; on a stopped pool it throws, which changes nothing here. *)

\* Fault: a task that finds another one in the queue tells nobody.
NoticeIfFirst == IF tasks = <<>> THEN notices + 1 ELSE notices
OneMoreNotice == notices + 1

Enqueue ==
    /\ ~Stopped
    /\ accepted < MaxTasks
    /\ accepted' = accepted + 1
    /\ tasks' = Append(tasks, accepted')
    /\ notices' = OneMoreNotice
    /\ UNCHANGED <<at, doing, closing>>

\* notify_one: some sleeper wakes up, if there is one.
NotifyOne ==
    /\ notices > 0
    /\ notices' = notices - 1
    /\ \/ \E w \in PoolWorkers : /\ at[w] = "asleep"
                                 /\ at' = [at EXCEPT ![w] = "checking"]
       \/ /\ \A w \in PoolWorkers : at[w] # "asleep"
          /\ UNCHANGED at
    /\ UNCHANGED <<accepted, tasks, doing, closing>>

-------------------------------------------------------------------------------
(* A worker.  The predicate of wait() is looked at with the mutex held. *)

\* Fault: a worker leaves when the pool is stopped, whatever is in the queue.
LeavesAtOnce == Stopped
MayLeave == Stopped /\ tasks = <<>>

\* Fault: a worker waits for a notification before it looks at the queue.
WaitsAnyway == ~Stopped
MustWait == ~Stopped /\ tasks = <<>>

Take(w) ==
    /\ at[w] = "checking"
    /\ tasks # <<>>
    /\ tasks' = Tail(tasks)
    /\ doing' = [doing EXCEPT ![w] = Head(tasks)]
    /\ at' = [at EXCEPT ![w] = "busy"]
    /\ UNCHANGED <<accepted, notices, closing>>

Leave(w) ==
    /\ at[w] = "checking"
    /\ MayLeave
    /\ at' = [at EXCEPT ![w] = "gone"]
    /\ UNCHANGED <<accepted, tasks, doing, notices, closing>>

FallAsleep(w) ==
    /\ at[w] = "checking"
    /\ MustWait
    /\ at' = [at EXCEPT ![w] = "asleep"]
    /\ UNCHANGED <<accepted, tasks, doing, notices, closing>>

WakeUp(w) ==
    /\ at[w] = "asleep"
    /\ at' = [at EXCEPT ![w] = "checking"]
    /\ UNCHANGED <<accepted, tasks, doing, notices, closing>>

\* Fault: the function is kept, with what it captured, until there is another one.
TaskKept(w) == doing
TaskDropped(w) == [doing EXCEPT ![w] = 0]

\* task() returns.
Finish(w) ==
    /\ at[w] = "busy"
    /\ at' = [at EXCEPT ![w] = "checking"]
    /\ doing' = TaskDropped(w)
    /\ UNCHANGED <<accepted, tasks, notices, closing>>

-------------------------------------------------------------------------------
(* The destructor. *)

SetStop ==
    /\ closing = "no"
    /\ closing' = "stopped"
    /\ UNCHANGED <<accepted, tasks, at, doing, notices>>

\* Fault: one sleeper is notified, not all.
OneRoused ==
    \/ \E w \in PoolWorkers : at[w] = "asleep" /\ at' = [at EXCEPT ![w] = "checking"]
    \/ (\A w \in PoolWorkers : at[w] # "asleep") /\ UNCHANGED at
AllRoused ==
    at' = [w \in PoolWorkers |-> IF at[w] = "asleep" THEN "checking" ELSE at[w]]

NotifyAll ==
    /\ closing = "stopped"
    /\ closing' = "notified"
    /\ AllRoused
    /\ UNCHANGED <<accepted, tasks, doing, notices>>

Join ==
    /\ closing = "notified"
    /\ \A w \in PoolWorkers : at[w] = "gone"
    /\ closing' = "joined"
    /\ UNCHANGED <<accepted, tasks, at, doing, notices>>

-------------------------------------------------------------------------------
WorkerThread(w) == Take(w) \/ Leave(w) \/ FallAsleep(w)

PoolNext ==
    \/ Enqueue
    \/ NotifyOne
    \/ \E w \in PoolWorkers : WorkerThread(w) \/ WakeUp(w) \/ Finish(w)
    \/ SetStop
    \/ NotifyAll
    \/ Join

PoolSpec == PoolInit /\ [][PoolNext]_poolVars

-------------------------------------------------------------------------------
(* Properties. *)

\* Task n is in the queue; it has been accepted and its function has returned.
Waiting(n) == \E i \in DOMAIN tasks : tasks[i] = n
Done(n) ==
    /\ n <= accepted
    /\ ~Waiting(n)
    /\ \A w \in PoolWorkers : doing[w] # n

(***************************************************************************)
(* No wakeup is lost: while a worker sleeps there are no more tasks in the *)
(* queue than notifications to come and workers about to look at it        *)
(* (enqueue notifies after it has released the mutex; a worker tests the   *)
(* predicate with the mutex held).                                         *)
(***************************************************************************)
Awake == {w \in PoolWorkers : at[w] = "checking"}
NoLostWakeup ==
    (\E w \in PoolWorkers : at[w] = "asleep") => Len(tasks) <= notices + Cardinality(Awake)

(***************************************************************************)
(* The pool is a task queue: tasks are begun in order, once each, and the  *)
(* destructor returns only when all of them have been run (stop_ alone     *)
(* makes no worker leave).                                                 *)
(***************************************************************************)
Busy == {w \in PoolWorkers : at[w] = "busy"}
UnderWay == {doing[w] : w \in Busy}
Open == CASE closing = "no" -> "yes"
          [] closing = "joined" -> "gone"
          [] OTHER -> "no"
Queue == INSTANCE TaskQueue
    WITH Size <- Cardinality(PoolWorkers), waiting <- tasks, underWay <- UnderWay, open <- Open
ImplementsTaskQueue == Queue!Spec
===============================================================================

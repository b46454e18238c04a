------------------------------ MODULE LifeProofs ------------------------------
(***************************************************************************)
(* Theorems about the thread pool, alone and in the life of the server,    *)
(* for any number of workers and of tasks.                                 *)
(***************************************************************************)
EXTENDS ServerLife, FiniteSetTheorems, SequenceTheorems, TLAPS

-------------------------------------------------------------------------------
(* How many workers are about to look at the queue. *)

LEMMA AwakeIsFinite == Cardinality(Awake) \in Nat /\ IsFiniteSet(Awake)
  <1>1. Awake \subseteq PoolWorkers
    BY DEF Awake
  <1> QED
    BY <1>1, PoolWorkersAssumption, FS_Subset, FS_CardinalityType

\* A worker that comes to look adds one; the others stay where they are.
LEMMA OneMoreAwake ==
    ASSUME PoolTypeOK, NEW w \in PoolWorkers, at[w] # "checking",
           at' = [at EXCEPT ![w] = "checking"]
    PROVE  Cardinality(Awake') = Cardinality(Awake) + 1
  <1>1. Awake' = Awake \cup {w}
    BY DEF PoolTypeOK, Awake
  <1>2. w \notin Awake
    BY DEF Awake
  <1> QED
    BY <1>1, <1>2, AwakeIsFinite, FS_AddElement

\* One that goes elsewhere takes one away.
LEMMA OneLessAwake ==
    ASSUME PoolTypeOK, NEW w \in PoolWorkers, at[w] = "checking",
           NEW place \in Places, place # "checking",
           at' = [at EXCEPT ![w] = place]
    PROVE  Cardinality(Awake') = Cardinality(Awake) - 1
  <1>1. Awake' = Awake \ {w}
    BY DEF PoolTypeOK, Awake
  <1>2. w \in Awake
    BY DEF Awake
  <1> QED
    BY <1>1, <1>2, AwakeIsFinite, FS_RemoveElement

-------------------------------------------------------------------------------
(* Type correctness of the pool. *)

LEMMA PoolInitType == PoolInit => PoolTypeOK
  BY MaxTasksAssumption DEF PoolInit, PoolTypeOK, Places

LEMMA PoolStepType == ASSUME PoolTypeOK, [PoolNext]_poolVars PROVE PoolTypeOK'
  <1> USE DEF PoolTypeOK, Places
  <1>1. CASE Enqueue
    <2>1. accepted' \in 1 .. MaxTasks /\ tasks' \in Seq(1 .. MaxTasks)
      BY <1>1, MaxTasksAssumption DEF Enqueue
    <2>2. notices' \in 0 .. accepted'
      BY <1>1, MaxTasksAssumption DEF Enqueue, OneMoreNotice
    <2> QED
      BY <1>1, <2>1, <2>2, MaxTasksAssumption DEF Enqueue
  <1>2. CASE NotifyOne
    BY <1>2, MaxTasksAssumption DEF NotifyOne
  <1>3. ASSUME NEW w \in PoolWorkers, Take(w) PROVE PoolTypeOK'
    <2>1. Head(tasks) \in 1 .. MaxTasks /\ tasks' \in Seq(1 .. MaxTasks)
      <3>1. tasks \in Seq(1 .. MaxTasks) /\ tasks # <<>>
        BY <1>3 DEF Take
      <3> QED
        BY <3>1, <1>3, HeadTailProperties DEF Take
    <2>2. doing' \in [PoolWorkers -> 0 .. MaxTasks] /\ at' \in [PoolWorkers -> Places]
      BY <1>3, <2>1 DEF Take
    <2>3. \A v \in PoolWorkers : doing'[v] = 0 <=> at'[v] # "busy"
      BY <1>3, <2>1 DEF Take
    <2> QED
      BY <1>3, <2>1, <2>2, <2>3 DEF Take
  <1>4. ASSUME NEW w \in PoolWorkers, Leave(w) \/ FallAsleep(w) \/ WakeUp(w)
        PROVE  PoolTypeOK'
    BY <1>4 DEF Leave, FallAsleep, WakeUp
  <1>5. ASSUME NEW w \in PoolWorkers, Finish(w) PROVE PoolTypeOK'
    BY <1>5, MaxTasksAssumption DEF Finish, TaskDropped
  <1>6. CASE SetStop
    BY <1>6 DEF SetStop
  <1>7. CASE NotifyAll
    BY <1>7 DEF NotifyAll, AllRoused
  <1>8. CASE Join
    BY <1>8 DEF Join
  <1>9. CASE UNCHANGED poolVars
    BY <1>9 DEF poolVars
  <1> QED
    BY <1>1, <1>2, <1>3, <1>4, <1>5, <1>6, <1>7, <1>8, <1>9 DEF PoolNext, WorkerThread

-------------------------------------------------------------------------------
(* No wakeup is lost.  While somebody sleeps, the tasks in the queue are    *)
(* outnumbered by the notifications to come and the workers about to look. *)

\* At most N tasks are left for N notifications and workers: the invariant's claim.
Covered == Len(tasks) <= notices + Cardinality(Awake)

LEMMA WakeupInit == PoolInit => NoLostWakeup
  BY DEF PoolInit, NoLostWakeup

LEMMA WakeupStep ==
    ASSUME PoolTypeOK, NoLostWakeup, [PoolNext]_poolVars
    PROVE  NoLostWakeup'
  <1>t. PoolTypeOK'
    BY PoolStepType
  <1>n. notices \in Nat /\ notices' \in Nat /\ Len(tasks) \in Nat /\ Len(tasks') \in Nat
    BY <1>t DEF PoolTypeOK
  <1>c. Cardinality(Awake) \in Nat /\ Cardinality(Awake') \in Nat
    <2>1. Awake' \subseteq PoolWorkers
      BY DEF Awake
    <2> QED
      BY <2>1, AwakeIsFinite, PoolWorkersAssumption, FS_Subset, FS_CardinalityType
  <1> SUFFICES ASSUME NEW s \in PoolWorkers, at'[s] = "asleep"
               PROVE  Covered'
    BY DEF NoLostWakeup, Covered
  <1>1. CASE Enqueue
    <2>1. Covered /\ Awake' = Awake
      BY <1>1 DEF Enqueue, NoLostWakeup, Covered, Awake
    <2>2. Len(tasks') = Len(tasks) + 1 /\ notices' = notices + 1
      BY <1>1 DEF Enqueue, OneMoreNotice, PoolTypeOK
    <2> QED
      BY <2>1, <2>2, <1>n, <1>c DEF Covered
  <1>2. CASE NotifyOne
    <2>1. PICK w \in PoolWorkers : at[w] = "asleep" /\ at' = [at EXCEPT ![w] = "checking"]
      BY <1>2 DEF NotifyOne
    <2>2. Covered
      BY <2>1 DEF NoLostWakeup, Covered
    <2>3. Cardinality(Awake') = Cardinality(Awake) + 1
      BY <2>1, OneMoreAwake
    <2>4. notices' = notices - 1 /\ tasks' = tasks
      BY <1>2 DEF NotifyOne
    <2> QED
      BY <2>2, <2>3, <2>4, <1>n, <1>c DEF Covered
  <1>3. ASSUME NEW w \in PoolWorkers, Take(w) PROVE Covered'
    <2>1. at[s] = "asleep"
      BY <1>3 DEF Take, PoolTypeOK
    <2>2. Covered
      BY <2>1 DEF NoLostWakeup, Covered
    <2>3. Cardinality(Awake') = Cardinality(Awake) - 1
      BY <1>3, OneLessAwake DEF Take, Places
    <2>4. Len(tasks') = Len(tasks) - 1 /\ notices' = notices
      BY <1>3 DEF Take, PoolTypeOK
    <2> QED
      BY <2>2, <2>3, <2>4, <1>n, <1>c DEF Covered
  <1>4. ASSUME NEW w \in PoolWorkers, Leave(w) \/ FallAsleep(w) PROVE Covered'
    <2>1. tasks' = <<>>
      BY <1>4 DEF Leave, FallAsleep, MayLeave, MustWait
    <2> QED
      BY <2>1, <1>n, <1>c DEF Covered
  <1>5. ASSUME NEW w \in PoolWorkers, WakeUp(w) \/ Finish(w) PROVE Covered'
    <2>1. at[s] = "asleep"
      BY <1>5 DEF WakeUp, Finish, PoolTypeOK
    <2>2. Covered
      BY <2>1 DEF NoLostWakeup, Covered
    <2>3. Cardinality(Awake') = Cardinality(Awake) + 1
      BY <1>5, OneMoreAwake DEF WakeUp, Finish
    <2>4. tasks' = tasks /\ notices' = notices
      BY <1>5 DEF WakeUp, Finish
    <2> QED
      BY <2>2, <2>3, <2>4, <1>n, <1>c DEF Covered
  <1>6. CASE SetStop \/ Join \/ UNCHANGED poolVars
    BY <1>6 DEF SetStop, Join, poolVars, NoLostWakeup, Covered, Awake
  <1>7. CASE NotifyAll
    BY <1>7 DEF NotifyAll, AllRoused
  <1> QED
    BY <1>1, <1>2, <1>3, <1>4, <1>5, <1>6, <1>7 DEF PoolNext, WorkerThread

(***************************************************************************)
(* The pool loses no wakeup: enqueue notifies after it has released the    *)
(* mutex, yet while a worker sleeps every task in the queue has its        *)
(* notification or a worker about to look at the queue.                    *)
(***************************************************************************)
THEOREM NoWakeupIsLost == PoolSpec => [](PoolTypeOK /\ NoLostWakeup)
  <1>1. PoolInit => PoolTypeOK /\ NoLostWakeup
    BY PoolInitType, WakeupInit
  <1>2. PoolTypeOK /\ NoLostWakeup /\ [PoolNext]_poolVars => (PoolTypeOK /\ NoLostWakeup)'
    BY PoolStepType, WakeupStep
  <1> QED
    BY <1>1, <1>2, PTL DEF PoolSpec

-------------------------------------------------------------------------------
(* The server uses the pool as the pool may be used. *)

LEMMA LifeStepsPool == ASSUME [LifeNext]_lifeVars PROVE [PoolNext]_poolVars
  <1> SUFFICES ASSUME LifeNext PROVE PoolNext \/ UNCHANGED poolVars
    BY DEF lifeVars
  <1>1. CASE Construct \/ LeaveLoop \/ StartThrows \/ CallStop \/ StopReturns
    BY <1>1 DEF Construct, StartEventThread, SetRunning, MakeMembers, SetupSocket,
       LeaveLoop, StartThrows, CallStop, StopReturns
  <1>2. CASE Destruct
    BY <1>2 DEF Destruct, Destructor, OwnStopReturns, DestroySessions, DestroyQueue,
       DestroyEventThread, DestroyPool, PoolNext
  <1>3. CASE ReceiveMessage \/ NotifyWorker
    BY <1>3 DEF ReceiveMessage, NotifyWorker, PoolNext
  <1>4. CASE EventThread \/ EventWakesUp \/ TimeoutThread
    BY <1>4 DEF EventThread, LookAtFlag, EnterEarly, Pop, WaitForEvent, EventProcessed,
       EventThreadStrays, Undefined, EventWakesUp, TimeoutThread
  <1>5. ASSUME NEW w \in PoolWorkers, TakeTask(w) \/ RunTask(w) \/ WorkerWakesUp(w)
        PROVE  PoolNext \/ UNCHANGED poolVars
    BY <1>5 DEF TakeTask, RunTask, WorkerWakesUp, HandleMessage, PushEvent,
       NotifyEventThread, TaskStrays, Undefined, PoolNext
  <1> QED
    BY <1>1, <1>2, <1>3, <1>4, <1>5 DEF LifeNext, MainThread

(***************************************************************************)
(* Whatever the life of the server, its pool behaves as a pool alone.      *)
(***************************************************************************)
THEOREM LifeUsesPool == LifeSpec => PoolSpec
  <1>1. LifeInit => PoolInit
    BY DEF LifeInit
  <1> QED
    BY <1>1, LifeStepsPool, PTL DEF LifeSpec, PoolSpec

(***************************************************************************)
(* In the running server no wakeup is lost either.                         *)
(***************************************************************************)
THEOREM LifeLosesNoWakeup == LifeSpec => []NoLostWakeup
  BY LifeUsesPool, NoWakeupIsLost, PTL

-------------------------------------------------------------------------------
(* The pool implements a task queue.                                       *)
(*                                                                         *)
(* The tasks in the queue are the last ones accepted, in order; those      *)
(* under way came before them and are all different.  A worker that is     *)
(* gone has seen the queue empty after the pool was stopped.               *)

InOrder ==
    /\ Len(tasks) <= accepted
    /\ \A i \in 1 .. Len(tasks) : tasks[i] = accepted - Len(tasks) + i
TakenOnce ==
    /\ \A w \in Busy : doing[w] <= accepted - Len(tasks)
    /\ \A v, w \in Busy : v # w => doing[v] # doing[w]
NoneLeft ==
    /\ (\E w \in PoolWorkers : at[w] = "gone") => Stopped /\ tasks = <<>>
    /\ closing = "joined" => \A w \in PoolWorkers : at[w] = "gone"
PoolInv == PoolTypeOK /\ InOrder /\ TakenOnce /\ NoneLeft

LEMMA PoolInvInit == PoolInit => PoolInv
  BY PoolInitType DEF PoolInit, PoolInv, InOrder, TakenOnce, NoneLeft, Busy

LEMMA InOrderStep ==
    ASSUME PoolTypeOK, InOrder, [PoolNext]_poolVars
    PROVE  InOrder'
  <1>1. CASE Enqueue
    BY <1>1 DEF Enqueue, PoolTypeOK, InOrder
  <1>2. ASSUME NEW w \in PoolWorkers, Take(w) PROVE InOrder'
    <2>1. /\ Len(tasks') = Len(tasks) - 1
          /\ \A i \in 1 .. Len(tasks') : tasks'[i] = tasks[i + 1]
      BY <1>2, HeadTailProperties DEF Take, PoolTypeOK
    <2>2. accepted' = accepted
      BY <1>2 DEF Take
    <2>3. Len(tasks) \in Nat /\ Len(tasks') \in Nat /\ accepted \in Nat
      BY PoolStepType DEF PoolTypeOK
    <2> QED
      BY <2>1, <2>2, <2>3 DEF InOrder
  <1>3. CASE UNCHANGED <<tasks, accepted>>
    BY <1>3 DEF InOrder
  <1> QED
    BY <1>1, <1>2, <1>3 DEF PoolNext, WorkerThread, NotifyOne, Leave, FallAsleep, WakeUp,
       Finish, SetStop, NotifyAll, Join, poolVars

LEMMA TakenOnceStep ==
    ASSUME PoolTypeOK, InOrder, TakenOnce, [PoolNext]_poolVars
    PROVE  TakenOnce'
  <1>n. Len(tasks) \in Nat /\ accepted \in Nat
    BY DEF PoolTypeOK
  <1>d. \A w \in PoolWorkers : doing[w] \in Nat
    BY DEF PoolTypeOK
  <1>1. CASE Enqueue
    <2>1. Len(tasks') = Len(tasks) + 1 /\ accepted' = accepted + 1 /\ doing' = doing
      BY <1>1 DEF Enqueue, PoolTypeOK
    <2>2. Busy' = Busy
      BY <1>1 DEF Enqueue, Busy
    <2> QED
      BY <2>1, <2>2, <1>n DEF TakenOnce
  <1>2. ASSUME NEW w \in PoolWorkers, Take(w) PROVE TakenOnce'
    <2>1. Head(tasks) = accepted - Len(tasks) + 1 /\ Len(tasks') = Len(tasks) - 1
      BY <1>2, <1>n, HeadTailProperties DEF Take, PoolTypeOK, InOrder
    <2>2. /\ Busy' = Busy \cup {w} /\ w \notin Busy
          /\ doing'[w] = Head(tasks)
          /\ \A v \in Busy : doing'[v] = doing[v]
          /\ accepted' = accepted
      BY <1>2 DEF Take, PoolTypeOK, Busy
    <2>3. \A v \in Busy : doing[v] \in Nat /\ doing[v] <= accepted - Len(tasks)
      BY <1>d DEF TakenOnce, Busy
    <2> QED
      BY <2>1, <2>2, <2>3, <1>n DEF TakenOnce
  <1>3. ASSUME NEW w \in PoolWorkers, Finish(w) PROVE TakenOnce'
    <2>1. /\ Busy' \subseteq Busy
          /\ \A v \in Busy' : doing'[v] = doing[v]
          /\ UNCHANGED <<accepted, tasks>>
      BY <1>3 DEF Finish, TaskDropped, PoolTypeOK, Busy
    <2> QED
      BY <2>1 DEF TakenOnce
  <1>4. CASE UNCHANGED <<tasks, accepted, doing>> /\ Busy' = Busy
    BY <1>4 DEF TakenOnce
  <1>5. ASSUME NEW w \in PoolWorkers, Leave(w) \/ FallAsleep(w) \/ WakeUp(w)
        PROVE  UNCHANGED <<tasks, accepted, doing>> /\ Busy' = Busy
    BY <1>5 DEF Leave, FallAsleep, WakeUp, Busy, PoolTypeOK
  <1>6. ASSUME NotifyOne \/ NotifyAll \/ SetStop \/ Join \/ UNCHANGED poolVars
        PROVE  UNCHANGED <<tasks, accepted, doing>> /\ Busy' = Busy
    BY <1>6 DEF NotifyOne, NotifyAll, AllRoused, SetStop, Join, poolVars, Busy, PoolTypeOK
  <1> QED
    BY <1>1, <1>2, <1>3, <1>4, <1>5, <1>6 DEF PoolNext, WorkerThread

LEMMA NoneLeftStep ==
    ASSUME PoolTypeOK, NoneLeft, [PoolNext]_poolVars
    PROVE  NoneLeft'
  <1> USE DEF NoneLeft, Stopped
  <1>1. CASE Enqueue
    BY <1>1 DEF Enqueue
  <1>2. CASE NotifyOne
    BY <1>2 DEF NotifyOne, PoolTypeOK
  <1>3. ASSUME NEW w \in PoolWorkers, Take(w) PROVE NoneLeft'
    BY <1>3 DEF Take, PoolTypeOK
  <1>4. ASSUME NEW w \in PoolWorkers, Leave(w) PROVE NoneLeft'
    BY <1>4 DEF Leave, MayLeave, PoolTypeOK
  <1>5. ASSUME NEW w \in PoolWorkers, FallAsleep(w) \/ WakeUp(w) \/ Finish(w) PROVE NoneLeft'
    BY <1>5 DEF FallAsleep, WakeUp, Finish, PoolTypeOK
  <1>6. CASE SetStop \/ NotifyAll \/ Join \/ UNCHANGED poolVars
    BY <1>6 DEF SetStop, NotifyAll, AllRoused, Join, poolVars, PoolTypeOK
  <1> QED
    BY <1>1, <1>2, <1>3, <1>4, <1>5, <1>6 DEF PoolNext, WorkerThread

LEMMA PoolInvStep == ASSUME PoolInv, [PoolNext]_poolVars PROVE PoolInv'
  BY PoolStepType, InOrderStep, TakenOnceStep, NoneLeftStep DEF PoolInv

\* A worker that is about to take a task leaves room for it under way.
LEMMA RoomForOneMore ==
    ASSUME PoolTypeOK, NEW w \in PoolWorkers, at[w] = "checking"
    PROVE  Cardinality(UnderWay) < Cardinality(PoolWorkers)
  <1>1. Busy \subseteq PoolWorkers \ {w}
    BY DEF Busy
  <1>2. IsFiniteSet(PoolWorkers \ {w})
        /\ Cardinality(PoolWorkers \ {w}) = Cardinality(PoolWorkers) - 1
    BY PoolWorkersAssumption, FS_RemoveElement
  <1>3. IsFiniteSet(Busy) /\ Cardinality(Busy) <= Cardinality(PoolWorkers) - 1
    BY <1>1, <1>2, FS_Subset
  <1>4. IsFiniteSet(UnderWay) /\ Cardinality(UnderWay) <= Cardinality(Busy)
    <2> DEFINE taskOf == [v \in Busy |-> doing[v]]
    <2>1. taskOf \in Surjection(Busy, UnderWay)
      BY DEF Surjection, UnderWay
    <2> QED
      BY <1>3, <2>1, FS_Surjection
  <1>5. Cardinality(PoolWorkers) \in Nat /\ Cardinality(Busy) \in Nat
        /\ Cardinality(UnderWay) \in Nat
    BY <1>3, <1>4, PoolWorkersAssumption, FS_CardinalityType
  <1> QED
    BY <1>3, <1>4, <1>5

LEMMA QueueInit == PoolInit => Queue!Init
  BY DEF PoolInit, Queue!Init, UnderWay, Busy, Open

LEMMA QueueStep ==
    ASSUME PoolInv, [PoolNext]_poolVars
    PROVE  [Queue!Next]_Queue!vars
  <1> USE DEF PoolInv
  <1>1. CASE Enqueue
    <2>1. UnderWay' = UnderWay /\ Open = "yes" /\ Open' = "yes"
      BY <1>1 DEF Enqueue, Stopped, UnderWay, Busy, Open
    <2> QED
      BY <1>1, <2>1 DEF Enqueue, Queue!Next, Queue!Accept
  <1>2. ASSUME NEW w \in PoolWorkers, Take(w) PROVE Queue!Next
    <2>1. UnderWay' = UnderWay \cup {Head(tasks)}
      BY <1>2 DEF Take, PoolTypeOK, UnderWay, Busy
    <2>2. Cardinality(UnderWay) < Cardinality(PoolWorkers)
      BY <1>2, RoomForOneMore DEF Take
    <2>3. Open' = Open
      BY <1>2 DEF Take, Open
    <2>4. Queue!Begin
      BY <1>2, <2>1, <2>2, <2>3 DEF Take, Queue!Begin, Queue!Cardinality, Cardinality
    <2> QED
      BY <2>4 DEF Queue!Next
  <1>3. ASSUME NEW w \in PoolWorkers, Finish(w) PROVE Queue!Next
    <2>1. doing[w] \in UnderWay
      BY <1>3 DEF Finish, UnderWay, Busy
    <2>2. Busy' = Busy \ {w} /\ \A v \in Busy' : doing'[v] = doing[v]
      BY <1>3 DEF Finish, TaskDropped, PoolTypeOK, Busy
    <2>3. UnderWay' = UnderWay \ {doing[w]}
      BY <1>3, <2>2 DEF Finish, UnderWay, Busy, TakenOnce
    <2>4. Open' = Open
      BY <1>3 DEF Finish, Open
    <2> QED
      BY <1>3, <2>1, <2>3, <2>4 DEF Finish, Queue!Next, Queue!Finish
  <1>4. CASE SetStop
    BY <1>4 DEF SetStop, UnderWay, Busy, Open, Queue!Next, Queue!Close
  <1>5. CASE Join
    <2>1. tasks = <<>>
      BY <1>5, PoolWorkersAssumption DEF Join, NoneLeft
    <2>2. UnderWay = {} /\ UnderWay' = {}
      BY <1>5 DEF Join, UnderWay, Busy
    <2>3. Open = "no" /\ Open' = "gone"
      BY <1>5 DEF Join, Open
    <2> QED
      BY <1>5, <2>1, <2>2, <2>3 DEF Join, Queue!Next, Queue!Release
  <1>6. ASSUME NEW w \in PoolWorkers, Leave(w) \/ FallAsleep(w) \/ WakeUp(w)
        PROVE  UNCHANGED Queue!vars
    <2>1. Busy' = Busy /\ UNCHANGED <<accepted, tasks, doing, closing>>
      BY <1>6 DEF Leave, FallAsleep, WakeUp, Busy, PoolTypeOK
    <2> QED
      BY <2>1 DEF UnderWay, Open, Queue!vars
  <1>7. ASSUME NotifyOne \/ NotifyAll \/ UNCHANGED poolVars
        PROVE  UNCHANGED Queue!vars
    <2>1. Busy' = Busy /\ UNCHANGED <<accepted, tasks, doing>> /\ Open' = Open
      BY <1>7 DEF NotifyOne, NotifyAll, AllRoused, poolVars, Busy, PoolTypeOK, Open
    <2> QED
      BY <2>1 DEF UnderWay, Queue!vars
  <1> QED
    BY <1>1, <1>2, <1>3, <1>4, <1>5, <1>6, <1>7 DEF PoolNext, WorkerThread

LEMMA PoolKeepsInv == PoolSpec => []PoolInv
  BY PoolInvInit, PoolInvStep, PTL DEF PoolSpec

(***************************************************************************)
(* The pool implements the task queue: tasks are begun in order and once,  *)
(* no more at a time than there are workers, and a pool that has been      *)
(* destroyed has run them all.                                             *)
(***************************************************************************)
THEOREM PoolIsATaskQueue == PoolSpec => ImplementsTaskQueue
  <1>1. PoolInit => Queue!Init
    BY QueueInit
  <1>2. PoolInv /\ [PoolNext]_poolVars => [Queue!Next]_Queue!vars
    BY QueueStep
  <1> QED
    BY <1>1, <1>2, PoolKeepsInv, PTL DEF PoolSpec, ImplementsTaskQueue, Queue!Spec

-------------------------------------------------------------------------------
(* The end of main().  It is reached only through the destructor of the    *)
(* pool, and that only after the event thread was joined.                  *)

JoinedFirst ==
    /\ main = "thread" => evt = "unborn"
    /\ joined => evt = "ended"
    /\ main = "pool" => joined
    /\ closing # "no" => main = "pool"
    /\ outcome = "ended" => closing = "joined"

LEMMA JoinedFirstInit == LifeInit => JoinedFirst
  BY DEF LifeInit, PoolInit, JoinedFirst

LEMMA JoinedFirstStep ==
    ASSUME JoinedFirst, [LifeNext]_lifeVars
    PROVE  JoinedFirst'
  <1> USE DEF JoinedFirst
  <1>0. CASE UNCHANGED lifeVars
    BY <1>0 DEF lifeVars, controlVars, eventVars, taskVars, poolVars
  <1> SUFFICES ASSUME LifeNext, outcome = "running" PROVE JoinedFirst'
    BY <1>0 DEF LifeNext
  <1>1. CASE Construct
    BY <1>1 DEF Construct, StartEventThread, SetRunning, MakeMembers, SetupSocket, Goes,
       poolVars, eventVars
  <1>2. CASE LeaveLoop \/ StartThrows \/ CallStop \/ StopReturns
    BY <1>2 DEF LeaveLoop, StartThrows, CallStop, StopReturns, Goes, poolVars, eventVars
  <1>3. CASE Destruct
    <2>1. CASE Destructor \/ OwnStopReturns \/ DestroySessions \/ DestroyQueue
      BY <2>1 DEF Destructor, OwnStopReturns, DestroySessions, DestroyQueue, Goes,
         poolVars, eventVars
    <2>2. CASE DestroyEventThread
      BY <2>2 DEF DestroyEventThread, Goes, poolVars, eventVars
    <2>3. CASE DestroyPool
      BY <2>3 DEF DestroyPool, controlVars, eventVars
    <2> QED
      BY <1>3, <2>1, <2>2, <2>3 DEF Destruct
  <1>4. CASE ReceiveMessage \/ NotifyWorker
    BY <1>4 DEF ReceiveMessage, NotifyWorker, Enqueue, NotifyOne, controlVars, eventVars
  <1>5. CASE EventThread \/ EventWakesUp \/ TimeoutThread
    BY <1>5 DEF EventThread, LookAtFlag, EnterEarly, Pop, WaitForEvent, EventProcessed,
       EventThreadStrays, Undefined, EventWakesUp, TimeoutThread, poolVars, controlVars, eventVars
  <1>6. ASSUME NEW w \in PoolWorkers, TakeTask(w) \/ RunTask(w) \/ WorkerWakesUp(w)
        PROVE  JoinedFirst'
    BY <1>6 DEF TakeTask, RunTask, WorkerWakesUp, HandleMessage, PushEvent,
       NotifyEventThread, TaskStrays, Undefined, WorkerThread, Take, Leave, FallAsleep,
       WakeUp, Finish, poolVars, controlVars, eventVars
  <1> QED
    BY <1>1, <1>2, <1>3, <1>4, <1>5, <1>6 DEF LifeNext, MainThread

LEMMA EndIsOrderly == PoolInv /\ JoinedFirst => OrderlyEnd
  <1> SUFFICES ASSUME PoolInv, JoinedFirst, outcome = "ended"
               PROVE  /\ \A n \in 1 .. accepted : Done(n)
                      /\ evt = "ended" /\ joined
    BY DEF OrderlyEnd
  <1>1. closing = "joined" /\ evt = "ended" /\ joined
    BY DEF JoinedFirst
  <1>2. \A w \in PoolWorkers : at[w] = "gone" /\ doing[w] = 0
    BY <1>1 DEF PoolInv, NoneLeft, PoolTypeOK
  <1>3. tasks = <<>>
    BY <1>2, PoolWorkersAssumption DEF PoolInv, NoneLeft
  <1>4. ASSUME NEW n \in 1 .. accepted PROVE Done(n)
    BY <1>2, <1>3 DEF Done, Waiting, PoolInv, PoolTypeOK
  <1> QED
    BY <1>1, <1>4

(***************************************************************************)
(* If main() returns, every message received has been handled, and the     *)
(* event thread has been joined, however many workers there are.           *)
(***************************************************************************)
THEOREM EndsOrderly == LifeSpec => []OrderlyEnd
  <1>1. LifeSpec => []PoolInv
    BY LifeUsesPool, PoolKeepsInv, PTL
  <1>2. LifeSpec => []JoinedFirst
    BY JoinedFirstInit, JoinedFirstStep, PTL DEF LifeSpec
  <1> QED
    BY <1>1, <1>2, EndIsOrderly, PTL

-------------------------------------------------------------------------------
(* No event is forgotten.  The worker that has pushed it and not yet told   *)
(* the event thread is the witness, until it does.                         *)

StageType == stage \in [PoolWorkers -> {"handle", "push", "notify"}]
EventInv == PoolTypeOK /\ StageType /\ NoForgottenEvent

LEMMA EventInvInit == LifeInit => EventInv
  BY PoolInitType DEF LifeInit, EventInv, StageType, NoForgottenEvent

LEMMA EventInvStep == ASSUME EventInv, [LifeNext]_lifeVars PROVE EventInv'
  <1>t. PoolTypeOK /\ PoolTypeOK'
    BY LifeStepsPool, PoolStepType DEF EventInv
  <1> SUFFICES StageType' /\ NoForgottenEvent'
    BY <1>t DEF EventInv
  <1> USE DEF EventInv
  <1>0. CASE UNCHANGED lifeVars
    BY <1>0 DEF lifeVars, eventVars, taskVars, poolVars, StageType, NoForgottenEvent
  <1>1. CASE UNCHANGED <<at, eventVars, stage>>
    BY <1>1 DEF eventVars, StageType, NoForgottenEvent
  <1>2. ASSUME Construct \/ LeaveLoop \/ StartThrows \/ CallStop \/ StopReturns
        PROVE  StageType' /\ NoForgottenEvent'
    BY <1>2 DEF Construct, StartEventThread, SetRunning, MakeMembers, SetupSocket,
       LeaveLoop, StartThrows, CallStop, StopReturns, poolVars, eventVars, taskVars,
       StageType, NoForgottenEvent
  <1>3. ASSUME Destructor \/ OwnStopReturns \/ DestroySessions \/ DestroyQueue \/ DestroyEventThread
        PROVE  UNCHANGED <<at, eventVars, stage>>
    BY <1>3 DEF Destructor, OwnStopReturns, DestroySessions, DestroyQueue,
       DestroyEventThread, poolVars, taskVars
  <1>4. ASSUME DestroyPool \/ ReceiveMessage \/ NotifyWorker
        PROVE  StageType' /\ NoForgottenEvent'
    <2>1. UNCHANGED <<eventVars, stage>>
      BY <1>4 DEF DestroyPool, ReceiveMessage, NotifyWorker, taskVars
    <2>2. \A w \in PoolWorkers : at[w] = "busy" => at'[w] = "busy"
      BY <1>t, <1>4 DEF DestroyPool, ReceiveMessage, NotifyWorker, Enqueue, NotifyOne, SetStop,
         NotifyAll, AllRoused, Join, PoolTypeOK
    <2> QED
      BY <2>1, <2>2 DEF eventVars, StageType, NoForgottenEvent
  <1>5. ASSUME EventThread \/ EventWakesUp
        PROVE  StageType' /\ NoForgottenEvent'
    BY <1>5 DEF EventThread, LookAtFlag, EnterEarly, Pop, WaitForEvent, NothingToPop,
       EventProcessed, EventThreadStrays, Undefined, EventWakesUp, poolVars, eventVars,
       taskVars, StageType, NoForgottenEvent
  <1>6. ASSUME TimeoutThread PROVE UNCHANGED <<at, eventVars, stage>>
    BY <1>6 DEF TimeoutThread, Undefined, poolVars, taskVars
  <1>7. ASSUME NEW w \in PoolWorkers, TakeTask(w) \/ WorkerWakesUp(w)
        PROVE  StageType' /\ NoForgottenEvent'
    <2>1. at[w] # "busy"
      BY <1>7 DEF TakeTask, WorkerWakesUp, WorkerThread, Take, Leave, FallAsleep, WakeUp
    <2>2. \A v \in PoolWorkers \ {w} : at'[v] = at[v] /\ stage'[v] = stage[v]
      BY <1>t, <1>7 DEF TakeTask, WorkerWakesUp, WorkerThread, Take, Leave, FallAsleep,
         WakeUp, PoolTypeOK, StageType, taskVars
    <2>3. UNCHANGED eventVars /\ StageType'
      BY <1>7 DEF TakeTask, WorkerWakesUp, taskVars, StageType
    <2> QED
      BY <2>1, <2>2, <2>3 DEF eventVars, NoForgottenEvent
  <1>8. ASSUME NEW w \in PoolWorkers, HandleMessage(w)
        PROVE  StageType' /\ NoForgottenEvent'
    <2>1. stage[w] # "notify" /\ UNCHANGED eventVars
      BY <1>8 DEF HandleMessage
    <2>2. \A v \in PoolWorkers \ {w} : at'[v] = at[v] /\ stage'[v] = stage[v]
      BY <1>t, <1>8 DEF HandleMessage, Finish, poolVars, PoolTypeOK, StageType
    <2>3. StageType'
      BY <1>8 DEF HandleMessage, StageType
    <2> QED
      BY <2>1, <2>2, <2>3 DEF eventVars, NoForgottenEvent
  <1>9. ASSUME NEW w \in PoolWorkers, PushEvent(w)
        PROVE  StageType' /\ NoForgottenEvent'
    BY <1>9 DEF PushEvent, poolVars, StageType, NoForgottenEvent
  <1>10. ASSUME NEW w \in PoolWorkers, NotifyEventThread(w)
         PROVE  StageType' /\ NoForgottenEvent'
    BY <1>10 DEF NotifyEventThread, taskVars, StageType, NoForgottenEvent
  <1>11. ASSUME NEW w \in PoolWorkers, TaskStrays(w) PROVE UNCHANGED <<at, eventVars, stage>>
    BY <1>11 DEF TaskStrays, Undefined, poolVars, taskVars
  <1> QED
    BY <1>0, <1>1, <1>2, <1>3, <1>4, <1>5, <1>6, <1>7, <1>8, <1>9, <1>10, <1>11
       DEF LifeNext, MainThread, Destruct, RunTask

(***************************************************************************)
(* The event thread never sleeps on an event nobody will tell it of,       *)
(* although push notifies after it has released the mutex.                 *)
(***************************************************************************)
THEOREM NoEventIsForgotten == LifeSpec => []NoForgottenEvent
  <1>1. EventInv => NoForgottenEvent
    BY DEF EventInv
  <1> QED
    BY <1>1, EventInvInit, EventInvStep, PTL DEF LifeSpec

-------------------------------------------------------------------------------
(* Type correctness of the server's life.  What bounds the event queue and  *)
(* the timeout threads is a count: a message accepted is in the queue of    *)
(* the pool, or with a worker that has still to handle it or to push its    *)
(* event, or has become at most one event and at most one timeout thread.   *)

Working(stages) == {w \in PoolWorkers : at[w] = "busy" /\ stage[w] \in stages}
Handling == Working({"handle"})
Unpushed == Working({"handle", "push"})
Budget ==
    /\ events \in Nat /\ Len(tasks) + Cardinality(Unpushed) + events <= accepted
    /\ sleepers \in Nat /\ Len(tasks) + Cardinality(Handling) + sleepers <= accepted
ControlType ==
    /\ main \in Phases
    /\ flag \in {"unset", "true", "false"}
    /\ members \in {"unmade", "made", "going", "gone"}
    /\ stopper \in {"idle", "stopping", "stopped"}
    /\ joined \in BOOLEAN
    /\ evt \in {"unborn", "loop", "pop", "asleep", "event", "ended", "stray"}
    /\ outcome \in {"running", "ended", "aborted", "undefined"}
LifeInv == ControlType /\ Budget

LEMMA WorkingIsFinite ==
    ASSUME NEW S PROVE IsFiniteSet(Working(S)) /\ Cardinality(Working(S)) \in Nat
  <1>1. Working(S) \subseteq PoolWorkers
    BY DEF Working
  <1> QED
    BY <1>1, PoolWorkersAssumption, FS_Subset, FS_CardinalityType

\* One worker comes to one of the stages, or goes from it, and nobody else does.
LEMMA WorkingMoves ==
    ASSUME NEW S, NEW w
    PROVE  /\ Working(S)' \subseteq Working(S) =>
                Cardinality(Working(S)') <= Cardinality(Working(S))
           /\ Working(S)' \subseteq Working(S) \cup {w} =>
                Cardinality(Working(S)') <= Cardinality(Working(S)) + 1
           /\ w \in Working(S) /\ Working(S)' \subseteq Working(S) \ {w} =>
                Cardinality(Working(S)') <= Cardinality(Working(S)) - 1
           /\ Cardinality(Working(S)') \in Nat
  <1> DEFINE W == Working(S)
  <1>0. IsFiniteSet(W) /\ Cardinality(W) \in Nat
    BY WorkingIsFinite
  <1>1. \A V : V \subseteq W => IsFiniteSet(V) /\ Cardinality(V) <= Cardinality(W)
    BY <1>0, FS_Subset
  <1>2. /\ IsFiniteSet(W \cup {w}) /\ Cardinality(W \cup {w}) \in Nat
        /\ Cardinality(W \cup {w}) <= Cardinality(W) + 1
    BY <1>0, FS_AddElement, FS_CardinalityType
  <1>3. IsFiniteSet(W \ {w}) /\ (w \in W => Cardinality(W \ {w}) = Cardinality(W) - 1)
    BY <1>0, FS_RemoveElement
  <1>4. \A V : V \subseteq W \cup {w} => Cardinality(V) <= Cardinality(W) + 1 /\ IsFiniteSet(V)
    <2>1. \A V : V \subseteq W \cup {w} =>
                   Cardinality(V) <= Cardinality(W \cup {w}) /\ IsFiniteSet(V)
      BY <1>2, FS_Subset
    <2>2. \A V : IsFiniteSet(V) => Cardinality(V) \in Nat
      BY FS_CardinalityType
    <2> HIDE DEF W
    <2> QED
      BY <1>0, <1>2, <2>1, <2>2
  <1>5. \A V : V \subseteq W \ {w} => Cardinality(V) <= Cardinality(W \ {w})
    BY <1>3, FS_Subset
  <1>6. Cardinality(Working(S)') \in Nat
    <2>1. Working(S)' \subseteq PoolWorkers
      BY DEF Working
    <2> QED
      BY <2>1, PoolWorkersAssumption, FS_Subset, FS_CardinalityType
  <1> QED
    BY <1>1, <1>3, <1>4, <1>5, <1>6

LEMMA LifeInvInit == LifeInit => LifeInv
  <1> SUFFICES ASSUME LifeInit PROVE LifeInv
    OBVIOUS
  <1>1. Unpushed = {} /\ Handling = {} /\ Len(tasks) = 0
    BY DEF LifeInit, PoolInit, Unpushed, Handling, Working
  <1>2. Cardinality(Unpushed) = 0 /\ Cardinality(Handling) = 0
    BY <1>1, FS_EmptySet
  <1>3. Budget
    BY <1>1, <1>2 DEF LifeInit, PoolInit, Budget
  <1> QED
    BY <1>3 DEF LifeInit, LifeInv, ControlType, Phases

LEMMA ControlStep == ASSUME ControlType, [LifeNext]_lifeVars PROVE ControlType'
  <1> USE DEF ControlType, Phases
  <1>0. CASE UNCHANGED lifeVars
    BY <1>0 DEF lifeVars, controlVars, eventVars
  <1>1. CASE Construct
    BY <1>1 DEF Construct, StartEventThread, SetRunning, MakeMembers, SetupSocket, Goes, eventVars
  <1>2. CASE LeaveLoop \/ StartThrows \/ CallStop \/ StopReturns
    BY <1>2 DEF LeaveLoop, StartThrows, CallStop, StopReturns, FlagCleared, Goes, eventVars
  <1>3. CASE Destruct
    <2>1. CASE Destructor \/ OwnStopReturns \/ DestroySessions \/ DestroyQueue
      BY <2>1 DEF Destructor, OwnStopReturns, DestroySessions, DestroyQueue, FlagCleared, Goes,
         eventVars
    <2>2. CASE DestroyEventThread
      BY <2>2 DEF DestroyEventThread, Goes, eventVars
    <2>3. CASE DestroyPool
      BY <2>3 DEF DestroyPool, controlVars, eventVars
    <2> QED
      BY <1>3, <2>1, <2>2, <2>3 DEF Destruct
  <1>4. CASE ReceiveMessage \/ NotifyWorker
    BY <1>4 DEF ReceiveMessage, NotifyWorker, controlVars, eventVars
  <1>5. CASE EventThread \/ EventWakesUp \/ TimeoutThread
    BY <1>5 DEF EventThread, LookAtFlag, EnterEarly, Pop, WaitForEvent, EventProcessed,
       EventThreadStrays, Undefined, EventWakesUp, TimeoutThread, controlVars, eventVars
  <1>6. ASSUME NEW w \in PoolWorkers, TakeTask(w) \/ RunTask(w) \/ WorkerWakesUp(w)
        PROVE  ControlType'
    BY <1>6 DEF TakeTask, RunTask, WorkerWakesUp, HandleMessage, PushEvent,
       NotifyEventThread, TaskStrays, Undefined, controlVars, eventVars
  <1> QED
    BY <1>0, <1>1, <1>2, <1>3, <1>4, <1>5, <1>6 DEF LifeNext, MainThread

\* A step that takes no task and brings no worker to a stage before the push.
LEMMA BudgetKept ==
    ASSUME PoolTypeOK, PoolTypeOK', Budget, accepted' = accepted, tasks' = tasks,
           Unpushed' \subseteq Unpushed, Handling' \subseteq Handling,
           events' = events \/ (events > 0 /\ events' = events - 1),
           sleepers' = sleepers \/ (sleepers > 0 /\ sleepers' = sleepers - 1)
    PROVE  Budget'
  <1>1. /\ Cardinality(Unpushed') <= Cardinality(Unpushed) /\ Cardinality(Unpushed') \in Nat
        /\ Cardinality(Handling') <= Cardinality(Handling) /\ Cardinality(Handling') \in Nat
        /\ Cardinality(Unpushed) \in Nat /\ Cardinality(Handling) \in Nat
    BY WorkingMoves, WorkingIsFinite DEF Unpushed, Handling
  <1>2. Len(tasks) \in Nat /\ accepted \in Nat /\ events \in Nat /\ sleepers \in Nat
    BY DEF PoolTypeOK, Budget
  <1>3. events' \in Nat /\ events' <= events /\ sleepers' \in Nat /\ sleepers' <= sleepers
    BY <1>2
  <1>4. Len(tasks') + Cardinality(Unpushed') + events' <= accepted'
    BY <1>1, <1>2, <1>3 DEF Budget
  <1>5. Len(tasks') + Cardinality(Handling') + sleepers' <= accepted'
    BY <1>1, <1>2, <1>3 DEF Budget
  <1> QED
    BY <1>3, <1>4, <1>5 DEF Budget

LEMMA BudgetStep ==
    ASSUME PoolTypeOK, PoolTypeOK', StageType, Budget, [LifeNext]_lifeVars
    PROVE  Budget'
  <1>n. Len(tasks) \in Nat /\ accepted \in Nat /\ DOMAIN at = PoolWorkers
        /\ DOMAIN stage = PoolWorkers /\ events \in Nat /\ sleepers \in Nat
    BY DEF PoolTypeOK, StageType, Budget
  <1>c. /\ Cardinality(Unpushed) \in Nat /\ Cardinality(Handling) \in Nat
        /\ Cardinality(Unpushed') \in Nat /\ Cardinality(Handling') \in Nat
    BY WorkingMoves, WorkingIsFinite DEF Unpushed, Handling
  <1>k. ASSUME UNCHANGED <<accepted, tasks, events, sleepers>>,
               Unpushed' \subseteq Unpushed, Handling' \subseteq Handling
        PROVE  Budget'
    BY <1>k, BudgetKept
  <1>0. ASSUME UNCHANGED <<poolVars, events, stage>>,
               sleepers' = sleepers \/ (sleepers > 0 /\ sleepers' = sleepers - 1)
        PROVE  Budget'
    <2>1. Unpushed' = Unpushed /\ Handling' = Handling
      BY <1>0 DEF poolVars, Unpushed, Handling, Working
    <2> QED
      BY <1>0, <2>1, BudgetKept DEF poolVars
  <1>1. ASSUME Construct \/ LeaveLoop \/ StartThrows \/ CallStop \/ StopReturns
        PROVE  Budget'
    BY <1>0, <1>1 DEF Construct, StartEventThread, SetRunning, MakeMembers, SetupSocket,
       LeaveLoop, StartThrows, CallStop, StopReturns, eventVars, taskVars
  <1>2. ASSUME Destructor \/ OwnStopReturns \/ DestroySessions \/ DestroyQueue \/ DestroyEventThread
        PROVE  Budget'
    BY <1>0, <1>2 DEF Destructor, OwnStopReturns, DestroySessions, DestroyQueue,
       DestroyEventThread, eventVars, taskVars
  <1>3. ASSUME DestroyPool \/ NotifyWorker
        PROVE  Budget'
    <2>1. \A w \in PoolWorkers : at'[w] = "busy" => at[w] = "busy"
      BY <1>n, <1>3 DEF DestroyPool, NotifyWorker, NotifyOne, SetStop, NotifyAll, AllRoused, Join
    <2>2. Unpushed' \subseteq Unpushed /\ Handling' \subseteq Handling
      BY <1>3, <2>1 DEF DestroyPool, NotifyWorker, taskVars, Unpushed, Handling, Working
    <2> QED
      BY <1>3, <1>k, <2>2 DEF DestroyPool, NotifyWorker, SetStop, NotifyAll, Join, NotifyOne,
         eventVars, taskVars
  <1>4. ASSUME ReceiveMessage PROVE Budget'
    <2>1. Len(tasks') = Len(tasks) + 1
      BY <1>4 DEF ReceiveMessage, Enqueue, PoolTypeOK
    <2>2. Unpushed' = Unpushed /\ Handling' = Handling
      BY <1>4 DEF ReceiveMessage, Enqueue, taskVars, Unpushed, Handling, Working
    <2> QED
      BY <1>4, <1>n, <1>c, <2>1, <2>2 DEF ReceiveMessage, Enqueue, eventVars, taskVars, Budget
  <1>5. ASSUME EventThread \/ EventWakesUp PROVE Budget'
    <2>1. Unpushed' = Unpushed /\ Handling' = Handling /\ UNCHANGED <<accepted, tasks, sleepers>>
      BY <1>5 DEF EventThread, LookAtFlag, EnterEarly, Pop, WaitForEvent, EventProcessed,
         EventThreadStrays, Undefined, EventWakesUp, poolVars, taskVars, Unpushed, Handling,
         Working
    <2>2. events' = events \/ (events > 0 /\ events' = events - 1)
      BY <1>5 DEF EventThread, LookAtFlag, EnterEarly, Pop, WaitForEvent, EventProcessed,
         EventThreadStrays, Undefined, EventWakesUp, eventVars
    <2> QED
      BY <2>1, <2>2, BudgetKept
  <1>6. ASSUME TimeoutThread PROVE Budget'
    BY <1>0, <1>6 DEF TimeoutThread, Undefined, eventVars, taskVars
  <1>7. ASSUME NEW w \in PoolWorkers, Take(w), TakeTask(w) PROVE Budget'
    <2>1. Len(tasks') = Len(tasks) - 1
      BY <1>7, HeadTailProperties DEF Take, PoolTypeOK
    <2>2. Unpushed' \subseteq Unpushed \cup {w} /\ Handling' \subseteq Handling \cup {w}
      BY <1>7, <1>n DEF Take, TakeTask, Unpushed, Handling, Working
    <2>3. /\ Cardinality(Unpushed') <= Cardinality(Unpushed) + 1
          /\ Cardinality(Handling') <= Cardinality(Handling) + 1
      BY <2>2, WorkingMoves DEF Unpushed, Handling
    <2> QED
      <3>1. UNCHANGED <<accepted, events, sleepers>>
        BY <1>7 DEF Take, TakeTask, eventVars
      <3>2. Len(tasks') + Cardinality(Unpushed') + events' <= accepted'
        BY <1>n, <1>c, <2>1, <2>3, <3>1 DEF Budget
      <3>3. Len(tasks') + Cardinality(Handling') + sleepers' <= accepted'
        BY <1>n, <1>c, <2>1, <2>3, <3>1 DEF Budget
      <3> QED
        BY <1>n, <3>1, <3>2, <3>3 DEF Budget
  <1>8. ASSUME NEW w \in PoolWorkers,
               ((Leave(w) \/ FallAsleep(w)) /\ TakeTask(w)) \/ WorkerWakesUp(w)
        PROVE  Budget'
    <2>1. Unpushed' \subseteq Unpushed /\ Handling' \subseteq Handling
      BY <1>8, <1>n DEF Leave, FallAsleep, TakeTask, WorkerWakesUp, WakeUp, taskVars,
         Unpushed, Handling, Working
    <2> QED
      BY <1>8, <1>k, <2>1 DEF Leave, FallAsleep, TakeTask, WorkerWakesUp, WakeUp, eventVars,
         taskVars
  <1>9. ASSUME NEW w \in PoolWorkers, HandleMessage(w) PROVE Budget'
    <2>1. w \in Handling /\ Handling' \subseteq Handling \ {w} /\ Unpushed' \subseteq Unpushed
      BY <1>9, <1>n DEF HandleMessage, Finish, poolVars, Unpushed, Handling, Working
    <2>2. /\ Cardinality(Unpushed') <= Cardinality(Unpushed)
          /\ Cardinality(Handling') <= Cardinality(Handling) - 1
      BY <2>1, WorkingMoves DEF Unpushed, Handling
    <2>3. UNCHANGED <<accepted, tasks, events>> /\ sleepers' \in {sleepers, sleepers + 1}
      BY <1>9 DEF HandleMessage, Finish, poolVars, eventVars
    <2>4. Len(tasks') + Cardinality(Unpushed') + events' <= accepted'
      BY <1>n, <1>c, <2>2, <2>3 DEF Budget
    <2>5. sleepers' \in Nat /\ Len(tasks') + Cardinality(Handling') + sleepers' <= accepted'
      BY <1>n, <1>c, <2>2, <2>3 DEF Budget
    <2> QED
      BY <1>n, <2>3, <2>4, <2>5 DEF Budget
  <1>10. ASSUME NEW w \in PoolWorkers, PushEvent(w) PROVE Budget'
    <2>1. w \in Unpushed /\ Unpushed' \subseteq Unpushed \ {w} /\ Handling' \subseteq Handling
      BY <1>10, <1>n DEF PushEvent, poolVars, Unpushed, Handling, Working
    <2>2. /\ Cardinality(Unpushed') <= Cardinality(Unpushed) - 1
          /\ Cardinality(Handling') <= Cardinality(Handling)
      BY <2>1, WorkingMoves DEF Unpushed, Handling
    <2>3. UNCHANGED <<accepted, tasks, sleepers>> /\ events' = events + 1
      BY <1>10 DEF PushEvent, poolVars
    <2> QED
      BY <1>n, <1>c, <2>2, <2>3 DEF Budget
  <1>11. ASSUME NEW w \in PoolWorkers, NotifyEventThread(w) \/ TaskStrays(w) PROVE Budget'
    <2>1. Unpushed' \subseteq Unpushed /\ Handling' \subseteq Handling
      BY <1>11, <1>n DEF NotifyEventThread, TaskStrays, Undefined, Finish, poolVars, taskVars,
         Unpushed, Handling, Working
    <2> QED
      BY <1>11, <1>k, <2>1 DEF NotifyEventThread, TaskStrays, Undefined, Finish, poolVars,
         eventVars, taskVars
  <1> QED
    <2>1. CASE UNCHANGED lifeVars
      BY <1>0, <2>1 DEF lifeVars, eventVars, taskVars
    <2>2. CASE LifeNext
      BY <1>1, <1>2, <1>3, <1>4, <1>5, <1>6, <1>7, <1>8, <1>9, <1>10, <1>11, <2>2
         DEF LifeNext, MainThread, Destruct, RunTask, TakeTask, WorkerThread
    <2> QED
      BY <2>1, <2>2

(***************************************************************************)
(* Every variable of the server's life holds a value of its type: there    *)
(* are never more events in event_queue_, nor timeout threads asleep, than *)
(* messages received, though a handler and the push of its event are apart *)
(* (handleNewMessage).                                                     *)
(***************************************************************************)
THEOREM LifeTypeCorrect == LifeSpec => []LifeTypeOK
  <1>1. EventInv /\ LifeInv /\ [LifeNext]_lifeVars => LifeInv'
    BY ControlStep, BudgetStep, LifeStepsPool, PoolStepType DEF EventInv, LifeInv
  <1>2. EventInv /\ LifeInv => LifeTypeOK
    <2> SUFFICES ASSUME EventInv, LifeInv PROVE LifeTypeOK
      OBVIOUS
    <2>1. /\ Len(tasks) \in Nat /\ accepted \in 0 .. MaxTasks
          /\ Cardinality(Unpushed) \in Nat /\ Cardinality(Handling) \in Nat
      BY WorkingIsFinite DEF EventInv, PoolTypeOK, Unpushed, Handling
    <2>2. events \in 0 .. MaxTasks /\ sleepers \in 0 .. MaxTasks
      BY <2>1, MaxTasksAssumption DEF LifeInv, Budget
    <2> QED
      BY <2>2 DEF EventInv, StageType, LifeInv, ControlType, LifeTypeOK
  <1> QED
    BY <1>1, <1>2, EventInvInit, EventInvStep, LifeInvInit, PTL DEF LifeSpec
===============================================================================

----------------------------- MODULE SearchProofs -----------------------------
(***************************************************************************)
(* Searches are answered by the threads that time them: theorems about     *)
(* OpenServer, for any peers, roles, items, prices and threads, and any    *)
(* number of ticks in the minute.                                          *)
(***************************************************************************)
EXTENDS ServerTypeProofs

-------------------------------------------------------------------------------
(***************************************************************************)
(* No search is left without a timeout thread.  The thread is started      *)
(* before the search is stored and sleeps for the minute, so a search that *)
(* is stored, or pending, before the minute is over has one with at least  *)
(* the rest of the minute to sleep (Timed).  A worker that is not stalled  *)
(* for a tick stores the search before any of the minute has passed.       *)
(***************************************************************************)
Timed(threads, r, age) ==
    age < Window => \E t \in DOMAIN threads : /\ threads[t].rq = r
                                             /\ threads[t].left + age >= Window
StoringIsTimed ==
    \A w \in DOMAIN jobs : jobs[w].at = "store" =>
        Timed(timers, jobs[w].msg.rq, jobs[w].age) /\ (~Stalls => jobs[w].age = 0)
PendingIsTimed ==
    \A r \in Rqs : Pending(r) => Timed(timers, r, searches[r].age) /\ (~Stalls => HasTimer(r))
OrphanInv == StoringIsTimed /\ PendingIsTimed

\* A table without one key: the others are as they were.
LEMMA DropTable ==
    ASSUME NEW f, NEW k, NEW g, g = Restrict(f, DOMAIN f \ {k})
    PROVE  /\ DOMAIN g = DOMAIN f \ {k}
           /\ \A x \in DOMAIN g : x # k /\ x \in DOMAIN f /\ g[x] = f[x]
  BY DEF Restrict

\* After a timeout thread has looked for its request, it is not pending.
LEMMA ResolvedNotPending ==
    ASSUME SearchesTypeOK, NEW r, Pending(r), ResolveSearch(r)
    PROVE  /\ ~Pending(r)'
           /\ \A q : q # r => (Pending(q)' <=> Pending(q))
           /\ \A q : Pending(q)' => searches'[q] = searches[q]
  <1>1. CASE searches' = Restrict(searches, DOMAIN searches \ {r})
    BY <1>1, DropTable DEF Pending, Restrict
  <1>2. CASE searches' = [searches EXCEPT ![r].processed = TRUE]
    <2>1. r \in DOMAIN searches /\ searches[r] \in SearchRequest
      BY DEF Pending, SearchesTypeOK
    <2>2. searches'[r].processed
      BY <1>2, <2>1 DEF SearchRequest
    <2>3. \A q \in DOMAIN searches : q # r => searches'[q] = searches[q]
      BY <1>2
    <2>4. DOMAIN searches' = DOMAIN searches
      BY <1>2
    <2> QED
      BY <2>2, <2>3, <2>4 DEF Pending
  <1> QED
    BY <1>1, <1>2 DEF ResolveSearch, WithoutSearch, Processed

\* A handler that ends: no worker comes to be about to store.
LEMMA AfterHandlerStoring ==
    ASSUME NEW w, NEW d, AfterHandler(w, d)
    PROVE  \A v \in DOMAIN jobs' : jobs'[v].at = "store" =>
              v \in DOMAIN jobs /\ jobs'[v] = jobs[v]
  BY DEF AfterHandler, Put, JobAt, Restrict

\* Nor by the later steps of a worker.
LEMMA OtherStepsStoring ==
    ASSUME JobsTypeOK, NEW w, BroadcastSearch(w) \/ PushEvent(w)
    PROVE  \A v \in DOMAIN jobs' : jobs'[v].at = "store" =>
              v \in DOMAIN jobs /\ jobs'[v] = jobs[v]
  <1>1. CASE BroadcastSearch(w)
    <2>1. jobs' = [jobs EXCEPT ![w] = [jobs[w] EXCEPT !.at = "push"]] /\ jobs[w] \in Job
      BY <1>1 DEF BroadcastSearch, JobsTypeOK
    <2>2. [jobs[w] EXCEPT !.at = "push"].at = "push"
      BY <2>1 DEF Job
    <2> QED
      BY <2>1, <2>2
  <1>2. CASE PushEvent(w)
    BY <1>2 DEF PushEvent, Restrict
  <1> QED
    BY <1>1, <1>2

\* An offer changes no search but its list of offers.
LEMMA OfferKeepsSearches ==
    ASSUME NEW w, NEW d, HandleOffer(w, d)
    PROVE  \A r : /\ Pending(r)' <=> Pending(r)
                  /\ Pending(r)' => searches'[r].age = searches[r].age
  BY DEF HandleOffer, WithOffer, Collecting, Pending

\* A step that keeps the threads, as far as those of request r go.
LEMMA TimedKept ==
    ASSUME NEW r, NEW age,
           \A t \in DOMAIN timers : timers[t].rq = r /\ timers[t].left + age >= Window =>
              t \in DOMAIN timers' /\ timers'[t] = timers[t],
           Timed(timers, r, age)
    PROVE  Timed(timers', r, age)
  BY DEF Timed

LEMMA OrphanStep ==
    ASSUME TypeOK, OrphanInv, [Next]_vars
    PROVE  OrphanInv'
  <1>u. /\ SearchesTypeOK /\ TimersTypeOK /\ JobsTypeOK
    BY DEF TypeOK, ServerTypeOK
  <1>v. OrphanInv <=> /\ \A w \in DOMAIN jobs : jobs[w].at = "store" =>
                            Timed(timers, jobs[w].msg.rq, jobs[w].age) /\ (~Stalls => jobs[w].age = 0)
                      /\ \A r \in Rqs : Pending(r) =>
                            Timed(timers, r, searches[r].age) /\ (~Stalls => HasTimer(r))
    BY DEF OrphanInv, StoringIsTimed, PendingIsTimed
  \* The steps that keep the threads, the storing workers and the searches' ages.
  <1>w. ASSUME \A t \in DOMAIN timers : t \in DOMAIN timers' /\ timers'[t] = timers[t],
               \A v \in DOMAIN jobs' : jobs'[v].at = "store" =>
                  v \in DOMAIN jobs /\ jobs'[v] = jobs[v],
               \A r \in Rqs : Pending(r)' => Pending(r) /\ searches'[r].age = searches[r].age
        PROVE  OrphanInv'
    <2>1. \A r, age : Timed(timers, r, age) => Timed(timers', r, age)
      BY <1>w, TimedKept
    <2>2. \A r : HasTimer(r) => HasTimer(r)'
      BY <1>w DEF HasTimer
    <2> QED
      BY <1>v, <1>w, <2>1, <2>2 DEF OrphanInv, StoringIsTimed, PendingIsTimed
  <1>1. ASSUME NEW w \in Workers, NEW d, Handle(w, d)
        PROVE  OrphanInv'
    <2>1. CASE HandleRegister(w, d) \/ HandleDeregister(w, d) \/ HandleUnknown(w, d)
      BY <1>w, <2>1, AfterHandlerStoring DEF HandleRegister, HandleDeregister, HandleUnknown, Pending
    <2>2. CASE HandleOffer(w, d)
      BY <1>w, <2>2, AfterHandlerStoring, OfferKeepsSearches DEF HandleOffer
    <2>3. CASE StartSearch(w, d)
      <3>1. PICK t \in TimerThreads \ DOMAIN timers :
              timers' = Put(timers, t, NewTimer(d.msg.rq))
        BY <2>3 DEF StartSearch
      <3>2. /\ t \in DOMAIN timers' /\ timers'[t] = NewTimer(d.msg.rq)
            /\ \A u \in DOMAIN timers : u \in DOMAIN timers' /\ timers'[u] = timers[u]
        BY <3>1 DEF Put
      <3>k. /\ \A r, age : Timed(timers, r, age) => Timed(timers', r, age)
            /\ \A r : HasTimer(r) => HasTimer(r)'
        BY <3>2, TimedKept DEF HasTimer
      <3>3. ASSUME NEW v \in DOMAIN jobs', jobs'[v].at = "store"
            PROVE  /\ Timed(timers', jobs'[v].msg.rq, jobs'[v].age)
                   /\ ~Stalls => jobs'[v].age = 0
        <4>1. CASE v = w
          <5>1. jobs'[v].age = 0 /\ jobs'[v].msg.rq = d.msg.rq
            BY <2>3, <4>1 DEF StartSearch, Put, JobAt
          <5>2. timers'[t].rq = d.msg.rq /\ timers'[t].left + 0 >= Window
            BY <3>2, WindowAssumption DEF NewTimer
          <5> QED
            BY <3>2, <5>1, <5>2 DEF Timed
        <4>2. CASE v # w
          <5>1. v \in DOMAIN jobs /\ jobs'[v] = jobs[v]
            BY <2>3, <3>3, <4>2 DEF StartSearch, Put
          <5> QED
            BY <1>v, <3>3, <3>k, <5>1
        <4> QED
          BY <4>1, <4>2
      <3>4. ASSUME NEW r \in Rqs, Pending(r)'
            PROVE  Timed(timers', r, searches'[r].age) /\ (~Stalls => HasTimer(r)')
        <4>1. Pending(r) /\ searches'[r].age = searches[r].age
          BY <2>3, <3>4 DEF StartSearch, Pending
        <4> QED
          BY <1>v, <3>k, <4>1
      <3> QED
        BY <3>3, <3>4 DEF OrphanInv, StoringIsTimed, PendingIsTimed
    <2> QED
      BY <1>1, <2>1, <2>2, <2>3 DEF Handle
  <1>2. ASSUME NEW w \in Workers, StoreSearch(w)
        PROVE  OrphanInv'
    <2>1. /\ w \in DOMAIN jobs /\ jobs[w].at = "store" /\ timers' = timers
          /\ searches' = Put(searches, jobs[w].msg.rq, NewSearch(w))
      BY <1>2 DEF StoreSearch
    <2>2. \A v \in DOMAIN jobs' : jobs'[v].at = "store" =>
             v \in DOMAIN jobs /\ jobs'[v] = jobs[v]
      BY <1>2 DEF StoreSearch, JobAt
    <2>3. ASSUME NEW r \in Rqs, Pending(r)'
          PROVE  Timed(timers, r, searches'[r].age) /\ (~Stalls => HasTimer(r))
      <3>1. CASE r = jobs[w].msg.rq
        <4>1. searches'[r].age = jobs[w].age
          BY <2>1, <3>1 DEF Put, NewSearch
        <4>2. Timed(timers, r, jobs[w].age) /\ (~Stalls => jobs[w].age = 0)
          BY <1>v, <2>1, <3>1
        <4>3. jobs[w].age = 0 => HasTimer(r)
          BY <4>2, WindowAssumption DEF Timed, HasTimer
        <4> QED
          BY <4>1, <4>2, <4>3
      <3>2. CASE r # jobs[w].msg.rq
        <4>1. Pending(r) /\ searches'[r] = searches[r]
          BY <2>1, <2>3, <3>2 DEF Put, Pending
        <4> QED
          BY <1>v, <4>1
      <3> QED
        BY <3>1, <3>2
    <2>4. \A v \in DOMAIN jobs' : jobs'[v].at = "store" =>
             Timed(timers, jobs'[v].msg.rq, jobs'[v].age) /\ (~Stalls => jobs'[v].age = 0)
      BY <1>v, <2>2
    <2> QED
      BY <2>1, <2>3, <2>4 DEF OrphanInv, StoringIsTimed, PendingIsTimed, HasTimer
  <1>3. ASSUME NEW w \in Workers, BroadcastSearch(w) \/ PushEvent(w)
        PROVE  OrphanInv'
    <2>1. \A v \in DOMAIN jobs' : jobs'[v].at = "store" =>
             v \in DOMAIN jobs /\ jobs'[v] = jobs[v]
      BY <1>u, <1>3, OtherStepsStoring
    <2>2. timers' = timers /\ searches' = searches
      BY <1>3 DEF BroadcastSearch, PushEvent
    <2> QED
      BY <1>w, <2>1, <2>2 DEF Pending
  <1>4. ASSUME NEW t \in TimerThreads, TimerFires(t)
        PROVE  OrphanInv'
    <2>1. \A u \in DOMAIN timers : u # t => u \in DOMAIN timers' /\ timers'[u] = timers[u]
      BY <1>4 DEF TimerFires, WithoutTimer, Restrict
    <2>2. jobs' = jobs /\ t \in DOMAIN timers /\ timers[t].left = 0
      BY <1>4 DEF TimerFires, SleepIsOver
    <2>3. \A r : Pending(r)' => Pending(r) /\ r # timers[t].rq /\ searches'[r] = searches[r]
      BY <1>4, <1>u, ResolvedNotPending DEF TimerFires, Pending
    \* A thread that still has to sleep is not the one that fires.
    <2>4. ASSUME NEW r, NEW age \in 0 .. Window, Timed(timers, r, age)
          PROVE  Timed(timers', r, age)
      <3>1. SUFFICES ASSUME age < Window
                     PROVE  \E u \in DOMAIN timers' :
                               timers'[u].rq = r /\ timers'[u].left + age >= Window
        BY DEF Timed
      <3>2. PICK u \in DOMAIN timers : timers[u].rq = r /\ timers[u].left + age >= Window
        BY <2>4, <3>1 DEF Timed
      <3>3. u # t
        BY <2>2, <3>1, <3>2, WindowAssumption
      <3> QED
        BY <2>1, <3>2, <3>3
    <2>5. \A v \in DOMAIN jobs : jobs[v].age \in 0 .. Window
      BY <1>u DEF JobsTypeOK, Job
    <2>6. \A r \in Rqs : Pending(r) => searches[r].age \in 0 .. Window
      BY <1>u DEF SearchesTypeOK, SearchRequest, Pending
    <2>7. \A r : r # timers[t].rq /\ HasTimer(r) => HasTimer(r)'
      BY <2>1 DEF HasTimer
    <2>8. StoringIsTimed'
      BY <1>v, <2>2, <2>4, <2>5 DEF StoringIsTimed
    <2>9. PendingIsTimed'
      BY <1>v, <2>3, <2>4, <2>6, <2>7 DEF PendingIsTimed
    <2> QED
      BY <2>8, <2>9 DEF OrphanInv
  <1>5. CASE Tick
    <2>1. \A v \in DOMAIN jobs' :
             /\ v \in DOMAIN jobs /\ jobs[v] \in Job /\ jobs'[v].at = jobs[v].at
             /\ jobs'[v].msg = jobs[v].msg
             /\ jobs[v].at = "store" => jobs'[v].age = Older(jobs[v].age)
      BY <1>5, <1>u DEF Tick, JobsTypeOK, Job
    <2>2. /\ DOMAIN timers' = DOMAIN timers
          /\ \A t \in DOMAIN timers :
                /\ timers[t].left \in 0 .. Window /\ timers'[t].rq = timers[t].rq
                /\ timers'[t].left = IF timers[t].left > 0 THEN timers[t].left - 1 ELSE 0
      BY <1>5, <1>u DEF Tick, TimersTypeOK, Timer
    <2>3. \A r \in Rqs : Pending(r)' => /\ Pending(r)
                                        /\ searches[r].age \in 0 .. Window
                                        /\ searches'[r].age = Older(searches[r].age)
      BY <1>5, <1>u DEF Tick, Pending, SearchesTypeOK, SearchRequest
    \* The minute and the sleep run down together.
    <2>4. ASSUME NEW r, NEW age \in 0 .. Window, Timed(timers, r, age)
          PROVE  Timed(timers', r, Older(age))
      <3>1. SUFFICES ASSUME Older(age) < Window
                     PROVE  \E u \in DOMAIN timers' :
                               timers'[u].rq = r /\ timers'[u].left + Older(age) >= Window
        BY DEF Timed, Older
      <3>2. age < Window /\ Older(age) = age + 1
        BY <3>1, WindowAssumption DEF Older
      <3>3. PICK u \in DOMAIN timers : timers[u].rq = r /\ timers[u].left + age >= Window
        BY <2>4, <3>2 DEF Timed
      <3>4. timers[u].left > 0 /\ timers'[u].left = timers[u].left - 1
        BY <2>2, <3>2, <3>3, WindowAssumption
      <3>5. timers'[u].left + Older(age) >= Window
        BY <2>2, <3>2, <3>3, <3>4, WindowAssumption
      <3> QED
        BY <2>2, <3>3, <3>5
    <2>5. StoringIsTimed'
      <3>1. ASSUME NEW v \in DOMAIN jobs', jobs'[v].at = "store"
            PROVE  /\ Timed(timers', jobs'[v].msg.rq, jobs'[v].age)
                   /\ ~Stalls => jobs'[v].age = 0
        <4>1. v \in DOMAIN jobs /\ jobs[v].at = "store" /\ jobs[v].age \in 0 .. Window
          BY <2>1, <3>1 DEF Job
        <4>2. Timed(timers, jobs[v].msg.rq, jobs[v].age)
          BY <1>v, <4>1
        <4>3. Timed(timers', jobs[v].msg.rq, Older(jobs[v].age))
          BY <2>4, <4>1, <4>2
        <4>4. Stalls
          BY <1>5, <4>1 DEF Tick
        <4> QED
          BY <2>1, <4>1, <4>3, <4>4
      <3> QED
        BY <3>1 DEF StoringIsTimed
    <2>6. PendingIsTimed'
      <3>1. \A r : HasTimer(r) => HasTimer(r)'
        BY <2>2 DEF HasTimer
      <3>2. ASSUME NEW r \in Rqs, Pending(r)'
            PROVE  Timed(timers', r, searches'[r].age)
        <4>1. /\ Pending(r) /\ searches[r].age \in 0 .. Window
              /\ searches'[r].age = Older(searches[r].age)
          BY <2>3, <3>2
        <4>2. Timed(timers, r, searches[r].age)
          BY <1>v, <4>1
        <4> QED
          BY <2>4, <4>1, <4>2
      <3> QED
        BY <1>v, <2>3, <3>1, <3>2 DEF PendingIsTimed
    <2> QED
      BY <2>5, <2>6 DEF OrphanInv
  <1>6. CASE UNCHANGED <<searches, timers, jobs>>
    BY <1>w, <1>6 DEF Pending
  <1>7. ASSUME ServerNext PROVE OrphanInv'
    <2>1. CASE ProcessEvent
      BY <1>6, <2>1 DEF ProcessEvent
    <2> QED
      BY <1>1, <1>2, <1>3, <1>4, <1>5, <1>7, <2>1 DEF ServerNext, WorkerSteps
  <1>8. CASE PeersNext \/ FaultsNext \/ UNCHANGED serverVars
    BY <1>6, <1>8 DEF PeersNext, PeerRegisters, PeerDeregisters, PeerFails, PeerSearches, PeerTrades,
       PeerOffers, Does, FaultsNext, serverVars
  <1> QED
    BY <1>7, <1>8 DEF Next, vars

(***************************************************************************)
(* Every search that is filed and not resolved has a timeout thread that   *)
(* will resolve it, for any number of peers and searches and whatever      *)
(* request numbers they use (handleLookingFor); only a search stored by a  *)
(* worker that stalled until the minute was over may have none.            *)
(***************************************************************************)
THEOREM NoOrphans == Spec => []NoOrphanSearch
  <1>1. Init => OrphanInv
    BY DEF Init, ServerInit, OrphanInv, StoringIsTimed, PendingIsTimed, Pending
  <1>2. TypeOK /\ OrphanInv /\ [Next]_vars => OrphanInv'
    BY OrphanStep
  <1>3. TypeOK /\ OrphanInv => NoOrphanSearch
    <2> SUFFICES ASSUME TypeOK, OrphanInv, NEW r \in Rqs, Pending(r), ~HasTimer(r)
                 PROVE  Stalls /\ ~Collecting(r)
      BY DEF NoOrphanSearch
    <2>1. Timed(timers, r, searches[r].age) /\ (~Stalls => HasTimer(r))
      BY DEF OrphanInv, PendingIsTimed
    <2>2. Timed(timers, r, searches[r].age) /\ searches[r].age < Window => HasTimer(r)
      BY DEF Timed, HasTimer
    <2> QED
      BY <2>1, <2>2, StallsAssumption DEF Collecting
  <1> QED
    BY <1>1, <1>2, <1>3, TypeCorrect, PTL DEF Spec

-------------------------------------------------------------------------------
(***************************************************************************)
(* No early answer.  If only one peer searches, then until a datagram is   *)
(* duplicated or a peer restarts, a request number is never looked for     *)
(* twice (FreshRequests), so the only thread of a request is the one of    *)
(* its own search, and it still sleeps at least what the search lacks of   *)
(* its minute (OwnTimer).                                                  *)
(***************************************************************************)
Requests == {d \in DOMAIN toServer : d.msg.command = "LOOKING_FOR"}
Counted(r) == \E p \in Peers : "search" \in Roles[p] /\ r < nextRq[p]
FreshRequests ==
    /\ \A d \in Requests : /\ toServer[d] = 1
                           /\ Counted(d.msg.rq)
                           /\ ~HasTimer(d.msg.rq)
    /\ \A c, d \in Requests : c.msg.rq = d.msg.rq => c = d
    /\ \A t \in DOMAIN timers : Counted(timers[t].rq)
OwnTimer ==
    \A t \in DOMAIN timers :
      /\ \A w \in DOMAIN jobs :
           jobs[w].at = "store" /\ jobs[w].msg.rq = timers[t].rq
             => timers[t].left + jobs[w].age >= Window
      /\ Pending(timers[t].rq)
           => timers[t].left + searches[timers[t].rq].age >= Window
EarlyInv == faults = 0 => FreshRequests /\ OwnTimer

\* How many copies of a datagram there are after one more.
LEMMA BagAddOne ==
    ASSUME NEW B, IsABag(B), NEW e, NEW C, C = B (+) SetToBag({e})
    PROVE  /\ \A x \in DOMAIN B : x # e => C[x] = B[x]
           /\ e \notin DOMAIN B => C[e] = 1
  BY DEF IsABag, (+), SetToBag, BagIn

\* nextRq goes down in a restart only, so what was counted stays counted.
LEMMA CountedStays ==
    ASSUME TypeOK, [Next]_vars, UNCHANGED faults, NEW r \in Rqs, Counted(r)
    PROVE  Counted(r)'
  <1>1. PICK p \in Peers : "search" \in Roles[p] /\ r < nextRq[p]
    BY DEF Counted
  <1>2. nextRq \in [Peers -> 1 .. MaxRq + 1]
    BY DEF TypeOK
  <1>f. ~FaultsNext
    <2>1. faults \in Nat
      BY MaxFaultsAssumption DEF TypeOK
    <2> QED
      BY <2>1 DEF FaultsNext
  <1>3. nextRq' = nextRq \/ \E q \in Peers : nextRq' = [nextRq EXCEPT ![q] = @ + 1]
    BY <1>f DEF Next, PeersNext, PeerRegisters, PeerDeregisters, PeerFails, PeerSearches, PeerTrades,
           PeerOffers, Does, vars
  <1>4. nextRq[p] \in Nat /\ nextRq'[p] \in Nat /\ nextRq[p] <= nextRq'[p]
    BY <1>2, <1>3, MaxRqAssumption
  <1> QED
    BY <1>1, <1>4, MaxRqAssumption DEF Counted, Rqs

\* Steps that start no search and send no request.
LEMMA FreshKept ==
    ASSUME TypeOK, FreshRequests, [Next]_vars, UNCHANGED faults,
           DOMAIN timers' \subseteq DOMAIN timers,
           \A t \in DOMAIN timers' : timers'[t].rq = timers[t].rq,
           \A d \in Requests' : d \in Requests /\ toServer'[d] = toServer[d]
    PROVE  FreshRequests'
  <1>1. \A d \in Requests : d.msg.rq \in Rqs
    BY ClientMessageFields DEF Requests, TypeOK, NetTypeOK, Datagram
  <1>2. \A t \in DOMAIN timers : timers[t].rq \in Rqs
    BY DEF TypeOK, ServerTypeOK, TimersTypeOK, Timer
  <1>3. ASSUME NEW d \in Requests'
        PROVE  toServer'[d] = 1 /\ Counted(d.msg.rq)' /\ ~HasTimer(d.msg.rq)'
    BY <1>1, CountedStays DEF FreshRequests, HasTimer
  <1>4. \A c, d \in Requests' : c.msg.rq = d.msg.rq => c = d
    BY DEF FreshRequests
  <1>5. (\A t \in DOMAIN timers : Counted(timers[t].rq))'
    BY <1>2, CountedStays DEF FreshRequests
  <1> QED
    BY <1>3, <1>4, <1>5 DEF FreshRequests

\* Taking a datagram off the network leaves the other requests alone.
LEMMA ReceiveRequests ==
    ASSUME TypeOK, FreshRequests, NEW d, Receive(d)
    PROVE  \A x \in Requests' : x \in Requests /\ x # d /\ toServer'[x] = toServer[x]
  <1>1. IsABag(toServer) /\ toServer' = toServer (-) SetToBag({d})
    BY DEF TypeOK, NetTypeOK, Receive
  <1>2. \A x \in DOMAIN toServer' : /\ x = d => toServer[d] # 1
                                    /\ x # d => toServer'[x] = toServer[x]
    BY <1>1 DEF IsABag, (-), SetToBag, BagIn
  <1>3. DOMAIN toServer' \subseteq DOMAIN toServer
    BY ReceiveBag DEF TypeOK, ServerTypeOK
  <1> QED
    BY <1>2, <1>3 DEF Requests, FreshRequests

\* Sending anything but a request leaves the requests alone.
LEMMA SendRequests ==
    ASSUME TypeOK, NEW p \in Peers, NEW m \in ClientMessages, Send(p, m),
           m.command # "LOOKING_FOR"
    PROVE  \A x \in Requests' : x \in Requests /\ toServer'[x] = toServer[x]
  <1> DEFINE e == [from |-> p, msg |-> m]
  <1>1. IsABag(toServer) /\ toServer' = toServer (+) SetToBag({e}) /\ NetTypeOK
    BY DEF TypeOK, NetTypeOK, Send
  <1>2. DOMAIN toServer' = DOMAIN toServer \cup {e}
    BY <1>1, SendBag
  <1>3. e.msg.command # "LOOKING_FOR"
    OBVIOUS
  <1> HIDE DEF e
  <1>4. \A x \in DOMAIN toServer : x # e => toServer'[x] = toServer[x]
    BY <1>1, BagAddOne
  <1> QED
    BY <1>2, <1>3, <1>4 DEF Requests

\* The step that looks for a new request number.
LEMMA FreshSearch ==
    ASSUME SingleSearcher, TypeOK, FreshRequests, NEW p \in Peers, PeerSearches(p),
           UNCHANGED faults
    PROVE  FreshRequests'
  <1>0. PICK r \in Rqs : r = nextRq[p]
    BY DoesType DEF PeerSearches
  <1>1. PICK i \in Items, max \in Prices : Send(p, LookingForMsg(p, r, i, max))
    BY <1>0 DEF PeerSearches
  <1> DEFINE m == LookingForMsg(p, r, i, max)
             e == [from |-> p, msg |-> m]
  <1>2. /\ "search" \in Roles[p] /\ r \in Rqs /\ timers' = timers
        /\ nextRq' = [nextRq EXCEPT ![p] = r + 1]
    BY <1>0 DEF PeerSearches, Does, serverVars
  <1>3. \A q \in Rqs : Counted(q) => q < r
    BY <1>0, <1>2 DEF Counted, SingleSearcher
  <1>4. [Next]_vars
    BY DEF Next, PeersNext
  <1>5. Counted(r)'
    <2>1. nextRq \in [Peers -> 1 .. MaxRq + 1]
      BY DEF TypeOK
    <2>2. r < nextRq'[p]
      BY <1>2, <2>1 DEF Rqs
    <2> QED
      BY <1>2, <2>2 DEF Counted
  <1>6. /\ \A d \in Requests : d.msg.rq \in Rqs
        /\ \A t \in DOMAIN timers : timers[t].rq \in Rqs
    BY ClientMessageFields
    DEF Requests, TypeOK, NetTypeOK, ServerTypeOK, Datagram, TimersTypeOK, Timer
  <1>7. e.msg.rq = r /\ m \in ClientMessages
    BY <1>2, ClientMessageType DEF LookingForMsg
  <1>8. /\ \A d \in Requests : d # e /\ d.msg.rq # r
        /\ \A t \in DOMAIN timers : timers[t].rq # r
    <2>1. \A q \in Rqs : Counted(q) => q # r
      BY <1>2, <1>3 DEF Rqs
    <2> QED
      BY <2>1, <1>6, <1>7 DEF FreshRequests
  <1>9. /\ DOMAIN toServer' = DOMAIN toServer \cup {e}
        /\ \A x \in DOMAIN toServer : x # e => toServer'[x] = toServer[x]
        /\ e \notin DOMAIN toServer => toServer'[e] = 1
    <2>1. NetTypeOK /\ IsABag(toServer)
      BY DEF TypeOK, NetTypeOK
    <2>2. DOMAIN toServer' = DOMAIN toServer \cup {e}
      BY <1>1, <1>7, <2>1, SendBag
    <2>3. toServer' = toServer (+) SetToBag({e})
      BY <1>1 DEF Send
    <2> HIDE DEF e
    <2> QED
      BY <2>1, <2>2, <2>3, BagAddOne
  <1>10. e \notin DOMAIN toServer /\ Requests' = Requests \cup {e}
    <2>1. e.msg.command = "LOOKING_FOR"
      BY DEF LookingForMsg
    <2> HIDE DEF e
    <2> QED
      BY <1>8, <1>9, <2>1 DEF Requests
  <1> HIDE DEF e, m
  <1>11. ASSUME NEW d \in Requests'
         PROVE  toServer'[d] = 1 /\ Counted(d.msg.rq)' /\ ~HasTimer(d.msg.rq)'
    <2>1. CASE d = e
      BY <1>2, <1>5, <1>7, <1>8, <1>9, <1>10, <2>1 DEF HasTimer
    <2>2. CASE d \in Requests
      <3>1. toServer'[d] = 1
        BY <1>8, <1>9, <2>2 DEF FreshRequests, Requests
      <3>2. Counted(d.msg.rq)'
        BY <1>4, <1>6, <2>2, CountedStays DEF FreshRequests
      <3>3. ~HasTimer(d.msg.rq)'
        BY <1>2, <2>2 DEF FreshRequests, HasTimer
      <3> QED
        BY <3>1, <3>2, <3>3
    <2> QED
      BY <1>10, <2>1, <2>2
  <1>12. \A c, d \in Requests' : c.msg.rq = d.msg.rq => c = d
    BY <1>7, <1>8, <1>10 DEF FreshRequests
  <1>13. (\A t \in DOMAIN timers : Counted(timers[t].rq))'
    BY <1>2, <1>4, <1>6, CountedStays DEF FreshRequests
  <1> QED
    BY <1>11, <1>12, <1>13 DEF FreshRequests

\* The step that starts the thread of a request: it takes the only copy of it.
LEMMA FreshStart ==
    ASSUME TypeOK, FreshRequests, [Next]_vars, UNCHANGED faults,
           NEW w \in Workers, NEW d \in DOMAIN toServer, StartSearch(w, d)
    PROVE  FreshRequests'
  <1>1. PICK t \in TimerThreads \ DOMAIN timers :
          timers' = Put(timers, t, NewTimer(d.msg.rq))
    BY DEF StartSearch
  <1>2. d \in Requests /\ d.msg.rq \in Rqs
    BY ClientMessageFields
    DEF StartSearch, Takes, Requests, TypeOK, NetTypeOK, Datagram
  <1>3. \A x \in Requests' : x \in Requests /\ x # d /\ toServer'[x] = toServer[x]
    BY ReceiveRequests DEF StartSearch, Takes
  <1>4. \A u \in DOMAIN timers' : \/ timers'[u].rq = d.msg.rq
                                  \/ u \in DOMAIN timers /\ timers'[u] = timers[u]
    BY <1>1 DEF Put, NewTimer
  <1>5. /\ \A x \in Requests : x.msg.rq \in Rqs
        /\ \A u \in DOMAIN timers : timers[u].rq \in Rqs
    BY ClientMessageFields
    DEF Requests, TypeOK, NetTypeOK, ServerTypeOK, Datagram, TimersTypeOK, Timer
  <1>6. ASSUME NEW x \in Requests'
        PROVE  toServer'[x] = 1 /\ Counted(x.msg.rq)' /\ ~HasTimer(x.msg.rq)'
    <2>1. x \in Requests /\ x # d /\ toServer'[x] = toServer[x]
      BY <1>3
    <2>2. x.msg.rq # d.msg.rq
      BY <1>2, <2>1 DEF FreshRequests
    <2>3. Counted(x.msg.rq)'
      BY <1>5, <2>1, CountedStays DEF FreshRequests
    <2>4. ~HasTimer(x.msg.rq)'
      BY <1>4, <2>1, <2>2 DEF FreshRequests, HasTimer
    <2> QED
      BY <2>1, <2>3, <2>4 DEF FreshRequests
  <1>7. \A c, x \in Requests' : c.msg.rq = x.msg.rq => c = x
    BY <1>3 DEF FreshRequests
  <1>8. (\A u \in DOMAIN timers : Counted(timers[u].rq))'
    BY <1>2, <1>4, <1>5, CountedStays DEF FreshRequests
  <1> QED
    BY <1>6, <1>7, <1>8 DEF FreshRequests

LEMMA FreshStep ==
    ASSUME SingleSearcher, TypeOK, FreshRequests, [Next]_vars, UNCHANGED faults
    PROVE  FreshRequests'
  <1>1. ASSUME NEW w \in Workers, NEW d \in DOMAIN toServer, Handle(w, d)
        PROVE  FreshRequests'
    <2>1. CASE StartSearch(w, d)
      BY <2>1, FreshStart
    <2>2. CASE ~StartSearch(w, d)
      <3>1. timers' = timers /\ Receive(d)
        BY <1>1, <2>2 DEF Handle, HandleRegister, HandleDeregister, HandleUnknown,
           HandleOffer, Takes
      <3> QED
        BY <3>1, ReceiveRequests, FreshKept
    <2> QED
      BY <2>1, <2>2
  <1>2. ASSUME NEW w \in Workers, WorkerSteps(w)
        PROVE  FreshRequests'
    <2>1. timers' = timers /\ toServer' = toServer
      BY <1>2 DEF WorkerSteps, StoreSearch, BroadcastSearch, PushEvent, netVars
    <2> QED
      BY <2>1, FreshKept DEF Requests
  <1>3. ASSUME NEW t \in TimerThreads, TimerFires(t)
        PROVE  FreshRequests'
    <2>1. /\ DOMAIN timers' \subseteq DOMAIN timers
          /\ \A u \in DOMAIN timers' : timers'[u].rq = timers[u].rq
          /\ toServer' = toServer
      BY <1>3, DropTable DEF TimerFires, WithoutTimer, Restrict
    <2> QED
      BY <2>1, FreshKept DEF Requests
  <1>4. CASE Tick
    <2>1. /\ DOMAIN timers' = DOMAIN timers
          /\ \A u \in DOMAIN timers : timers'[u].rq = timers[u].rq
          /\ toServer' = toServer
      BY <1>4 DEF Tick, netVars, TypeOK, ServerTypeOK, TimersTypeOK, Timer
    <2> QED
      BY <2>1, FreshKept DEF Requests
  <1>5. CASE timers' = timers /\ toServer' = toServer
    BY <1>5, FreshKept DEF Requests
  <1>6. CASE ServerNext
    <2>1. CASE ProcessEvent
      BY <1>5, <2>1 DEF ProcessEvent, netVars
    <2> QED
      BY <1>1, <1>2, <1>3, <1>4, <1>6, <2>1 DEF ServerNext
  <1>7. ASSUME NEW p \in Peers, NEW m \in ClientMessages, Send(p, m),
               m.command # "LOOKING_FOR", timers' = timers
        PROVE  FreshRequests'
    BY <1>7, SendRequests, FreshKept
  <1>8. CASE PeersNext
    <2>1. ASSUME NEW p \in Peers, PeerRegisters(p) \/ PeerDeregisters(p)
          PROVE  FreshRequests'
      <3>1. PICK r \in Rqs : r = nextRq[p]
        BY <2>1, DoesType DEF PeerRegisters, PeerDeregisters
      <3>2. timers' = timers
        BY <2>1 DEF PeerRegisters, PeerDeregisters, Does, serverVars
      <3>3. CASE Send(p, RegisterMsg(p, r))
        BY <1>7, <3>2, <3>3, ClientMessageType DEF RegisterMsg
      <3>4. CASE Send(p, DeregisterMsg(p, r))
        BY <1>7, <3>2, <3>4, ClientMessageType DEF DeregisterMsg
      <3> QED
        BY <2>1, <3>1, <3>3, <3>4 DEF PeerRegisters, PeerDeregisters
    <2>2. ASSUME NEW p \in Peers, PeerSearches(p)
          PROVE  FreshRequests'
      BY <2>2, FreshSearch
    <2>3. ASSUME NEW p \in Peers, NEW d \in DOMAIN toPeers, PeerTrades(p, d)
          PROVE  FreshRequests'
      <3>1. PICK m \in ClientMessages : m.command \in TradeCommands /\ Send(p, m)
        BY <2>3, TradeSends DEF TypeOK
      <3>2. m.command # "LOOKING_FOR" /\ timers' = timers
        BY <2>3, <3>1 DEF PeerTrades, serverVars, TradeCommands
      <3> QED
        BY <1>7, <3>1, <3>2
    <2>4. ASSUME NEW p \in Peers, NEW d \in DOMAIN toPeers, PeerOffers(p, d)
          PROVE  FreshRequests'
      <3>1. d.msg \in ServerMessages
        BY DEF TypeOK, NetTypeOK
      <3>2. d.msg.rq \in Rqs /\ d.msg.item_name \in Items
        BY <2>4, <3>1, SearchFields DEF PeerOffers
      <3>3. PICK price \in Prices : Send(p, OfferMsg(p, d.msg.rq, d.msg.item_name, price))
        BY <2>4 DEF PeerOffers
      <3>4. timers' = timers
        BY <2>4 DEF PeerOffers, serverVars
      <3>5. OfferMsg(p, d.msg.rq, d.msg.item_name, price).command # "LOOKING_FOR"
        BY DEF OfferMsg
      <3> QED
        BY <1>7, <3>2, <3>3, <3>4, <3>5, ClientMessageType
    <2>5. ASSUME NEW p \in Peers, PeerFails(p)
          PROVE  FreshRequests'
      BY <1>5, <2>5 DEF PeerFails, Does, serverVars
    <2> QED
      BY <1>8, <2>1, <2>2, <2>3, <2>4, <2>5 DEF PeersNext
  <1>9. CASE NetworkNext /\ UNCHANGED <<serverVars, nextRq, sent, faults>>
    <2>1. timers' = timers
      BY <1>9 DEF serverVars
    <2>2. CASE \E d \in DOMAIN toServer : LoseToServer(d)
      BY <2>1, <2>2, ReceiveRequests, FreshKept DEF LoseToServer
    <2>3. CASE \E d \in DOMAIN toPeers : LoseToPeer(d)
      BY <1>5, <2>1, <2>3 DEF LoseToPeer
    <2> QED
      BY <1>9, <2>2, <2>3 DEF NetworkNext
  <1>10. ~FaultsNext
    <2>1. faults \in Nat
      BY MaxFaultsAssumption DEF TypeOK
    <2> QED
      BY <2>1 DEF FaultsNext
  <1> QED
    BY <1>5, <1>6, <1>8, <1>9, <1>10 DEF Next, vars, netVars, serverVars

\* The thread of a search sleeps at least as long as the search still collects.
LEMMA OwnTimerStep ==
    ASSUME TypeOK, FreshRequests, OwnTimer, [Next]_vars
    PROVE  OwnTimer'
  <1> USE DEF OwnTimer
  <1>1. /\ SearchesTypeOK /\ TimersTypeOK /\ JobsTypeOK
    BY DEF TypeOK, ServerTypeOK
  <1>2. /\ \A t \in DOMAIN timers : timers[t] \in Timer
        /\ \A w \in DOMAIN jobs : jobs[w] \in Job
        /\ \A r \in DOMAIN searches : searches[r] \in SearchRequest
    BY <1>1 DEF SearchesTypeOK, TimersTypeOK, JobsTypeOK
  <1>3. ASSUME \A t \in DOMAIN timers' : t \in DOMAIN timers /\ timers'[t] = timers[t],
               \A v \in DOMAIN jobs' : jobs'[v].at = "store" =>
                   v \in DOMAIN jobs /\ jobs'[v] = jobs[v],
               \A r : Pending(r)' => Pending(r) /\ searches'[r].age = searches[r].age
        PROVE  OwnTimer'
    BY <1>3
  <1>4. ASSUME NEW w \in Workers, NEW d \in DOMAIN toServer, Handle(w, d)
        PROVE  OwnTimer'
    <2>1. CASE HandleRegister(w, d) \/ HandleDeregister(w, d) \/ HandleUnknown(w, d)
      BY <1>3, <2>1, AfterHandlerStoring
      DEF HandleRegister, HandleDeregister, HandleUnknown, Pending
    <2>2. CASE HandleOffer(w, d)
      BY <1>3, <2>2, AfterHandlerStoring, OfferKeepsSearches DEF HandleOffer
    <2>3. CASE StartSearch(w, d)
      <3>1. PICK t \in TimerThreads \ DOMAIN timers :
              timers' = Put(timers, t, NewTimer(d.msg.rq))
        BY <2>3 DEF StartSearch
      <3>2. \A u \in DOMAIN timers' :
              IF u = t THEN timers'[u].rq = d.msg.rq /\ timers'[u].left = Window
                       ELSE u \in DOMAIN timers /\ timers'[u] = timers[u]
        BY <3>1 DEF Put, NewTimer
      <3>3. \A v \in DOMAIN jobs' :
              IF v = w THEN jobs'[v].msg.rq = d.msg.rq /\ jobs'[v].age = 0
                       ELSE v \in DOMAIN jobs /\ jobs'[v] = jobs[v]
        BY <2>3 DEF StartSearch, Put, JobAt
      <3>4. \A u \in DOMAIN timers : timers[u].rq # d.msg.rq
        BY <2>3 DEF StartSearch, Takes, FreshRequests, HasTimer, Requests
      <3>5. searches' = searches
        BY <2>3 DEF StartSearch
      <3>6. ASSUME NEW u \in DOMAIN timers', NEW v \in DOMAIN jobs',
                   jobs'[v].at = "store", jobs'[v].msg.rq = timers'[u].rq
            PROVE  timers'[u].left + jobs'[v].age >= Window
        <4>1. CASE u = t /\ v = w
          BY <3>2, <3>3, <4>1, WindowAssumption
        <4>2. CASE u = t /\ v # w
          BY <1>2, <3>2, <3>3, <4>2, WindowAssumption DEF Job
        <4>3. CASE u # t /\ v = w
          BY <3>2, <3>3, <3>4, <3>6, <4>3
        <4>4. CASE u # t /\ v # w
          BY <3>2, <3>3, <3>6, <4>4
        <4> QED
          BY <4>1, <4>2, <4>3, <4>4
      <3>7. ASSUME NEW u \in DOMAIN timers', Pending(timers'[u].rq)
            PROVE  timers'[u].left + searches[timers'[u].rq].age >= Window
        <4>1. CASE u = t
          <5>1. searches[timers'[u].rq].age \in 0 .. Window
            BY <1>2, <3>7 DEF Pending, SearchRequest
          <5> QED
            BY <3>2, <4>1, <5>1, WindowAssumption
        <4>2. CASE u # t
          BY <3>2, <3>7, <4>2
        <4> QED
          BY <4>1, <4>2
      <3> QED
        BY <3>5, <3>6, <3>7 DEF Pending
    <2> QED
      BY <1>4, <2>1, <2>2, <2>3 DEF Handle
  <1>5. ASSUME NEW w \in Workers, StoreSearch(w)
        PROVE  OwnTimer'
    <2>1. timers' = timers /\ w \in DOMAIN jobs /\ jobs[w].at = "store"
      BY <1>5 DEF StoreSearch
    <2>2. \A v \in DOMAIN jobs' : jobs'[v].at = "store" => v \in DOMAIN jobs /\ jobs'[v] = jobs[v]
      BY <1>5 DEF StoreSearch, JobAt
    <2>3. \A r : Pending(r)' =>
            IF r = jobs[w].msg.rq THEN searches'[r].age = jobs[w].age
                                  ELSE Pending(r) /\ searches'[r] = searches[r]
      BY <1>5 DEF StoreSearch, Put, NewSearch, Pending
    <2> QED
      BY <2>1, <2>2, <2>3
  <1>6. ASSUME NEW w \in Workers, BroadcastSearch(w) \/ PushEvent(w)
        PROVE  OwnTimer'
    <2>1. \A v \in DOMAIN jobs' : jobs'[v].at = "store" => v \in DOMAIN jobs /\ jobs'[v] = jobs[v]
      BY <1>1, <1>6, OtherStepsStoring
    <2>2. timers' = timers /\ searches' = searches
      BY <1>6 DEF BroadcastSearch, PushEvent
    <2> QED
      BY <2>1, <2>2 DEF Pending
  <1>7. ASSUME NEW t \in TimerThreads, TimerFires(t)
        PROVE  OwnTimer'
    <2>1. \A u \in DOMAIN timers' : u \in DOMAIN timers /\ timers'[u] = timers[u]
      BY <1>7 DEF TimerFires, WithoutTimer, Restrict
    <2>2. \A r : Pending(r)' => Pending(r) /\ searches'[r] = searches[r]
      BY <1>1, <1>7, ResolvedNotPending DEF TimerFires, Pending
    <2>3. jobs' = jobs
      BY <1>7 DEF TimerFires
    <2> QED
      BY <1>3, <2>1, <2>2, <2>3
  <1>8. CASE Tick
    <2>1. /\ DOMAIN timers' = DOMAIN timers
          /\ \A t \in DOMAIN timers :
               /\ timers'[t].rq = timers[t].rq
               /\ timers'[t].left = IF timers[t].left > 0 THEN timers[t].left - 1 ELSE 0
      BY <1>2, <1>8 DEF Tick, Timer
    <2>2. /\ DOMAIN jobs' = DOMAIN jobs
          /\ \A v \in DOMAIN jobs : /\ jobs'[v].at = jobs[v].at /\ jobs'[v].msg = jobs[v].msg
                                    /\ jobs[v].at = "store" => jobs'[v].age = Older(jobs[v].age)
      BY <1>2, <1>8 DEF Tick, Job
    <2>3. /\ DOMAIN searches' = DOMAIN searches
          /\ \A r \in DOMAIN searches : /\ searches'[r].processed = searches[r].processed
                                        /\ searches'[r].age = Older(searches[r].age)
      BY <1>2, <1>8 DEF Tick, SearchRequest
    <2>4. \A left, age \in 0 .. Window :
            left + age >= Window =>
              (IF left > 0 THEN left - 1 ELSE 0) + Older(age) >= Window
      BY WindowAssumption DEF Older
    <2>5. /\ \A t \in DOMAIN timers : timers[t].left \in 0 .. Window
          /\ \A v \in DOMAIN jobs : jobs[v].age \in 0 .. Window
          /\ \A r \in DOMAIN searches : searches[r].age \in 0 .. Window
      BY <1>2 DEF Timer, Job, SearchRequest
    <2>6. ASSUME NEW t \in DOMAIN timers', NEW v \in DOMAIN jobs',
                 jobs'[v].at = "store", jobs'[v].msg.rq = timers'[t].rq
          PROVE  timers'[t].left + jobs'[v].age >= Window
      BY <2>1, <2>2, <2>4, <2>5, <2>6
    <2>7. ASSUME NEW t \in DOMAIN timers', NEW r, r = timers'[t].rq, Pending(r)'
          PROVE  timers'[t].left + searches'[r].age >= Window
      <3>1. Pending(r) /\ r = timers[t].rq /\ t \in DOMAIN timers
        BY <2>1, <2>3, <2>7 DEF Pending
      <3>2. timers[t].left + searches[r].age >= Window
        BY <3>1
      <3> QED
        BY <2>1, <2>3, <2>4, <2>5, <3>1, <3>2 DEF Pending
    <2> QED
      BY <2>6, <2>7
  <1>9. CASE UNCHANGED <<searches, timers, jobs>>
    BY <1>9 DEF Pending
  <1>10. CASE ServerNext
    <2>1. CASE ProcessEvent
      BY <1>9, <2>1 DEF ProcessEvent
    <2> QED
      BY <1>4, <1>5, <1>6, <1>7, <1>8, <1>10, <2>1 DEF ServerNext, WorkerSteps
  <1>11. CASE PeersNext \/ FaultsNext \/ UNCHANGED serverVars
    BY <1>9, <1>11 DEF PeersNext, PeerRegisters, PeerDeregisters, PeerFails, PeerSearches, PeerTrades,
       PeerOffers, Does, FaultsNext, serverVars
  <1> QED
    BY <1>10, <1>11 DEF Next, vars

\* A search that still collects stays pending whatever step is taken.
LEMMA CollectingStays ==
    ASSUME TypeOK, OwnTimer, [Next]_vars, NEW r \in Rqs, Collecting(r)
    PROVE  Pending(r)'
  <1>1. /\ Pending(r) /\ searches[r].age < Window /\ SearchesTypeOK
        /\ searches[r] \in SearchRequest /\ r \in DOMAIN searches
    BY DEF Collecting, Pending, TypeOK, ServerTypeOK, SearchesTypeOK
  <1>2. ASSUME NEW w \in Workers, NEW d \in DOMAIN toServer, Handle(w, d)
        PROVE  Pending(r)'
    BY <1>1, <1>2, OfferKeepsSearches
    DEF Handle, HandleRegister, HandleDeregister, HandleUnknown, StartSearch, Pending
  <1>3. ASSUME NEW w \in Workers, WorkerSteps(w)
        PROVE  Pending(r)'
    <2>1. CASE StoreSearch(w)
      BY <1>1, <2>1 DEF StoreSearch, Put, NewSearch, Pending
    <2>2. CASE BroadcastSearch(w) \/ PushEvent(w)
      BY <1>1, <2>2 DEF BroadcastSearch, PushEvent, Pending
    <2> QED
      BY <1>3, <2>1, <2>2 DEF WorkerSteps
  <1>4. ASSUME NEW t \in TimerThreads, TimerFires(t)
        PROVE  Pending(r)'
    <2>1. t \in DOMAIN timers /\ timers[t].left = 0
      BY <1>4 DEF TimerFires, SleepIsOver
    <2>2. timers[t].rq # r
      <3>1. SUFFICES ASSUME timers[t].rq = r PROVE FALSE
        OBVIOUS
      <3>2. timers[t].left + searches[r].age >= Window
        BY <1>1, <2>1, <3>1 DEF OwnTimer
      <3>3. searches[r].age \in 0 .. Window
        BY <1>1 DEF SearchRequest
      <3> QED
        BY <1>1, <2>1, <3>2, <3>3, WindowAssumption
    <2> QED
      BY <1>1, <1>4, <2>2, ResolvedNotPending DEF TimerFires, Pending
  <1>5. CASE Tick
    BY <1>1, <1>5 DEF Tick, Pending, SearchRequest
  <1>6. CASE searches' = searches
    BY <1>1, <1>6 DEF Pending
  <1>7. CASE ServerNext
    <2>1. CASE ProcessEvent
      BY <1>6, <2>1 DEF ProcessEvent
    <2> QED
      BY <1>2, <1>3, <1>4, <1>5, <1>7, <2>1 DEF ServerNext
  <1>8. CASE PeersNext \/ FaultsNext \/ UNCHANGED serverVars
    BY <1>6, <1>8 DEF PeersNext, PeerRegisters, PeerDeregisters, PeerFails, PeerSearches, PeerTrades,
       PeerOffers, Does, FaultsNext, serverVars
  <1> QED
    BY <1>7, <1>8 DEF Next, vars

(***************************************************************************)
(* When only one peer searches, every search collects offers for the whole *)
(* of its minute, until the network duplicates a datagram or a peer        *)
(* restarts, whatever else the network does, however long workers stall    *)
(* and however late threads wake up.  With two peers that search it is     *)
(* false: the run server_early_answer shows two of them whose requests     *)
(* have the same number.                                                   *)
(***************************************************************************)
THEOREM NoEarlyAnswers == ASSUME SingleSearcher PROVE Spec => NoEarlyAnswer
  <1>1. Init => EarlyInv
    <2> SUFFICES ASSUME Init PROVE EarlyInv
      OBVIOUS
    <2>1. DOMAIN toServer = {} /\ DOMAIN timers = {}
      BY DEF Init, NetInit, ServerInit, EmptyBag, SetToBag
    <2> QED
      BY <2>1 DEF EarlyInv, FreshRequests, OwnTimer, Requests
  <1>2. TypeOK /\ EarlyInv /\ [Next]_vars => EarlyInv'
    <2> SUFFICES ASSUME TypeOK, EarlyInv, [Next]_vars, faults' = 0
                 PROVE  (FreshRequests /\ OwnTimer)'
      BY DEF EarlyInv
    <2>1. UNCHANGED faults
      <3>1. faults \in Nat
        BY MaxFaultsAssumption DEF TypeOK
      <3> QED
        BY <3>1 DEF Next, FaultsNext, vars
    <2> QED
      BY <2>1, FreshStep, OwnTimerStep DEF EarlyInv
  <1>3. TypeOK /\ EarlyInv /\ [Next]_vars
          => [faults = 0 => \A r \in Rqs : ~ResolvedEarly(r)]_vars
    <2> SUFFICES ASSUME TypeOK, EarlyInv, [Next]_vars, faults = 0,
                        NEW r \in Rqs, ResolvedEarly(r)
                 PROVE  FALSE
      OBVIOUS
    <2>1. Collecting(r)
      BY DEF ResolvedEarly, Collecting
    <2>2. Pending(r)'
      BY <2>1, CollectingStays DEF EarlyInv
    <2> QED
      BY <2>2 DEF ResolvedEarly, Pending
  <1> QED
    BY <1>1, <1>2, <1>3, TypeCorrect, PTL DEF Spec, NoEarlyAnswer
===============================================================================

-------------------------------- MODULE Server --------------------------------
(***************************************************************************)
(* The server: the worker threads of the pool, the threads that sleep for  *)
(* one minute per search, and the event thread, over the session table     *)
(* peer_sessions_, the search table active_searches_ and the event queue.  *)
(*                                                                         *)
(* A critical section under a mutex is one action.  handleLookingFor,      *)
(* which has two of them and starts a thread before the first, is three    *)
(* actions of its worker.  A datagram is taken from the network and its    *)
(* handler's first critical section run in one action: the network is      *)
(* unordered and the pool has several workers, so the first-in first-out   *)
(* task queue in between adds no order of its own.                         *)
(*                                                                         *)
(* An operator marked Fault is used by no specification: it is the         *)
(* definition below it as a plausible bug would make it, there to show     *)
(* that a property fails when the code is broken that way.                 *)
(***************************************************************************)
EXTENDS Network, Sequences, Functions

CONSTANTS
    Workers,       \* worker threads of the pool
    TimerThreads,  \* bound: timeout threads that may sleep at the same time
    Window,        \* ticks in the one minute offers are collected for
    Stalls         \* whether a worker may be preempted for a tick before it stores

ASSUME WindowAssumption == Window \in Nat \ {0}
ASSUME StallsAssumption == Stalls \in BOOLEAN

VARIABLES
    sessions,     \* peer_sessions_: per peer "absent", "null" or a session's state
    serverState,  \* current_state_ of server_state_machine_
    searches,     \* active_searches_: request number -> SearchRequest
    timers,       \* sleeping timeout threads -> request number and time left
    jobs,         \* busy workers -> what is left of their handler
    eventQueue    \* event_queue_: events parsed and not processed yet

serverVars == <<sessions, serverState, searches, timers, jobs, eventQueue>>

-------------------------------------------------------------------------------
\* The table f with v at key k: table[k] = v of a C++ map.
Put(f, k, v) == [x \in DOMAIN f \cup {k} |-> IF x = k THEN v ELSE f[x]]

(* Types. *)

\* A missing entry, an entry that holds a null pointer, and the states a
\* session's machine can reach.
SessionValues == {"absent", "null", "UNREGISTERED", "REGISTERING"}
Live(p) == sessions[p] \notin {"absent", "null"}

Offer == [seller : Peers, price : Prices]
SearchRequest ==
    [searcher : Peers, item : Items, maxPrice : Prices, age : 0 .. Window,
     offers : Seq(Offer), processed : BOOLEAN]
Timer == [rq : Rqs, left : 0 .. Window]
Job == [at : {"store", "broadcast", "push"}, from : Peers, msg : ClientMessages,
        age : 0 .. Window]
Event == [type : ValidTypes, from : Peers]

\* Every bag and table holds only what its C++ type and its writers allow.
SearchesTypeOK ==
    /\ DOMAIN searches \subseteq Rqs
    /\ searches \in [DOMAIN searches -> SearchRequest]
TimersTypeOK ==
    /\ DOMAIN timers \subseteq TimerThreads
    /\ timers \in [DOMAIN timers -> Timer]
\* Only what the parser accepts is on its way to the event thread.
JobsTypeOK ==
    /\ DOMAIN jobs \subseteq Workers
    /\ jobs \in [DOMAIN jobs -> Job]
    /\ \A w \in DOMAIN jobs : IF jobs[w].at = "push"
                             THEN Parses(jobs[w].msg)
                             ELSE jobs[w].msg.command = "LOOKING_FOR"
ServerTypeOK ==
    /\ SearchesTypeOK
    /\ TimersTypeOK
    /\ JobsTypeOK
    /\ sessions \in [Peers -> SessionValues]
    /\ serverState \in {"LISTENING", "PROCESSING_REGISTRATION"}
    /\ eventQueue \in Seq(Event)

ServerInit ==
    /\ sessions = [p \in Peers |-> "absent"]
    /\ serverState = "LISTENING"
    /\ searches = <<>>
    /\ timers = <<>>
    /\ jobs = <<>>
    /\ eventQueue = <<>>

-------------------------------------------------------------------------------
(* handleNewMessage: after the handler, the worker parses the message again *)
(* and pushes the event, unless the parser gives none.                      *)

\* An idle worker w takes datagram d, whose command is cmd.
Takes(w, d, cmd) ==
    /\ w \notin DOMAIN jobs
    /\ d.msg.command = cmd
    /\ Receive(d)

\* A worker's job on datagram d, about to do step at.
JobAt(at, d) == [at |-> at, from |-> d.from, msg |-> d.msg, age |-> 0]

AfterHandler(w, d) ==
    jobs' = IF Parses(d.msg)
            THEN Put(jobs, w, JobAt("push", d))
            ELSE jobs

PushEvent(w) ==
    /\ w \in DOMAIN jobs
    /\ jobs[w].at = "push"
    /\ eventQueue' = Append(eventQueue, [type |-> EventType(jobs[w].msg.command),
                                         from |-> jobs[w].from])
    /\ jobs' = Restrict(jobs, DOMAIN jobs \ {w})
    /\ UNCHANGED <<netVars, sessions, serverState, searches, timers>>

-------------------------------------------------------------------------------
(* handleRegister, handleDeregister: one critical section of sessions_mutex_. *)

\* Fault: the answer is sent and no session made.
SessionsAsBefore(p) == sessions
WithSession(p) == [sessions EXCEPT ![p] = "UNREGISTERED"]

\* Fault: a peer that has a session is not denied, but told so again.
HandleRegisterAgain(w, d) ==
    /\ Takes(w, d, "REGISTER")
    /\ sessions' = IF sessions[d.from] = "absent" THEN WithSession(d.from) ELSE sessions
    /\ Reply(d.from, RegisteredMsg(d.msg.rq))
    /\ AfterHandler(w, d)
    /\ UNCHANGED <<serverState, searches, timers, eventQueue>>
HandleRegister(w, d) ==
    /\ Takes(w, d, "REGISTER")
    /\ \/ /\ sessions[d.from] # "absent"
          /\ Reply(d.from, DeniedMsg(d.msg.rq))
          /\ UNCHANGED sessions
       \/ /\ sessions[d.from] = "absent"
          /\ sessions' = WithSession(d.from)
          /\ Reply(d.from, RegisteredMsg(d.msg.rq))
    /\ AfterHandler(w, d)
    /\ UNCHANGED <<serverState, searches, timers, eventQueue>>

HandleDeregister(w, d) ==
    /\ Takes(w, d, "DE_REGISTER")
    /\ sessions' = [sessions EXCEPT ![d.from] = "absent"]
    /\ AfterHandler(w, d)
    /\ UNCHANGED <<toPeers, serverState, searches, timers, eventQueue>>

\* handleCommand has no handler for ACCEPT, REFUSE and NEGOTIATE.
HandleUnknown(w, d) ==
    /\ \E cmd \in TradeCommands : Takes(w, d, cmd)
    /\ AfterHandler(w, d)
    /\ UNCHANGED <<toPeers, sessions, serverState, searches, timers, eventQueue>>

-------------------------------------------------------------------------------
(* handleLookingFor: build the request and start the timeout thread; store  *)
(* the request; broadcast it to every other peer that has a session.        *)

\* Faults: the thread sleeps a tick less; it does not sleep.
HastyTimer(r) == [rq |-> r, left |-> Window - 1]
AwakeTimer(r) == [rq |-> r, left |-> 0]
NewTimer(r) == [rq |-> r, left |-> Window]

StartSearch(w, d) ==
    /\ Takes(w, d, "LOOKING_FOR")
    /\ \E t \in TimerThreads \ DOMAIN timers :
         timers' = Put(timers, t, NewTimer(d.msg.rq))
    /\ jobs' = Put(jobs, w, JobAt("store", d))
    /\ UNCHANGED <<toPeers, sessions, serverState, searches, eventQueue>>

\* Fault: an entry with the same number keeps its maximum.
NewSearchMerged(w) ==
    LET r == jobs[w].msg.rq IN
    [searcher |-> jobs[w].from, item |-> jobs[w].msg.item_name,
     maxPrice |-> IF r \in DOMAIN searches THEN searches[r].maxPrice ELSE jobs[w].msg.max_price,
     age |-> jobs[w].age, offers |-> <<>>, processed |-> FALSE]
\* The SearchRequest that worker w has built.
NewSearch(w) ==
    [searcher |-> jobs[w].from, item |-> jobs[w].msg.item_name,
     maxPrice |-> jobs[w].msg.max_price, age |-> jobs[w].age,
     offers |-> <<>>, processed |-> FALSE]

StoreSearch(w) ==
    /\ w \in DOMAIN jobs
    /\ jobs[w].at = "store"
    /\ searches' = Put(searches, jobs[w].msg.rq, NewSearch(w))
    /\ jobs' = [jobs EXCEPT ![w] = JobAt("broadcast", @)]
    /\ UNCHANGED <<netVars, sessions, serverState, timers, eventQueue>>

\* Fault: whoever has no session is told too.
AudienceAll(searcher) == Peers \ {searcher}
\* An entry with a null session is dereferenced for its address only: the build
\* hands sendto a bad address, which fails, and the loop goes on.
Audience(searcher) == {p \in Peers : p # searcher /\ Live(p)}

BroadcastSearch(w) ==
    /\ w \in DOMAIN jobs
    /\ jobs[w].at = "broadcast"
    /\ LET m == SearchMsg(jobs[w].msg.rq, jobs[w].msg.item_name) IN
         toPeers' = toPeers (+) SetToBag({[to |-> p, msg |-> m] : p \in Audience(jobs[w].from)})
    /\ jobs' = [jobs EXCEPT ![w].at = "push"]
    /\ UNCHANGED <<toServer, sessions, serverState, searches, timers, eventQueue>>

-------------------------------------------------------------------------------
(* handleOffer: one critical section of searches_mutex_.  The item an offer *)
(* names is read and not used.                                              *)

Pending(r) == r \in DOMAIN searches /\ ~searches[r].processed
Collecting(r) == Pending(r) /\ searches[r].age < Window

\* Fault: the offer is filed with every search.
WithOfferAnywhere(r, o) ==
    [q \in DOMAIN searches |-> [searches[q] EXCEPT !.offers = Append(@, o)]]
WithOffer(r, o) == [searches EXCEPT ![r].offers = Append(@, o)]

HandleOffer(w, d) ==
    /\ Takes(w, d, "OFFER")
    /\ searches' = IF Collecting(d.msg.rq)
                   THEN WithOffer(d.msg.rq, [seller |-> d.from, price |-> d.msg.price])
                   ELSE searches
    /\ AfterHandler(w, d)
    /\ UNCHANGED <<toPeers, sessions, serverState, timers, eventQueue>>

-------------------------------------------------------------------------------
(* processOffersAfterTimeout, run by a timeout thread whose sleep is over. *)

\* Fault: the first offer that came in.
IsFirst(offers, i) == i = 1
\* std::min_element: the first of the cheapest offers.
IsLowest(offers, i) ==
    \A j \in DOMAIN offers : /\ offers[i].price <= offers[j].price
                             /\ j < i => offers[i].price < offers[j].price

\* Fault: the maximum is sent as the price.
AnswerAtMax(r, s, o) ==
    IF o.price <= s.maxPrice
    THEN Reply(s.searcher, FoundMsg(r, s.item, s.maxPrice))
    ELSE Reply(o.seller, NegotiateMsg(r, s.item, s.maxPrice))
\* What is sent, and to whom, for search s of request r with cheapest offer o.
AnswerBest(r, s, o) ==
    IF o.price <= s.maxPrice
    THEN Reply(s.searcher, FoundMsg(r, s.item, o.price))
    ELSE Reply(o.seller, NegotiateMsg(r, s.item, s.maxPrice))

\* A search nobody offered for is erased, one with offers is marked and kept.
\* Fault of either: the table stays as it was.
SearchesAsBefore(r) == searches
WithoutSearch(r) == Restrict(searches, DOMAIN searches \ {r})
Processed(r) == [searches EXCEPT ![r].processed = TRUE]

ResolveSearch(r) ==
    LET s == searches[r] IN
    \/ /\ s.offers = <<>>
       /\ Reply(s.searcher, NotAvailableMsg(r, s.item, s.maxPrice))
       /\ searches' = WithoutSearch(r)
    \/ /\ \E i \in DOMAIN s.offers :
            /\ IsLowest(s.offers, i)
            /\ AnswerBest(r, s, s.offers[i])
       /\ searches' = Processed(r)

\* Fault: the thread does not wait for its sleep to end.
WokenAnyTime(t) == TRUE
SleepIsOver(t) == timers[t].left = 0

\* Fault: the threads of other searches with the same number end with this one.
WithoutTimersLike(t) ==
    Restrict(timers, {u \in DOMAIN timers : timers[u].rq # timers[t].rq})
WithoutTimer(t) == Restrict(timers, DOMAIN timers \ {t})

TimerFires(t) ==
    /\ t \in DOMAIN timers
    /\ SleepIsOver(t)
    /\ timers' = WithoutTimer(t)
    /\ \/ Pending(timers[t].rq) /\ ResolveSearch(timers[t].rq)
       \/ ~Pending(timers[t].rq) /\ UNCHANGED <<searches, toPeers>>
    /\ UNCHANGED <<toServer, sessions, serverState, jobs, eventQueue>>

-------------------------------------------------------------------------------
(* processEvents, the event thread: pop an event, then, under the sessions  *)
(* mutex, look the sender up with operator[], which inserts a null entry    *)
(* where there is none.  Nobody else reads the queue, so one action.        *)

\* StateMachine::processEvent over a transition table.
NextState(table, state, event) ==
    IF <<state, event>> \in DOMAIN table THEN table[<<state, event>>] ELSE state

PeerTransitions == [k \in {<<"UNREGISTERED", "REGISTER">>} |-> "REGISTERING"]
ServerTransitions == [k \in {<<"LISTENING", "REGISTER">>} |-> "PROCESSING_REGISTRATION"]

ProcessEvent ==
    /\ eventQueue # <<>>
    /\ eventQueue' = Tail(eventQueue)
    /\ LET e == Head(eventQueue) IN
       \/ /\ Live(e.from)
          /\ serverState' = NextState(ServerTransitions, serverState, e.type)
          /\ sessions' = [sessions EXCEPT ![e.from] = NextState(PeerTransitions, @, e.type)]
       \/ /\ ~Live(e.from)
          /\ sessions' = [sessions EXCEPT ![e.from] = "null"]
          /\ UNCHANGED serverState
    /\ UNCHANGED <<netVars, searches, timers, jobs>>

-------------------------------------------------------------------------------
(* Time.  Ages grow up to Window and timers run down to 0; a timeout thread *)
(* may wake up any time after that.                                         *)

Older(age) == IF age < Window THEN age + 1 ELSE age

Tick ==
    /\ Stalls \/ \A w \in DOMAIN jobs : jobs[w].at # "store"
    /\ searches' = [r \in DOMAIN searches |-> [searches[r] EXCEPT !.age = Older(@)]]
    /\ timers' = [t \in DOMAIN timers |->
                    [timers[t] EXCEPT !.left = IF @ > 0 THEN @ - 1 ELSE 0]]
    /\ jobs' = [w \in DOMAIN jobs |->
                  [jobs[w] EXCEPT !.age = IF jobs[w].at = "store" THEN Older(@) ELSE @]]
    /\ UNCHANGED <<netVars, sessions, serverState, eventQueue>>

-------------------------------------------------------------------------------
Handle(w, d) ==
    \/ HandleRegister(w, d)
    \/ HandleDeregister(w, d)
    \/ HandleUnknown(w, d)
    \/ StartSearch(w, d)
    \/ HandleOffer(w, d)

WorkerSteps(w) == StoreSearch(w) \/ BroadcastSearch(w) \/ PushEvent(w)

ServerNext ==
    \/ \E w \in Workers, d \in DOMAIN toServer : Handle(w, d)
    \/ \E w \in Workers : WorkerSteps(w)
    \/ \E t \in TimerThreads : TimerFires(t)
    \/ ProcessEvent
    \/ Tick

\* The threads of the server keep running, and time passes.  Nothing is assumed
\* of the users, and nothing keeps the network from losing a datagram.
ServerFairness ==
    /\ \A w \in Workers : WF_<<netVars, serverVars>>(WorkerSteps(w))
    /\ \A w \in Workers :
         WF_<<netVars, serverVars>>(\E d \in DOMAIN toServer : Handle(w, d))
    /\ \A t \in TimerThreads : WF_<<netVars, serverVars>>(TimerFires(t))
    /\ WF_<<netVars, serverVars>>(ProcessEvent)
    /\ WF_<<netVars, serverVars>>(Tick)
===============================================================================

# A TLA+ model of the peer-to-peer shopping system

The repository is a course project in C++: a UDP server, `src/src/server`, and
clients, `src/src/client`, that register, search for items and make offers
through it. This directory holds TLA+ modules translated from that code, the
TLC configurations that check them on small instances, and theorems proved with
TLAPS. Paths below are relative to `src/src/` unless they start with `src/`.

## 1. Inventory: the system

### Components

**Message format and parser** (`util/MessageParser.*`, `P2P/P2PEvent.h`). A
datagram is a JSON object. `parseMessage` wants `command` and `rq`, reads the
fields of the command (a missing one throws and gives `nullptr`) and then
validates them again. No state. Correct when both ends agree on the fields: they
do not for `REGISTER-DENIED`, `NEGOTIATE` (either direction) and `DE_REGISTER`.

**Server** (`server/*`). State: `peer_sessions_` (under `sessions_mutex_`),
`active_searches_` (under `searches_mutex_`), the event queue, the server's state
machine, and in each session a peer state machine. Threads: the receive loop
(`ConcurrentServer::start`), the workers of the pool (one task per datagram), one
detached timeout thread per search, and the event thread (`processEvents`).
Operations: `handleRegister`, `handleDeregister`, `handleLookingFor`,
`handleOffer`, `processOffersAfterTimeout`, `processEvents`. Correct when every
search is answered, once, to the peer that made it, with an offer made for it,
after the whole minute; and when a peer has a session exactly while registered.

**Client** (`client/*`). State: `current_state_`, `inventory_`, `offers_` (none
locked or atomic), `next_request_number_` and `running_` (atomic). Threads: the
command thread (the user's commands) and the receive thread (one datagram every
100 ms). Correct when its state agrees with what the server knows of it, and when
it sends only what its state and its offers allow.

**Network** (external). UDP between the server's socket and the clients' sockets:
datagrams overtake each other, get lost, and may be duplicated.

**Thread pool** (`util/ThreadPool.*`). State: the queue of tasks and `stop_` under a
mutex, a condition variable, the worker threads. Operations: `enqueue`, the loop of a
worker, the destructor. Correct when every task accepted is run once, in order, and
no worker sleeps on a task nobody will tell it of.

**Server life cycle and blocking queue** (`server/ConcurrentServer.h`,
`util/ConcurrentQueue.h`, `server_daemon.cpp`). State: `running_`, which members exist,
whether the event thread was joined, the event queue. Operations: construction of the
members in order, `setupSocket` (which may throw), `start`, `stop`, destruction in
reverse order. Correct when nothing is used before or after its life, and main()
returns only when all work is done.

**Programs** (`server_daemon.cpp`, `client_daemon.cpp`, `main.cpp`): construct one
server (four workers) or one client. **JSON library** (`src/libraries`): vendored.

### How they interact

A client sends REGISTER, DE_REGISTER, LOOKING_FOR or OFFER; the receive loop turns
the datagram into a task; a worker runs the handler, which answers over the same
socket, and then pushes the parsed event; the event thread pops it and steps the
state machines. LOOKING_FOR starts a timeout thread, stores the search and
broadcasts SEARCH to the other sessions; clients that hold the item answer OFFER;
after a minute the timeout thread answers the buyer with FOUND or NOT_AVAILABLE, or
the cheapest seller with NEGOTIATE.

### What is hard

Searches are indexed by request numbers that every client counts from 1, so two
clients collide. The timeout thread is started before its search is stored. Events
are processed after the handler, in another thread, possibly when the session is
gone, and then leave a null entry behind. The client assigns its state after it
has sent, while its receive thread assigns it too. Datagrams are lost, duplicated and
reordered and nothing is sent again. A client that is killed and started again counts
from 1 again, while the server still knows the old one. The event thread is started
before the members it uses exist, and the pool is destroyed after those its tasks use.
`PROJECT.json` lists each hazard at its line.

## 2. The modules

| module | models | lines of code it stands for |
|---|---|---|
| `Messages` | every datagram as a record; `Parses(m)`: `parseMessage` gives an event | `MessageParser.cpp` 8-140, 193-225; the `json` literals of both sides |
| `Network` | two bags of datagrams: `Receive`, `Reply`, `Send`, `Deliver`, loss and duplication | `sendToClient`, `sendMessage`, both receive loops; the network itself is external |
| `Server` | the server's threads over `sessions`, `searches`, `timers`, `jobs`, `eventQueue` | `ServerCommandHandlers.cpp`, `ConcurrentServer.h` 33-47, 94-133, the state machines |
| `Client` | command thread and receive thread of each client | `client.cpp`, `client.h` |
| `OpenServer` | `Server` with peers that may send anything a client can build and may be restarted, and a network that may duplicate; the properties of the server | |
| `Broker` | abstract: what the server promises the peer that makes a request; `OpenServer` refines it | |
| `OpenClient` | `Client` sent any datagram it has a case for; the properties of a client | |
| `P2PShopping` | `Server`, `Client` and `Network` together, with restarts of clients and duplicated datagrams; refines `OpenServer` | |
| `TaskQueue` | abstract: what a thread pool promises | |
| `ThreadPool` | the pool: queue, workers in and out of their condition variable, notifications, destructor; refines `TaskQueue` | `ThreadPool.cpp`, `ThreadPool.h` 18-41 |
| `ServerLife` | `ThreadPool` in the server: construction, `start`, `stop`, destruction, event thread, timeout threads | `ConcurrentServer.h` 24-133, `ConcurrentQueue.h`, `server_daemon.cpp` |
| `MCServer`, `MCClient`, `MCShopping` | constants and symmetry for TLC | |
| `ServerTypeProofs`, `SearchProofs`, `FlowProofs`, `AnswerProofs`, `BrokerProofs` | theorems about `OpenServer`: types; threads and time; sessions; answers; the refinement of `Broker`. `SearchProofs` and `FlowProofs` extend the first, `AnswerProofs` and then `BrokerProofs` the latter | |
| `ClientProofs` | theorems about `OpenClient` | |
| `ShoppingProofs` | theorems about `P2PShopping`; the instance `Proved` brings in those about `OpenServer` | |
| `LifeProofs` | theorems about `ThreadPool` and `ServerLife` | |

`Server` and `ServerLife` are two views of the same threads, made apart to keep each
small. `Server` takes the pool and the queue as working and asks what the handlers do
to the tables; `ServerLife` leaves the tables out and asks how the threads come and go.
What `Server` takes for granted is what `ServerLife` checks: `ImplementsTaskQueue` and
`TasksAreRun` for the workers, `EventsAreProcessed` for the event thread.

### How state and actions correspond to the code

* `sessions[p]` is `"absent"`, `"null"` (an entry with a null pointer, inserted by
  `peer_sessions_[peer_id]` in `processEvents`) or the state of the session's
  machine. A peer stands for its name and its `ip:port`.
* `searches[r]` is `active_searches_[r]`; `age` replaces `start_time`: it counts the
  ticks since the request was built, up to `Window`, the ticks in the minute.
* `timers[t]` is a sleeping timeout thread; it fires at any time after `left` is 0.
* `jobs[w]` is what is left of the handler of worker `w`. `handleLookingFor` has
  three actions, `StartSearch`, `StoreSearch`, `BroadcastSearch`, cut where the
  code takes and releases its mutexes; the other handlers are one critical section
  and one action. `PushEvent` ends every handler whose message parses.
* A broadcast that meets a null entry dereferences a null pointer. The pointer is
  only used to form an address, and what the usual builds then do (checked with
  gcc at -O0, -O2, -O3) is call `sendto` with a bad address, which fails; the loop
  goes on. `Audience` leaves such entries out; no other outcome is modelled.
* In `Client`, a command is `check, take a number, send` in one action and the
  assignment of the new state in another, `AssignState`: the receive thread may run
  in between. A datagram handled between check and send commutes with the send.
  `sendMessage` may fail: the number is used up, nothing is sent or assigned.
* `quit` deregisters only a client that is REGISTERED; the receive thread stops with
  `running_`. Its last message, handled after that, changes nothing anybody reads.
* `negotiateOffer`, `acceptOffer` and `refuseOffer` are part of `OpenClient` only. In the
  whole system `offers_` stays empty (lemma `NothingIsListed` in `ShoppingProofs`), which
  is a defect and not a promise: `shopping_negotiate` is the run that shows it.
* `PeerTrades` is the same three commands in the open environment. A peer replies to
  a NEGOTIATE it was sent, about the request and the item this names; that is more than
  a client of the code does, whose parser rejects the NEGOTIATE. An ACCEPT or REFUSE
  repeats the price listed for it.
* `PeerRestarts` and `Restart`: a client is killed at any moment and started again at
  the same address. It is UNREGISTERED with nothing listed and counts from 1; what is
  on its way to the address still arrives. `NetworkDuplicates`, in `OpenServer` and in
  `P2PShopping`, adds a second copy of any datagram on its way. `faults` counts both,
  `MaxFaults` bounds them; the histories `restarted` and `doubled` of `P2PShopping`
  remember which clients were started again and which had a decisive datagram doubled.
* In `ThreadPool` a critical section of `queue_mutex_` is one action, and the
  notification that follows it another (`NotifyOne`), since `enqueue` and the destructor
  notify without the mutex. `WakeUp` is a spurious wakeup: it may happen, no fairness
  is assumed of it. `at[w]` is where a worker is, `doing[w]` its task.
* In `ServerLife`, `joined` is set by the step of `stop()` that joins the event thread and
  closes the socket: the join is the only wait, and after it the loop of `start` receives
  nothing more.
* In `ServerLife`, `main` is what the thread that runs main() does next, one phase per
  member made or destroyed. `flag` is `running_`, `"unset"` until its initialiser ran:
  what the event thread then reads is either value. If it enters the event queue
  before that is made, it is lost (`"stray"`: the constructor of the condition variable
  forgets it) or the outcome is `"undefined"`. The destructor of the queue waits while the
  event thread sleeps in it: that is what glibc does, seen in a server started on a port
  in use. Any use of a member after its life gives `"undefined"`, where a behaviour
  ends; the properties say which outcomes they speak of.
* `CallStop` is another thread that calls the public `stop()`; no program of the
  repository does. Without it the loop of `start` ends only by an exception
  (`StartThrows`, memory running out in `handleNewMessage`).
* Operators marked `Fault` are broken versions of the definition below them. No
  specification uses them; `PROJECT.json` ("mutants") pairs each property with one
  that makes it fail, so that no property holds whatever the code does.

### Abstractions

Names, descriptions, addresses and JSON text are atoms; prices are small integers,
since the code only compares them. Output and logging are left out. The pool's task
queue is left out: the network is unordered and the pool has several workers, so
the queue adds no order. The tick of time is bounded by `Window`, and ages and
sleeps are capped there. With `Stalls = FALSE` a worker does not lose the processor
for a whole tick between starting a timeout thread and storing the search; with
`Stalls = TRUE` it may, and then a search can be stored that no thread looks for.
A stall of a minute in a handler is possible in principle; the code has no guard.
`TimerThreads` bounds the threads that sleep at once; a handler that cannot start one,
or runs out of memory before it changed anything, throws, is caught in
`handleNewMessage`, and leaves things as if its datagram had been lost.

## 3. What TLC checks

| run | question | bounds |
|---|---|---|
| `server_one_search` | does the server keep the promise of `Broker`: one answer, the lowest offer, not early, while sellers register, reply and negotiate and workers may stall | 3 peers, 2 prices, 2 workers, 2 ticks, `Stalls` |
| `server_two_searches` | are two searches of one buyer kept apart, for the same item or for two; does a seller keep its session | 2 peers, 2 numbers, 2 items, 2 threads, 2 ticks |
| `server_shared_rq` | what survives when two buyers use one number: threads, answers, resolution (liveness) | 3 peers, 2 threads |
| `server_registry` | what a duplicated datagram or a restarted peer can do to sessions, searches and answers, with two buyers that use one number, failed sends, departures and late events | 2 peers, 2 prices, 2 threads, 1 fault (a peer that restarts uses its number twice) |
| `client_alone` | does a client send only what its state and its offers allow, whatever it receives | 1 client, 3 datagrams, 2 numbers, 2 prices |
| `shopping` | do server and clients agree, and does the system implement `OpenServer`, when the buyer is killed and started again or any datagram is duplicated | buyer with 2 numbers that leaves and quits; seller with an inventory of 1; 1 fault (a buyer that restarts counts from 1 again) |
| `server_life` | from constructor to the end of main(): is any wakeup, task or event lost, when does `stop()` return, what does an end leave undone | 2 workers, 3 messages |

and five runs that find a disagreement between the code and what it says:

| run | what happens |
|---|---|
| `server_early_answer` | two buyers, one number: a search is resolved by the other one's thread before its minute is over |
| `shopping_denied` | a client deregisters before the event of its REGISTER is processed, which leaves a null session: it is not registered and is denied for good |
| `shopping_negotiate` | the best offer is above the buyer's maximum: the NEGOTIATE lacks fields the seller's parser demands, nothing is listed and nobody can negotiate |
| `shopping_stuck` | REGISTERED handled before REGISTERING is assigned: the client is stuck REGISTERING, though nothing is in process |
| `server_bind_fails` | the port is taken: the process hangs or is terminated, and main() never reports "Server Error" |

More facts met on the way have no run of their own. With two buyers, one number and
two items `FoundWasOffered` fails, since `handleOffer` never looks at the item.
NOT_AVAILABLE has no case in the client, which then stays SEARCHING; a lost REGISTER, and
a REGISTER-DENIED, which cannot be parsed, leave a client REGISTERING: `BusyIsUnderWay`
fails in these ways too, but `shopping_stuck` shows the first. And a client whose
REGISTERED is duplicated, and that has deregistered when the second copy comes, takes
itself for registered and has no session; a second FOUND does the same.

### Properties

* `NoOrphanSearch`: every pending search has a timeout thread. If workers stall, a search
  may be stored when its thread has gone; it has stopped collecting then, so no offer is
  lost with it, but its buyer is not answered.
* `ImplementsBroker`: a refinement. A request is asked, collects and is closed, in this
  order and once; closing tells its maker the lowest of all offers filed in between, if
  within its maximum, or that there is none. The mapping reads the progress of a
  request off where it is: in flight or with a worker, pending, or none of these.
  True while no two requests share a number.
* `NoEarlyAnswer`: no search is resolved before its own minute is over, as long as there
  was no fault. True with one buyer, false with two that use the same number.
* `AtMostOneAnswer`: a LOOKING_FOR is in at most one place: on its way, about to be
  stored, pending, or answered on its way back. Each fault adds at most one.
* `AnswerMatchesRequest`: an answer names the item of its receiver's own search and a
  price it allows, also when another buyer's search replaced it in the table or took the
  same number (`server_registry`: two buyers with different maxima and one number).
* `FoundWasOffered`: FOUND reports an offer another peer made of that item, for that
  number, at that price. `server_two_searches` has two items, so that an offer filed with
  the wrong search shows. False with two buyers, two items and one number.
* `NoZombieStayer`, `RegisteredHasSession`, `DeniedOnlyIfRegistered` (violated): null
  entries, and who has a session.
* `SearchResolved` (liveness): a pending search is resolved or replaced.
* `RepliesWereOffered`, `RequestsAreAllowed`: a client's replies never exceed the offers
  it got; its searches and departures never exceed the messages that registered it.
* `BelievesRegistered`, `AnswerFindsSearcher`: client and server agree. What is left out
  is what is false: a client in `doubled`, which had one of the datagrams of `Decisive`
  duplicated (those that let it make one request, are that request or answer it), and
  for `AnswerFindsSearcher` a client that was started again. A duplicated REGISTER or
  SEARCH, or anything of another client, is not left out.
* `NegotiationIsHeard` (violated): a registered client that takes a NEGOTIATE off its socket
  lists the offer.
* `BusyIsUnderWay` (violated): a client that refuses commands has something under way.
* `ImplementsOpenServer`: a refinement, by the identity on the server's state and the
  history `sent`; a client's assignments are stuttering steps, a restart of a client is
  the restart of a peer. `RolesOf` gives each peer no more than the roles its user's
  commands call for: a client whose user never types `search` never searches, and one
  with nothing added never offers.
* `NoLostWakeup`, `NoForgottenEvent`: a sleeping worker, or the event thread, leaves
  nothing in its queue that no one is about to look at or tell it of.
* `ImplementsTaskQueue`: a refinement; a step of the pool that moves no task stutters.
* `OrderlyEnd`: if main() returns, all messages were handled and the event thread joined.
  This is what is left of a shut-down in which tasks may use members that are gone: it
  happens (outcome `"undefined"`), but a process that gets to its end was not affected.
* `TasksAreRun`, `EventsAreProcessed`, `StopEnds`, `PoolIsDestroyed` (liveness): the work
  gets done unless the process breaks down; `stop()` returns if an event is left to wake
  the event thread, and without one it need not (it waits for good in `join`).
* `BindFailureIsReported` (liveness, violated): a constructor that throws gets to the
  handler in main().

### Why the bounds are enough

Most hazards need two actors: two searches (two timeout threads, two numbers or two
peers with one), two workers (one between its critical sections while another runs a
handler), two prices (below and above a maximum, or two offers to choose from) and
two ticks (so that a search may be stored one tick late and still collect). Three
numbers let a peer register, leave and return (`shopping_denied`). One fault is enough for each property
that speaks of them, and more than one only adds answers (`AtMostOneAnswer`). Two workers
and three messages let a task wait while both workers are busy, and let one worker
be notified while the other sleeps or leaves. A window of 1 is used where no
property speaks of time.

### Fairness

`FairSpec` assumes weak fairness of each worker's steps and of its taking of
datagrams, of each timeout thread, of the event thread and of time. The scheduler
runs every thread that can run, none of them waits for a user, and a sleep ends.
Weak fairness is enough because nothing disables a pending step of a thread but the
thread itself. Nothing is assumed of the users, and nothing keeps a datagram from
being lost. `FairLifeSpec` assumes weak fairness of the main thread but for receiving
and throwing, of the event thread, of each worker, and of a `stop()` that may return;
spurious wakeups, calls of `stop()`, messages and timeouts need never happen.
`CHECK_DEADLOCK FALSE` is set for the runs with clients, when the users have used their
bounded numbers or have quit, and for the life of the server, which ends. The server
alone never stops, since time passes.

The network of `P2PShopping` duplicates, and loses nothing explicitly: a datagram that is never
received is lost, and no property asks for one to arrive. `OpenServer` has loss as
actions, because `AtMostOneAnswer` and the refinement speak of what is in flight.

## 4. What is proved

Every safety property that a passing run checks is proved for every value of the
constants, three of them under an assumption named with them. The theorems about
`OpenServer` hold for any peers, roles, items, prices, workers, threads, ticks, request
numbers and faults; those about `OpenClient` for any clients and commands, whatever is
sent to them; those about the pool and the server's life for any number of workers (not
none) and messages. `SystemIsAnOpenServer` carries what is proved of the server over to
the whole system.

The server (`OpenServer`):

* `TypeCorrect` (`ServerTypeProofs`): `Spec => []TypeOK`. `TypeOK` is inductive as it
  stands because it says that a worker about to push an event holds a message that
  parses, and one about to store or broadcast a LOOKING_FOR. One lemma per action;
  lemmas on bags and tables (`BagAdd`, `BagRemove`, `PutType`, `RestrictType`) below.
* `NoOrphans` (`SearchProofs`): `Spec => []NoOrphanSearch`, with no assumption.
  `NoOrphanSearch` is not inductive: `StoreSearch` makes a search pending, and nothing
  in it says that the thread started earlier is still asleep. `OrphanInv` says of a
  search about to be stored (`StoringIsTimed`) and of one that is pending (`PendingIsTimed`)
  that it is `Timed`: it has a thread, with time left as long as it collects, or workers
  may stall and its minute is over. `Tick` is the step that lets the minute end.
* `NoEarlyAnswers` (`SearchProofs`): if only one peer searches, `Spec => NoEarlyAnswer`.
  `EarlyInv` adds `FreshRequests` (a request number in flight is in one copy, is below
  the searcher's counter, and no thread sleeps for it yet) and `OwnTimer` (the time a
  thread has left and the age of its search add up to at least the minute). The
  assumption is needed: `server_early_answer` is the counterexample without it. Both
  parts hold while `faults = 0`, which is what the property is conditional on: a
  duplicated LOOKING_FOR or a number used twice breaks `FreshRequests` at once.
* `RegisteredHaveSessions` (`FlowProofs`): `Spec => []RegisteredHasSession`. The
  strengthening is that no DE_REGISTER of a peer that never leaves is on its way: the
  event thread makes an entry null only where there is no session, so nothing else can
  take one away, and REGISTERED is sent only when one is made.
* `StayersAreNoZombies` (`FlowProofs`): `Spec => []NoZombieStayer`. A null entry comes
  from an event of a peer without a session. `StayerInv`: a peer that only registers
  and sells and has no session has nothing on its way but REGISTERs, is sent no SEARCH,
  and has no job and no event in the queue. `StayersAreDeniedRightly`, an action property,
  follows: such a peer is sent REGISTER-DENIED only while it has a session. For other
  peers that is false (`shopping_denied`).
* `AnswersMatchRequests` (`AnswerProofs`): `Spec => []AnswerMatchesRequest`, two buyers
  with one number included. `SentInv` says what `sent` knows of each place a request
  or an offer passes through: in flight, with a worker, in the table, among the offers
  of a search. A search that replaces another takes its searcher with it, so that an
  answer is about the search that is there, whoever's thread resolves it.
* `FoundWereOffered` (`AnswerProofs`): `NumbersAreOwn` implies `Spec => []FoundWasOffered`.
  `NumbersAreOwn`: only one peer searches, and it is never started again or there are no
  faults; duplicates are allowed. Then a number stands for one search (`OnePerNumber`),
  and an OFFER, which answers a SEARCH, names the item of that search (`Solicited`). With
  two buyers it is false, since `handleOffer` looks at the number alone.
* `AnsweredAtMostOnce` (`AnswerProofs`): `Spec => []AtMostOneAnswer`, with no assumption.
  `OnceInv` counts a number not yet used as one more place its request may be in:
  places and unused are at most one plus the faults. Sending uses the number up;
  every later step moves the request from one place to the next or drops it; a
  duplicate or a restart adds one. The lemmas on copies in bags (`OneMoreCopy`,
  `OneCopyLess`) are what the steps of the network need.
* `ServerIsABroker` (`BrokerProofs`): `NumbersAreOwn` and no faults imply
  `Spec => ImplementsBroker`. `BrokerInv` is the conjunction of the invariants above;
  `FactsHold` says what it makes of the mapping. Then each step moves one request the way
  `Broker` moves it and leaves the others (`OneMoves`), or leaves all of them (`AllStill`).

The client (`OpenClient`), in `ClientProofs`, from the assumption that 1 is a request
number (`SomeRqAssumption`: messages whose number no client reads carry it):

* `ClientTypeCorrect`: `Spec => []TypeOK`.
* `RequestsWereAllowed`: `Spec => []RequestsAreAllowed`. A budget: requests sent, plus one
  if the client may ask right now, are at most the messages heard that allow one, less
  those still on their way. The command thread never assigns REGISTERED, so checking
  the state and assigning it later cannot make a second permission out of one, whatever
  the receive thread assigns in between.
* `RepliesWereMade`: `Spec => []RepliesWereOffered`. The same budget for each deal and each
  request number, with the offers in `offers_` as what the client may still reply to.

The whole system (`P2PShopping`), in `ShoppingProofs`:

* `SystemIsAnOpenServer`: `Spec => ImplementsOpenServer`. `SimInv` is the type invariant of
  `OpenServer`, that what is in flight is in `sent`, and that an item in an inventory was
  added by a user who may. Server steps are the same steps (the `Same...` lemmas show, layer
  by layer, that the operators of the two instances are equal); a command that sends is
  `PeerRegisters`, `PeerDeregisters` or `PeerSearches`, one whose `sendto` fails is
  `PeerFails`, an OFFER is `PeerOffers`, another datagram received is a lost one.
* `ClientsBelieveRightly`: `Spec => []BelievesRegistered`, and `AnswersFindSearchers`:
  `Spec => []AnswerFindsSearcher`. Neither is inductive, since they say nothing of what is
  on its way. `BeliefInv` follows the permission to make one request: it comes with
  REGISTERED, is free for the command thread, goes into a LOOKING_FOR or DE_REGISTER, from
  there to a worker, the table, and back with the answer. `AtMostOnePermit`: a client has
  one at most; while there is one the client has a session, because only a departure, which
  uses the permission up, drops a session. So two requests are never under way, no
  departure overtakes an answer, and what the client believes is true. A duplicate of a
  datagram that carries a permission would make a second one: `BeliefInv` says nothing of
  the clients in `doubled`, and `AgreesDoubled` is that other duplicates do no harm.
* `ServerPromisesHold`: `AtMostOneAnswer`, `AnswerMatchesRequest` and
  `RegisteredHasSession` hold of the whole system. `OneBuyerIsServed`: with one buyer and no
  restart or duplicate the whole system implements `Broker`, and `FoundWasOffered` holds.

The pool and the life of the server, in `LifeProofs`:

* `NoWakeupIsLost` and `LifeLosesNoWakeup`: `NoLostWakeup` is inductive
  together with `PoolTypeOK`. The argument counts the workers about to look at the
  queue: taking a task removes one of each, a notification turns into such a worker.
  `LifeUsesPool`, that every step of the server is a step of the pool or leaves it alone,
  carries it from the pool to the server.
* `PoolIsATaskQueue`: the pool implements `TaskQueue`, from `PoolInv`: the queue holds the
  last tasks accepted, in order (`InOrder`); tasks under way came before and differ
  (`TakenOnce`); a worker that is gone saw the queue empty after the stop (`NoneLeft`).
* `EndsOrderly`: `[]OrderlyEnd`, from `NoneLeft` and `JoinedFirst`: the pool is destroyed
  only after the event thread was joined, since destroying it unjoined aborts.
* `NoEventIsForgotten`: `[]NoForgottenEvent`, by following the worker that has pushed.
* `LifeTypeCorrect`: `LifeSpec => []LifeTypeOK`. What bounds the events queued and the timeout
  threads asleep is `Budget`: a message accepted is in the pool's queue, with a worker that
  has still to handle it or to push its event, or has become at most one of each.

The only other assumptions are those the modules name (`PricesAssumption`,
`MaxRqAssumption`, `WindowAssumption`, `PoolWorkersAssumption`, ...); TLC evaluates them in every run.

### Only model-checked

Liveness (`SearchResolved`, `TasksAreRun`, `EventsAreProcessed`, `StopEnds`,
`PoolIsDestroyed`) is out of the prover's reach, as is anything with ENABLED or fairness.
What the violated runs show is a matter of counterexamples: `NoEarlyAnswer` without one
buyer, `DeniedOnlyIfRegistered` for peers that leave, `NegotiationIsHeard`,
`BusyIsUnderWay`, `BindFailureIsReported`. `FoundWasOffered` and `ImplementsBroker` are proved only where
request numbers are not shared, since they are false elsewhere; that `NoEarlyAnswer` needs
one buyer is for the same reason.

## 5. Not modelled

* The JSON library, `src/libraries/json.hpp`: one vendored header of 24,765 lines, more
  than nine tenths of the repository. It holds none of this program's logic; what the
  parser needs of it is that a missing field throws (`Messages`). Measured over all
  lines of the repository the models therefore cover little; of the 2,000 lines
  of the program itself they cover about half, and most of what is left prints.
* Unsynchronised access to the vectors `inventory_` and `offers_`: changes are atomic in
  the model. Two at once are undefined behaviour; no property could say more of it
  than that it may happen.
* `handleAcceptEvent`, `handleBuyEvent`, `handleShippedEvent`, `getOrCreateSession` and
  `handleStateTransition` are never called; TCP is mentioned in the README of the
  repository and not used by the code.
* Printing, and the command line of the client (which compares ports with 65535 after
  it has cut them to 16 bits, and binds to `udp_port` without `htons`): read once, before
  anything runs.

## 6. Plan

1. Done: `Messages`, `Network`, `Server`, `OpenServer`, `Broker`, `Client`, `OpenClient`,
   `P2PShopping`, `TaskQueue`, `ThreadPool`, `ServerLife`, the runs, and theorems for every
   safety property and every refinement.
2. Left: what two buyers are still promised when they share a number (a weaker `Broker`,
   in which one search may replace another), and how it fares with restarts.

----------------------------- MODULE OpenServer -----------------------------
(***************************************************************************)
(* The server in an open environment: any peer whose role allows it may    *)
(* send any datagram a client can build, whatever state its client is in.  *)
(* The network loses and reorders datagrams.  The peers keep to two things *)
(* the client code does too: request numbers are counted up from 1 per     *)
(* peer, and an offer answers a SEARCH received.  They go beyond it where  *)
(* the client's parser rejects what the server sends: an ACCEPT, REFUSE or *)
(* NEGOTIATE answers a NEGOTIATE received.                                 *)
(* Faults, up to a bound: the network duplicates a datagram, and a peer    *)
(* that is started again at the same address counts from 1 again.          *)
(***************************************************************************)
EXTENDS Server, FiniteSets

CONSTANTS
    Roles,       \* what the user of each peer may do
    RqLimit,     \* bound: how many request numbers each peer uses
    Duplicates,  \* whether the network may duplicate a datagram
    MaxFaults    \* bound: duplicates and restarts

Operations == {"register", "deregister", "search", "fail", "sell", "trade", "restart"}
ASSUME RolesAssumption == Roles \in [Peers -> SUBSET Operations]
ASSUME RqLimitAssumption == RqLimit \in [Peers -> 0 .. MaxRq]
ASSUME DuplicatesAssumption == Duplicates \in BOOLEAN
ASSUME MaxFaultsAssumption == MaxFaults \in Nat

VARIABLES
    nextRq,  \* next_request_number_ of each peer
    sent,    \* history: every datagram sent so far but the registrations
    faults   \* how many duplicates and restarts there were

vars == <<netVars, serverVars, nextRq, sent, faults>>

-------------------------------------------------------------------------------
(* The peers. *)

\* p's user does op, which takes the next request number.
Does(p, op) ==
    /\ op \in Roles[p]
    /\ nextRq[p] <= RqLimit[p]
    /\ nextRq' = [nextRq EXCEPT ![p] = @ + 1]
    /\ UNCHANGED <<toPeers, serverVars>>

PeerRegisters(p) ==
    /\ Does(p, "register")
    /\ Send(p, RegisterMsg(p, nextRq[p]))
    /\ UNCHANGED sent

PeerDeregisters(p) ==
    /\ Does(p, "deregister")
    /\ Send(p, DeregisterMsg(p, nextRq[p]))
    /\ UNCHANGED sent

\* sendto fails: the number is used up and nothing is sent.
PeerFails(p) ==
    /\ Does(p, "fail")
    /\ UNCHANGED <<toServer, sent>>

PeerSearches(p) ==
    /\ Does(p, "search")
    /\ \E i \in Items, max \in Prices :
         LET m == LookingForMsg(p, nextRq[p], i, max) IN
         /\ Send(p, m)
         /\ sent' = sent \cup {[from |-> p, msg |-> m]}

\* A SEARCH may be answered by an offer.  A datagram a peer takes off its socket
\* and does nothing with is as good as lost.
PeerOffers(p, d) ==
    /\ "sell" \in Roles[p]
    /\ d.to = p
    /\ d.msg.command = "SEARCH"
    /\ Deliver(d)
    /\ \E price \in Prices :
         LET m == OfferMsg(p, d.msg.rq, d.msg.item_name, price) IN
         /\ Send(p, m)
         /\ sent' = sent \cup {[from |-> p, msg |-> m]}
    /\ UNCHANGED <<serverVars, nextRq>>

\* A peer accepts, refuses or counters the offer that a NEGOTIATE makes it.  The
\* client of this code does not: its parser rejects every NEGOTIATE.
PeerTrades(p, d) ==
    /\ "trade" \in Roles[p]
    /\ d.to = p
    /\ d.msg.command = "NEGOTIATE"
    /\ Deliver(d)
    /\ \E cmd \in TradeCommands, price \in Prices :
         LET m == TradeMsg(cmd, p, d.msg.rq, d.msg.item_name, price) IN
         /\ cmd = "NEGOTIATE" \/ price = d.msg.max_price
         /\ Send(p, m)
         /\ sent' = sent \cup {[from |-> p, msg |-> m]}
    /\ UNCHANGED <<serverVars, nextRq>>

PeersNext ==
    \/ \E p \in Peers : \/ PeerRegisters(p)
                        \/ PeerDeregisters(p)
                        \/ PeerFails(p)
                        \/ PeerSearches(p)
    \/ \E p \in Peers, d \in DOMAIN toPeers : PeerOffers(p, d) \/ PeerTrades(p, d)

-------------------------------------------------------------------------------
(* Faults. *)

\* p's client is killed and started again: next_request_number_(1).
PeerRestarts(p) ==
    /\ "restart" \in Roles[p]
    /\ nextRq' = [nextRq EXCEPT ![p] = 1]
    /\ UNCHANGED netVars

NetworkDuplicates ==
    /\ Duplicates
    /\ \/ \E d \in DOMAIN toServer : DuplicateToServer(d)
       \/ \E d \in DOMAIN toPeers : DuplicateToPeer(d)
    /\ UNCHANGED nextRq

FaultsNext ==
    /\ faults < MaxFaults
    /\ faults' = faults + 1
    /\ \/ \E p \in Peers : PeerRestarts(p)
       \/ NetworkDuplicates
    /\ UNCHANGED <<serverVars, sent>>

-------------------------------------------------------------------------------
Init ==
    /\ NetInit
    /\ ServerInit
    /\ nextRq = [p \in Peers |-> 1]
    /\ sent = {}
    /\ faults = 0

Next ==
    \/ ServerNext /\ UNCHANGED <<nextRq, sent, faults>>
    \/ PeersNext /\ UNCHANGED faults
    \/ NetworkNext /\ UNCHANGED <<serverVars, nextRq, sent, faults>>
    \/ FaultsNext

Spec == Init /\ [][Next]_vars
FairSpec == Spec /\ ServerFairness

-------------------------------------------------------------------------------
(* Properties. *)

\* Every variable holds a value of its type: the tables of the server, the
\* datagrams in flight, the peers' counters.
TypeOK ==
    /\ NetTypeOK
    /\ ServerTypeOK
    /\ nextRq \in [Peers -> 1 .. MaxRq + 1]
    /\ sent \subseteq Datagram
    /\ faults \in 0 .. MaxFaults

(***************************************************************************)
(* Every search that is filed and not resolved has a timeout thread that   *)
(* will resolve it, also when two searches share a request number.  The    *)
(* exception: handleLookingFor starts the thread before it stores the      *)
(* search, and if its worker stalls until the minute is over, the thread   *)
(* may have looked for the search by then.  Offers are never lost to it:   *)
(* such a search has stopped collecting.                                   *)
(***************************************************************************)
HasTimer(r) == \E t \in DOMAIN timers : timers[t].rq = r
NoOrphanSearch ==
    \A r \in Rqs : Pending(r) => HasTimer(r) \/ (Stalls /\ ~Collecting(r))

(***************************************************************************)
(* No search is resolved before its own minute is over: offers that arrive *)
(* within the minute all count (processOffersAfterTimeout, handleOffer),   *)
(* as long as no request was duplicated and no number used again.          *)
(***************************************************************************)
ResolvedEarly(r) ==
    /\ Pending(r)
    /\ searches[r].age < Window
    /\ r \in DOMAIN searches' => searches'[r].processed
NoEarlyAnswer == [][faults = 0 => \A r \in Rqs : ~ResolvedEarly(r)]_vars

(***************************************************************************)
(* One LOOKING_FOR is answered at most once: it is either on its way, with *)
(* a worker, pending in the table, or answered by one datagram on its way  *)
(* back, and never in two of these places.  A duplicate, and a restarted   *)
(* client that uses the number again, cost at most one more answer.        *)
(***************************************************************************)
IsRequest(d, p, r) == d.from = p /\ d.msg.command = "LOOKING_FOR" /\ d.msg.rq = r
IsAnswer(d, p, r) ==
    d.to = p /\ d.msg.command \in {"FOUND", "NOT_AVAILABLE"} /\ d.msg.rq = r

Waiting(p, r) == Copies(toServer, {d \in DOMAIN toServer : IsRequest(d, p, r)})
Storing(p, r) == {w \in DOMAIN jobs : jobs[w].at = "store" /\ IsRequest(jobs[w], p, r)}
Filed(p, r) == Pending(r) /\ searches[r].searcher = p
Answered(p, r) == Copies(toPeers, {d \in DOMAIN toPeers : IsAnswer(d, p, r)})

Places(p, r) ==
    Cardinality(Waiting(p, r)) + Cardinality(Storing(p, r))
      + (IF Filed(p, r) THEN 1 ELSE 0) + Cardinality(Answered(p, r))
AtMostOneAnswer == \A p \in Peers, r \in Rqs : Places(p, r) <= 1 + faults

(***************************************************************************)
(* An answer is about the search its receiver made: the same request       *)
(* number and item, and a price within the maximum it gave (the search     *)
(* table is indexed by request numbers that several peers use).            *)
(***************************************************************************)
AnswersRequest(d, q) ==
    /\ IsRequest(q, d.to, d.msg.rq)
    /\ q.msg.item_name = d.msg.item_name
    /\ IF d.msg.command = "FOUND"
       THEN d.msg.price <= q.msg.max_price
       ELSE d.msg.price = q.msg.max_price
AnswerMatchesRequest ==
    \A d \in DOMAIN toPeers :
        d.msg.command \in {"FOUND", "NOT_AVAILABLE"} => \E q \in sent : AnswersRequest(d, q)

(***************************************************************************)
(* A buyer is told that an item was found at a price only if some other    *)
(* peer offered that item for that request at that price (handleOffer      *)
(* files offers by request number alone).                                  *)
(***************************************************************************)
FoundWasOffered ==
    \A d \in DOMAIN toPeers :
        d.msg.command = "FOUND" =>
            \E o \in sent : /\ o.from # d.to
                            /\ o.msg = OfferMsg(o.from, d.msg.rq, d.msg.item_name, d.msg.price)

(***************************************************************************)
(* A peer that only registers and sells never gets a null entry in the     *)
(* session table: whatever it sends reaches the event thread while its     *)
(* session lives (processEvents inserts null for a sender it cannot find). *)
(***************************************************************************)
Stayer(p) == Roles[p] \subseteq {"register", "fail", "sell"}
NoZombieStayer == \A p \in Peers : Stayer(p) => sessions[p] # "null"

(***************************************************************************)
(* A peer that has been told it is registered, and does not leave, has a   *)
(* session (handleRegister stores one and nothing but DE_REGISTER drops    *)
(* it, whatever events of the peer are still to be processed).             *)
(***************************************************************************)
ToldRegistered(p) == \E d \in DOMAIN toPeers : d.to = p /\ d.msg.command = "REGISTERED"
RegisteredHasSession ==
    \A p \in Peers : "deregister" \notin Roles[p] /\ ToldRegistered(p) => Live(p)

\* p is sent a REGISTER-DENIED.
Denies(p) == \E d \in DOMAIN toPeers' \ DOMAIN toPeers :
                d.to = p /\ d.msg.command = "REGISTER-DENIED"

(***************************************************************************)
(* The server keeps the promise of Broker as long as no two requests share *)
(* a number: a search is filed, resolved and answered once, and the answer *)
(* is the lowest of all the offers filed in between, if within the maximum *)
(* (handleOffer and processOffersAfterTimeout in whatever order, workers   *)
(* and threads interleaved, datagrams lost and reordered).                 *)
(***************************************************************************)
AllRequests == Peers \X Rqs
Made(q) == {d \in sent : IsRequest(d, q[1], q[2])}
Asked(q) == Waiting(q[1], q[2]) # {} \/ Storing(q[1], q[2]) # {}
ProgressOf(q) == CASE Made(q) = {} -> "idle"
                   [] Asked(q) -> "asked"
                   [] Filed(q[1], q[2]) -> "collecting"
                   [] OTHER -> "closed"
LimitOf(q) == IF Made(q) = {} THEN 0 ELSE (CHOOSE d \in Made(q) : TRUE).msg.max_price
BidsOn(q) == IF ProgressOf(q) = "collecting"
             THEN {o.price : o \in Range(searches[q[2]].offers)}
             ELSE {}
AnswersInFlight == {d \in DOMAIN toPeers : d.msg.command \in {"FOUND", "NOT_AVAILABLE"}}
AnswerOf(d) == [request |-> <<d.to, d.msg.rq>>,
                price |-> IF d.msg.command = "FOUND" THEN d.msg.price ELSE 0]
AsBroker == INSTANCE Broker
    WITH Requests <- AllRequests,
         progress <- [q \in AllRequests |-> ProgressOf(q)],
         limit <- [q \in AllRequests |-> LimitOf(q)],
         bids <- [q \in AllRequests |-> BidsOn(q)],
         answers <- {AnswerOf(d) : d \in AnswersInFlight}
ImplementsBroker == AsBroker!Spec

(***************************************************************************)
(* Liveness: every search in the table is resolved or replaced, given that *)
(* the server's threads run and time passes.                               *)
(***************************************************************************)
SearchResolved == \A r \in Rqs : Pending(r) ~> ~Pending(r)
===============================================================================

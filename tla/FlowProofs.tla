------------------------------ MODULE FlowProofs ------------------------------
(***************************************************************************)
(* Where the datagrams in flight, the jobs of the workers, the searches,   *)
(* the events and the sessions come from: first what one step of           *)
(* OpenServer may add to each of them, then theorems that follow a peer's  *)
(* registration and a buyer's request through all of these places.  For    *)
(* any peers, roles, items, prices and threads.                            *)
(***************************************************************************)
EXTENDS ServerTypeProofs

-------------------------------------------------------------------------------
(* What a peer puts on the network. *)

PeerSends(p, m) ==
    \/ "register" \in Roles[p] /\ m = RegisterMsg(p, nextRq[p])
    \/ "deregister" \in Roles[p] /\ m = DeregisterMsg(p, nextRq[p])
    \/ /\ "search" \in Roles[p]
       /\ \E i \in Items, max \in Prices : m = LookingForMsg(p, nextRq[p], i, max)
    \/ /\ "trade" \in Roles[p]
       /\ \E cmd \in TradeCommands, r \in Rqs, i \in Items, price \in Prices :
            m = TradeMsg(cmd, p, r, i, price)
    \/ /\ "sell" \in Roles[p]
       /\ \E c \in DOMAIN toPeers, price \in Prices :
            /\ c.to = p /\ c.msg.command = "SEARCH"
            /\ m = OfferMsg(p, c.msg.rq, c.msg.item_name, price)
Recorded(m) == m.command \notin {"REGISTER", "DE_REGISTER"}

\* An OFFER answers a SEARCH.
LEMMA OffersSent ==
    ASSUME NEW p, NEW m, PeerSends(p, m), m.command = "OFFER"
    PROVE  \E c \in DOMAIN toPeers, price \in Prices :
             /\ c.to = p /\ c.msg.command = "SEARCH"
             /\ m = OfferMsg(p, c.msg.rq, c.msg.item_name, price)
  <1>1. m # RegisterMsg(p, nextRq[p]) /\ m # DeregisterMsg(p, nextRq[p])
    BY DEF RegisterMsg, DeregisterMsg
  <1>2. \A i, max : m # LookingForMsg(p, nextRq[p], i, max)
    BY DEF LookingForMsg
  <1>3. \A cmd \in TradeCommands : \A r, i, price : m # TradeMsg(cmd, p, r, i, price)
    BY DEF TradeMsg, TradeCommands
  <1> QED
    BY <1>1, <1>2, <1>3 DEF PeerSends

\* A datagram newly on its way to the server was built by its sender, and is
\* recorded unless it is a registration.
LEMMA NewToServer ==
    ASSUME TypeOK, [Next]_vars, NEW d \in DOMAIN toServer', d \notin DOMAIN toServer
    PROVE  /\ d \in Datagram
           /\ PeerSends(d.from, d.msg)
           /\ Recorded(d.msg) => d \in sent'
  <1>n. NetTypeOK /\ nextRq \in [Peers -> 1 .. MaxRq + 1]
    BY DEF TypeOK
  <1>s. ASSUME NEW p \in Peers, NEW m \in ClientMessages, Send(p, m), PeerSends(p, m),
               Recorded(m) => sent' = sent \cup {[from |-> p, msg |-> m]}
        PROVE  /\ d \in Datagram
               /\ PeerSends(d.from, d.msg)
               /\ Recorded(d.msg) => d \in sent'
    <2>1. DOMAIN toServer' = DOMAIN toServer \cup {[from |-> p, msg |-> m]}
      BY <1>n, <1>s, SendBag
    <2>2. d = [from |-> p, msg |-> m]
      BY <2>1
    <2> QED
      BY <1>s, <2>2 DEF Datagram
  <1>1. CASE ServerNext
    <2>1. \A w \in Workers, c \in DOMAIN toServer : Handle(w, c) => Receive(c)
      BY DEF Handle, HandleRegister, HandleDeregister, HandleUnknown, StartSearch, HandleOffer, Takes
    <2>2. (\E c : Receive(c)) \/ toServer' = toServer
      BY <1>1, <2>1 DEF ServerNext, WorkerSteps, StoreSearch, BroadcastSearch, PushEvent,
         TimerFires, ProcessEvent, Tick, netVars
    <2> QED
      BY <1>n, <2>2, ReceiveBag
  <1>2. CASE NetworkNext
    BY <1>2, <1>n, ReceiveBag DEF NetworkNext, LoseToServer, LoseToPeer
  <1>3. CASE FaultsNext
    <2>1. ASSUME NEW c \in DOMAIN toServer, DuplicateToServer(c)
          PROVE  DOMAIN toServer' = DOMAIN toServer
      <3> DEFINE T == {c}
      <3>1. toServer' = toServer (+) SetToBag(T) /\ T \subseteq DOMAIN toServer
        BY <2>1 DEF DuplicateToServer
      <3> HIDE DEF T
      <3> QED
        BY <1>n, <3>1, BagAdd DEF NetTypeOK
    <2> QED
      BY <1>3, <2>1 DEF FaultsNext, PeerRestarts, NetworkDuplicates, DuplicateToPeer, netVars
  <1>4. CASE PeersNext
    <2>1. ASSUME NEW p \in Peers, PeerRegisters(p) \/ PeerDeregisters(p)
          PROVE  \E m \in ClientMessages : Send(p, m) /\ PeerSends(p, m) /\ ~Recorded(m)
      BY <2>1, DoesType, ClientMessageType DEF PeerRegisters, PeerDeregisters, Does, PeerSends,
         Recorded, RegisterMsg, DeregisterMsg
    <2>2. ASSUME NEW p \in Peers, PeerSearches(p)
          PROVE  \E m \in ClientMessages : /\ Send(p, m) /\ PeerSends(p, m)
                                           /\ sent' = sent \cup {[from |-> p, msg |-> m]}
      BY <2>2, DoesType, ClientMessageType DEF PeerSearches, Does, PeerSends
    <2>3. ASSUME NEW p \in Peers, NEW c \in DOMAIN toPeers, PeerTrades(p, c)
          PROVE  \E m \in ClientMessages : /\ Send(p, m) /\ PeerSends(p, m)
                                           /\ sent' = sent \cup {[from |-> p, msg |-> m]}
      <3>1. c.msg.rq \in Rqs /\ c.msg.item_name \in Items
        BY <1>n, <2>3, NegotiateFields DEF PeerTrades, NetTypeOK
      <3> QED
        BY <2>3, <3>1, ClientMessageType DEF PeerTrades, PeerSends
    <2>4. ASSUME NEW p \in Peers, NEW c \in DOMAIN toPeers, PeerOffers(p, c)
          PROVE  \E m \in ClientMessages : /\ Send(p, m) /\ PeerSends(p, m)
                                           /\ sent' = sent \cup {[from |-> p, msg |-> m]}
      <3>1. c.msg \in ServerMessages
        BY <1>n DEF NetTypeOK
      <3>2. c.msg.rq \in Rqs /\ c.msg.item_name \in Items
        BY <2>4, <3>1, SearchFields DEF PeerOffers
      <3> QED
        BY <2>4, <3>2, ClientMessageType DEF PeerOffers, PeerSends
    <2>5. ASSUME NEW p \in Peers, PeerFails(p)
          PROVE  toServer' = toServer
      BY <2>5 DEF PeerFails
    <2> QED
      BY <1>4, <1>s, <2>1, <2>2, <2>3, <2>4, <2>5 DEF PeersNext
  <1>5. CASE UNCHANGED vars
    BY <1>5 DEF vars, netVars
  <1> QED
    BY <1>1, <1>2, <1>3, <1>4, <1>5 DEF Next

\* What is newly recorded was just sent, and a search used a number up.
LEMMA NewSent ==
    ASSUME TypeOK, [Next]_vars, NEW d \in sent', d \notin sent
    PROVE  /\ d \in Datagram
           /\ PeerSends(d.from, d.msg)
           /\ sent' = sent \cup {d}
           /\ d.msg.command = "LOOKING_FOR" =>
                /\ "search" \in Roles[d.from]
                /\ d.msg.rq = nextRq[d.from]
                /\ nextRq' = [nextRq EXCEPT ![d.from] = @ + 1]
  <1>n. NetTypeOK /\ nextRq \in [Peers -> 1 .. MaxRq + 1]
    BY DEF TypeOK
  <1>1. CASE PeersNext
    <2>1. ASSUME NEW p \in Peers, PeerSearches(p)
          PROVE  \E m \in ClientMessages :
                   /\ PeerSends(p, m) /\ sent' = sent \cup {[from |-> p, msg |-> m]}
                   /\ "search" \in Roles[p] /\ m.rq = nextRq[p]
                   /\ nextRq' = [nextRq EXCEPT ![p] = @ + 1]
      <3>1. PICK i \in Items, max \in Prices :
              sent' = sent \cup {[from |-> p, msg |-> LookingForMsg(p, nextRq[p], i, max)]}
        BY <2>1 DEF PeerSearches
      <3> DEFINE m == LookingForMsg(p, nextRq[p], i, max)
      <3>2. /\ m \in ClientMessages /\ PeerSends(p, m)
            /\ m.rq = nextRq[p] /\ "search" \in Roles[p]
            /\ nextRq' = [nextRq EXCEPT ![p] = @ + 1]
        BY <2>1, DoesType, ClientMessageType DEF PeerSearches, Does, PeerSends, LookingForMsg
      <3> QED
        BY <3>1, <3>2
    <2>2. ASSUME NEW p \in Peers, NEW c \in DOMAIN toPeers, PeerTrades(p, c)
          PROVE  \E m \in ClientMessages :
                   /\ PeerSends(p, m) /\ sent' = sent \cup {[from |-> p, msg |-> m]}
                   /\ m.command # "LOOKING_FOR"
      <3>1. c.msg.rq \in Rqs /\ c.msg.item_name \in Items
        BY <1>n, <2>2, NegotiateFields DEF PeerTrades, NetTypeOK
      <3>2. PICK cmd \in TradeCommands, r \in Rqs, i \in Items, price \in Prices :
              sent' = sent \cup {[from |-> p, msg |-> TradeMsg(cmd, p, r, i, price)]}
        BY <2>2, <3>1 DEF PeerTrades
      <3> DEFINE m == TradeMsg(cmd, p, r, i, price)
      <3>3. m \in ClientMessages /\ PeerSends(p, m) /\ m.command # "LOOKING_FOR"
        BY <2>2, ClientMessageType DEF PeerTrades, PeerSends, TradeMsg, TradeCommands
      <3> QED
        BY <3>2, <3>3
    <2>3. ASSUME NEW p \in Peers, NEW c \in DOMAIN toPeers, PeerOffers(p, c)
          PROVE  \E m \in ClientMessages :
                   /\ PeerSends(p, m) /\ sent' = sent \cup {[from |-> p, msg |-> m]}
                   /\ m.command # "LOOKING_FOR"
      <3>1. c.msg \in ServerMessages
        BY <1>n DEF NetTypeOK
      <3>2. c.msg.rq \in Rqs /\ c.msg.item_name \in Items
        BY <2>3, <3>1, SearchFields DEF PeerOffers
      <3>3. PICK price \in Prices :
              sent' = sent \cup {[from |-> p, msg |-> OfferMsg(p, c.msg.rq, c.msg.item_name, price)]}
        BY <2>3 DEF PeerOffers
      <3> DEFINE m == OfferMsg(p, c.msg.rq, c.msg.item_name, price)
      <3>4. m \in ClientMessages /\ PeerSends(p, m) /\ m.command # "LOOKING_FOR"
        BY <2>3, <3>2, ClientMessageType DEF PeerOffers, PeerSends, OfferMsg
      <3> QED
        BY <3>3, <3>4
    <2>4. ASSUME NEW p \in Peers, PeerRegisters(p) \/ PeerDeregisters(p) \/ PeerFails(p)
          PROVE  sent' = sent
      BY <2>4 DEF PeerRegisters, PeerDeregisters, PeerFails
    <2>5. ASSUME NEW p \in Peers, NEW m \in ClientMessages, PeerSends(p, m),
                 sent' = sent \cup {[from |-> p, msg |-> m]},
                 m.command = "LOOKING_FOR" =>
                   /\ "search" \in Roles[p] /\ m.rq = nextRq[p]
                   /\ nextRq' = [nextRq EXCEPT ![p] = @ + 1]
          PROVE  /\ d \in Datagram /\ PeerSends(d.from, d.msg) /\ sent' = sent \cup {d}
                 /\ d.msg.command = "LOOKING_FOR" =>
                      /\ "search" \in Roles[d.from] /\ d.msg.rq = nextRq[d.from]
                      /\ nextRq' = [nextRq EXCEPT ![d.from] = @ + 1]
      <3>1. d = [from |-> p, msg |-> m]
        BY <2>5
      <3> QED
        BY <2>5, <3>1 DEF Datagram
    <2> QED
      BY <1>1, <2>1, <2>2, <2>3, <2>4, <2>5 DEF PeersNext
  <1> QED
    BY <1>1 DEF Next, FaultsNext, vars

-------------------------------------------------------------------------------
(* What the server puts on the network. *)

Registers(p, m) == \E r \in Rqs : m = RegisteredMsg(r) /\ sessions'[p] = "UNREGISTERED"
Refuses(p, m) == \E r \in Rqs : m = DeniedMsg(r) /\ sessions[p] # "absent"
Announces(p, m) ==
    \E w \in DOMAIN jobs : /\ jobs[w].at = "broadcast"
                           /\ p \in Audience(jobs[w].from)
                           /\ m = SearchMsg(jobs[w].msg.rq, jobs[w].msg.item_name)
Answers(p, m) ==
    \E r \in Rqs :
      /\ Pending(r)
      /\ \/ /\ p = searches[r].searcher
            /\ m = NotAvailableMsg(r, searches[r].item, searches[r].maxPrice)
         \/ \E i \in DOMAIN searches[r].offers :
              LET price == searches[r].offers[i].price IN
              \/ /\ p = searches[r].searcher
                 /\ price <= searches[r].maxPrice
                 /\ m = FoundMsg(r, searches[r].item, price)
              \/ m = NegotiateMsg(r, searches[r].item, searches[r].maxPrice)
ServerSends(p, m) == Registers(p, m) \/ Refuses(p, m) \/ Announces(p, m) \/ Answers(p, m)

LEMMA CommandsSent ==
    ASSUME NEW p, NEW m
    PROVE  /\ Registers(p, m) => m.command = "REGISTERED"
           /\ Refuses(p, m) => m.command = "REGISTER-DENIED"
           /\ Announces(p, m) => m.command = "SEARCH"
           /\ Answers(p, m) => m.command \in {"NOT_AVAILABLE", "FOUND", "NEGOTIATE"}
  <1>1. Registers(p, m) => m.command = "REGISTERED"
    BY DEF Registers, RegisteredMsg
  <1>2. Refuses(p, m) => m.command = "REGISTER-DENIED"
    BY DEF Refuses, DeniedMsg
  <1>3. Announces(p, m) => m.command = "SEARCH"
    BY DEF Announces, SearchMsg
  <1>4. Answers(p, m) => m.command \in {"NOT_AVAILABLE", "FOUND", "NEGOTIATE"}
    BY DEF Answers, NotAvailableMsg, FoundMsg, NegotiateMsg
  <1> QED
    BY <1>1, <1>2, <1>3, <1>4

\* What is on its way to the peers after one more datagram, or one less.
LEMMA ReplyAdds ==
    ASSUME NetTypeOK, NEW p, NEW m, Reply(p, m)
    PROVE  DOMAIN toPeers' = DOMAIN toPeers \cup {[to |-> p, msg |-> m]}
  <1> DEFINE T == {[to |-> p, msg |-> m]}
  <1>1. toPeers' = toPeers (+) SetToBag(T)
    BY DEF Reply
  <1> HIDE DEF T
  <1>2. DOMAIN toPeers' = DOMAIN toPeers \cup T
    BY <1>1, BagAdd DEF NetTypeOK
  <1> QED
    BY <1>2 DEF T

LEMMA DeliverRemoves ==
    ASSUME NetTypeOK, NEW c, Deliver(c)
    PROVE  DOMAIN toPeers' \subseteq DOMAIN toPeers
  <1> DEFINE T == {c}
  <1>1. toPeers' = toPeers (-) SetToBag(T)
    BY DEF Deliver
  <1> HIDE DEF T
  <1> QED
    BY <1>1, BagRemove DEF NetTypeOK

\* A datagram newly on its way to a peer is one of these.
LEMMA NewToPeers ==
    ASSUME TypeOK, [Next]_vars, NEW d \in DOMAIN toPeers', d \notin DOMAIN toPeers
    PROVE  d.to \in Peers /\ ServerSends(d.to, d.msg)
  <1>n. NetTypeOK /\ SearchesTypeOK /\ TimersTypeOK /\ JobsTypeOK
    BY DEF TypeOK, ServerTypeOK
  <1>s. ASSUME NEW p \in Peers, NEW m, Reply(p, m), ServerSends(p, m)
        PROVE  d.to \in Peers /\ ServerSends(d.to, d.msg)
    <2>1. DOMAIN toPeers' = DOMAIN toPeers \cup {[to |-> p, msg |-> m]}
      BY <1>n, <1>s, ReplyAdds
    <2>2. d = [to |-> p, msg |-> m]
      BY <2>1
    <2> QED
      BY <1>s, <2>2
  <1>1. ASSUME NEW w \in Workers, NEW c \in DOMAIN toServer, Handle(w, c)
        PROVE  d.to \in Peers /\ ServerSends(d.to, d.msg)
    <2>1. c.from \in Peers /\ c.msg.rq \in Rqs
      BY <1>n, ClientMessageFields DEF NetTypeOK, Datagram
    <2>2. CASE HandleRegister(w, c)
      <3>1. CASE sessions[c.from] # "absent" /\ Reply(c.from, DeniedMsg(c.msg.rq))
        BY <1>s, <2>1, <3>1 DEF ServerSends, Refuses
      <3>2. CASE sessions' = WithSession(c.from) /\ Reply(c.from, RegisteredMsg(c.msg.rq))
        <4>1. sessions'[c.from] = "UNREGISTERED"
          BY <2>1, <3>2 DEF WithSession, TypeOK, ServerTypeOK
        <4> QED
          BY <1>s, <2>1, <3>2, <4>1 DEF ServerSends, Registers
      <3> QED
        BY <2>2, <3>1, <3>2 DEF HandleRegister
    <2>3. CASE HandleDeregister(w, c) \/ HandleUnknown(w, c) \/ StartSearch(w, c) \/ HandleOffer(w, c)
      BY <2>3 DEF HandleDeregister, HandleUnknown, StartSearch, HandleOffer
    <2> QED
      BY <1>1, <2>2, <2>3 DEF Handle
  <1>2. ASSUME NEW w \in Workers, BroadcastSearch(w)
        PROVE  d.to \in Peers /\ ServerSends(d.to, d.msg)
    <2> DEFINE m == SearchMsg(jobs[w].msg.rq, jobs[w].msg.item_name)
               T == {[to |-> p, msg |-> m] : p \in Audience(jobs[w].from)}
    <2>1. toPeers' = toPeers (+) SetToBag(T)
      BY <1>2 DEF BroadcastSearch
    <2>2. DOMAIN toPeers' = DOMAIN toPeers \cup T
      <3> HIDE DEF T
      <3> QED
        BY <1>n, <2>1, BagAdd DEF NetTypeOK
    <2>3. PICK p \in Audience(jobs[w].from) : d = [to |-> p, msg |-> m]
      BY <2>2
    <2>4. p \in Peers /\ w \in DOMAIN jobs /\ jobs[w].at = "broadcast"
      BY <1>2 DEF Audience, BroadcastSearch
    <2> QED
      BY <2>3, <2>4 DEF ServerSends, Announces
  <1>3. ASSUME NEW t \in TimerThreads, TimerFires(t)
        PROVE  d.to \in Peers /\ ServerSends(d.to, d.msg)
    <2> DEFINE r == timers[t].rq
               s == searches[r]
    <2>1. Pending(r) /\ ResolveSearch(r)
      BY <1>3 DEF TimerFires
    <2>2. s \in SearchRequest /\ r \in Rqs
      BY <1>n, <2>1 DEF Pending, SearchesTypeOK
    <2>3. s.searcher \in Peers /\ s.offers \in Seq(Offer)
      BY <2>2 DEF SearchRequest
    <2>4. CASE Reply(s.searcher, NotAvailableMsg(r, s.item, s.maxPrice))
      BY <1>s, <2>1, <2>2, <2>3, <2>4 DEF ServerSends, Answers
    <2>5. ASSUME NEW i \in DOMAIN s.offers, AnswerBest(r, s, s.offers[i])
          PROVE  d.to \in Peers /\ ServerSends(d.to, d.msg)
      <3>1. s.offers[i].seller \in Peers
        <4>1. s.offers[i] \in Offer
          BY <2>3
        <4> QED
          BY <4>1 DEF Offer
      <3>2. CASE s.offers[i].price <= s.maxPrice /\ Reply(s.searcher, FoundMsg(r, s.item, s.offers[i].price))
        BY <1>s, <2>1, <2>2, <2>3, <3>2 DEF ServerSends, Answers
      <3>3. CASE Reply(s.offers[i].seller, NegotiateMsg(r, s.item, s.maxPrice))
        BY <1>s, <2>1, <2>2, <3>1, <3>3 DEF ServerSends, Answers
      <3> QED
        BY <2>5, <3>2, <3>3 DEF AnswerBest
    <2> QED
      BY <2>1, <2>4, <2>5 DEF ResolveSearch
  <1>4. CASE ServerNext
    <2>1. \A w \in Workers : StoreSearch(w) \/ PushEvent(w) => toPeers' = toPeers
      BY DEF StoreSearch, PushEvent, netVars
    <2>2. ProcessEvent \/ Tick => toPeers' = toPeers
      BY DEF ProcessEvent, Tick, netVars
    <2> QED
      BY <1>1, <1>2, <1>3, <1>4, <2>1, <2>2 DEF ServerNext, WorkerSteps
  <1>5. CASE PeersNext
    BY <1>5, <1>n, DeliverRemoves DEF PeersNext, PeerRegisters, PeerDeregisters, PeerFails,
       PeerSearches, PeerTrades, PeerOffers, Does
  <1>6. CASE NetworkNext
    BY <1>6, <1>n, DeliverRemoves DEF NetworkNext, LoseToServer, LoseToPeer
  <1>7. CASE FaultsNext
    <2>1. ASSUME NEW c \in DOMAIN toPeers, DuplicateToPeer(c)
          PROVE  DOMAIN toPeers' = DOMAIN toPeers
      <3> DEFINE T == {c}
      <3>1. toPeers' = toPeers (+) SetToBag(T) /\ T \subseteq DOMAIN toPeers
        BY <2>1 DEF DuplicateToPeer
      <3> HIDE DEF T
      <3> QED
        BY <1>n, <3>1, BagAdd DEF NetTypeOK
    <2> QED
      BY <1>7, <2>1 DEF FaultsNext, PeerRestarts, NetworkDuplicates, DuplicateToServer, netVars
  <1>8. CASE UNCHANGED vars
    BY <1>8 DEF vars, netVars
  <1> QED
    BY <1>4, <1>5, <1>6, <1>7, <1>8 DEF Next

-------------------------------------------------------------------------------
(* What a step leaves with the workers and in the server's tables. *)

\* A worker's message is the one it had, or one it took off the network.
LEMMA JobsCome ==
    ASSUME TypeOK, [Next]_vars, NEW v \in DOMAIN jobs'
    PROVE  \/ \E c \in DOMAIN toServer :
                /\ jobs'[v].from = c.from /\ jobs'[v].msg = c.msg
                /\ v \in Workers /\ Handle(v, c)
           \/ v \in DOMAIN jobs /\ jobs'[v].from = jobs[v].from /\ jobs'[v].msg = jobs[v].msg
  <1>n. \A w \in DOMAIN jobs : jobs[w] \in Job
    BY DEF TypeOK, ServerTypeOK, JobsTypeOK
  <1>1. ASSUME NEW w \in Workers, NEW c \in DOMAIN toServer, Handle(w, c)
        PROVE  \/ v = w /\ jobs'[v].from = c.from /\ jobs'[v].msg = c.msg
               \/ v \in DOMAIN jobs /\ jobs'[v] = jobs[v]
    <2>1. \/ jobs' = jobs
          \/ jobs' = Put(jobs, w, JobAt("push", c))
          \/ jobs' = Put(jobs, w, JobAt("store", c))
      BY <1>1 DEF Handle, HandleRegister, HandleDeregister, HandleUnknown, StartSearch, HandleOffer,
         AfterHandler
    <2> QED
      BY <2>1 DEF Put, JobAt
  <1>2. ASSUME NEW w \in Workers, WorkerSteps(w)
        PROVE  v \in DOMAIN jobs /\ jobs'[v].from = jobs[v].from /\ jobs'[v].msg = jobs[v].msg
    <2>1. CASE StoreSearch(w)
      BY <2>1 DEF StoreSearch, JobAt
    <2>2. CASE BroadcastSearch(w)
      BY <1>n, <2>2 DEF BroadcastSearch, Job
    <2>3. CASE PushEvent(w)
      BY <2>3 DEF PushEvent, Restrict
    <2> QED
      BY <1>2, <2>1, <2>2, <2>3 DEF WorkerSteps
  <1>3. CASE Tick
    BY <1>n, <1>3 DEF Tick, Job
  <1>4. CASE ServerNext
    <2>1. (\E t \in TimerThreads : TimerFires(t)) \/ ProcessEvent => jobs' = jobs
      BY DEF TimerFires, ProcessEvent
    <2> QED
      BY <1>1, <1>2, <1>3, <1>4, <2>1 DEF ServerNext
  <1>5. CASE PeersNext \/ FaultsNext \/ UNCHANGED serverVars
    BY <1>5 DEF PeersNext, PeerRegisters, PeerDeregisters, PeerFails, PeerSearches, PeerTrades,
       PeerOffers, Does, FaultsNext, serverVars
  <1> QED
    BY <1>4, <1>5 DEF Next, vars

\* An event was in the queue, or a worker pushes it.
LEMMA EventsCome ==
    ASSUME TypeOK, [Next]_vars, NEW i \in DOMAIN eventQueue'
    PROVE  \/ \E j \in DOMAIN eventQueue : eventQueue'[i].from = eventQueue[j].from
           \/ \E w \in DOMAIN jobs : eventQueue'[i].from = jobs[w].from
  <1>n. eventQueue \in Seq(Event)
    BY DEF TypeOK, ServerTypeOK
  <1>1. ASSUME NEW w \in Workers, PushEvent(w)
        PROVE  \/ \E j \in DOMAIN eventQueue : eventQueue'[i].from = eventQueue[j].from
               \/ \E v \in DOMAIN jobs : eventQueue'[i].from = jobs[v].from
    BY <1>n, <1>1 DEF PushEvent
  <1>2. CASE ProcessEvent
    <2>1. eventQueue # <<>> /\ eventQueue' = Tail(eventQueue)
      BY <1>2 DEF ProcessEvent
    <2>2. i + 1 \in DOMAIN eventQueue /\ eventQueue'[i] = eventQueue[i + 1]
      BY <1>n, <2>1
    <2> QED
      BY <2>2
  <1>3. CASE ServerNext
    <2>1. \/ eventQueue' = eventQueue
          \/ ProcessEvent
          \/ \E w \in Workers : PushEvent(w)
      BY <1>3 DEF ServerNext, Handle, HandleRegister, HandleDeregister, HandleUnknown, StartSearch,
         HandleOffer, WorkerSteps, StoreSearch, BroadcastSearch, TimerFires, Tick
    <2> QED
      BY <1>1, <1>2, <2>1
  <1>4. CASE PeersNext \/ FaultsNext \/ UNCHANGED serverVars
    BY <1>4 DEF PeersNext, PeerRegisters, PeerDeregisters, PeerFails, PeerSearches, PeerTrades,
       PeerOffers, Does, FaultsNext, serverVars
  <1> QED
    BY <1>3, <1>4 DEF Next, vars

\* A session changes by its peer's REGISTER, DE_REGISTER or event.
LEMMA SessionsCome ==
    ASSUME TypeOK, [Next]_vars, NEW p \in Peers
    PROVE  \/ sessions'[p] = sessions[p]
           \/ sessions[p] = "absent" /\ sessions'[p] = "UNREGISTERED"
           \/ \E c \in DOMAIN toServer : c.from = p /\ c.msg.command = "DE_REGISTER"
           \/ /\ \E j \in DOMAIN eventQueue : eventQueue[j].from = p
              /\ IF Live(p) THEN Live(p)' ELSE sessions'[p] = "null"
  <1>n. sessions \in [Peers -> SessionValues] /\ eventQueue \in Seq(Event)
    BY DEF TypeOK, ServerTypeOK
  <1>1. ASSUME NEW w \in Workers, NEW c \in DOMAIN toServer, Handle(w, c)
        PROVE  \/ sessions'[p] = sessions[p]
               \/ sessions[p] = "absent" /\ sessions'[p] = "UNREGISTERED"
               \/ c.from = p /\ c.msg.command = "DE_REGISTER"
    <2>1. CASE HandleRegister(w, c)
      BY <1>n, <2>1 DEF HandleRegister, WithSession
    <2>2. CASE HandleDeregister(w, c)
      BY <1>n, <2>2 DEF HandleDeregister, Takes
    <2>3. CASE HandleUnknown(w, c) \/ StartSearch(w, c) \/ HandleOffer(w, c)
      BY <2>3 DEF HandleUnknown, StartSearch, HandleOffer
    <2> QED
      BY <1>1, <2>1, <2>2, <2>3 DEF Handle
  <1>2. CASE ProcessEvent
    <2> DEFINE e == Head(eventQueue)
    <2>1. e = eventQueue[1] /\ 1 \in DOMAIN eventQueue
      BY <1>n, <1>2 DEF ProcessEvent
    <2>2. CASE e.from # p
      BY <1>n, <1>2, <2>2 DEF ProcessEvent
    <2>3. CASE e.from = p /\ Live(p)
      <3>1. sessions'[p] = NextState(PeerTransitions, sessions[p], e.type)
        BY <1>n, <1>2, <2>3 DEF ProcessEvent
      <3>2. sessions'[p] \notin {"absent", "null"}
        BY <3>1, <2>3 DEF NextState, PeerTransitions, Live
      <3> QED
        BY <2>1, <2>3, <3>2 DEF Live
    <2>4. CASE e.from = p /\ ~Live(p)
      BY <1>n, <1>2, <2>1, <2>4 DEF ProcessEvent
    <2> QED
      BY <2>2, <2>3, <2>4
  <1>3. CASE ServerNext
    <2>1. \/ sessions' = sessions
          \/ ProcessEvent
          \/ \E w \in Workers, c \in DOMAIN toServer : Handle(w, c)
      BY <1>3 DEF ServerNext, WorkerSteps, StoreSearch, BroadcastSearch, PushEvent, TimerFires, Tick
    <2> QED
      BY <1>1, <1>2, <2>1
  <1>4. CASE PeersNext \/ FaultsNext \/ UNCHANGED serverVars
    BY <1>4 DEF PeersNext, PeerRegisters, PeerDeregisters, PeerFails, PeerSearches, PeerTrades,
       PeerOffers, Does, FaultsNext, serverVars
  <1> QED
    BY <1>3, <1>4 DEF Next, vars

-------------------------------------------------------------------------------
(***************************************************************************)
(* Who has a session.  A peer that never leaves has no DE_REGISTER on the  *)
(* way, so nothing drops its session: told it is registered, it has one    *)
(* (RegisteredInv).  If besides it only registers and sells, whatever it   *)
(* sends but a REGISTER it sends because of a SEARCH, and a SEARCH goes to *)
(* peers that have a session: until it has one, nothing of it is on the    *)
(* way to the event thread (StayerInv).                                    *)
(***************************************************************************)
NeverLeaves(p) == "deregister" \notin Roles[p]
RegisteredInv ==
    \A p \in Peers : NeverLeaves(p) =>
      /\ \A d \in DOMAIN toServer : d.from = p => d.msg.command # "DE_REGISTER"
      /\ ToldRegistered(p) => Live(p)

Unheard(p) ==
    /\ \A d \in DOMAIN toServer : d.from = p => d.msg.command = "REGISTER"
    /\ \A d \in DOMAIN toPeers : d.to = p => d.msg.command # "SEARCH"
    /\ \A w \in DOMAIN jobs : jobs[w].from # p
    /\ \A i \in DOMAIN eventQueue : eventQueue[i].from # p
StayerInv ==
    \A p \in Peers : Stayer(p) => /\ sessions[p] # "null"
                                  /\ ~Live(p) => Unheard(p)

\* Only a peer that leaves sends a DE_REGISTER.
LEMMA NoneLeaves ==
    ASSUME NEW p, NEW m, PeerSends(p, m), NeverLeaves(p)
    PROVE  m.command # "DE_REGISTER"
  BY DEF PeerSends, NeverLeaves, RegisterMsg, LookingForMsg, TradeMsg, OfferMsg, TradeCommands

LEMMA SessionStays ==
    ASSUME TypeOK, RegisteredInv, [Next]_vars, NEW p \in Peers, NeverLeaves(p), Live(p)
    PROVE  Live(p)'
  BY SessionsCome DEF RegisteredInv, Live

LEMMA RegisteredStep ==
    ASSUME TypeOK, RegisteredInv, [Next]_vars
    PROVE  RegisteredInv'
  <1> SUFFICES ASSUME NEW p \in Peers, NeverLeaves(p)
               PROVE  /\ \A d \in DOMAIN toServer' : d.from = p => d.msg.command # "DE_REGISTER"
                      /\ ToldRegistered(p)' => Live(p)'
    BY DEF RegisteredInv, NeverLeaves
  <1>1. ASSUME NEW d \in DOMAIN toServer', d.from = p
        PROVE  d.msg.command # "DE_REGISTER"
    BY <1>1, NewToServer, NoneLeaves DEF RegisteredInv
  <1>2. ASSUME NEW d \in DOMAIN toPeers', d.to = p, d.msg.command = "REGISTERED"
        PROVE  Live(p)'
    <2>1. CASE d \in DOMAIN toPeers
      BY <1>2, <2>1, SessionStays DEF RegisteredInv, ToldRegistered
    <2>2. CASE d \notin DOMAIN toPeers
      <3>1. ServerSends(p, d.msg)
        BY <1>2, <2>2, NewToPeers
      <3>2. Registers(p, d.msg)
        BY <1>2, <3>1, CommandsSent DEF ServerSends
      <3> QED
        BY <3>2 DEF Registers, Live
    <2> QED
      BY <2>1, <2>2
  <1> QED
    BY <1>1, <1>2 DEF ToldRegistered

(***************************************************************************)
(* Whatever is lost, duplicated or overtaken, however often peers restart  *)
(* and whatever null entries their events leave behind: a peer that is     *)
(* told it is registered, and never leaves, has a session                  *)
(* (handleRegister stores it before it answers; only handleDeregister      *)
(* drops one).                                                             *)
(***************************************************************************)
THEOREM RegisteredHaveSessions == Spec => []RegisteredHasSession
  <1>1. Init => RegisteredInv
    BY DEF Init, NetInit, RegisteredInv, ToldRegistered, EmptyBag, SetToBag
  <1>2. TypeOK /\ RegisteredInv /\ [Next]_vars => RegisteredInv'
    BY RegisteredStep
  <1>3. RegisteredInv => RegisteredHasSession
    BY DEF RegisteredInv, RegisteredHasSession, NeverLeaves
  <1> QED
    BY <1>1, <1>2, <1>3, TypeCorrect, PTL DEF Spec

LEMMA StayersSend ==
    ASSUME NEW p, NEW m, PeerSends(p, m), Stayer(p)
    PROVE  \/ m.command = "REGISTER"
           \/ \E c \in DOMAIN toPeers : c.to = p /\ c.msg.command = "SEARCH"
  BY DEF PeerSends, Stayer, RegisterMsg

LEMMA StayerStep ==
    ASSUME TypeOK, RegisteredInv, StayerInv, [Next]_vars
    PROVE  StayerInv'
  <1> SUFFICES ASSUME NEW p \in Peers, Stayer(p)
               PROVE  sessions'[p] # "null" /\ (~Live(p)' => Unheard(p)')
    BY DEF StayerInv, Stayer
  <1>1. NeverLeaves(p) /\ sessions[p] # "null" /\ (~Live(p) => Unheard(p))
    BY DEF StayerInv, Stayer, NeverLeaves
  <1>2. CASE Live(p)
    <2>1. Live(p)'
      BY <1>1, <1>2, SessionStays
    <2> QED
      BY <2>1 DEF Live
  <1>3. CASE ~Live(p)
    <2>1. Unheard(p) /\ sessions[p] = "absent"
      BY <1>1, <1>3 DEF Live
    <2>2. sessions'[p] # "null"
      BY <2>1, SessionsCome DEF Unheard
    <2>3. ASSUME NEW d \in DOMAIN toServer', d.from = p
          PROVE  d.msg.command = "REGISTER"
      BY <2>1, <2>3, NewToServer, StayersSend DEF Unheard
    <2>4. ASSUME NEW d \in DOMAIN toPeers', d.to = p
          PROVE  d.msg.command # "SEARCH"
      <3>1. CASE d \in DOMAIN toPeers
        BY <2>1, <2>4, <3>1 DEF Unheard
      <3>2. CASE ServerSends(p, d.msg)
        <4>1. ~Announces(p, d.msg)
          BY <1>3 DEF Announces, Audience
        <4> QED
          BY <3>2, <4>1, CommandsSent DEF ServerSends
      <3> QED
        BY <2>4, <3>1, <3>2, NewToPeers
    <2>5. ASSUME ~Live(p)', NEW v \in DOMAIN jobs', jobs'[v].from = p
          PROVE  FALSE
      <3>1. PICK c \in DOMAIN toServer : c.from = p /\ v \in Workers /\ Handle(v, c)
        BY <2>1, <2>5, JobsCome DEF Unheard
      <3>2. HandleRegister(v, c)
        BY <2>1, <3>1 DEF Unheard, Handle, HandleDeregister, HandleUnknown, StartSearch, HandleOffer,
           Takes, TradeCommands
      <3>3. sessions' = WithSession(p)
        BY <2>1, <3>1, <3>2 DEF HandleRegister
      <3> QED
        BY <2>5, <3>3 DEF WithSession, Live, TypeOK, ServerTypeOK
    <2>6. ASSUME NEW i \in DOMAIN eventQueue' PROVE eventQueue'[i].from # p
      BY <2>1, <2>6, EventsCome DEF Unheard
    <2> QED
      BY <2>2, <2>3, <2>4, <2>5, <2>6 DEF Unheard
  <1> QED
    BY <1>2, <1>3

(***************************************************************************)
(* A peer that only registers and sells never gets a null session, under   *)
(* the same conditions, whatever the other peers do and however the        *)
(* workers and the event thread are interleaved (processEvents, which      *)
(* inserts one for a sender it cannot find).                               *)
(***************************************************************************)
THEOREM StayersAreNoZombies == Spec => []NoZombieStayer
  <1>1. Init => RegisteredInv /\ StayerInv
    <2> SUFFICES ASSUME Init PROVE RegisteredInv /\ StayerInv
      OBVIOUS
    <2>1. /\ DOMAIN toServer = {} /\ DOMAIN toPeers = {} /\ DOMAIN jobs = {}
          /\ DOMAIN eventQueue = {} /\ \A p \in Peers : sessions[p] = "absent"
      BY DEF Init, NetInit, ServerInit, EmptyBag, SetToBag
    <2> QED
      BY <2>1 DEF RegisteredInv, ToldRegistered, StayerInv, Unheard
  <1>2. TypeOK /\ RegisteredInv /\ StayerInv /\ [Next]_vars => RegisteredInv' /\ StayerInv'
    BY RegisteredStep, StayerStep
  <1>3. StayerInv => NoZombieStayer
    BY DEF StayerInv, NoZombieStayer
  <1> QED
    BY <1>1, <1>2, <1>3, TypeCorrect, PTL DEF Spec

(***************************************************************************)
(* Only peers that have a session are told they are registered already, as *)
(* far as peers that register and sell are concerned.  For others it is    *)
(* false: the run server_denied shows one that has left.                   *)
(***************************************************************************)
THEOREM StayersAreDeniedRightly ==
    Spec => [][\A p \in Peers : Stayer(p) /\ Denies(p) => Live(p)]_vars
  <1>1. TypeOK /\ NoZombieStayer /\ [Next]_vars
          => [\A p \in Peers : Stayer(p) /\ Denies(p) => Live(p)]_vars
    <2> SUFFICES ASSUME TypeOK, NoZombieStayer, [Next]_vars,
                        NEW p \in Peers, Stayer(p), Denies(p)
                 PROVE  Live(p)
      OBVIOUS
    <2>1. PICK d \in DOMAIN toPeers' \ DOMAIN toPeers :
            d.to = p /\ d.msg.command = "REGISTER-DENIED"
      BY DEF Denies
    <2>2. ServerSends(p, d.msg)
      BY <2>1, NewToPeers
    <2>3. Refuses(p, d.msg)
      BY <2>1, <2>2, CommandsSent DEF ServerSends
    <2> QED
      BY <2>3 DEF Refuses, Live, NoZombieStayer
  <1> QED
    BY <1>1, TypeCorrect, StayersAreNoZombies, PTL DEF Spec

-------------------------------------------------------------------------------
(* Searches. *)

\* The search of r was made by w's LOOKING_FOR, or it is the old one, with at
\* most an OFFER for r more.
StoredBy(w, r) ==
    /\ jobs[w].at = "store"
    /\ r = jobs[w].msg.rq
    /\ searches'[r] = NewSearch(w)
OfferedBy(c, r, o) ==
    /\ c.msg.command = "OFFER" /\ c.msg.rq = r
    /\ o = [seller |-> c.from, price |-> c.msg.price]
SameSearch(s, t) ==
    /\ s.searcher = t.searcher /\ s.item = t.item /\ s.maxPrice = t.maxPrice
    /\ s.processed => t.processed
LEMMA SearchesCome ==
    ASSUME TypeOK, [Next]_vars, NEW r \in DOMAIN searches'
    PROVE  \/ \E w \in DOMAIN jobs : StoredBy(w, r)
           \/ /\ r \in DOMAIN searches
              /\ SameSearch(searches[r], searches'[r])
              /\ \A i \in DOMAIN searches'[r].offers :
                   \/ /\ i \in DOMAIN searches[r].offers
                      /\ searches'[r].offers[i] = searches[r].offers[i]
                   \/ \E c \in DOMAIN toServer : OfferedBy(c, r, searches'[r].offers[i])
  <1> DEFINE Kept ==
        /\ r \in DOMAIN searches
        /\ SameSearch(searches[r], searches'[r])
        /\ \A i \in DOMAIN searches'[r].offers :
             \/ /\ i \in DOMAIN searches[r].offers
                /\ searches'[r].offers[i] = searches[r].offers[i]
             \/ \E c \in DOMAIN toServer : OfferedBy(c, r, searches'[r].offers[i])
  <1>n. \A q \in DOMAIN searches : searches[q] \in SearchRequest
    BY DEF TypeOK, ServerTypeOK, SearchesTypeOK
  <1>0. ASSUME r \in DOMAIN searches,
               \/ searches'[r] = searches[r]
               \/ searches'[r] = [searches[r] EXCEPT !.processed = TRUE]
               \/ \E a : searches'[r] = [searches[r] EXCEPT !.age = a]
        PROVE  Kept
    BY <1>0, <1>n DEF SameSearch, SearchRequest
  <1>1. ASSUME NEW w \in Workers, NEW c \in DOMAIN toServer, HandleOffer(w, c)
        PROVE  Kept
    <2>1. CASE r = c.msg.rq /\ Collecting(r)
      <3> DEFINE s == searches[r]
                 o == [seller |-> c.from, price |-> c.msg.price]
      <3>1. s \in SearchRequest /\ s.offers \in Seq(Offer)
        BY <1>n, <2>1 DEF Collecting, Pending, SearchRequest
      <3>2. searches'[r] = [s EXCEPT !.offers = Append(s.offers, o)] /\ r \in DOMAIN searches
        BY <1>1, <2>1 DEF HandleOffer, WithOffer, Collecting, Pending
      <3>3. searches'[r].offers = Append(s.offers, o) /\ SameSearch(s, searches'[r])
        BY <3>1, <3>2 DEF SearchRequest, SameSearch
      <3>4. OfferedBy(c, r, o)
        BY <1>1, <2>1 DEF OfferedBy, HandleOffer, Takes
      <3>5. ASSUME NEW i \in DOMAIN searches'[r].offers
            PROVE  \/ i \in DOMAIN s.offers /\ searches'[r].offers[i] = s.offers[i]
                   \/ searches'[r].offers[i] = o
        <4> HIDE DEF o, s
        <4> QED
          BY <3>1, <3>3, <3>5
      <3> QED
        BY <3>2, <3>3, <3>4, <3>5
    <2>2. CASE ~(r = c.msg.rq /\ Collecting(r))
      <3>1. r \in DOMAIN searches /\ searches'[r] = searches[r]
        BY <1>1, <2>2 DEF HandleOffer, WithOffer
      <3> QED
        BY <1>0, <3>1
    <2> QED
      BY <2>1, <2>2
  <1>2. ASSUME NEW w \in Workers, StoreSearch(w)
        PROVE  (StoredBy(w, r) /\ w \in DOMAIN jobs) \/ Kept
    <2>1. CASE r = jobs[w].msg.rq
      BY <1>2, <2>1 DEF StoreSearch, Put, StoredBy
    <2>2. CASE r # jobs[w].msg.rq
      <3>1. r \in DOMAIN searches /\ searches'[r] = searches[r]
        BY <1>2, <2>2 DEF StoreSearch, Put
      <3> QED
        BY <1>0, <3>1
    <2> QED
      BY <2>1, <2>2
  <1>3. ASSUME NEW t \in TimerThreads, TimerFires(t)
        PROVE  Kept
    <2> DEFINE q == timers[t].rq
    <2>1. \/ searches' = searches
          \/ searches' = WithoutSearch(q)
          \/ searches' = Processed(q)
      BY <1>3 DEF TimerFires, ResolveSearch
    <2>2. r \in DOMAIN searches /\ (searches'[r] = searches[r]
                                     \/ searches'[r] = [searches[r] EXCEPT !.processed = TRUE])
      BY <2>1 DEF WithoutSearch, Processed, Restrict
    <2> QED
      BY <1>0, <2>2
  <1>4. CASE Tick
    <2>1. r \in DOMAIN searches /\ \E a : searches'[r] = [searches[r] EXCEPT !.age = a]
      BY <1>4 DEF Tick
    <2> QED
      BY <1>0, <2>1
  <1>5. CASE searches' = searches
    BY <1>0, <1>5
  <1>6. CASE ServerNext
    <2>1. \/ searches' = searches
          \/ Tick
          \/ \E w \in Workers : StoreSearch(w) \/ \E c \in DOMAIN toServer : HandleOffer(w, c)
          \/ \E t \in TimerThreads : TimerFires(t)
      BY <1>6 DEF ServerNext, Handle, HandleRegister, HandleDeregister, HandleUnknown, StartSearch,
         WorkerSteps, BroadcastSearch, PushEvent, ProcessEvent
    <2> QED
      BY <1>1, <1>2, <1>3, <1>4, <1>5, <2>1
  <1>7. CASE PeersNext \/ FaultsNext \/ UNCHANGED serverVars
    BY <1>5, <1>7 DEF PeersNext, PeerRegisters, PeerDeregisters, PeerFails, PeerSearches, PeerTrades,
       PeerOffers, Does, FaultsNext, serverVars
  <1> QED
    BY <1>6, <1>7 DEF Next, vars
===============================================================================

----------------------------- MODULE ServerTypeProofs ---------------------------
(***************************************************************************)
(* OpenServer is type correct, for any peers, roles, items, prices and     *)
(* threads, and any number of ticks in the minute.                         *)
(***************************************************************************)
EXTENDS OpenServer, TLAPS

-------------------------------------------------------------------------------
(* What some theorems assume of the users: only one peer searches; no peer  *)
(* that searches is started again.                                          *)
SingleSearcher ==
    \A p, q \in Peers : "search" \in Roles[p] /\ "search" \in Roles[q] => p = q
SearchersStay == \A p \in Peers : ~({"search", "restart"} \subseteq Roles[p])

-------------------------------------------------------------------------------
(* Bags and tables. *)

\* Sending a set of datagrams keeps the network a bag, of the old and new ones.
LEMMA BagAdd ==
    ASSUME NEW B, IsABag(B), NEW T
    PROVE  /\ IsABag(B (+) SetToBag(T))
           /\ DOMAIN (B (+) SetToBag(T)) = DOMAIN B \cup T
  BY DEF IsABag, (+), SetToBag, BagIn

\* Taking a datagram off the network keeps it a bag and brings in nothing new.
LEMMA BagRemove ==
    ASSUME NEW B, IsABag(B), NEW T
    PROVE  /\ IsABag(B (-) SetToBag(T))
           /\ DOMAIN (B (-) SetToBag(T)) \subseteq DOMAIN B
  BY DEF IsABag, (-), SetToBag, BagIn

\* A table stays a table of its type when one entry is put in it.
LEMMA PutType ==
    ASSUME NEW f, NEW K, NEW S, NEW k \in K, NEW v \in S,
           f \in [DOMAIN f -> S], DOMAIN f \subseteq K
    PROVE  /\ Put(f, k, v) \in [DOMAIN Put(f, k, v) -> S]
           /\ DOMAIN Put(f, k, v) \subseteq K
  BY DEF Put

\* ... and when entries are dropped from it.
LEMMA RestrictType ==
    ASSUME NEW f, NEW K, NEW S, NEW D, D \subseteq DOMAIN f,
           f \in [DOMAIN f -> S], DOMAIN f \subseteq K
    PROVE  /\ Restrict(f, D) \in [DOMAIN Restrict(f, D) -> S]
           /\ DOMAIN Restrict(f, D) = D
           /\ D \subseteq K
           /\ \A x \in D : Restrict(f, D)[x] = f[x]
  BY DEF Restrict

-------------------------------------------------------------------------------
(* Messages. *)

\* What the clients build are client messages.
LEMMA ClientMessageType ==
    /\ \A p \in Peers, r \in Rqs :
         RegisterMsg(p, r) \in ClientMessages /\ DeregisterMsg(p, r) \in ClientMessages
    /\ \A p \in Peers, r \in Rqs, i \in Items, x \in Prices :
         /\ LookingForMsg(p, r, i, x) \in ClientMessages
         /\ OfferMsg(p, r, i, x) \in ClientMessages
         /\ \A cmd \in TradeCommands : TradeMsg(cmd, p, r, i, x) \in ClientMessages
  BY DEF ClientMessages, RegisterMsg, DeregisterMsg, LookingForMsg, OfferMsg, TradeMsg

\* What the server builds are server messages.
LEMMA ServerMessageType ==
    \A r \in Rqs :
      /\ RegisteredMsg(r) \in ServerMessages
      /\ DeniedMsg(r) \in ServerMessages
      /\ \A i \in Items :
           /\ SearchMsg(r, i) \in ServerMessages
           /\ \A x \in Prices : /\ NotAvailableMsg(r, i, x) \in ServerMessages
                                /\ FoundMsg(r, i, x) \in ServerMessages
                                /\ NegotiateMsg(r, i, x) \in ServerMessages
  BY DEF ServerMessages, RegisteredMsg, DeniedMsg, SearchMsg, NotAvailableMsg,
         FoundMsg, NegotiateMsg

\* The fields the server reads are there and have their types.
LEMMA ClientMessageFields ==
    ASSUME NEW m \in ClientMessages
    PROVE  /\ m.rq \in Rqs
           /\ m.command = "LOOKING_FOR" => /\ m.item_name \in Items
                                           /\ m.max_price \in Prices
           /\ m.command = "OFFER" => m.price \in Prices
  BY DEF ClientMessages, TradeCommands

\* The same for what the server sends: the request number of a SEARCH.
LEMMA SearchFields ==
    ASSUME NEW m \in ServerMessages, m.command = "SEARCH"
    PROVE  m.rq \in Rqs /\ m.item_name \in Items
  BY DEF ServerMessages

LEMMA NegotiateFields ==
    ASSUME NEW m \in ServerMessages, m.command = "NEGOTIATE"
    PROVE  m.rq \in Rqs /\ m.item_name \in Items
  BY DEF ServerMessages

-------------------------------------------------------------------------------
WellTyped == NetTypeOK /\ ServerTypeOK

(* Type correctness, one lemma per kind of state change. *)

LEMMA ReceiveBag ==
    ASSUME NetTypeOK, NEW d, Receive(d)
    PROVE  IsABag(toServer') /\ DOMAIN toServer' \subseteq DOMAIN toServer
                             /\ DOMAIN toServer' \subseteq Datagram
  <1> DEFINE T == {d}
  <1>1. toServer' = toServer (-) SetToBag(T)
    BY DEF Receive
  <1> HIDE DEF T
  <1> QED
    BY <1>1, BagRemove DEF NetTypeOK

LEMMA ReplyType ==
    ASSUME NetTypeOK, NEW p \in Peers, NEW m \in ServerMessages, Reply(p, m),
           toServer' = toServer \/ \E d : Receive(d)
    PROVE  NetTypeOK'
  <1>1. IsABag(toPeers') /\ DOMAIN toPeers' \subseteq [to : Peers, msg : ServerMessages]
    <2> DEFINE T == {[to |-> p, msg |-> m]}
    <2>1. toPeers' = toPeers (+) SetToBag(T) /\ T \subseteq [to : Peers, msg : ServerMessages]
      BY DEF Reply
    <2>2. IsABag(toPeers') /\ DOMAIN toPeers' = DOMAIN toPeers \cup T
      <3> HIDE DEF T
      <3> QED
        BY <2>1, BagAdd DEF NetTypeOK
    <2> QED
      BY <2>1, <2>2 DEF NetTypeOK
  <1>2. IsABag(toServer') /\ DOMAIN toServer' \subseteq Datagram
    <2>1. CASE toServer' = toServer
      BY <2>1 DEF NetTypeOK
    <2>2. ASSUME NEW d, Receive(d)
          PROVE  IsABag(toServer') /\ DOMAIN toServer' \subseteq Datagram
      BY <2>2, ReceiveBag
    <2> QED
      BY <2>1, <2>2
  <1> QED
    BY <1>1, <1>2 DEF NetTypeOK

LEMMA ReceiveType ==
    ASSUME NetTypeOK, NEW d, Receive(d), UNCHANGED toPeers
    PROVE  NetTypeOK'
  BY ReceiveBag DEF NetTypeOK

LEMMA DeliverType ==
    ASSUME NetTypeOK, NEW d, Deliver(d),
           IsABag(toServer'), DOMAIN toServer' \subseteq Datagram
    PROVE  NetTypeOK'
  <1> DEFINE T == {d}
  <1>1. toPeers' = toPeers (-) SetToBag(T)
    BY DEF Deliver
  <1> HIDE DEF T
  <1> QED
    BY <1>1, BagRemove DEF NetTypeOK

\* A worker that ends its handler goes on to push what the parser accepts.
LEMMA AfterHandlerType ==
    ASSUME JobsTypeOK, NEW w \in Workers, NEW d \in Datagram, AfterHandler(w, d)
    PROVE  JobsTypeOK'
  <1>1. CASE Parses(d.msg)
    <2> DEFINE job == JobAt("push", d)
    <2>1. jobs' = Put(jobs, w, job)
      BY <1>1 DEF AfterHandler
    <2>2. job \in Job
      BY WindowAssumption DEF JobAt, Job, Datagram
    <2>3. DOMAIN jobs' \subseteq Workers /\ jobs' \in [DOMAIN jobs' -> Job]
      BY <2>1, <2>2, PutType DEF JobsTypeOK
    <2>4. ASSUME NEW v \in DOMAIN jobs'
          PROVE  IF jobs'[v].at = "push" THEN Parses(jobs'[v].msg)
                                         ELSE jobs'[v].msg.command = "LOOKING_FOR"
      <3> HIDE DEF job
      <3>1. CASE v = w
        <4>1. jobs'[w] = job
          BY <2>1 DEF Put
        <4> QED
          BY <1>1, <3>1, <4>1 DEF job, JobAt
      <3>2. CASE v # w
        <4>1. v \in DOMAIN jobs /\ jobs'[v] = jobs[v]
          BY <2>1, <3>2, <2>4 DEF Put
        <4> QED
          BY <4>1 DEF JobsTypeOK
      <3> QED
        BY <3>1, <3>2
    <2> QED
      BY <2>3, <2>4 DEF JobsTypeOK
  <1>2. CASE ~Parses(d.msg)
    BY <1>2 DEF AfterHandler, JobsTypeOK
  <1> QED
    BY <1>1, <1>2

\* The three handlers that end in the step that takes the datagram.
LEMMA RegisterType ==
    ASSUME WellTyped, NEW w \in Workers, NEW d \in Datagram, HandleRegister(w, d)
    PROVE  WellTyped'
  <1>1. d.from \in Peers /\ d.msg \in ClientMessages /\ d.msg.rq \in Rqs
    BY ClientMessageFields DEF Datagram
  <1>2. NetTypeOK'
    BY <1>1, ReplyType, ServerMessageType DEF HandleRegister, Takes, WellTyped, ServerTypeOK
  <1>3. JobsTypeOK'
    BY AfterHandlerType DEF HandleRegister, WellTyped, ServerTypeOK
  <1>4. sessions' \in [Peers -> SessionValues]
    BY <1>1 DEF HandleRegister, WithSession, WellTyped, ServerTypeOK, SessionValues
  <1> QED
    BY <1>2, <1>3, <1>4 DEF HandleRegister, WellTyped, ServerTypeOK, SearchesTypeOK, TimersTypeOK

LEMMA DeregisterType ==
    ASSUME WellTyped, NEW w \in Workers, NEW d \in Datagram, HandleDeregister(w, d)
    PROVE  WellTyped'
  <1>1. NetTypeOK'
    BY ReceiveType DEF HandleDeregister, Takes, WellTyped, ServerTypeOK
  <1>2. JobsTypeOK'
    BY AfterHandlerType DEF HandleDeregister, WellTyped, ServerTypeOK
  <1>3. sessions' \in [Peers -> SessionValues]
    BY DEF HandleDeregister, WellTyped, ServerTypeOK, SessionValues
  <1> QED
    BY <1>1, <1>2, <1>3 DEF HandleDeregister, WellTyped, ServerTypeOK, SearchesTypeOK, TimersTypeOK

LEMMA UnknownType ==
    ASSUME WellTyped, NEW w \in Workers, NEW d \in Datagram, HandleUnknown(w, d)
    PROVE  WellTyped'
  <1>1. NetTypeOK'
    BY ReceiveType DEF HandleUnknown, Takes, WellTyped, ServerTypeOK
  <1>2. JobsTypeOK'
    BY AfterHandlerType DEF HandleUnknown, WellTyped, ServerTypeOK
  <1> QED
    BY <1>1, <1>2 DEF HandleUnknown, WellTyped, ServerTypeOK, SearchesTypeOK, TimersTypeOK

LEMMA OfferType ==
    ASSUME WellTyped, NEW w \in Workers, NEW d \in Datagram, HandleOffer(w, d)
    PROVE  WellTyped'
  <1>1. /\ d.from \in Peers /\ d.msg \in ClientMessages
        /\ d.msg.rq \in Rqs /\ d.msg.price \in Prices
    BY ClientMessageFields DEF Datagram, HandleOffer, Takes
  <1>2. NetTypeOK'
    BY ReceiveType DEF HandleOffer, Takes, WellTyped, ServerTypeOK
  <1>3. JobsTypeOK'
    BY AfterHandlerType DEF HandleOffer, WellTyped, ServerTypeOK
  <1>4. SearchesTypeOK'
    <2>1. CASE ~Collecting(d.msg.rq)
      BY <2>1 DEF HandleOffer, WellTyped, ServerTypeOK, SearchesTypeOK
    <2>2. CASE Collecting(d.msg.rq)
      <3> DEFINE s == searches[d.msg.rq]
                 o == [seller |-> d.from, price |-> d.msg.price]
      <3>1. d.msg.rq \in DOMAIN searches /\ s \in SearchRequest /\ o \in Offer
        BY <1>1, <2>2 DEF Collecting, Pending, WellTyped, ServerTypeOK, SearchesTypeOK, Offer
      <3>2. Append(s.offers, o) \in Seq(Offer)
        BY <3>1 DEF SearchRequest
      <3>3. [s EXCEPT !.offers = Append(s.offers, o)] \in SearchRequest
        BY <3>1, <3>2 DEF SearchRequest
      <3>4. searches' = [searches EXCEPT ![d.msg.rq] = [s EXCEPT !.offers = Append(s.offers, o)]]
        BY <2>2, <3>1 DEF HandleOffer, WithOffer
      <3> QED
        BY <3>1, <3>3, <3>4 DEF WellTyped, ServerTypeOK, SearchesTypeOK
    <2> QED
      BY <2>1, <2>2
  <1> QED
    BY <1>2, <1>3, <1>4 DEF HandleOffer, WellTyped, ServerTypeOK, TimersTypeOK

LEMMA StartSearchType ==
    ASSUME WellTyped, NEW w \in Workers, NEW d \in Datagram, StartSearch(w, d)
    PROVE  WellTyped'
  <1> DEFINE job == JobAt("store", d)
             timer == NewTimer(d.msg.rq)
  <1>1. /\ d.from \in Peers /\ d.msg \in ClientMessages /\ d.msg.rq \in Rqs
        /\ d.msg.command = "LOOKING_FOR"
    BY ClientMessageFields DEF Datagram, StartSearch, Takes
  <1>2. NetTypeOK'
    BY ReceiveType DEF StartSearch, Takes, WellTyped, ServerTypeOK
  <1>3. JobsTypeOK'
    <2>1. jobs' = Put(jobs, w, job)
      BY DEF StartSearch
    <2>2. job \in Job
      BY <1>1, WindowAssumption DEF JobAt, Job
    <2>3. job.at = "store" /\ job.msg.command = "LOOKING_FOR"
      BY <1>1 DEF JobAt
    <2> HIDE DEF job
    <2>4. DOMAIN jobs' \subseteq Workers /\ jobs' \in [DOMAIN jobs' -> Job]
      <3>1. jobs \in [DOMAIN jobs -> Job] /\ DOMAIN jobs \subseteq Workers
        BY DEF WellTyped, ServerTypeOK, JobsTypeOK
      <3> QED
        BY <2>1, <2>2, <3>1, PutType
    <2>5. ASSUME NEW v \in DOMAIN jobs'
          PROVE  jobs'[v] = job \/ (v \in DOMAIN jobs /\ jobs'[v] = jobs[v])
      BY <2>1, <2>5 DEF Put
    <2> QED
      BY <2>3, <2>4, <2>5 DEF WellTyped, ServerTypeOK, JobsTypeOK
  <1>4. TimersTypeOK'
    <2>1. PICK t \in TimerThreads : timers' = Put(timers, t, timer)
      BY DEF StartSearch
    <2>2. timer \in Timer
      BY <1>1, WindowAssumption DEF NewTimer, Timer
    <2>3. timers \in [DOMAIN timers -> Timer] /\ DOMAIN timers \subseteq TimerThreads
      BY DEF WellTyped, ServerTypeOK, TimersTypeOK
    <2> HIDE DEF timer
    <2> QED
      BY <2>1, <2>2, <2>3, PutType DEF TimersTypeOK
  <1> QED
    BY <1>2, <1>3, <1>4 DEF StartSearch, WellTyped, ServerTypeOK, SearchesTypeOK

LEMMA StoreSearchType ==
    ASSUME WellTyped, NEW w \in Workers, StoreSearch(w)
    PROVE  WellTyped'
  <1>1. w \in DOMAIN jobs /\ jobs[w] \in Job /\ jobs[w].msg.command = "LOOKING_FOR"
    BY DEF StoreSearch, WellTyped, ServerTypeOK, JobsTypeOK
  <1>2. jobs[w].msg.rq \in Rqs /\ NewSearch(w) \in SearchRequest
    <2>1. /\ jobs[w].from \in Peers /\ jobs[w].age \in 0 .. Window
          /\ jobs[w].msg \in ClientMessages
      BY <1>1 DEF Job
    <2>2. /\ jobs[w].msg.rq \in Rqs /\ jobs[w].msg.item_name \in Items
          /\ jobs[w].msg.max_price \in Prices
      BY <1>1, <2>1, ClientMessageFields
    <2>3. <<>> \in Seq(Offer)
      OBVIOUS
    <2> QED
      BY <2>1, <2>2, <2>3 DEF NewSearch, SearchRequest
  <1>3. SearchesTypeOK'
    <2>1. searches \in [DOMAIN searches -> SearchRequest] /\ DOMAIN searches \subseteq Rqs
      BY DEF WellTyped, ServerTypeOK, SearchesTypeOK
    <2>2. searches' = Put(searches, jobs[w].msg.rq, NewSearch(w))
      BY DEF StoreSearch
    <2> DEFINE k == jobs[w].msg.rq
               v == NewSearch(w)
    <2>3. searches' = Put(searches, k, v) /\ k \in Rqs /\ v \in SearchRequest
      BY <1>2, <2>2
    <2> HIDE DEF k, v
    <2> QED
      BY <2>1, <2>3, PutType DEF SearchesTypeOK
  <1>4. JobsTypeOK'
    <2> DEFINE job == JobAt("broadcast", jobs[w])
    <2>1. job \in Job
      BY <1>1, WindowAssumption DEF JobAt, Job
    <2>2. jobs' = [jobs EXCEPT ![w] = job]
      BY DEF StoreSearch
    <2>3. job.at = "broadcast" /\ job.msg.command = "LOOKING_FOR"
      BY <1>1 DEF JobAt
    <2> HIDE DEF job
    <2> QED
      BY <1>1, <2>1, <2>2, <2>3 DEF WellTyped, ServerTypeOK, JobsTypeOK
  <1> QED
    BY <1>3, <1>4 DEF StoreSearch, WellTyped, ServerTypeOK, netVars, NetTypeOK, TimersTypeOK

\* The parser accepts every LOOKING_FOR the clients build.
LEMMA LookingForParses ==
    ASSUME NEW m \in ClientMessages, m.command = "LOOKING_FOR"
    PROVE  Parses(m)
  <1>1. m \in [command : {"LOOKING_FOR"}, rq : Rqs, name : Peers,
               item_name : Items, description : Items, max_price : Prices]
    BY DEF ClientMessages, TradeCommands
  <1>2. DOMAIN m = {"command", "rq", "name", "item_name", "description", "max_price"}
    BY <1>1
  <1>3. EventType(m.command) = "LOOKING_FOR"
    BY DEF EventType, KnownCommands
  <1>4. ReadFields("LOOKING_FOR") = {"item_name", "description", "max_price"}
    BY DEF ReadFields
  <1>5. ValidatedFields("LOOKING_FOR") = {"item_name", "description", "max_price", "name"}
    BY DEF ValidatedFields
  <1>6. "LOOKING_FOR" \in ValidTypes
    BY DEF ValidTypes
  <1> QED
    BY <1>2, <1>3, <1>4, <1>5, <1>6 DEF Parses

LEMMA BroadcastType ==
    ASSUME WellTyped, NEW w \in Workers, BroadcastSearch(w)
    PROVE  WellTyped'
  <1>1. w \in DOMAIN jobs /\ jobs[w] \in Job /\ jobs[w].msg.command = "LOOKING_FOR"
    BY DEF BroadcastSearch, WellTyped, ServerTypeOK, JobsTypeOK
  <1>2. jobs[w].msg \in ClientMessages
    BY <1>1 DEF Job
  <1>3. NetTypeOK'
    <2> DEFINE m == SearchMsg(jobs[w].msg.rq, jobs[w].msg.item_name)
               T == {[to |-> p, msg |-> m] : p \in Audience(jobs[w].from)}
    <2>1. m \in ServerMessages
      BY <1>1, <1>2, ClientMessageFields, ServerMessageType
    <2>2. T \subseteq [to : Peers, msg : ServerMessages]
      BY <2>1 DEF Audience
    <2>3. toPeers' = toPeers (+) SetToBag(T)
      BY DEF BroadcastSearch
    <2>4. IsABag(toPeers') /\ DOMAIN toPeers' = DOMAIN toPeers \cup T
      <3> HIDE DEF T
      <3> QED
        BY <2>3, BagAdd DEF WellTyped, ServerTypeOK, NetTypeOK
    <2>5. toServer' = toServer
      BY DEF BroadcastSearch
    <2> QED
      BY <2>2, <2>4, <2>5 DEF WellTyped, ServerTypeOK, NetTypeOK
  <1>4. JobsTypeOK'
    <2>1. [jobs[w] EXCEPT !.at = "push"] \in Job
      BY <1>1 DEF Job
    <2>2. jobs' = [jobs EXCEPT ![w] = [jobs[w] EXCEPT !.at = "push"]]
      BY <1>1 DEF BroadcastSearch
    <2>3. Parses(jobs[w].msg)
      BY <1>1, <1>2, LookingForParses
    <2> QED
      BY <1>1, <2>1, <2>2, <2>3 DEF WellTyped, ServerTypeOK, JobsTypeOK, Job
  <1> QED
    BY <1>3, <1>4 DEF BroadcastSearch, WellTyped, ServerTypeOK, SearchesTypeOK, TimersTypeOK

LEMMA PushEventType ==
    ASSUME WellTyped, NEW w \in Workers, PushEvent(w)
    PROVE  WellTyped'
  <1>1. w \in DOMAIN jobs /\ jobs[w] \in Job /\ Parses(jobs[w].msg)
    BY DEF PushEvent, WellTyped, ServerTypeOK, JobsTypeOK
  <1>2. [type |-> EventType(jobs[w].msg.command), from |-> jobs[w].from] \in Event
    BY <1>1 DEF Event, Job, Parses
  <1>3. eventQueue' \in Seq(Event)
    BY <1>2 DEF PushEvent, WellTyped, ServerTypeOK
  <1>4. JobsTypeOK'
    <2> DEFINE D == DOMAIN jobs \ {w}
    <2>1. /\ D \subseteq DOMAIN jobs /\ jobs \in [DOMAIN jobs -> Job]
          /\ DOMAIN jobs \subseteq Workers /\ jobs' = Restrict(jobs, D)
      BY DEF PushEvent, WellTyped, ServerTypeOK, JobsTypeOK
    <2> HIDE DEF D
    <2>2. DOMAIN jobs' \subseteq Workers /\ jobs' \in [DOMAIN jobs' -> Job]
      BY <2>1, RestrictType
    <2>3. \A v \in DOMAIN jobs' : v \in DOMAIN jobs /\ jobs'[v] = jobs[v]
      BY <2>1 DEF Restrict
    <2> QED
      BY <2>2, <2>3 DEF WellTyped, ServerTypeOK, JobsTypeOK
  <1> QED
    BY <1>3, <1>4
    DEF PushEvent, WellTyped, ServerTypeOK, netVars, NetTypeOK, SearchesTypeOK, TimersTypeOK

LEMMA TimerFiresType ==
    ASSUME WellTyped, NEW t \in TimerThreads, TimerFires(t)
    PROVE  WellTyped'
  <1> DEFINE r == timers[t].rq
  <1>1. TimersTypeOK'
    <2> DEFINE D == DOMAIN timers \ {t}
    <2>1. /\ D \subseteq DOMAIN timers /\ timers \in [DOMAIN timers -> Timer]
          /\ DOMAIN timers \subseteq TimerThreads /\ timers' = Restrict(timers, D)
      BY DEF TimerFires, WithoutTimer, WellTyped, ServerTypeOK, TimersTypeOK
    <2> HIDE DEF D
    <2> QED
      BY <2>1, RestrictType DEF TimersTypeOK
  <1>2. NetTypeOK' /\ SearchesTypeOK'
    <2>1. CASE ~Pending(r)
      BY <2>1 DEF TimerFires, WellTyped, ServerTypeOK, NetTypeOK, SearchesTypeOK
    <2>2. CASE Pending(r) /\ ResolveSearch(r)
      <3> DEFINE s == searches[r]
      <3>1. r \in DOMAIN searches /\ r \in Rqs /\ s \in SearchRequest
        BY <2>2 DEF Pending, WellTyped, ServerTypeOK, SearchesTypeOK
      <3>2. /\ s.searcher \in Peers /\ s.item \in Items /\ s.maxPrice \in Prices
            /\ s.offers \in Seq(Offer)
        BY <3>1 DEF SearchRequest
      <3>3. toServer' = toServer
        BY DEF TimerFires
      <3>4. CASE s.offers = <<>> /\ Reply(s.searcher, NotAvailableMsg(r, s.item, s.maxPrice))
                 /\ searches' = Restrict(searches, DOMAIN searches \ {r})
        <4>1. NetTypeOK'
          BY <3>1, <3>2, <3>3, <3>4, ServerMessageType, ReplyType DEF WellTyped, ServerTypeOK
        <4> DEFINE D == DOMAIN searches \ {r}
        <4>2. /\ D \subseteq DOMAIN searches /\ searches \in [DOMAIN searches -> SearchRequest]
              /\ DOMAIN searches \subseteq Rqs /\ searches' = Restrict(searches, D)
          BY <3>4 DEF WellTyped, ServerTypeOK, SearchesTypeOK
        <4> HIDE DEF D
        <4>3. SearchesTypeOK'
          BY <4>2, RestrictType DEF SearchesTypeOK
        <4> QED
          BY <4>1, <4>3
      <3>5. ASSUME NEW i \in DOMAIN s.offers, AnswerBest(r, s, s.offers[i]),
                   searches' = [searches EXCEPT ![r].processed = TRUE]
            PROVE  NetTypeOK' /\ SearchesTypeOK'
        <4>1. s.offers[i].seller \in Peers /\ s.offers[i].price \in Prices
          <5>1. s.offers[i] \in Offer
            BY <3>2, <3>5
          <5> QED
            BY <5>1 DEF Offer
        <4>2. NetTypeOK'
          BY <3>1, <3>2, <3>3, <3>5, <4>1, ServerMessageType, ReplyType
          DEF WellTyped, ServerTypeOK, AnswerBest
        <4>3. [s EXCEPT !.processed = TRUE] \in SearchRequest
          BY <3>1 DEF SearchRequest
        <4>4. SearchesTypeOK'
          BY <3>1, <3>5, <4>3 DEF WellTyped, ServerTypeOK, SearchesTypeOK
        <4> QED
          BY <4>2, <4>4
      <3> QED
        BY <2>2, <3>4, <3>5 DEF ResolveSearch, WithoutSearch, Processed
    <2> QED
      BY <2>1, <2>2 DEF TimerFires
  <1> QED
    BY <1>1, <1>2 DEF TimerFires, WellTyped, ServerTypeOK, JobsTypeOK

LEMMA ProcessEventType ==
    ASSUME WellTyped, ProcessEvent
    PROVE  WellTyped'
  <1> DEFINE e == Head(eventQueue)
  <1>1. e \in Event /\ eventQueue' \in Seq(Event)
    BY DEF ProcessEvent, WellTyped, ServerTypeOK
  <1>2. e.from \in Peers
    BY <1>1 DEF Event
  <1>3. sessions[e.from] \in SessionValues
    BY <1>2 DEF WellTyped, ServerTypeOK
  <1>4. /\ NextState(PeerTransitions, sessions[e.from], e.type) \in SessionValues
        /\ NextState(ServerTransitions, serverState, e.type)
             \in {"LISTENING", "PROCESSING_REGISTRATION"}
    BY <1>3 DEF NextState, PeerTransitions, ServerTransitions, SessionValues, WellTyped, ServerTypeOK
  <1>5. sessions' \in [Peers -> SessionValues]
    BY <1>2, <1>4 DEF ProcessEvent, WellTyped, ServerTypeOK, SessionValues
  <1>6. serverState' \in {"LISTENING", "PROCESSING_REGISTRATION"}
    BY <1>4 DEF ProcessEvent, WellTyped, ServerTypeOK
  <1> QED
    BY <1>1, <1>5, <1>6
    DEF ProcessEvent, WellTyped, ServerTypeOK, netVars, NetTypeOK, SearchesTypeOK, TimersTypeOK, JobsTypeOK

LEMMA TickType ==
    ASSUME WellTyped, Tick
    PROVE  WellTyped'
  <1>1. \A n \in 0 .. Window : Older(n) \in 0 .. Window
    BY WindowAssumption DEF Older
  <1>2. SearchesTypeOK'
    <2>1. \A s \in SearchRequest : [s EXCEPT !.age = Older(@)] \in SearchRequest
      BY <1>1 DEF SearchRequest
    <2> QED
      BY <2>1 DEF Tick, WellTyped, ServerTypeOK, SearchesTypeOK
  <1>3. TimersTypeOK'
    <2>1. \A x \in Timer : [x EXCEPT !.left = IF @ > 0 THEN @ - 1 ELSE 0] \in Timer
      BY WindowAssumption DEF Timer
    <2> QED
      BY <2>1 DEF Tick, WellTyped, ServerTypeOK, TimersTypeOK
  <1>4. JobsTypeOK'
    <2> DEFINE aged(j) == [j EXCEPT !.age = IF j.at = "store" THEN Older(@) ELSE @]
    <2>1. \A j \in Job : aged(j) \in Job /\ aged(j).at = j.at /\ aged(j).msg = j.msg
      BY <1>1 DEF Job
    <2>2. jobs' = [w \in DOMAIN jobs |-> aged(jobs[w])]
      BY DEF Tick
    <2> HIDE DEF aged
    <2> QED
      BY <2>1, <2>2 DEF WellTyped, ServerTypeOK, JobsTypeOK
  <1> QED
    BY <1>2, <1>3, <1>4 DEF Tick, WellTyped, ServerTypeOK, netVars, NetTypeOK

\* A duplicate is of a datagram that is there.
LEMMA DuplicateType ==
    ASSUME NetTypeOK, NEW d, \/ d \in DOMAIN toServer /\ DuplicateToServer(d)
                             \/ d \in DOMAIN toPeers /\ DuplicateToPeer(d)
    PROVE  NetTypeOK'
  <1> DEFINE T == {d}
  <1>1. CASE d \in DOMAIN toServer /\ DuplicateToServer(d)
    <2>1. toServer' = toServer (+) SetToBag(T) /\ toPeers' = toPeers /\ T \subseteq DOMAIN toServer
      BY <1>1 DEF DuplicateToServer
    <2> HIDE DEF T
    <2> QED
      BY <2>1, BagAdd DEF NetTypeOK
  <1>2. CASE d \in DOMAIN toPeers /\ DuplicateToPeer(d)
    <2>1. toPeers' = toPeers (+) SetToBag(T) /\ toServer' = toServer /\ T \subseteq DOMAIN toPeers
      BY <1>2 DEF DuplicateToPeer
    <2> HIDE DEF T
    <2> QED
      BY <2>1, BagAdd DEF NetTypeOK
  <1> QED
    BY <1>1, <1>2

LEMMA NetworkType ==
    ASSUME NetTypeOK, NetworkNext
    PROVE  NetTypeOK'
  <1>1. ASSUME NEW d, LoseToServer(d)
        PROVE  NetTypeOK'
    BY <1>1, ReceiveType DEF LoseToServer
  <1>2. ASSUME NEW d, LoseToPeer(d)
        PROVE  NetTypeOK'
    <2>1. IsABag(toServer') /\ DOMAIN toServer' \subseteq Datagram
      BY <1>2 DEF LoseToPeer, NetTypeOK
    <2> QED
      BY <1>2, <2>1, DeliverType DEF LoseToPeer
  <1> QED
    BY <1>1, <1>2 DEF NetworkNext

\* Every step of the server keeps the types.
LEMMA ServerTypeStep ==
    ASSUME WellTyped, ServerNext
    PROVE  WellTyped'
  <1>1. \A d \in DOMAIN toServer : d \in Datagram
    BY DEF WellTyped, ServerTypeOK, NetTypeOK
  <1>2. ASSUME NEW w \in Workers, NEW d \in DOMAIN toServer, Handle(w, d)
        PROVE  WellTyped'
    BY <1>1, <1>2, RegisterType, DeregisterType, UnknownType, StartSearchType, OfferType
    DEF Handle
  <1>3. ASSUME NEW w \in Workers, WorkerSteps(w)
        PROVE  WellTyped'
    BY <1>3, StoreSearchType, BroadcastType, PushEventType DEF WorkerSteps
  <1> QED
    BY <1>2, <1>3, TimerFiresType, ProcessEventType, TickType DEF ServerNext

-------------------------------------------------------------------------------
(* The peers keep the types too. *)

LEMMA SendBag ==
    ASSUME NetTypeOK, NEW p \in Peers, NEW m \in ClientMessages, Send(p, m)
    PROVE  /\ IsABag(toServer')
           /\ DOMAIN toServer' = DOMAIN toServer \cup {[from |-> p, msg |-> m]}
           /\ DOMAIN toServer' \subseteq Datagram
  <1> DEFINE T == {[from |-> p, msg |-> m]}
  <1>1. toServer' = toServer (+) SetToBag(T) /\ T \subseteq Datagram
    BY DEF Send, Datagram
  <1>2. IsABag(toServer') /\ DOMAIN toServer' = DOMAIN toServer \cup T
    <2> HIDE DEF T
    <2> QED
      BY <1>1, BagAdd DEF NetTypeOK
  <1> QED
    BY <1>1, <1>2 DEF NetTypeOK

LEMMA SendType ==
    ASSUME NetTypeOK, NEW p \in Peers, NEW m \in ClientMessages, Send(p, m),
           \/ UNCHANGED toPeers
           \/ \E d : Deliver(d)
    PROVE  NetTypeOK'
  <1>1. IsABag(toServer') /\ DOMAIN toServer' \subseteq Datagram
    BY SendBag
  <1>2. CASE UNCHANGED toPeers
    BY <1>1, <1>2 DEF NetTypeOK
  <1>3. CASE \E d : Deliver(d)
    BY <1>1, <1>3, DeliverType
  <1> QED
    BY <1>2, <1>3

\* What a peer that accepts, refuses or counters an offer sends.
LEMMA TradeSends ==
    ASSUME NetTypeOK, NEW p \in Peers, NEW d \in DOMAIN toPeers, PeerTrades(p, d)
    PROVE  \E m \in ClientMessages : /\ m.command \in TradeCommands
                                     /\ Send(p, m)
                                     /\ sent' = sent \cup {[from |-> p, msg |-> m]}
  <1>1. d.msg.rq \in Rqs /\ d.msg.item_name \in Items
    BY NegotiateFields DEF PeerTrades, NetTypeOK
  <1>2. PICK cmd \in TradeCommands, price \in Prices :
          /\ Send(p, TradeMsg(cmd, p, d.msg.rq, d.msg.item_name, price))
          /\ sent' = sent \cup
               {[from |-> p, msg |-> TradeMsg(cmd, p, d.msg.rq, d.msg.item_name, price)]}
    BY DEF PeerTrades
  <1> DEFINE m == TradeMsg(cmd, p, d.msg.rq, d.msg.item_name, price)
  <1>3. m \in ClientMessages /\ m.command \in TradeCommands
    BY <1>1, ClientMessageType DEF TradeMsg
  <1> QED
    BY <1>2, <1>3

LEMMA ServerStateType ==
    ASSUME ServerTypeOK, UNCHANGED serverVars
    PROVE  ServerTypeOK'
  BY DEF serverVars, WellTyped, ServerTypeOK, SearchesTypeOK, TimersTypeOK, JobsTypeOK

\* A user's operation takes a request number within the bound.
LEMMA DoesType ==
    ASSUME TypeOK, NEW p \in Peers, NEW op, Does(p, op)
    PROVE  nextRq[p] \in Rqs /\ nextRq' \in [Peers -> 1 .. MaxRq + 1]
  <1>1. RqLimit[p] \in 0 .. MaxRq /\ nextRq \in [Peers -> 1 .. MaxRq + 1]
    BY RqLimitAssumption DEF TypeOK
  <1>2. nextRq[p] <= RqLimit[p] /\ nextRq' = [nextRq EXCEPT ![p] = @ + 1]
    BY DEF Does
  <1>3. nextRq[p] \in 1 .. MaxRq /\ nextRq[p] + 1 \in 1 .. MaxRq + 1
    BY <1>1, <1>2, MaxRqAssumption
  <1> QED
    BY <1>1, <1>2, <1>3 DEF Rqs

LEMMA PeersTypeStep ==
    ASSUME TypeOK, PeersNext, UNCHANGED faults
    PROVE  TypeOK'
  <1>1. WellTyped /\ NetTypeOK
    BY DEF TypeOK, WellTyped, ServerTypeOK
  <1>2. ASSUME NEW p \in Peers, PeerRegisters(p)
        PROVE  TypeOK'
    <2>1. nextRq[p] \in Rqs /\ nextRq' \in [Peers -> 1 .. MaxRq + 1]
      BY <1>2, DoesType DEF PeerRegisters
    <2>2. NetTypeOK'
      BY <1>1, <1>2, <2>1, ClientMessageType, SendType DEF PeerRegisters, Does
    <2> QED
      BY <1>1, <1>2, <2>1, <2>2, ServerStateType DEF PeerRegisters, Does, TypeOK
  <1>3. ASSUME NEW p \in Peers, PeerDeregisters(p)
        PROVE  TypeOK'
    <2>1. nextRq[p] \in Rqs /\ nextRq' \in [Peers -> 1 .. MaxRq + 1]
      BY <1>3, DoesType DEF PeerDeregisters
    <2>2. NetTypeOK'
      BY <1>1, <1>3, <2>1, ClientMessageType, SendType DEF PeerDeregisters, Does
    <2> QED
      BY <1>1, <1>3, <2>1, <2>2, ServerStateType DEF PeerDeregisters, Does, TypeOK
  <1>4. ASSUME NEW p \in Peers, PeerSearches(p)
        PROVE  TypeOK'
    <2>1. nextRq[p] \in Rqs /\ nextRq' \in [Peers -> 1 .. MaxRq + 1]
      BY <1>4, DoesType DEF PeerSearches
    <2>2. PICK i \in Items, max \in Prices :
            /\ Send(p, LookingForMsg(p, nextRq[p], i, max))
            /\ sent' = sent \cup {[from |-> p, msg |-> LookingForMsg(p, nextRq[p], i, max)]}
      BY <1>4 DEF PeerSearches
    <2>3. LookingForMsg(p, nextRq[p], i, max) \in ClientMessages
      BY <2>1, ClientMessageType
    <2>4. NetTypeOK'
      BY <1>1, <1>4, <2>2, <2>3, SendType DEF PeerSearches, Does
    <2>5. sent' \subseteq Datagram
      BY <2>2, <2>3 DEF TypeOK, Datagram
    <2> QED
      BY <1>1, <1>4, <2>1, <2>4, <2>5, ServerStateType DEF PeerSearches, Does, TypeOK
  <1>5. ASSUME NEW p \in Peers, NEW d \in DOMAIN toPeers, PeerTrades(p, d)
        PROVE  TypeOK'
    <2>1. PICK m \in ClientMessages : Send(p, m) /\ sent' = sent \cup {[from |-> p, msg |-> m]}
      BY <1>1, <1>5, TradeSends
    <2>2. NetTypeOK'
      BY <1>1, <1>5, <2>1, SendType DEF PeerTrades
    <2>3. sent' \subseteq Datagram
      BY <2>1 DEF TypeOK, Datagram
    <2> QED
      BY <1>1, <1>5, <2>2, <2>3, ServerStateType DEF PeerTrades, TypeOK
  <1>6. ASSUME NEW p \in Peers, NEW d \in DOMAIN toPeers, PeerOffers(p, d)
        PROVE  TypeOK'
    <2>1. d.msg \in ServerMessages
      BY <1>1 DEF NetTypeOK
    <2>2. d.msg.rq \in Rqs /\ d.msg.item_name \in Items
      BY <1>6, <2>1, SearchFields DEF PeerOffers
    <2>3. PICK price \in Prices :
            /\ Send(p, OfferMsg(p, d.msg.rq, d.msg.item_name, price))
            /\ sent' = sent \cup {[from |-> p, msg |-> OfferMsg(p, d.msg.rq, d.msg.item_name, price)]}
      BY <1>6 DEF PeerOffers
    <2>4. OfferMsg(p, d.msg.rq, d.msg.item_name, price) \in ClientMessages
      BY <2>2, ClientMessageType
    <2>5. NetTypeOK'
      BY <1>1, <1>6, <2>3, <2>4, SendType DEF PeerOffers
    <2>6. sent' \subseteq Datagram
      BY <2>3, <2>4 DEF TypeOK, Datagram
    <2> QED
      BY <1>1, <1>6, <2>5, <2>6, ServerStateType DEF PeerOffers, TypeOK
  <1>7. ASSUME NEW p \in Peers, PeerFails(p)
        PROVE  TypeOK'
    <2>1. nextRq' \in [Peers -> 1 .. MaxRq + 1]
      BY <1>7, DoesType DEF PeerFails
    <2>2. NetTypeOK'
      BY <1>1, <1>7 DEF PeerFails, Does, NetTypeOK
    <2> QED
      BY <1>1, <1>7, <2>1, <2>2, ServerStateType DEF PeerFails, Does, TypeOK
  <1> QED
    BY <1>2, <1>3, <1>4, <1>5, <1>6, <1>7 DEF PeersNext

\* Restarts and duplicates.
LEMMA FaultsTypeStep ==
    ASSUME TypeOK, FaultsNext
    PROVE  TypeOK'
  <1>1. faults' \in 0 .. MaxFaults
    BY MaxFaultsAssumption DEF FaultsNext, TypeOK
  <1>2. NetTypeOK' /\ nextRq' \in [Peers -> 1 .. MaxRq + 1]
    <2>1. ASSUME NEW p \in Peers, PeerRestarts(p)
          PROVE  NetTypeOK' /\ nextRq' \in [Peers -> 1 .. MaxRq + 1]
      BY <2>1, MaxRqAssumption DEF PeerRestarts, TypeOK, netVars, NetTypeOK
    <2>2. CASE NetworkDuplicates
      BY <2>2, DuplicateType DEF NetworkDuplicates, TypeOK
    <2> QED
      BY <2>1, <2>2 DEF FaultsNext
  <1> QED
    BY <1>1, <1>2, ServerStateType DEF FaultsNext, TypeOK

-------------------------------------------------------------------------------
LEMMA TypeInit == Init => TypeOK
  <1> SUFFICES ASSUME Init PROVE TypeOK
    OBVIOUS
  <1>1. NetTypeOK
    BY DEF Init, NetInit, NetTypeOK, IsABag, EmptyBag, SetToBag
  <1>2. nextRq \in [Peers -> 1 .. MaxRq + 1]
    BY MaxRqAssumption DEF Init
  <1>4. faults \in 0 .. MaxFaults
    BY MaxFaultsAssumption DEF Init
  <1>3. /\ SearchesTypeOK /\ TimersTypeOK /\ JobsTypeOK /\ eventQueue \in Seq(Event)
    BY DEF Init, ServerInit, SearchesTypeOK, TimersTypeOK, JobsTypeOK
  <1> QED
    BY <1>1, <1>2, <1>3, <1>4 DEF Init, ServerInit, TypeOK, WellTyped, ServerTypeOK, SessionValues

LEMMA TypeStep == TypeOK /\ [Next]_vars => TypeOK'
  <1> SUFFICES ASSUME TypeOK, [Next]_vars PROVE TypeOK'
    OBVIOUS
  <1>1. CASE ServerNext /\ UNCHANGED <<nextRq, sent, faults>>
    BY <1>1, ServerTypeStep DEF TypeOK, WellTyped
  <1>2. CASE PeersNext /\ UNCHANGED faults
    BY <1>2, PeersTypeStep
  <1>3. CASE NetworkNext /\ UNCHANGED <<serverVars, nextRq, sent, faults>>
    BY <1>3, NetworkType, ServerStateType DEF TypeOK
  <1>4. CASE UNCHANGED vars
    BY <1>4, ServerStateType DEF vars, netVars, TypeOK, WellTyped, ServerTypeOK, NetTypeOK
  <1>5. CASE FaultsNext
    BY <1>5, FaultsTypeStep
  <1> QED
    BY <1>1, <1>2, <1>3, <1>4, <1>5 DEF Next

(***************************************************************************)
(* Every reachable state of the server and its peers is well typed; in     *)
(* particular the tables are indexed by request numbers and peers that     *)
(* exist, and only what the parser accepts reaches the event thread.       *)
(***************************************************************************)
THEOREM TypeCorrect == Spec => []TypeOK
  BY TypeInit, TypeStep, PTL DEF Spec

===============================================================================

---------------------------- MODULE ShoppingProofs ----------------------------
(***************************************************************************)
(* The whole system implements OpenServer, so what the other modules prove *)
(* of OpenServer holds of it; and what the clients believe is true.        *)
(***************************************************************************)
EXTENDS P2PShopping, FiniteSetTheorems, TLAPS

-------------------------------------------------------------------------------
(* OpenServer again, with everything that is proved of it.  The roles are   *)
(* those of the instance Open.                                              *)
Proved == INSTANCE BrokerProofs
    WITH Roles <- [p \in Peers |-> RolesOf(p)]

\* What OpenServer assumes of its constants is true of these.
LEMMA Assumptions ==
    /\ Proved!RolesAssumption /\ Proved!RqLimitAssumption
    /\ Proved!DuplicatesAssumption /\ Proved!MaxFaultsAssumption
  BY RqLimitAssumption, DuplicatesAssumption, MaxFaultsAssumption
     DEF Proved!RolesAssumption, Proved!RqLimitAssumption, Proved!DuplicatesAssumption,
         Proved!MaxFaultsAssumption, Proved!Operations, RolesOf

-------------------------------------------------------------------------------
(* Messages, Network and Server are the same three modules here, in Open    *)
(* and in Proved: layer by layer, their operators are equal.                *)

\* Bags and tables.
LEMMA SameBags ==
    ASSUME NEW A, NEW B, NEW C
    PROVE  /\ B (+) C = Open!(+)(B, C) /\ B (+) C = Proved!(+)(B, C)
           /\ B (-) C = Open!(-)(B, C) /\ B (-) C = Proved!(-)(B, C)
           /\ SetToBag(A) = Open!SetToBag(A) /\ SetToBag(A) = Proved!SetToBag(A)
           /\ (IsABag(A) <=> Open!IsABag(A)) /\ (IsABag(A) <=> Proved!IsABag(A))
           /\ EmptyBag = Open!EmptyBag /\ EmptyBag = Proved!EmptyBag
           /\ Put(A, B, C) = Open!Put(A, B, C) /\ Put(A, B, C) = Proved!Put(A, B, C)
           /\ Restrict(A, B) = Open!Restrict(A, B)
           /\ Restrict(A, B) = Proved!Restrict(A, B)
           /\ Copies(A, B) = Open!Copies(A, B) /\ Copies(A, B) = Proved!Copies(A, B)
  BY DEF (+), (-), IsABag, SetToBag, EmptyBag, BagIn, BagToSet, Put, Restrict,
     Copies, Open!(+), Open!(-), Open!IsABag, Open!SetToBag, Open!EmptyBag,
     Open!BagIn, Open!BagToSet, Open!Put, Open!Restrict, Open!Copies,
     Proved!(+), Proved!(-), Proved!IsABag, Proved!SetToBag, Proved!EmptyBag,
     Proved!BagIn, Proved!BagToSet, Proved!Put, Proved!Restrict, Proved!Copies

\* The messages.
LEMMA SameMessages ==
    ASSUME NEW p, NEW r, NEW i, NEW x, NEW c
    PROVE  /\ RegisterMsg(p, r) = Open!RegisterMsg(p, r)
           /\ RegisterMsg(p, r) = Proved!RegisterMsg(p, r)
           /\ DeregisterMsg(p, r) = Open!DeregisterMsg(p, r)
           /\ DeregisterMsg(p, r) = Proved!DeregisterMsg(p, r)
           /\ LookingForMsg(p, r, i, x) = Open!LookingForMsg(p, r, i, x)
           /\ LookingForMsg(p, r, i, x) = Proved!LookingForMsg(p, r, i, x)
           /\ OfferMsg(p, r, i, x) = Open!OfferMsg(p, r, i, x)
           /\ OfferMsg(p, r, i, x) = Proved!OfferMsg(p, r, i, x)
           /\ TradeMsg(c, p, r, i, x) = Open!TradeMsg(c, p, r, i, x)
           /\ TradeMsg(c, p, r, i, x) = Proved!TradeMsg(c, p, r, i, x)
           /\ RegisteredMsg(r) = Open!RegisteredMsg(r)
           /\ RegisteredMsg(r) = Proved!RegisteredMsg(r)
           /\ DeniedMsg(r) = Open!DeniedMsg(r) /\ DeniedMsg(r) = Proved!DeniedMsg(r)
           /\ SearchMsg(r, i) = Open!SearchMsg(r, i)
           /\ SearchMsg(r, i) = Proved!SearchMsg(r, i)
           /\ NotAvailableMsg(r, i, x) = Open!NotAvailableMsg(r, i, x)
           /\ NotAvailableMsg(r, i, x) = Proved!NotAvailableMsg(r, i, x)
           /\ FoundMsg(r, i, x) = Open!FoundMsg(r, i, x)
           /\ FoundMsg(r, i, x) = Proved!FoundMsg(r, i, x)
           /\ NegotiateMsg(r, i, x) = Open!NegotiateMsg(r, i, x)
           /\ NegotiateMsg(r, i, x) = Proved!NegotiateMsg(r, i, x)
           /\ TradeCommands = Open!TradeCommands /\ TradeCommands = Proved!TradeCommands
           /\ Rqs = Open!Rqs /\ Rqs = Proved!Rqs
  BY DEF RegisterMsg, DeregisterMsg, LookingForMsg, OfferMsg, TradeMsg,
     RegisteredMsg, DeniedMsg, SearchMsg, NotAvailableMsg, FoundMsg,
     NegotiateMsg, TradeCommands, Rqs, Open!RegisterMsg, Open!DeregisterMsg,
     Open!LookingForMsg, Open!OfferMsg, Open!TradeMsg, Open!RegisteredMsg,
     Open!DeniedMsg, Open!SearchMsg, Open!NotAvailableMsg, Open!FoundMsg,
     Open!NegotiateMsg, Open!TradeCommands, Open!Rqs, Proved!RegisterMsg,
     Proved!DeregisterMsg, Proved!LookingForMsg, Proved!OfferMsg,
     Proved!TradeMsg, Proved!RegisteredMsg, Proved!DeniedMsg, Proved!SearchMsg,
     Proved!NotAvailableMsg, Proved!FoundMsg, Proved!NegotiateMsg,
     Proved!TradeCommands, Proved!Rqs

\* The parser.
LEMMA SameParser ==
    ASSUME NEW m, NEW c
    PROVE  /\ EventType(c) = Open!EventType(c) /\ EventType(c) = Proved!EventType(c)
           /\ (Parses(m) <=> Open!Parses(m)) /\ (Parses(m) <=> Proved!Parses(m))
  BY DEF KnownCommands, EventType, ReadFields, ValidTypes, ValidatedFields,
     Parses, Open!KnownCommands, Open!EventType, Open!ReadFields,
     Open!ValidTypes, Open!ValidatedFields, Open!Parses, Proved!KnownCommands,
     Proved!EventType, Proved!ReadFields, Proved!ValidTypes,
     Proved!ValidatedFields, Proved!Parses

\* The network.
LEMMA SameNetwork ==
    ASSUME NEW p, NEW m, NEW d
    PROVE  /\ (Receive(d) <=> Open!Receive(d)) /\ (Receive(d) <=> Proved!Receive(d))
           /\ (Deliver(d) <=> Open!Deliver(d)) /\ (Deliver(d) <=> Proved!Deliver(d))
           /\ (Send(p, m) <=> Open!Send(p, m)) /\ (Send(p, m) <=> Proved!Send(p, m))
           /\ (Reply(p, m) <=> Open!Reply(p, m)) /\ (Reply(p, m) <=> Proved!Reply(p, m))
           /\ (NetInit <=> Open!NetInit) /\ (NetInit <=> Proved!NetInit)
           /\ DuplicateToServer(d) <=> Open!DuplicateToServer(d)
           /\ DuplicateToServer(d) <=> Proved!DuplicateToServer(d)
           /\ DuplicateToPeer(d) <=> Open!DuplicateToPeer(d)
           /\ DuplicateToPeer(d) <=> Proved!DuplicateToPeer(d)
  BY SameBags DEF Receive, Deliver, Send, Reply, NetInit, DuplicateToServer,
     DuplicateToPeer, Open!Receive, Open!Deliver, Open!Send, Open!Reply,
     Open!NetInit, Open!DuplicateToServer, Open!DuplicateToPeer, Proved!Receive,
     Proved!Deliver, Proved!Send, Proved!Reply, Proved!NetInit,
     Proved!DuplicateToServer, Proved!DuplicateToPeer

\* The tables.
LEMMA SameTables ==
    ASSUME NEW p, NEW r
    PROVE  /\ (Live(p) <=> Open!Live(p)) /\ (Live(p) <=> Proved!Live(p))
           /\ (Pending(r) <=> Open!Pending(r)) /\ (Pending(r) <=> Proved!Pending(r))
           /\ Collecting(r) <=> Open!Collecting(r)
           /\ Collecting(r) <=> Proved!Collecting(r)
           /\ (ServerInit <=> Open!ServerInit) /\ (ServerInit <=> Proved!ServerInit)
  BY DEF Live, Pending, Collecting, ServerInit, Open!Live, Open!Pending,
     Open!Collecting, Open!ServerInit, Proved!Live, Proved!Pending,
     Proved!Collecting, Proved!ServerInit

\* The handlers.
LEMMA SameTaking ==
    ASSUME NEW w, NEW d, NEW c
    PROVE  /\ Takes(w, d, c) <=> Open!Takes(w, d, c)
           /\ Takes(w, d, c) <=> Proved!Takes(w, d, c)
           /\ AfterHandler(w, d) <=> Open!AfterHandler(w, d)
           /\ AfterHandler(w, d) <=> Proved!AfterHandler(w, d)
  BY SameBags, SameNetwork, SameParser DEF Takes, AfterHandler, JobAt,
     Open!Takes, Open!AfterHandler, Open!JobAt, Proved!Takes,
     Proved!AfterHandler, Proved!JobAt

LEMMA SameRegister ==
    ASSUME NEW w, NEW d
    PROVE  /\ HandleRegister(w, d) <=> Open!HandleRegister(w, d)
           /\ HandleRegister(w, d) <=> Proved!HandleRegister(w, d)
           /\ HandleDeregister(w, d) <=> Open!HandleDeregister(w, d)
           /\ HandleDeregister(w, d) <=> Proved!HandleDeregister(w, d)
  BY SameMessages, SameNetwork, SameTaking DEF HandleRegister,
     HandleDeregister, WithSession, Open!HandleRegister, Open!HandleDeregister,
     Open!WithSession, Proved!HandleRegister, Proved!HandleDeregister,
     Proved!WithSession

LEMMA SameUnknown ==
    ASSUME NEW w, NEW d
    PROVE  /\ HandleUnknown(w, d) <=> Open!HandleUnknown(w, d)
           /\ HandleUnknown(w, d) <=> Proved!HandleUnknown(w, d)
  BY SameMessages, SameTaking DEF HandleUnknown, Open!HandleUnknown,
     Proved!HandleUnknown

LEMMA SameStart ==
    ASSUME NEW w, NEW d
    PROVE  /\ StartSearch(w, d) <=> Open!StartSearch(w, d)
           /\ StartSearch(w, d) <=> Proved!StartSearch(w, d)
  BY SameBags, SameTaking DEF StartSearch, NewTimer, JobAt, Open!StartSearch,
     Open!NewTimer, Open!JobAt, Proved!StartSearch, Proved!NewTimer,
     Proved!JobAt

LEMMA SameOffer ==
    ASSUME NEW w, NEW d
    PROVE  /\ HandleOffer(w, d) <=> Open!HandleOffer(w, d)
           /\ HandleOffer(w, d) <=> Proved!HandleOffer(w, d)
  BY SameTables, SameTaking DEF HandleOffer, WithOffer, Open!HandleOffer,
     Open!WithOffer, Proved!HandleOffer, Proved!WithOffer

\* The workers' other steps.
LEMMA SameStore ==
    ASSUME NEW w
    PROVE  /\ StoreSearch(w) <=> Open!StoreSearch(w)
           /\ StoreSearch(w) <=> Proved!StoreSearch(w)
  BY SameBags DEF StoreSearch, NewSearch, JobAt, netVars, Open!StoreSearch,
     Open!NewSearch, Open!JobAt, Open!netVars, Proved!StoreSearch,
     Proved!NewSearch, Proved!JobAt, Proved!netVars

LEMMA SameBroadcast ==
    ASSUME NEW w
    PROVE  /\ BroadcastSearch(w) <=> Open!BroadcastSearch(w)
           /\ BroadcastSearch(w) <=> Proved!BroadcastSearch(w)
  <1>1. ASSUME NEW p PROVE Audience(p) = Open!Audience(p) /\ Audience(p) = Proved!Audience(p)
    BY SameTables DEF Audience, Open!Audience, Proved!Audience
  <1>2. BroadcastSearch(w) <=> Open!BroadcastSearch(w)
    BY <1>1, SameBags, SameMessages DEF BroadcastSearch, Open!BroadcastSearch
  <1>3. BroadcastSearch(w) <=> Proved!BroadcastSearch(w)
    BY <1>1, SameBags, SameMessages DEF BroadcastSearch, Proved!BroadcastSearch
  <1> QED
    BY <1>2, <1>3

LEMMA SamePush ==
    ASSUME NEW w
    PROVE  /\ PushEvent(w) <=> Open!PushEvent(w)
           /\ PushEvent(w) <=> Proved!PushEvent(w)
  BY SameBags, SameParser DEF PushEvent, netVars, Open!PushEvent, Open!netVars,
     Proved!PushEvent, Proved!netVars

\* The timeout threads.
LEMMA SameResolve ==
    ASSUME NEW r
    PROVE  /\ ResolveSearch(r) <=> Open!ResolveSearch(r)
           /\ ResolveSearch(r) <=> Proved!ResolveSearch(r)
  <1>1. ASSUME NEW s, NEW i
        PROVE  /\ IsLowest(s, i) <=> Open!IsLowest(s, i)
               /\ IsLowest(s, i) <=> Proved!IsLowest(s, i)
    BY DEF IsLowest, Open!IsLowest, Proved!IsLowest
  <1>2. ASSUME NEW s, NEW o
        PROVE  /\ AnswerBest(r, s, o) <=> Open!AnswerBest(r, s, o)
               /\ AnswerBest(r, s, o) <=> Proved!AnswerBest(r, s, o)
    BY SameMessages, SameNetwork DEF AnswerBest, Open!AnswerBest, Proved!AnswerBest
  <1>3. /\ WithoutSearch(r) = Open!WithoutSearch(r) /\ Processed(r) = Open!Processed(r)
        /\ WithoutSearch(r) = Proved!WithoutSearch(r) /\ Processed(r) = Proved!Processed(r)
    BY SameBags DEF WithoutSearch, Processed, Open!WithoutSearch, Open!Processed,
       Proved!WithoutSearch, Proved!Processed
  <1> QED
    BY <1>1, <1>2, <1>3, SameMessages, SameNetwork
       DEF ResolveSearch, Open!ResolveSearch, Proved!ResolveSearch

LEMMA SameTimer ==
    ASSUME NEW t
    PROVE  /\ TimerFires(t) <=> Open!TimerFires(t)
           /\ TimerFires(t) <=> Proved!TimerFires(t)
  BY SameBags, SameTables, SameResolve DEF TimerFires, SleepIsOver,
     WithoutTimer, Open!TimerFires, Open!SleepIsOver, Open!WithoutTimer,
     Proved!TimerFires, Proved!SleepIsOver, Proved!WithoutTimer

\* The event thread, and time.
LEMMA SameEvents ==
    /\ (ProcessEvent <=> Open!ProcessEvent) /\ (ProcessEvent <=> Proved!ProcessEvent)
    /\ (Tick <=> Open!Tick) /\ (Tick <=> Proved!Tick)
  BY SameTables DEF ProcessEvent, NextState, PeerTransitions,
     ServerTransitions, Tick, Older, netVars, Open!ProcessEvent,
     Open!NextState, Open!PeerTransitions, Open!ServerTransitions, Open!Tick,
     Open!Older, Open!netVars, Proved!ProcessEvent, Proved!NextState,
     Proved!PeerTransitions, Proved!ServerTransitions, Proved!Tick,
     Proved!Older, Proved!netVars

LEMMA SameServer ==
    /\ (ServerNext <=> Open!ServerNext) /\ (ServerNext <=> Proved!ServerNext)
  BY SameRegister, SameUnknown, SameStart, SameOffer, SameStore,
     SameBroadcast, SamePush, SameTimer, SameEvents DEF
     ServerNext, Handle, WorkerSteps, Open!ServerNext, Open!Handle,
     Open!WorkerSteps, Proved!ServerNext, Proved!Handle, Proved!WorkerSteps

\* The peers and the faults: equal in Open and in Proved.
LEMMA SamePeers ==
    ASSUME NEW p, NEW d
    PROVE  /\ Open!PeerRegisters(p) <=> Proved!PeerRegisters(p)
           /\ Open!PeerDeregisters(p) <=> Proved!PeerDeregisters(p)
           /\ Open!PeerFails(p) <=> Proved!PeerFails(p)
           /\ Open!PeerSearches(p) <=> Proved!PeerSearches(p)
           /\ Open!PeerOffers(p, d) <=> Proved!PeerOffers(p, d)
           /\ Open!PeerTrades(p, d) <=> Proved!PeerTrades(p, d)
  <1>1. ASSUME NEW op PROVE Open!Does(p, op) <=> Proved!Does(p, op)
    BY DEF Open!Does, Proved!Does, Open!serverVars, Proved!serverVars
  <1>2. /\ Open!PeerRegisters(p) <=> Proved!PeerRegisters(p)
        /\ Open!PeerDeregisters(p) <=> Proved!PeerDeregisters(p)
        /\ Open!PeerFails(p) <=> Proved!PeerFails(p)
    BY <1>1, SameMessages, SameNetwork
       DEF Open!PeerRegisters, Open!PeerDeregisters, Open!PeerFails, Proved!PeerRegisters,
           Proved!PeerDeregisters, Proved!PeerFails
  <1>3. Open!PeerSearches(p) <=> Proved!PeerSearches(p)
    BY <1>1, SameMessages, SameNetwork DEF Open!PeerSearches, Proved!PeerSearches
  <1>4. Open!PeerOffers(p, d) <=> Proved!PeerOffers(p, d)
    BY SameMessages, SameNetwork
       DEF Open!PeerOffers, Proved!PeerOffers, Open!serverVars, Proved!serverVars
  <1>5. Open!PeerTrades(p, d) <=> Proved!PeerTrades(p, d)
    BY SameMessages, SameNetwork
       DEF Open!PeerTrades, Proved!PeerTrades, Open!serverVars, Proved!serverVars
  <1> QED
    BY <1>2, <1>3, <1>4, <1>5

LEMMA SameFaults == Open!FaultsNext <=> Proved!FaultsNext
  <1>1. ASSUME NEW p PROVE Open!PeerRestarts(p) <=> Proved!PeerRestarts(p)
    BY DEF Open!PeerRestarts, Proved!PeerRestarts, Open!netVars, Proved!netVars
  <1>2. Open!NetworkDuplicates <=> Proved!NetworkDuplicates
    BY SameNetwork DEF Open!NetworkDuplicates, Proved!NetworkDuplicates
  <1> QED
    BY <1>1, <1>2 DEF Open!FaultsNext, Proved!FaultsNext, Open!serverVars, Proved!serverVars

LEMMA SameNext == Open!Next <=> Proved!Next
  <1>1. Open!PeersNext <=> Proved!PeersNext
    BY SamePeers DEF Open!PeersNext, Proved!PeersNext
  <1>2. Open!NetworkNext <=> Proved!NetworkNext
    BY SameNetwork
       DEF Open!NetworkNext, Open!LoseToServer, Open!LoseToPeer, Proved!NetworkNext,
           Proved!LoseToServer, Proved!LoseToPeer
  <1> QED
    BY <1>1, <1>2, SameServer, SameFaults
       DEF Open!Next, Proved!Next, Open!serverVars, Proved!serverVars

LEMMA SameSpec == Open!Spec <=> Proved!Spec
  <1>1. Open!Init <=> Proved!Init
    BY SameNetwork, SameTables DEF Open!Init, Proved!Init
  <1>2. UNCHANGED Open!vars <=> UNCHANGED Proved!vars
    BY DEF Open!vars, Proved!vars, Open!netVars, Proved!netVars, Open!serverVars,
       Proved!serverVars
  <1>3. [Open!Next]_Open!vars <=> [Proved!Next]_Proved!vars
    BY <1>2, SameNext
  <1> QED
    BY <1>1, <1>3, PTL DEF Open!Spec, Proved!Spec

-------------------------------------------------------------------------------
(* What is sent is recorded, and what is in an inventory came there by the  *)
(* user's command "add".  With the types of OpenServer, this is all that    *)
(* the simulation needs.                                                    *)

Recorded ==
    \A d \in DOMAIN toServer :
        d.msg.command \notin {"REGISTER", "DE_REGISTER"} => d \in sent
Stocked ==
    /\ inventory \in [Peers -> Seq(Item)]
    /\ \A p \in Peers : inventory[p] # <<>> => "add" \in Commands[p]
SimInv == Proved!TypeOK /\ Recorded /\ Stocked

\* The types that the steps of the clients need, in the words of this module.
LEMMA TypesHere ==
    ASSUME Proved!TypeOK
    PROVE  /\ IsABag(toServer) /\ IsABag(toPeers)
           /\ nextRq \in [Peers -> 1 .. MaxRq + 1]
  BY SameBags DEF Proved!TypeOK, Proved!NetTypeOK

LEMMA BagSend ==
    ASSUME NEW B, IsABag(B), NEW D
    PROVE  /\ IsABag(B (+) SetToBag(D))
           /\ DOMAIN (B (+) SetToBag(D)) = DOMAIN B \cup D
  BY DEF IsABag, (+), SetToBag, BagIn

LEMMA BagTake ==
    ASSUME NEW B, IsABag(B), NEW D
    PROVE  DOMAIN (B (-) SetToBag(D)) \subseteq DOMAIN B
  BY DEF IsABag, (-), SetToBag, BagIn

\* A registration sent leaves the history alone.
LEMMA RegistrationSent ==
    ASSUME IsABag(toServer), NEW p, NEW m, Send(p, m),
           m.command \in {"REGISTER", "DE_REGISTER"}
    PROVE  NewlySent = {}
  <1> DEFINE D == {[from |-> p, msg |-> m]}
  <1>1. toServer' = toServer (+) SetToBag(D)
    BY DEF Send
  <1>2. DOMAIN toServer' = DOMAIN toServer \cup D
    <2> HIDE DEF D
    <2> QED
      BY <1>1, BagSend
  <1> QED
    BY <1>2 DEF NewlySent

\* A search or an offer sent is added to it, also when a copy is on its way.
LEMMA RequestSent ==
    ASSUME IsABag(toServer), Recorded, NEW p, NEW m, Send(p, m),
           m.command \notin {"REGISTER", "DE_REGISTER"}
    PROVE  sent \cup NewlySent = sent \cup {[from |-> p, msg |-> m]}
  <1> DEFINE D == {[from |-> p, msg |-> m]}
  <1>1. toServer' = toServer (+) SetToBag(D)
    BY DEF Send
  <1>2. DOMAIN toServer' = DOMAIN toServer \cup D
    <2> HIDE DEF D
    <2> QED
      BY <1>1, BagSend
  <1> QED
    BY <1>2 DEF NewlySent, Recorded

LEMMA NothingSent == ASSUME UNCHANGED toServer PROVE NewlySent = {}
  BY DEF NewlySent

\* Nothing gets on its way to the server but what is recorded.
LEMMA RecordedKept ==
    ASSUME Recorded, sent \subseteq sent', NewlySent \subseteq sent'
    PROVE  Recorded'
  BY DEF Recorded, NewlySent

-------------------------------------------------------------------------------
(* Every step of a client is one that a peer of OpenServer may take.        *)

\* A command that takes a number and sends m, or fails to.
LEMMA Commanded ==
    ASSUME NEW p \in Peers, NEW m, NEW state, NEW op,
           TakesNumber(p), SendThenAssign(p, m, state), UNCHANGED <<serverVars, faults>>,
           op \in RolesOf(p)
    PROVE  /\ Send(p, m) \/ UNCHANGED toServer
           /\ Proved!Does(p, op)
           /\ UNCHANGED toServer /\ UNCHANGED sent => Proved!PeerFails(p)
  <1>1. Proved!Does(p, op) /\ Proved!Does(p, "fail")
    BY DEF TakesNumber, SendThenAssign, Proved!Does, RolesOf, serverVars, Proved!serverVars
  <1> QED
    BY <1>1 DEF SendThenAssign, Proved!PeerFails

LEMMA RegistrationSimulated ==
    ASSUME SimInv, NEW p \in Peers, TakesNumber(p), UNCHANGED <<serverVars, faults>>,
           sent' = sent \cup NewlySent,
           \/ /\ SendThenAssign(p, RegisterMsg(p, nextRq[p]), "REGISTERING")
              /\ "register" \in RolesOf(p)
           \/ /\ SendThenAssign(p, DeregisterMsg(p, nextRq[p]), "UNREGISTERED")
              /\ "deregister" \in RolesOf(p)
    PROVE  Proved!PeersNext
  <1>0. IsABag(toServer)
    BY TypesHere DEF SimInv
  <1>1. /\ RegisterMsg(p, nextRq[p]).command \in {"REGISTER", "DE_REGISTER"}
        /\ DeregisterMsg(p, nextRq[p]).command \in {"REGISTER", "DE_REGISTER"}
    BY DEF RegisterMsg, DeregisterMsg
  <1>2. CASE UNCHANGED toServer
    <2>1. UNCHANGED sent
      BY <1>2, NothingSent
    <2> QED
      BY <1>2, <2>1, Commanded DEF Proved!PeersNext
  <1>3. CASE Send(p, RegisterMsg(p, nextRq[p])) /\ "register" \in RolesOf(p)
             /\ SendThenAssign(p, RegisterMsg(p, nextRq[p]), "REGISTERING")
    <2>1. UNCHANGED sent
      BY <1>0, <1>1, <1>3, RegistrationSent
    <2>2. Proved!PeerRegisters(p)
      BY <1>3, <2>1, Commanded, SameNetwork, SameMessages DEF Proved!PeerRegisters
    <2> QED
      BY <2>2 DEF Proved!PeersNext
  <1>4. CASE Send(p, DeregisterMsg(p, nextRq[p])) /\ "deregister" \in RolesOf(p)
             /\ SendThenAssign(p, DeregisterMsg(p, nextRq[p]), "UNREGISTERED")
    <2>1. UNCHANGED sent
      BY <1>0, <1>1, <1>4, RegistrationSent
    <2>2. Proved!PeerDeregisters(p)
      BY <1>4, <2>1, Commanded, SameNetwork, SameMessages DEF Proved!PeerDeregisters
    <2> QED
      BY <2>2 DEF Proved!PeersNext
  <1> QED
    BY <1>2, <1>3, <1>4 DEF SendThenAssign

\* A step that changes nothing OpenServer has: no step of it.
LEMMA Unseen ==
    ASSUME UNCHANGED <<netVars, serverVars, nextRq, faults>>, sent' = sent \cup NewlySent
    PROVE  UNCHANGED Proved!vars
  BY NothingSent DEF netVars, serverVars, Proved!vars, Proved!netVars, Proved!serverVars

LEMMA CommandSimulated ==
    ASSUME SimInv, NEW p \in Peers, CommandThread(p), sent' = sent \cup NewlySent,
           UNCHANGED <<serverVars, faults>>
    PROVE  [Proved!Next]_Proved!vars
  <1>0. IsABag(toServer) /\ Recorded
    BY TypesHere DEF SimInv
  <1>1. Proved!PeersNext => Proved!Next
    BY DEF Proved!Next
  <1>2. CASE RegisterWithServer(p)
    <2>1. "register" \in RolesOf(p)
      BY <1>2 DEF RegisterWithServer, Runs, RolesOf
    <2> QED
      BY <1>1, <1>2, <2>1, RegistrationSimulated DEF RegisterWithServer
  <1>3. CASE Deregister(p)
    <2>1. "deregister" \in RolesOf(p)
      BY <1>3 DEF Deregister, Runs, RolesOf
    <2> QED
      BY <1>1, <1>3, <2>1, RegistrationSimulated DEF Deregister
  <1>4. CASE SearchItem(p)
    <2>1. "search" \in RolesOf(p)
      BY <1>4 DEF SearchItem, Runs, RolesOf
    <2>2. PICK i \in Items, max \in Prices :
            SendThenAssign(p, LookingForMsg(p, nextRq[p], i, max), "SEARCHING")
      BY <1>4 DEF SearchItem
    <2> DEFINE m == LookingForMsg(p, nextRq[p], i, max)
    <2>3. m.command = "LOOKING_FOR"
      BY DEF LookingForMsg
    <2>4. CASE UNCHANGED toServer
      BY <1>1, <1>4, <2>1, <2>2, <2>4, NothingSent, Commanded DEF SearchItem, Proved!PeersNext
    <2>5. CASE Send(p, m)
      <3>1. sent' = sent \cup {[from |-> p, msg |-> m]}
        BY <1>0, <2>3, <2>5, RequestSent
      <3>2. m = Proved!LookingForMsg(p, nextRq[p], i, max) /\ Proved!Send(p, m)
        BY <2>5, SameNetwork, SameMessages
      <3>3. Proved!Does(p, "search")
        BY <1>4, <2>1, <2>2, Commanded DEF SearchItem
      <3>4. Proved!PeerSearches(p)
        BY <3>1, <3>2, <3>3 DEF Proved!PeerSearches
      <3> QED
        BY <1>1, <3>4 DEF Proved!PeersNext
    <2> QED
      BY <2>2, <2>4, <2>5 DEF SendThenAssign
  <1>5. CASE AssignState(p)
    BY <1>5, Unseen DEF AssignState
  <1>6. CASE Quit(p)
    <2>1. "deregister" \in RolesOf(p)
      BY <1>6 DEF Quit, Runs, RolesOf
    <2>2. CASE /\ TakesNumber(p)
               /\ SendThenAssign(p, DeregisterMsg(p, nextRq[p]), "UNREGISTERED")
      BY <1>1, <2>1, <2>2, RegistrationSimulated
    <2>3. CASE UNCHANGED <<netVars, assigning, quitting, nextRq>>
      BY <2>3, Unseen
    <2> QED
      BY <1>6, <2>2, <2>3 DEF Quit
  <1>7. CASE InputEnds(p) \/ AddItem(p) \/ RemoveItem(p)
    BY <1>7, Unseen DEF InputEnds, AddItem, RemoveItem
  <1> QED
    BY <1>2, <1>3, <1>4, <1>5, <1>6, <1>7 DEF CommandThread

-------------------------------------------------------------------------------
(* The inventories: an item found in one is one of its entries.             *)

LEMMA LeastNumber ==
    ASSUME NEW I, I \subseteq Nat, I # {}
    PROVE  Min(I) \in I
  <1> DEFINE R == StrictSubsetOrdering(Nat)
             T == {1 .. x : x \in I}
  <1>1. IsWellFoundedOn(R, FiniteSubsetsOf(Nat))
    BY FS_StrictSubsetOrderingWellFounded
  <1>2. T \subseteq FiniteSubsetsOf(Nat) /\ T # {}
    <2>1. ASSUME NEW x \in I
          PROVE  1 .. x \in SUBSET Nat /\ IsFiniteSet(1 .. x)
      BY FS_Interval
    <2> QED
      BY <2>1 DEF FiniteSubsetsOf
  <1>3. \E u \in T : \A v \in T : ~(<<v, u>> \in R)
    <2> HIDE DEF R, T
    <2> QED
      BY <1>1, <1>2, WFMin
  <1>4. PICK x \in I : \A y \in I : ~(<<1 .. y, 1 .. x>> \in R)
    BY <1>3
  <1>5. ASSUME NEW y \in I PROVE x =< y
    <2>1. ~(1 .. y \subseteq 1 .. x /\ 1 .. y # 1 .. x)
      <3>1. 1 .. y \in SUBSET Nat /\ 1 .. x \in SUBSET Nat
        OBVIOUS
      <3> QED
        BY <1>4, <3>1 DEF StrictSubsetOrdering
    <2>2. SUFFICES ASSUME y < x PROVE FALSE
      BY <1>5
    <2>3. 1 .. y \subseteq 1 .. x /\ x \in 1 .. x /\ x \notin 1 .. y
      BY <1>5, <2>2
    <2> QED
      BY <2>1, <2>3
  <1> QED
    BY <1>5 DEF Min

LEMMA FirstItemListed ==
    ASSUME NEW p, NEW name, inventory[p] \in Seq(Item), FirstItem(p, name) # 0
    PROVE  FirstItem(p, name) \in 1 .. Len(inventory[p])
  <1> DEFINE I == {i \in 1 .. Len(inventory[p]) : inventory[p][i].name = name}
  <1>1. FirstItem(p, name) = IF I # {} THEN Min(I) ELSE 0
    BY DEF FirstItem, SelectInSeq
  <1>2. I \subseteq Nat
    OBVIOUS
  <1>3. FirstItem(p, name) \in I
    <2> HIDE DEF I
    <2> QED
      BY <1>1, <1>2, LeastNumber
  <1> QED
    BY <1>3

LEMMA RemovedItem ==
    ASSUME NEW s \in Seq(Item), NEW j \in 1 .. Len(s)
    PROVE  RemoveAt(s, j) \in Seq(Item)
  <1>1. SubSeq(s, 1, j - 1) \in Seq(Item) /\ SubSeq(s, j + 1, Len(s)) \in Seq(Item)
    OBVIOUS
  <1> HIDE DEF Item
  <1> QED
    BY <1>1 DEF RemoveAt

LEMMA StockedCommand ==
    ASSUME Stocked, NEW p \in Peers, CommandThread(p)
    PROVE  Stocked'
  <1>1. CASE UNCHANGED inventory
    BY <1>1 DEF Stocked
  <1>2. CASE AddItem(p)
    <2>1. PICK item \in Item : inventory' = [inventory EXCEPT ![p] = Append(@, item)]
      BY <1>2 DEF AddItem
    <2>2. Append(inventory[p], item) \in Seq(Item)
      BY DEF Stocked
    <2> QED
      BY <1>2, <2>1, <2>2 DEF AddItem, Runs, Stocked
  <1>3. CASE RemoveItem(p)
    <2>1. PICK name \in Items :
            /\ FirstItem(p, name) # 0
            /\ inventory' = [inventory EXCEPT ![p] = RemoveAt(@, FirstItem(p, name))]
      BY <1>3 DEF RemoveItem
    <2>2. inventory[p] \in Seq(Item)
      BY DEF Stocked
    <2>3. FirstItem(p, name) \in 1 .. Len(inventory[p])
      BY <2>1, <2>2, FirstItemListed
    <2>4. RemoveAt(inventory[p], FirstItem(p, name)) \in Seq(Item) /\ inventory[p] # <<>>
      BY <2>2, <2>3, RemovedItem
    <2> QED
      BY <2>1, <2>4 DEF Stocked
  <1> QED
    BY <1>1, <1>2, <1>3
       DEF CommandThread, RegisterWithServer, Deregister, SearchItem, AssignState, Quit, InputEnds

LEMMA ReceiveSimulated ==
    ASSUME SimInv, NEW p \in Peers, ReceiveThread(p), sent' = sent \cup NewlySent,
           UNCHANGED <<serverVars, faults>>
    PROVE  [Proved!Next]_Proved!vars
  <1>0. IsABag(toServer) /\ Recorded /\ Stocked
    BY TypesHere DEF SimInv
  <1>1. PICK d \in DOMAIN toPeers : HandleSearchEvent(p, d) \/ HandleReceivedMessage(p, d)
    BY DEF ReceiveThread
  <1>2. d.to = p /\ Deliver(d) /\ UNCHANGED nextRq
    BY <1>1 DEF HandleSearchEvent, HandleReceivedMessage, clientVars
  <1>3. CASE UNCHANGED toServer
    <2>1. UNCHANGED sent
      BY <1>3, NothingSent
    <2>2. Proved!NetworkNext
      BY <1>2, <1>3, SameNetwork DEF Proved!NetworkNext, Proved!LoseToPeer
    <2> QED
      BY <1>2, <2>1, <2>2 DEF Proved!Next, serverVars, Proved!serverVars
  <1>4. CASE HandleSearchEvent(p, d) /\ ~UNCHANGED toServer
    <2> DEFINE k == FirstItem(p, d.msg.item_name)
               m == OfferMsg(p, d.msg.rq, d.msg.item_name, inventory[p][k].price)
    <2>1. k # 0 /\ Send(p, m) /\ d.msg.command = "SEARCH"
      BY <1>4 DEF HandleSearchEvent
    <2>2. inventory[p] \in Seq(Item)
      BY <1>0 DEF Stocked
    <2>3. k \in 1 .. Len(inventory[p])
      BY <2>1, <2>2, FirstItemListed
    <2>4. inventory[p] # <<>> /\ inventory[p][k].price \in Prices
      <3> HIDE DEF k
      <3>1. inventory[p][k] \in Item /\ Len(inventory[p]) # 0
        BY <2>2, <2>3
      <3> QED
        BY <3>1 DEF Item
    <2>5. "sell" \in RolesOf(p)
      BY <1>0, <2>4 DEF Stocked, RolesOf
    <2>6. m.command = "OFFER"
      BY DEF OfferMsg
    <2>7. sent' = sent \cup {[from |-> p, msg |-> m]}
      BY <1>0, <2>1, <2>6, RequestSent
    <2>8. m = Proved!OfferMsg(p, d.msg.rq, d.msg.item_name, inventory[p][k].price)
      BY SameMessages
    <2>9. Proved!Deliver(d) /\ Proved!Send(p, m)
      BY <1>2, <2>1, SameNetwork
    <2> HIDE DEF m
    <2>10. Proved!PeerOffers(p, d)
      BY <1>2, <2>1, <2>4, <2>5, <2>7, <2>8, <2>9
         DEF Proved!PeerOffers, serverVars, Proved!serverVars
    <2> QED
      BY <2>10 DEF Proved!PeersNext, Proved!Next
  <1> QED
    BY <1>1, <1>3, <1>4 DEF HandleReceivedMessage

LEMMA ReceiveRecorded ==
    ASSUME IsABag(toServer), Recorded, NEW d, Receive(d)
    PROVE  DOMAIN toServer' \subseteq DOMAIN toServer
  <1> DEFINE D == {d}
  <1>1. toServer' = toServer (-) SetToBag(D)
    BY DEF Receive
  <1> HIDE DEF D
  <1> QED
    BY <1>1, BagTake

\* The server records nothing and sends nothing to itself.
LEMMA ServerRecorded ==
    ASSUME IsABag(toServer), Recorded, ServerNext, UNCHANGED sent
    PROVE  Recorded'
  <1>1. \/ toServer' = toServer
        \/ \E d \in DOMAIN toServer : Receive(d)
    BY DEF ServerNext, Handle, WorkerSteps, HandleRegister, HandleDeregister, HandleUnknown,
       StartSearch, HandleOffer, Takes, StoreSearch, BroadcastSearch, PushEvent, TimerFires,
       ProcessEvent, Tick, netVars
  <1> QED
    BY <1>1, ReceiveRecorded DEF Recorded

LEMMA FaultSimulated ==
    ASSUME FaultsNext
    PROVE  Proved!Next
  <1>1. CASE ClientRestarts
    <2>1. PICK p \in Restarters : Restart(p)
      BY <1>1 DEF ClientRestarts
    <2>2. p \in Peers /\ "restart" \in RolesOf(p)
      BY RestartersAssumption DEF RolesOf
    <2>3. Proved!PeerRestarts(p)
      BY <2>1, <2>2 DEF Proved!PeerRestarts, Restart, netVars, Proved!netVars
    <2> QED
      BY <2>2, <2>3 DEF FaultsNext, Proved!FaultsNext, Proved!Next, serverVars,
         Proved!serverVars
  <1>2. CASE NetworkDuplicates
    <2>1. Proved!NetworkDuplicates
      BY <1>2, SameNetwork DEF NetworkDuplicates, clientVars, Proved!NetworkDuplicates
    <2> QED
      BY <2>1 DEF FaultsNext, Proved!FaultsNext, Proved!Next, serverVars, Proved!serverVars
  <1> QED
    BY <1>1, <1>2 DEF FaultsNext

LEMMA StepSimulated ==
    ASSUME SimInv, [Next]_vars
    PROVE  [Proved!Next]_Proved!vars
  <1>1. CASE ServerNext /\ UNCHANGED <<clientVars, sent, faultVars>>
    BY <1>1, SameServer DEF clientVars, faultVars, Proved!Next
  <1>2. CASE ClientsNext
    BY <1>2, CommandSimulated, ReceiveSimulated DEF ClientsNext, faultVars
  <1>3. CASE FaultsNext
    BY <1>3, FaultSimulated
  <1>4. CASE UNCHANGED vars
    BY <1>4 DEF vars, clientVars, faultVars, netVars, serverVars, Proved!vars, Proved!netVars,
       Proved!serverVars
  <1> QED
    BY <1>1, <1>2, <1>3, <1>4 DEF Next

\* A second copy of a datagram is not a new one.
LEMMA Duplicated ==
    ASSUME NEW B, IsABag(B), NEW d \in DOMAIN B
    PROVE  DOMAIN (B (+) SetToBag({d})) = DOMAIN B
  <1> DEFINE D == {d}
  <1>1. D \subseteq DOMAIN B
    OBVIOUS
  <1> HIDE DEF D
  <1>2. DOMAIN (B (+) SetToBag(D)) = DOMAIN B
    BY <1>1, BagSend
  <1> QED
    BY <1>2 DEF D

LEMMA SimInvStep == SimInv /\ [Next]_vars => SimInv'
  <1> SUFFICES ASSUME SimInv, [Next]_vars PROVE SimInv'
    OBVIOUS
  <1>0. IsABag(toServer) /\ Recorded /\ Stocked /\ Proved!TypeOK
    BY TypesHere DEF SimInv
  <1>1. Proved!TypeOK'
    BY <1>0, StepSimulated, Assumptions, Proved!TypeStep, PricesAssumption, MaxRqAssumption,
       WindowAssumption, StallsAssumption
  <1>2. Recorded' /\ Stocked'
    <2>1. CASE ServerNext /\ UNCHANGED <<clientVars, sent, faultVars>>
      BY <1>0, <2>1, ServerRecorded DEF clientVars, Stocked
    <2>2. CASE ClientsNext
      <3>1. Recorded'
        BY <1>0, <2>2, RecordedKept DEF ClientsNext
      <3>2. Stocked'
        BY <1>0, <2>2, StockedCommand
           DEF ClientsNext, ReceiveThread, HandleSearchEvent, HandleReceivedMessage, clientVars,
               Stocked
      <3> QED
        BY <3>1, <3>2
    <2>3. CASE ClientRestarts /\ UNCHANGED sent
      <3>1. PICK p \in Restarters : inventory' = [inventory EXCEPT ![p] = <<>>]
        BY <2>3 DEF ClientRestarts, Restart
      <3>2. Stocked'
        <4>1. <<>> \in Seq(Item) /\ inventory \in [Peers -> Seq(Item)]
          BY <1>0 DEF Stocked
        <4>2. inventory' \in [Peers -> Seq(Item)]
          BY <3>1, <4>1
        <4>3. \A q \in Peers : inventory'[q] = <<>> \/ inventory'[q] = inventory[q]
          BY <3>1, <4>1
        <4> QED
          BY <1>0, <4>2, <4>3 DEF Stocked
      <3> QED
        BY <1>0, <2>3, <3>2 DEF ClientRestarts, Restart, netVars, Recorded
    <2>4. CASE NetworkDuplicates /\ UNCHANGED sent
      <3>1. DOMAIN toServer' = DOMAIN toServer
        BY <1>0, <2>4, Duplicated DEF NetworkDuplicates, DuplicateToServer, DuplicateToPeer
      <3> QED
        BY <1>0, <2>4, <3>1 DEF NetworkDuplicates, clientVars, Recorded, Stocked
    <2>5. CASE UNCHANGED vars
      BY <1>0, <2>5 DEF vars, clientVars, netVars, Recorded, Stocked
    <2> QED
      BY <2>1, <2>2, <2>3, <2>4, <2>5 DEF Next, FaultsNext
  <1> QED
    BY <1>1, <1>2 DEF SimInv

LEMMA SimInvInit == Init => SimInv /\ Proved!Init
  <1> SUFFICES ASSUME Init PROVE SimInv /\ Proved!Init
    OBVIOUS
  <1>1. Proved!Init
    BY SameNetwork, SameTables DEF Init, ClientInit, Proved!Init
  <1>2. Proved!TypeOK
    BY <1>1, Assumptions, Proved!TypeInit, PricesAssumption, MaxRqAssumption,
       WindowAssumption, StallsAssumption
  <1>3. DOMAIN toServer = {} /\ inventory = [p \in Peers |-> <<>>]
    BY DEF Init, NetInit, ClientInit, EmptyBag, SetToBag
  <1> QED
    BY <1>1, <1>2, <1>3 DEF SimInv, Recorded, Stocked

LEMMA SimInvAlways == Spec => []SimInv
  BY SimInvInit, SimInvStep, PTL DEF Spec

(***************************************************************************)
(* The whole system implements the server in its open environment          *)
(* (client.cpp: what its threads send, and when).                          *)
(***************************************************************************)
THEOREM SystemIsAnOpenServer == Spec => ImplementsOpenServer
  <1>1. Spec => Proved!Spec
    BY SimInvInit, SimInvAlways, StepSimulated, PTL DEF Spec, Proved!Spec
  <1> QED
    BY <1>1, SameSpec DEF ImplementsOpenServer

-------------------------------------------------------------------------------
(***************************************************************************)
(* What a client believes.  A registered client may make one request, a    *)
(* search or its departure, and must be told that it is registered, or     *)
(* what its search found, before it may make another.  That permission is  *)
(* in one place at a time: on its way to the client, free for the command  *)
(* thread to use, in a request on its way, with a worker, or in the table. *)
(* While there is one the client has a session, for the only thing that    *)
(* drops a session is a departure, which uses the permission up.  A killed *)
(* client loses a free one and makes none.  The network makes a second one *)
(* of whatever it duplicates: nothing is said of a client with a decisive  *)
(* datagram duplicated.                                                    *)
(***************************************************************************)
Asking(p) == {d \in DOMAIN toServer :
                d.from = p /\ d.msg.command \in {"LOOKING_FOR", "DE_REGISTER"}}
Telling(p) == {d \in DOMAIN toPeers :
                 d.to = p /\ d.msg.command \in {"REGISTERED", "FOUND", "NOT_AVAILABLE"}}
Asks(p) == Copies(toServer, Asking(p))
Told(p) == Copies(toPeers, Telling(p))
Stores(p) == {w \in DOMAIN jobs : jobs[w].at = "store" /\ jobs[w].from = p}
Files(p) == {r \in Rqs : Pending(r) /\ searches[r].searcher = p}
Free(p) == {x \in {p} : clientState[p] = "REGISTERED" /\ assigning[p] = "none"}
Permits(p) ==
    ({"asks"} \X Asks(p)) \cup ({"told"} \X Told(p)) \cup ({"stores"} \X Stores(p))
      \cup ({"files"} \X Files(p)) \cup ({"free"} \X Free(p))

\* A departure, or a search, of p is under way.
Leaving(p) == \E d \in DOMAIN toServer : d.from = p /\ d.msg.command = "DE_REGISTER"
Looking(p) ==
    \/ \E d \in DOMAIN toServer : d.from = p /\ d.msg.command = "LOOKING_FOR"
    \/ \E d \in DOMAIN toPeers : d.to = p /\ d.msg.command \in {"FOUND", "NOT_AVAILABLE"}
    \/ Stores(p) # {} \/ Files(p) # {}

Settled(p) == Live(p) /\ ~Leaving(p)
AtMostOnePermit(p) == \A x, y \in Permits(p) : x = y
Agrees(p) ==
    /\ AtMostOnePermit(p)
    /\ Permits(p) # {} => Live(p)
    /\ clientState[p] \in {"REGISTERED", "SEARCHING", "NEGOTIATING"} =>
         assigning[p] = "UNREGISTERED" \/ Settled(p)
    /\ assigning[p] = "SEARCHING" => Settled(p)
    /\ p \notin restarted /\ Looking(p) =>
         \/ assigning[p] = "SEARCHING"
         \/ clientState[p] = "SEARCHING" /\ assigning[p] = "none"
BeliefInv ==
    /\ clientState \in [Peers -> ClientStates]
    /\ assigning \in [Peers -> {"none", "REGISTERING", "UNREGISTERED", "SEARCHING"}]
    /\ \A p \in Peers \ doubled : Agrees(p)

\* The copies in a bag, one datagram more or less.
LEMMA CopyAdded ==
    ASSUME NEW B, IsABag(B), NEW d, NEW D, D = {d}, NEW S, S \subseteq DOMAIN B, NEW T,
           T \subseteq S \cup {d}, d \in DOMAIN B /\ d \in T => d \in S
    PROVE  /\ \E x : Copies(B (+) SetToBag(D), T) \subseteq Copies(B, S) \cup {x}
           /\ d \notin T => Copies(B (+) SetToBag(D), T) \subseteq Copies(B, S)
  <1> DEFINE C == B (+) SetToBag(D)
             n == IF d \in DOMAIN B THEN B[d] + 1 ELSE 1
  <1>1. C[d] = n /\ \A e \in DOMAIN B : e # d => C[e] = B[e]
    <2>1. C[d] = n
      BY DEF IsABag, (+), SetToBag, BagIn
    <2>2. \A e \in DOMAIN B : e # d => C[e] = B[e]
      BY DEF IsABag, (+), SetToBag, BagIn
    <2> QED
      BY <2>1, <2>2
  <1>2. \A e \in DOMAIN B : B[e] \in Nat \ {0}
    BY DEF IsABag
  <1>3. 1 .. n = (IF d \in DOMAIN B THEN 1 .. B[d] ELSE {}) \cup {n}
    BY <1>2
  <1>4. \A x : x \in Copies(B, S) <=> \E e \in S : \E k \in 1 .. B[e] : x = <<e, k>>
    BY DEF Copies
  <1>5. \A x : x \in Copies(C, T) <=> \E e \in T : \E k \in 1 .. C[e] : x = <<e, k>>
    BY DEF Copies
  <1> HIDE DEF C, n
  <1>6. Copies(C, T) \subseteq Copies(B, S) \cup {<<d, n>>}
    BY <1>1, <1>3, <1>4, <1>5
  <1>7. d \notin T => Copies(C, T) \subseteq Copies(B, S)
    BY <1>1, <1>4, <1>5
  <1> QED
    BY <1>6, <1>7 DEF C

LEMMA CopyTaken ==
    ASSUME NEW B, IsABag(B), NEW d \in DOMAIN B, NEW D, D = {d}, NEW S, S \subseteq DOMAIN B,
           NEW T, T \subseteq S \cap DOMAIN (B (-) SetToBag(D))
    PROVE  /\ Copies(B (-) SetToBag(D), T) \subseteq Copies(B, S) \ {<<d, B[d]>>}
           /\ d \in S => <<d, B[d]>> \in Copies(B, S)
  <1> DEFINE C == B (-) SetToBag(D)
  <1>1. \A e \in DOMAIN C : e \in DOMAIN B /\ C[e] = IF e = d THEN B[e] - 1 ELSE B[e]
    BY DEF IsABag, (-), SetToBag, BagIn
  <1>2. \A e \in DOMAIN B : B[e] \in Nat \ {0}
    BY DEF IsABag
  <1>3. \A x : x \in Copies(B, S) <=> \E e \in S : \E k \in 1 .. B[e] : x = <<e, k>>
    BY DEF Copies
  <1>4. \A x : x \in Copies(C, T) <=> \E e \in T : \E k \in 1 .. C[e] : x = <<e, k>>
    BY DEF Copies
  <1> HIDE DEF C
  <1>5. Copies(C, T) \subseteq Copies(B, S) \ {<<d, B[d]>>}
    BY <1>1, <1>2, <1>3, <1>4 DEF C
  <1>6. d \in S => <<d, B[d]>> \in Copies(B, S)
    BY <1>2, <1>3
  <1> QED
    BY <1>5, <1>6 DEF C

\* A datagram more, or less, among those p sends.
LEMMA AsksAdded ==
    ASSUME IsABag(toServer), NEW p, NEW q, NEW m, Send(q, m)
    PROVE  /\ \E x : Asks(p)' \subseteq Asks(p) \cup {x}
           /\ q # p \/ m.command \notin {"LOOKING_FOR", "DE_REGISTER"} => Asks(p)' \subseteq Asks(p)
           /\ Leaving(p)' => Leaving(p) \/ (q = p /\ m.command = "DE_REGISTER")
           /\ DOMAIN toServer' = DOMAIN toServer \cup {[from |-> q, msg |-> m]}
  <1> DEFINE d == [from |-> q, msg |-> m]
             D == {d}
  <1>1. toServer' = toServer (+) SetToBag(D)
    BY DEF Send
  <1>2. d.from = q /\ d.msg = m
    OBVIOUS
  <1> HIDE DEF d
  <1>3. D = {d}
    OBVIOUS
  <1> HIDE DEF D
  <1>4. DOMAIN toServer' = DOMAIN toServer \cup {d}
    BY <1>1, <1>3, BagSend
  <1>5. /\ Asking(p) \subseteq DOMAIN toServer /\ Asking(p)' \subseteq Asking(p) \cup {d}
        /\ d \in DOMAIN toServer /\ d \in Asking(p)' => d \in Asking(p)
        /\ d \in Asking(p)' => q = p /\ m.command \in {"LOOKING_FOR", "DE_REGISTER"}
    BY <1>2, <1>4 DEF Asking
  <1>6. /\ \E x : Copies(toServer', Asking(p)') \subseteq Copies(toServer, Asking(p)) \cup {x}
        /\ d \notin Asking(p)' =>
             Copies(toServer', Asking(p)') \subseteq Copies(toServer, Asking(p))
    BY <1>1, <1>3, <1>5, CopyAdded
  <1>7. Asks(p)' = Copies(toServer', Asking(p)')
    BY DEF Asks, Copies
  <1> QED
    BY <1>2, <1>4, <1>5, <1>6, <1>7 DEF Asks, Leaving, d

LEMMA AsksTaken ==
    ASSUME IsABag(toServer), NEW p, NEW d \in DOMAIN toServer, Receive(d)
    PROVE  /\ Asks(p)' \subseteq Asks(p)
           /\ d \in Asking(p) => \E x \in Asks(p) : Asks(p)' \subseteq Asks(p) \ {x}
           /\ DOMAIN toServer' \subseteq DOMAIN toServer
           /\ Leaving(p)' => Leaving(p)
  <1> DEFINE D == {d}
  <1>1. toServer' = toServer (-) SetToBag(D)
    BY DEF Receive
  <1>2. D = {d}
    OBVIOUS
  <1> HIDE DEF D
  <1>3. DOMAIN toServer' \subseteq DOMAIN toServer
    BY <1>1, BagTake
  <1>4. /\ Asking(p) \subseteq DOMAIN toServer
        /\ Asking(p)' \subseteq Asking(p) \cap DOMAIN (toServer (-) SetToBag(D))
    BY <1>1, <1>3 DEF Asking
  <1> DEFINE S == Asking(p)
             T == Asking(p)'
  <1>5. /\ Copies(toServer', T) \subseteq Copies(toServer, S) \ {<<d, toServer[d]>>}
        /\ d \in S => <<d, toServer[d]>> \in Copies(toServer, S)
    <2> HIDE DEF S, T
    <2>1. S \subseteq DOMAIN toServer /\ T \subseteq S \cap DOMAIN (toServer (-) SetToBag(D))
      BY <1>4 DEF S, T
    <2> QED
      BY <1>1, <1>2, <2>1, CopyTaken
  <1>6. Asks(p)' = Copies(toServer', Asking(p)')
    BY DEF Asks, Copies
  <1> QED
    BY <1>3, <1>5, <1>6 DEF Asks, Leaving

\* A datagram more, or less, among those p is sent.
LEMMA ToldAdded ==
    ASSUME IsABag(toPeers), NEW p, NEW q, NEW m, Reply(q, m)
    PROVE  /\ \E x : Told(p)' \subseteq Told(p) \cup {x}
           /\ q # p \/ m.command \notin {"REGISTERED", "FOUND", "NOT_AVAILABLE"} =>
                Told(p)' \subseteq Told(p)
           /\ DOMAIN toPeers' = DOMAIN toPeers \cup {[to |-> q, msg |-> m]}
  <1> DEFINE d == [to |-> q, msg |-> m]
             D == {d}
  <1>1. toPeers' = toPeers (+) SetToBag(D)
    BY DEF Reply
  <1>2. d.to = q /\ d.msg = m
    OBVIOUS
  <1> HIDE DEF d
  <1>3. D = {d}
    OBVIOUS
  <1> HIDE DEF D
  <1>4. DOMAIN toPeers' = DOMAIN toPeers \cup {d}
    BY <1>1, <1>3, BagSend
  <1>5. /\ Telling(p) \subseteq DOMAIN toPeers /\ Telling(p)' \subseteq Telling(p) \cup {d}
        /\ d \in DOMAIN toPeers /\ d \in Telling(p)' => d \in Telling(p)
        /\ d \in Telling(p)' => q = p /\ m.command \in {"REGISTERED", "FOUND", "NOT_AVAILABLE"}
    BY <1>2, <1>4 DEF Telling
  <1>6. /\ \E x : Copies(toPeers', Telling(p)') \subseteq Copies(toPeers, Telling(p)) \cup {x}
        /\ d \notin Telling(p)' =>
             Copies(toPeers', Telling(p)') \subseteq Copies(toPeers, Telling(p))
    BY <1>1, <1>3, <1>5, CopyAdded
  <1>7. Told(p)' = Copies(toPeers', Telling(p)')
    BY DEF Told, Copies
  <1> QED
    BY <1>4, <1>5, <1>6, <1>7 DEF Told, d

LEMMA ToldTaken ==
    ASSUME IsABag(toPeers), NEW p, NEW d \in DOMAIN toPeers, Deliver(d)
    PROVE  /\ Told(p)' \subseteq Told(p)
           /\ d \in Telling(p) => \E x \in Told(p) : Told(p)' \subseteq Told(p) \ {x}
           /\ DOMAIN toPeers' \subseteq DOMAIN toPeers
  <1> DEFINE D == {d}
  <1>1. toPeers' = toPeers (-) SetToBag(D)
    BY DEF Deliver
  <1>2. D = {d}
    OBVIOUS
  <1> HIDE DEF D
  <1>3. DOMAIN toPeers' \subseteq DOMAIN toPeers
    BY <1>1, BagTake
  <1>4. /\ Telling(p) \subseteq DOMAIN toPeers
        /\ Telling(p)' \subseteq Telling(p) \cap DOMAIN (toPeers (-) SetToBag(D))
    BY <1>1, <1>3 DEF Telling
  <1> DEFINE S == Telling(p)
             T == Telling(p)'
  <1>5. /\ Copies(toPeers', T) \subseteq Copies(toPeers, S) \ {<<d, toPeers[d]>>}
        /\ d \in S => <<d, toPeers[d]>> \in Copies(toPeers, S)
    <2> HIDE DEF S, T
    <2>1. S \subseteq DOMAIN toPeers /\ T \subseteq S \cap DOMAIN (toPeers (-) SetToBag(D))
      BY <1>4 DEF S, T
    <2> QED
      BY <1>1, <1>2, <2>1, CopyTaken
  <1>6. Told(p)' = Copies(toPeers', Telling(p)')
    BY DEF Told, Copies
  <1> QED
    BY <1>3, <1>5, <1>6 DEF Told

\* What the server's part of the permissions needs of the types.
LEMMA TablesHere ==
    ASSUME Proved!TypeOK
    PROVE  /\ SearchesTypeOK
           /\ \A w \in DOMAIN jobs : jobs[w].at = "store" => jobs[w].msg.rq \in Rqs
           /\ DOMAIN toPeers \subseteq [to : Peers, msg : ServerMessages]
  <1>1. Proved!SearchesTypeOK /\ Proved!JobsTypeOK /\ Proved!NetTypeOK
    BY DEF Proved!TypeOK, Proved!ServerTypeOK
  <1>2. SearchesTypeOK
    BY <1>1 DEF Proved!SearchesTypeOK, Proved!SearchRequest, Proved!Offer, Proved!Rqs,
       SearchesTypeOK, SearchRequest, Offer, Rqs
  <1>3. \A w \in DOMAIN jobs : jobs[w].msg \in Proved!ClientMessages
    BY <1>1 DEF Proved!JobsTypeOK, Proved!Job
  <1>4. \A m \in Proved!ClientMessages : m.rq \in Proved!Rqs
    BY DEF Proved!ClientMessages
  <1>5. Proved!ServerMessages = ServerMessages
    BY DEF ServerMessages, Proved!ServerMessages, Rqs, Proved!Rqs
  <1> QED
    BY <1>1, <1>2, <1>3, <1>4, <1>5, SameMessages DEF Proved!NetTypeOK

\* How one step of the server may change what p is permitted.
Kept(p) == Permits(p)' \subseteq Permits(p) /\ (Live(p) => Live(p)')
Moved(p) ==
    /\ \E x \in Permits(p) : \E y : Permits(p)' \subseteq (Permits(p) \ {x}) \cup {y}
    /\ Live(p) => Live(p)'
Opened(p) ==
    /\ ~Live(p) /\ Live(p)'
    /\ \E y : Permits(p)' \subseteq Permits(p) \cup {y}
Closed(p) ==
    /\ Leaving(p)
    /\ \E x \in Permits(p) : Permits(p)' \subseteq Permits(p) \ {x}
Served(p) ==
    /\ Leaving(p)' => Leaving(p)
    /\ Looking(p)' => Looking(p)
    /\ Kept(p) \/ Moved(p) \/ Opened(p) \/ Closed(p)

\* If none of the five grows, the permissions do not.
LEMMA PermitsKept ==
    ASSUME NEW p, Asks(p)' \subseteq Asks(p), Told(p)' \subseteq Told(p),
           Stores(p)' \subseteq Stores(p), Files(p)' \subseteq Files(p),
           Free(p)' \subseteq Free(p)
    PROVE  Permits(p)' \subseteq Permits(p)
  BY DEF Permits

\* The parts of the table no step of another thread changes.
LEMMA StoresKept ==
    ASSUME NEW p, NEW w, NEW d, AfterHandler(w, d)
    PROVE  Stores(p)' \subseteq Stores(p)
  BY DEF AfterHandler, Put, JobAt, Stores

LEMMA FilesKept ==
    ASSUME NEW p, UNCHANGED searches
    PROVE  Files(p)' = Files(p)
  BY DEF Files, Pending

LEMMA FreeKept ==
    ASSUME NEW p, UNCHANGED <<clientState, assigning>>
    PROVE  Free(p)' = Free(p)
  BY DEF Free

\* Nobody who was not looking for something is.
LEMMA LookingKept ==
    ASSUME NEW p, DOMAIN toServer' \subseteq DOMAIN toServer,
           \A d \in DOMAIN toPeers' \ DOMAIN toPeers :
             d.to = p => d.msg.command \notin {"FOUND", "NOT_AVAILABLE"},
           Stores(p)' \subseteq Stores(p), Files(p)' \subseteq Files(p)
    PROVE  Looking(p)' => Looking(p)
  BY DEF Looking

\* A handler that answers nothing and leaves the sessions alone.
LEMMA ServedTaken ==
    ASSUME Proved!TypeOK, NEW p \in Peers, NEW w, NEW d \in DOMAIN toServer, NEW cmd,
           Takes(w, d, cmd), AfterHandler(w, d), UNCHANGED <<clientState, assigning>>,
           Files(p)' \subseteq Files(p), UNCHANGED toPeers, UNCHANGED sessions
    PROVE  Served(p)
  <1>1. /\ Asks(p)' \subseteq Asks(p) /\ Stores(p)' \subseteq Stores(p)
        /\ Free(p)' = Free(p) /\ Told(p)' = Told(p)
        /\ DOMAIN toServer' \subseteq DOMAIN toServer /\ (Leaving(p)' => Leaving(p))
    BY TypesHere, AsksTaken, StoresKept, FreeKept DEF Takes, Told, Telling, Copies
  <1>2. Kept(p)
    BY <1>1, PermitsKept DEF Kept, Live
  <1>3. Looking(p)' => Looking(p)
    BY <1>1, LookingKept
  <1> QED
    BY <1>1, <1>2, <1>3 DEF Served

\* A client without a session gets one, and a permission with it.
LEMMA ServedRegister ==
    ASSUME Proved!TypeOK, NEW p \in Peers, NEW w, NEW d \in DOMAIN toServer,
           HandleRegister(w, d), UNCHANGED <<clientState, assigning>>
    PROVE  Served(p)
  <1>0. IsABag(toServer) /\ IsABag(toPeers) /\ p \in DOMAIN sessions
    BY TypesHere DEF Proved!TypeOK, Proved!ServerTypeOK
  <1>1. /\ Asks(p)' \subseteq Asks(p) /\ Stores(p)' \subseteq Stores(p)
        /\ Free(p)' = Free(p) /\ Files(p)' = Files(p)
        /\ DOMAIN toServer' \subseteq DOMAIN toServer /\ (Leaving(p)' => Leaving(p))
    BY <1>0, AsksTaken, StoresKept, FreeKept, FilesKept DEF HandleRegister, Takes
  <1>2. CASE /\ sessions[d.from] # "absent"
             /\ Reply(d.from, DeniedMsg(d.msg.rq))
             /\ UNCHANGED sessions
    <2>1. DeniedMsg(d.msg.rq).command = "REGISTER-DENIED"
      BY DEF DeniedMsg
    <2>2. /\ Told(p)' \subseteq Told(p)
          /\ DOMAIN toPeers' = DOMAIN toPeers \cup {[to |-> d.from, msg |-> DeniedMsg(d.msg.rq)]}
      BY <1>0, <1>2, <2>1, ToldAdded
    <2>3. Looking(p)' => Looking(p)
      BY <1>1, <2>1, <2>2, LookingKept
    <2> QED
      BY <1>1, <1>2, <2>2, <2>3, PermitsKept DEF Served, Kept, Live
  <1>3. CASE /\ sessions[d.from] = "absent"
             /\ sessions' = WithSession(d.from)
             /\ Reply(d.from, RegisteredMsg(d.msg.rq))
    <2>1. RegisteredMsg(d.msg.rq).command = "REGISTERED"
      BY DEF RegisteredMsg
    <2>2. /\ \E x : Told(p)' \subseteq Told(p) \cup {x}
          /\ d.from # p => Told(p)' \subseteq Told(p)
          /\ DOMAIN toPeers' = DOMAIN toPeers \cup {[to |-> d.from, msg |-> RegisteredMsg(d.msg.rq)]}
      BY <1>0, <1>3, ToldAdded
    <2>3. Looking(p)' => Looking(p)
      BY <1>1, <2>1, <2>2, LookingKept
    <2>4. CASE d.from # p
      <3>1. sessions'[p] = sessions[p]
        BY <1>3, <2>4 DEF WithSession
      <3>2. Permits(p)' \subseteq Permits(p)
        BY <1>1, <2>2, <2>4, PermitsKept
      <3> QED
        BY <1>1, <2>3, <3>1, <3>2 DEF Served, Kept, Live
    <2>5. CASE d.from = p
      <3>1. ~Live(p) /\ Live(p)'
        BY <1>0, <1>3, <2>5 DEF WithSession, Live
      <3>2. \E y : Permits(p)' \subseteq Permits(p) \cup {y}
        <4>1. PICK x : Told(p)' \subseteq Told(p) \cup {x}
          BY <2>2
        <4>2. Permits(p)' \subseteq Permits(p) \cup {<<"told", x>>}
          BY <1>1, <4>1 DEF Permits
        <4> QED
          BY <4>2
      <3> QED
        BY <1>1, <2>3, <3>1, <3>2 DEF Served, Opened
    <2> QED
      BY <2>4, <2>5
  <1> QED
    BY <1>2, <1>3 DEF HandleRegister

\* A departure uses the permission up and drops the session.
LEMMA ServedDeregister ==
    ASSUME Proved!TypeOK, NEW p \in Peers, NEW w, NEW d \in DOMAIN toServer,
           HandleDeregister(w, d), UNCHANGED <<clientState, assigning>>
    PROVE  Served(p)
  <1>0. IsABag(toServer)
    BY TypesHere
  <1>1. /\ Asks(p)' \subseteq Asks(p) /\ Stores(p)' \subseteq Stores(p)
        /\ Free(p)' = Free(p) /\ Files(p)' = Files(p) /\ Told(p)' = Told(p)
        /\ d \in Asking(p) => \E x \in Asks(p) : Asks(p)' \subseteq Asks(p) \ {x}
        /\ DOMAIN toServer' \subseteq DOMAIN toServer /\ (Leaving(p)' => Leaving(p))
    BY <1>0, AsksTaken, StoresKept, FreeKept, FilesKept
       DEF HandleDeregister, Takes, Told, Telling, Copies
  <1>2. Looking(p)' => Looking(p)
    BY <1>1, LookingKept DEF HandleDeregister
  <1>3. CASE d.from # p
    <2>1. Live(p) => Live(p)'
      BY <1>3 DEF HandleDeregister, Live
    <2> QED
      BY <1>1, <1>2, <2>1, PermitsKept DEF Served, Kept
  <1>4. CASE d.from = p
    <2>1. Leaving(p) /\ d \in Asking(p)
      BY <1>4 DEF HandleDeregister, Takes, Leaving, Asking
    <2>2. PICK x \in Asks(p) : Asks(p)' \subseteq Asks(p) \ {x}
      BY <1>1, <2>1
    <2>3. <<"asks", x>> \in Permits(p) /\ Permits(p)' \subseteq Permits(p) \ {<<"asks", x>>}
      BY <1>1, <2>2 DEF Permits
    <2> QED
      BY <1>1, <1>2, <2>1, <2>3 DEF Served, Closed
  <1> QED
    BY <1>3, <1>4

\* A search carries the permission to a worker ...
LEMMA ServedStart ==
    ASSUME Proved!TypeOK, NEW p \in Peers, NEW w, NEW d \in DOMAIN toServer,
           StartSearch(w, d), UNCHANGED <<clientState, assigning>>
    PROVE  Served(p)
  <1>0. IsABag(toServer)
    BY TypesHere
  <1>1. /\ Asks(p)' \subseteq Asks(p)
        /\ Free(p)' = Free(p) /\ Files(p)' = Files(p) /\ Told(p)' = Told(p)
        /\ d \in Asking(p) => \E x \in Asks(p) : Asks(p)' \subseteq Asks(p) \ {x}
        /\ DOMAIN toServer' \subseteq DOMAIN toServer /\ (Leaving(p)' => Leaving(p))
        /\ Live(p)' = Live(p) /\ toPeers' = toPeers
    BY <1>0, AsksTaken, FreeKept, FilesKept DEF StartSearch, Takes, Told, Telling, Copies, Live
  <1>2. /\ Stores(p)' \subseteq Stores(p) \cup {w}
        /\ d.from # p => Stores(p)' \subseteq Stores(p)
    BY DEF StartSearch, Put, JobAt, Stores
  <1>3. CASE d.from # p
    <2>1. Looking(p)' => Looking(p)
      BY <1>1, <1>2, <1>3, LookingKept
    <2> QED
      BY <1>1, <1>2, <1>3, <2>1, PermitsKept DEF Served, Kept
  <1>4. CASE d.from = p
    <2>1. Looking(p) /\ d \in Asking(p)
      BY <1>4 DEF StartSearch, Takes, Looking, Asking
    <2>2. PICK x \in Asks(p) : Asks(p)' \subseteq Asks(p) \ {x}
      BY <1>1, <2>1
    <2>3. /\ <<"asks", x>> \in Permits(p)
          /\ Permits(p)' \subseteq (Permits(p) \ {<<"asks", x>>}) \cup {<<"stores", w>>}
      BY <1>1, <1>2, <2>2 DEF Permits
    <2> QED
      BY <1>1, <2>1, <2>3 DEF Served, Moved
  <1> QED
    BY <1>3, <1>4

\* ... to the table ...
LEMMA ServedStore ==
    ASSUME Proved!TypeOK, NEW p \in Peers, NEW w, StoreSearch(w),
           UNCHANGED <<clientState, assigning>>
    PROVE  Served(p)
  <1>1. /\ Asks(p)' = Asks(p) /\ Told(p)' = Told(p) /\ Free(p)' = Free(p)
        /\ toServer' = toServer /\ toPeers' = toPeers
        /\ (Leaving(p)' <=> Leaving(p)) /\ (Live(p)' <=> Live(p))
    BY FreeKept DEF StoreSearch, netVars, Asks, Asking, Told, Telling, Copies, Leaving, Live
  <1>2. Stores(p)' \subseteq Stores(p) \ {w}
    BY DEF StoreSearch, JobAt, Stores
  <1>3. /\ Files(p)' \subseteq Files(p) \cup {jobs[w].msg.rq}
        /\ jobs[w].from # p => Files(p)' \subseteq Files(p)
    BY DEF StoreSearch, NewSearch, Put, Files, Pending
  <1>4. CASE jobs[w].from # p
    <2>1. Looking(p)' => Looking(p)
      BY <1>1, <1>2, <1>3, <1>4, LookingKept
    <2> QED
      BY <1>1, <1>2, <1>3, <1>4, <2>1, PermitsKept DEF Served, Kept
  <1>5. CASE jobs[w].from = p
    <2>1. w \in Stores(p)
      BY <1>5 DEF StoreSearch, Stores
    <2>2. /\ <<"stores", w>> \in Permits(p)
          /\ Permits(p)' \subseteq (Permits(p) \ {<<"stores", w>>})
                                     \cup {<<"files", jobs[w].msg.rq>>}
      BY <1>1, <1>2, <1>3, <2>1 DEF Permits
    <2> QED
      BY <1>1, <2>1, <2>2 DEF Served, Moved, Looking
  <1> QED
    BY <1>4, <1>5

\* The broadcast tells nobody anything he may act on.
LEMMA ServedBroadcast ==
    ASSUME Proved!TypeOK, NEW p \in Peers, NEW w, BroadcastSearch(w),
           UNCHANGED <<clientState, assigning>>
    PROVE  Served(p)
  <1> DEFINE D == {[to |-> q, msg |-> SearchMsg(jobs[w].msg.rq, jobs[w].msg.item_name)] :
                     q \in Audience(jobs[w].from)}
  <1>1. toPeers' = toPeers (+) SetToBag(D) /\ IsABag(toPeers)
    BY TypesHere DEF BroadcastSearch
  <1>2. \A e \in D : e.msg.command = "SEARCH"
    BY DEF SearchMsg
  <1> HIDE DEF D
  <1>3. /\ DOMAIN toPeers' = DOMAIN toPeers \cup D
        /\ \A e \in DOMAIN toPeers \ D : toPeers'[e] = toPeers[e]
    BY <1>1 DEF IsABag, (+), SetToBag, BagIn
  <1>4. Telling(p)' = Telling(p) /\ \A e \in Telling(p) : toPeers'[e] = toPeers[e]
    BY <1>2, <1>3 DEF Telling
  <1>5. Told(p)' = Told(p)
    BY <1>4 DEF Told, Copies
  <1>6. /\ Asks(p)' = Asks(p) /\ Free(p)' = Free(p) /\ Files(p)' = Files(p)
        /\ toServer' = toServer /\ (Leaving(p)' <=> Leaving(p)) /\ (Live(p)' <=> Live(p))
    BY FreeKept, FilesKept DEF BroadcastSearch, Asks, Asking, Copies, Leaving, Live
  <1>7. Stores(p)' \subseteq Stores(p)
    BY DEF BroadcastSearch, Stores
  <1>8. Looking(p)' => Looking(p)
    BY <1>2, <1>3, <1>6, <1>7, LookingKept
  <1> QED
    BY <1>5, <1>6, <1>7, <1>8, PermitsKept DEF Served, Kept

\* The steps that send and receive nothing and leave each search its place.
LEMMA ServedInside ==
    ASSUME NEW p \in Peers, UNCHANGED <<netVars, clientState, assigning>>,
           Stores(p)' \subseteq Stores(p), Files(p)' \subseteq Files(p), Live(p) => Live(p)'
    PROVE  Served(p)
  <1>1. /\ Asks(p)' = Asks(p) /\ Told(p)' = Told(p) /\ Free(p)' = Free(p)
        /\ toServer' = toServer /\ toPeers' = toPeers /\ (Leaving(p)' <=> Leaving(p))
    BY FreeKept DEF netVars, Asks, Asking, Told, Telling, Copies, Leaving
  <1>2. Looking(p)' => Looking(p)
    BY <1>1, LookingKept
  <1> QED
    BY <1>1, <1>2, PermitsKept DEF Served, Kept

\* The event thread makes sessions null only where there is none.
LEMMA ServedElsewhere ==
    ASSUME Proved!TypeOK, NEW p \in Peers, UNCHANGED <<clientState, assigning>>,
           (\E w \in Workers : PushEvent(w)) \/ ProcessEvent \/ Tick
    PROVE  Served(p)
  <1>0. SearchesTypeOK /\ sessions \in [Peers -> Proved!SessionValues]
    BY TablesHere DEF Proved!TypeOK, Proved!ServerTypeOK
  <1>1. ASSUME NEW w \in Workers, PushEvent(w)
        PROVE  Served(p)
    <2>1. Stores(p)' \subseteq Stores(p)
      BY <1>1 DEF PushEvent, Restrict, Stores
    <2>2. Files(p)' = Files(p)
      BY <1>1, FilesKept DEF PushEvent
    <2> QED
      BY <1>1, <2>1, <2>2, ServedInside DEF PushEvent, Live
  <1>2. CASE ProcessEvent
    <2>1. Live(p) => Live(p)'
      <3> DEFINE e == Head(eventQueue)
      <3>1. CASE ~Live(e.from) /\ sessions' = [sessions EXCEPT ![e.from] = "null"]
        <4>1. p = e.from \/ sessions'[p] = sessions[p]
          BY <1>0, <3>1
        <4> QED
          BY <3>1, <4>1 DEF Live
      <3>2. CASE sessions' = [sessions EXCEPT ![e.from] = NextState(PeerTransitions, @, e.type)]
        <4>1. \A s, t : NextState(PeerTransitions, s, t) \in {s, "REGISTERING"}
          BY DEF NextState, PeerTransitions
        <4>2. sessions'[p] \in {sessions[p], "REGISTERING"}
          BY <1>0, <3>2, <4>1
        <4> QED
          BY <4>2 DEF Live
      <3> QED
        BY <1>2, <3>1, <3>2 DEF ProcessEvent
    <2>2. Stores(p)' = Stores(p) /\ Files(p)' = Files(p)
      BY <1>2, FilesKept DEF ProcessEvent, Stores
    <2> QED
      BY <1>2, <2>1, <2>2, ServedInside DEF ProcessEvent
  <1>3. CASE Tick
    <2>1. Files(p)' \subseteq Files(p)
      <3>1. DOMAIN searches' = DOMAIN searches
        BY <1>3 DEF Tick
      <3>2. ASSUME NEW r \in DOMAIN searches
            PROVE  /\ searches'[r].processed = searches[r].processed
                   /\ searches'[r].searcher = searches[r].searcher
        <4>1. searches'[r] = [searches[r] EXCEPT !.age = Older(@)]
          BY <1>3 DEF Tick
        <4>2. searches[r] \in SearchRequest
          BY <1>0 DEF SearchesTypeOK
        <4> QED
          BY <4>1, <4>2 DEF SearchRequest
      <3> QED
        BY <3>1, <3>2 DEF Files, Pending
    <2>2. Stores(p)' \subseteq Stores(p)
      BY <1>3 DEF Tick, Stores
    <2> QED
      BY <1>3, <2>1, <2>2, ServedInside DEF Tick, Live
  <1> QED
    BY <1>1, <1>2, <1>3

\* An offer changes neither who searches nor whether it is processed.
LEMMA ServedOffer ==
    ASSUME Proved!TypeOK, NEW p \in Peers, NEW w, NEW d \in DOMAIN toServer,
           HandleOffer(w, d), UNCHANGED <<clientState, assigning>>
    PROVE  Served(p)
  <1>1. SearchesTypeOK
    BY TablesHere
  <1>2. Files(p)' \subseteq Files(p)
    <2>1. CASE UNCHANGED searches
      BY <2>1, FilesKept
    <2>2. CASE Collecting(d.msg.rq)
      <3> DEFINE k == d.msg.rq
                 o == [seller |-> d.from, price |-> d.msg.price]
      <3>1. searches' = [searches EXCEPT ![k].offers = Append(@, o)] /\ k \in DOMAIN searches
        BY <2>2 DEF HandleOffer, WithOffer, Collecting, Pending
      <3>2. searches[k] \in SearchRequest
        BY <1>1, <3>1 DEF SearchesTypeOK
      <3> HIDE DEF k, o
      <3>3. /\ DOMAIN searches' = DOMAIN searches
            /\ \A r \in DOMAIN searches : /\ searches'[r].processed = searches[r].processed
                                          /\ searches'[r].searcher = searches[r].searcher
        BY <3>1, <3>2 DEF SearchRequest
      <3> QED
        BY <3>3 DEF Files, Pending
    <2> QED
      BY <2>1, <2>2 DEF HandleOffer
  <1> QED
    BY <1>2, ServedTaken DEF HandleOffer

\* ... and with the answer back to the client, or to nobody.
LEMMA ServedTimer ==
    ASSUME Proved!TypeOK, NEW p \in Peers, NEW t, TimerFires(t),
           UNCHANGED <<clientState, assigning>>
    PROVE  Served(p)
  <1> DEFINE r == timers[t].rq
             s == searches[r]
  <1>0. IsABag(toPeers) /\ SearchesTypeOK
    BY TypesHere, TablesHere
  <1>1. /\ Asks(p)' = Asks(p) /\ Free(p)' = Free(p) /\ Stores(p)' = Stores(p)
        /\ toServer' = toServer /\ (Leaving(p)' <=> Leaving(p)) /\ (Live(p)' <=> Live(p))
    BY FreeKept DEF TimerFires, Asks, Asking, Copies, Stores, Leaving, Live
  <1>2. CASE UNCHANGED <<searches, toPeers>>
    <2>1. Files(p)' = Files(p) /\ Told(p)' = Told(p)
      BY <1>2, FilesKept DEF Told, Telling, Copies
    <2> QED
      BY <1>1, <1>2, <2>1, LookingKept, PermitsKept DEF Served, Kept
  <1>3. CASE Pending(r) /\ ResolveSearch(r)
    <2>1. r \in DOMAIN searches /\ ~s.processed /\ s \in SearchRequest /\ r \in Rqs
      BY <1>0, <1>3 DEF Pending, SearchesTypeOK
    <2>2. Files(p)' \subseteq Files(p) \ {r}
      <3>1. CASE searches' = WithoutSearch(r)
        BY <3>1 DEF WithoutSearch, Restrict, Files, Pending
      <3>2. CASE searches' = Processed(r)
        <4>1. /\ DOMAIN searches' = DOMAIN searches /\ searches'[r].processed = TRUE
              /\ \A q \in DOMAIN searches : q # r => searches'[q] = searches[q]
          <5> HIDE DEF r
          <5> QED
            BY <2>1, <3>2 DEF Processed, SearchRequest
        <4> QED
          BY <4>1 DEF Files, Pending
      <3> QED
        BY <1>3, <3>1, <3>2 DEF ResolveSearch
    <2>3. PICK q, m :
            /\ Reply(q, m)
            /\ m.command \in {"FOUND", "NOT_AVAILABLE", "NEGOTIATE"}
            /\ m.command # "NEGOTIATE" => q = s.searcher
      <3>1. CASE Reply(s.searcher, NotAvailableMsg(r, s.item, s.maxPrice))
        BY <3>1 DEF NotAvailableMsg
      <3>2. CASE \E i \in DOMAIN s.offers : AnswerBest(r, s, s.offers[i])
        <4>1. PICK i \in DOMAIN s.offers : AnswerBest(r, s, s.offers[i])
          BY <3>2
        <4>2. /\ FoundMsg(r, s.item, s.offers[i].price).command = "FOUND"
              /\ NegotiateMsg(r, s.item, s.maxPrice).command = "NEGOTIATE"
          BY DEF FoundMsg, NegotiateMsg
        <4> QED
          BY <4>1, <4>2 DEF AnswerBest
      <3> QED
        BY <1>3, <3>1, <3>2 DEF ResolveSearch
    <2>4. /\ \E x : Told(p)' \subseteq Told(p) \cup {x}
          /\ q # p \/ m.command = "NEGOTIATE" => Told(p)' \subseteq Told(p)
          /\ DOMAIN toPeers' = DOMAIN toPeers \cup {[to |-> q, msg |-> m]}
      BY <1>0, <2>3, ToldAdded
    <2>5. CASE q # p \/ m.command = "NEGOTIATE"
      <3>1. Looking(p)' => Looking(p)
        BY <1>1, <2>2, <2>4, <2>5, LookingKept
      <3> QED
        BY <1>1, <2>2, <2>4, <2>5, <3>1, PermitsKept DEF Served, Kept
    <2>6. CASE q = p /\ m.command # "NEGOTIATE"
      <3>1. r \in Files(p)
        BY <1>3, <2>1, <2>3, <2>6 DEF Files
      <3>2. PICK x : Told(p)' \subseteq Told(p) \cup {x}
        BY <2>4
      <3> HIDE DEF r, s
      <3>3. /\ <<"files", r>> \in Permits(p)
            /\ Permits(p)' \subseteq (Permits(p) \ {<<"files", r>>}) \cup {<<"told", x>>}
        BY <1>1, <2>2, <3>1, <3>2 DEF Permits
      <3> QED
        BY <1>1, <3>1, <3>3 DEF Served, Moved, Looking
    <2> QED
      BY <2>5, <2>6
  <1> QED
    BY <1>2, <1>3 DEF TimerFires

\* Every step of the server.
LEMMA ServerServes ==
    ASSUME Proved!TypeOK, NEW p \in Peers, ServerNext, UNCHANGED <<clientState, assigning>>
    PROVE  Served(p)
  <1>1. ASSUME NEW w \in Workers, NEW d \in DOMAIN toServer, HandleUnknown(w, d)
        PROVE  Served(p)
    BY <1>1, ServedTaken, FilesKept DEF HandleUnknown
  <1>2. ASSUME NEW w \in Workers, NEW d \in DOMAIN toServer, Handle(w, d)
        PROVE  Served(p)
    BY <1>1, <1>2, ServedRegister, ServedDeregister, ServedStart, ServedOffer DEF Handle
  <1> QED
    BY <1>2, ServedStore, ServedBroadcast, ServedTimer, ServedElsewhere
       DEF ServerNext, WorkerSteps

-------------------------------------------------------------------------------
(* What the steps do to what a client believes. *)

\* The server's steps.
LEMMA AgreesServed ==
    ASSUME NEW p, Agrees(p), Served(p), clientState'[p] = clientState[p],
           assigning'[p] = assigning[p], p \in restarted => p \in restarted'
    PROVE  Agrees(p)'
  <1>1. /\ AtMostOnePermit(p)' /\ (Permits(p)' # {} => Live(p)')
        /\ Settled(p) => Settled(p)'
    <2>1. CASE Kept(p)
      BY <2>1 DEF Agrees, Served, AtMostOnePermit, Kept, Settled
    <2>2. CASE Moved(p)
      BY <2>2 DEF Agrees, Served, AtMostOnePermit, Moved, Settled
    <2>3. CASE Opened(p)
      BY <2>3 DEF Agrees, Served, AtMostOnePermit, Opened, Settled
    <2>4. CASE Closed(p)
      BY <2>4 DEF Agrees, Served, AtMostOnePermit, Closed, Settled
    <2> QED
      BY <2>1, <2>2, <2>3, <2>4 DEF Served
  <1> QED
    BY <1>1 DEF Agrees, Served

\* A step of the clients that asks nothing of p's and leaves p's state alone.
LEMMA QuietStep ==
    ASSUME Proved!TypeOK, NEW p, UNCHANGED serverVars, Free(p)' \subseteq Free(p),
           \/ UNCHANGED toServer
           \/ \E q, m : /\ Send(q, m)
                        /\ q # p \/ m.command \notin {"LOOKING_FOR", "DE_REGISTER"},
           \/ UNCHANGED toPeers
           \/ \E d \in DOMAIN toPeers : Deliver(d)
    PROVE  Served(p) /\ Kept(p)
  <1> DEFINE AsksNoMore ==
               /\ Asks(p)' \subseteq Asks(p) /\ (Leaving(p)' => Leaving(p))
               /\ \A e \in DOMAIN toServer' \ DOMAIN toServer :
                    e.from = p => e.msg.command # "LOOKING_FOR"
             ToldNoMore ==
               Told(p)' \subseteq Told(p) /\ DOMAIN toPeers' \subseteq DOMAIN toPeers
  <1>0. IsABag(toServer) /\ IsABag(toPeers)
    BY TypesHere
  <1>1. AsksNoMore
    <2>1. CASE UNCHANGED toServer
      BY <2>1 DEF Asks, Asking, Copies, Leaving
    <2>2. ASSUME NEW q, NEW m, Send(q, m),
                 q # p \/ m.command \notin {"LOOKING_FOR", "DE_REGISTER"}
          PROVE  AsksNoMore
      <3>1. /\ Asks(p)' \subseteq Asks(p) /\ (Leaving(p)' => Leaving(p))
            /\ DOMAIN toServer' = DOMAIN toServer \cup {[from |-> q, msg |-> m]}
        BY <1>0, <2>2, AsksAdded
      <3> QED
        BY <2>2, <3>1
    <2> QED
      BY <2>1, <2>2
  <1>2. ToldNoMore
    <2>1. CASE UNCHANGED toPeers
      BY <2>1 DEF Told, Telling, Copies
    <2>2. ASSUME NEW d \in DOMAIN toPeers, Deliver(d)
          PROVE  ToldNoMore
      BY <1>0, <2>2, ToldTaken
    <2> QED
      BY <2>1, <2>2
  <1>3. /\ Stores(p)' = Stores(p) /\ Files(p)' = Files(p) /\ (Live(p)' <=> Live(p))
    BY FilesKept DEF serverVars, Stores, Live
  <1>4. Looking(p)' => Looking(p)
    BY <1>1, <1>2, <1>3 DEF Looking
  <1> QED
    BY <1>1, <1>2, <1>3, <1>4, PermitsKept DEF Served, Kept

\* Whoever is leaving, or looking for something, has used up a permission.
LEMMA UsedUp ==
    ASSUME IsABag(toServer), IsABag(toPeers), NEW p
    PROVE  /\ Leaving(p) => \E x \in Asks(p) : <<"asks", x>> \in Permits(p)
           /\ Looking(p) => \E x \in Permits(p) : x[1] # "free"
  <1>1. \A d \in Asking(p) : <<d, 1>> \in Asks(p)
    <2>1. \A d \in Asking(p) : 1 \in 1 .. toServer[d]
      BY DEF Asking, IsABag
    <2> QED
      BY <2>1 DEF Asks, Copies
  <1>2. \A d \in Telling(p) : <<d, 1>> \in Told(p)
    <2>1. \A d \in Telling(p) : 1 \in 1 .. toPeers[d]
      BY DEF Telling, IsABag
    <2> QED
      BY <2>1 DEF Told, Copies
  <1>3. Leaving(p) => Asks(p) # {}
    BY <1>1 DEF Leaving, Asking
  <1>4. Looking(p) => Asks(p) # {} \/ Told(p) # {} \/ Stores(p) # {} \/ Files(p) # {}
    BY <1>1, <1>2 DEF Looking, Asking, Telling
  <1>5. /\ \A x \in Asks(p) : <<"asks", x>> \in Permits(p)
        /\ \A x \in Told(p) : <<"told", x>> \in Permits(p)
        /\ \A x \in Stores(p) : <<"stores", x>> \in Permits(p)
        /\ \A x \in Files(p) : <<"files", x>> \in Permits(p)
    BY DEF Permits
  <1>6. \A x : /\ <<"asks", x>>[1] # "free" /\ <<"told", x>>[1] # "free"
               /\ <<"stores", x>>[1] # "free" /\ <<"files", x>>[1] # "free"
    OBVIOUS
  <1> QED
    BY <1>3, <1>4, <1>5, <1>6

\* A registered client uses its permission: it leaves, or searches.
LEMMA AgreesAsked ==
    ASSUME Proved!TypeOK, NEW p, Agrees(p), UNCHANGED <<serverVars, toPeers>>, NEW m,
           clientState[p] = "REGISTERED", assigning[p] = "none", Send(p, m),
           clientState'[p] = "REGISTERED",
           \/ m.command = "DE_REGISTER" /\ assigning'[p] = "UNREGISTERED"
           \/ m.command = "LOOKING_FOR" /\ assigning'[p] = "SEARCHING",
           restarted' = restarted
    PROVE  Agrees(p)'
  <1>0. IsABag(toServer)
    BY TypesHere
  <1>1. /\ \E x : Asks(p)' \subseteq Asks(p) \cup {x}
        /\ Leaving(p)' => Leaving(p) \/ m.command = "DE_REGISTER"
        /\ DOMAIN toServer' = DOMAIN toServer \cup {[from |-> p, msg |-> m]}
    BY <1>0, AsksAdded
  <1>2. /\ Stores(p)' = Stores(p) /\ Files(p)' = Files(p) /\ (Live(p)' <=> Live(p))
        /\ Told(p)' = Told(p)
    BY FilesKept DEF serverVars, Stores, Live, Told, Telling, Copies
  <1>3. Free(p) = {p} /\ Free(p)' = {}
    BY DEF Free
  <1>4. PICK x : Asks(p)' \subseteq Asks(p) \cup {x}
    BY <1>1
  <1>5. /\ <<"free", p>> \in Permits(p)
        /\ Permits(p)' \subseteq (Permits(p) \ {<<"free", p>>}) \cup {<<"asks", x>>}
    BY <1>2, <1>3, <1>4 DEF Permits
  <1>6. AtMostOnePermit(p)' /\ Live(p)'
    BY <1>2, <1>5 DEF Agrees, AtMostOnePermit
  <1>7. CASE m.command = "DE_REGISTER" /\ assigning'[p] = "UNREGISTERED"
    <2>1. Looking(p)' => Looking(p)
      BY <1>1, <1>2, <1>7 DEF Looking
    <2> QED
      BY <1>6, <1>7, <2>1 DEF Agrees
  <1>8. CASE m.command = "LOOKING_FOR" /\ assigning'[p] = "SEARCHING"
    BY <1>1, <1>6, <1>8 DEF Agrees, Settled
  <1> QED
    BY <1>7, <1>8

\* The command thread assigns the state it had in mind.
LEMMA AgreesAssigned ==
    ASSUME Proved!TypeOK, BeliefInv, NEW p \in Peers \ doubled, AssignState(p), UNCHANGED serverVars,
           restarted' = restarted
    PROVE  Agrees(p)'
  <1>0. Agrees(p) /\ assigning[p] \in {"REGISTERING", "UNREGISTERED", "SEARCHING"}
    BY DEF BeliefInv, AssignState
  <1>1. clientState'[p] = assigning[p] /\ assigning'[p] = "none"
    BY DEF BeliefInv, AssignState
  <1>2. Free(p)' = {}
    BY <1>0, <1>1 DEF Free
  <1>3. Served(p) /\ Kept(p)
    BY <1>2, QuietStep DEF AssignState, netVars
  <1>4. AtMostOnePermit(p)' /\ (Permits(p)' # {} => Live(p)')
    BY <1>0, <1>3 DEF Agrees, AtMostOnePermit, Kept
  <1>5. Settled(p) => Settled(p)'
    BY <1>3 DEF Served, Kept, Settled
  <1> QED
    BY <1>0, <1>1, <1>3, <1>4, <1>5 DEF Agrees, Served

\* What a command of another client's user leaves alone.
LEMMA CommandElsewhere ==
    ASSUME BeliefInv, NEW p \in Peers, NEW q \in Peers, q # p, CommandThread(q)
    PROVE  /\ clientState'[p] = clientState[p] /\ assigning'[p] = assigning[p]
           /\ UNCHANGED toPeers
           /\ UNCHANGED toServer \/ \E m : Send(q, m)
  <1>0. clientState \in [Peers -> ClientStates] /\ DOMAIN assigning = Peers
    BY DEF BeliefInv
  <1>1. CASE RegisterWithServer(q)
    BY <1>0, <1>1 DEF RegisterWithServer, SendThenAssign
  <1>2. CASE Deregister(q)
    BY <1>0, <1>2 DEF Deregister, SendThenAssign
  <1>3. CASE SearchItem(q)
    BY <1>0, <1>3 DEF SearchItem, SendThenAssign
  <1>4. CASE AssignState(q)
    BY <1>0, <1>4 DEF AssignState, netVars
  <1>5. CASE Quit(q)
    BY <1>0, <1>5 DEF Quit, SendThenAssign, netVars
  <1>6. CASE InputEnds(q) \/ AddItem(q) \/ RemoveItem(q)
    BY <1>6 DEF InputEnds, AddItem, RemoveItem, netVars, threadVars
  <1> QED
    BY <1>1, <1>2, <1>3, <1>4, <1>5, <1>6 DEF CommandThread

\* A command that sends nothing.
LEMMA AgreesSilent ==
    ASSUME Proved!TypeOK, BeliefInv, NEW p \in Peers \ doubled, restarted' = restarted,
           UNCHANGED <<serverVars, netVars, clientState, assigning>>
    PROVE  Agrees(p)'
  <1>1. Served(p)
    BY QuietStep, FreeKept DEF netVars
  <1> QED
    BY <1>1, AgreesServed DEF BeliefInv

\* registerWithServer: no permission yet.
LEMMA AgreesRegistering ==
    ASSUME Proved!TypeOK, BeliefInv, NEW p \in Peers \ doubled, RegisterWithServer(p),
           UNCHANGED serverVars, restarted' = restarted
    PROVE  Agrees(p)'
  <1>1. CASE UNCHANGED <<toServer, assigning>>
    BY <1>1, AgreesSilent DEF RegisterWithServer, SendThenAssign, netVars
  <1>2. CASE /\ Send(p, RegisterMsg(p, nextRq[p]))
             /\ assigning' = [assigning EXCEPT ![p] = "REGISTERING"]
    <2>1. RegisterMsg(p, nextRq[p]).command = "REGISTER"
      BY DEF RegisterMsg
    <2>2. /\ clientState[p] = "UNREGISTERED" /\ clientState' = clientState
          /\ assigning[p] = "none" /\ assigning'[p] = "REGISTERING"
      BY <1>2 DEF RegisterWithServer, Runs, BeliefInv
    <2>3. Free(p)' \subseteq Free(p)
      BY <2>2 DEF Free
    <2>4. Served(p) /\ Kept(p)
      BY <1>2, <2>1, <2>3, QuietStep DEF RegisterWithServer, SendThenAssign
    <2>5. AtMostOnePermit(p)' /\ (Permits(p)' # {} => Live(p)')
      BY <2>4 DEF BeliefInv, Agrees, AtMostOnePermit, Kept
    <2> QED
      BY <2>2, <2>4, <2>5 DEF BeliefInv, Agrees, Served
  <1> QED
    BY <1>1, <1>2 DEF RegisterWithServer, SendThenAssign

\* deregister, and quit in the state REGISTERED.
LEMMA AgreesLeaving ==
    ASSUME Proved!TypeOK, BeliefInv, NEW p \in Peers \ doubled, UNCHANGED <<serverVars, clientState>>,
           clientState[p] = "REGISTERED", assigning[p] = "none", restarted' = restarted,
           SendThenAssign(p, DeregisterMsg(p, nextRq[p]), "UNREGISTERED")
    PROVE  Agrees(p)'
  <1>1. CASE UNCHANGED <<toServer, assigning>>
    BY <1>1, AgreesSilent DEF SendThenAssign, netVars
  <1>2. CASE /\ Send(p, DeregisterMsg(p, nextRq[p]))
             /\ assigning' = [assigning EXCEPT ![p] = "UNREGISTERED"]
    <2>1. DeregisterMsg(p, nextRq[p]).command = "DE_REGISTER"
      BY DEF DeregisterMsg
    <2>2. clientState'[p] = "REGISTERED" /\ assigning'[p] = "UNREGISTERED"
      BY <1>2 DEF BeliefInv
    <2> QED
      BY <1>2, <2>1, <2>2, AgreesAsked DEF BeliefInv, SendThenAssign
  <1> QED
    BY <1>1, <1>2 DEF SendThenAssign

\* searchItem.
LEMMA AgreesSearching ==
    ASSUME Proved!TypeOK, BeliefInv, NEW p \in Peers \ doubled, SearchItem(p), UNCHANGED serverVars,
           restarted' = restarted
    PROVE  Agrees(p)'
  <1>1. PICK i \in Items, max \in Prices :
          SendThenAssign(p, LookingForMsg(p, nextRq[p], i, max), "SEARCHING")
    BY DEF SearchItem
  <1>2. CASE UNCHANGED <<toServer, assigning>>
    BY <1>2, AgreesSilent DEF SearchItem, SendThenAssign, netVars
  <1>3. CASE /\ Send(p, LookingForMsg(p, nextRq[p], i, max))
             /\ assigning' = [assigning EXCEPT ![p] = "SEARCHING"]
    <2>1. LookingForMsg(p, nextRq[p], i, max).command = "LOOKING_FOR"
      BY DEF LookingForMsg
    <2>2. /\ clientState[p] = "REGISTERED" /\ assigning[p] = "none"
          /\ clientState'[p] = "REGISTERED" /\ assigning'[p] = "SEARCHING"
      BY <1>3 DEF BeliefInv, SearchItem, Runs
    <2> QED
      BY <1>1, <1>3, <2>1, <2>2, AgreesAsked DEF BeliefInv, SendThenAssign
  <1> QED
    BY <1>1, <1>2, <1>3 DEF SendThenAssign

\* Every command, of p and of others.
LEMMA AgreesCommand ==
    ASSUME Proved!TypeOK, BeliefInv, NEW p \in Peers \ doubled, NEW q \in Peers, CommandThread(q),
           UNCHANGED serverVars, restarted' = restarted
    PROVE  Agrees(p)'
  <1>1. CASE q # p
    <2>1. /\ clientState'[p] = clientState[p] /\ assigning'[p] = assigning[p]
          /\ UNCHANGED toPeers
          /\ UNCHANGED toServer \/ \E m : Send(q, m)
      BY <1>1, CommandElsewhere
    <2>2. Free(p)' = Free(p)
      BY <2>1 DEF Free
    <2>3. Served(p)
      BY <1>1, <2>1, <2>2, QuietStep
    <2> QED
      BY <2>1, <2>3, AgreesServed DEF BeliefInv
  <1>2. CASE q = p
    <2>1. CASE Deregister(p)
      BY <2>1, AgreesLeaving DEF Deregister, Runs
    <2>2. CASE Quit(p)
      BY <2>2, AgreesLeaving, AgreesSilent DEF Quit, Runs
    <2>3. CASE InputEnds(p) \/ AddItem(p) \/ RemoveItem(p)
      BY <2>3, AgreesSilent DEF InputEnds, AddItem, RemoveItem, threadVars
    <2> QED
      BY <1>2, <2>1, <2>2, <2>3, AgreesRegistering, AgreesSearching, AgreesAssigned
         DEF CommandThread
  <1> QED
    BY <1>1, <1>2

\* What gets past the client's parser.
LEMMA ServerMessagesParsed ==
    ASSUME NEW m \in ServerMessages, Parses(m)
    PROVE  m.command \in {"REGISTERED", "SEARCH", "NOT_AVAILABLE", "FOUND"}
  <1>1. m.command # "REGISTER-DENIED"
    <2>1. m.command = "REGISTER-DENIED" => m \in [command : {"REGISTER-DENIED"}, request_number : Rqs]
      BY DEF ServerMessages
    <2>2. "rq" \in DOMAIN m
      BY DEF Parses
    <2> QED
      BY <2>1, <2>2
  <1>2. m.command # "NEGOTIATE"
    <2>1. m.command = "NEGOTIATE" =>
            m \in [command : {"NEGOTIATE"}, rq : Rqs, item_name : Items, max_price : Prices]
      BY DEF ServerMessages
    <2>2. m.command = "NEGOTIATE" => "price" \in DOMAIN m
      BY DEF Parses, EventType, KnownCommands, ValidatedFields
    <2> QED
      BY <2>1, <2>2
  <1> QED
    BY <1>1, <1>2 DEF ServerMessages

\* A client is told that it is registered, or what its search found.
LEMMA AgreesTold ==
    ASSUME Proved!TypeOK, Proved!TypeOK', BeliefInv, NEW p \in Peers \ doubled, UNCHANGED serverVars,
           NEW d \in DOMAIN toPeers, d \in Telling(p), Deliver(d), UNCHANGED <<toServer, assigning>>,
           clientState'[p] = "REGISTERED", restarted' = restarted
    PROVE  Agrees(p)'
  <1>0. /\ IsABag(toServer) /\ IsABag(toPeers) /\ IsABag(toServer)' /\ IsABag(toPeers)'
        /\ Agrees(p)
    <2>1. IsABag(toServer)' /\ IsABag(toPeers)'
      BY SameBags DEF Proved!TypeOK, Proved!NetTypeOK
    <2> QED
      BY <2>1, TypesHere DEF BeliefInv
  <1>1. PICK x \in Told(p) : Told(p)' \subseteq Told(p) \ {x}
    BY <1>0, ToldTaken
  <1>2. /\ Asks(p)' = Asks(p) /\ Stores(p)' = Stores(p) /\ Files(p)' = Files(p)
        /\ (Live(p)' <=> Live(p)) /\ (Leaving(p)' <=> Leaving(p)) /\ Free(p)' \subseteq {p}
    BY FilesKept DEF serverVars, Asks, Asking, Copies, Stores, Live, Leaving, Free
  <1>3. /\ <<"told", x>> \in Permits(p)
        /\ Permits(p)' \subseteq (Permits(p) \ {<<"told", x>>}) \cup {<<"free", p>>}
    BY <1>1, <1>2 DEF Permits
  <1>4. Live(p) /\ Permits(p) = {<<"told", x>>} /\ Permits(p)' \subseteq {<<"free", p>>}
    BY <1>0, <1>3 DEF Agrees, AtMostOnePermit
  <1>5. ~Leaving(p)
    <2>1. \A y : <<"asks", y>> # <<"told", x>>
      OBVIOUS
    <2> QED
      BY <1>0, <1>4, <2>1, UsedUp
  <1>6. ~Looking(p)'
    <2>1. \A y : <<"free", p>> \notin {<<"asks", y>>, <<"told", y>>, <<"stores", y>>, <<"files", y>>}
      OBVIOUS
    <2>2. Asks(p)' = {} /\ Told(p)' = {} /\ Stores(p)' = {} /\ Files(p)' = {}
      BY <1>4, <2>1 DEF Permits
    <2>3. /\ \A e \in Asking(p)' : <<e, 1>> \in Asks(p)'
          /\ \A e \in Telling(p)' : <<e, 1>> \in Told(p)'
      <3>1. /\ \A e \in Asking(p)' : 1 \in 1 .. toServer'[e]
            /\ \A e \in Telling(p)' : 1 \in 1 .. toPeers'[e]
        BY <1>0 DEF Asking, Telling, IsABag
      <3> QED
        BY <3>1 DEF Asks, Told, Copies
    <2> QED
      BY <2>2, <2>3 DEF Looking, Asking, Telling
  <1> QED
    BY <1>2, <1>4, <1>5, <1>6 DEF Agrees, AtMostOnePermit, Settled

\* Every datagram the clients receive.
LEMMA AgreesReceived ==
    ASSUME Proved!TypeOK, Proved!TypeOK', BeliefInv, NEW p \in Peers \ doubled, NEW q \in Peers,
           ReceiveThread(q), UNCHANGED serverVars, restarted' = restarted
    PROVE  Agrees(p)'
  <1>0. /\ clientState \in [Peers -> ClientStates]
        /\ DOMAIN toPeers \subseteq [to : Peers, msg : ServerMessages]
    BY TablesHere DEF BeliefInv
  <1>1. PICK d \in DOMAIN toPeers : HandleSearchEvent(q, d) \/ HandleReceivedMessage(q, d)
    BY DEF ReceiveThread
  <1>2. CASE HandleSearchEvent(q, d)
    <2>1. /\ Deliver(d) /\ UNCHANGED <<clientState, assigning>>
          /\ UNCHANGED toServer \/
               Send(q, OfferMsg(q, d.msg.rq, d.msg.item_name,
                                inventory[q][FirstItem(q, d.msg.item_name)].price))
      BY <1>2 DEF HandleSearchEvent, clientVars, threadVars
    <2>2. \A x : OfferMsg(q, d.msg.rq, d.msg.item_name, x).command = "OFFER"
      BY DEF OfferMsg
    <2>3. Free(p)' = Free(p)
      BY <2>1, FreeKept
    <2>4. Served(p)
      BY <2>1, <2>2, <2>3, QuietStep
    <2> QED
      BY <2>1, <2>4, AgreesServed DEF BeliefInv
  <1>3. CASE HandleReceivedMessage(q, d)
    <2>1. /\ Deliver(d) /\ UNCHANGED <<toServer, assigning>> /\ d.to = q
          /\ d.msg.command # "SEARCH" /\ d.msg \in ServerMessages
      BY <1>0, <1>3 DEF HandleReceivedMessage
    <2>2. CASE q = p /\ Parses(d.msg) /\ d.msg.command \in {"REGISTERED", "FOUND"}
      <3>1. clientState'[p] = "REGISTERED"
        BY <1>0, <1>3, <2>2 DEF HandleReceivedMessage, StateAfter
      <3>2. d \in Telling(p)
        BY <2>1, <2>2 DEF Telling
      <3> QED
        BY <2>1, <3>1, <3>2, AgreesTold
    <2>3. CASE ~(q = p /\ Parses(d.msg) /\ d.msg.command \in {"REGISTERED", "FOUND"})
      <3>1. clientState'[p] = clientState[p]
        <4>1. CASE q # p \/ ~Parses(d.msg)
          BY <1>0, <1>3, <4>1 DEF HandleReceivedMessage
        <4>2. CASE q = p /\ Parses(d.msg)
          <5>1. d.msg.command = "NOT_AVAILABLE"
            BY <2>1, <2>3, <4>2, ServerMessagesParsed
          <5> QED
            BY <1>0, <1>3, <4>2, <5>1 DEF HandleReceivedMessage, StateAfter
        <4> QED
          BY <4>1, <4>2
      <3>2. Free(p)' \subseteq Free(p)
        BY <2>1, <3>1 DEF Free
      <3>3. Served(p)
        BY <2>1, <3>2, QuietStep
      <3> QED
        BY <2>1, <3>1, <3>3, AgreesServed DEF BeliefInv
    <2> QED
      BY <2>2, <2>3
  <1> QED
    BY <1>1, <1>2, <1>3

\* A client started again has no permission, and asks for none.
LEMMA AgreesRestarted ==
    ASSUME Proved!TypeOK, BeliefInv, NEW p \in Peers \ doubled, NEW q \in Peers, Restart(q),
           UNCHANGED serverVars, restarted' = restarted \cup {q}
    PROVE  Agrees(p)'
  <1>0. clientState \in [Peers -> ClientStates] /\ DOMAIN assigning = Peers
    BY DEF BeliefInv
  <1>1. CASE q # p
    <2>1. clientState'[p] = clientState[p] /\ assigning'[p] = assigning[p]
      BY <1>0, <1>1 DEF Restart
    <2>2. Free(p)' = Free(p)
      BY <2>1 DEF Free
    <2>3. Served(p)
      BY <2>2, QuietStep DEF Restart, netVars
    <2> QED
      BY <2>1, <2>3, AgreesServed DEF BeliefInv
  <1>2. CASE q = p
    <2>1. clientState'[p] = "UNREGISTERED" /\ assigning'[p] = "none"
      BY <1>0, <1>2 DEF Restart
    <2>2. Free(p)' = {}
      BY <2>1 DEF Free
    <2>3. Kept(p)
      BY <2>2, QuietStep DEF Restart, netVars
    <2> QED
      BY <1>2, <2>1, <2>3 DEF BeliefInv, Agrees, AtMostOnePermit, Kept
  <1> QED
    BY <1>1, <1>2

\* A second copy of a datagram that is not decisive for p permits p nothing.
LEMMA AgreesDoubled ==
    ASSUME Proved!TypeOK, BeliefInv, NEW p \in Peers \ doubled, NetworkDuplicates,
           p \notin doubled', UNCHANGED serverVars
    PROVE  Agrees(p)'
  <1>0. /\ UNCHANGED <<clientState, assigning, restarted>>
        /\ IsABag(toServer) /\ IsABag(toPeers)
    BY TypesHere DEF NetworkDuplicates, clientVars, threadVars
  <1>1. Free(p)' = Free(p)
    BY <1>0, FreeKept
  <1>2. ASSUME NEW d \in DOMAIN toServer, DuplicateToServer(d), doubled' = WithDoubled(d.from, d)
        PROVE  Served(p)
    <2>1. d = [from |-> d.from, msg |-> d.msg]
      BY DEF Proved!TypeOK, Proved!NetTypeOK, Proved!Datagram
    <2>2. Send(d.from, d.msg)
      BY <1>2, <2>1 DEF DuplicateToServer, Send
    <2>3. d.from # p \/ d.msg.command \notin {"LOOKING_FOR", "DE_REGISTER"}
      BY <1>2 DEF WithDoubled, Decisive
    <2> QED
      BY <1>1, <1>2, <2>2, <2>3, QuietStep DEF DuplicateToServer
  <1>3. ASSUME NEW d \in DOMAIN toPeers, DuplicateToPeer(d), doubled' = WithDoubled(d.to, d)
        PROVE  Served(p)
    <2>1. d = [to |-> d.to, msg |-> d.msg]
      BY DEF Proved!TypeOK, Proved!NetTypeOK
    <2>2. Reply(d.to, d.msg)
      BY <1>3, <2>1 DEF DuplicateToPeer, Reply
    <2>3. d.to # p \/ d.msg.command \notin {"REGISTERED", "FOUND", "NOT_AVAILABLE"}
      BY <1>3 DEF WithDoubled, Decisive
    <2>4. Told(p)' \subseteq Told(p) /\ DOMAIN toPeers' = DOMAIN toPeers
      BY <1>0, <2>1, <2>2, <2>3, ToldAdded
    <2>5. /\ Asks(p)' = Asks(p) /\ Stores(p)' = Stores(p) /\ Files(p)' = Files(p)
          /\ (Live(p)' <=> Live(p)) /\ (Leaving(p)' <=> Leaving(p))
          /\ UNCHANGED toServer
      BY <1>3, FilesKept
         DEF DuplicateToPeer, serverVars, Asks, Asking, Copies, Stores, Live, Leaving
    <2>6. Looking(p)' => Looking(p)
      BY <2>4, <2>5 DEF Looking
    <2> QED
      BY <1>1, <2>4, <2>5, <2>6, PermitsKept DEF Served, Kept
  <1>4. Served(p)
    BY <1>2, <1>3 DEF NetworkDuplicates
  <1> QED
    BY <1>0, <1>4, AgreesServed DEF BeliefInv

-------------------------------------------------------------------------------
\* The types of the two variables are kept.
LEMMA BeliefTypes ==
    ASSUME BeliefInv, Next
    PROVE  /\ clientState' \in [Peers -> ClientStates]
           /\ assigning' \in [Peers -> {"none", "REGISTERING", "UNREGISTERED", "SEARCHING"}]
  <1> USE DEF BeliefInv, ClientStates
  <1>1. CASE UNCHANGED clientVars
    BY <1>1 DEF clientVars, threadVars
  <1>2. ASSUME NEW p \in Peers, CommandThread(p)
        PROVE  /\ clientState' \in [Peers -> ClientStates]
               /\ assigning' \in [Peers -> {"none", "REGISTERING", "UNREGISTERED", "SEARCHING"}]
    <2>1. CASE AssignState(p)
      BY <2>1 DEF AssignState
    <2>2. CASE RegisterWithServer(p)
      BY <2>2 DEF RegisterWithServer, SendThenAssign
    <2>3. CASE Deregister(p)
      BY <2>3 DEF Deregister, SendThenAssign
    <2>4. CASE SearchItem(p)
      BY <2>4 DEF SearchItem, SendThenAssign
    <2>5. CASE Quit(p)
      BY <2>5 DEF Quit, SendThenAssign
    <2>6. CASE InputEnds(p) \/ AddItem(p) \/ RemoveItem(p)
      BY <2>6 DEF InputEnds, AddItem, RemoveItem, threadVars
    <2> QED
      BY <1>2, <2>1, <2>2, <2>3, <2>4, <2>5, <2>6 DEF CommandThread
  <1>3. ASSUME NEW p \in Peers, ReceiveThread(p)
        PROVE  /\ clientState' \in [Peers -> ClientStates]
               /\ assigning' \in [Peers -> {"none", "REGISTERING", "UNREGISTERED", "SEARCHING"}]
    <2>1. PICK d \in DOMAIN toPeers : HandleSearchEvent(p, d) \/ HandleReceivedMessage(p, d)
      BY <1>3 DEF ReceiveThread
    <2>2. \A c, s : StateAfter(c, s) \in {"REGISTERED", "UNREGISTERED", s}
      BY DEF StateAfter
    <2> QED
      BY <2>1, <2>2 DEF HandleSearchEvent, HandleReceivedMessage, clientVars, threadVars
  <1>4. ASSUME NEW p \in Peers, Restart(p)
        PROVE  /\ clientState' \in [Peers -> ClientStates]
               /\ assigning' \in [Peers -> {"none", "REGISTERING", "UNREGISTERED", "SEARCHING"}]
    BY <1>4 DEF Restart
  <1> QED
    BY <1>1, <1>2, <1>3, <1>4, RestartersAssumption
       DEF Next, ClientsNext, FaultsNext, ClientRestarts, NetworkDuplicates

\* BeliefInv is inductive, given SimInv.
LEMMA BeliefStep == SimInv /\ SimInv' /\ BeliefInv /\ [Next]_vars => BeliefInv'
  <1> SUFFICES ASSUME SimInv, SimInv', BeliefInv, [Next]_vars
               PROVE  BeliefInv'
    OBVIOUS
  <1>0. Proved!TypeOK /\ Proved!TypeOK'
    BY DEF SimInv
  <1>1. CASE UNCHANGED vars
    <2>1. UNCHANGED <<serverVars, netVars, clientState, assigning, restarted, doubled>>
      BY <1>1 DEF vars, clientVars, threadVars, faultVars
    <2>2. \A p \in Peers \ doubled : Agrees(p)'
      BY <1>0, <2>1, AgreesSilent
    <2> QED
      BY <2>1, <2>2 DEF BeliefInv
  <1>2. CASE Next
    <2>1. ASSUME NEW p \in Peers \ doubled, p \notin doubled'
          PROVE  Agrees(p)'
      <3>1. CASE ServerNext /\ UNCHANGED <<clientVars, sent, faultVars>>
        <4>1. UNCHANGED <<clientState, assigning, restarted>>
          BY <3>1 DEF clientVars, threadVars, faultVars
        <4>2. Served(p)
          BY <1>0, <3>1, <4>1, ServerServes
        <4> QED
          BY <4>1, <4>2, AgreesServed DEF BeliefInv
      <3>2. CASE ClientsNext
        BY <1>0, <3>2, AgreesCommand, AgreesReceived DEF ClientsNext, faultVars
      <3>3. CASE ClientRestarts /\ UNCHANGED serverVars
        BY <1>0, <3>3, AgreesRestarted, RestartersAssumption DEF ClientRestarts
      <3>4. CASE NetworkDuplicates /\ UNCHANGED serverVars
        BY <1>0, <2>1, <3>4, AgreesDoubled
      <3> QED
        BY <1>2, <3>1, <3>2, <3>3, <3>4 DEF Next, FaultsNext
    <2>2. doubled \subseteq doubled'
      BY <1>2 DEF Next, ClientsNext, FaultsNext, ClientRestarts, NetworkDuplicates, WithDoubled,
         faultVars
    <2> QED
      BY <1>2, <2>1, <2>2, BeliefTypes DEF BeliefInv
  <1> QED
    BY <1>1, <1>2

LEMMA BeliefInit == Init => BeliefInv
  <1> SUFFICES ASSUME Init
               PROVE  BeliefInv
    OBVIOUS
  <1>1. /\ clientState = [p \in Peers |-> "UNREGISTERED"] /\ assigning = [p \in Peers |-> "none"]
        /\ DOMAIN toServer = {} /\ DOMAIN toPeers = {} /\ DOMAIN jobs = {} /\ DOMAIN searches = {}
    BY DEF Init, NetInit, ServerInit, ClientInit, EmptyBag, SetToBag
  <1>2. ASSUME NEW p \in Peers
        PROVE  Agrees(p)
    <2>1. /\ Asks(p) = {} /\ Told(p) = {} /\ Stores(p) = {} /\ Files(p) = {} /\ Free(p) = {}
          /\ ~Looking(p)
      BY <1>1 DEF Asks, Asking, Told, Telling, Stores, Files, Free, Pending, Copies, Looking
    <2>2. Permits(p) = {}
      BY <2>1 DEF Permits
    <2> QED
      BY <1>1, <2>1, <2>2 DEF Agrees, AtMostOnePermit
  <1> QED
    BY <1>1, <1>2 DEF BeliefInv, ClientStates

LEMMA BeliefAlways == Spec => [](SimInv /\ BeliefInv)
  BY SimInvAlways, BeliefInit, BeliefStep, PTL DEF Spec

(***************************************************************************)
(* A client that takes itself for registered has a session, or is about to *)
(* note that it has left (client.cpp sets REGISTERED on every REGISTERED   *)
(* and FOUND, whatever its state; handleDeregister drops the session).     *)
(* Clients may be killed and started again and datagrams be duplicated;    *)
(* left out is who had an answer or a request of its own duplicated: a     *)
(* second REGISTERED that arrives after the DE_REGISTER is believed.       *)
(***************************************************************************)
THEOREM ClientsBelieveRightly == Spec => []BelievesRegistered
  <1>1. BeliefInv => BelievesRegistered
    BY DEF BeliefInv, Agrees, Settled, BelievesRegistered, Believes
  <1> QED
    BY <1>1, BeliefAlways, PTL

(***************************************************************************)
(* The answer to a search finds its client searching, unless that client   *)
(* was started again, or had an answer or a request of its own duplicated  *)
(* (handleReceivedMessage sets REGISTERED on a FOUND without a look at the *)
(* state).                                                                 *)
(***************************************************************************)
THEOREM AnswersFindSearchers == Spec => []AnswerFindsSearcher
  <1>1. SimInv /\ BeliefInv => AnswerFindsSearcher
    <2> SUFFICES ASSUME SimInv, BeliefInv, NEW d \in DOMAIN toPeers,
                        d.msg.command \in {"FOUND", "NOT_AVAILABLE"},
                        d.to \notin restarted \cup doubled
                 PROVE  "SEARCHING" \in {clientState[d.to], assigning[d.to]}
      BY DEF AnswerFindsSearcher
    <2>1. d.to \in Peers \ doubled
      BY TablesHere DEF SimInv
    <2>2. Looking(d.to)
      BY DEF Looking
    <2> QED
      BY <2>1, <2>2 DEF BeliefInv, Agrees
  <1> QED
    BY <1>1, BeliefAlways, PTL

-------------------------------------------------------------------------------
\* The lists stay empty.
LEMMA ListStep ==
    SimInv /\ offers \in [Peers -> {<<>>}] /\ [Next]_vars => offers' \in [Peers -> {<<>>}]
  <1> SUFFICES ASSUME SimInv, offers \in [Peers -> {<<>>}], [Next]_vars
               PROVE  offers' \in [Peers -> {<<>>}]
    OBVIOUS
  <1>1. CASE UNCHANGED vars \/ UNCHANGED clientVars
    BY <1>1 DEF vars, clientVars
  <1>2. ASSUME NEW p \in Peers, CommandThread(p)
        PROVE  UNCHANGED offers
    BY <1>2 DEF CommandThread, RegisterWithServer, Deregister, SearchItem, AssignState, Quit,
       InputEnds, AddItem, RemoveItem
  <1>3. ASSUME NEW p \in Peers, ReceiveThread(p)
        PROVE  offers' \in [Peers -> {<<>>}]
    <2>1. PICK d \in DOMAIN toPeers : HandleSearchEvent(p, d) \/ HandleReceivedMessage(p, d)
      BY <1>3 DEF ReceiveThread
    <2>2. CASE Parses(d.msg) /\ HandleReceivedMessage(p, d)
      <3>1. d.msg \in ServerMessages
        BY TablesHere DEF SimInv
      <3>2. OffersAfter(p, d.msg) = <<>>
        BY <2>2, <3>1, ServerMessagesParsed DEF OffersAfter
      <3> QED
        BY <2>2, <3>2 DEF HandleReceivedMessage
    <2> QED
      BY <2>1, <2>2 DEF HandleSearchEvent, HandleReceivedMessage, clientVars
  <1>4. ASSUME NEW p \in Peers, Restart(p)
        PROVE  offers' \in [Peers -> {<<>>}]
    BY <1>4 DEF Restart
  <1> QED
    BY <1>1, <1>2, <1>3, <1>4, RestartersAssumption
       DEF Next, ClientsNext, FaultsNext, ClientRestarts, NetworkDuplicates

(***************************************************************************)
(* No client ever lists an offer: of what the server sends, the parser     *)
(* lets nothing through as an OFFER or a NEGOTIATE (its NEGOTIATE has no   *)
(* price and no name).                                                     *)
(***************************************************************************)
NothingListed == \A p \in Peers : offers[p] = <<>>
LEMMA NothingIsListed == Spec => []NothingListed
  <1> DEFINE Inv == offers \in [Peers -> {<<>>}]
  <1>1. Init => Inv
    BY DEF Init, ClientInit
  <1>2. Inv => NothingListed
    BY DEF NothingListed
  <1>3. SimInv /\ Inv /\ [Next]_vars => Inv'
    BY ListStep
  <1> QED
    BY <1>1, <1>2, <1>3, SimInvAlways, PTL DEF Spec

-------------------------------------------------------------------------------
(***************************************************************************)
(* What is proved of the server in its open environment holds of the       *)
(* system.  Whatever the users type: a search is answered at most once,    *)
(* but for restarts and duplicates; every answer is about a search its     *)
(* receiver made; and a client that was told it is registered, and whose   *)
(* user neither deregisters nor quits, has a session.                      *)
(***************************************************************************)
THEOREM ServerPromisesHold ==
    Spec => []/\ Proved!AtMostOneAnswer
              /\ Proved!AnswerMatchesRequest
              /\ Proved!RegisteredHasSession
  <1>1. Spec => Proved!Spec
    BY SimInvInit, SimInvAlways, StepSimulated, PTL DEF Spec, Proved!Spec
  <1>2. /\ Proved!Spec => []Proved!AtMostOneAnswer
        /\ Proved!Spec => []Proved!AnswerMatchesRequest
        /\ Proved!Spec => []Proved!RegisteredHasSession
    BY Assumptions, PricesAssumption, MaxRqAssumption, WindowAssumption, StallsAssumption,
       Proved!AnsweredAtMostOnce, Proved!AnswersMatchRequests, Proved!RegisteredHaveSessions
  <1> QED
    BY <1>1, <1>2, PTL

OneBuyer ==
    /\ MaxFaults = 0
    /\ \A p, q \in Peers : "search" \in Commands[p] /\ "search" \in Commands[q] => p = q

(***************************************************************************)
(* With one buyer, no restart and no duplicate the system keeps the        *)
(* promise of Broker: a search is filed, resolved and answered once, by    *)
(* the lowest of all the offers filed in between; and the price the buyer  *)
(* is told is one that another client offered for just that search         *)
(* (active_searches_ is indexed by request numbers that every client       *)
(* counts from 1, so two buyers may share one).                            *)
(***************************************************************************)
THEOREM OneBuyerIsServed ==
    ASSUME OneBuyer
    PROVE  Spec => Proved!ImplementsBroker /\ []Proved!FoundWasOffered
  <1>1. Spec => Proved!Spec
    BY SimInvInit, SimInvAlways, StepSimulated, PTL DEF Spec, Proved!Spec
  <1>2. Proved!NumbersAreOwn /\ Proved!NoFaults
    <2>1. \A p \in Peers : "search" \in RolesOf(p) => "search" \in Commands[p]
      BY DEF RolesOf
    <2> QED
      BY <2>1 DEF OneBuyer, Proved!NumbersAreOwn, Proved!NoFaults, Proved!SingleSearcher
  <1>3. /\ Proved!Spec => Proved!ImplementsBroker
        /\ Proved!Spec => []Proved!FoundWasOffered
    BY <1>2, Assumptions, PricesAssumption, MaxRqAssumption, WindowAssumption,
       StallsAssumption, Proved!ServerIsABroker, Proved!FoundWereOffered
  <1> QED
    BY <1>1, <1>3, PTL
===============================================================================

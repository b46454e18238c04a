----------------------------- MODULE AnswerProofs -----------------------------
(***************************************************************************)
(* What a buyer is answered: that it is about its own request, that it     *)
(* was offered, and that it comes once.  Theorems about OpenServer, for    *)
(* any peers, items, prices, threads and faults.                           *)
(***************************************************************************)
EXTENDS FlowProofs, FiniteSetTheorems

-------------------------------------------------------------------------------
(***************************************************************************)
(* An answer is about a request its receiver made.  The history `sent'     *)
(* knows every request and every offer wherever it has got to: on its way  *)
(* (SentInFlight), with a worker (SentAtWork), in the search table         *)
(* (SentSearches, SentOffers) or answered.                                 *)
(***************************************************************************)
SentInFlight == \A d \in DOMAIN toServer : Recorded(d.msg) => d \in sent
SentAtWork ==
    \A w \in DOMAIN jobs :
        Recorded(jobs[w].msg) => [from |-> jobs[w].from, msg |-> jobs[w].msg] \in sent
MadeFor(s, r, q) ==
    /\ IsRequest(q, s.searcher, r)
    /\ q.msg.item_name = s.item /\ q.msg.max_price = s.maxPrice
SentSearches == \A r \in DOMAIN searches : \E q \in sent : MadeFor(searches[r], r, q)
SentOffers ==
    \A r \in DOMAIN searches : \A i \in DOMAIN searches[r].offers :
        \E c \in sent : OfferedBy(c, r, searches[r].offers[i])
SentInv == SentInFlight /\ SentAtWork /\ SentSearches /\ SentOffers

\* Nothing is taken out of the history.
LEMMA SentGrows == ASSUME [Next]_vars PROVE sent \subseteq sent'
  BY DEF Next, PeersNext, PeerRegisters, PeerDeregisters, PeerFails, PeerSearches, PeerTrades,
     PeerOffers, Does, FaultsNext, vars

\* A worker's job is recorded as the datagram it came from.
LEMMA SentJob ==
    ASSUME TypeOK, SentAtWork, NEW w \in DOMAIN jobs, jobs[w].at \in {"store", "broadcast"}
    PROVE  /\ jobs[w] \in Job /\ jobs[w].msg \in ClientMessages
           /\ jobs[w].msg.command = "LOOKING_FOR"
           /\ [from |-> jobs[w].from, msg |-> jobs[w].msg] \in sent
  <1>1. jobs[w] \in Job /\ jobs[w].msg.command = "LOOKING_FOR"
    BY DEF TypeOK, ServerTypeOK, JobsTypeOK
  <1> QED
    BY <1>1 DEF Job, SentAtWork, Recorded

LEMMA SentStep ==
    ASSUME TypeOK, SentInv, [Next]_vars
    PROVE  SentInv'
  <1> USE DEF SentInv
  <1>0. /\ sent \subseteq sent'
        /\ DOMAIN toServer \subseteq Datagram
    BY SentGrows DEF TypeOK, NetTypeOK
  <1>1. SentInFlight'
    BY <1>0, NewToServer DEF SentInFlight
  <1>2. SentAtWork'
    <2> SUFFICES ASSUME NEW v \in DOMAIN jobs', Recorded(jobs'[v].msg)
                 PROVE  [from |-> jobs'[v].from, msg |-> jobs'[v].msg] \in sent'
      BY DEF SentAtWork, Recorded
    <2>1. ASSUME NEW c \in DOMAIN toServer, jobs'[v].from = c.from, jobs'[v].msg = c.msg
          PROVE  [from |-> jobs'[v].from, msg |-> jobs'[v].msg] \in sent'
      <3>1. c = [from |-> c.from, msg |-> c.msg]
        BY <1>0 DEF Datagram
      <3>2. c \in sent
        BY <2>1 DEF SentInFlight
      <3> QED
        BY <1>0, <2>1, <3>1, <3>2
    <2>2. ASSUME v \in DOMAIN jobs, jobs'[v].from = jobs[v].from, jobs'[v].msg = jobs[v].msg
          PROVE  [from |-> jobs'[v].from, msg |-> jobs'[v].msg] \in sent'
      BY <1>0, <2>2 DEF SentAtWork
    <2> QED
      BY <2>1, <2>2, JobsCome
  <1>3. ASSUME NEW r \in DOMAIN searches'
        PROVE  /\ \E q \in sent' : MadeFor(searches'[r], r, q)
               /\ \A i \in DOMAIN searches'[r].offers :
                    \E c \in sent' : OfferedBy(c, r, searches'[r].offers[i])
    <2>1. ASSUME NEW w \in DOMAIN jobs, StoredBy(w, r)
          PROVE  /\ \E q \in sent' : MadeFor(searches'[r], r, q)
                 /\ DOMAIN searches'[r].offers = {}
      <3> DEFINE q == [from |-> jobs[w].from, msg |-> jobs[w].msg]
      <3>1. q \in sent' /\ jobs[w].msg.command = "LOOKING_FOR"
        BY <1>0, <2>1, SentJob DEF StoredBy
      <3>2. MadeFor(searches'[r], r, q)
        BY <2>1, <3>1 DEF StoredBy, NewSearch, MadeFor, IsRequest
      <3>3. searches'[r].offers = <<>>
        BY <2>1 DEF StoredBy, NewSearch
      <3> QED
        BY <3>1, <3>2, <3>3
    <2>2. ASSUME r \in DOMAIN searches, SameSearch(searches[r], searches'[r])
          PROVE  \E q \in sent' : MadeFor(searches'[r], r, q)
      BY <1>0, <2>2 DEF SentSearches, SameSearch, MadeFor
    <2>3. ASSUME NEW i \in DOMAIN searches'[r].offers, r \in DOMAIN searches,
                 \/ /\ i \in DOMAIN searches[r].offers
                    /\ searches'[r].offers[i] = searches[r].offers[i]
                 \/ \E c \in DOMAIN toServer : OfferedBy(c, r, searches'[r].offers[i])
          PROVE  \E c \in sent' : OfferedBy(c, r, searches'[r].offers[i])
      <3>1. CASE /\ i \in DOMAIN searches[r].offers
                 /\ searches'[r].offers[i] = searches[r].offers[i]
        BY <1>0, <3>1, <2>3 DEF SentOffers
      <3>2. ASSUME NEW c \in DOMAIN toServer, OfferedBy(c, r, searches'[r].offers[i])
            PROVE  c \in sent'
        BY <1>0, <3>2 DEF SentInFlight, OfferedBy, Recorded
      <3> QED
        BY <2>3, <3>1, <3>2
    <2> QED
      BY <2>1, <2>2, <2>3, SearchesCome
  <1> QED
    BY <1>1, <1>2, <1>3 DEF SentSearches, SentOffers

LEMMA SentInit == Init => SentInv
  <1> SUFFICES ASSUME Init PROVE SentInv
    OBVIOUS
  <1>1. DOMAIN toServer = {} /\ DOMAIN jobs = {} /\ DOMAIN searches = {}
    BY DEF Init, NetInit, ServerInit, EmptyBag, SetToBag
  <1> QED
    BY <1>1 DEF SentInv, SentInFlight, SentAtWork, SentSearches, SentOffers

LEMMA SentAlways == Spec => []SentInv
  <1>1. TypeOK /\ SentInv /\ [Next]_vars => SentInv'
    BY SentStep
  <1> QED
    BY <1>1, SentInit, TypeCorrect, PTL DEF Spec

\* A new answer comes from a pending search of its receiver.
AnswersFrom(r, d) ==
    LET s == searches[r] IN
    /\ Pending(r) /\ d.to = s.searcher /\ d.msg.rq = r /\ d.msg.item_name = s.item
    /\ IF d.msg.command = "FOUND"
       THEN /\ d.msg.price <= s.maxPrice
            /\ \E i \in DOMAIN s.offers : d.msg.price = s.offers[i].price
       ELSE d.msg.price = s.maxPrice
LEMMA AnswerComes ==
    ASSUME TypeOK, SentInv, [Next]_vars, NEW d \in DOMAIN toPeers', d \notin DOMAIN toPeers,
           d.msg.command \in {"FOUND", "NOT_AVAILABLE"}
    PROVE  \E r \in Rqs : AnswersFrom(r, d)
  <1>1. Answers(d.to, d.msg)
    BY NewToPeers, CommandsSent DEF ServerSends
  <1>2. PICK r \in Rqs :
          /\ Pending(r)
          /\ \/ /\ d.to = searches[r].searcher
                /\ d.msg = NotAvailableMsg(r, searches[r].item, searches[r].maxPrice)
             \/ \E i \in DOMAIN searches[r].offers :
                  /\ d.to = searches[r].searcher
                  /\ searches[r].offers[i].price <= searches[r].maxPrice
                  /\ d.msg = FoundMsg(r, searches[r].item, searches[r].offers[i].price)
    BY <1>1 DEF Answers, NegotiateMsg
  <1>3. CASE d.to = searches[r].searcher
             /\ d.msg = NotAvailableMsg(r, searches[r].item, searches[r].maxPrice)
    <2>1. /\ d.msg.command = "NOT_AVAILABLE" /\ d.msg.rq = r
          /\ d.msg.item_name = searches[r].item /\ d.msg.price = searches[r].maxPrice
      BY <1>3 DEF NotAvailableMsg
    <2> QED
      BY <1>2, <1>3, <2>1 DEF AnswersFrom
  <1>4. ASSUME NEW i \in DOMAIN searches[r].offers,
               d.to = searches[r].searcher,
               searches[r].offers[i].price <= searches[r].maxPrice,
               d.msg = FoundMsg(r, searches[r].item, searches[r].offers[i].price)
        PROVE  AnswersFrom(r, d)
    <2>1. /\ d.msg.command = "FOUND" /\ d.msg.rq = r
          /\ d.msg.item_name = searches[r].item /\ d.msg.price = searches[r].offers[i].price
      BY <1>4 DEF FoundMsg
    <2> QED
      BY <1>2, <1>4, <2>1 DEF AnswersFrom
  <1> QED
    BY <1>2, <1>3, <1>4

LEMMA AnswerStep ==
    ASSUME TypeOK, SentInv, AnswerMatchesRequest, [Next]_vars
    PROVE  AnswerMatchesRequest'
  <1> SUFFICES ASSUME NEW d \in DOMAIN toPeers', d.msg.command \in {"FOUND", "NOT_AVAILABLE"}
               PROVE  \E q \in sent' : AnswersRequest(d, q)
    BY DEF AnswerMatchesRequest, AnswersRequest, IsRequest
  <1>1. CASE d \in DOMAIN toPeers
    BY <1>1, SentGrows DEF AnswerMatchesRequest
  <1>2. CASE d \notin DOMAIN toPeers
    <2>1. PICK r \in Rqs : AnswersFrom(r, d)
      BY <1>2, AnswerComes
    <2>2. PICK q \in sent : MadeFor(searches[r], r, q)
      BY <2>1 DEF AnswersFrom, SentInv, SentSearches, Pending
    <2>3. AnswersRequest(d, q)
      BY <2>1, <2>2 DEF AnswersFrom, MadeFor, AnswersRequest, IsRequest
    <2> QED
      BY <2>3, SentGrows
  <1> QED
    BY <1>1, <1>2

(***************************************************************************)
(* Every FOUND and NOT_AVAILABLE is about a search its receiver made, with *)
(* its number, its item and a price within its maximum: for any number of  *)
(* buyers, also when they use the same numbers, and whatever the network   *)
(* duplicates (handleLookingFor overwrites a search of the same number as  *)
(* a whole, searcher included).                                            *)
(***************************************************************************)
THEOREM AnswersMatchRequests == Spec => []AnswerMatchesRequest
  <1>1. Init => AnswerMatchesRequest
    BY DEF Init, NetInit, AnswerMatchesRequest, EmptyBag, SetToBag
  <1>2. TypeOK /\ SentInv /\ AnswerMatchesRequest /\ [Next]_vars => AnswerMatchesRequest'
    BY AnswerStep
  <1> QED
    BY <1>1, <1>2, TypeCorrect, SentAlways, PTL DEF Spec

-------------------------------------------------------------------------------
(***************************************************************************)
(* What a buyer is told was found was offered.  Offers are filed by their  *)
(* request number alone, so this needs that a number stands for one search *)
(* (OnePerNumber): only one peer searches, and it never counts from 1      *)
(* again (NumbersAreOwn).  Then an OFFER, which answers a SEARCH of        *)
(* another peer, names the item of the only search there is for its number *)
(* (Solicited).                                                            *)
(***************************************************************************)
NumbersAreOwn == SingleSearcher /\ (SearchersStay \/ MaxFaults = 0)
Searches == {q \in sent : q.msg.command = "LOOKING_FOR"}
OnePerNumber ==
    /\ \A q \in Searches : "search" \in Roles[q.from] /\ q.msg.rq < nextRq[q.from]
    /\ \A c, q \in Searches : c.msg.rq = q.msg.rq => c = q
Wanted(p, r, i) ==
    /\ "search" \notin Roles[p]
    /\ \E q \in Searches : q.msg.rq = r /\ q.msg.item_name = i
Solicited ==
    /\ \A d \in DOMAIN toPeers :
         d.msg.command = "SEARCH" => Wanted(d.to, d.msg.rq, d.msg.item_name)
    /\ \A c \in sent : c.msg.command = "OFFER" =>
         /\ c.msg = OfferMsg(c.from, c.msg.rq, c.msg.item_name, c.msg.price)
         /\ Wanted(c.from, c.msg.rq, c.msg.item_name)
FoundInv == OnePerNumber /\ Solicited /\ FoundWasOffered

LEMMA OnePerNumberStep ==
    ASSUME NumbersAreOwn, TypeOK, OnePerNumber, [Next]_vars
    PROVE  OnePerNumber'
  <1>1. sent \subseteq Datagram /\ nextRq \in [Peers -> 1 .. MaxRq + 1] /\ MaxRq \in Nat
    BY MaxRqAssumption DEF TypeOK
  <1>2. \A q \in sent : q.from \in Peers /\ q.msg.rq \in Rqs
    BY <1>1, ClientMessageFields DEF Datagram
  <1>3. ASSUME NEW p \in Peers, "search" \in Roles[p]
        PROVE  nextRq'[p] \in Nat /\ nextRq[p] <= nextRq'[p]
    <2>1. \/ nextRq' = nextRq
          \/ \E q \in Peers : nextRq' = [nextRq EXCEPT ![q] = @ + 1]
          \/ /\ faults < MaxFaults
             /\ \E q \in Peers : "restart" \in Roles[q] /\ nextRq' = [nextRq EXCEPT ![q] = 1]
      BY DEF Next, PeersNext, PeerRegisters, PeerDeregisters, PeerFails, PeerSearches, PeerTrades,
         PeerOffers, Does, FaultsNext, PeerRestarts, NetworkDuplicates, vars
    <2>2. "restart" \notin Roles[p] \/ ~(faults < MaxFaults)
      BY <1>3 DEF NumbersAreOwn, SearchersStay, TypeOK
    <2> QED
      BY <1>1, <2>1, <2>2
  <1>4. ASSUME NEW q \in Searches'
        PROVE  "search" \in Roles[q.from] /\ q.msg.rq < nextRq'[q.from]
    <2>1. CASE q \in sent
      <3>1. "search" \in Roles[q.from] /\ q.msg.rq < nextRq[q.from] /\ q.from \in Peers
        BY <1>2, <1>4, <2>1 DEF OnePerNumber, Searches
      <3>2. nextRq[q.from] \in Nat /\ nextRq[q.from] <= nextRq'[q.from] /\ nextRq'[q.from] \in Nat
        BY <1>1, <1>3, <3>1
      <3> QED
        BY <1>2, <2>1, <3>1, <3>2 DEF Rqs
    <2>2. CASE q \notin sent
      <3>1. /\ "search" \in Roles[q.from] /\ q.msg.rq = nextRq[q.from] /\ q \in Datagram
            /\ nextRq' = [nextRq EXCEPT ![q.from] = @ + 1]
        BY <1>4, <2>2, NewSent DEF Searches
      <3>2. q.from \in Peers
        BY <3>1 DEF Datagram
      <3> QED
        BY <1>1, <3>1, <3>2
    <2> QED
      BY <2>1, <2>2
  <1>5. ASSUME NEW c \in Searches', NEW q \in Searches', c.msg.rq = q.msg.rq, c \in sent, q \notin sent
        PROVE  FALSE
    <2>1. "search" \in Roles[q.from] /\ q.msg.rq = nextRq[q.from] /\ q \in Datagram
      BY <1>5, NewSent DEF Searches
    <2>2. "search" \in Roles[c.from] /\ c.msg.rq < nextRq[c.from] /\ c.from \in Peers
      BY <1>2, <1>5 DEF OnePerNumber, Searches
    <2>3. c.from = q.from
      BY <2>1, <2>2 DEF Datagram, SingleSearcher, NumbersAreOwn
    <2> QED
      BY <1>1, <1>5, <2>1, <2>2, <2>3
  <1>6. ASSUME NEW c \in Searches', NEW q \in Searches', c.msg.rq = q.msg.rq
        PROVE  c = q
    <2>1. CASE c \in sent /\ q \in sent
      BY <1>6, <2>1 DEF OnePerNumber, Searches
    <2>2. CASE c \notin sent /\ q \notin sent
      <3>1. sent' = sent \cup {c}
        BY <1>6, <2>2, NewSent DEF Searches
      <3> QED
        BY <1>6, <2>2, <3>1 DEF Searches
    <2> QED
      BY <1>5, <1>6, <2>1, <2>2
  <1> QED
    BY <1>4, <1>6 DEF OnePerNumber, Searches

LEMMA SolicitedStep ==
    ASSUME NumbersAreOwn, TypeOK, SentInv, OnePerNumber, Solicited, [Next]_vars
    PROVE  Solicited'
  <1>0. sent \subseteq sent' /\ \A d \in DOMAIN toPeers : d.msg \in ServerMessages
    BY SentGrows DEF TypeOK, NetTypeOK
  <1>1. ASSUME NEW p, NEW r, NEW i, Wanted(p, r, i)
        PROVE  Wanted(p, r, i)'
    BY <1>0, <1>1 DEF Wanted, Searches
  <1>2. ASSUME NEW d \in DOMAIN toPeers', d.msg.command = "SEARCH"
        PROVE  Wanted(d.to, d.msg.rq, d.msg.item_name)'
    <2>1. CASE d \in DOMAIN toPeers
      BY <1>1, <1>2, <2>1 DEF Solicited
    <2>2. CASE d \notin DOMAIN toPeers
      <3>1. ServerSends(d.to, d.msg) /\ d.to \in Peers
        BY <2>2, NewToPeers
      <3>2. Announces(d.to, d.msg)
        BY <1>2, <3>1, CommandsSent DEF ServerSends
      <3>3. PICK w \in DOMAIN jobs : /\ jobs[w].at = "broadcast"
                                     /\ d.to \in Audience(jobs[w].from)
                                     /\ d.msg = SearchMsg(jobs[w].msg.rq, jobs[w].msg.item_name)
        BY <3>2 DEF Announces
      <3> DEFINE q == [from |-> jobs[w].from, msg |-> jobs[w].msg]
      <3>4. q \in Searches /\ q.from \in Peers
        BY <3>3, SentJob DEF SentInv, Searches, Job
      <3>5. "search" \in Roles[q.from] /\ d.to # q.from
        BY <3>3, <3>4 DEF OnePerNumber, Audience
      <3>6. "search" \notin Roles[d.to]
        BY <3>1, <3>4, <3>5 DEF SingleSearcher, NumbersAreOwn
      <3>7. d.msg.rq = q.msg.rq /\ d.msg.item_name = q.msg.item_name
        BY <3>3 DEF SearchMsg
      <3>8. Wanted(d.to, d.msg.rq, d.msg.item_name)
        BY <3>4, <3>6, <3>7 DEF Wanted
      <3> QED
        BY <1>1, <3>8
    <2> QED
      BY <2>1, <2>2
  <1>3. ASSUME NEW c \in sent', c.msg.command = "OFFER"
        PROVE  /\ c.msg = OfferMsg(c.from, c.msg.rq, c.msg.item_name, c.msg.price)
               /\ Wanted(c.from, c.msg.rq, c.msg.item_name)'
    <2>1. CASE c \in sent
      BY <1>1, <1>3, <2>1 DEF Solicited
    <2>2. CASE c \notin sent
      <3>1. PeerSends(c.from, c.msg)
        BY <2>2, NewSent
      <3>2. PICK d \in DOMAIN toPeers, price \in Prices :
              /\ d.to = c.from /\ d.msg.command = "SEARCH"
              /\ c.msg = OfferMsg(c.from, d.msg.rq, d.msg.item_name, price)
        BY <1>3, <3>1, OffersSent
      <3>3. c.msg.rq = d.msg.rq /\ c.msg.item_name = d.msg.item_name /\ c.msg.price = price
        BY <3>2 DEF OfferMsg
      <3>4. Wanted(c.from, c.msg.rq, c.msg.item_name)
        BY <3>2, <3>3 DEF Solicited
      <3> QED
        BY <1>1, <3>2, <3>3, <3>4
    <2> QED
      BY <2>1, <2>2
  <1> QED
    BY <1>2, <1>3 DEF Solicited

LEMMA FoundStep ==
    ASSUME TypeOK, SentInv, FoundInv, [Next]_vars
    PROVE  FoundWasOffered'
  <1> SUFFICES ASSUME NEW d \in DOMAIN toPeers', d.msg.command = "FOUND"
               PROVE  \E c \in sent' :
                        /\ c.from # d.to
                        /\ c.msg = OfferMsg(c.from, d.msg.rq, d.msg.item_name, d.msg.price)
    BY DEF FoundWasOffered
  <1>1. CASE d \in DOMAIN toPeers
    BY <1>1, SentGrows DEF FoundInv, FoundWasOffered
  <1>2. CASE d \notin DOMAIN toPeers
    <2>1. PICK r \in Rqs : AnswersFrom(r, d)
      BY <1>2, AnswerComes
    <2>2. PICK i \in DOMAIN searches[r].offers :
            /\ d.msg.price = searches[r].offers[i].price /\ d.to = searches[r].searcher
            /\ d.msg.rq = r /\ d.msg.item_name = searches[r].item /\ r \in DOMAIN searches
      BY <2>1 DEF AnswersFrom, Pending
    <2>3. PICK q \in sent : MadeFor(searches[r], r, q)
      BY <2>2 DEF SentInv, SentSearches
    <2>4. PICK c \in sent : OfferedBy(c, r, searches[r].offers[i])
      BY <2>2 DEF SentInv, SentOffers
    <2>5. /\ c.msg = OfferMsg(c.from, r, c.msg.item_name, c.msg.price)
          /\ Wanted(c.from, r, c.msg.item_name)
      BY <2>4 DEF FoundInv, Solicited, OfferedBy
    <2>6. c.msg.price = d.msg.price
      BY <2>2, <2>4 DEF OfferedBy
    <2>7. q \in Searches /\ q.msg.rq = r /\ q.from = d.to /\ q.msg.item_name = d.msg.item_name
      BY <2>2, <2>3 DEF MadeFor, IsRequest, Searches
    <2>8. c.msg.item_name = d.msg.item_name /\ c.from # d.to
      BY <2>5, <2>7 DEF Wanted, FoundInv, OnePerNumber
    <2> QED
      BY <2>2, <2>5, <2>6, <2>8, SentGrows
  <1> QED
    BY <1>1, <1>2

LEMMA FoundAlways == ASSUME NumbersAreOwn PROVE Spec => []FoundInv
  <1>1. Init => FoundInv
    <2> SUFFICES ASSUME Init PROVE FoundInv
      OBVIOUS
    <2>1. DOMAIN toPeers = {} /\ sent = {}
      BY DEF Init, NetInit, EmptyBag, SetToBag
    <2> QED
      BY <2>1 DEF FoundInv, OnePerNumber, Solicited, FoundWasOffered, Searches
  <1>2. TypeOK /\ SentInv /\ FoundInv /\ [Next]_vars => FoundInv'
    BY OnePerNumberStep, SolicitedStep, FoundStep DEF FoundInv
  <1> QED
    BY <1>1, <1>2, TypeCorrect, SentAlways, PTL DEF Spec

(***************************************************************************)
(* If one peer searches and never counts from 1 again, it is told FOUND    *)
(* only of offers that another peer made for that request, of that item,   *)
(* at that price: whatever is lost, duplicated or overtaken and whoever    *)
(* else restarts (handleOffer).  Two buyers that use the same number, or   *)
(* one that counts again, can be told of an offer of another item.         *)
(***************************************************************************)
THEOREM FoundWereOffered ==
    ASSUME NumbersAreOwn PROVE Spec => []FoundWasOffered
  <1>1. FoundInv => FoundWasOffered
    BY DEF FoundInv
  <1> QED
    BY <1>1, FoundAlways, PTL

-------------------------------------------------------------------------------
(***************************************************************************)
(* A request is in one place at a time.  A number not used yet counts as   *)
(* one more place it may be in (Unused), and each fault, a duplicate or a  *)
(* restart, makes room for one more.                                       *)
(***************************************************************************)
Unused(p, r) == IF r >= nextRq[p] THEN 1 ELSE 0
Once(p, r) ==
    /\ IsFiniteSet(Waiting(p, r)) /\ IsFiniteSet(Storing(p, r)) /\ IsFiniteSet(Answered(p, r))
    /\ Places(p, r) + Unused(p, r) <= 1 + faults
OnceInv == \A p \in Peers, r \in Rqs : Once(p, r)

\* A datagram more is at most a copy more, a datagram less is a copy less.
LEMMA OneMoreCopy ==
    ASSUME NEW B, IsABag(B), NEW d, NEW D, D = {d}, NEW S, NEW T, IsFiniteSet(Copies(B, S)),
           S \subseteq DOMAIN B, T \subseteq S \cup {d}, d \in DOMAIN B /\ d \in T => d \in S
    PROVE  /\ IsFiniteSet(Copies(B (+) SetToBag(D), T))
           /\ Cardinality(Copies(B (+) SetToBag(D), T)) <= Cardinality(Copies(B, S)) + 1
           /\ d \notin T => Copies(B (+) SetToBag(D), T) \subseteq Copies(B, S)
  <1> DEFINE C == B (+) SetToBag(D)
             n == IF d \in DOMAIN B THEN B[d] + 1 ELSE 1
  <1>1. \A e \in DOMAIN B : e # d => C[e] = B[e]
    BY DEF IsABag, (+), SetToBag, BagIn
  <1>2. C[d] = n
    BY DEF IsABag, (+), SetToBag, BagIn
  <1>3. \A e \in DOMAIN B : B[e] \in Nat
    BY DEF IsABag
  <1> HIDE DEF C
  <1>4. ASSUME NEW e \in T, NEW k \in 1 .. C[e]
        PROVE  <<e, k>> \in Copies(B, S) \/ (e = d /\ k = n)
    <2>1. CASE e # d
      BY <1>1, <1>4, <2>1 DEF Copies
    <2>2. CASE e = d /\ d \in DOMAIN B
      <3>1. k \in 1 .. B[d] \/ k = n
        BY <1>2, <1>3, <1>4, <2>2
      <3> QED
        BY <1>4, <2>2, <3>1 DEF Copies
    <2>3. CASE e = d /\ d \notin DOMAIN B
      BY <1>2, <1>4, <2>3
    <2> QED
      BY <2>1, <2>2, <2>3
  <1>5. Copies(C, T) \subseteq Copies(B, S) \cup {<<d, n>>}
    BY <1>4 DEF Copies
  <1>6. /\ IsFiniteSet(Copies(B, S) \cup {<<d, n>>})
        /\ Cardinality(Copies(B, S) \cup {<<d, n>>}) <= Cardinality(Copies(B, S)) + 1
    <2> DEFINE U == Copies(B, S)
               x == <<d, n>>
    <2>1. IsFiniteSet(U) /\ Cardinality(U) \in Nat
      BY FS_CardinalityType
    <2> HIDE DEF U, x
    <2>2. /\ IsFiniteSet(U \cup {x})
          /\ x \notin U => Cardinality(U \cup {x}) = Cardinality(U) + 1
      BY <2>1, FS_AddElement
    <2>3. x \in U => U \cup {x} = U
      OBVIOUS
    <2>4. Cardinality(U \cup {x}) <= Cardinality(U) + 1
      BY <2>1, <2>2, <2>3
    <2> QED
      BY <2>2, <2>4 DEF U, x
  <1>7. IsFiniteSet(Copies(C, T)) /\ Cardinality(Copies(C, T)) <= Cardinality(Copies(B, S)) + 1
    <2>1. /\ IsFiniteSet(Copies(C, T))
          /\ Cardinality(Copies(C, T)) <= Cardinality(Copies(B, S) \cup {<<d, n>>})
      BY <1>5, <1>6, FS_Subset
    <2> QED
      BY <1>6, <2>1, FS_CardinalityType
  <1>8. d \notin T => Copies(C, T) \subseteq Copies(B, S)
    BY <1>4 DEF Copies
  <1> QED
    BY <1>7, <1>8 DEF C

LEMMA OneCopyLess ==
    ASSUME NEW B, IsABag(B), NEW d \in DOMAIN B, NEW D, D = {d}, NEW S, NEW T,
           IsFiniteSet(Copies(B, S)), S \subseteq DOMAIN B,
           T \subseteq S \cap DOMAIN (B (-) SetToBag(D))
    PROVE  /\ Copies(B (-) SetToBag(D), T) \subseteq Copies(B, S)
           /\ d \in S => Cardinality(Copies(B (-) SetToBag(D), T)) + 1 <= Cardinality(Copies(B, S))
  <1> DEFINE C == B (-) SetToBag(D)
  <1>1. \A e \in DOMAIN C : /\ e \in DOMAIN B
                            /\ C[e] = IF e = d THEN B[e] - 1 ELSE B[e]
    BY DEF IsABag, (-), SetToBag, BagIn
  <1>2. \A e \in DOMAIN B : B[e] \in Nat /\ B[e] > 0
    BY DEF IsABag
  <1> HIDE DEF C
  <1>3. ASSUME NEW e \in T, NEW k \in 1 .. C[e]
        PROVE  e \in S /\ k \in 1 .. B[e] /\ (e = d => k # B[d])
    <2>1. e \in DOMAIN C /\ e \in S
      BY DEF C
    <2> QED
      BY <1>1, <1>2, <1>3, <2>1
  <1>4. Copies(C, T) \subseteq Copies(B, S)
    BY <1>3 DEF Copies
  <1>5. ASSUME d \in S
        PROVE  Cardinality(Copies(C, T)) + 1 <= Cardinality(Copies(B, S))
    <2>1. <<d, B[d]>> \in Copies(B, S)
      BY <1>2, <1>5 DEF Copies
    <2>2. Copies(C, T) \subseteq Copies(B, S) \ {<<d, B[d]>>}
      BY <1>3 DEF Copies
    <2>3. /\ IsFiniteSet(Copies(B, S) \ {<<d, B[d]>>})
          /\ Cardinality(Copies(B, S) \ {<<d, B[d]>>}) = Cardinality(Copies(B, S)) - 1
      BY <2>1, FS_RemoveElement
    <2>4. Cardinality(Copies(C, T)) <= Cardinality(Copies(B, S)) - 1
      BY <2>2, <2>3, FS_Subset
    <2> QED
      BY <2>2, <2>3, <2>4, FS_Subset, FS_CardinalityType
  <1> QED
    BY <1>4, <1>5 DEF C

\* The copies of a request on their way, and of an answer.
LEMMA WaitingLess ==
    ASSUME NetTypeOK, NEW p, NEW r, IsFiniteSet(Waiting(p, r)),
           NEW d \in DOMAIN toServer, Receive(d)
    PROVE  /\ Waiting(p, r)' \subseteq Waiting(p, r)
           /\ IsRequest(d, p, r) => Cardinality(Waiting(p, r)') + 1 <= Cardinality(Waiting(p, r))
  <1> DEFINE D == {d}
             S == {c \in DOMAIN toServer : IsRequest(c, p, r)}
             T == {c \in DOMAIN toServer' : IsRequest(c, p, r)}
  <1>1. Waiting(p, r) = Copies(toServer, S) /\ S \subseteq DOMAIN toServer
    BY DEF Waiting
  <1>2. Waiting(p, r)' = Copies(toServer', T)
    BY DEF Waiting, Copies, IsRequest
  <1>3. D = {d} /\ toServer' = toServer (-) SetToBag(D) /\ IsABag(toServer)
    BY DEF Receive, NetTypeOK
  <1>4. T \subseteq S \cap DOMAIN (toServer (-) SetToBag(D)) /\ (d \in S <=> IsRequest(d, p, r))
    BY <1>3, ReceiveBag
  <1> HIDE DEF D, S, T
  <1> QED
    BY <1>1, <1>2, <1>3, <1>4, OneCopyLess

LEMMA WaitingMore ==
    ASSUME NetTypeOK, NEW p, NEW r, IsFiniteSet(Waiting(p, r)),
           NEW d, toServer' = toServer (+) SetToBag({d})
    PROVE  /\ IsFiniteSet(Waiting(p, r)')
           /\ Cardinality(Waiting(p, r)') <= Cardinality(Waiting(p, r)) + 1
           /\ ~IsRequest(d, p, r) => Waiting(p, r)' \subseteq Waiting(p, r)
  <1> DEFINE D == {d}
             S == {c \in DOMAIN toServer : IsRequest(c, p, r)}
             T == {c \in DOMAIN toServer' : IsRequest(c, p, r)}
  <1>1. Waiting(p, r) = Copies(toServer, S) /\ S \subseteq DOMAIN toServer
    BY DEF Waiting
  <1>2. Waiting(p, r)' = Copies(toServer', T)
    BY DEF Waiting, Copies, IsRequest
  <1>3. D = {d} /\ toServer' = toServer (+) SetToBag(D) /\ IsABag(toServer)
    BY DEF NetTypeOK
  <1>4. DOMAIN toServer' = DOMAIN toServer \cup D
    <2> HIDE DEF D
    <2> QED
      BY <1>3, BagAdd
  <1>5. /\ T \subseteq S \cup {d} /\ (d \in DOMAIN toServer /\ d \in T => d \in S)
        /\ (d \in T => IsRequest(d, p, r))
    BY <1>4
  <1> HIDE DEF D, S, T
  <1> QED
    BY <1>1, <1>2, <1>3, <1>5, OneMoreCopy

LEMMA AnsweredLess ==
    ASSUME NetTypeOK, NEW p, NEW r, IsFiniteSet(Answered(p, r)),
           NEW d \in DOMAIN toPeers, Deliver(d)
    PROVE  Answered(p, r)' \subseteq Answered(p, r)
  <1> DEFINE D == {d}
             S == {c \in DOMAIN toPeers : IsAnswer(c, p, r)}
             T == {c \in DOMAIN toPeers' : IsAnswer(c, p, r)}
  <1>1. Answered(p, r) = Copies(toPeers, S) /\ S \subseteq DOMAIN toPeers
    BY DEF Answered
  <1>2. Answered(p, r)' = Copies(toPeers', T)
    BY DEF Answered, Copies, IsAnswer
  <1>3. D = {d} /\ toPeers' = toPeers (-) SetToBag(D) /\ IsABag(toPeers)
    BY DEF Deliver, NetTypeOK
  <1>4. T \subseteq S \cap DOMAIN (toPeers (-) SetToBag(D))
    BY <1>3, DeliverRemoves
  <1> HIDE DEF D, S, T
  <1> QED
    BY <1>1, <1>2, <1>3, <1>4, OneCopyLess

LEMMA AnsweredMore ==
    ASSUME NetTypeOK, NEW p, NEW r, IsFiniteSet(Answered(p, r)),
           NEW d, toPeers' = toPeers (+) SetToBag({d})
    PROVE  /\ IsFiniteSet(Answered(p, r)')
           /\ Cardinality(Answered(p, r)') <= Cardinality(Answered(p, r)) + 1
           /\ ~IsAnswer(d, p, r) => Answered(p, r)' \subseteq Answered(p, r)
  <1> DEFINE D == {d}
             S == {c \in DOMAIN toPeers : IsAnswer(c, p, r)}
             T == {c \in DOMAIN toPeers' : IsAnswer(c, p, r)}
  <1>1. Answered(p, r) = Copies(toPeers, S) /\ S \subseteq DOMAIN toPeers
    BY DEF Answered
  <1>2. Answered(p, r)' = Copies(toPeers', T)
    BY DEF Answered, Copies, IsAnswer
  <1>3. D = {d} /\ toPeers' = toPeers (+) SetToBag(D) /\ IsABag(toPeers)
    BY DEF NetTypeOK
  <1>4. DOMAIN toPeers' = DOMAIN toPeers \cup D
    <2> HIDE DEF D
    <2> QED
      BY <1>3, BagAdd
  <1>5. /\ T \subseteq S \cup {d} /\ (d \in DOMAIN toPeers /\ d \in T => d \in S)
        /\ (d \in T => IsAnswer(d, p, r))
    BY <1>4
  <1> HIDE DEF D, S, T
  <1> QED
    BY <1>1, <1>2, <1>3, <1>5, OneMoreCopy

\* A SEARCH on its way is no answer.
LEMMA AnsweredAfterBroadcast ==
    ASSUME NetTypeOK, NEW p, NEW r, NEW w, BroadcastSearch(w)
    PROVE  Answered(p, r)' \subseteq Answered(p, r)
  <1> DEFINE D == {[to |-> q, msg |-> SearchMsg(jobs[w].msg.rq, jobs[w].msg.item_name)] :
                     q \in Audience(jobs[w].from)}
  <1>1. toPeers' = toPeers (+) SetToBag(D) /\ IsABag(toPeers)
    BY DEF BroadcastSearch, NetTypeOK
  <1>2. ASSUME NEW e \in D PROVE ~IsAnswer(e, p, r)
    BY DEF IsAnswer, SearchMsg
  <1> HIDE DEF D
  <1>3. \A e \in DOMAIN toPeers' : IsAnswer(e, p, r) => /\ e \in DOMAIN toPeers
                                                        /\ toPeers'[e] = toPeers[e]
    BY <1>1, <1>2 DEF IsABag, (+), SetToBag, BagIn
  <1> QED
    BY <1>3 DEF Answered, Copies, IsAnswer

\* The arithmetic of a step that adds to no place, and of one that moves.
LEMMA Counts ==
    ASSUME NEW p, NEW r, Once(p, r), TypeOK
    PROVE  /\ Cardinality(Waiting(p, r)) \in Nat /\ Cardinality(Storing(p, r)) \in Nat
           /\ Cardinality(Answered(p, r)) \in Nat /\ Unused(p, r) \in 0 .. 1 /\ faults \in Nat
  BY FS_CardinalityType, MaxFaultsAssumption DEF Once, Unused, TypeOK

LEMMA OnceKept ==
    ASSUME NEW p, NEW r, Once(p, r), TypeOK,
           Waiting(p, r)' \subseteq Waiting(p, r), Storing(p, r)' \subseteq Storing(p, r),
           Answered(p, r)' \subseteq Answered(p, r), Filed(p, r)' => Filed(p, r),
           Unused(p, r)' <= Unused(p, r), Unused(p, r)' \in 0 .. 1, faults' = faults
    PROVE  Once(p, r)'
  <1>1. /\ IsFiniteSet(Waiting(p, r)') /\ IsFiniteSet(Storing(p, r)') /\ IsFiniteSet(Answered(p, r)')
        /\ Cardinality(Waiting(p, r)') <= Cardinality(Waiting(p, r))
        /\ Cardinality(Storing(p, r)') <= Cardinality(Storing(p, r))
        /\ Cardinality(Answered(p, r)') <= Cardinality(Answered(p, r))
    BY FS_Subset DEF Once
  <1>2. /\ Cardinality(Waiting(p, r)') \in Nat /\ Cardinality(Storing(p, r)') \in Nat
        /\ Cardinality(Answered(p, r)') \in Nat
    BY <1>1, FS_CardinalityType
  <1> QED
    BY <1>1, <1>2, Counts DEF Once, Places

\* The server's steps, one lemma per kind: a handler but StartSearch, the steps
\* of a search from its datagram to its answer, and the rest.
LEMMA OnceHandled ==
    ASSUME TypeOK, NEW p \in Peers, NEW r \in Rqs, Once(p, r), UNCHANGED <<nextRq, faults>>,
           NEW w \in Workers, NEW d \in DOMAIN toServer,
           \/ HandleRegister(w, d) \/ HandleDeregister(w, d) \/ HandleUnknown(w, d)
           \/ HandleOffer(w, d)
    PROVE  Once(p, r)'
  <1>n. NetTypeOK /\ SearchesTypeOK
    BY DEF TypeOK, ServerTypeOK
  <1>1. Waiting(p, r)' \subseteq Waiting(p, r)
    BY <1>n, WaitingLess DEF Once, HandleRegister, HandleDeregister, HandleUnknown, HandleOffer, Takes
  <1>2. Storing(p, r)' \subseteq Storing(p, r)
    <2>1. jobs' = jobs \/ jobs' = Put(jobs, w, JobAt("push", d))
      BY DEF HandleRegister, HandleDeregister, HandleUnknown, HandleOffer, AfterHandler
    <2>2. ASSUME NEW v \in Storing(p, r)'
          PROVE  v \in DOMAIN jobs /\ jobs'[v] = jobs[v]
      BY <2>1, <2>2 DEF Storing, Put, JobAt
    <2> QED
      BY <2>2 DEF Storing, IsRequest
  <1>3. Answered(p, r)' \subseteq Answered(p, r)
    <2>1. CASE toPeers' = toPeers
      BY <2>1 DEF Answered, Copies, IsAnswer
    <2>2. ASSUME NEW m, m \in {DeniedMsg(d.msg.rq), RegisteredMsg(d.msg.rq)}, Reply(d.from, m)
          PROVE  Answered(p, r)' \subseteq Answered(p, r)
      <3>1. ~IsAnswer([to |-> d.from, msg |-> m], p, r)
        BY <2>2 DEF IsAnswer, DeniedMsg, RegisteredMsg
      <3> QED
        BY <1>n, <2>2, <3>1, AnsweredMore DEF Reply, Once
    <2> QED
      BY <2>1, <2>2 DEF HandleRegister, HandleDeregister, HandleUnknown, HandleOffer
  <1>4. Filed(p, r)' => Filed(p, r)
    <2>1. CASE searches' = searches
      BY <2>1 DEF Filed, Pending
    <2>2. CASE searches' = WithOffer(d.msg.rq, [seller |-> d.from, price |-> d.msg.price])
      BY <1>n, <2>2 DEF Filed, Pending, WithOffer, SearchesTypeOK, SearchRequest
    <2> QED
      BY <2>1, <2>2 DEF HandleRegister, HandleDeregister, HandleUnknown, HandleOffer
  <1>5. Unused(p, r)' = Unused(p, r)
    BY DEF Unused
  <1> QED
    BY <1>1, <1>2, <1>3, <1>4, <1>5, Counts, OnceKept

LEMMA OnceStarted ==
    ASSUME TypeOK, NEW p \in Peers, NEW r \in Rqs, Once(p, r), UNCHANGED <<nextRq, faults>>,
           NEW w \in Workers, NEW d \in DOMAIN toServer, StartSearch(w, d)
    PROVE  Once(p, r)'
  <1>n. NetTypeOK
    BY DEF TypeOK
  <1>1. /\ Waiting(p, r)' \subseteq Waiting(p, r)
        /\ IsRequest(d, p, r) => Cardinality(Waiting(p, r)') + 1 <= Cardinality(Waiting(p, r))
    BY <1>n, WaitingLess DEF Once, StartSearch, Takes
  <1>2. Answered(p, r)' = Answered(p, r)
    BY DEF StartSearch, Answered, Copies, IsAnswer
  <1>3. Filed(p, r)' = Filed(p, r) /\ Unused(p, r)' = Unused(p, r)
    BY DEF StartSearch, Filed, Pending, Unused
  <1>4. jobs' = Put(jobs, w, JobAt("store", d)) /\ w \notin DOMAIN jobs
    BY DEF StartSearch, Takes
  <1>5. CASE ~IsRequest(d, p, r)
    <2>1. Storing(p, r)' \subseteq Storing(p, r)
      BY <1>4, <1>5 DEF Storing, Put, JobAt, IsRequest
    <2> QED
      BY <1>1, <1>2, <1>3, <2>1, Counts, OnceKept
  <1>6. CASE IsRequest(d, p, r)
    <2>1. Storing(p, r)' \subseteq Storing(p, r) \cup {w} /\ w \notin Storing(p, r)
      BY <1>4 DEF Storing, Put, JobAt, IsRequest
    <2>2. /\ IsFiniteSet(Storing(p, r)) /\ Cardinality(Storing(p, r)) \in Nat
          /\ IsFiniteSet(Waiting(p, r)) /\ Cardinality(Waiting(p, r)) \in Nat
      BY Counts DEF Once
    <2>3. /\ IsFiniteSet(Storing(p, r) \cup {w})
          /\ Cardinality(Storing(p, r) \cup {w}) = Cardinality(Storing(p, r)) + 1
      BY <2>1, <2>2, FS_AddElement
    <2>4. /\ IsFiniteSet(Storing(p, r)')
          /\ Cardinality(Storing(p, r)') <= Cardinality(Storing(p, r)) + 1
      BY <2>1, <2>3, FS_Subset
    <2>5. IsFiniteSet(Waiting(p, r)')
      BY <1>1, <2>2, FS_Subset
    <2>6. Cardinality(Storing(p, r)') \in Nat /\ Cardinality(Waiting(p, r)') \in Nat
      BY <2>4, <2>5, FS_CardinalityType
    <2> QED
      BY <1>1, <1>2, <1>3, <1>6, <2>2, <2>4, <2>5, <2>6, Counts DEF Once, Places
  <1> QED
    BY <1>5, <1>6

LEMMA OnceStored ==
    ASSUME TypeOK, NEW p \in Peers, NEW r \in Rqs, Once(p, r), UNCHANGED <<nextRq, faults>>,
           NEW w \in Workers, StoreSearch(w)
    PROVE  Once(p, r)'
  <1>1. Waiting(p, r)' = Waiting(p, r) /\ Answered(p, r)' = Answered(p, r)
    BY DEF StoreSearch, netVars, Waiting, Answered, Copies, IsRequest, IsAnswer
  <1>2. Unused(p, r)' = Unused(p, r)
    BY DEF Unused
  <1>3. Storing(p, r)' \subseteq Storing(p, r) \ {w}
    BY DEF StoreSearch, Storing, JobAt, IsRequest
  <1>4. CASE w \notin Storing(p, r)
    <2>1. Filed(p, r)' => Filed(p, r)
      <3>1. jobs[w].msg.command = "LOOKING_FOR"
        BY DEF StoreSearch, TypeOK, ServerTypeOK, JobsTypeOK
      <3>2. CASE r # jobs[w].msg.rq
        BY <3>2 DEF StoreSearch, Put, Filed, Pending
      <3>3. CASE r = jobs[w].msg.rq /\ jobs[w].from # p
        BY <3>3 DEF StoreSearch, Put, NewSearch, Filed, Pending
      <3> QED
        BY <1>4, <3>1, <3>2, <3>3 DEF StoreSearch, Storing, IsRequest
    <2> QED
      BY <1>1, <1>2, <1>3, <2>1, Counts, OnceKept
  <1>5. CASE w \in Storing(p, r)
    <2>1. IsFiniteSet(Storing(p, r)) /\ Cardinality(Storing(p, r)) \in Nat
      BY Counts DEF Once
    <2>2. /\ IsFiniteSet(Storing(p, r) \ {w})
          /\ Cardinality(Storing(p, r) \ {w}) = Cardinality(Storing(p, r)) - 1
      BY <1>5, <2>1, FS_RemoveElement
    <2>3. /\ IsFiniteSet(Storing(p, r)')
          /\ Cardinality(Storing(p, r)') <= Cardinality(Storing(p, r)) - 1
      BY <1>3, <2>2, FS_Subset
    <2>4. Cardinality(Storing(p, r)') \in Nat
      BY <2>3, FS_CardinalityType
    <2> QED
      BY <1>1, <1>2, <2>1, <2>3, <2>4, Counts DEF Once, Places
  <1> QED
    BY <1>4, <1>5

LEMMA OnceFired ==
    ASSUME TypeOK, NEW p \in Peers, NEW r \in Rqs, Once(p, r), UNCHANGED <<nextRq, faults>>,
           NEW t \in TimerThreads, TimerFires(t)
    PROVE  Once(p, r)'
  <1>k. PICK k : k = timers[t].rq
    OBVIOUS
  <1> DEFINE s == searches[k]
  <1>n. NetTypeOK
    BY DEF TypeOK
  <1>1. Waiting(p, r)' = Waiting(p, r) /\ Storing(p, r)' = Storing(p, r)
    BY DEF TimerFires, Waiting, Storing, Copies, IsRequest
  <1>2. Unused(p, r)' = Unused(p, r)
    BY DEF Unused
  <1>3. CASE ~Pending(k)
    <2>1. searches' = searches /\ toPeers' = toPeers
      BY <1>k, <1>3 DEF TimerFires
    <2>2. Answered(p, r)' = Answered(p, r) /\ Filed(p, r)' = Filed(p, r)
      BY <2>1 DEF Answered, Copies, IsAnswer, Filed, Pending
    <2> QED
      BY <1>1, <1>2, <2>2, Counts, OnceKept
  <1>4. CASE Pending(k)
    <2>1. ResolveSearch(k)
      BY <1>k, <1>4 DEF TimerFires
    <2>2. searches' = WithoutSearch(k) \/ searches' = Processed(k)
      BY <2>1 DEF ResolveSearch
    <2>3. /\ Filed(p, r)' => Filed(p, r)
          /\ ~Filed(p, k)'
      <3>1. ~Pending(k)'
        BY <2>2, <1>4 DEF WithoutSearch, Processed, Restrict, Pending, TypeOK, ServerTypeOK,
           SearchesTypeOK, SearchRequest
      <3>2. r # k /\ Filed(p, r)' => Filed(p, r)
        BY <2>2 DEF WithoutSearch, Processed, Restrict, Pending, Filed
      <3> QED
        BY <3>1, <3>2 DEF Filed
    <2>4. \E q, m : /\ Reply(q, m)
                    /\ IsAnswer([to |-> q, msg |-> m], p, r) => r = k /\ Filed(p, r)
      <3>1. CASE Reply(s.searcher, NotAvailableMsg(k, s.item, s.maxPrice))
        BY <1>4, <3>1 DEF IsAnswer, NotAvailableMsg, Filed
      <3>2. ASSUME NEW i \in DOMAIN s.offers, AnswerBest(k, s, s.offers[i])
            PROVE  \E q, m : /\ Reply(q, m)
                             /\ IsAnswer([to |-> q, msg |-> m], p, r) => r = k /\ Filed(p, r)
        <4>1. CASE Reply(s.searcher, FoundMsg(k, s.item, s.offers[i].price))
          BY <1>4, <4>1 DEF IsAnswer, FoundMsg, Filed
        <4>2. CASE Reply(s.offers[i].seller, NegotiateMsg(k, s.item, s.maxPrice))
          BY <4>2 DEF IsAnswer, NegotiateMsg
        <4> QED
          BY <3>2, <4>1, <4>2 DEF AnswerBest
      <3> QED
        BY <2>1, <3>1, <3>2 DEF ResolveSearch
    <2>5. PICK q, m : /\ Reply(q, m)
                      /\ IsAnswer([to |-> q, msg |-> m], p, r) => r = k /\ Filed(p, r)
      BY <2>4
    <2> DEFINE d == [to |-> q, msg |-> m]
    <2>6. /\ IsFiniteSet(Answered(p, r)')
          /\ Cardinality(Answered(p, r)') <= Cardinality(Answered(p, r)) + 1
          /\ ~IsAnswer(d, p, r) => Answered(p, r)' \subseteq Answered(p, r)
      BY <1>n, <2>5, AnsweredMore DEF Reply, Once
    <2>7. CASE ~IsAnswer(d, p, r)
      BY <1>1, <1>2, <2>3, <2>6, <2>7, Counts, OnceKept
    <2>8. CASE IsAnswer(d, p, r)
      <3>1. Filed(p, r) /\ ~Filed(p, r)'
        BY <2>3, <2>5, <2>8
      <3>2. Cardinality(Answered(p, r)') \in Nat
        BY <2>6, FS_CardinalityType
      <3> QED
        BY <1>1, <1>2, <2>6, <3>1, <3>2, Counts DEF Once, Places
    <2> QED
      BY <2>7, <2>8
  <1> QED
    BY <1>3, <1>4

LEMMA OnceElsewhere ==
    ASSUME TypeOK, NEW p \in Peers, NEW r \in Rqs, Once(p, r), UNCHANGED <<nextRq, faults>>,
           \/ \E w \in Workers : BroadcastSearch(w) \/ PushEvent(w)
           \/ ProcessEvent \/ Tick
    PROVE  Once(p, r)'
  <1>1. Waiting(p, r)' = Waiting(p, r) /\ Unused(p, r)' = Unused(p, r)
    <2>1. toServer' = toServer
      BY DEF BroadcastSearch, PushEvent, ProcessEvent, Tick, netVars
    <2> QED
      BY <2>1 DEF Waiting, Copies, IsRequest, Unused
  <1>2. Answered(p, r)' \subseteq Answered(p, r)
    <2>1. CASE toPeers' = toPeers
      BY <2>1 DEF Answered, Copies, IsAnswer
    <2> QED
      BY <2>1, AnsweredAfterBroadcast DEF PushEvent, ProcessEvent, Tick, netVars, TypeOK
  <1>3. Filed(p, r)' => Filed(p, r)
    <2>1. CASE searches' = searches
      BY <2>1 DEF Filed, Pending
    <2>2. CASE Tick
      BY <2>2 DEF Tick, Filed, Pending, TypeOK, ServerTypeOK, SearchesTypeOK, SearchRequest
    <2> QED
      BY <2>1, <2>2 DEF BroadcastSearch, PushEvent, ProcessEvent
  <1>4. Storing(p, r)' \subseteq Storing(p, r)
    <2>n. \A v \in DOMAIN jobs : jobs[v] \in Job
      BY DEF TypeOK, ServerTypeOK, JobsTypeOK
    <2>1. CASE jobs' = jobs
      BY <2>1 DEF Storing, IsRequest
    <2>2. CASE \E w \in Workers : BroadcastSearch(w)
      BY <2>2, <2>n DEF BroadcastSearch, Storing, IsRequest, Job
    <2>3. CASE \E w \in Workers : PushEvent(w)
      BY <2>3 DEF PushEvent, Restrict, Storing, IsRequest
    <2>4. CASE Tick
      <3>1. \A v \in DOMAIN jobs' : /\ v \in DOMAIN jobs
                                    /\ jobs'[v].at = jobs[v].at
                                    /\ jobs'[v].from = jobs[v].from
                                    /\ jobs'[v].msg = jobs[v].msg
        BY <2>4, <2>n DEF Tick, Job
      <3> QED
        BY <3>1 DEF Storing, IsRequest
    <2> QED
      BY <2>1, <2>2, <2>3, <2>4 DEF ProcessEvent
  <1> QED
    BY <1>1, <1>2, <1>3, <1>4, Counts, OnceKept

\* What the peers, the network and the faults do.
LEMMA OncePeers ==
    ASSUME TypeOK, NEW p \in Peers, NEW r \in Rqs, Once(p, r), PeersNext, faults' = faults
    PROVE  Once(p, r)'
  <1>n. NetTypeOK /\ nextRq \in [Peers -> 1 .. MaxRq + 1] /\ MaxRq \in Nat /\ r \in Int
    BY MaxRqAssumption DEF TypeOK, Rqs
  <1>1. UNCHANGED serverVars
    BY DEF PeersNext, PeerRegisters, PeerDeregisters, PeerFails, PeerSearches, PeerTrades,
       PeerOffers, Does
  <1>2. Storing(p, r)' = Storing(p, r) /\ Filed(p, r)' = Filed(p, r)
    BY <1>1 DEF serverVars, Storing, IsRequest, Filed, Pending
  <1>3. \/ nextRq' = nextRq
        \/ \E q \in Peers : nextRq' = [nextRq EXCEPT ![q] = @ + 1]
    BY DEF PeersNext, PeerRegisters, PeerDeregisters, PeerFails, PeerSearches, PeerTrades,
       PeerOffers, Does
  <1>4. Unused(p, r)' <= Unused(p, r) /\ Unused(p, r)' \in 0 .. 1
    BY <1>n, <1>3 DEF Unused
  <1>5. Answered(p, r)' \subseteq Answered(p, r)
    <2>1. CASE toPeers' = toPeers
      BY <2>1 DEF Answered, Copies, IsAnswer
    <2>2. CASE \E d \in DOMAIN toPeers : Deliver(d)
      BY <1>n, <2>2, AnsweredLess DEF Once
    <2> QED
      BY <2>1, <2>2 DEF PeersNext, PeerRegisters, PeerDeregisters, PeerFails, PeerSearches,
         PeerTrades, PeerOffers, Does
  <1>6. ASSUME NEW q \in Peers, NEW m, Send(q, m), m.command # "LOOKING_FOR"
        PROVE  Waiting(p, r)' \subseteq Waiting(p, r)
    <2>1. ~IsRequest([from |-> q, msg |-> m], p, r)
      BY <1>6 DEF IsRequest
    <2> QED
      BY <1>n, <1>6, <2>1, WaitingMore DEF Send, Once
  <1>7. CASE \E q \in Peers : \E m : Send(q, m) /\ m.command # "LOOKING_FOR"
    BY <1>2, <1>4, <1>5, <1>6, <1>7, OnceKept
  <1>8. CASE toServer' = toServer
    <2>1. Waiting(p, r)' = Waiting(p, r)
      BY <1>8 DEF Waiting, Copies, IsRequest
    <2> QED
      BY <1>2, <1>4, <1>5, <2>1, OnceKept
  <1>9. ASSUME NEW q \in Peers, PeerSearches(q)
        PROVE  Once(p, r)'
    <2>1. PICK i \in Items, max \in Prices : Send(q, LookingForMsg(q, nextRq[q], i, max))
      BY <1>9 DEF PeerSearches
    <2> DEFINE d == [from |-> q, msg |-> LookingForMsg(q, nextRq[q], i, max)]
    <2>2. /\ IsFiniteSet(Waiting(p, r)')
          /\ Cardinality(Waiting(p, r)') <= Cardinality(Waiting(p, r)) + 1
          /\ ~IsRequest(d, p, r) => Waiting(p, r)' \subseteq Waiting(p, r)
      BY <1>n, <2>1, WaitingMore DEF Send, Once
    <2>3. CASE ~IsRequest(d, p, r)
      BY <1>2, <1>4, <1>5, <2>2, <2>3, OnceKept
    <2>4. CASE IsRequest(d, p, r)
      <3>1. q = p /\ r = nextRq[p]
        BY <2>4 DEF IsRequest, LookingForMsg
      <3>2. nextRq'[p] = nextRq[p] + 1
        BY <1>9, <1>n, <3>1 DEF PeerSearches, Does
      <3>3. Unused(p, r) = 1 /\ Unused(p, r)' = 0
        BY <1>n, <3>1, <3>2 DEF Unused
      <3>4. /\ IsFiniteSet(Answered(p, r)')
            /\ Cardinality(Answered(p, r)') <= Cardinality(Answered(p, r))
        BY <1>5, FS_Subset DEF Once
      <3>5. Cardinality(Waiting(p, r)') \in Nat /\ Cardinality(Answered(p, r)') \in Nat
        BY <2>2, <3>4, FS_CardinalityType
      <3> QED
        BY <1>2, <2>2, <3>3, <3>4, <3>5, Counts DEF Once, Places
    <2> QED
      BY <2>3, <2>4
  <1>10. ASSUME NEW q \in Peers,
                \/ PeerRegisters(q) \/ PeerDeregisters(q)
                \/ \E d \in DOMAIN toPeers : PeerOffers(q, d) \/ PeerTrades(q, d)
         PROVE  \E m : Send(q, m) /\ m.command # "LOOKING_FOR"
    <2>1. PeerRegisters(q) => \E m : Send(q, m) /\ m.command # "LOOKING_FOR"
      BY DEF PeerRegisters, RegisterMsg
    <2>2. PeerDeregisters(q) => \E m : Send(q, m) /\ m.command # "LOOKING_FOR"
      BY DEF PeerDeregisters, DeregisterMsg
    <2>3. \A d \in DOMAIN toPeers : PeerTrades(q, d) => \E m : Send(q, m) /\ m.command # "LOOKING_FOR"
      BY DEF PeerTrades, TradeMsg, TradeCommands
    <2>4. \A d \in DOMAIN toPeers : PeerOffers(q, d) => \E m : Send(q, m) /\ m.command # "LOOKING_FOR"
      BY DEF PeerOffers, OfferMsg
    <2> QED
      BY <1>10, <2>1, <2>2, <2>3, <2>4
  <1> QED
    BY <1>7, <1>8, <1>9, <1>10 DEF PeersNext, PeerFails

LEMMA OnceLost ==
    ASSUME TypeOK, NEW p \in Peers, NEW r \in Rqs, Once(p, r), NetworkNext,
           UNCHANGED <<serverVars, nextRq, faults>>
    PROVE  Once(p, r)'
  <1>n. NetTypeOK
    BY DEF TypeOK
  <1>1. /\ Storing(p, r)' = Storing(p, r) /\ Filed(p, r)' = Filed(p, r)
        /\ Unused(p, r)' = Unused(p, r)
    BY DEF serverVars, Storing, IsRequest, Filed, Pending, Unused
  <1>2. CASE toPeers' = toPeers /\ \E d \in DOMAIN toServer : Receive(d)
    <2>1. Waiting(p, r)' \subseteq Waiting(p, r) /\ Answered(p, r)' = Answered(p, r)
      BY <1>n, <1>2, WaitingLess DEF Once, Answered, Copies, IsAnswer
    <2> QED
      BY <1>1, <2>1, Counts, OnceKept
  <1>3. CASE toServer' = toServer /\ \E d \in DOMAIN toPeers : Deliver(d)
    <2>1. Answered(p, r)' \subseteq Answered(p, r) /\ Waiting(p, r)' = Waiting(p, r)
      BY <1>n, <1>3, AnsweredLess DEF Once, Waiting, Copies, IsRequest
    <2> QED
      BY <1>1, <2>1, Counts, OnceKept
  <1> QED
    BY <1>2, <1>3 DEF NetworkNext, LoseToServer, LoseToPeer

LEMMA OnceFaulty ==
    ASSUME TypeOK, NEW p \in Peers, NEW r \in Rqs, Once(p, r), FaultsNext
    PROVE  Once(p, r)'
  <1>n. NetTypeOK
    BY DEF TypeOK
  <1>1. /\ Storing(p, r)' = Storing(p, r) /\ Filed(p, r)' = Filed(p, r)
        /\ faults' = faults + 1 /\ Unused(p, r)' \in 0 .. 1
    BY DEF FaultsNext, serverVars, Storing, IsRequest, Filed, Pending, Unused
  <1>2. CASE UNCHANGED netVars
    <2>1. Waiting(p, r)' = Waiting(p, r) /\ Answered(p, r)' = Answered(p, r)
      BY <1>2 DEF netVars, Waiting, Answered, Copies, IsRequest, IsAnswer
    <2> QED
      BY <1>1, <2>1, Counts DEF Once, Places
  <1>3. CASE nextRq' = nextRq /\ \E d \in DOMAIN toServer : DuplicateToServer(d)
    <2>1. Answered(p, r)' = Answered(p, r) /\ Unused(p, r)' = Unused(p, r)
      BY <1>3 DEF DuplicateToServer, Answered, Copies, IsAnswer, Unused
    <2>2. /\ IsFiniteSet(Waiting(p, r)')
          /\ Cardinality(Waiting(p, r)') <= Cardinality(Waiting(p, r)) + 1
      BY <1>n, <1>3, WaitingMore DEF DuplicateToServer, Once
    <2>3. Cardinality(Waiting(p, r)') \in Nat
      BY <2>2, FS_CardinalityType
    <2> QED
      BY <1>1, <2>1, <2>2, <2>3, Counts DEF Once, Places
  <1>4. CASE nextRq' = nextRq /\ \E d \in DOMAIN toPeers : DuplicateToPeer(d)
    <2>1. Waiting(p, r)' = Waiting(p, r) /\ Unused(p, r)' = Unused(p, r)
      BY <1>4 DEF DuplicateToPeer, Waiting, Copies, IsRequest, Unused
    <2>2. /\ IsFiniteSet(Answered(p, r)')
          /\ Cardinality(Answered(p, r)') <= Cardinality(Answered(p, r)) + 1
      BY <1>n, <1>4, AnsweredMore DEF DuplicateToPeer, Once
    <2>3. Cardinality(Answered(p, r)') \in Nat
      BY <2>2, FS_CardinalityType
    <2> QED
      BY <1>1, <2>1, <2>2, <2>3, Counts DEF Once, Places
  <1> QED
    BY <1>2, <1>3, <1>4 DEF FaultsNext, PeerRestarts, NetworkDuplicates

LEMMA OnceStep ==
    ASSUME TypeOK, OnceInv, [Next]_vars
    PROVE  OnceInv'
  <1> SUFFICES ASSUME NEW p \in Peers, NEW r \in Rqs PROVE Once(p, r)'
    BY DEF OnceInv, Rqs
  <1>0. Once(p, r)
    BY DEF OnceInv
  <1>1. CASE ServerNext /\ UNCHANGED <<nextRq, sent, faults>>
    BY <1>0, <1>1, OnceHandled, OnceStarted, OnceStored, OnceFired, OnceElsewhere
       DEF ServerNext, Handle, WorkerSteps
  <1>2. CASE PeersNext /\ UNCHANGED faults
    BY <1>0, <1>2, OncePeers
  <1>3. CASE NetworkNext /\ UNCHANGED <<serverVars, nextRq, sent, faults>>
    BY <1>0, <1>3, OnceLost
  <1>4. CASE FaultsNext
    BY <1>0, <1>4, OnceFaulty
  <1>5. CASE UNCHANGED vars
    BY <1>0, <1>5 DEF vars, netVars, serverVars, Once, Places, Waiting, Storing, Filed, Pending,
       Answered, Copies, IsRequest, IsAnswer, Unused
  <1> QED
    BY <1>1, <1>2, <1>3, <1>4, <1>5 DEF Next

LEMMA OnceAlways == Spec => []OnceInv
  <1>1. Init => OnceInv
    <2> SUFFICES ASSUME Init, NEW p \in Peers, NEW r \in Rqs PROVE Once(p, r)
      BY DEF OnceInv
    <2>1. DOMAIN toServer = {} /\ DOMAIN toPeers = {} /\ DOMAIN jobs = {} /\ DOMAIN searches = {}
      BY DEF Init, NetInit, ServerInit, EmptyBag, SetToBag
    <2>2. Waiting(p, r) = {} /\ Storing(p, r) = {} /\ Answered(p, r) = {} /\ ~Filed(p, r)
      BY <2>1 DEF Waiting, Storing, Answered, Filed, Pending, Copies
    <2>3. Unused(p, r) \in 0 .. 1 /\ faults = 0
      BY DEF Init, Unused
    <2> QED
      BY <2>2, <2>3, FS_EmptySet DEF Once, Places
  <1>2. TypeOK /\ OnceInv /\ [Next]_vars => OnceInv'
    BY OnceStep
  <1> QED
    BY <1>1, <1>2, TypeCorrect, PTL DEF Spec

(***************************************************************************)
(* A request is in at most one place: on its way, with a worker, pending   *)
(* in the table, or answered, plus one for each duplicate and each client  *)
(* that was started again.  So a LOOKING_FOR is never answered twice,      *)
(* whichever threads meet over the table and whoever else uses its number. *)
(***************************************************************************)
THEOREM AnsweredAtMostOnce == Spec => []AtMostOneAnswer
  <1>1. TypeOK /\ OnceInv => AtMostOneAnswer
    <2> SUFFICES ASSUME TypeOK, OnceInv, NEW p \in Peers, NEW r \in Rqs
                 PROVE  Places(p, r) <= 1 + faults
      BY DEF AtMostOneAnswer
    <2>1. Once(p, r)
      BY DEF OnceInv
    <2> QED
      BY <2>1, Counts DEF Once, Places
  <1> QED
    BY <1>1, TypeCorrect, OnceAlways, PTL
===============================================================================

----------------------------- MODULE BrokerProofs -----------------------------
(***************************************************************************)
(* The server implements Broker, when only one peer searches and there are *)
(* no faults: any number of sellers, items, prices, workers and threads,   *)
(* any interleaving of them, and datagrams lost and reordered.             *)
(*                                                                         *)
(* BrokerInv puts the invariants of AnswerProofs together: a request is in *)
(* at most one place (OnceInv), a number stands for one request            *)
(* (OnePerNumber), and whatever is on its way, with a worker or in the     *)
(* table was sent (SentInv).  Then every step moves one request on the way *)
(* Broker moves it, or none.                                               *)
(***************************************************************************)
EXTENDS AnswerProofs

BrokerInv == TypeOK /\ SentInv /\ OnePerNumber /\ OnceInv /\ faults = 0
NoFaults == MaxFaults = 0

-------------------------------------------------------------------------------
(* What BrokerInv says of one request. *)

LEMMA OneOrNone ==
    ASSUME NEW S, IsFiniteSet(S), Cardinality(S) <= 1
    PROVE  \A x, y \in S : x = y
  <1>1. Cardinality(S) = 0 \/ Cardinality(S) = 1
    BY FS_CardinalityType
  <1> QED
    BY <1>1, FS_EmptySet, FS_Singleton

LEMMA InOnePlace ==
    ASSUME BrokerInv, NEW p \in Peers, NEW r \in Rqs
    PROVE  /\ \A x, y \in Waiting(p, r) : x = y
           /\ \A x, y \in Storing(p, r) : x = y
           /\ \A x, y \in Answered(p, r) : x = y
           /\ Waiting(p, r) # {} => Storing(p, r) = {} /\ ~Filed(p, r) /\ Answered(p, r) = {}
           /\ Storing(p, r) # {} => ~Filed(p, r) /\ Answered(p, r) = {}
           /\ Filed(p, r) => Answered(p, r) = {}
           /\ r = nextRq[p] => /\ Waiting(p, r) = {} /\ Storing(p, r) = {}
                               /\ Answered(p, r) = {} /\ ~Filed(p, r)
  <1>1. Once(p, r) /\ faults = 0 /\ TypeOK
    BY DEF BrokerInv, OnceInv
  <1>2. r = nextRq[p] => Unused(p, r) = 1
    BY <1>1 DEF Unused, TypeOK
  <1> DEFINE w == Cardinality(Waiting(p, r))
             s == Cardinality(Storing(p, r))
             a == Cardinality(Answered(p, r))
  <1>3. /\ w \in Nat /\ s \in Nat /\ a \in Nat /\ Unused(p, r) \in 0 .. 1
        /\ w + s + (IF Filed(p, r) THEN 1 ELSE 0) + a + Unused(p, r) <= 1
    BY <1>1, Counts DEF Once, Places
  <1>4. IsFiniteSet(Waiting(p, r)) /\ IsFiniteSet(Storing(p, r)) /\ IsFiniteSet(Answered(p, r))
    BY <1>1 DEF Once
  <1>5. /\ w = 0 <=> Waiting(p, r) = {}
        /\ s = 0 <=> Storing(p, r) = {}
        /\ a = 0 <=> Answered(p, r) = {}
    BY <1>4, FS_EmptySet
  <1>6. w <= 1 /\ s <= 1 /\ a <= 1
    BY <1>3
  <1>7. /\ \A x, y \in Waiting(p, r) : x = y
        /\ \A x, y \in Storing(p, r) : x = y
        /\ \A x, y \in Answered(p, r) : x = y
    BY <1>4, <1>6, OneOrNone
  <1> HIDE DEF w, s, a
  <1>8. /\ w # 0 => s = 0 /\ ~Filed(p, r) /\ a = 0
        /\ s # 0 => ~Filed(p, r) /\ a = 0
        /\ Filed(p, r) => a = 0
        /\ Unused(p, r) = 1 => w = 0 /\ s = 0 /\ a = 0 /\ ~Filed(p, r)
    BY <1>3
  <1> QED
    BY <1>2, <1>5, <1>7, <1>8

\* A request is asked while a datagram or a worker holds it.
LEMMA AskedIff ==
    ASSUME NetTypeOK, NEW q
    PROVE  Asked(q) <=> \/ \E d \in DOMAIN toServer : IsRequest(d, q[1], q[2])
                        \/ \E w \in DOMAIN jobs : /\ jobs[w].at = "store"
                                                  /\ IsRequest(jobs[w], q[1], q[2])
  <1>1. ASSUME NEW d \in DOMAIN toServer, IsRequest(d, q[1], q[2])
        PROVE  <<d, 1>> \in Waiting(q[1], q[2])
    <2>1. 1 \in 1 .. toServer[d]
      BY DEF NetTypeOK, IsABag
    <2> QED
      BY <1>1, <2>1 DEF Waiting, Copies
  <1>2. ASSUME NEW c \in Waiting(q[1], q[2])
        PROVE  \E d \in DOMAIN toServer : IsRequest(d, q[1], q[2])
    BY <1>2 DEF Waiting, Copies
  <1>3. Storing(q[1], q[2]) # {} <=> \E w \in DOMAIN jobs : /\ jobs[w].at = "store"
                                                            /\ IsRequest(jobs[w], q[1], q[2])
    BY DEF Storing
  <1> QED
    BY <1>1, <1>2, <1>3 DEF Asked

\* There is at most one request of a number, and it is where it was sent from.
LEMMA MadeOnce ==
    ASSUME BrokerInv, NEW q \in AllRequests
    PROVE  /\ \A c, d \in Made(q) : c = d
           /\ Asked(q) \/ Filed(q[1], q[2]) => Made(q) # {}
           /\ \A d \in Made(q) : LimitOf(q) = d.msg.max_price
           /\ Filed(q[1], q[2]) => LimitOf(q) = searches[q[2]].maxPrice
           /\ \A p \in Peers : Made(q) # {} /\ Made(<<p, q[2]>>) # {} => p = q[1]
  <1>1. \A c, d \in sent : c.msg.command = "LOOKING_FOR" /\ d.msg.command = "LOOKING_FOR"
                             /\ c.msg.rq = d.msg.rq => c = d
    BY DEF BrokerInv, OnePerNumber, Searches
  <1>2. \A c, d \in Made(q) : c = d
    BY <1>1 DEF Made, IsRequest
  <1>3. \A d \in Made(q) : LimitOf(q) = d.msg.max_price
    <2> SUFFICES ASSUME NEW d \in Made(q) PROVE LimitOf(q) = d.msg.max_price
      OBVIOUS
    <2>1. (CHOOSE c \in Made(q) : TRUE) = d
      BY <1>2
    <2> QED
      BY <2>1 DEF LimitOf
  <1>4. Asked(q) => Made(q) # {}
    <2>1. ASSUME NEW d \in DOMAIN toServer, IsRequest(d, q[1], q[2])
          PROVE  d \in Made(q)
      BY <2>1 DEF BrokerInv, SentInv, SentInFlight, Recorded, IsRequest, Made
    <2>2. ASSUME NEW w \in DOMAIN jobs, jobs[w].at = "store", IsRequest(jobs[w], q[1], q[2])
          PROVE  [from |-> jobs[w].from, msg |-> jobs[w].msg] \in Made(q)
      BY <2>2 DEF BrokerInv, SentInv, SentAtWork, Recorded, IsRequest, Made
    <2> QED
      BY <2>1, <2>2, AskedIff DEF BrokerInv, TypeOK
  <1>5. Filed(q[1], q[2]) => \E d \in Made(q) : d.msg.max_price = searches[q[2]].maxPrice
    BY DEF BrokerInv, SentInv, SentSearches, Filed, Pending, MadeFor, Made, IsRequest
  <1>6. \A p \in Peers : Made(q) # {} /\ Made(<<p, q[2]>>) # {} => p = q[1]
    BY <1>1 DEF Made, IsRequest
  <1> QED
    BY <1>2, <1>3, <1>4, <1>5, <1>6

LEMMA ProgressIs ==
    ASSUME BrokerInv, NEW q \in AllRequests
    PROVE  ProgressOf(q) = IF Made(q) = {} THEN "idle"
                           ELSE IF Asked(q) THEN "asked"
                           ELSE IF Filed(q[1], q[2]) THEN "collecting" ELSE "closed"
  <1>1. Asked(q) => Made(q) # {} /\ ~Filed(q[1], q[2])
    BY MadeOnce, InOnePlace DEF Asked, AllRequests
  <1>2. Filed(q[1], q[2]) => Made(q) # {}
    BY MadeOnce
  <1> QED
    BY <1>1, <1>2 DEF ProgressOf

-------------------------------------------------------------------------------
(* A request that a step leaves where it is, in the terms of Broker. *)

OnItsWay(q) ==
    \/ \E d \in DOMAIN toServer : IsRequest(d, q[1], q[2])
    \/ \E w \in DOMAIN jobs : jobs[w].at = "store" /\ IsRequest(jobs[w], q[1], q[2])
Facts ==
    \A q \in AllRequests :
      /\ Asked(q) <=> OnItsWay(q)
      /\ Asked(q) => Made(q) # {} /\ ~Filed(q[1], q[2])
      /\ Filed(q[1], q[2]) => Made(q) # {}
      /\ \A d \in Made(q) : LimitOf(q) = d.msg.max_price
      /\ Made(q) = {} => LimitOf(q) = 0
      /\ ProgressOf(q) = IF Made(q) = {} THEN "idle"
                         ELSE IF Asked(q) THEN "asked"
                         ELSE IF Filed(q[1], q[2]) THEN "collecting" ELSE "closed"
      /\ BidsOn(q) = IF Filed(q[1], q[2])
                     THEN {o.price : o \in Range(searches[q[2]].offers)} ELSE {}
LEMMA FactsHold == BrokerInv => Facts
  <1> SUFFICES ASSUME BrokerInv, NEW q \in AllRequests
               PROVE  /\ Asked(q) <=> OnItsWay(q)
                      /\ Asked(q) => Made(q) # {} /\ ~Filed(q[1], q[2])
                      /\ Filed(q[1], q[2]) => Made(q) # {}
                      /\ \A d \in Made(q) : LimitOf(q) = d.msg.max_price
                      /\ Made(q) = {} => LimitOf(q) = 0
                      /\ ProgressOf(q) = IF Made(q) = {} THEN "idle"
                                         ELSE IF Asked(q) THEN "asked"
                                         ELSE IF Filed(q[1], q[2]) THEN "collecting" ELSE "closed"
                      /\ BidsOn(q) = IF Filed(q[1], q[2])
                                     THEN {o.price : o \in Range(searches[q[2]].offers)} ELSE {}
    BY DEF Facts
  <1>1. Asked(q) <=> OnItsWay(q)
    BY AskedIff DEF OnItsWay, BrokerInv, TypeOK
  <1>2. Asked(q) => Made(q) # {} /\ ~Filed(q[1], q[2])
    BY MadeOnce, InOnePlace DEF Asked, AllRequests
  <1>3. /\ Filed(q[1], q[2]) => Made(q) # {}
        /\ \A d \in Made(q) : LimitOf(q) = d.msg.max_price
    BY MadeOnce
  <1>4. ProgressOf(q) = IF Made(q) = {} THEN "idle"
                        ELSE IF Asked(q) THEN "asked"
                        ELSE IF Filed(q[1], q[2]) THEN "collecting" ELSE "closed"
    BY ProgressIs
  <1>5. ProgressOf(q) = "collecting" <=> Filed(q[1], q[2])
    BY <1>2, <1>3, <1>4
  <1> QED
    BY <1>1, <1>2, <1>3, <1>4, <1>5 DEF LimitOf, BidsOn

LEMMA FactsHoldNext == BrokerInv' => Facts'
  BY FactsHold, PTL

Still(q) ==
    /\ Made(q)' = Made(q)
    /\ OnItsWay(q)' = OnItsWay(q)
    /\ Filed(q[1], q[2])' = Filed(q[1], q[2])
    /\ Filed(q[1], q[2]) => searches'[q[2]].offers = searches[q[2]].offers

LEMMA StillStays ==
    ASSUME BrokerInv, BrokerInv', NEW q \in AllRequests, Still(q)
    PROVE  /\ ProgressOf(q)' = ProgressOf(q)
           /\ LimitOf(q)' = LimitOf(q)
           /\ BidsOn(q)' = BidsOn(q)
  <1>1. Facts /\ Facts'
    BY FactsHold, FactsHoldNext
  <1>2. LimitOf(q)' = LimitOf(q)
    BY DEF Still, LimitOf
  <1>3. Asked(q)' <=> Asked(q)
    BY <1>1 DEF Facts, Still
  <1>4. ProgressOf(q)' = ProgressOf(q)
    BY <1>1, <1>3 DEF Facts, Still
  <1>5. BidsOn(q)' = BidsOn(q)
    BY <1>4 DEF BidsOn, ProgressOf, Still, Facts
  <1> QED
    BY <1>2, <1>4, <1>5

LEMMA AllStill ==
    ASSUME BrokerInv, BrokerInv', \A q \in AllRequests : Still(q),
           AnswersInFlight' = AnswersInFlight
    PROVE  UNCHANGED AsBroker!vars
  <1>1. {AnswerOf(d) : d \in AnswersInFlight}' = {AnswerOf(d) : d \in AnswersInFlight}
    BY DEF AnswerOf
  <1> QED
    BY <1>1, StillStays DEF AsBroker!vars

\* When one request moves and the others are left where they are.
LEMMA OneMoves ==
    ASSUME BrokerInv, BrokerInv', NEW k \in AllRequests,
           \A q \in AllRequests : q # k => Still(q)
    PROVE  /\ [q \in AllRequests |-> ProgressOf(q)]'
                = [[q \in AllRequests |-> ProgressOf(q)] EXCEPT ![k] = ProgressOf(k)']
           /\ [q \in AllRequests |-> LimitOf(q)]'
                = [[q \in AllRequests |-> LimitOf(q)] EXCEPT ![k] = LimitOf(k)']
           /\ [q \in AllRequests |-> BidsOn(q)]'
                = [[q \in AllRequests |-> BidsOn(q)] EXCEPT ![k] = BidsOn(k)']
  <1>1. \A q \in AllRequests : q # k => /\ ProgressOf(q)' = ProgressOf(q)
                                        /\ LimitOf(q)' = LimitOf(q)
                                        /\ BidsOn(q)' = BidsOn(q)
    BY StillStays
  <1> QED
    BY <1>1

\* What a datagram leaves behind when it is taken off the network.
LEMMA BagTake ==
    ASSUME NEW B, IsABag(B), NEW d \in DOMAIN B, NEW D, D = {d}
    PROVE  /\ DOMAIN B \ {d} \subseteq DOMAIN (B (-) SetToBag(D))
           /\ DOMAIN (B (-) SetToBag(D)) \subseteq DOMAIN B
           /\ B[d] = 1 => d \notin DOMAIN (B (-) SetToBag(D))
  BY DEF IsABag, (-), SetToBag, BagIn

LEMMA Received ==
    ASSUME NetTypeOK, NEW d \in DOMAIN toServer, Receive(d)
    PROVE  /\ DOMAIN toServer \ {d} \subseteq DOMAIN toServer'
           /\ DOMAIN toServer' \subseteq DOMAIN toServer
           /\ toServer[d] = 1 => d \notin DOMAIN toServer'
  <1> DEFINE D == {d}
  <1>1. D = {d} /\ toServer' = toServer (-) SetToBag(D) /\ IsABag(toServer)
    BY DEF Receive, NetTypeOK
  <1> HIDE DEF D
  <1> QED
    BY <1>1, BagTake

LEMMA Delivered ==
    ASSUME NetTypeOK, NEW d \in DOMAIN toPeers, Deliver(d)
    PROVE  /\ DOMAIN toPeers \ {d} \subseteq DOMAIN toPeers'
           /\ DOMAIN toPeers' \subseteq DOMAIN toPeers
           /\ toPeers[d] = 1 => d \notin DOMAIN toPeers'
  <1> DEFINE D == {d}
  <1>1. D = {d} /\ toPeers' = toPeers (-) SetToBag(D) /\ IsABag(toPeers)
    BY DEF Deliver, NetTypeOK
  <1> HIDE DEF D
  <1> QED
    BY <1>1, BagTake

\* A request on its way is the only one of its number, and so is an answer.
LEMMA OnlyRequest ==
    ASSUME BrokerInv, NEW d \in DOMAIN toServer, d.msg.command = "LOOKING_FOR"
    PROVE  /\ <<d.from, d.msg.rq>> \in AllRequests
           /\ toServer[d] = 1
           /\ \A e \in DOMAIN toServer : IsRequest(e, d.from, d.msg.rq) => e = d
           /\ Storing(d.from, d.msg.rq) = {}
  <1> DEFINE p == d.from
             r == d.msg.rq
  <1>1. p \in Peers /\ r \in Rqs
    BY ClientMessageFields DEF BrokerInv, TypeOK, NetTypeOK, Datagram
  <1>2. IsRequest(d, p, r)
    BY DEF IsRequest
  <1>3. \A e \in DOMAIN toServer : toServer[e] \in Nat /\ toServer[e] > 0
    BY DEF BrokerInv, TypeOK, NetTypeOK, IsABag
  <1> HIDE DEF p, r
  <1>4. ASSUME NEW e \in DOMAIN toServer, IsRequest(e, p, r), NEW n \in 1 .. toServer[e]
        PROVE  <<e, n>> \in Waiting(p, r)
    BY <1>4 DEF Waiting, Copies
  <1>5. ASSUME NEW e \in DOMAIN toServer, IsRequest(e, p, r), NEW n \in 1 .. toServer[e],
               NEW f \in DOMAIN toServer, IsRequest(f, p, r), NEW m \in 1 .. toServer[f]
        PROVE  e = f /\ n = m
    <2>1. <<e, n>> = <<f, m>>
      BY <1>1, <1>4, <1>5, InOnePlace
    <2> QED
      BY <2>1
  <1>6. toServer[d] = 1
    <2>1. toServer[d] \in 1 .. toServer[d] /\ 1 \in 1 .. toServer[d]
      BY <1>3
    <2> QED
      BY <1>2, <1>5, <2>1
  <1>7. \A e \in DOMAIN toServer : IsRequest(e, p, r) => e = d
    <2>1. \A e \in DOMAIN toServer : 1 \in 1 .. toServer[e]
      BY <1>3
    <2> QED
      BY <1>2, <1>5, <2>1
  <1>8. Storing(p, r) = {}
    <2>1. 1 \in 1 .. toServer[d]
      BY <1>3
    <2>2. Waiting(p, r) # {}
      BY <1>2, <1>4, <2>1
    <2> QED
      BY <1>1, <2>2, InOnePlace
  <1> QED
    BY <1>1, <1>6, <1>7, <1>8 DEF p, r, AllRequests

LEMMA AnswerFields ==
    ASSUME NEW m \in ServerMessages, m.command \in {"FOUND", "NOT_AVAILABLE"}
    PROVE  m.rq \in Rqs
  BY DEF ServerMessages

LEMMA OnlyAnswer ==
    ASSUME BrokerInv, NEW d \in AnswersInFlight
    PROVE  /\ toPeers[d] = 1
           /\ \A e \in AnswersInFlight : AnswerOf(e).request = AnswerOf(d).request => e = d
  <1> DEFINE p == d.to
             r == d.msg.rq
  <1>1. p \in Peers /\ r \in Rqs /\ IsAnswer(d, p, r) /\ d \in DOMAIN toPeers
    BY AnswerFields DEF BrokerInv, TypeOK, NetTypeOK, AnswersInFlight, IsAnswer
  <1>2. \A e \in DOMAIN toPeers : toPeers[e] \in Nat /\ toPeers[e] > 0
    BY DEF BrokerInv, TypeOK, NetTypeOK, IsABag
  <1>3. \A e \in AnswersInFlight : AnswerOf(e).request = AnswerOf(d).request
                                     => IsAnswer(e, p, r) /\ e \in DOMAIN toPeers
    BY DEF AnswersInFlight, AnswerOf, IsAnswer
  <1> HIDE DEF p, r
  <1>4. ASSUME NEW e \in DOMAIN toPeers, IsAnswer(e, p, r), NEW n \in 1 .. toPeers[e],
               NEW f \in DOMAIN toPeers, IsAnswer(f, p, r), NEW m \in 1 .. toPeers[f]
        PROVE  e = f /\ n = m
    <2>1. <<e, n>> \in Answered(p, r) /\ <<f, m>> \in Answered(p, r)
      BY <1>4 DEF Answered, Copies
    <2>2. <<e, n>> = <<f, m>>
      BY <1>1, <2>1, InOnePlace
    <2> QED
      BY <2>2
  <1>5. \A e \in DOMAIN toPeers : toPeers[e] \in 1 .. toPeers[e] /\ 1 \in 1 .. toPeers[e]
    BY <1>2
  <1> QED
    BY <1>1, <1>3, <1>4, <1>5

-------------------------------------------------------------------------------
(* The network: a request is lost, an answer arrives, or nothing happens.   *)

LEMMA RequestLost ==
    ASSUME BrokerInv, BrokerInv', NEW d \in DOMAIN toServer, LoseToServer(d),
           UNCHANGED <<serverVars, nextRq, sent, faults>>
    PROVE  [AsBroker!Next]_AsBroker!vars
  <1>1. /\ DOMAIN toServer \ {d} \subseteq DOMAIN toServer'
        /\ DOMAIN toServer' \subseteq DOMAIN toServer
        /\ toServer[d] = 1 => d \notin DOMAIN toServer'
    BY Received DEF LoseToServer, BrokerInv, TypeOK
  <1>2. AnswersInFlight' = AnswersInFlight
    BY DEF LoseToServer, AnswersInFlight
  <1>3. ASSUME NEW q \in AllRequests, ~IsRequest(d, q[1], q[2])
        PROVE  Still(q)
    <2>1. Made(q)' = Made(q) /\ Filed(q[1], q[2])' = Filed(q[1], q[2])
      BY DEF Made, IsRequest, Filed, Pending, serverVars
    <2>2. OnItsWay(q)' = OnItsWay(q)
      BY <1>1, <1>3 DEF OnItsWay, IsRequest, serverVars
    <2> QED
      BY <2>1, <2>2 DEF Still, serverVars
  <1>4. CASE d.msg.command # "LOOKING_FOR"
    BY <1>2, <1>3, <1>4, AllStill DEF IsRequest
  <1>5. CASE d.msg.command = "LOOKING_FOR"
    <2> DEFINE k == <<d.from, d.msg.rq>>
    <2>0. k \in AllRequests /\ IsRequest(d, k[1], k[2])
      BY <1>5, OnlyRequest DEF IsRequest
    <2>1. \A q \in AllRequests : q # k => Still(q)
      BY <1>3 DEF IsRequest, AllRequests
    <2>2. ~OnItsWay(k)'
      <3>1. \A e \in DOMAIN toServer' : ~IsRequest(e, k[1], k[2])
        BY <1>1, <1>5, OnlyRequest
      <3>2. \A w \in DOMAIN jobs : ~(jobs[w].at = "store" /\ IsRequest(jobs[w], k[1], k[2]))
        BY <1>5, OnlyRequest DEF Storing
      <3> QED
        BY <3>1, <3>2 DEF OnItsWay, IsRequest, serverVars
    <2>3. Made(k)' = Made(k) /\ Filed(k[1], k[2])' = Filed(k[1], k[2])
      BY DEF Made, IsRequest, Filed, Pending, serverVars
    <2>4. OnItsWay(k)
      BY <2>0 DEF OnItsWay
    <2> HIDE DEF k
    <2>5. Facts /\ Facts'
      BY FactsHold, FactsHoldNext
    <2>6. /\ ProgressOf(k) = "asked" /\ ProgressOf(k)' = "closed"
          /\ BidsOn(k) = {} /\ BidsOn(k)' = {}
      BY <2>0, <2>2, <2>3, <2>4, <2>5 DEF Facts
    <2>7. LimitOf(k)' = LimitOf(k)
      BY <2>3 DEF LimitOf
    <2>8. AsBroker!Moves(k, "asked", "closed")
      BY <2>0, <2>1, <2>6, OneMoves DEF AsBroker!Moves
    <2>9. UNCHANGED <<[q \in AllRequests |-> LimitOf(q)], [q \in AllRequests |-> BidsOn(q)],
                      {AnswerOf(c) : c \in AnswersInFlight}>>
      <3>1. {AnswerOf(c) : c \in AnswersInFlight}' = {AnswerOf(c) : c \in AnswersInFlight}
        BY <1>2 DEF AnswerOf
      <3> QED
        BY <2>0, <2>1, <2>6, <2>7, <3>1, StillStays
    <2>10. AsBroker!Lose(k)
      BY <2>8, <2>9 DEF AsBroker!Lose
    <2> QED
      BY <2>0, <2>10 DEF AsBroker!Next
  <1> QED
    BY <1>4, <1>5

\* Whatever leaves the table and the requests as they are.
LEMMA RequestsStill ==
    ASSUME UNCHANGED <<toServer, jobs, searches>>, Searches' = Searches
    PROVE  \A q \in AllRequests : Still(q)
  <1> SUFFICES ASSUME NEW q \in AllRequests PROVE Still(q)
    OBVIOUS
  <1>1. Made(q)' = Made(q)
    BY DEF Made, Searches, IsRequest
  <1> QED
    BY <1>1 DEF Still, OnItsWay, Filed, Pending, IsRequest

LEMMA AnswerArrives ==
    ASSUME BrokerInv, BrokerInv', NEW d \in DOMAIN toPeers, LoseToPeer(d),
           UNCHANGED <<serverVars, nextRq, sent, faults>>
    PROVE  [AsBroker!Next]_AsBroker!vars
  <1>1. /\ DOMAIN toPeers \ {d} \subseteq DOMAIN toPeers'
        /\ DOMAIN toPeers' \subseteq DOMAIN toPeers
        /\ toPeers[d] = 1 => d \notin DOMAIN toPeers'
    BY Delivered DEF LoseToPeer, BrokerInv, TypeOK
  <1>2. \A q \in AllRequests : Still(q)
    BY RequestsStill DEF LoseToPeer, Searches, serverVars
  <1>3. CASE d \notin AnswersInFlight
    <2>1. AnswersInFlight' = AnswersInFlight
      BY <1>1, <1>3 DEF AnswersInFlight
    <2> QED
      BY <1>2, <2>1, AllStill
  <1>4. CASE d \in AnswersInFlight
    <2>1. AnswersInFlight' = AnswersInFlight \ {d}
      BY <1>1, <1>4, OnlyAnswer DEF AnswersInFlight
    <2>2. \A e \in AnswersInFlight : AnswerOf(e) = AnswerOf(d) => e = d
      BY <1>4, OnlyAnswer
    <2>3. {AnswerOf(c) : c \in AnswersInFlight}'
            = {AnswerOf(c) : c \in AnswersInFlight} \ {AnswerOf(d)}
      <3>1. {AnswerOf(c) : c \in AnswersInFlight}' = {AnswerOf(c) : c \in AnswersInFlight'}
        BY DEF AnswerOf
      <3> QED
        BY <1>4, <2>1, <2>2, <3>1
    <2>4. UNCHANGED <<[q \in AllRequests |-> ProgressOf(q)], [q \in AllRequests |-> LimitOf(q)],
                      [q \in AllRequests |-> BidsOn(q)]>>
      BY <1>2, StillStays
    <2>5. AsBroker!Arrive(AnswerOf(d))
      BY <2>3, <2>4 DEF AsBroker!Arrive
    <2>6. AnswerOf(d) \in {AnswerOf(c) : c \in AnswersInFlight}
      BY <1>4
    <2> QED
      BY <2>5, <2>6 DEF AsBroker!Next
  <1> QED
    BY <1>3, <1>4

-------------------------------------------------------------------------------
(* The peers: a request is made, or nothing happens. *)

LEMMA Sent ==
    ASSUME NetTypeOK, NEW p, NEW m, Send(p, m)
    PROVE  DOMAIN toServer' = DOMAIN toServer \cup {[from |-> p, msg |-> m]}
  <1> DEFINE T == {[from |-> p, msg |-> m]}
  <1>1. toServer' = toServer (+) SetToBag(T) /\ IsABag(toServer)
    BY DEF Send, NetTypeOK
  <1> HIDE DEF T
  <1>2. DOMAIN toServer' = DOMAIN toServer \cup T
    BY <1>1, BagAdd
  <1> QED
    BY <1>2 DEF T

LEMMA RequestMade ==
    ASSUME BrokerInv, BrokerInv', NEW p \in Peers, PeerSearches(p)
    PROVE  AsBroker!Next
  <1>0. PICK r : r = nextRq[p]
    OBVIOUS
  <1> DEFINE k == <<p, r>>
  <1>n. /\ NetTypeOK /\ nextRq \in [Peers -> 1 .. MaxRq + 1] /\ MaxRq \in Nat
        /\ RqLimit[p] \in 0 .. MaxRq
    BY MaxRqAssumption, RqLimitAssumption DEF BrokerInv, TypeOK
  <1>1. PICK i \in Items, max \in Prices :
          /\ Send(p, LookingForMsg(p, r, i, max))
          /\ sent' = sent \cup {[from |-> p, msg |-> LookingForMsg(p, r, i, max)]}
    BY <1>0 DEF PeerSearches
  <1> DEFINE m == LookingForMsg(p, r, i, max)
             d == [from |-> p, msg |-> m]
  <1>2. k \in AllRequests /\ r \in Rqs
    <2>1. r <= RqLimit[p]
      BY <1>0 DEF PeerSearches, Does
    <2> QED
      BY <1>0, <1>n, <2>1 DEF AllRequests, Rqs
  <1>3. UNCHANGED <<toPeers, serverVars>>
    BY DEF PeerSearches, Does
  <1>4. DOMAIN toServer' = DOMAIN toServer \cup {d}
    BY <1>n, <1>1, Sent
  <1>5. \A q : IsRequest(d, q[1], q[2]) <=> q[1] = p /\ q[2] = r
    BY DEF IsRequest, LookingForMsg
  <1>6. m.max_price = max
    BY DEF LookingForMsg
  <1>7. r \in Int /\ sent' = sent \cup {d}
    BY <1>0, <1>n, <1>1
  <1>8. Made(k) = {}
    BY <1>0, <1>n, <1>7 DEF Made, IsRequest, BrokerInv, OnePerNumber, Searches
  <1>d. IsRequest(d, p, r)
    BY DEF IsRequest, LookingForMsg
  <1> HIDE DEF m, d
  <1>9. Made(k)' = {d}
    <2>1. Made(k)' = Made(k) \cup {d}
      BY <1>d, <1>7 DEF Made, IsRequest
    <2> QED
      BY <1>8, <2>1
  <1>10. OnItsWay(k)' /\ ~Filed(k[1], k[2]) /\ ~Filed(k[1], k[2])'
    <2>1. OnItsWay(k)'
      BY <1>4, <1>d DEF OnItsWay, IsRequest
    <2>2. ~Filed(k[1], k[2])
      BY <1>0, <1>2, InOnePlace
    <2> QED
      BY <1>3, <2>1, <2>2 DEF Filed, Pending, serverVars
  <1>11. ASSUME NEW q \in AllRequests, q # k PROVE Still(q)
    <2>1. ~IsRequest(d, q[1], q[2])
      BY <1>5, <1>11 DEF AllRequests
    <2>2. Made(q)' = Made(q)
      BY <1>7, <2>1 DEF Made, IsRequest
    <2>3. OnItsWay(q)' = OnItsWay(q)
      BY <1>3, <1>4, <2>1 DEF OnItsWay, IsRequest, serverVars
    <2> QED
      BY <1>3, <2>2, <2>3 DEF Still, Filed, Pending, serverVars
  <1> HIDE DEF k
  <1>12. Facts /\ Facts'
    BY FactsHold, FactsHoldNext
  <1>13. /\ ProgressOf(k) = "idle" /\ BidsOn(k) = {}
    BY <1>2, <1>8, <1>10, <1>12 DEF Facts
  <1>14. /\ ProgressOf(k)' = "asked" /\ BidsOn(k)' = {} /\ LimitOf(k)' = max
    <2>1. d \in Made(k)' /\ d.msg.max_price = max /\ Made(k)' # {}
      BY <1>6, <1>9 DEF d
    <2> QED
      BY <1>2, <1>10, <1>12, <2>1 DEF Facts
  <1>15. AsBroker!Moves(k, "idle", "asked")
    BY <1>2, <1>11, <1>13, <1>14, OneMoves DEF AsBroker!Moves
  <1>16. [q \in AllRequests |-> LimitOf(q)]'
           = [[q \in AllRequests |-> LimitOf(q)] EXCEPT ![k] = max]
    BY <1>2, <1>11, <1>14, OneMoves
  <1>17. [q \in AllRequests |-> BidsOn(q)]' = [q \in AllRequests |-> BidsOn(q)]
    BY <1>2, <1>11, <1>13, <1>14, StillStays
  <1>18. {AnswerOf(c) : c \in AnswersInFlight}' = {AnswerOf(c) : c \in AnswersInFlight}
    BY <1>3 DEF AnswersInFlight, AnswerOf
  <1>19. AsBroker!Ask(k)
    BY <1>15, <1>16, <1>17, <1>18 DEF AsBroker!Ask
  <1> QED
    BY <1>2, <1>19 DEF AsBroker!Next

LEMMA PeersOtherwise ==
    ASSUME BrokerInv, BrokerInv', NEW p \in Peers,
           \/ PeerRegisters(p) \/ PeerDeregisters(p) \/ PeerFails(p)
           \/ \E d \in DOMAIN toPeers : PeerOffers(p, d) \/ PeerTrades(p, d)
    PROVE  UNCHANGED AsBroker!vars
  <1>n. NetTypeOK
    BY DEF BrokerInv, TypeOK
  <1>1. UNCHANGED serverVars
    BY DEF PeerRegisters, PeerDeregisters, PeerFails, PeerTrades, PeerOffers, Does
  <1>2. AnswersInFlight' = AnswersInFlight
    <2>1. CASE toPeers' = toPeers
      BY <2>1 DEF AnswersInFlight
    <2>2. ASSUME NEW d \in DOMAIN toPeers, d.msg.command \in {"SEARCH", "NEGOTIATE"}, Deliver(d)
          PROVE  AnswersInFlight' = AnswersInFlight
      BY <1>n, <2>2, Delivered DEF AnswersInFlight
    <2> QED
      BY <2>1, <2>2 DEF PeerRegisters, PeerDeregisters, PeerFails, PeerTrades, PeerOffers, Does
  <1>s. ASSUME NEW m, m.command # "LOOKING_FOR", Send(p, m),
               sent' = sent \/ sent' = sent \cup {[from |-> p, msg |-> m]}
        PROVE  \A q \in AllRequests : Still(q)
    <2> SUFFICES ASSUME NEW q \in AllRequests PROVE Still(q)
      OBVIOUS
    <2> DEFINE d == [from |-> p, msg |-> m]
    <2>1. DOMAIN toServer' = DOMAIN toServer \cup {d}
      BY <1>n, <1>s, Sent
    <2>2. ~IsRequest(d, q[1], q[2])
      BY <1>s DEF IsRequest
    <2>3. Made(q)' = Made(q)
      BY <1>s, <2>2 DEF Made, IsRequest
    <2>4. OnItsWay(q)' = OnItsWay(q)
      BY <1>1, <2>1, <2>2 DEF OnItsWay, IsRequest, serverVars
    <2> QED
      BY <1>1, <2>3, <2>4 DEF Still, Filed, Pending, serverVars
  <1>3. PeerRegisters(p) => \E m : /\ m.command # "LOOKING_FOR" /\ Send(p, m) /\ sent' = sent
    BY DEF PeerRegisters, RegisterMsg
  <1>4. PeerDeregisters(p) => \E m : /\ m.command # "LOOKING_FOR" /\ Send(p, m) /\ sent' = sent
    BY DEF PeerDeregisters, DeregisterMsg
  <1>5. \A d \in DOMAIN toPeers : PeerTrades(p, d) =>
          \E m : /\ m.command # "LOOKING_FOR" /\ Send(p, m)
                 /\ sent' = sent \cup {[from |-> p, msg |-> m]}
    <2>1. \A cmd \in TradeCommands : \A r, i, price :
            TradeMsg(cmd, p, r, i, price).command # "LOOKING_FOR"
      BY DEF TradeMsg, TradeCommands
    <2> QED
      BY <2>1 DEF PeerTrades
  <1>6. \A d \in DOMAIN toPeers : PeerOffers(p, d) =>
          \E m : /\ m.command # "LOOKING_FOR" /\ Send(p, m)
                 /\ sent' = sent \cup {[from |-> p, msg |-> m]}
    <2>1. \A r, i, price : OfferMsg(p, r, i, price).command # "LOOKING_FOR"
      BY DEF OfferMsg
    <2> QED
      BY <2>1 DEF PeerOffers
  <1>7. PeerFails(p) => \A q \in AllRequests : Still(q)
    BY <1>1, RequestsStill DEF PeerFails, Searches, serverVars
  <1>8. \A q \in AllRequests : Still(q)
    BY <1>s, <1>3, <1>4, <1>5, <1>6, <1>7
  <1> QED
    BY <1>2, <1>8, AllStill

-------------------------------------------------------------------------------
(* The server: a request is filed, bid for and resolved, or nothing happens. *)

\* A handler that takes something else than a request.
LEMMA TakenStill ==
    ASSUME BrokerInv, NEW w, NEW d \in DOMAIN toServer, Receive(d), AfterHandler(w, d),
           d.msg.command # "LOOKING_FOR", w \notin DOMAIN jobs, NEW q
    PROVE  OnItsWay(q)' = OnItsWay(q)
  <1>1. /\ DOMAIN toServer \ {d} \subseteq DOMAIN toServer'
        /\ DOMAIN toServer' \subseteq DOMAIN toServer
    BY Received DEF BrokerInv, TypeOK
  <1>2. jobs' = jobs \/ jobs' = Put(jobs, w, JobAt("push", d))
    BY DEF AfterHandler
  <1>3. \A v : v \in DOMAIN jobs' /\ jobs'[v].at = "store"
                 <=> v \in DOMAIN jobs /\ jobs[v].at = "store"
    BY <1>2 DEF Put, JobAt
  <1>4. \A v : v \in DOMAIN jobs' /\ jobs'[v].at = "store" => jobs'[v] = jobs[v]
    BY <1>2 DEF Put, JobAt
  <1>5. ~IsRequest(d, q[1], q[2])
    BY DEF IsRequest
  <1> QED
    BY <1>1, <1>3, <1>4, <1>5 DEF OnItsWay, IsRequest

LEMMA HandledStill ==
    ASSUME BrokerInv, BrokerInv', UNCHANGED <<nextRq, sent, faults>>,
           NEW w \in Workers, NEW d \in DOMAIN toServer,
           HandleRegister(w, d) \/ HandleDeregister(w, d) \/ HandleUnknown(w, d)
    PROVE  UNCHANGED AsBroker!vars
  <1>1. /\ Receive(d) /\ AfterHandler(w, d) /\ d.msg.command # "LOOKING_FOR"
        /\ w \notin DOMAIN jobs /\ searches' = searches
    BY DEF HandleRegister, HandleDeregister, HandleUnknown, Takes, TradeCommands
  <1>2. \A q \in AllRequests : OnItsWay(q)' = OnItsWay(q)
    BY <1>1, TakenStill
  <1>3. \A q \in AllRequests : Still(q)
    BY <1>1, <1>2 DEF Still, Made, IsRequest, Filed, Pending
  <1>4. AnswersInFlight' = AnswersInFlight
    <2>1. CASE toPeers' = toPeers
      BY <2>1 DEF AnswersInFlight
    <2>2. ASSUME NEW m, m \in {DeniedMsg(d.msg.rq), RegisteredMsg(d.msg.rq)}, Reply(d.from, m)
          PROVE  AnswersInFlight' = AnswersInFlight
      <3>1. DOMAIN toPeers' = DOMAIN toPeers \cup {[to |-> d.from, msg |-> m]}
        BY <2>2, ReplyAdds DEF BrokerInv, TypeOK
      <3>2. m.command \notin {"FOUND", "NOT_AVAILABLE"}
        BY <2>2 DEF DeniedMsg, RegisteredMsg
      <3> QED
        BY <3>1, <3>2 DEF AnswersInFlight
    <2> QED
      BY <2>1, <2>2 DEF HandleRegister, HandleDeregister, HandleUnknown
  <1> QED
    BY <1>3, <1>4, AllStill

LEMMA OfferBids ==
    ASSUME BrokerInv, BrokerInv', UNCHANGED <<nextRq, sent, faults>>,
           NEW w \in Workers, NEW d \in DOMAIN toServer, HandleOffer(w, d)
    PROVE  [AsBroker!Next]_AsBroker!vars
  <1>1. /\ Receive(d) /\ AfterHandler(w, d) /\ d.msg.command = "OFFER"
        /\ w \notin DOMAIN jobs /\ toPeers' = toPeers
    BY DEF HandleOffer, Takes
  <1>2. \A q \in AllRequests : OnItsWay(q)' = OnItsWay(q) /\ Made(q)' = Made(q)
    BY <1>1, TakenStill DEF Made, IsRequest
  <1>3. AnswersInFlight' = AnswersInFlight
    BY <1>1 DEF AnswersInFlight
  <1>4. CASE ~Collecting(d.msg.rq)
    <2>1. \A q \in AllRequests : Still(q)
      BY <1>2, <1>4 DEF HandleOffer, Still, Filed, Pending
    <2> QED
      BY <1>3, <2>1, AllStill
  <1>5. CASE Collecting(d.msg.rq)
    <2>0. PICK r : r = d.msg.rq
      OBVIOUS
    <2>1. PICK p : p = searches[r].searcher
      OBVIOUS
    <2> DEFINE k == <<p, r>>
               o == [seller |-> d.from, price |-> d.msg.price]
    <2>2. d.msg.price \in Prices
      BY <1>1, ClientMessageFields DEF BrokerInv, TypeOK, NetTypeOK, Datagram
    <2>3. r \in DOMAIN searches /\ r \in Rqs /\ searches[r] \in SearchRequest /\ Pending(r)
      BY <1>5, <2>0 DEF Collecting, Pending, BrokerInv, TypeOK, ServerTypeOK, SearchesTypeOK
    <2>4. k \in AllRequests /\ Filed(k[1], k[2]) /\ searches[r].offers \in Seq(Offer)
      BY <2>1, <2>3 DEF AllRequests, SearchRequest, Filed
    <2>5. /\ DOMAIN searches' = DOMAIN searches
          /\ \A x \in DOMAIN searches : x # r => searches'[x] = searches[x]
          /\ searches'[r] = [searches[r] EXCEPT !.offers = Append(searches[r].offers, o)]
      BY <1>5, <2>0, <2>3 DEF HandleOffer, WithOffer
    <2>6. /\ searches'[r].searcher = p /\ searches'[r].processed = searches[r].processed
          /\ searches'[r].offers = Append(searches[r].offers, o)
      BY <2>1, <2>3, <2>5 DEF SearchRequest
    <2>7. Filed(k[1], k[2])'
      BY <2>3, <2>5, <2>6 DEF Filed, Pending
    <2>8. ASSUME NEW q \in AllRequests, q # k PROVE Still(q)
      <3>1. CASE q[2] # r
        BY <1>2, <2>5, <3>1 DEF Still, Filed, Pending
      <3>2. CASE q[2] = r
        <4>1. q[1] # p
          BY <2>8, <3>2 DEF AllRequests
        <4> QED
          BY <1>2, <2>1, <2>6, <3>2, <4>1 DEF Still, Filed
      <3> QED
        BY <3>1, <3>2
    <2>9. {c.price : c \in Range(searches'[r].offers)}
            = {c.price : c \in Range(searches[r].offers)} \cup {d.msg.price}
      <3> DEFINE s == searches[r].offers
      <3>1. o.price = d.msg.price
        OBVIOUS
      <3> HIDE DEF s, o
      <3>2. Range(Append(s, o)) = Range(s) \cup {o}
        <4>1. s \in Seq(Offer)
          BY <2>4 DEF s
        <4>2. /\ Len(s) \in Nat /\ DOMAIN s = 1 .. Len(s)
              /\ DOMAIN Append(s, o) = 1 .. Len(s) + 1
              /\ \A i \in 1 .. Len(s) : Append(s, o)[i] = s[i]
              /\ Append(s, o)[Len(s) + 1] = o
          BY <4>1
        <4>3. DOMAIN Append(s, o) = DOMAIN s \cup {Len(s) + 1}
          BY <4>2
        <4> QED
          BY <4>2, <4>3 DEF Range
      <3> QED
        BY <2>6, <3>1, <3>2 DEF s
    <2> HIDE DEF o
    <2>10. Facts /\ Facts'
      BY FactsHold, FactsHoldNext
    <2>11. k[2] = r
      OBVIOUS
    <2> HIDE DEF k
    <2>12. /\ ProgressOf(k) = "collecting" /\ ProgressOf(k)' = "collecting"
           /\ BidsOn(k) = {c.price : c \in Range(searches[r].offers)}
           /\ BidsOn(k)' = {c.price : c \in Range(searches'[r].offers)}
      BY <2>4, <2>7, <2>10, <2>11 DEF Facts
    <2>13. LimitOf(k)' = LimitOf(k)
      <3>1. Made(k)' = Made(k)
        BY <1>2, <2>4
      <3> QED
        BY <3>1 DEF LimitOf
    <2>14. UNCHANGED <<[q \in AllRequests |-> ProgressOf(q)], [q \in AllRequests |-> LimitOf(q)],
                       {AnswerOf(c) : c \in AnswersInFlight}>>
      <3>1. {AnswerOf(c) : c \in AnswersInFlight}' = {AnswerOf(c) : c \in AnswersInFlight}
        BY <1>3 DEF AnswerOf
      <3> QED
        BY <2>8, <2>12, <2>13, <3>1, StillStays
    <2>15. [q \in AllRequests |-> BidsOn(q)]'
             = [[q \in AllRequests |-> BidsOn(q)] EXCEPT ![k] = BidsOn(k) \cup {d.msg.price}]
      BY <2>4, <2>8, <2>9, <2>12, OneMoves
    <2>16. AsBroker!Bid(k, d.msg.price)
      BY <2>4, <2>12, <2>14, <2>15 DEF AsBroker!Bid
    <2> QED
      BY <2>2, <2>4, <2>16 DEF AsBroker!Next
  <1> QED
    BY <1>4, <1>5

\* A worker that takes a request still has it to store.
LEMMA StartStill ==
    ASSUME BrokerInv, BrokerInv', UNCHANGED <<nextRq, sent, faults>>,
           NEW w \in Workers, NEW d \in DOMAIN toServer, StartSearch(w, d)
    PROVE  UNCHANGED AsBroker!vars
  <1>1. /\ Receive(d) /\ d.msg.command = "LOOKING_FOR" /\ w \notin DOMAIN jobs
        /\ jobs' = Put(jobs, w, JobAt("store", d)) /\ UNCHANGED <<toPeers, searches>>
    BY DEF StartSearch, Takes
  <1>2. /\ DOMAIN toServer \ {d} \subseteq DOMAIN toServer'
        /\ DOMAIN toServer' \subseteq DOMAIN toServer
    BY <1>1, Received DEF BrokerInv, TypeOK
  <1>3. /\ jobs'[w].at = "store" /\ jobs'[w].from = d.from /\ jobs'[w].msg = d.msg
        /\ DOMAIN jobs' = DOMAIN jobs \cup {w}
        /\ \A v \in DOMAIN jobs : jobs'[v] = jobs[v]
    BY <1>1 DEF Put, JobAt
  <1>4. ASSUME NEW q \in AllRequests PROVE OnItsWay(q)' = OnItsWay(q)
    <2>1. IsRequest(d, q[1], q[2]) => OnItsWay(q) /\ OnItsWay(q)'
      BY <1>3 DEF OnItsWay, IsRequest
    <2>2. ~IsRequest(d, q[1], q[2]) => OnItsWay(q)' = OnItsWay(q)
      BY <1>2, <1>3 DEF OnItsWay, IsRequest
    <2>3. OnItsWay(q) \in BOOLEAN /\ OnItsWay(q)' \in BOOLEAN
      BY DEF OnItsWay
    <2> QED
      BY <2>1, <2>2, <2>3
  <1>5. \A q \in AllRequests : Still(q)
    BY <1>1, <1>4 DEF Still, Made, IsRequest, Filed, Pending
  <1>6. AnswersInFlight' = AnswersInFlight
    BY <1>1 DEF AnswersInFlight
  <1> QED
    BY <1>5, <1>6, AllStill

\* Storing a search opens the request it was made by.
LEMMA StoreOpens ==
    ASSUME BrokerInv, BrokerInv', UNCHANGED <<nextRq, sent, faults>>,
           NEW w \in Workers, StoreSearch(w)
    PROVE  AsBroker!Next
  <1>0. PICK p, r : p = jobs[w].from /\ r = jobs[w].msg.rq
    OBVIOUS
  <1> DEFINE k == <<p, r>>
  <1>1. /\ w \in DOMAIN jobs /\ jobs[w].at = "store" /\ jobs[w].msg.command = "LOOKING_FOR"
        /\ jobs[w] \in Job /\ UNCHANGED <<toServer, toPeers>>
    BY DEF StoreSearch, BrokerInv, TypeOK, ServerTypeOK, JobsTypeOK, netVars
  <1>2. k \in AllRequests /\ r \in Rqs /\ p \in Peers /\ IsRequest(jobs[w], p, r)
    BY <1>0, <1>1, ClientMessageFields DEF Job, AllRequests, IsRequest
  <1>3. \A v : v \in Storing(p, r) => v = w
    <2>1. w \in Storing(p, r)
      BY <1>1, <1>2 DEF Storing
    <2> QED
      BY <1>2, <2>1, InOnePlace
  <1>4. Waiting(p, r) = {} /\ ~Filed(p, r)
    <2>1. w \in Storing(p, r)
      BY <1>1, <1>2 DEF Storing
    <2> QED
      BY <1>2, <2>1, InOnePlace
  <1>5. /\ DOMAIN jobs' = DOMAIN jobs /\ jobs'[w].at = "broadcast"
        /\ \A v \in DOMAIN jobs : v # w => jobs'[v] = jobs[v]
    BY <1>1 DEF StoreSearch, JobAt
  <1>6. /\ r \in DOMAIN searches' /\ DOMAIN searches' = DOMAIN searches \cup {r}
        /\ searches'[r].searcher = p /\ searches'[r].processed = FALSE /\ searches'[r].offers = <<>>
        /\ \A x \in DOMAIN searches : x # r => searches'[x] = searches[x]
    BY <1>0 DEF StoreSearch, Put, NewSearch
  <1>7. \A q \in AllRequests : Made(q)' = Made(q)
    BY DEF Made, IsRequest
  <1>8. ASSUME NEW q \in AllRequests, q # k PROVE Still(q)
    <2>1. ~IsRequest(jobs[w], q[1], q[2])
      BY <1>0, <1>8 DEF IsRequest, AllRequests
    <2>2. OnItsWay(q)' = OnItsWay(q)
      BY <1>1, <1>5, <2>1 DEF OnItsWay, IsRequest
    <2>3. CASE q[2] # r
      BY <1>6, <1>7, <2>2, <2>3 DEF Still, Filed, Pending
    <2>4. CASE q[2] = r
      <3>1. q[1] # p
        BY <1>8, <2>4 DEF AllRequests
      <3>2. ~Filed(q[1], q[2])
        <4>1. Made(k) # {}
          <5>1. OnItsWay(k)
            BY <1>1, <1>2 DEF OnItsWay
          <5> QED
            BY <1>2, <5>1, FactsHold DEF Facts
        <4>2. Made(q) # {} => p = q[1]
          BY <1>2, <2>4, <4>1, MadeOnce
        <4> QED
          BY <3>1, <4>2, MadeOnce
      <3> QED
        BY <1>6, <1>7, <2>2, <2>4, <3>1, <3>2 DEF Still, Filed
    <2> QED
      BY <2>3, <2>4
  <1>9. OnItsWay(k) /\ ~OnItsWay(k)'
    <2>1. OnItsWay(k)
      BY <1>1, <1>2 DEF OnItsWay
    <2>2. \A d \in DOMAIN toServer : ~IsRequest(d, p, r)
      <3> SUFFICES ASSUME NEW d \in DOMAIN toServer, IsRequest(d, p, r) PROVE FALSE
        OBVIOUS
      <3>1. Storing(p, r) = {}
        BY OnlyRequest DEF IsRequest
      <3> QED
        BY <1>1, <1>2, <3>1 DEF Storing
    <2>3. \A v \in DOMAIN jobs' : ~(jobs'[v].at = "store" /\ IsRequest(jobs'[v], p, r))
      BY <1>3, <1>5 DEF Storing
    <2>4. ~OnItsWay(k)'
      BY <1>1, <2>2, <2>3 DEF OnItsWay, IsRequest
    <2> QED
      BY <2>1, <2>4
  <1>10. ~Filed(k[1], k[2]) /\ Filed(k[1], k[2])'
    <2>1. Filed(k[1], k[2])'
      BY <1>6 DEF Filed, Pending
    <2> QED
      BY <1>4, <2>1
  <1>11. Facts /\ Facts'
    BY FactsHold, FactsHoldNext
  <1>12. k[2] = r
    OBVIOUS
  <1> HIDE DEF k
  <1>13. Made(k)' = Made(k)
    BY <1>2, <1>7
  <1>14. ProgressOf(k) = "asked" /\ ProgressOf(k)' = "collecting" /\ BidsOn(k) = {}
    BY <1>2, <1>9, <1>10, <1>11, <1>13 DEF Facts
  <1>15. BidsOn(k)' = {}
    <2>1. BidsOn(k)' = {o.price : o \in Range(searches'[r].offers)}
      BY <1>2, <1>10, <1>11, <1>12 DEF Facts
    <2>2. Range(searches'[r].offers) = {}
      BY <1>6 DEF Range
    <2> QED
      BY <2>1, <2>2
  <1>16. LimitOf(k)' = LimitOf(k)
    BY <1>13 DEF LimitOf
  <1>17. AsBroker!Moves(k, "asked", "collecting")
    BY <1>2, <1>8, <1>14, OneMoves DEF AsBroker!Moves
  <1>18. UNCHANGED <<[q \in AllRequests |-> LimitOf(q)], [q \in AllRequests |-> BidsOn(q)],
                     {AnswerOf(c) : c \in AnswersInFlight}>>
    <2>1. {AnswerOf(c) : c \in AnswersInFlight}' = {AnswerOf(c) : c \in AnswersInFlight}
      BY <1>1 DEF AnswersInFlight, AnswerOf
    <2> QED
      BY <1>8, <1>14, <1>15, <1>16, <2>1, StillStays
  <1>19. AsBroker!Open(k)
    BY <1>17, <1>18 DEF AsBroker!Open
  <1> QED
    BY <1>2, <1>19 DEF AsBroker!Next

\* The steps that touch neither a request nor its search, and time.
LEMMA ElsewhereStill ==
    ASSUME BrokerInv, BrokerInv', UNCHANGED <<nextRq, sent, faults>>,
           \/ \E w \in Workers : BroadcastSearch(w) \/ PushEvent(w)
           \/ ProcessEvent \/ Tick
    PROVE  UNCHANGED AsBroker!vars
  <1>1. toServer' = toServer
    BY DEF BroadcastSearch, PushEvent, ProcessEvent, Tick, netVars
  <1>2. AnswersInFlight' = AnswersInFlight
    <2>1. CASE toPeers' = toPeers
      BY <2>1 DEF AnswersInFlight
    <2>2. ASSUME NEW w \in Workers, BroadcastSearch(w)
          PROVE  AnswersInFlight' = AnswersInFlight
      <3> DEFINE D == {[to |-> q, msg |-> SearchMsg(jobs[w].msg.rq, jobs[w].msg.item_name)] :
                         q \in Audience(jobs[w].from)}
      <3>1. toPeers' = toPeers (+) SetToBag(D) /\ IsABag(toPeers)
        BY <2>2 DEF BroadcastSearch, BrokerInv, TypeOK, NetTypeOK
      <3>2. ASSUME NEW e \in D PROVE e.msg.command = "SEARCH"
        BY DEF SearchMsg
      <3> HIDE DEF D
      <3>3. DOMAIN toPeers' = DOMAIN toPeers \cup D
        BY <3>1, BagAdd
      <3> QED
        BY <3>2, <3>3 DEF AnswersInFlight
    <2> QED
      BY <2>1, <2>2 DEF PushEvent, ProcessEvent, Tick, netVars
  <1>3. \A v : v \in DOMAIN jobs' /\ jobs'[v].at = "store"
                 <=> v \in DOMAIN jobs /\ jobs[v].at = "store"
    <2>n. \A v \in DOMAIN jobs : jobs[v] \in Job
      BY DEF BrokerInv, TypeOK, ServerTypeOK, JobsTypeOK
    <2>1. CASE jobs' = jobs
      BY <2>1
    <2>2. CASE \E w \in Workers : BroadcastSearch(w)
      BY <2>2, <2>n DEF BroadcastSearch, Job
    <2>3. CASE \E w \in Workers : PushEvent(w)
      BY <2>3 DEF PushEvent, Restrict
    <2>4. CASE Tick
      BY <2>4, <2>n DEF Tick, Job
    <2> QED
      BY <2>1, <2>2, <2>3, <2>4 DEF ProcessEvent
  <1>4. \A v \in DOMAIN jobs' : jobs'[v].at = "store" => /\ jobs'[v].from = jobs[v].from
                                                         /\ jobs'[v].msg = jobs[v].msg
    <2>n. \A v \in DOMAIN jobs : jobs[v] \in Job
      BY DEF BrokerInv, TypeOK, ServerTypeOK, JobsTypeOK
    <2>1. CASE jobs' = jobs
      BY <2>1
    <2>2. CASE \E w \in Workers : BroadcastSearch(w)
      BY <2>2, <2>n DEF BroadcastSearch, Job
    <2>3. CASE \E w \in Workers : PushEvent(w)
      BY <2>3 DEF PushEvent, Restrict
    <2>4. CASE Tick
      BY <2>4, <2>n DEF Tick, Job
    <2> QED
      BY <2>1, <2>2, <2>3, <2>4 DEF ProcessEvent
  <1>5. \A q \in AllRequests : OnItsWay(q)' = OnItsWay(q)
    BY <1>1, <1>3, <1>4 DEF OnItsWay, IsRequest
  <1>6. /\ DOMAIN searches' = DOMAIN searches
        /\ \A r \in DOMAIN searches : /\ searches'[r].searcher = searches[r].searcher
                                      /\ searches'[r].processed = searches[r].processed
                                      /\ searches'[r].offers = searches[r].offers
    <2>1. CASE searches' = searches
      BY <2>1
    <2>2. CASE Tick
      <3>1. \A r \in DOMAIN searches : searches[r] \in SearchRequest
        BY DEF BrokerInv, TypeOK, ServerTypeOK, SearchesTypeOK
      <3> QED
        BY <2>2, <3>1 DEF Tick, SearchRequest
    <2> QED
      BY <2>1, <2>2 DEF BroadcastSearch, PushEvent, ProcessEvent
  <1>7. \A q \in AllRequests : Still(q)
    BY <1>5, <1>6 DEF Still, Made, IsRequest, Filed, Pending
  <1> QED
    BY <1>2, <1>7, AllStill

\* A timeout thread closes the request of the search it finds pending, and the
\* answer it gives is the one Broker gives.
LEMMA LowestPrice ==
    ASSUME NEW offers \in Seq(Offer), NEW i \in DOMAIN offers, IsLowest(offers, i)
    PROVE  LET prices == {o.price : o \in Range(offers)} IN
           /\ prices # {}
           /\ (CHOOSE b \in prices : \A c \in prices : b <= c) = offers[i].price
  <1> DEFINE prices == {o.price : o \in Range(offers)}
             b == offers[i].price
  <1>1. \A j \in DOMAIN offers : offers[j] \in Offer
    OBVIOUS
  <1>2. \A c \in prices : c \in Int
    BY <1>1, PricesAssumption DEF Range, Offer
  <1>3. b \in prices /\ \A c \in prices : b <= c
    BY DEF Range, IsLowest
  <1> HIDE DEF prices, b
  <1>4. \A x \in prices : (\A c \in prices : x <= c) => x = b
    BY <1>2, <1>3
  <1>5. (CHOOSE x \in prices : \A c \in prices : x <= c) = b
    BY <1>3, <1>4
  <1> QED
    BY <1>3, <1>5 DEF prices, b

LEMMA FireCloses ==
    ASSUME BrokerInv, BrokerInv', UNCHANGED <<nextRq, sent, faults>>,
           NEW t \in TimerThreads, TimerFires(t)
    PROVE  [AsBroker!Next]_AsBroker!vars
  <1>0. PICK r : r = timers[t].rq
    OBVIOUS
  <1>1. UNCHANGED <<toServer, jobs>>
    BY DEF TimerFires
  <1>2. \A q \in AllRequests : Made(q)' = Made(q) /\ OnItsWay(q)' = OnItsWay(q)
    BY <1>1 DEF Made, IsRequest, OnItsWay
  <1>3. CASE ~Pending(r)
    <2>1. UNCHANGED <<searches, toPeers>>
      BY <1>0, <1>3 DEF TimerFires
    <2>2. \A q \in AllRequests : Still(q)
      BY <1>2, <2>1 DEF Still, Filed, Pending
    <2>3. AnswersInFlight' = AnswersInFlight
      BY <2>1 DEF AnswersInFlight
    <2> QED
      BY <2>2, <2>3, AllStill
  <1>4. CASE Pending(r)
    <2>1. PICK s : s = searches[r]
      OBVIOUS
    <2>2. ResolveSearch(r)
      BY <1>0, <1>4 DEF TimerFires
    <2>3. /\ r \in DOMAIN searches /\ r \in Rqs /\ s \in SearchRequest
          /\ s.searcher \in Peers /\ s.offers \in Seq(Offer) /\ s.processed = FALSE
      BY <1>4, <2>1 DEF Pending, BrokerInv, TypeOK, ServerTypeOK, SearchesTypeOK, SearchRequest
    <2> DEFINE k == <<s.searcher, r>>
    <2>4. k \in AllRequests /\ Filed(k[1], k[2])
      BY <1>4, <2>1, <2>3 DEF AllRequests, Filed
    <2>5. searches' = WithoutSearch(r) \/ searches' = Processed(r)
      BY <2>2 DEF ResolveSearch
    <2>6. ~Pending(r)'
      BY <2>1, <2>3, <2>5 DEF WithoutSearch, Processed, Restrict, Pending, SearchRequest
    <2>7. ASSUME NEW q \in AllRequests, q # k PROVE Still(q)
      <3>1. CASE q[2] # r
        BY <1>2, <2>5, <3>1 DEF WithoutSearch, Processed, Restrict, Still, Filed, Pending
      <3>2. CASE q[2] = r
        <4>1. q[1] # s.searcher
          BY <2>7, <3>2 DEF AllRequests
        <4> QED
          BY <1>2, <2>1, <2>6, <3>2, <4>1 DEF Still, Filed
      <3> QED
        BY <3>1, <3>2
    <2>8. ~Filed(k[1], k[2])'
      BY <2>6 DEF Filed
    <2>9. Facts /\ Facts'
      BY FactsHold, FactsHoldNext
    <2>10. k[2] = r
      OBVIOUS
    <2>11. Made(k)' = Made(k) /\ OnItsWay(k)' = OnItsWay(k)
      BY <1>2, <2>4
    <2>12. LimitOf(k) = s.maxPrice
      BY <2>1, <2>4, <2>10, MadeOnce
    <2>13. ASSUME NEW m, Reply(s.searcher, m), m.command \in {"FOUND", "NOT_AVAILABLE"}, m.rq = r
           PROVE  {AnswerOf(c) : c \in AnswersInFlight}'
                    = {AnswerOf(c) : c \in AnswersInFlight}
                        \cup {AsBroker!Answer(k, IF m.command = "FOUND" THEN m.price ELSE 0)}
      <3> DEFINE d == [to |-> s.searcher, msg |-> m]
      <3>1. DOMAIN toPeers' = DOMAIN toPeers \cup {d}
        BY <2>13, ReplyAdds DEF BrokerInv, TypeOK
      <3>2. AnswersInFlight' = AnswersInFlight \cup {d}
        BY <2>13, <3>1 DEF AnswersInFlight
      <3>3. AnswerOf(d) = AsBroker!Answer(k, IF m.command = "FOUND" THEN m.price ELSE 0)
        BY <2>13 DEF AnswerOf, AsBroker!Answer
      <3>4. {AnswerOf(c) : c \in AnswersInFlight}' = {AnswerOf(c) : c \in AnswersInFlight'}
        BY DEF AnswerOf
      <3> HIDE DEF d, k
      <3> QED
        BY <3>2, <3>3, <3>4
    <2>14. ASSUME NEW q, NEW m, Reply(q, m), m.command \notin {"FOUND", "NOT_AVAILABLE"}
           PROVE  {AnswerOf(c) : c \in AnswersInFlight}' = {AnswerOf(c) : c \in AnswersInFlight}
      <3>1. DOMAIN toPeers' = DOMAIN toPeers \cup {[to |-> q, msg |-> m]}
        BY <2>14, ReplyAdds DEF BrokerInv, TypeOK
      <3>2. AnswersInFlight' = AnswersInFlight
        BY <2>14, <3>1 DEF AnswersInFlight
      <3> QED
        BY <3>2 DEF AnswerOf
    <2> DEFINE prices == {o.price : o \in Range(s.offers)}
               lowest == CHOOSE b \in prices : \A c \in prices : b <= c
    <2>15. {AnswerOf(c) : c \in AnswersInFlight}'
             = {AnswerOf(c) : c \in AnswersInFlight}
                 \cup (IF prices = {} THEN {AsBroker!Answer(k, 0)}
                       ELSE IF lowest <= s.maxPrice THEN {AsBroker!Answer(k, lowest)} ELSE {})
      <3>1. CASE s.offers = <<>> /\ Reply(s.searcher, NotAvailableMsg(r, s.item, s.maxPrice))
        <4> DEFINE m == NotAvailableMsg(r, s.item, s.maxPrice)
        <4>1. prices = {}
          BY <3>1 DEF Range
        <4>2. m.command = "NOT_AVAILABLE" /\ m.rq = r
          BY DEF NotAvailableMsg
        <4> HIDE DEF m, k, prices
        <4>3. {AnswerOf(c) : c \in AnswersInFlight}'
                = {AnswerOf(c) : c \in AnswersInFlight} \cup {AsBroker!Answer(k, 0)}
          BY <2>13, <3>1, <4>2 DEF m
        <4> QED
          BY <4>1, <4>3
      <3>2. ASSUME NEW i \in DOMAIN s.offers, IsLowest(s.offers, i), AnswerBest(r, s, s.offers[i])
            PROVE  {AnswerOf(c) : c \in AnswersInFlight}'
                    = {AnswerOf(c) : c \in AnswersInFlight}
                        \cup (IF prices = {} THEN {AsBroker!Answer(k, 0)}
                              ELSE IF lowest <= s.maxPrice THEN {AsBroker!Answer(k, lowest)}
                              ELSE {})
        <4>1. prices # {} /\ lowest = s.offers[i].price
          BY <2>3, <3>2, LowestPrice
        <4>2. CASE s.offers[i].price <= s.maxPrice
          <5> DEFINE m == FoundMsg(r, s.item, s.offers[i].price)
          <5>1. m.command = "FOUND" /\ m.rq = r /\ m.price = s.offers[i].price
            BY DEF FoundMsg
          <5>2. Reply(s.searcher, m)
            BY <3>2, <4>2 DEF AnswerBest
          <5> HIDE DEF m, k, prices, lowest
          <5>3. {AnswerOf(c) : c \in AnswersInFlight}'
                  = {AnswerOf(c) : c \in AnswersInFlight} \cup {AsBroker!Answer(k, m.price)}
            BY <2>13, <5>1, <5>2
          <5> QED
            BY <4>1, <4>2, <5>1, <5>3
        <4>3. CASE ~(s.offers[i].price <= s.maxPrice)
          <5> DEFINE m == NegotiateMsg(r, s.item, s.maxPrice)
          <5>1. m.command \notin {"FOUND", "NOT_AVAILABLE"}
            BY DEF NegotiateMsg
          <5>2. Reply(s.offers[i].seller, m)
            BY <3>2, <4>3 DEF AnswerBest
          <5> HIDE DEF m, k, prices, lowest
          <5>3. {AnswerOf(c) : c \in AnswersInFlight}' = {AnswerOf(c) : c \in AnswersInFlight}
            BY <2>14, <5>1, <5>2
          <5> QED
            BY <4>1, <4>3, <5>3
        <4> QED
          BY <4>2, <4>3
      <3> QED
        BY <2>1, <2>2, <3>1, <3>2 DEF ResolveSearch
    <2> HIDE DEF k
    <2>16. /\ ProgressOf(k) = "collecting" /\ ProgressOf(k)' = "closed"
           /\ BidsOn(k) = prices /\ BidsOn(k)' = {}
      BY <2>1, <2>4, <2>8, <2>9, <2>10, <2>11 DEF Facts
    <2>17. LimitOf(k)' = LimitOf(k)
      BY <2>11 DEF LimitOf
    <2> HIDE DEF prices
    <2>18. AsBroker!Moves(k, "collecting", "closed")
      BY <2>4, <2>7, <2>16, OneMoves DEF AsBroker!Moves
    <2>19. UNCHANGED [q \in AllRequests |-> LimitOf(q)]
      BY <2>7, <2>17, StillStays
    <2>20. [q \in AllRequests |-> BidsOn(q)]'
             = [[q \in AllRequests |-> BidsOn(q)] EXCEPT ![k] = {}]
      BY <2>4, <2>7, <2>16, OneMoves
    <2>21. AsBroker!Lowest(k) = lowest
      BY <2>4, <2>16 DEF AsBroker!Lowest
    <2>22. [q \in AllRequests |-> BidsOn(q)][k] = prices /\ [q \in AllRequests |-> LimitOf(q)][k] = s.maxPrice
      BY <2>4, <2>12, <2>16
    <2> HIDE DEF lowest
    <2>23. AsBroker!Close(k)
      BY <2>15, <2>18, <2>19, <2>20, <2>21, <2>22 DEF AsBroker!Close
    <2> QED
      BY <2>4, <2>23 DEF AsBroker!Next
  <1> QED
    BY <1>3, <1>4

-------------------------------------------------------------------------------
LEMMA BrokerInvAlways == ASSUME NumbersAreOwn, NoFaults PROVE Spec => []BrokerInv
  <1>1. TypeOK => faults = 0
    BY DEF TypeOK, NoFaults
  <1>2. TypeOK /\ SentInv /\ FoundInv /\ OnceInv => BrokerInv
    BY <1>1 DEF BrokerInv, FoundInv
  <1> QED
    BY <1>2, TypeCorrect, SentAlways, FoundAlways, OnceAlways, PTL

LEMMA BrokerInit == Init => AsBroker!Init
  <1> SUFFICES ASSUME Init PROVE AsBroker!Init
    OBVIOUS
  <1>1. sent = {} /\ DOMAIN toPeers = {}
    BY DEF Init, NetInit, EmptyBag, SetToBag
  <1>2. \A q \in AllRequests : Made(q) = {}
    BY <1>1 DEF Made
  <1>3. \A q \in AllRequests : ProgressOf(q) = "idle"
    <2> SUFFICES ASSUME NEW q \in AllRequests PROVE ProgressOf(q) = "idle"
      OBVIOUS
    <2>1. ~Asked(q) /\ ~Filed(q[1], q[2])
      BY DEF Init, NetInit, ServerInit, EmptyBag, SetToBag, Asked, Waiting, Copies, Storing,
         Filed, Pending
    <2> QED
      BY <1>2, <2>1 DEF ProgressOf
  <1>4. \A q \in AllRequests : LimitOf(q) = 0 /\ BidsOn(q) = {}
    BY <1>2, <1>3 DEF LimitOf, BidsOn
  <1>5. {AnswerOf(d) : d \in AnswersInFlight} = {}
    BY <1>1 DEF AnswersInFlight
  <1> QED
    BY <1>3, <1>4, <1>5 DEF AsBroker!Init

LEMMA BrokerStep ==
    ASSUME NoFaults, BrokerInv, BrokerInv', [Next]_vars
    PROVE  [AsBroker!Next]_AsBroker!vars
  <1>1. CASE ServerNext /\ UNCHANGED <<nextRq, sent, faults>>
    <2>1. ASSUME NEW w \in Workers, NEW d \in DOMAIN toServer, Handle(w, d)
          PROVE  [AsBroker!Next]_AsBroker!vars
      BY <1>1, <2>1, HandledStill, StartStill, OfferBids DEF Handle
    <2>2. ASSUME NEW w \in Workers, WorkerSteps(w)
          PROVE  [AsBroker!Next]_AsBroker!vars
      BY <1>1, <2>2, StoreOpens, ElsewhereStill DEF WorkerSteps
    <2>3. ASSUME NEW t \in TimerThreads, TimerFires(t)
          PROVE  [AsBroker!Next]_AsBroker!vars
      BY <1>1, <2>3, FireCloses
    <2>4. CASE ProcessEvent \/ Tick
      BY <1>1, <2>4, ElsewhereStill
    <2> QED
      BY <1>1, <2>1, <2>2, <2>3, <2>4 DEF ServerNext
  <1>2. CASE PeersNext
    BY <1>2, RequestMade, PeersOtherwise DEF PeersNext
  <1>3. CASE NetworkNext /\ UNCHANGED <<serverVars, nextRq, sent, faults>>
    BY <1>3, RequestLost, AnswerArrives DEF NetworkNext
  <1>4. CASE FaultsNext
    BY <1>4 DEF FaultsNext, BrokerInv, NoFaults
  <1>5. CASE UNCHANGED vars
    <2>1. UNCHANGED <<toServer, toPeers, jobs, searches, sent>>
      BY <1>5 DEF vars, netVars, serverVars
    <2>2. (\A q \in AllRequests : Still(q)) /\ AnswersInFlight' = AnswersInFlight
      BY <2>1, RequestsStill DEF Searches, AnswersInFlight
    <2> QED
      BY <2>2, AllStill
  <1> QED
    BY <1>1, <1>2, <1>3, <1>4, <1>5 DEF Next

(***************************************************************************)
(* The server is a broker: a request is filed once, collects every offer   *)
(* made until its timeout thread resolves it, and is answered with the     *)
(* lowest of them if that is within the maximum, with none if there was no *)
(* offer, and not at all otherwise (handleLookingFor, handleOffer and      *)
(* processOffersAfterTimeout).  With a second buyer that uses the same     *)
(* numbers, or a duplicated request, it is not: one search replaces the    *)
(* other.                                                                  *)
(***************************************************************************)
THEOREM ServerIsABroker ==
    ASSUME NumbersAreOwn, NoFaults PROVE Spec => ImplementsBroker
  <1>1. BrokerInv /\ BrokerInv' /\ [Next]_vars => [AsBroker!Next]_AsBroker!vars
    BY BrokerStep
  <1> QED
    BY <1>1, BrokerInit, BrokerInvAlways, PTL DEF Spec, ImplementsBroker, AsBroker!Spec
===============================================================================

----------------------------- MODULE OpenClient -----------------------------
(***************************************************************************)
(* The client in an open environment: whoever knows its address may send   *)
(* it any datagram its parser has a case for, in any order (the client     *)
(* does not look at who sent one), and nobody answers what it sends.       *)
(* The OFFER that would fill offers_ comes from no sender in this code; it *)
(* does here, so that the commands that take one off the list have one.    *)
(***************************************************************************)
EXTENDS Client, FiniteSets

CONSTANT MaxHeard  \* bound: datagrams a client is sent

ASSUME MaxHeardAssumption == MaxHeard \in Nat
\* The number that messages carry whose number no client reads.
ASSUME SomeRqAssumption == 1 \in Rqs

VARIABLE heard  \* history: the bag of datagrams sent to the clients

vars == <<netVars, clientVars, heard>>

\* A datagram that changes nothing when received is left out.
Inputs ==
    {RegisteredMsg(1), [command |-> "REGISTER-DENIED", rq |-> 1]}
      \cup [command : {"NOT_FOUND"}, rq : {1}, item_name : Items]
      \cup [command : {"FOUND"}, rq : {1}, item_name : Items, price : Prices]
      \cup {SearchMsg(1, i) : i \in Items}
      \cup [command : {"OFFER"}, rq : Rqs, name : Peers, item_name : Items, price : Prices]

Init == NetInit /\ ClientInit /\ heard = EmptyBag

PeerIsSent(p) ==
    /\ BagCardinality(heard) < MaxHeard
    /\ \E m \in Inputs :
         LET d == [to |-> p, msg |-> m] IN
         /\ toPeers' = toPeers (+) SetToBag({d})
         /\ heard' = heard (+) SetToBag({d})
    /\ UNCHANGED <<toServer, clientVars>>

Next ==
    \/ \E p \in Peers : /\ CommandThread(p) \/ TradeCommand(p) \/ ReceiveThread(p)
                        /\ UNCHANGED heard
    \/ \E p \in Peers : PeerIsSent(p)

Spec == Init /\ [][Next]_vars

-------------------------------------------------------------------------------
\* Every variable of the client holds a value of its type.
TypeOK == ClientTypeOK /\ DOMAIN toServer \subseteq Datagram

SentBy(p, commands) ==
    Copies(toServer, {d \in DOMAIN toServer : d.from = p /\ d.msg.command \in commands})
HeardBy(p, commands) ==
    Copies(heard, {d \in DOMAIN heard : d.to = p /\ d.msg.command \in commands})

(***************************************************************************)
(* A client replies to what it was offered, once: its accepts and refusals *)
(* of a price for an item are no more than the offers it got of just that, *)
(* and its replies to a request number, counter-offers included, no more   *)
(* than the offers for that number (acceptOffer, refuseOffer and           *)
(* negotiateOffer find an offer by its request number alone).              *)
(***************************************************************************)
Deal(m) == [rq |-> m.rq, name |-> m.item_name, price |-> m.price]
Replies(p, commands, O) == {c \in SentBy(p, commands) : Deal(c[1].msg) \in O}
OffersTo(p, O) == {c \in HeardBy(p, {"OFFER"}) : Deal(c[1].msg) \in O}
OffersFor(r) == [rq : {r}, name : Items, price : Prices]
RepliesWereOffered ==
    \A p \in Peers :
        /\ \A o \in ListedOffer : Cardinality(Replies(p, {"ACCEPT", "REFUSE"}, {o}))
                                    <= Cardinality(OffersTo(p, {o}))
        /\ \A r \in Rqs : Cardinality(Replies(p, TradeCommands, OffersFor(r)))
                            <= Cardinality(OffersTo(p, OffersFor(r)))

(***************************************************************************)
(* Whatever makes a client search or leave makes it do so once: each       *)
(* LOOKING_FOR and DE_REGISTER uses up one REGISTERED, FOUND or NOT_FOUND  *)
(* (searchItem and deregister want the state REGISTERED, which only these  *)
(* give, and the receive thread may give it at any moment).                *)
(***************************************************************************)
RequestsAreAllowed ==
    \A p \in Peers :
      Cardinality(SentBy(p, {"LOOKING_FOR", "DE_REGISTER"}))
        <= Cardinality(HeardBy(p, {"REGISTERED", "FOUND", "NOT_FOUND"}))
===============================================================================

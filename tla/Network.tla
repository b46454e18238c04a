------------------------------- MODULE Network -------------------------------
(***************************************************************************)
(* The UDP sockets of the server and of the peers: a datagram may be       *)
(* overtaken by another, may be lost and may be duplicated.  Bags, because *)
(* the same datagram may be on its way more than once.                     *)
(***************************************************************************)
EXTENDS Messages, Bags

VARIABLES
    toServer,  \* bag of datagrams [from, msg] on their way to the server
    toPeers    \* bag of datagrams [to, msg] on their way to the peers

netVars == <<toServer, toPeers>>

Datagram == [from : Peers, msg : ClientMessages]
NetTypeOK ==
    /\ IsABag(toServer) /\ DOMAIN toServer \subseteq Datagram
    /\ IsABag(toPeers) /\ DOMAIN toPeers \subseteq [to : Peers, msg : ServerMessages]

NetInit == toServer = EmptyBag /\ toPeers = EmptyBag

(* The server's socket. *)
Receive(d) == toServer' = toServer (-) SetToBag({d})
Reply(p, m) == toPeers' = toPeers (+) SetToBag({[to |-> p, msg |-> m]})

(* Peer p's socket. *)
Send(p, m) == toServer' = toServer (+) SetToBag({[from |-> p, msg |-> m]})
Deliver(d) == toPeers' = toPeers (-) SetToBag({d})

LoseToServer(d) == Receive(d) /\ UNCHANGED toPeers
LoseToPeer(d) == Deliver(d) /\ UNCHANGED toServer

DuplicateToServer(d) == toServer' = toServer (+) SetToBag({d}) /\ UNCHANGED toPeers
DuplicateToPeer(d) == toPeers' = toPeers (+) SetToBag({d}) /\ UNCHANGED toServer

\* The copies of the datagrams of S there are in a bag, to count them.
Copies(bag, S) == UNION {{d} \X (1 .. bag[d]) : d \in S}

NetworkNext ==
    \/ \E d \in DOMAIN toServer : LoseToServer(d)
    \/ \E d \in DOMAIN toPeers : LoseToPeer(d)
===============================================================================

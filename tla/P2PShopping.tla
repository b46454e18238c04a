----------------------------- MODULE P2PShopping -----------------------------
(***************************************************************************)
(* The whole system: the server, the clients and the network between them. *)
(* It implements OpenServer: whatever the clients do is something the peers *)
(* of the open environment may do, so what holds of the server there holds *)
(* here.  A datagram is lost by never being received: no property below    *)
(* asks that one arrives.  Faults, up to a bound: a client is killed and    *)
(* started again, and the network duplicates a datagram.                   *)
(***************************************************************************)
EXTENDS Server, Client, FiniteSets

CONSTANTS
    Restarters,  \* the peers whose client may be killed and started again
    Duplicates,  \* whether the network may duplicate a datagram
    MaxFaults    \* bound: restarts and duplicates

ASSUME RestartersAssumption == Restarters \subseteq Peers
ASSUME DuplicatesAssumption == Duplicates \in BOOLEAN
ASSUME MaxFaultsAssumption == MaxFaults \in Nat

VARIABLES
    sent,       \* history, as in OpenServer: every search and offer sent so far
    faults,     \* how many restarts and duplicates there were
    restarted,  \* history: the clients that were started again
    doubled     \* history: the clients with a decisive datagram duplicated

faultVars == <<faults, restarted, doubled>>
vars == <<netVars, serverVars, clientVars, sent, faultVars>>

Init ==
    /\ NetInit /\ ServerInit /\ ClientInit
    /\ sent = {}
    /\ faults = 0 /\ restarted = {} /\ doubled = {}

\* The datagrams this step sends, but for the registrations.
NewlySent ==
    {d \in DOMAIN toServer' \ DOMAIN toServer :
        d.msg.command \notin {"REGISTER", "DE_REGISTER"}}

(* negotiateOffer, acceptOffer and refuseOffer are left out: the list they *)
(* take their offer from is always empty (NothingIsListed).                *)
ClientsNext ==
    /\ \E p \in Peers : CommandThread(p) \/ ReceiveThread(p)
    /\ sent' = sent \cup NewlySent
    /\ UNCHANGED <<serverVars, faultVars>>

ClientRestarts ==
    /\ \E p \in Restarters : Restart(p) /\ restarted' = restarted \cup {p}
    /\ UNCHANGED doubled

\* Sent once, these let a client make one request, are that request, or answer
\* it: with a second copy there are two.
Decisive == {"REGISTERED", "LOOKING_FOR", "DE_REGISTER", "FOUND", "NOT_AVAILABLE"}
WithDoubled(p, d) == IF d.msg.command \in Decisive THEN doubled \cup {p} ELSE doubled

NetworkDuplicates ==
    /\ Duplicates
    /\ \/ \E d \in DOMAIN toServer : DuplicateToServer(d) /\ doubled' = WithDoubled(d.from, d)
       \/ \E d \in DOMAIN toPeers : DuplicateToPeer(d) /\ doubled' = WithDoubled(d.to, d)
    /\ UNCHANGED <<clientVars, restarted>>

FaultsNext ==
    /\ faults < MaxFaults
    /\ faults' = faults + 1
    /\ ClientRestarts \/ NetworkDuplicates
    /\ UNCHANGED <<serverVars, sent>>

Next ==
    \/ ServerNext /\ UNCHANGED <<clientVars, sent, faultVars>>
    \/ ClientsNext
    \/ FaultsNext

Spec == Init /\ [][Next]_vars

-------------------------------------------------------------------------------
(***************************************************************************)
(* The system implements the server in its open environment: a client of   *)
(* the code never does what no peer of OpenServer may do, and no peer of   *)
(* OpenServer more than what its user types makes it do.                   *)
(***************************************************************************)
RolesOf(p) ==
    {"fail"}
      \cup {op \in {"register", "deregister", "search"} : op \in Commands[p]}
      \cup (IF "quit" \in Commands[p] THEN {"deregister"} ELSE {})
      \cup (IF "add" \in Commands[p] THEN {"sell"} ELSE {})
      \cup (IF p \in Restarters THEN {"restart"} ELSE {})
Open == INSTANCE OpenServer WITH Roles <- [p \in Peers |-> RolesOf(p)]
ImplementsOpenServer == Open!Spec

(***************************************************************************)
(* A client that takes itself for registered has a session, unless its own *)
(* DE_REGISTER is on its way (client.cpp assigns REGISTERED whatever its   *)
(* state was; handleRegister and handleDeregister change the session in    *)
(* whatever order the datagrams arrive).  It may have been started again,  *)
(* and any datagrams may have been duplicated but the decisive ones from   *)
(* and to this client.                                                     *)
(***************************************************************************)
Believes(p) == clientState[p] \in {"REGISTERED", "SEARCHING", "NEGOTIATING"}
BelievesRegistered ==
    \A p \in Peers \ doubled :
        Believes(p) => Live(p) \/ assigning[p] = "UNREGISTERED"

(***************************************************************************)
(* An answer finds its client searching: FOUND sets the state REGISTERED   *)
(* without a look at it, which would register a client that has left.  Two *)
(* kinds of clients are left out: one that was started again, which is not *)
(* searching when the answer to the old process comes, and one with a      *)
(* decisive datagram duplicated.                                           *)
(***************************************************************************)
AnswerFindsSearcher ==
    \A d \in DOMAIN toPeers :
        d.msg.command \in {"FOUND", "NOT_AVAILABLE"} =>
            \/ "SEARCHING" \in {clientState[d.to], assigning[d.to]}
            \/ d.to \in restarted \cup doubled

(***************************************************************************)
(* "The server facilitates negotiation if the offer price is higher than   *)
(* the buyer's maximum price": the seller hears of it, that is, a          *)
(* registered client that takes a NEGOTIATE off its socket lists the offer *)
(* (handleOfferEvent), for its user to accept, refuse or negotiate.        *)
(***************************************************************************)
TakesOff(p, command) ==
    \E d \in DOMAIN toPeers : d.to = p /\ d.msg.command = command /\ Deliver(d)
NegotiationIsHeard ==
    [][\A p \in Peers : clientState[p] = "REGISTERED" /\ TakesOff(p, "NEGOTIATE") =>
          offers'[p] # offers[p]]_vars

(***************************************************************************)
(* "Peer already registered" is the reason a REGISTER-DENIED gives: so it  *)
(* is (handleRegister).                                                    *)
(***************************************************************************)
DeniedOnlyIfRegistered == [][\A p \in Peers : Open!Denies(p) => Live(p)]_vars

(***************************************************************************)
(* "Already registered or in process" is true of a client in the state     *)
(* REGISTERING: its REGISTER or the answer is on the way.  Likewise a      *)
(* client is SEARCHING only while its search is on its way, collecting or  *)
(* answered (registerWithServer, deregister and searchItem refuse to run   *)
(* in these states).                                                       *)
(***************************************************************************)
RegistrationUnderWay(p) ==
    \/ \E d \in DOMAIN toServer : d.from = p /\ d.msg.command = "REGISTER"
    \/ \E d \in DOMAIN toPeers : d.to = p /\ d.msg.command \in {"REGISTERED", "REGISTER-DENIED"}
SearchUnderWay(p) == \E r \in Rqs : Open!Places(p, r) > 0
BusyIsUnderWay ==
    \A p \in Peers : running[p] =>
        /\ clientState[p] = "REGISTERING" => RegistrationUnderWay(p)
        /\ clientState[p] = "SEARCHING" => SearchUnderWay(p)
===============================================================================

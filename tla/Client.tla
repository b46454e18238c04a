-------------------------------- MODULE Client --------------------------------
(***************************************************************************)
(* The clients: of each, the command thread, which runs what the user      *)
(* types, and the receive thread, which polls the socket.  Both read and   *)
(* write current_state_, which is neither locked nor atomic.               *)
(*                                                                         *)
(* A command of the user checks the state, sends, and only then assigns    *)
(* the new state: the check and the sending are one action, the assignment *)
(* another one.  A datagram handled between check and sending could as     *)
(* well be handled after the sending, which does not read the state again. *)
(*                                                                         *)
(* An operator marked Fault is used by no specification: it is the         *)
(* definition below it as a plausible bug would make it, there to show     *)
(* that a property fails when the code is broken that way.                 *)
(***************************************************************************)
EXTENDS Network, Sequences, SequencesExt

CONSTANTS
    Commands,    \* what the user of each client types
    RqLimit,     \* bound: how many request numbers each client uses
    MaxItems     \* bound: items in an inventory

CommandNames ==
    {"register", "deregister", "search", "quit", "end", "add", "remove",
     "negotiate", "accept", "refuse"}
ASSUME CommandsAssumption == Commands \in [Peers -> SUBSET CommandNames]
ASSUME RqLimitAssumption == RqLimit \in [Peers -> 0 .. MaxRq]
ASSUME MaxItemsAssumption == MaxItems \in Nat

VARIABLES
    clientState,  \* current_state_ of each client
    assigning,    \* the state the command thread is about to assign, or "none"
    quitting,     \* whether the command thread will clear running_ after that
    running,      \* running_
    inventory,    \* inventory_
    offers,       \* offers_
    nextRq        \* next_request_number_

threadVars == <<clientState, assigning, quitting, running>>
clientVars == <<threadVars, inventory, offers, nextRq>>

ClientStates == {"UNREGISTERED", "REGISTERING", "REGISTERED", "SEARCHING", "NEGOTIATING"}
Item == [name : Items, price : Prices]
ListedOffer == [rq : Rqs, name : Items, price : Prices]

ClientTypeOK ==
    /\ clientState \in [Peers -> ClientStates]
    /\ assigning \in [Peers -> ClientStates \cup {"none"}]
    /\ quitting \in [Peers -> BOOLEAN]
    /\ running \in [Peers -> BOOLEAN]
    /\ inventory \in [Peers -> Seq(Item)]
    /\ offers \in [Peers -> Seq(ListedOffer)]
    /\ nextRq \in [Peers -> 1 .. MaxRq + 1]

ClientInit ==
    /\ clientState = [p \in Peers |-> "UNREGISTERED"]
    /\ assigning = [p \in Peers |-> "none"]
    /\ quitting = [p \in Peers |-> FALSE]
    /\ running = [p \in Peers |-> TRUE]
    /\ inventory = [p \in Peers |-> <<>>]
    /\ offers = [p \in Peers |-> <<>>]
    /\ nextRq = [p \in Peers |-> 1]

-------------------------------------------------------------------------------
(* The command thread. *)

\* The user types the command and the thread is there to run it.
Runs(p, command) ==
    /\ command \in Commands[p]
    /\ running[p]
    /\ assigning[p] = "none"

\* Fault: the state stays as it was.
SendOnly(p, m, state) ==
    /\ UNCHANGED <<toPeers, assigning>>
    /\ Send(p, m) \/ UNCHANGED toServer
\* sendMessage: what was sent and, if sendto did not fail, the state to assign.
SendThenAssign(p, m, state) ==
    /\ UNCHANGED toPeers
    /\ \/ Send(p, m) /\ assigning' = [assigning EXCEPT ![p] = state]
       \/ UNCHANGED <<toServer, assigning>>

\* Fault: the number is not used up.
TakesSameNumber(p) == nextRq[p] <= RqLimit[p] /\ UNCHANGED nextRq
\* getNextRequestNumber.
TakesNumber(p) ==
    /\ nextRq[p] <= RqLimit[p]
    /\ nextRq' = [nextRq EXCEPT ![p] = @ + 1]

RegisterWithServer(p) ==
    /\ Runs(p, "register")
    /\ clientState[p] = "UNREGISTERED"
    /\ TakesNumber(p)
    /\ SendThenAssign(p, RegisterMsg(p, nextRq[p]), "REGISTERING")
    /\ UNCHANGED <<clientState, quitting, running, inventory, offers>>

Deregister(p) ==
    /\ Runs(p, "deregister")
    /\ clientState[p] = "REGISTERED"
    /\ TakesNumber(p)
    /\ SendThenAssign(p, DeregisterMsg(p, nextRq[p]), "UNREGISTERED")
    /\ UNCHANGED <<clientState, quitting, running, inventory, offers>>

SearchItem(p) ==
    /\ Runs(p, "search")
    /\ clientState[p] = "REGISTERED"
    /\ TakesNumber(p)
    /\ \E i \in Items, max \in Prices :
         SendThenAssign(p, LookingForMsg(p, nextRq[p], i, max), "SEARCHING")
    /\ UNCHANGED <<clientState, quitting, running, inventory, offers>>

\* The end of registerWithServer, deregister, searchItem or negotiateOffer and,
\* if it was quit that deregistered, of the command loop.
AssignState(p) ==
    /\ assigning[p] # "none"
    /\ clientState' = [clientState EXCEPT ![p] = assigning[p]]
    /\ assigning' = [assigning EXCEPT ![p] = "none"]
    /\ running' = [running EXCEPT ![p] = ~quitting[p]]
    /\ UNCHANGED <<netVars, quitting, inventory, offers, nextRq>>

\* quit: a registered client deregisters first, another just stops.  The last
\* message the receive thread may handle after that changes nothing anybody reads.
Quit(p) ==
    /\ Runs(p, "quit")
    /\ \/ /\ clientState[p] = "REGISTERED"
          /\ TakesNumber(p)
          /\ SendThenAssign(p, DeregisterMsg(p, nextRq[p]), "UNREGISTERED")
          /\ quitting' = [quitting EXCEPT ![p] = assigning'[p] # "none"]
          /\ running' = [running EXCEPT ![p] = assigning'[p] # "none"]
       \/ /\ clientState[p] # "REGISTERED"
          /\ running' = [running EXCEPT ![p] = FALSE]
          /\ UNCHANGED <<netVars, assigning, quitting, nextRq>>
    /\ UNCHANGED <<clientState, inventory, offers>>

\* The command loop ends with its input: nothing is sent.
InputEnds(p) ==
    /\ Runs(p, "end")
    /\ running' = [running EXCEPT ![p] = FALSE]
    /\ UNCHANGED <<netVars, clientState, assigning, quitting, inventory, offers, nextRq>>

AddItem(p) ==
    /\ Runs(p, "add")
    /\ Len(inventory[p]) < MaxItems
    /\ \E item \in Item : inventory' = [inventory EXCEPT ![p] = Append(@, item)]
    /\ UNCHANGED <<netVars, threadVars, offers, nextRq>>

\* Where the first item of that name is in p's inventory; 0 if it has none.
FirstItem(p, name) == SelectInSeq(inventory[p], LAMBDA item : item.name = name)

RemoveItem(p) ==
    /\ Runs(p, "remove")
    /\ \E name \in Items :
         /\ FirstItem(p, name) # 0
         /\ inventory' = [inventory EXCEPT ![p] = RemoveAt(@, FirstItem(p, name))]
    /\ UNCHANGED <<netVars, threadVars, offers, nextRq>>

-------------------------------------------------------------------------------
(* negotiateOffer, acceptOffer and refuseOffer take the first listed offer  *)
(* of a request number off the list and tell the server what the user said. *)

FirstOffer(p, r) == SelectInSeq(offers[p], LAMBDA o : o.rq = r)
\* Fault: the offer stays on the list.
StillListed(p, r) == offers
Unlisted(p, r) == [offers EXCEPT ![p] = RemoveAt(@, FirstOffer(p, r))]

NegotiateOffer(p) ==
    /\ Runs(p, "negotiate")
    /\ clientState[p] \in {"SEARCHING", "NEGOTIATING"}
    /\ \E r \in Rqs, price \in Prices :
         LET o == offers[p][FirstOffer(p, r)] IN
         /\ FirstOffer(p, r) # 0
         /\ offers' = Unlisted(p, r)
         /\ SendThenAssign(p, TradeMsg("NEGOTIATE", p, r, o.name, price), "NEGOTIATING")
    /\ UNCHANGED <<clientState, quitting, running, inventory, nextRq>>

\* acceptOffer and refuseOffer differ in the command only.
AcceptOrRefuseOffer(p, command, cmd) ==
    /\ Runs(p, command)
    /\ \E r \in Rqs :
         LET o == offers[p][FirstOffer(p, r)] IN
         /\ FirstOffer(p, r) # 0
         /\ offers' = Unlisted(p, r)
         /\ \/ Send(p, TradeMsg(cmd, p, r, o.name, o.price))
            \/ UNCHANGED toServer
    /\ UNCHANGED <<toPeers, threadVars, inventory, nextRq>>

-------------------------------------------------------------------------------
(* The receive thread: receiveMessages and handleReceivedMessage. *)

\* Fault: the state is taken for the type of the event.
StateOfEvent(type, s) == type
\* The state after an event of this type in state s.  There is no case for
\* NOT_AVAILABLE.
StateAfter(type, s) ==
    CASE type \in {"REGISTERED", "FOUND", "NOT_FOUND"} -> "REGISTERED"
      [] type = "REGISTER-DENIED" -> "UNREGISTERED"
      [] OTHER -> s

\* handleOfferEvent: the list after an OFFER or a NEGOTIATE.  The parser takes
\* the price of a NEGOTIATE from its max_price.
OffersAfter(p, m) ==
    IF m.command \in {"OFFER", "NEGOTIATE"} /\ clientState[p] = "REGISTERED"
    THEN Append(offers[p], [rq |-> m.rq, name |-> m.item_name,
                            price |-> IF m.command = "NEGOTIATE" THEN m.max_price ELSE m.price])
    ELSE offers[p]

\* handleSearchEvent: offer the first item of that name, if there is one.
HandleSearchEvent(p, d) ==
    /\ running[p]
    /\ d.to = p
    /\ d.msg.command = "SEARCH"
    /\ Parses(d.msg)
    /\ Deliver(d)
    /\ \/ LET k == FirstItem(p, d.msg.item_name) IN
          /\ clientState[p] = "REGISTERED"
          /\ k # 0
          /\ Send(p, OfferMsg(p, d.msg.rq, d.msg.item_name, inventory[p][k].price))
       \/ UNCHANGED toServer  \* nothing to offer, or sendto fails
    /\ UNCHANGED clientVars

HandleReceivedMessage(p, d) ==
    /\ running[p]
    /\ d.to = p
    /\ d.msg.command # "SEARCH"
    /\ Deliver(d)
    /\ \/ /\ Parses(d.msg)
          /\ clientState' = [clientState EXCEPT ![p] = StateAfter(d.msg.command, @)]
          /\ offers' = [offers EXCEPT ![p] = OffersAfter(p, d.msg)]
       \/ ~Parses(d.msg) /\ UNCHANGED <<clientState, offers>>
    /\ UNCHANGED <<toServer, assigning, quitting, running, inventory, nextRq>>

-------------------------------------------------------------------------------
(* The client is killed at any moment and started again at the same         *)
(* address.  The new process knows nothing of the old one's registration,   *)
(* searches and inventory; what is on its way to the address still arrives. *)

Restart(p) ==
    /\ clientState' = [clientState EXCEPT ![p] = "UNREGISTERED"]
    /\ assigning' = [assigning EXCEPT ![p] = "none"]
    /\ quitting' = [quitting EXCEPT ![p] = FALSE]
    /\ running' = [running EXCEPT ![p] = TRUE]
    /\ inventory' = [inventory EXCEPT ![p] = <<>>]
    /\ offers' = [offers EXCEPT ![p] = <<>>]
    /\ nextRq' = [nextRq EXCEPT ![p] = 1]
    /\ UNCHANGED netVars

-------------------------------------------------------------------------------
CommandThread(p) ==
    \/ RegisterWithServer(p)
    \/ Deregister(p)
    \/ SearchItem(p)
    \/ AssignState(p)
    \/ Quit(p)
    \/ InputEnds(p)
    \/ AddItem(p)
    \/ RemoveItem(p)

TradeCommand(p) ==
    \/ NegotiateOffer(p)
    \/ AcceptOrRefuseOffer(p, "accept", "ACCEPT")
    \/ AcceptOrRefuseOffer(p, "refuse", "REFUSE")

ReceiveThread(p) ==
    \E d \in DOMAIN toPeers : HandleSearchEvent(p, d) \/ HandleReceivedMessage(p, d)
===============================================================================

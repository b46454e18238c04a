------------------------------- MODULE Messages -------------------------------
(***************************************************************************)
(* The wire format of the shopping system.  A datagram is one JSON object; *)
(* here it is a record, so that j.contains(f) in the code is f \in DOMAIN  *)
(* m.  Only what the program's decisions depend on keeps its detail: the   *)
(* set of fields, the command, the request number, the peer, the item and  *)
(* the prices.  Addresses and ports are carried but never read.            *)
(*                                                                         *)
(* An operator marked Fault is used by no specification: it is the         *)
(* definition below it as a plausible bug would make it, there to show     *)
(* that a property fails when the code is broken that way.                 *)
(***************************************************************************)
EXTENDS Integers

CONSTANTS
    Peers,   \* the peers; a peer stands for its name and its ip:port
    Items,   \* item names
    Prices,  \* prices (doubles in the code: only their order matters)
    MaxRq    \* bound: no client counts requests past MaxRq

ASSUME PricesAssumption == Prices \subseteq Int
ASSUME MaxRqAssumption == MaxRq \in Nat

Rqs == 1 .. MaxRq

-------------------------------------------------------------------------------
(* The datagrams clients send. *)

RegisterMsg(p, r) ==
    [command |-> "REGISTER", rq |-> r, name |-> p,
     ip |-> p, udp_port |-> p, tcp_port |-> p]
DeregisterMsg(p, r) == [command |-> "DE_REGISTER", rq |-> r, name |-> p]
LookingForMsg(p, r, i, max) ==
    [command |-> "LOOKING_FOR", rq |-> r, name |-> p,
     item_name |-> i, description |-> i, max_price |-> max]
OfferMsg(p, r, i, price) ==
    [command |-> "OFFER", rq |-> r, name |-> p, item_name |-> i, price |-> price]
\* acceptOffer, refuseOffer and negotiateOffer fill in the same five fields.
TradeMsg(cmd, p, r, i, price) ==
    [command |-> cmd, rq |-> r, name |-> p, item_name |-> i, price |-> price]

TradeCommands == {"ACCEPT", "REFUSE", "NEGOTIATE"}

(* The datagrams the server sends.  REGISTER-DENIED names the request      *)
(* number "request_number", and NEGOTIATE has a max_price, no price and no *)
(* name: both as in the code.                                              *)

RegisteredMsg(r) == [command |-> "REGISTERED", rq |-> r]
DeniedMsg(r) == [command |-> "REGISTER-DENIED", request_number |-> r]
\* Fault: the description is left out.
SearchMsgBare(r, i) == [command |-> "SEARCH", rq |-> r, item_name |-> i]
SearchMsg(r, i) ==
    [command |-> "SEARCH", rq |-> r, item_name |-> i, description |-> i]
NotAvailableMsg(r, i, max) ==
    [command |-> "NOT_AVAILABLE", rq |-> r, item_name |-> i, price |-> max]
FoundMsg(r, i, price) ==
    [command |-> "FOUND", rq |-> r, item_name |-> i, price |-> price]
NegotiateMsg(r, i, max) ==
    [command |-> "NEGOTIATE", rq |-> r, item_name |-> i, max_price |-> max]

(* The sets of all of them, for the type invariants. *)

ClientMessages ==
    [command : {"REGISTER"}, rq : Rqs, name : Peers,
     ip : Peers, udp_port : Peers, tcp_port : Peers]
      \cup [command : {"DE_REGISTER"}, rq : Rqs, name : Peers]
      \cup [command : {"LOOKING_FOR"}, rq : Rqs, name : Peers,
            item_name : Items, description : Items, max_price : Prices]
      \cup [command : {"OFFER"} \cup TradeCommands, rq : Rqs, name : Peers,
            item_name : Items, price : Prices]

ServerMessages ==
    [command : {"REGISTERED"}, rq : Rqs]
      \cup [command : {"REGISTER-DENIED"}, request_number : Rqs]
      \cup [command : {"SEARCH"}, rq : Rqs, item_name : Items, description : Items]
      \cup [command : {"NOT_AVAILABLE", "FOUND"}, rq : Rqs,
            item_name : Items, price : Prices]
      \cup [command : {"NEGOTIATE"}, rq : Rqs, item_name : Items, max_price : Prices]

-------------------------------------------------------------------------------
(* MessageParser. *)

\* The keys of commandMap.  DE_REGISTER is not one of them.
KnownCommands ==
    {"REGISTER", "REGISTER-DENIED", "REGISTERED", "LOOKING_FOR", "SEARCH",
     "OFFER", "NOT_AVAILABLE", "NEGOTIATE", "ACCEPT", "FOUND", "REFUSE",
     "NOT_FOUND", "RESERVE", "CANCEL", "BUY"}

EventType(command) == IF command \in KnownCommands THEN command ELSE "UNKNOWN"

\* The fields the switch of parseMessage reads with j["..."].  Reading one that
\* is missing yields a null whose conversion throws: parseMessage returns nullptr.
ReadFields(type) ==
    CASE type = "REGISTER" -> {"ip", "udp_port", "tcp_port"}
      [] type = "LOOKING_FOR" -> {"item_name", "description", "max_price"}
      [] type = "SEARCH" -> {"item_name", "description"}
      [] type \in {"OFFER", "ACCEPT", "REFUSE"} -> {"item_name", "price"}
      [] type = "NEGOTIATE" -> {"item_name", "max_price"}
      [] type \in {"NOT_AVAILABLE", "NOT_FOUND", "FOUND"} -> {"item_name"}
      [] OTHER -> {}

\* The types validateCommandFields accepts, and the fields it wants of them.
ValidTypes ==
    {"REGISTER", "LOOKING_FOR", "SEARCH", "OFFER", "NEGOTIATE", "ACCEPT",
     "REFUSE", "NOT_AVAILABLE", "NOT_FOUND", "FOUND", "REGISTER-DENIED",
     "REGISTERED", "DE_REGISTER"}

ValidatedFields(type) ==
    CASE type = "REGISTER" -> {"ip", "udp_port", "tcp_port"}
      [] type = "LOOKING_FOR" -> {"item_name", "description", "max_price", "name"}
      [] type = "SEARCH" -> {"item_name", "description"}
      [] type \in {"OFFER", "NEGOTIATE", "ACCEPT", "REFUSE"} ->
           {"item_name", "price", "name"}
      [] type \in {"NOT_AVAILABLE", "NOT_FOUND", "FOUND"} -> {"item_name"}
      [] type = "DE_REGISTER" -> {"name"}
      [] OTHER -> {}

\* parseMessage returns an event, not nullptr.
Parses(m) ==
    LET type == EventType(m.command) IN
    /\ {"command", "rq"} \subseteq DOMAIN m
    /\ ReadFields(type) \subseteq DOMAIN m
    /\ type \in ValidTypes
    /\ ValidatedFields(type) \subseteq DOMAIN m
===============================================================================

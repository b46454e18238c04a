-------------------------------- MODULE Broker --------------------------------
(***************************************************************************)
(* What the server promises the peer that makes a request: it collects     *)
(* bids once, closes once, and then tells that peer the lowest of all the  *)
(* bids if that is within the limit, that there is none if nobody bid, and *)
(* nothing otherwise.  A request, or an answer, may get lost.              *)
(***************************************************************************)
EXTENDS Integers

CONSTANTS
    Requests,  \* the requests that may be made
    Prices     \* limits and bids

VARIABLES
    progress,  \* per request "idle", "asked", "collecting" or "closed"
    limit,     \* the most each request allows, 0 until it is made
    bids,      \* the prices bid for each request that collects
    answers    \* answers on their way: [request, price], 0 for no bid

vars == <<progress, limit, bids, answers>>

Init ==
    /\ progress = [q \in Requests |-> "idle"]
    /\ limit = [q \in Requests |-> 0]
    /\ bids = [q \in Requests |-> {}]
    /\ answers = {}

Moves(q, from, to) ==
    /\ progress[q] = from
    /\ progress' = [progress EXCEPT ![q] = to]

Ask(q) ==
    /\ Moves(q, "idle", "asked")
    /\ \E max \in Prices : limit' = [limit EXCEPT ![q] = max]
    /\ UNCHANGED <<bids, answers>>

Lose(q) == Moves(q, "asked", "closed") /\ UNCHANGED <<limit, bids, answers>>

Open(q) == Moves(q, "asked", "collecting") /\ UNCHANGED <<limit, bids, answers>>

Bid(q, price) ==
    /\ progress[q] = "collecting"
    /\ bids' = [bids EXCEPT ![q] = @ \cup {price}]
    /\ UNCHANGED <<progress, limit, answers>>

Answer(q, price) == [request |-> q, price |-> price]
Lowest(q) == CHOOSE b \in bids[q] : \A c \in bids[q] : b <= c

Close(q) ==
    /\ Moves(q, "collecting", "closed")
    /\ answers' = answers \cup (IF bids[q] = {} THEN {Answer(q, 0)}
                                ELSE IF Lowest(q) <= limit[q] THEN {Answer(q, Lowest(q))}
                                ELSE {})
    /\ bids' = [bids EXCEPT ![q] = {}]
    /\ UNCHANGED limit

Arrive(a) == answers' = answers \ {a} /\ UNCHANGED <<progress, limit, bids>>

Next ==
    \/ \E q \in Requests : \/ Ask(q) \/ Lose(q) \/ Open(q) \/ Close(q)
                           \/ \E price \in Prices : Bid(q, price)
    \/ \E a \in answers : Arrive(a)

Spec == Init /\ [][Next]_vars
===============================================================================

----------------------------- MODULE MCShopping -----------------------------
(***************************************************************************)
(* P2PShopping for TLC: who types what, and how many requests each makes.  *)
(***************************************************************************)
EXTENDS P2PShopping

CONSTANTS Buyers, Sellers, Leavers, Quitters, Busy, Limit, BusyLimit

MCCommands ==
    [p \in Peers |->
        {"register"}
          \cup (IF p \in Buyers THEN {"search"} ELSE {})
          \cup (IF p \in Sellers THEN {"add"} ELSE {})
          \cup (IF p \in Leavers THEN {"deregister"} ELSE {})
          \cup (IF p \in Quitters THEN {"quit", "end"} ELSE {})]

MCRqLimit == [p \in Peers |-> IF p \in Busy THEN BusyLimit ELSE Limit]

Symmetric == Permutations(Workers) \cup Permutations(TimerThreads)
===============================================================================

------------------------------ MODULE MCServer ------------------------------
(***************************************************************************)
(* OpenServer for TLC: the roles are given as sets of peers, and only the  *)
(* busy peers use more than one request number.                            *)
(***************************************************************************)
EXTENDS OpenServer

CONSTANTS Registrants, Leavers, Failing, Searchers, Sellers, Traders, Restarters, Busy

MCRoles ==
    [p \in Peers |->
        {op \in Operations :
            \/ op = "register" /\ p \in Registrants
            \/ op = "deregister" /\ p \in Leavers
            \/ op = "fail" /\ p \in Failing
            \/ op = "search" /\ p \in Searchers
            \/ op = "sell" /\ p \in Sellers
            \/ op = "trade" /\ p \in Traders
            \/ op = "restart" /\ p \in Restarters}]

MCRqLimit == [p \in Peers |-> IF p \in Busy THEN MaxRq ELSE 1]

\* Threads and items are interchangeable, and so are peers that play the same part.
Alike(p) == {q \in Peers : MCRoles[q] = MCRoles[p] /\ MCRqLimit[q] = MCRqLimit[p]}
PeerSymmetry == {f \in Permutations(Peers) : \A p \in Peers : f[p] \in Alike(p)}
Symmetric ==
    PeerSymmetry \cup Permutations(Items)
      \cup Permutations(Workers) \cup Permutations(TimerThreads)
===============================================================================

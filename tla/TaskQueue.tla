------------------------------- MODULE TaskQueue -------------------------------
(***************************************************************************)
(* What a pool of threads promises: tasks are begun in the order in which  *)
(* they were accepted, each one once, at most Size at a time; and a pool   *)
(* that is gone has finished all that it accepted.                         *)
(***************************************************************************)
EXTENDS Integers, Sequences, FiniteSets

CONSTANT Size  \* how many tasks may be under way at the same time

VARIABLES
    accepted,  \* how many tasks were accepted; the n-th one is task n
    waiting,   \* the tasks not begun yet, in order
    underWay,  \* the tasks begun and not finished
    open       \* whether tasks are accepted: "yes", "no", or "gone"

vars == <<accepted, waiting, underWay, open>>

Init == accepted = 0 /\ waiting = <<>> /\ underWay = {} /\ open = "yes"

Accept ==
    /\ open = "yes"
    /\ accepted' = accepted + 1
    /\ waiting' = Append(waiting, accepted')
    /\ UNCHANGED <<underWay, open>>

Begin ==
    /\ waiting # <<>>
    /\ Cardinality(underWay) < Size
    /\ waiting' = Tail(waiting)
    /\ underWay' = underWay \cup {Head(waiting)}
    /\ UNCHANGED <<accepted, open>>

Finish(n) ==
    /\ n \in underWay
    /\ underWay' = underWay \ {n}
    /\ UNCHANGED <<accepted, waiting, open>>

Close ==
    /\ open = "yes"
    /\ open' = "no"
    /\ UNCHANGED <<accepted, waiting, underWay>>

Release ==
    /\ open = "no" /\ waiting = <<>> /\ underWay = {}
    /\ open' = "gone"
    /\ UNCHANGED <<accepted, waiting, underWay>>

Next ==
    \/ Accept
    \/ Begin
    \/ \E n \in underWay : Finish(n)
    \/ Close
    \/ Release

Spec == Init /\ [][Next]_vars
===============================================================================

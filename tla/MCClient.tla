------------------------------ MODULE MCClient ------------------------------
(* OpenClient for TLC: the users type every command. *)
EXTENDS OpenClient

MCCommands == [p \in Peers |-> CommandNames]
MCRqLimit == [p \in Peers |-> MaxRq]
===============================================================================

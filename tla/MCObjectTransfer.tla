-------------------------- MODULE MCObjectTransfer --------------------------
(***************************************************************************)
(* ObjectTransfer for TLC: leases that are asked of Node 2, for inputs that *)
(* are produced elsewhere or, after a loss, on Node 2 itself.               *)
(***************************************************************************)
EXTENDS ObjectTransfer

MCTarget == [l \in Leases |-> 2]
MCInputs == [l \in Leases |-> IF l = "a" THEN <<"x", "y">> ELSE <<"x">>]
MCOneInput == [l \in Leases |-> <<"x">>]

\* Node 2 has room for one object less than there are.
MCCapacity == [n \in Nodes |-> IF n = 2 THEN 1 ELSE Cardinality(Objects)]
MCRoomy == [n \in Nodes |-> Cardinality(Objects)]
=============================================================================

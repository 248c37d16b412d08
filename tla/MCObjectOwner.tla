----------------------------- MODULE MCObjectOwner ----------------------------
(***************************************************************************)
(* A handle of the owner, and beside it: a Task of the owner with an       *)
(* attempt in process w1 on node n2; a container of process w1 that w2     *)
(* reads; a borrow of w2 that it passes to a Task of its own; a lineage    *)
(* hold.                                                                   *)
(***************************************************************************)
EXTENDS ObjectOwner

CONSTANT n1, n2

MCToken == {"local", "task", "attempt", "lineage", "box", "reader", "peer", "retained"}

MCKind ==
    [local |-> "local", task |-> "submitted", attempt |-> "borrow", lineage |-> "lineage",
     box |-> "contained", reader |-> "borrow", peer |-> "borrow", retained |-> "retained"]

MCSource ==
    [local |-> None, task |-> None, attempt |-> "task", lineage |-> None,
     box |-> None, reader |-> "box", peer |-> "local", retained |-> "peer"]

MCHolder ==
    [local |-> "owner", task |-> "owner", attempt |-> "w1", lineage |-> "owner",
     box |-> "w1", reader |-> "w2", peer |-> "w2", retained |-> "w2"]

MCHosts == [t \in MCToken |-> IF t = "task" THEN {n2} ELSE {}]

MCUses ==
    {[tokens |-> {"local", "task", "attempt"}, published |-> FALSE],
     [tokens |-> {"local", "box", "reader"}, published |-> TRUE],
     [tokens |-> {"local", "peer", "retained"}, published |-> TRUE],
     [tokens |-> {"local", "lineage"}, published |-> TRUE]}
=============================================================================

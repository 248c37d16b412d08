-------------------------- MODULE MCReconstruction --------------------------
(***************************************************************************)
(* Instances of Reconstruction: a chain of two Tasks, the first of which   *)
(* reads a foreign input, asked for by a local and by a remote get.        *)
(***************************************************************************)
EXTENDS Reconstruction

MCDeps == [t \in Tasks |-> {d \in Tasks : d + 1 = t}]
MCWants == [g \in Getters |-> IF g \in Remote THEN 1 ELSE Max(Tasks)]
=============================================================================

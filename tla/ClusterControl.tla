---------------------------- MODULE ClusterControl ----------------------------
(***************************************************************************)
(* The control plane of a cluster: membership, placement groups and Actors *)
(* together.  The handler of a Node death runs through the three: it       *)
(* commits the death, then fails the groups, then the Actors; the owner's  *)
(* Core that is told of the death marks its groups lost.                   *)
(***************************************************************************)
EXTENDS PlacementGroups, Actors

vars == <<deathVars, groupVars, actorVars>>

Init == DeathInit /\ GroupInit /\ ActorInit

\* A Node the processes of which exit, with the Actors' Workers on it; those are
\* reported by nobody.
Exits == ExitStep /\ UNCHANGED <<groupVars, actorVars>>

Membership ==
    /\ \/ FenceStep \/ InstallSnapshot \/ Certify \/ PublishView \/ EndTx
       \/ \E n \in Nodes : Observe(n) \/ ReportNodeDeath(n) \/ BeginTx(n) \/ Poll(n)
    /\ UNCHANGED <<groupVars, actorVars>>

\* CoreWorker.handle_node_death
OwnerHandles(n) == HandleDeath(n) /\ MarkLost(n) /\ UNCHANGED actorVars

Next ==
    \/ Exits \/ Membership \/ (\E n \in Nodes : OwnerHandles(n))
    \/ (GroupNext /\ UNCHANGED actorVars)
    \/ (ActorNext /\ UNCHANGED groupVars)

Spec == Init /\ [][Next]_vars
=============================================================================

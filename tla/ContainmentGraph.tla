-------------------------- MODULE ContainmentGraph --------------------------
(* Graphs of objects whose values contain references to other objects.      *)

Successors(E, v) == {e[2] : e \in {d \in E : d[1] = v}}

\* A finite graph has no cycle when every non-empty set of its vertices has a
\* member without an edge into the set.
Acyclic(V, E) ==
    \A S \in SUBSET V :
        S # {} => \E v \in S : \A w \in S : <<v, w>> \notin E
=============================================================================

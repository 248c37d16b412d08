---------------------------- MODULE CycleSearch -----------------------------
(***************************************************************************)
(* PublicationAuthority._would_cycle: the depth-first search that decides  *)
(* whether a new value's contained references close a cycle.  It is        *)
(* written with an explicit stack, so that the size of a graph is not       *)
(* bounded by the depth of Python calls: a vertex is pushed to be entered, *)
(* possibly several times before it is, and again to be left, and the      *)
(* children of a vertex are pushed in no particular order.                 *)
(***************************************************************************)
EXTENDS Naturals, Sequences, FiniteSets, ContainmentGraph

CONSTANT Vertices    \* the objects of the graph searched

ASSUME VerticesAssumption == IsFiniteSet(Vertices)

VARIABLES
    edges,      \* the containment edges searched (adjacency)
    roots,      \* vertices with an adjacency entry
    todo,       \* roots the outer loop has still to visit
    stack,      \* pairs <<vertex, "enter" or "leave">>
    done,       \* vertices whose descendants were all searched
    active,     \* vertices of the current path
    result      \* "searching", "cycle" (True) or "acyclic" (False)

searchVars == <<edges, roots, todo, stack, done, active, result>>

Entries == Vertices \X {"enter", "leave"}

Top == stack[Len(stack)]

Pop == SubSeq(stack, 1, Len(stack) - 1)

\* All orders in which a set of children can be pushed.
Orders(S) == {f \in [1 .. Cardinality(S) -> S] : \A v \in S : \E i \in DOMAIN f : f[i] = v}

Entering(order) == [i \in DOMAIN order |-> <<order[i], "enter">>]

\* The stack after entering its top vertex.
Expanded(order) == Append(Pop, <<Top[1], "leave">>) \o Entering(order)

SearchInit ==
    /\ edges \in SUBSET (Vertices \X Vertices)
    /\ roots \in SUBSET Vertices
    /\ \A e \in edges : e[1] \in roots
    /\ todo = roots
    /\ stack = <<>>
    /\ done = {}
    /\ active = {}
    /\ result = "searching"

\* for vertex in adjacency: a vertex already searched is skipped.
NextVertex(v) ==
    /\ stack = <<>>
    /\ todo' = todo \ {v}
    /\ stack' = IF v \in done THEN <<>> ELSE << <<v, "enter">> >>
    /\ UNCHANGED <<edges, roots, done, active, result>>

\* Mutant of Leave: the vertex stays on the path.
LeaveActive ==
    /\ Top[2] = "leave"
    /\ done' = done \cup {Top[1]}
    /\ stack' = Pop
    /\ UNCHANGED <<edges, roots, todo, active, result>>

\* An entry of the current path: every descendant was searched.
Leave ==
    /\ Top[2] = "leave"
    /\ active' = active \ {Top[1]}
    /\ done' = done \cup {Top[1]}
    /\ stack' = Pop
    /\ UNCHANGED <<edges, roots, todo, result>>

\* A vertex of the current path is reached again.
Found ==
    /\ Top[2] = "enter"
    /\ Top[1] \in active
    /\ result' = "cycle"
    /\ stack' = Pop
    /\ UNCHANGED <<edges, roots, todo, done, active>>

\* A vertex that was pushed more than once.
Skip ==
    /\ Top[2] = "enter"
    /\ Top[1] \in done \ active
    /\ stack' = Pop
    /\ UNCHANGED <<edges, roots, todo, done, active, result>>

Enter ==
    /\ Top[2] = "enter"
    /\ Top[1] \notin done \cup active
    /\ active' = active \cup {Top[1]}
    /\ \E order \in Orders(Successors(edges, Top[1])) :
          stack' = Expanded(order)
    /\ UNCHANGED <<edges, roots, todo, done, result>>

Exhausted ==
    /\ stack = <<>>
    /\ todo = {}
    /\ result' = "acyclic"
    /\ UNCHANGED <<edges, roots, todo, stack, done, active>>

SearchNext ==
    /\ result = "searching"
    /\ \/ \E v \in todo : NextVertex(v)
       \/ stack # <<>> /\ (Leave \/ Found \/ Skip \/ Enter)
       \/ Exhausted

SearchSpec == SearchInit /\ [][SearchNext]_searchVars

-----------------------------------------------------------------------------
SearchTypeOK ==
    /\ edges \in SUBSET (Vertices \X Vertices)
    /\ roots \in SUBSET Vertices
    /\ todo \in SUBSET roots
    /\ stack \in Seq(Entries)
    /\ done \in SUBSET Vertices
    /\ active \in SUBSET Vertices
    /\ result \in {"searching", "cycle", "acyclic"}

\* The search answers what PrepareGraph asks: a cycle is reported only if there
\* is one, and the graph is passed only if there is none.
Correct ==
    /\ result = "cycle" => ~Acyclic(Vertices, edges)
    /\ result = "acyclic" => Acyclic(Vertices, edges)

\* Why it does.  The path is what the leaving entries of the stack spell out; an
\* entry is a child of the path vertex closest below it; a child of a path
\* vertex is done or still waits above it; and what is done is closed under
\* containment and free of cycles.
OnPath(i) == stack[i][2] = "leave"

PathOnStack ==
    /\ \A i \in 1 .. Len(stack) : OnPath(i) => stack[i][1] \in active
    /\ \A v \in active : \E i \in 1 .. Len(stack) : stack[i] = <<v, "leave">>
    /\ \A i, j \in 1 .. Len(stack) :
          i < j /\ OnPath(i) /\ OnPath(j) => stack[i][1] # stack[j][1]

ChildOfPath ==
    \A i, j \in 1 .. Len(stack) :
        /\ i < j
        /\ OnPath(i)
        /\ \A k \in 1 .. Len(stack) : i < k /\ k < j => ~OnPath(k)
        => <<stack[i][1], stack[j][1]>> \in edges

ChildrenPending ==
    \A i \in 1 .. Len(stack) : OnPath(i) =>
        \A w \in Vertices : <<stack[i][1], w>> \in edges =>
            w \in done \/ \E j \in 1 .. Len(stack) : i < j /\ stack[j][1] = w

DoneClosed == \A v \in done, w \in Vertices : <<v, w>> \in edges => w \in done

RootsCovered ==
    \A v \in roots \ todo : v \in done \/ \E i \in 1 .. Len(stack) : stack[i][1] = v

SearchInvariant ==
    /\ SearchTypeOK
    /\ \A e \in edges : e[1] \in roots
    /\ result # "cycle" =>
          /\ active \cap done = {}
          /\ PathOnStack
          /\ ChildOfPath
          /\ ChildrenPending
          /\ DoneClosed
          /\ Acyclic(done, edges)
          /\ RootsCovered
    /\ Correct
=============================================================================

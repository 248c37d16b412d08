--------------------------- MODULE MCClusterControl ---------------------------
EXTENDS ClusterControl

CONSTANTS w1, w2      \* the Workers

\* Two Nodes, one of which may exit, and a Worker on each.  Group 1 packs two bundles on
\* one Node, group 2 spreads over both.  Actor 1 is the Driver's and may restart once, Actor 2
\* belongs to the Worker w2.
MCHome == [w \in Workers |-> IF w = w1 THEN 1 ELSE 2]
MCWidth == [g \in Groups |-> g]
MCDepth == [g \in Groups |-> 3 - g]
MCOwnerOf == [a \in Actors |-> IF a = 1 THEN Driver ELSE w2]
MCRestarts == [a \in Actors |-> 2 - a]
MCCallOf == [c \in Calls |-> 1]

Use(ns, gs, as, ws, e, l, s) ==
    [nodes |-> ns, groups |-> gs, actors |-> as, workers |-> ws, exits |-> e, lost |-> l, shutdown |-> s]

Two == {1, 2}

MCUses == {
    Use(Two, {2}, {}, {}, 1, 1, FALSE),
    Use(Two, {2}, {}, {}, 0, 1, TRUE),
    Use(Two, {1, 2}, {}, {}, 1, 0, FALSE),
    Use(Two, {}, {1}, {}, 1, 1, FALSE),
    Use(Two, {}, {1}, {}, 2, 0, FALSE),
    Use({1}, {}, {1}, {}, 1, 1, FALSE),
    Use(Two, {}, {2}, {w2}, 0, 1, FALSE),
    Use(Two, {}, {}, {w1}, 2, 0, FALSE),
    Use({1, 2, 3}, {}, {}, {}, 2, 0, FALSE)}
=============================================================================

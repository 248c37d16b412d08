---------------------------- MODULE ObjectEpochs ----------------------------
(***************************************************************************)
(* What the publication authority promises to the rest of mini-ray, with   *)
(* its requests and receipts left out: the executions of an object are     *)
(* epochs that open one after the other, in attempt order; only an open    *)
(* epoch can make its value visible; an epoch is revoked before it closes. *)
(***************************************************************************)
EXTENDS Naturals

CONSTANTS
    Epochs,     \* executions
    Object,     \* the object an execution produces
    Attempt     \* its attempt number

VARIABLES
    opened,     \* epochs that were admitted
    visible,    \* epochs whose value was committed
    revoked,    \* epochs that may no longer make progress
    finished    \* epochs that hold nothing any more

epochVars == <<opened, visible, revoked, finished>>

Init ==
    /\ opened = {}
    /\ visible = {}
    /\ revoked = {}
    /\ finished = {}

\* Epochs of an object are serialized, and attempts only grow.
Open(e) ==
    /\ e \notin opened \cup revoked
    /\ \A d \in opened : Object[d] = Object[e] => d \in finished /\ Attempt[d] < Attempt[e]
    /\ opened' = opened \cup {e}
    /\ UNCHANGED <<visible, revoked, finished>>

MakeVisible(e) ==
    /\ e \in opened \ (visible \cup revoked)
    /\ visible' = visible \cup {e}
    /\ UNCHANGED <<opened, revoked, finished>>

Revoke(e) ==
    /\ e \notin revoked
    /\ revoked' = revoked \cup {e}
    /\ UNCHANGED <<opened, visible, finished>>

Finish(e) ==
    /\ e \in revoked \ finished
    /\ finished' = finished \cup {e}
    /\ UNCHANGED <<opened, visible, revoked>>

Next == \E e \in Epochs : Open(e) \/ MakeVisible(e) \/ Revoke(e) \/ Finish(e)

Spec == Init /\ [][Next]_epochVars
=============================================================================

------------------------------ MODULE NodeDeaths ------------------------------
(***************************************************************************)
(* Membership: the exits of Nodes and Workers, what the GCS registers of   *)
(* them, and how the survivors and the owners come to know (control.py,    *)
(* owner_death_fence_registry.py, api.py, node_death_view.py, node.py,     *)
(* core.py).                                                               *)
(*                                                                         *)
(* The Driver sees a Node process exit and reports it.  The GCS commits    *)
(* the death in one critical section, then lets the placement groups and   *)
(* the Actors of the Node fail (modules PlacementGroups and Actors take    *)
(* those two parts of the handler), and answers whether every Actor owner  *)
(* knows.  When it says so the Driver installs the surviving membership on *)
(* every survivor, then publishes to each the certificate that all have,   *)
(* and only then tells the owners, its own Core first.                     *)
(*                                                                         *)
(* The death of a Worker fences what it owned: each live Node must delete  *)
(* its copies of the Worker's objects before the GCS schedules on it.      *)
(***************************************************************************)
EXTENDS Naturals, Sequences, FiniteSets

CONSTANTS
    Nodes,          \* numbered
    Workers,        \* Worker processes that own objects
    Home,           \* the Node of each
    Survivors,      \* Nodes that never exit
    Uses            \* what a behaviour may be about: the Nodes it starts with, the groups,
                    \* Actors and Workers it uses, whether it shuts down, and bounds on
                    \* the processes that exit by themselves and on the RPCs that fail

ASSUME NodeDeathsAssumption ==
    /\ Nodes \subseteq Nat /\ IsFiniteSet(Nodes) /\ Survivors \subseteq Nodes
    /\ Home \in [Workers -> Nodes]
    /\ \A u \in Uses : u.nodes \subseteq Nodes /\ u.workers \subseteq Workers /\ u.exits \in Nat /\ u.lost \in Nat

VARIABLES
    use,        \* what this behaviour is about
    up,         \* Node and Worker processes that run
    exits,      \* how many exited by themselves
    history,    \* the live Nodes of the registry, at each membership epoch
    handler,    \* the report_node_death handler of a Node: "idle", "groups", "actors"
    obs,        \* the Driver's observation of an exit: "idle", "report", "wait", "done"
    latest,     \* the newest membership epoch the Driver knows
    recorded,   \* deaths the Driver has a converged report of
    tx,         \* the Driver's death transaction
    installed,  \* the membership epoch each Node has installed
    view,       \* the certificate each Node retains: epoch and deaths
    notified,   \* deaths the Driver's Core has handled
    seen,       \* deaths the owners embedded in a Node's Workers have handled
    gone,       \* Workers whose death the GCS has committed
    effects,    \* fences the GCS has yet to see complete: <<worker, node>>
    fences,     \* fences installed at Nodes
    copies,     \* objects of a Worker stored at a Node
    pins,       \* those an execution lease holds
    sweep       \* the fence the GCS is driving

driverVars == <<obs, latest, recorded, tx, notified>>
nodeVars == <<installed, view, seen>>
fenceVars == <<gone, effects, fences, copies, pins, sweep>>
processVars == <<use, up, exits>>
deathVars == <<processVars, history, handler, driverVars, nodeVars, fenceVars>>

NoTx == [by |-> 0, step |-> "none", epoch |-> 0, todo |-> {}, deaths |-> {}]
NoView == [epoch |-> 0, deaths |-> {}]
NoSweep == <<>>

Epoch == Len(history)
live == history[Epoch]
\* The epoch at which a Node left the registry.
DeathEpoch(n) == CHOOSE e \in 2..Epoch : n \in history[e - 1] \ history[e]
Dead == use.nodes \ live
\* cleanup_safe_node_ids, scheduling_snapshot: no fence of the Node is pending.
Visible == {n \in live : \A w \in Workers : <<w, n>> \notin effects}

DeathInit ==
    /\ use \in Uses /\ up = use.nodes \cup use.workers /\ exits = 0
    /\ history = <<use.nodes>> /\ handler = [n \in Nodes |-> "idle"]
    /\ obs = [n \in Nodes |-> "idle"] /\ latest = 1 /\ recorded = {} /\ tx = NoTx
    /\ installed = [n \in Nodes |-> 1]
    /\ view = [n \in Nodes |-> NoView] /\ seen = [n \in Nodes |-> {}]
    /\ notified = {}
    /\ gone = {} /\ effects = {} /\ fences = {} /\ copies = {} /\ pins = {} /\ sweep = NoSweep

-----------------------------------------------------------------------------
(* Exits *)

\* A Node takes its Workers with it.
NodeExit(n) ==
    /\ n \in up \ Survivors /\ exits < use.exits
    /\ up' = up \ ({n} \cup {w \in Workers : Home[w] = n})
    /\ exits' = exits + 1
    /\ UNCHANGED <<use, history, handler, driverVars, nodeVars, fenceVars>>

WorkerExit(w) ==
    /\ w \in up /\ exits < use.exits
    /\ up' = up \ {w} /\ exits' = exits + 1
    /\ UNCHANGED <<use, history, handler, driverVars, nodeVars, fenceVars>>

\* OwnerDeathFenceRegistry.commit_owner_death, for every live Node, then
\* mark_node_dead for the Node that left (Nodes that stay: ns).
CommitOwners(ws, ns) ==
    /\ gone' = gone \cup ws
    /\ effects' = {e \in effects \cup ((ws \ gone) \X ns) : e[2] \in ns}

\* report_worker_death: the Node of the Worker reports until it is answered.
ReportWorkerDeath(w) ==
    /\ w \in use.workers \ (up \cup gone) /\ Home[w] \in up
    /\ CommitOwners({w}, live)
    /\ UNCHANGED <<processVars, history, handler, driverVars, nodeVars, fences, copies, pins, sweep>>

-----------------------------------------------------------------------------
(* The report of a Node death *)

Observe(n) ==
    /\ obs[n] = "idle" /\ n \in use.nodes \ up
    /\ obs' = [obs EXCEPT ![n] = "report"]
    /\ UNCHANGED <<processVars, history, handler, latest, recorded, tx, notified, nodeVars, fenceVars>>

\* Under the owner fence lock: the registry, the Workers of the Node, the fences.
ReportNodeDeath(n) ==
    /\ obs[n] = "report" /\ handler[n] = "idle"
    /\ history' = IF n \in live THEN Append(history, live \ {n}) ELSE history
    /\ CommitOwners({w \in use.workers : Home[w] = n}, live \ {n})
    /\ handler' = [handler EXCEPT ![n] = "groups"]
    /\ UNCHANGED <<processVars, driverVars, nodeVars, fences, copies, pins, sweep>>

\* The answer: the death's own membership epoch, and whether every owner of a
\* failed Actor knows.  It may be lost; the Driver reports again.
Answer(n, converged) ==
    /\ handler[n] = "actors"
    /\ handler' = [handler EXCEPT ![n] = "idle"]
    /\ \/ /\ converged /\ obs[n] = "report"
          /\ obs' = [obs EXCEPT ![n] = "wait"]
          /\ recorded' = recorded \cup {n}
          /\ latest' = IF DeathEpoch(n) > latest THEN DeathEpoch(n) ELSE latest
       \/ /\ ~converged
          /\ UNCHANGED <<obs, recorded, latest>>
    /\ UNCHANGED <<processVars, history, tx, notified, nodeVars, fenceVars>>

-----------------------------------------------------------------------------
(* The Driver's death transaction, one at a time *)

txRest == <<processVars, history, handler, latest, recorded, fenceVars>>

\* It begins when the latest membership names no exited process.
BeginTx(n) ==
    /\ obs[n] = "wait" /\ tx = NoTx
    /\ history[latest] \subseteq up
    /\ tx' = [by |-> n, step |-> "install", epoch |-> latest, todo |-> history[latest], deaths |-> {}]
    /\ UNCHANGED <<txRest, obs, notified, nodeVars>>

Lowest(S) == CHOOSE m \in S : \A k \in S : m <= k

Abandon == tx' = NoTx /\ UNCHANGED <<obs, notified, nodeVars>>

\* An error ends the observation, which starts again.
Fail == tx' = NoTx /\ obs' = [obs EXCEPT ![tx.by] = "report"] /\ UNCHANGED <<notified, nodeVars>>

\* _handle_install_cluster_snapshot
Installs(m, epoch) == epoch >= installed[m] /\ m \in history[epoch]

\* Mutant of InstallSnapshot: a survivor that has exited is passed over.
InstallSkippingExited ==
    /\ tx.step = "install" /\ tx.todo # {}
    /\ LET m == Lowest(tx.todo) IN
       /\ installed' = IF m \in up THEN [installed EXCEPT ![m] = tx.epoch] ELSE installed
       /\ tx' = [tx EXCEPT !.todo = @ \ {m}]
       /\ UNCHANGED <<obs, notified, view, seen>>
    /\ UNCHANGED txRest

\* _install_recovery_snapshot, one survivor: superseded, exited, acknowledged
\* or refused.  An answer may be lost, and the request is sent again.
InstallSnapshot ==
    /\ tx.step = "install" /\ tx.todo # {}
    /\ LET m == Lowest(tx.todo) IN
       IF latest > tx.epoch \/ m \notin up THEN Abandon
       ELSE IF ~Installs(m, tx.epoch) THEN Fail
       ELSE /\ installed' = [installed EXCEPT ![m] = tx.epoch]
            /\ tx' \in {tx, [tx EXCEPT !.todo = @ \ {m}]}
            /\ UNCHANGED <<obs, notified, view, seen>>
    /\ UNCHANGED txRest

\* Every survivor has the snapshot: freeze the deaths to certify.
Certify ==
    /\ tx.step = "install" /\ tx.todo = {}
    /\ IF latest # tx.epoch THEN Abandon
       ELSE /\ tx' = [tx EXCEPT !.step = "publish", !.todo = history[tx.epoch], !.deaths = recorded]
            /\ UNCHANGED <<obs, notified, nodeVars>>
    /\ UNCHANGED txRest

\* InstalledNodeDeathView.validate_successor
Succeeds(v, old) ==
    \/ old = NoView
    \/ /\ v.epoch >= old.epoch /\ old.deaths \subseteq v.deaths
       /\ \A n \in history[old.epoch] \ history[v.epoch] : n \in v.deaths

\* _publish_installed_node_deaths, one survivor.  A refusal, or a survivor that
\* does not answer, is retried to a deadline.
PublishView ==
    /\ tx.step = "publish" /\ tx.todo # {}
    /\ LET m == Lowest(tx.todo)
           v == [epoch |-> tx.epoch, deaths |-> tx.deaths] IN
       IF latest # tx.epoch THEN Abandon
       ELSE IF m \notin up \/ installed[m] # tx.epoch \/ ~Succeeds(v, view[m]) THEN Fail
       ELSE /\ view' = [view EXCEPT ![m] = v]
            /\ tx' \in {tx, [tx EXCEPT !.todo = @ \ {m}]}
            /\ UNCHANGED <<obs, notified, installed, seen>>
    /\ UNCHANGED txRest

\* The Driver's Core handles the next death, by death epoch; CoreWorker.handle_node_death.
HandleDeath(n) ==
    /\ tx.step \in {"publish", "handle"} /\ tx.todo = {}
    /\ n \in tx.deaths \ notified
    /\ \A m \in tx.deaths \ notified : DeathEpoch(n) <= DeathEpoch(m)
    /\ notified' = notified \cup {n}
    /\ tx' = [tx EXCEPT !.step = "handle"]
    /\ UNCHANGED <<txRest, obs, nodeVars>>

EndTx ==
    /\ tx.step \in {"publish", "handle"} /\ tx.todo = {} /\ tx.deaths \subseteq notified
    /\ tx' = NoTx /\ obs' = [obs EXCEPT ![tx.by] = "done"]
    /\ UNCHANGED <<txRest, notified, nodeVars>>

\* The owners of a Node's Workers poll it for its certificate.
Poll(m) ==
    /\ m \in up /\ view[m].deaths # seen[m]
    /\ seen' = [seen EXCEPT ![m] = view[m].deaths]
    /\ UNCHANGED <<processVars, history, handler, driverVars, installed, view, fenceVars>>

-----------------------------------------------------------------------------
(* Owner fences *)

fenceRest == <<processVars, history, handler, driverVars, nodeVars, gone>>

\* A pull, or a Task of the owner, seals a copy: never behind the fence.
Seal(w, m) ==
    /\ m \in up /\ <<w, m>> \notin fences \cup copies
    /\ copies' = copies \cup {<<w, m>>}
    /\ UNCHANGED <<fenceRest, effects, fences, pins, sweep>>

Pin(w, m) ==
    /\ m \in up /\ <<w, m>> \in copies \ (fences \cup pins)
    /\ pins' = pins \cup {<<w, m>>}
    /\ UNCHANGED <<fenceRest, effects, fences, copies, sweep>>

Unpin(w, m) ==
    /\ m \in up /\ <<w, m>> \in pins
    /\ pins' = pins \ {<<w, m>>}
    /\ UNCHANGED <<fenceRest, effects, fences, copies, sweep>>

\* Mutant of FenceFirst: the fence is installed with the sweep, not before it.
FenceLate(w, m) ==
    /\ sweep = NoSweep /\ <<w, m>> \in effects /\ m \in up
    /\ sweep' = <<w, m>>
    /\ UNCHANGED <<fenceRest, effects, fences, copies, pins>>

\* _handle_install_owner_death_fence, its first critical section.
FenceFirst(w, m) ==
    /\ sweep = NoSweep /\ <<w, m>> \in effects /\ m \in up
    /\ sweep' = <<w, m>> /\ fences' = fences \cup {<<w, m>>}
    /\ UNCHANGED <<fenceRest, effects, copies, pins>>

\* Its second one, under the locks of the objects: delete what no lease pins;
\* the GCS acknowledges a complete sweep whose answer arrives.
Sweep ==
    /\ sweep # NoSweep
    /\ LET swept == sweep[2] \in up /\ sweep \notin pins IN
       /\ copies' = IF swept THEN copies \ {sweep} ELSE copies
       /\ effects' \in {effects, IF swept THEN effects \ {sweep} ELSE effects}
    /\ sweep' = NoSweep
    /\ UNCHANGED <<fenceRest, fences, pins>>

-----------------------------------------------------------------------------
ExitStep == (\E n \in Nodes : NodeExit(n)) \/ (\E w \in Workers : WorkerExit(w))

FenceStep ==
    \/ \E w \in Workers : ReportWorkerDeath(w)
    \/ \E w \in use.workers, m \in Nodes : Seal(w, m) \/ Pin(w, m) \/ Unpin(w, m) \/ FenceFirst(w, m)
    \/ Sweep

TxStep == InstallSnapshot \/ Certify \/ PublishView \/ EndTx \/ \E n \in Nodes : HandleDeath(n)

DriverStep ==
    TxStep \/ \E n \in Nodes : Observe(n) \/ ReportNodeDeath(n) \/ BeginTx(n) \/ Poll(n)

\* A step of this module; the parts of the handler of a Node death that belong to
\* the placement groups and the Actors are theirs.
DeathNext == ExitStep \/ FenceStep \/ DriverStep

-----------------------------------------------------------------------------
DeathTypeOK ==
    /\ up \subseteq use.nodes \cup use.workers /\ exits \in 0..use.exits
    /\ history \in Seq(SUBSET Nodes) /\ handler \in [Nodes -> {"idle", "groups", "actors"}]
    /\ obs \in [Nodes -> {"idle", "report", "wait", "done"}]
    /\ latest \in 1..Epoch /\ recorded \subseteq Dead /\ notified \subseteq recorded
    /\ tx \in [by : Nodes \cup {0}, step : {"none", "install", "publish", "handle"},
               epoch : 0..Epoch, todo : SUBSET Nodes, deaths : SUBSET Dead]
    /\ installed \in [Nodes -> 1..Epoch]
    /\ view \in [Nodes -> [epoch : 0..Epoch, deaths : SUBSET Dead]]
    /\ seen \in [Nodes -> SUBSET Dead]
    /\ gone \subseteq Workers
    /\ \A s \in {effects, fences, copies, pins} : s \subseteq Workers \X Nodes
    /\ sweep \in (Workers \X Nodes) \cup {NoSweep}

\* No owner, neither the Driver's Core nor one embedded in a Worker, acts on the
\* death of a Node while a surviving Node still has it in its membership: it would
\* rebuild what that Node still pulls from, or schedule onto, the dead one
\* (api.py _observe_managed_node_exit, core.py handle_node_death).
SurvivorsKnowFirst ==
    /\ DeathTypeOK
    /\ \A n \in notified \cup UNION {seen[m] : m \in Nodes} : \A m \in live :
          installed[m] >= DeathEpoch(n)

\* A Node the GCS schedules on holds no copy of an object whose owner is dead, and
\* never will: neither a lease's pin nor a pull under way brings one back
\* (owner_death_fence_registry.py, node.py _handle_install_owner_death_fence).
NoOrphansWhereScheduled ==
    \A w \in gone, m \in Visible : m \in up => <<w, m>> \notin copies
=============================================================================

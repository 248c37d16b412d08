--------------------------- MODULE PlacementGroups ---------------------------
(***************************************************************************)
(* Placement groups: the two-phase reservation the GCS drives over the     *)
(* Nodes of a plan, the Nodes' reservation ledgers, and the owner          *)
(* (control.py, placement_group_runtime.py, placement.py, node.py,         *)
(* core.py).                                                               *)
(*                                                                         *)
(* Each group has a lock in the GCS, held through a create, a removal, a   *)
(* Node death or a shutdown round, with the RPCs it makes.  An RPC is one  *)
(* step: the Node's handler and what the GCS makes of its answer.  It may  *)
(* also be lost, or lose its answer, or be given up and arrive later.      *)
(* A Task runs in the reservation as a child lease of the Node.            *)
(***************************************************************************)
EXTENDS NodeDeaths, Functions

CONSTANTS
    Groups,         \* placement groups, numbered
    Width, Depth,   \* Nodes of a plan, and what it reserves on each: STRICT_PACK has
                    \* width 1, STRICT_SPREAD depth 1
    Capacity        \* of a Node

ASSUME PlacementGroupsAssumption ==
    /\ Groups \subseteq Nat /\ IsFiniteSet(Groups)
    /\ \A u \in Uses : u.groups \subseteq Groups /\ u.shutdown \in BOOLEAN
    /\ Width \in [Groups -> Nat \ {0}] /\ Depth \in [Groups -> Nat \ {0}]
    /\ Capacity \in Nat

VARIABLES
    phase,      \* the GCS record of each group
    plan,       \* its participants
    prepared, committed, aborted,   \* the progress of each, aborted for a dead one too
    known,      \* groups whose request the GCS has admitted
    closed,     \* admission is closed, for shutdown
    by,         \* who holds the lock of a group
    offer,      \* the scheduling snapshot a create plans on: Nodes that fit, and could
    todo,       \* participants the present round of its drive has yet to try
    listed,     \* the groups the handler of a Node death found, and has yet to lock
    held,       \* those it has locked
    round,      \* groups the present shutdown round has yet to clean
    reported,   \* the availability each Node last reported
    reserved,   \* a Node's reservation: "none", "PREPARED", "COMMITTED", "REMOVING", "ABORTED"
    child,      \* whether a Task runs in it
    late,       \* requests given up by the GCS that may still arrive: <<kind, g, n>>
    lostRpc,    \* how many RPCs failed
    own,        \* the group at its owner
    calls,      \* its requests under way: <<kind, g>>
    answer      \* the last answer it has not yet read

recordVars == <<phase, plan, prepared, committed, aborted>>
lockVars == <<by, offer, todo>>
ledgerVars == <<reserved, child>>
faultVars == <<late, lostRpc>>
ownerVars == <<own, calls, answer>>
controlVars == <<known, closed, listed, held, round>>
groupVars == <<recordVars, lockVars, ledgerVars, faultVars, ownerVars, controlVars, reported>>

Active == {"PREPARING", "COMMITTING", "ABORTING", "LOST", "REMOVING"}
Cleanup == {"ABORTING", "LOST", "REMOVING"}
Terminal == {"INFEASIBLE", "REMOVED"}
Kind(ph) == CASE ph = "PREPARING" -> "prepare" [] ph = "COMMITTING" -> "commit" [] OTHER -> "abort"

NoOffer == [fit |-> {}, could |-> {}]

GroupInit ==
    /\ phase = [g \in Groups |-> "none"] /\ plan = [g \in Groups |-> {}]
    /\ prepared = plan /\ committed = plan /\ aborted = plan
    /\ known = {} /\ closed = FALSE
    /\ by = [g \in Groups |-> "free"] /\ offer = [g \in Groups |-> NoOffer] /\ todo = plan
    /\ listed = [n \in Nodes |-> {}] /\ held = listed /\ round = {}
    /\ reported = [n \in Nodes |-> Capacity]
    /\ reserved = [n \in Nodes |-> [g \in Groups |-> "none"]]
    /\ child = {} /\ late = {} /\ lostRpc = 0
    /\ own = [g \in Groups |-> "new"] /\ calls = {} /\ answer = [g \in Groups |-> "none"]

-----------------------------------------------------------------------------
(* A Node: BundleReservationLedger *)

Holding == {"PREPARED", "COMMITTED", "REMOVING"}

Free(n) ==
    Capacity - SumFunctionOnSet(Depth, {g \in Groups : reserved[n][g] \in Holding})

\* What a request makes of the reservation.
After(kind, g, n) ==
    LET r == reserved[n][g] IN
    CASE kind = "prepare" ->
            IF r # "none" THEN r ELSE IF Free(n) >= Depth[g] THEN "PREPARED" ELSE "ABORTED"
      [] kind = "commit" -> IF r = "PREPARED" THEN "COMMITTED" ELSE r
      [] OTHER ->
            IF r \in {"none", "PREPARED", "ABORTED"} THEN "ABORTED"
            ELSE IF <<n, g>> \in child THEN "REMOVING" ELSE "ABORTED"

\* accepted /\ applied; what is accepted without being applied is an abort of a
\* reservation in use.
Applied(kind, r) ==
    CASE kind = "prepare" -> r # "ABORTED"
      [] kind = "commit" -> r = "COMMITTED"
      [] OTHER -> r = "ABORTED"

Serve(kind, g, n) == reserved' = [reserved EXCEPT ![n][g] = After(kind, g, n)]

\* A lease is granted only from a committed reservation.
StartChild(n, g) ==
    /\ n \in up /\ reserved[n][g] = "COMMITTED" /\ <<n, g>> \notin child /\ own[g] = "CREATED"
    /\ child' = child \cup {<<n, g>>}
    /\ UNCHANGED <<deathVars, recordVars, lockVars, reserved, faultVars, ownerVars, controlVars, reported>>

\* Its end frees a reservation that is being removed: _finalize_placement_group.
EndChild(n, g) ==
    /\ n \in up /\ <<n, g>> \in child
    /\ child' = child \ {<<n, g>>}
    /\ reserved' = [reserved EXCEPT ![n][g] = IF @ = "REMOVING" THEN "ABORTED" ELSE @]
    /\ UNCHANGED <<deathVars, recordVars, lockVars, faultVars, ownerVars, controlVars, reported>>

\* update_node_resources; an older report that arrives later is dropped.
ReportResources(n) ==
    /\ n \in up \cap live /\ reported[n] # Free(n)
    /\ reported' = [reported EXCEPT ![n] = Free(n)]
    /\ UNCHANGED <<deathVars, recordVars, lockVars, ledgerVars, faultVars, ownerVars, controlVars>>

ServeLate(m) ==
    /\ m \in late /\ m[3] \in up
    /\ Serve(m[1], m[2], m[3]) /\ late' = late \ {m}
    /\ UNCHANGED <<deathVars, recordVars, lockVars, child, lostRpc, ownerVars, controlVars, reported>>

-----------------------------------------------------------------------------
(* The GCS: PlacementGroupControlCoordinator *)

rest == <<deathVars, controlVars, reported>>

\* PlacementGroupCoordinator.next_operations
Ops(g, ph) ==
    CASE ph = "PREPARING" -> plan[g] \ prepared[g]
      [] ph = "COMMITTING" -> plan[g] \ committed[g]
      [] ph \in Cleanup -> plan[g] \ aborted[g]
      [] OTHER -> {}

\* PlacementPlanner.plan over Nodes that each have what a bundle set asks for.
Plans(g, S) == {P \in SUBSET S : Cardinality(P) = Width[g]}

\* create, as far as the lock and the admission; a request whose group still has
\* to be planned, or planned again, goes on to Plan.
CreateEnter(g) ==
    /\ <<"create", g>> \in calls /\ by[g] = "free"
    /\ calls' = calls \ {<<"create", g>>}
    /\ IF g \notin known /\ closed
       THEN /\ answer' = [answer EXCEPT ![g] = "REMOVED"]
            /\ UNCHANGED <<known, lockVars>>
       ELSE /\ known' = known \cup {g}
            /\ by' = [by EXCEPT ![g] = IF phase[g] = "none" \/ (phase[g] = "PENDING" /\ ~closed)
                                       THEN "plan" ELSE "create"]
            /\ todo' = [todo EXCEPT ![g] = Ops(g, phase[g])]
            /\ UNCHANGED <<offer, answer>>
    /\ UNCHANGED <<deathVars, recordVars, ledgerVars, faultVars, own, closed, listed, held, round, reported>>

\* NodeRegistry.scheduling_snapshot: live Nodes without a pending owner fence.
TakeSnapshot(g) ==
    /\ by[g] = "plan" /\ by' = [by EXCEPT ![g] = "snapshot"]
    /\ offer' = [offer EXCEPT ![g] = [fit |-> {n \in Visible : reported[n] >= Depth[g]},
                                     could |-> {n \in Visible : Capacity >= Depth[g]}]]
    /\ UNCHANGED <<rest, recordVars, todo, ledgerVars, faultVars, ownerVars>>

\* PlacementGroupCoordinator.create and retry_pending, on that snapshot.
Plan(g) ==
    /\ by[g] = "snapshot" /\ by' = [by EXCEPT ![g] = "create"]
    /\ offer' = [offer EXCEPT ![g] = NoOffer]
    /\ \/ \E S \in Plans(g, offer[g].fit) :
            /\ phase' = [phase EXCEPT ![g] = "PREPARING"]
            /\ plan' = [plan EXCEPT ![g] = S]
            /\ todo' = [todo EXCEPT ![g] = S]
       \/ /\ Plans(g, offer[g].fit) = {}
          /\ phase' = [phase EXCEPT ![g] = IF Plans(g, offer[g].could) = {} THEN "INFEASIBLE" ELSE "PENDING"]
          /\ UNCHANGED <<plan, todo>>
    /\ UNCHANGED <<rest, prepared, committed, aborted, ledgerVars, faultVars, ownerVars>>

\* remove, as far as the drive.
RemoveEnter(g) ==
    /\ <<"remove", g>> \in calls /\ by[g] = "free"
    /\ calls' = calls \ {<<"remove", g>>}
    /\ IF phase[g] \in {"CREATED", "REMOVING"}
       THEN /\ phase' = [phase EXCEPT ![g] = "REMOVING"]
            /\ by' = [by EXCEPT ![g] = "remove"]
            /\ todo' = [todo EXCEPT ![g] = Ops(g, "REMOVING")]
            /\ UNCHANGED <<offer, answer>>
       ELSE /\ answer' = [answer EXCEPT ![g] = phase[g]]
            /\ UNCHANGED <<phase, lockVars>>
    /\ UNCHANGED <<rest, plan, prepared, committed, aborted, ledgerVars, faultVars, own>>

\* One operation of the drive.  A Node death drives its groups in turn.
Turn(g) ==
    /\ todo[g] # {} /\ by[g] \notin {"plan", "snapshot"}
    /\ \A n \in Nodes : g \in held[n] => \A h \in held[n] : todo[h] # {} => g <= h

\* Mutant of Reduce: the group is created once all its participants are prepared.
ReduceEarly(g, n) ==
    /\ CASE phase[g] = "PREPARING" ->
                /\ prepared' = [prepared EXCEPT ![g] = @ \cup {n}]
                /\ phase' = [phase EXCEPT ![g] = IF prepared'[g] = plan[g] THEN "CREATED" ELSE @]
                /\ UNCHANGED <<committed, aborted>>
         [] OTHER ->
                /\ aborted' = [aborted EXCEPT ![g] = @ \cup {n}]
                /\ phase' = [phase EXCEPT ![g] =
                       IF @ # "LOST" /\ aborted'[g] = plan[g] THEN "REMOVED" ELSE @]
                /\ UNCHANGED <<prepared, committed>>
    /\ UNCHANGED plan

\* apply_reply of an operation that was applied.
Reduce(g, n) ==
    /\ CASE phase[g] = "PREPARING" ->
                /\ prepared' = [prepared EXCEPT ![g] = @ \cup {n}]
                /\ phase' = [phase EXCEPT ![g] = IF prepared'[g] = plan[g] THEN "COMMITTING" ELSE @]
                /\ UNCHANGED <<committed, aborted>>
         [] phase[g] = "COMMITTING" ->
                /\ committed' = [committed EXCEPT ![g] = @ \cup {n}]
                /\ phase' = [phase EXCEPT ![g] = IF committed'[g] = plan[g] THEN "CREATED" ELSE @]
                /\ UNCHANGED <<prepared, aborted>>
         [] OTHER ->
                /\ aborted' = [aborted EXCEPT ![g] = @ \cup {n}]
                /\ phase' = [phase EXCEPT ![g] =
                       IF @ # "LOST" /\ aborted'[g] = plan[g] THEN "REMOVED" ELSE @]
                /\ UNCHANGED <<prepared, committed>>
    /\ UNCHANGED plan

\* The round goes on with the next operation, or starts again in a new phase.
Continue(g, n) ==
    todo' = [todo EXCEPT ![g] =
        IF phase'[g] = phase[g] THEN @ \ {n}
        ELSE CASE phase'[g] = "COMMITTING" -> plan[g] \ committed[g]
               [] phase'[g] = "ABORTING" -> plan[g] \ aborted[g]
               [] OTHER -> {}]

\* An operation unresolved, or not applied: a clean-up round tries the others,
\* a prepare or a commit waits for a replay.
Unresolved(g, n) ==
    /\ todo' = [todo EXCEPT ![g] = IF phase[g] \in Cleanup THEN @ \ {n} ELSE {}]
    /\ UNCHANGED recordVars

Drive(g, n) ==
    LET kind == Kind(phase[g]) IN
    /\ Turn(g) /\ n = Lowest(todo[g]) /\ n \in live \cap up
    /\ Serve(kind, g, n)
    /\ IF Applied(kind, After(kind, g, n)) THEN Reduce(g, n) /\ Continue(g, n)
       ELSE IF kind = "abort" THEN Unresolved(g, n)
       ELSE /\ phase' = [phase EXCEPT ![g] = "ABORTING"] /\ Continue(g, n)
            /\ UNCHANGED <<plan, prepared, committed, aborted>>
    /\ UNCHANGED <<rest, by, offer, child, faultVars, ownerVars>>

\* The RPC fails: never sent, served without its answer arriving, or still under way.
DriveFails(g, n) ==
    LET kind == Kind(phase[g]) IN
    /\ Turn(g) /\ n = Lowest(todo[g])
    /\ \/ (n \notin live \cap up /\ UNCHANGED <<reserved, faultVars>>)
       \/ /\ n \in live \cap up /\ lostRpc < use.lost /\ lostRpc' = lostRpc + 1
          /\ \/ Serve(kind, g, n) /\ UNCHANGED late
             \/ late' = late \cup {<<kind, g, n>>} /\ UNCHANGED reserved
    /\ Unresolved(g, n)
    /\ UNCHANGED <<rest, by, offer, child, ownerVars>>

\* The end of create and of remove: the lock is released and the phase answered.
\* The owner may have given up on the answer.
Finish(g) ==
    /\ by[g] \in {"create", "remove"} /\ todo[g] = {}
    /\ by' = [by EXCEPT ![g] = "free"]
    /\ answer' \in {answer, [answer EXCEPT ![g] = phase[g]]}
    /\ UNCHANGED <<rest, recordVars, offer, todo, ledgerVars, faultVars, own, calls>>

-----------------------------------------------------------------------------
(* A Node death: the second part of report_node_death *)

failRest == <<processVars, history, driverVars, nodeVars, fenceVars, ledgerVars, faultVars,
              ownerVars, known, closed, round, reported>>

ListGroups(n) ==
    /\ handler[n] = "groups" /\ listed[n] \cup held[n] = {}
    /\ listed' = [listed EXCEPT ![n] = known]
    /\ handler' = [handler EXCEPT ![n] = IF known = {} THEN "actors" ELSE @]
    /\ UNCHANGED <<failRest, recordVars, lockVars, held>>

Affected(g, n) == n \in plan[g] /\ phase[g] \in Active \cup {"CREATED"}

\* The locks are taken in order; behind the last one the death is reduced over all.
LockGroup(n) ==
    /\ handler[n] = "groups" /\ listed[n] # {}
    /\ LET g == Lowest(listed[n]) IN
       /\ by[g] = "free"
       /\ by' = [by EXCEPT ![g] = "death"]
       /\ held' = [held EXCEPT ![n] = @ \cup {g}]
       /\ listed' = [listed EXCEPT ![n] = @ \ {g}]
       /\ UNCHANGED offer
       /\ IF listed'[n] # {} THEN UNCHANGED <<recordVars, todo>>
          ELSE /\ aborted' = [h \in Groups |->
                    IF Affected(h, n) THEN aborted[h] \cup {n} ELSE aborted[h]]
               /\ phase' = [h \in Groups |->
                    IF ~Affected(h, n) THEN phase[h]
                    ELSE IF phase[h] \in {"PREPARING", "COMMITTING", "CREATED"} THEN "LOST"
                    ELSE IF phase[h] # "LOST" /\ aborted'[h] = plan[h] THEN "REMOVED" ELSE phase[h]]
               /\ todo' = [h \in Groups |->
                    IF h \in held'[n] /\ Affected(h, n) /\ phase'[h] \in Cleanup
                    THEN plan[h] \ aborted'[h] ELSE todo[h]]
               /\ UNCHANGED <<plan, prepared, committed>>
    /\ UNCHANGED <<failRest, handler>>

\* All driven: the locks are released together.
EndGroups(n) ==
    /\ handler[n] = "groups" /\ listed[n] = {} /\ held[n] # {}
    /\ \A g \in held[n] : todo[g] = {}
    /\ by' = [g \in Groups |-> IF g \in held[n] THEN "free" ELSE by[g]]
    /\ held' = [held EXCEPT ![n] = {}]
    /\ handler' = [handler EXCEPT ![n] = "actors"]
    /\ UNCHANGED <<failRest, recordVars, offer, todo, listed>>

-----------------------------------------------------------------------------
(* Shutdown: begin_shutdown_cleanup, a round at a time *)

Unclean == {g \in known : phase[g] \notin Terminal /\ ~(phase[g] = "LOST" /\ Ops(g, "LOST") = {})}

BeginRound ==
    /\ use.shutdown /\ round = {} /\ (closed => Unclean # {})
    /\ closed' = TRUE /\ round' = known
    /\ UNCHANGED <<deathVars, recordVars, lockVars, ledgerVars, faultVars, ownerVars, known, listed, held, reported>>

CleanGroup(g) ==
    /\ g \in round /\ g = Lowest(round) /\ by[g] = "free"
    /\ ~\E h \in Groups : by[h] = "shutdown"
    /\ by' = [by EXCEPT ![g] = "shutdown"]
    /\ phase' = [phase EXCEPT ![g] =
           CASE @ = "PENDING" -> "REMOVED"
             [] @ \in {"PREPARING", "COMMITTING"} -> "ABORTING"
             [] @ = "CREATED" -> "REMOVING"
             [] OTHER -> @]
    /\ todo' = [todo EXCEPT ![g] = Ops(g, phase'[g])]
    /\ UNCHANGED <<rest, plan, prepared, committed, aborted, offer, ledgerVars, faultVars, ownerVars>>

EndClean(g) ==
    /\ by[g] = "shutdown" /\ todo[g] = {}
    /\ by' = [by EXCEPT ![g] = "free"]
    /\ round' = round \ {g}
    /\ UNCHANGED <<deathVars, recordVars, offer, todo, ledgerVars, faultVars, ownerVars, known, closed,
                   listed, held, reported>>

-----------------------------------------------------------------------------
(* The owner: CoreWorker *)

ownRest == <<deathVars, recordVars, lockVars, ledgerVars, faultVars, controlVars, reported>>

CallCreate(g) ==
    /\ own[g] = "new" /\ g \in use.groups /\ ~closed
    /\ own' = [own EXCEPT ![g] = "creating"] /\ calls' = calls \cup {<<"create", g>>}
    /\ UNCHANGED <<ownRest, answer>>

CallRemove(g) ==
    /\ own[g] = "CREATED" /\ ~closed
    /\ own' = [own EXCEPT ![g] = "removing"] /\ calls' = calls \cup {<<"remove", g>>}
    /\ UNCHANGED <<ownRest, answer>>

Call(g) == <<IF own[g] = "creating" THEN "create" ELSE "remove", g>>

\* The answer is lost, and the request sent again; a shutdown takes over.
Replay(g) ==
    /\ own[g] \in {"creating", "removing"} /\ answer[g] = "none" /\ by[g] = "free" /\ ~closed
    /\ Call(g) \notin calls
    /\ calls' = calls \cup {Call(g)}
    /\ UNCHANGED <<ownRest, own, answer>>

\* The answers create_placement_group returns, or raises, from; it replays on others.
Settled == {"CREATED", "INFEASIBLE", "REMOVED"}

TakeCreate(g) ==
    /\ own[g] = "creating" /\ answer[g] # "none"
    /\ answer' = [answer EXCEPT ![g] = "none"]
    /\ own' = [own EXCEPT ![g] = IF answer[g] \in Settled THEN answer[g] ELSE @]
    /\ UNCHANGED <<ownRest, calls>>

TakeRemove(g) ==
    /\ own[g] = "removing" /\ answer[g] # "none"
    /\ answer' = [answer EXCEPT ![g] = "none"]
    /\ own' = [own EXCEPT ![g] =
           CASE answer[g] = "REMOVED" -> "REMOVED" [] answer[g] = "REMOVING" -> @ [] OTHER -> "failed"]
    /\ UNCHANGED <<ownRest, calls>>

\* _raise_if_placement_group_shutdown_takeover
TakeOver(g) ==
    /\ closed /\ own[g] \in {"creating", "removing"} /\ answer[g] = "none"
    /\ own' = [own EXCEPT ![g] = "handed over"]
    /\ UNCHANGED <<ownRest, calls, answer>>

\* _mark_placement_groups_lost_locked, part of HandleDeath(n).
MarkLost(n) ==
    /\ own' = [g \in Groups |-> IF own[g] = "CREATED" /\ n \in plan[g] THEN "LOST" ELSE own[g]]
    /\ UNCHANGED <<recordVars, lockVars, ledgerVars, faultVars, calls, answer, controlVars, reported>>

-----------------------------------------------------------------------------
GroupGcs(g) ==
    \/ CreateEnter(g) \/ TakeSnapshot(g) \/ Plan(g) \/ RemoveEnter(g) \/ Finish(g)
    \/ CleanGroup(g) \/ EndClean(g)
    \/ \E n \in Nodes : Drive(g, n) \/ DriveFails(g, n)

GroupOwner(g) ==
    CallCreate(g) \/ CallRemove(g) \/ Replay(g) \/ TakeCreate(g) \/ TakeRemove(g) \/ TakeOver(g)

GroupDeath(n) == ListGroups(n) \/ LockGroup(n) \/ EndGroups(n)

GroupNext ==
    \/ \E g \in Groups : GroupGcs(g) \/ GroupOwner(g)
    \/ \E n \in Nodes : GroupDeath(n) \/ ReportResources(n)
    \/ \E n \in Nodes, g \in Groups : StartChild(n, g) \/ EndChild(n, g)
    \/ (\E m \in late : ServeLate(m)) \/ BeginRound

-----------------------------------------------------------------------------
GroupTypeOK ==
    /\ phase \in [Groups -> Active \cup Terminal \cup {"none", "PENDING", "CREATED"}]
    /\ \A p \in {plan, prepared, committed, aborted, todo} : p \in [Groups -> SUBSET Nodes]
    /\ \A g \in Groups : prepared[g] \cup committed[g] \cup aborted[g] \subseteq plan[g]
    /\ known \subseteq Groups /\ round \subseteq Groups /\ closed \in BOOLEAN
    /\ by \in [Groups -> {"free", "plan", "snapshot", "create", "remove", "shutdown", "death"}]
    /\ offer \in [Groups -> [fit : SUBSET Nodes, could : SUBSET Nodes]]
    /\ listed \in [Nodes -> SUBSET Groups] /\ held \in [Nodes -> SUBSET Groups]
    /\ reported \in [Nodes -> 0..Capacity] /\ \A n \in Nodes : Free(n) \in 0..Capacity
    /\ child \subseteq Nodes \X Groups
    /\ reserved \in [Nodes -> [Groups -> {"none", "PREPARED", "COMMITTED", "REMOVING", "ABORTED"}]]
    /\ late \subseteq {"prepare", "commit", "abort"} \X Groups \X Nodes /\ lostRpc \in 0..use.lost

\* A Node that died is no participant of a group that is, or is yet to be, created,
\* once its death has been through the groups: neither a create that planned just
\* before the death nor one that was waiting for the lock escapes it
\* (control.py create and fail_node).
DeathReachesGroups ==
    \A n \in recorded, g \in Groups :
        n \in plan[g] => phase[g] \notin {"PREPARING", "COMMITTING", "CREATED"}

\* What the GCS records of a group is what its Nodes hold, whatever requests were
\* lost or arrive late: a created group is committed on every participant that
\* runs, and a removed one is nowhere reserved, nor ever will be; a Task runs only
\* inside a reservation; and no created group counts on a dead Node
\* (PlacementGroupCoordinator.apply_reply, BundleReservationLedger.prepare).
RecordMatchesReservations ==
    /\ GroupTypeOK
    /\ DeathReachesGroups
    /\ \A g \in Groups : \A n \in plan[g] \cap up :
          /\ phase[g] = "CREATED" => reserved[n][g] = "COMMITTED"
          /\ phase[g] = "REMOVED" => reserved[n][g] = "ABORTED"
    /\ \A c \in child : c[1] \in up => reserved[c[1]][c[2]] \in {"COMMITTED", "REMOVING"}
=============================================================================

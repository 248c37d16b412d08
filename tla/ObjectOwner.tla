----------------------------- MODULE ObjectOwner -----------------------------
(***************************************************************************)
(* The owner of one object: the references that keep it alive, the         *)
(* locations of its bytes, and its collection (ownership.py, core.py,      *)
(* replica_cleanup.py).                                                    *)
(*                                                                         *)
(* A reference is a token.  Local handles, submitted Task holds and        *)
(* lineage holds belong to the owner's own process and change under its    *)
(* lock.  Borrows, retained Task holds and contained holds belong to other *)
(* processes, which ask for them and give them back by RPC: a request may  *)
(* be given up by its caller and still arrive, before or after the release *)
(* that follows it.  A token is never reused.                              *)
(*                                                                         *)
(* The collection of the object is a claim (COLLECTING) followed by RPCs:  *)
(* close its publication in the GCS, release the pins it holds on its      *)
(* children, retire its graph edges, delete its replicas.  It is driven by *)
(* the reference mailbox ("event") and by the threads that serve releases  *)
(* ("direct").                                                             *)
(*                                                                         *)
(* A contained hold's two phases (provisional, final) are one hold here:   *)
(* module OutputPublication has them.                                      *)
(***************************************************************************)
EXTENDS Naturals, FiniteSets

CONSTANTS
    Token,          \* the references of a behaviour
    Kind,           \* what each one is
    Source,         \* the reference it was made from, or None
    Holder,         \* the process that holds it
    Uses,           \* the sets of references a behaviour may be about, and whether the
                    \* object is published
    Nodes,          \* the nodes that may store the object
    Producers,      \* those that may run the producing Task
    Hosts,          \* those that may run the Task of each hold
    Crashes,        \* the processes and nodes that may exit
    GcsFaults,      \* whether an RPC to the GCS may fail
    MaxFaults,      \* bound on RPCs given up, calls that fail, and exits
    Shutdown,       \* whether the owner may be shut down
    None

Remote == {"borrow", "retained", "contained"}
Holds == {"submitted", "retained"}
Drivers == {"event", "direct"}
Owner == "owner"

ASSUME ObjectOwnerAssumption ==
    /\ \A t \in Token : Kind[t] \in Remote \cup {"local", "submitted", "lineage"}
    /\ \A t \in Token : Source[t] \in Token \cup {None}
    /\ \A t \in Token : Kind[t] \in {"borrow", "retained"} => Source[t] \in Token
    /\ \A t \in Token : (Kind[t] \notin Remote) = (Holder[t] = Owner)
    /\ Uses \subseteq [tokens : SUBSET Token, published : BOOLEAN]
    /\ Nodes \cap ({Owner, "kid"} \cup {Holder[t] : t \in Token}) = {}
    /\ Producers \subseteq Nodes /\ \A t \in Token : Hosts[t] \subseteq Nodes
    /\ GcsFaults \in BOOLEAN /\ Shutdown \in BOOLEAN /\ MaxFaults \in Nat

VARIABLES
    used,       \* the references this behaviour is about
    phase,      \* what the holder of each one believes and wants
    late,       \* requests given up by their callers that may still arrive
    active,     \* tokens in the owner's table
    released,   \* the owner's tombstones
    bound,      \* tokens whose source the owner has recorded
    faults,
    down,       \* processes and nodes that exited
    installed,  \* deaths the owner has installed
    serving,    \* "open", "draining" (shutdown begun) or "closed" (the owner protocol)
    state,      \* the object: PENDING, INLINE (a value or an error), STORED or LOST
    published,  \* it has a publication in the GCS, and children in its value
    bytes,      \* nodes that store a copy
    dropped,    \* nodes whose deletion watermark covers this object
    pinned,     \* copies an execution lease keeps: <<node, hold>>
    reports,    \* copies the owner has yet to be told about: <<node, hold>>
    locations,  \* the nodes the owner knows of
    cleanup,    \* late copies to delete: node -> "none", "pending", "calling", "done"
    coll,       \* ACTIVE, COLLECTING or COLLECTED
    todo,       \* what the collection has yet to do
    gc,         \* the step each driver is at
    due         \* a collection check is in the mailbox

tokenVars == <<phase, late>>
tableVars == <<active, released, bound>>
faultVars == <<faults, down, installed>>
replicaVars == <<bytes, dropped, pinned, reports, locations, cleanup>>
gcVars == <<coll, todo, gc, due>>
fixedVars == <<used, published>>
vars == <<tokenVars, tableVars, faultVars, replicaVars, gcVars, fixedVars, serving, state>>

Up(p) == p \notin down
Phases == {"idle", "asking", "granted", "refused", "bound", "closing", "gone"}
NoWork == [fence |-> FALSE, child |-> FALSE, graph |-> FALSE, drops |-> {}]

-----------------------------------------------------------------------------
(* The owner's table *)

\* _validate_borrow_source_locked, retain_borrowed_reference_for_task,
\* prepare_stored_contained_reference: the source must be live, whichever it is.
SourceOk(t) ==
    LET s == Source[t] IN
    CASE Kind[t] = "borrow" -> s \in active /\ s \notin released
      [] Kind[t] = "retained" -> s \in active
      [] OTHER -> s = None \/ s \in active \cap bound

\* Shutdown admission: a draining owner still serves the Tasks it runs.
Admitted(t) ==
    CASE Kind[t] = "borrow" -> serving = "open" \/ (serving = "draining" /\ Kind[Source[t]] \in Holds)
      [] Kind[t] = "retained" -> serving = "open" \/ t \in active
      [] OTHER -> serving # "closed"

\* A request already granted is answered again without a second effect, except
\* that a borrow must not have been released.
Replayed(t) == t \in bound /\ (Kind[t] = "contained" \/ t \in active)

Grantable(t) ==
    /\ Holder[t] \notin installed
    /\ t \notin released
    /\ coll = "ACTIVE"
    /\ SourceOk(t)

\* release_submitted_reference, release_retained_reference_for_task: the borrowers
\* derived from a Task hold end with it.
Derived(hold) == {t \in bound : Kind[t] = "borrow" /\ Source[t] = hold}

Removed(t) == {t} \cup (IF Kind[t] \in Holds /\ t \in active THEN Derived(t) ELSE {})

\* Mutant of Release: a release is remembered only when there was something to release.
ForgottenRelease(t) ==
    /\ active' = active \ Removed(t)
    /\ released' = released \cup (Removed(t) \cap active)
    /\ bound' = bound \ (Removed(t) \cap {u \in Token : Kind[u] = "borrow"})

\* Every release leaves a tombstone, also when it overtakes the acquisition.
Release(t) ==
    /\ active' = active \ Removed(t)
    /\ released' = released \cup Removed(t)
    /\ bound' = bound \ (Removed(t) \cap {u \in Token : Kind[u] = "borrow"})

\* A token joins the table.
Grant(t) ==
    /\ active' = active \cup {t}
    /\ bound' = bound \cup {t}
    /\ UNCHANGED released

\* _drive_reference_collection_best_effort, by the thread that removed the last
\* reference it knows of; one such thread at a time.
DriveDirect(wanted) ==
    IF wanted THEN gc["direct"] = "idle" /\ gc' = [gc EXCEPT !["direct"] = "begin"]
              ELSE UNCHANGED gc

-----------------------------------------------------------------------------
(* Holders *)

\* What the holder needs to make the reference: a live handle of its own, a value it
\* is reading, or a Task it is executing.
CanMake(t) ==
    /\ phase[t] = "idle" /\ t \in used
    /\ Up(Holder[t])
    /\ Source[t] # None => phase[Source[t]] = "bound"
    /\ Source[t] = None => \E u \in used : Kind[u] = "local" /\ phase[u] = "bound"

\* _new_object_ref, _register_submission: local references are made under the lock
\* from a handle that is open.
Make(t) ==
    /\ Kind[t] \notin Remote
    /\ CanMake(t) /\ Up(Owner) /\ serving = "open" /\ coll = "ACTIVE"
    /\ phase' = [phase EXCEPT ![t] = "bound"]
    /\ Grant(t)
    /\ UNCHANGED <<late, faultVars, replicaVars, gcVars, fixedVars, serving, state>>

\* The finalizer of a handle, the end of a Task, the collection of its output.
Close(t) ==
    /\ phase[t] = "bound"
    /\ Up(Holder[t])
    /\ phase' = [phase EXCEPT ![t] = "closing"]
    /\ UNCHANGED <<late, tableVars, faultVars, replicaVars, gcVars, fixedVars, serving, state>>

\* The reference mailbox and the Task finisher release at the owner itself.
ReleaseLocal(t) ==
    /\ Kind[t] \notin Remote
    /\ phase[t] = "closing" /\ Up(Owner)
    /\ phase' = [phase EXCEPT ![t] = "gone"]
    /\ Release(t)
    /\ due' = (due \/ t \in active)
    /\ UNCHANGED <<late, faultVars, replicaVars, coll, todo, gc, fixedVars, serving, state>>

\* The release obligation is registered first, then the RPC goes out.
Ask(t) ==
    /\ Kind[t] \in Remote
    /\ CanMake(t)
    /\ Owner \notin installed
    /\ phase' = [phase EXCEPT ![t] = "asking"]
    /\ UNCHANGED <<late, tableVars, faultVars, replicaVars, gcVars, fixedVars, serving, state>>

\* acquire_exported_reference, retain_owned_object_for_task, prepare_stored_contained_pin.
ServeAsk(t, answer) ==
    LET granted == Admitted(t) /\ (Replayed(t) \/ Grantable(t)) IN
    /\ Up(Owner)
    /\ IF granted /\ ~Replayed(t) THEN Grant(t) ELSE UNCHANGED tableVars
    /\ phase' = IF answer THEN [phase EXCEPT ![t] = IF granted THEN "granted" ELSE "refused"]
                ELSE phase
    /\ UNCHANGED <<faultVars, replicaVars, gcVars, fixedVars, serving, state>>

Serve(t) == phase[t] = "asking" /\ ServeAsk(t, TRUE) /\ UNCHANGED late
ServeLate(t) == t \in late /\ ServeAsk(t, FALSE) /\ late' = late \ {t}

\* _restore_borrowed_reference, _restore_task_argument_reference: the handle binds; a
\* refusal, or a mailbox that closed meanwhile, turns into a release.
Bind(t) ==
    /\ phase[t] \in {"granted", "refused"} /\ Up(Holder[t])
    /\ \/ phase[t] = "granted" /\ phase' = [phase EXCEPT ![t] = "bound"]
       \/ phase' = [phase EXCEPT ![t] = "closing"]
    /\ UNCHANGED <<late, tableVars, faultVars, replicaVars, gcVars, fixedVars, serving, state>>

\* The caller's deadline passes.  A publication round asks again or rolls back; the
\* others give the reference back.
GiveUp(t) ==
    /\ phase[t] = "asking" /\ faults < MaxFaults
    /\ late' = late \cup {t}
    /\ \/ phase' = [phase EXCEPT ![t] = "closing"]
       \/ Kind[t] = "contained" /\ UNCHANGED phase
    /\ faults' = faults + 1
    /\ UNCHANGED <<tableVars, down, installed, replicaVars, gcVars, fixedVars, serving, state>>

\* release_borrowed_reference, release_owned_object_for_task, release_contained_reference:
\* acknowledged with its tombstone; the acknowledgement may be lost, and the release is
\* sent again.  Only a release that removed something starts a collection, at once.
ServeRelease(t) ==
    /\ Kind[t] \in Remote
    /\ phase[t] = "closing" /\ Up(Owner) /\ Up(Holder[t]) /\ serving # "closed"
    /\ Release(t)
    /\ DriveDirect(t \in active)
    /\ \/ phase' = [phase EXCEPT ![t] = "gone"] /\ UNCHANGED faults
       \/ faults < MaxFaults /\ faults' = faults + 1 /\ UNCHANGED phase
    /\ UNCHANGED <<late, down, installed, replicaVars, coll, todo, due, fixedVars, serving, state>>

\* _discharge_dead_owner_obligations: nothing is owed to an owner that is known dead.
OwnerGone(t) ==
    /\ Kind[t] \in Remote
    /\ ~Up(Owner) /\ Up(Holder[t])
    /\ phase[t] \in {"asking", "granted", "refused", "closing"}
    /\ phase' = [phase EXCEPT ![t] = "gone"]
    /\ UNCHANGED <<late, tableVars, faultVars, replicaVars, gcVars, fixedVars, serving, state>>

-----------------------------------------------------------------------------
(* The object and its replicas *)

\* The producer's result is published, which also asks for a collection check.
Publish(outcome, n) ==
    /\ state = "PENDING" /\ Up(Owner)
    /\ state' = outcome
    /\ n \in Producers
    /\ IF outcome = "STORED" THEN Up(n) /\ bytes' = {n} /\ locations' = {n}
                             ELSE UNCHANGED <<bytes, locations>>
    /\ due' = TRUE
    /\ UNCHANGED <<tokenVars, tableVars, faultVars, dropped, pinned, reports, cleanup,
                   coll, todo, gc, fixedVars, serving>>

\* _require_dependency_not_deleted_locked.
Localizable(n) == n \notin dropped

\* A node fetches the object for a Task whose hold h is live, pins it for the lease
\* and owes the owner its location.
Localize(n, h) ==
    /\ Kind[h] \in Holds /\ phase[h] = "bound" /\ n \in Hosts[h]
    /\ Up(n) /\ Localizable(n)
    /\ n \in bytes \/ \E m \in bytes : Up(m)
    /\ <<n, h>> \notin pinned
    /\ bytes' = bytes \cup {n}
    /\ pinned' = pinned \cup {<<n, h>>}
    /\ reports' = reports \cup {<<n, h>>}
    /\ UNCHANGED <<tokenVars, tableVars, faultVars, dropped, locations, cleanup, gcVars,
                   fixedVars, serving, state>>

\* The lease ends.
Unpin(n, h) ==
    /\ <<n, h>> \in pinned
    /\ pinned' = pinned \ {<<n, h>>}
    /\ UNCHANGED <<tokenVars, tableVars, faultVars, bytes, dropped, reports, locations, cleanup,
                   gcVars, fixedVars, serving, state>>

\* A late copy is kept for deletion, once; a node known dead has nothing to delete.
Enqueued(n) ==
    [cleanup EXCEPT ![n] = IF @ # "none" THEN @ ELSE IF n \in installed THEN "done" ELSE "pending"]

\* Mutant of Report: a copy reported after the collection began is forgotten.
ForgetfulReport(n, h) ==
    /\ <<n, h>> \in reports
    /\ Up(Owner) /\ serving # "closed"
    /\ IF Up(Holder[h]) THEN TRUE ELSE Holder[h] \in installed /\ Up(n)
    /\ \/ reports' = reports \ {<<n, h>>} /\ UNCHANGED faults
       \/ faults < MaxFaults /\ faults' = faults + 1 /\ UNCHANGED reports
    /\ IF coll = "ACTIVE" /\ n \notin installed
       THEN /\ locations' = locations \cup {n} /\ state' = "STORED"
            /\ due' = (due \/ h \notin active)
       ELSE UNCHANGED <<locations, state, due>>
    /\ UNCHANGED <<tokenVars, tableVars, down, installed, bytes, dropped, pinned, cleanup, coll,
                   todo, gc, fixedVars, serving>>

\* _record_replica_custody_locked: by the submitter, or by the node once the submitter's
\* death is installed.  RETIRED if the object is being or has been collected, REJECTED for
\* a node known dead, CUSTODY_ONLY (with a collection check) when the hold is no longer
\* active.  An answer may be lost, and the report sent again.
Report(n, h) ==
    /\ <<n, h>> \in reports
    /\ Up(Owner) /\ serving # "closed"
    /\ IF Up(Holder[h]) THEN TRUE ELSE Holder[h] \in installed /\ Up(n)
    /\ \/ reports' = reports \ {<<n, h>>} /\ UNCHANGED faults
       \/ faults < MaxFaults /\ faults' = faults + 1 /\ UNCHANGED reports
    /\ cleanup' = IF coll = "ACTIVE" THEN cleanup ELSE Enqueued(n)
    /\ IF coll = "ACTIVE" /\ n \notin installed
       THEN /\ locations' = locations \cup {n} /\ state' = "STORED"
            /\ due' = (due \/ h \notin active)
       ELSE UNCHANGED <<locations, state, due>>
    /\ UNCHANGED <<tokenVars, tableVars, down, installed, bytes, dropped, pinned, coll,
                   todo, gc, fixedVars, serving>>

\* _handle_drop_object_replica: DROPPED, ALREADY_DROPPED, or a refusal (PINNED, REJECTED).
Droppable(n) == IF n \in bytes THEN {p \in pinned : p[1] = n} = {} ELSE n \in dropped
DropAt(n) == bytes' = bytes \ {n} /\ dropped' = dropped \cup {n}

\* drop_object, request_drop_owned_object: the node deletes one known copy, and the owner
\* forgets the location; the caller's reference keeps the object meanwhile.
DropOwned(n) ==
    /\ Up(Owner) /\ Up(n) /\ state = "STORED" /\ n \in locations
    /\ coll = "ACTIVE" /\ active # {} /\ faults < MaxFaults
    /\ Droppable(n) /\ DropAt(n)
    /\ locations' = locations \ {n}
    /\ state' = IF locations = {n} THEN "LOST" ELSE state
    /\ faults' = faults + 1
    /\ UNCHANGED <<tokenVars, tableVars, down, installed, pinned, reports, cleanup, gcVars,
                   fixedVars, serving>>

LatePending == \E n \in Nodes : cleanup[n] \in {"pending", "calling"}

\* _drive_late_replica_cleanup: claim one deletion, call the node, settle it.
Clean(n) ==
    /\ cleanup[n] = "pending" /\ Up(Owner)
    /\ cleanup' = [cleanup EXCEPT ![n] = IF n \in installed THEN "done" ELSE "calling"]
    /\ due' = (due \/ n \in installed)
    /\ UNCHANGED <<tokenVars, tableVars, faultVars, bytes, dropped, pinned, reports, locations,
                   coll, todo, gc, fixedVars, serving, state>>

Settle(n) ==
    /\ cleanup[n] = "calling" /\ Up(Owner)
    /\ \/ /\ Up(n) /\ Droppable(n) /\ DropAt(n)
          /\ cleanup' = [cleanup EXCEPT ![n] = "done"] /\ due' = TRUE
       \/ /\ ~(Up(n) /\ Droppable(n))
          /\ cleanup' = [cleanup EXCEPT ![n] = "pending"] /\ UNCHANGED <<bytes, dropped, due>>
    /\ UNCHANGED <<tokenVars, tableVars, faultVars, pinned, reports, locations,
                   coll, todo, gc, fixedVars, serving, state>>

-----------------------------------------------------------------------------
(* Collection: _reference_released *)

\* The reference mailbox takes a collection check.
TakeCheck ==
    /\ due /\ gc["event"] = "idle" /\ Up(Owner)
    /\ due' = FALSE
    /\ gc' = [gc EXCEPT !["event"] = "begin"]
    /\ UNCHANGED <<tokenVars, tableVars, faultVars, replicaVars, coll, todo, fixedVars, serving, state>>

At(d, step) == gc[d] = step /\ Up(Owner)
Goto(d, step) == gc' = [gc EXCEPT ![d] = step]

Collectable == coll = "ACTIVE" /\ active = {} /\ state # "PENDING"

\* begin_collection freezes what has to be done and becomes the claim.
Begin(d) ==
    /\ At(d, "begin")
    /\ \/ /\ ~LatePending /\ Collectable
          /\ coll' = "COLLECTING"
          /\ todo' = [fence |-> published, child |-> published, graph |-> published, drops |-> locations]
          /\ Goto(d, "fence")
       \/ /\ ~LatePending /\ coll = "COLLECTING"
          /\ Goto(d, "fence") /\ UNCHANGED <<coll, todo>>
       \/ /\ LatePending \/ (coll # "COLLECTING" /\ ~Collectable)
          /\ Goto(d, "idle") /\ UNCHANGED <<coll, todo>>
    /\ UNCHANGED <<tokenVars, tableVars, faultVars, replicaVars, due, fixedVars, serving, state>>

\* An RPC to the GCS raises: the exception ends the drive.  A direct driver has the check
\* scheduled again; the mailbox loop does not.
GcsFails(d) ==
    /\ GcsFaults /\ faults < MaxFaults
    /\ faults' = faults + 1
    /\ Goto(d, "idle")
    /\ due' = (due \/ d = "direct")
    /\ UNCHANGED todo

\* Mutant of Fence: the drive goes on to the children without the GCS's fence.
UnfencedFence(d) ==
    /\ At(d, "fence")
    /\ Goto(d, "child")
    /\ UNCHANGED <<tokenVars, tableVars, faultVars, replicaVars, coll, todo, due, fixedVars, serving, state>>

Fence(d) ==
    /\ At(d, "fence")
    /\ \/ Goto(d, "child") /\ todo' = [todo EXCEPT !.fence = FALSE] /\ UNCHANGED <<faults, due>>
       \/ todo.fence /\ GcsFails(d)
    /\ UNCHANGED <<tokenVars, tableVars, down, installed, replicaVars, coll, fixedVars, serving, state>>

\* A release that is not acknowledged stays to be done, and without all of them the round
\* ends; a child's owner that is known dead needs none.
Child(d) ==
    /\ At(d, "child")
    /\ \/ /\ Up("kid") \/ "kid" \in installed
          /\ Goto(d, "graph") /\ todo' = [todo EXCEPT !.child = FALSE] /\ UNCHANGED faults
       \/ ~todo.child /\ Goto(d, "graph") /\ UNCHANGED <<todo, faults>>
       \/ /\ todo.child /\ Goto(d, "finish") /\ UNCHANGED todo
          /\ \/ ~Up("kid") /\ "kid" \notin installed /\ UNCHANGED faults
             \/ faults < MaxFaults /\ faults' = faults + 1
    /\ UNCHANGED <<tokenVars, tableVars, down, installed, replicaVars, coll, due, fixedVars, serving, state>>

Graph(d) ==
    /\ At(d, "graph")
    /\ \/ Goto(d, "drops") /\ todo' = [todo EXCEPT !.graph = FALSE] /\ UNCHANGED <<faults, due>>
       \/ todo.graph /\ GcsFails(d)
    /\ UNCHANGED <<tokenVars, tableVars, down, installed, replicaVars, coll, fixedVars, serving, state>>

\* Replicas one after the other; those a node keeps are left for the next round.
Drop(d, n) ==
    /\ At(d, "drops") /\ n \in todo.drops
    /\ \/ /\ Up(n) /\ Droppable(n) /\ DropAt(n)
          /\ todo' = [todo EXCEPT !.drops = @ \ {n}] /\ UNCHANGED <<faults, gc>>
       \/ /\ ~(Up(n) /\ Droppable(n))
          /\ Goto(d, "finish") /\ UNCHANGED <<todo, faults, bytes, dropped>>
       \/ /\ faults < MaxFaults /\ faults' = faults + 1
          /\ Goto(d, "finish") /\ UNCHANGED <<todo, bytes, dropped>>
    /\ UNCHANGED <<tokenVars, tableVars, down, installed, pinned, reports, locations, cleanup, coll,
                   due, fixedVars, serving, state>>

DropsDone(d) ==
    /\ At(d, "drops") /\ todo.drops = {}
    /\ Goto(d, "finish")
    /\ UNCHANGED <<tokenVars, tableVars, faultVars, replicaVars, coll, todo, due, fixedVars, serving, state>>

Done == ~LatePending /\ todo.drops = {} /\ ~todo.child

\* complete_collection, or another round.
Finish(d) ==
    /\ At(d, "finish")
    /\ Goto(d, "idle")
    /\ IF coll = "COLLECTING" /\ Done
       THEN coll' = "COLLECTED" /\ todo' = NoWork /\ UNCHANGED due
       ELSE due' = (due \/ coll = "COLLECTING") /\ UNCHANGED <<coll, todo>>
    /\ UNCHANGED <<tokenVars, tableVars, faultVars, replicaVars, fixedVars, serving, state>>

-----------------------------------------------------------------------------
(* Failures and shutdown *)

Exit(p) ==
    /\ p \in Crashes /\ Up(p) /\ faults < MaxFaults
    /\ down' = down \cup {p}
    /\ faults' = faults + 1
    /\ IF p \in Nodes
       THEN /\ bytes' = bytes \ {p} /\ dropped' = dropped \ {p}
            /\ pinned' = {q \in pinned : q[1] # p}
            /\ reports' = {r \in reports : r[1] # p \/ Up(Holder[r[2]])}
       ELSE /\ UNCHANGED <<bytes, dropped, pinned>>
            /\ reports' = {r \in reports : Holder[r[2]] # p \/ Up(r[1])}
    /\ UNCHANGED <<tokenVars, tableVars, installed, locations, cleanup, gcVars, fixedVars, serving, state>>

\* handle_node_death: locations of a claimed object stay in its frozen plan, but its
\* deletions there are done.
NodeDeath(n) ==
    /\ n \in down \cap Nodes /\ n \notin installed /\ Up(Owner)
    /\ installed' = installed \cup {n}
    /\ IF coll = "ACTIVE"
       THEN /\ locations' = locations \ {n}
            /\ state' = IF state = "STORED" /\ locations \subseteq {n} THEN "LOST" ELSE state
       ELSE UNCHANGED <<locations, state>>
    /\ cleanup' = [cleanup EXCEPT ![n] = IF @ = "pending" THEN "done" ELSE @]
    /\ todo' = [todo EXCEPT !.drops = @ \ {n}]
    /\ due' = (due \/ cleanup[n] = "pending" \/ (coll = "COLLECTING" /\ n \in locations))
    /\ UNCHANGED <<tokenVars, tableVars, faults, down, bytes, dropped, pinned, reports, coll, gc,
                   fixedVars, serving>>

\* Mutant of DeadTokens: the holds of a dead container owner are kept.
LeakyDeadTokens(p) == {t \in active : Holder[t] = p /\ Kind[t] = "borrow"}

\* install_dead_worker: what a dead process held goes, and can never come back.
DeadTokens(p) == {t \in active : Holder[t] = p}

ProcessDeath(p) ==
    /\ p \in down \ Nodes /\ p \notin installed /\ Up(Owner)
    /\ installed' = installed \cup {p}
    /\ active' = active \ DeadTokens(p)
    /\ released' = released \cup DeadTokens(p)
    /\ todo' = [todo EXCEPT !.child = @ /\ p # "kid"]
    /\ DriveDirect(\/ DeadTokens(p) # {} /\ active = DeadTokens(p)
                   \/ p = "kid" /\ todo.child)
    /\ UNCHANGED <<tokenVars, bound, faults, down, replicaVars, coll, due, fixedVars, serving, state>>

\* shutdown: admission closes first.
Drain ==
    /\ Shutdown /\ serving = "open" /\ Up(Owner)
    /\ serving' = "draining"
    /\ UNCHANGED <<tokenVars, tableVars, faultVars, replicaVars, gcVars, fixedVars, state>>

\* Mutant of Finalizable: the owner stops while peers still hold its object.
StrandingFinalizable == gc = [d \in Drivers |-> "idle"] /\ ~due /\ coll # "COLLECTING" /\ ~LatePending

\* _shutdown_finalizable_locked (require_distributed_clean): nothing is owed to a peer.
Finalizable ==
    /\ \A t \in active : Kind[t] \notin Remote
    /\ gc = [d \in Drivers |-> "idle"] /\ ~due
    /\ coll # "COLLECTING" /\ ~LatePending

\* finalize_shutdown: the owner protocol closes for good.
CloseProtocol ==
    /\ serving = "draining" /\ Up(Owner) /\ Finalizable
    /\ serving' = "closed"
    /\ UNCHANGED <<tokenVars, tableVars, faultVars, replicaVars, gcVars, fixedVars, state>>

-----------------------------------------------------------------------------
\* The producing Task was submitted: its one output has a handle.
Init ==
    /\ \E use \in Uses : used = use.tokens /\ published = use.published
    /\ phase = [t \in Token |-> IF t \in used /\ Kind[t] = "local" THEN "bound" ELSE "idle"]
    /\ late = {}
    /\ active = {t \in used : Kind[t] = "local"}
    /\ bound = active
    /\ released = {}
    /\ faults = 0 /\ down = {} /\ installed = {}
    /\ serving = "open" /\ state = "PENDING"
    /\ bytes = {} /\ dropped = {} /\ pinned = {} /\ reports = {} /\ locations = {}
    /\ cleanup = [n \in Nodes |-> "none"]
    /\ coll = "ACTIVE" /\ todo = NoWork
    /\ gc = [d \in Drivers |-> "idle"] /\ due = FALSE

Tokens == \E t \in Token :
    \/ Make(t) \/ Close(t) \/ ReleaseLocal(t) \/ Ask(t) \/ Serve(t) \/ ServeLate(t) \/ Bind(t)
    \/ GiveUp(t) \/ ServeRelease(t) \/ OwnerGone(t)

ProducerEnds(n) == \E outcome \in {"INLINE", "STORED"} : Publish(outcome, n)

Replicas == \E n \in Nodes :
    \/ ProducerEnds(n)
    \/ \E h \in Token : Localize(n, h) \/ Unpin(n, h) \/ Report(n, h)
    \/ DropOwned(n) \/ Clean(n) \/ Settle(n) \/ NodeDeath(n)

DriverStep(d) ==
    \/ Begin(d) \/ Fence(d) \/ Child(d) \/ Graph(d) \/ DropsDone(d) \/ Finish(d)
    \/ \E n \in Nodes : Drop(d, n)

Next ==
    \/ Tokens \/ Replicas
    \/ TakeCheck \/ \E d \in Drivers : DriverStep(d)
    \/ \E p \in Crashes : Exit(p)
    \/ \E p \in down : ProcessDeath(p)
    \/ Drain \/ CloseProtocol

Spec == Init /\ [][Next]_vars

\* Every thread keeps running: mailbox, timers, RPC servers, death polling; Tasks and
\* leases end, and handles are closed.
HolderStep(t) == Close(t) \/ ReleaseLocal(t) \/ Serve(t) \/ Bind(t) \/ ServeRelease(t) \/ OwnerGone(t)

Fairness ==
    /\ \A t \in Token : WF_vars(HolderStep(t)) /\ WF_vars(ServeLate(t))
    /\ \A n \in Nodes, h \in {t \in Token : Kind[t] \in Holds} :
          WF_vars(Unpin(n, h)) /\ WF_vars(Report(n, h))
    /\ \A n \in Nodes : WF_vars(Clean(n) \/ Settle(n)) /\ WF_vars(NodeDeath(n))
    /\ WF_vars(\E n \in Producers : ProducerEnds(n))
    /\ WF_vars(TakeCheck)
    /\ \A d \in Drivers : WF_vars(DriverStep(d))
    /\ \A p \in Crashes : WF_vars(ProcessDeath(p))

FairSpec == Spec /\ Fairness

-----------------------------------------------------------------------------
(* Properties *)

TypeOK ==
    /\ [tokens |-> used, published |-> published] \in Uses
    /\ phase \in [Token -> Phases] /\ late \subseteq Token
    /\ active \subseteq Token /\ released \subseteq Token /\ bound \subseteq Token
    /\ faults \in 0..MaxFaults /\ down \subseteq Crashes /\ installed \subseteq down
    /\ serving \in {"open", "draining", "closed"}
    /\ state \in {"PENDING", "INLINE", "STORED", "LOST"}
    /\ bytes \subseteq Nodes /\ dropped \subseteq Nodes /\ locations \subseteq Nodes
    /\ pinned \subseteq bytes \X Token /\ reports \subseteq Nodes \X Token
    /\ cleanup \in [Nodes -> {"none", "pending", "calling", "done"}]
    /\ coll \in {"ACTIVE", "COLLECTING", "COLLECTED"}
    /\ todo \in [fence : BOOLEAN, child : BOOLEAN, graph : BOOLEAN, drops : SUBSET Nodes]
    /\ gc \in [Drivers -> {"idle", "begin", "fence", "child", "graph", "drops", "finish"}]
    /\ due \in BOOLEAN

\* A borrow whose Task hold ended before it: only a superseded attempt has one.
Orphan(t) == Kind[t] = "borrow" /\ Kind[Source[t]] \in Holds /\ Source[t] \in released

\* A reference a live process holds is in the owner's table and the object is there for it,
\* whatever was lost, reordered or repeated on the way; only an attempt outlived by its
\* Task's hold loses its borrow.  ACTIVE also means that the owner protocol has not closed
\* under a peer's reference (acquire_exported_reference, release_*, begin_collection,
\* _shutdown_finalizable_locked).
HeldIsKept ==
    \A t \in Token :
        /\ phase[t] \in {"granted", "bound"} /\ Up(Holder[t]) /\ Up(Owner)
        => \/ t \in active /\ coll = "ACTIVE" /\ (Kind[t] \in Remote => serving # "closed")
           \/ Orphan(t)

\* No token is in the table of an object being collected, and none that was given back or
\* whose holder is known dead is in it at all, so nothing keeps an object for ever.
NothingComesBack ==
    /\ TypeOK
    /\ coll # "ACTIVE" => active = {}
    /\ active \cap released = {}
    /\ \A t \in active : Holder[t] \notin installed

\* Once the metadata is gone, every copy that is left is one the owner is about to delete
\* or has yet to be told about: none is forgotten (ReplicaCleanupQueue, the nodes'
\* deletion watermarks).
CopiesAccountedFor ==
    coll = "COLLECTED" /\ Up(Owner) /\ serving # "closed" =>
        \A n \in bytes : cleanup[n] \in {"pending", "calling"} \/ \E h \in Token : <<n, h>> \in reports

\* The pins an object holds on its children end, and its bytes are deleted, only after the
\* GCS closed its publication.
FencedFirst ==
    coll = "COLLECTING" /\ published /\ todo.fence =>
        (todo.child \/ "kid" \in installed) /\ todo.graph /\ (locations \ installed) \subseteq todo.drops

\* When every reference has been given back, the object is collected and its bytes are
\* deleted on every node that is up.
Unreferenced == Up(Owner) /\ \A t \in Token : phase[t] \in {"idle", "gone"} \/ ~Up(Holder[t])
EventuallyCollected ==
    Unreferenced ~> \/ coll = "COLLECTED" /\ bytes = {}
                    \/ serving = "closed" \/ ~Up(Owner)
=============================================================================

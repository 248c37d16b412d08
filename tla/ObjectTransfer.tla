--------------------------- MODULE ObjectTransfer ---------------------------
(***************************************************************************)
(* How a Node gets the stored inputs of a Task before it grants a lease:   *)
(* the pull (object_manager.py, object_store.py, _localize_one_dependency  *)
(* in node.py), the pin that keeps the replica at its source and the       *)
(* outbox that releases it (transfer_pins.py), the deletion of replicas,   *)
(* and the custody of the copies a lease made (lease_dependencies.py),     *)
(* which the submitter, or the Node itself once the submitter is dead,     *)
(* hands to the owner of each object (core.py).                            *)
(*                                                                         *)
(* An object is stored under the attempt that produced it.  Its owner      *)
(* knows some of its locations, produces it again when they are all lost,  *)
(* and deletes every copy when nothing needs it.  A Node's thread that     *)
(* serves a lease keeps the object's lock from its check to the end of the *)
(* pull; the Node's state lock is given up around each RPC.                *)
(***************************************************************************)
EXTENDS Naturals, Sequences, FiniteSets

CONSTANTS
    Nodes,
    Objects,
    Leases,         \* one lease request of one Task each
    Target,         \* the Node a lease is asked of
    Inputs,         \* the objects it depends on, in order
    Makers,         \* the Nodes where objects are produced
    Attempts,       \* bound on the attempts at producing an object
    Rounds,         \* bound on the times a lease is asked for
    Capacity,       \* how many objects fit into each Node's store
    Mortal,         \* the Nodes that may exit
    MortalTasks,    \* the leases whose submitter may exit
    MaxFaults       \* bound on lost calls

InputSet(l) == {Inputs[l][i] : i \in 1..Len(Inputs[l])}

ASSUME ObjectTransferAssumption ==
    /\ Attempts \in Nat \ {0} /\ Rounds \in Nat \ {0}
    /\ MaxFaults \in Nat
    /\ Capacity \in [Nodes -> Nat]
    /\ Target \in [Leases -> Nodes]
    /\ Inputs \in [Leases -> Seq(Objects)]
    /\ \A l \in Leases : Len(Inputs[l]) = Cardinality(InputSet(l))
    /\ Makers \subseteq Nodes /\ Mortal \subseteq Nodes /\ MortalTasks \subseteq Leases

Copies == Nodes \X Objects \X (1..Attempts)

\* A transfer is named by its pull: each round of a lease pulls an input at most once.
Transfers == Leases \X Objects \X (1..Rounds)

VARIABLES
    up,         \* the Nodes that run
    dead,       \* the Nodes whose exit the GCS has recorded
    faults,     \* calls lost so far
    store,      \* what each Node's object store holds of each object
    receipts,   \* the copies each Node has deleted, or will never have
    pulls,      \* each Node's pull record of each object
    thread,     \* the Node's thread that serves a lease request
    outcome,    \* the Node's answer to the lease request
    custody,    \* the copies a Node holds for a lease
    ticket,     \* the target's obligation to release a source pin
    session,    \* the source's pin
    late,       \* pin requests given up by the target that may still arrive
    desc,       \* the source and attempt a lease request names for each input
    task,       \* the submitter's side of a lease
    reported,   \* the inputs whose owner has accepted the copy
    doomed,     \* the Task must not run
    owner,      \* the owner's record of each object
    owed        \* the copies the owner still has to delete

clusterVars == <<up, dead>>
replicaVars == <<store, receipts, pulls>>
leaseVars == <<thread, outcome, custody>>
pinVars == <<ticket, session, late>>
taskVars == <<desc, task, reported, doomed>>
ownerVars == <<owner, owed>>
vars == <<clusterVars, faults, replicaVars, leaseVars, pinVars, taskVars, ownerVars>>

-----------------------------------------------------------------------------
(* Stores *)

Absent == [state |-> "absent", attempt |-> 0]
Partial(k) == [state |-> "partial", attempt |-> k]
Sealed(k) == [state |-> "sealed", attempt |-> k]
NoPull == [state |-> "none", attempt |-> 0]
Pull(s, k) == [state |-> s, attempt |-> k]

Present(n, o) == store[n][o].state # "absent"
Holds(n, o, k) == store[n][o] = Sealed(k)

\* create: an object takes its place in the store before its bytes arrive.
Full(n) == Cardinality({o \in Objects : Present(n, o)}) >= Capacity[n]

\* _require_dependency_not_deleted_locked: the deletion watermark.
Deleted(n, o, k) == \E j \in k..Attempts : <<n, o, j>> \in receipts

Source(t) == desc[t[1]][t[2]].source
Attempt(t) == desc[t[1]][t[2]].attempt
Pinned(n, o) == \E t \in Transfers : session[t] = "open" /\ t[2] = o /\ Source(t) = n

\* A granted lease pins its inputs until it is over.
Leased(n, o) ==
    \E l \in Leases : /\ Target[l] = n /\ o \in InputSet(l) /\ outcome[l] = "granted"
                      /\ task[l] \in {"asking", "granted", "cancelling", "running"}

-----------------------------------------------------------------------------
(* The Node's thread *)

Input(l) == Inputs[l][thread[l].input]
Transfer(l) == <<l, Input(l), thread[l].round>>
Wanted(l) == desc[l][Input(l)].attempt

\* The object's localization lock.
Locking == {"request", "pin", "read", "finish", "failed", "release", "exit"}
Locked(n, o) == \E l \in Leases : Target[l] = n /\ thread[l].pc \in Locking /\ Input(l) = o

At(l, pc) == thread[l].pc = pc /\ Target[l] \in up
Goto(l, pc) == thread' = [thread EXCEPT ![l].pc = pc]
Fails(l, pc) == thread' = [thread EXCEPT ![l].pc = pc, ![l].failed = TRUE]

\* After an input: the next one, or the grant.
Advance(l) ==
    thread' = [thread EXCEPT ![l] =
                  IF @.input < Len(Inputs[l])
                  THEN [@ EXCEPT !.pc = "check", !.input = thread[l].input + 1]
                  ELSE [@ EXCEPT !.pc = "localized"]]

Recorded(c, o) == [c EXCEPT !.pending = @ \ {o}, !.held = @ \cup {o}]
Begun(c, o) == [c EXCEPT !.pending = @ \cup {o}]
Discarded(c, o) == [c EXCEPT !.pending = @ \ {o}]

\* A lost call, when the bound allows one.
Lost == faults < MaxFaults /\ faults' = faults + 1

\* _handle_request_lease: a request starts a thread unless the lease is cancelled, its
\* submitter is known to be dead, or its answer is already fixed.
Enter(l) ==
    /\ task[l] # "new" /\ At(l, "idle")
    /\ outcome[l] \in {"none", "refused"} /\ ~custody[l].abandoned
    /\ thread[l].round < Rounds
    /\ thread' = [thread EXCEPT ![l] = [pc |-> IF Inputs[l] = <<>> THEN "localized" ELSE "check",
                                        input |-> 1, round |-> @.round + 1,
                                        failed |-> FALSE, before |-> FALSE]]
    /\ UNCHANGED <<clusterVars, faults, replicaVars, outcome, custody, pinVars, taskVars, ownerVars>>

\* _localize_one_dependency: take the object's lock and the custody of whatever the pull
\* leaves.  A sealed copy of the wanted attempt is used as it is, unless the record of a
\* pull speaks against it; anything else in its place is a conflict.
Check(l) ==
    LET n == Target[l]  o == Input(l)  k == Wanted(l)
        ready == ~Deleted(n, o, k) /\ Holds(n, o, k)
                 /\ (pulls[n][o] = NoPull \/ pulls[n][o] = Pull("READY", k))
    IN  /\ At(l, "check") /\ ~Locked(n, o)
        /\ \/ /\ ready
              /\ custody' = [custody EXCEPT ![l] = Recorded(@, o)]
              /\ pulls' = [pulls EXCEPT ![n][o] = Pull("READY", k)]
              /\ Advance(l)
           \/ /\ ~ready
              /\ custody' = [custody EXCEPT ![l] = Begun(@, o)]
              /\ thread' = [thread EXCEPT ![l].before = Present(n, o), ![l].pc =
                     IF Deleted(n, o, k) \/ Present(n, o) \/ desc[l][o].source = n
                     THEN "exit" ELSE "request"]
              /\ UNCHANGED pulls
        /\ UNCHANGED <<clusterVars, faults, store, receipts, outcome, pinVars, taskVars, ownerVars>>

\* The record of an earlier pull that names another attempt refuses this one.
Conflicts(l) == LET p == pulls[Target[l]][Input(l)] IN p # NoPull /\ p.attempt # Wanted(l)

\* request_pull: a failed pull of the same attempt starts afresh; the object takes its
\* place in the store, if there is room, and the obligation to release the source's pin is
\* there before the pin is asked for.
Request(l) ==
    LET n == Target[l]  o == Input(l)  k == Wanted(l) IN
    /\ At(l, "request")
    /\ \/ /\ Present(n, o) \/ Conflicts(l)
          /\ Goto(l, "exit")
          /\ \/ UNCHANGED pulls
             \/ pulls[n][o] = NoPull /\ pulls' = [pulls EXCEPT ![n][o] = Pull("READY", k)]
          /\ UNCHANGED <<store, ticket>>
       \/ /\ ~Present(n, o) /\ ~Conflicts(l)
          /\ Full(n) \/ desc[l][o].source \in dead
          /\ Goto(l, "exit")
          /\ pulls' = [pulls EXCEPT ![n][o] = Pull("FAILED", k)]
          /\ UNCHANGED <<store, ticket>>
       \/ /\ ~Present(n, o) /\ ~Conflicts(l) /\ ~Full(n)
          /\ Goto(l, "pin")
          /\ pulls' = [pulls EXCEPT ![n][o] = Pull("PULLING", k)]
          /\ store' = [store EXCEPT ![n][o] = Partial(0)]
          /\ ticket' = [ticket EXCEPT ![Transfer(l)] = "active"]
    /\ UNCHANGED <<clusterVars, faults, receipts, outcome, custody, session, late, taskVars, ownerVars>>

\* _handle_pin_object_for_transfer: refused behind the transfer's close fence, for a
\* requester known to be dead, behind the deletion watermark, or for another attempt.
Pinnable(t) ==
    LET n == Source(t) IN
    /\ n \in up /\ session[t] # "closed" /\ Target[t[1]] \notin dead
    /\ ~Deleted(n, t[2], Attempt(t)) /\ Holds(n, t[2], Attempt(t))

ServePin(t) == session' = IF Pinnable(t) THEN [session EXCEPT ![t] = "open"] ELSE session

\* The pin call is answered, its answer is lost, or it is given up and may arrive later.
Pin(l) ==
    LET t == Transfer(l) IN
    /\ At(l, "pin")
    /\ \/ ServePin(t) /\ Goto(l, IF Pinnable(t) THEN "read" ELSE "failed") /\ UNCHANGED <<faults, late>>
       \/ ServePin(t) /\ Goto(l, "failed") /\ Lost /\ UNCHANGED late
       \/ late' = late \cup {t} /\ Goto(l, "failed") /\ Lost /\ UNCHANGED session
    /\ UNCHANGED <<clusterVars, replicaVars, outcome, custody, ticket, taskVars, ownerVars>>

LatePin(t) ==
    /\ t \in late /\ Source(t) \in up
    /\ late' = late \ {t} /\ ServePin(t)
    /\ UNCHANGED <<clusterVars, faults, replicaVars, leaseVars, ticket, taskVars, ownerVars>>

\* _handle_get_object_chunk, receive_chunk: the bytes the source holds at that moment.
Read(l) ==
    LET t == Transfer(l)  n == Target[l]  o == Input(l) IN
    /\ At(l, "read")
    /\ \/ /\ Source(t) \in up /\ session[t] = "open"
          /\ store' = [store EXCEPT ![n][o] = Partial(store[Source(t)][o].attempt)]
          /\ Goto(l, "finish") /\ UNCHANGED faults
       \/ /\ Source(t) \notin up \/ session[t] # "open"
          /\ Goto(l, "failed") /\ UNCHANGED <<store, faults>>
       \/ Lost /\ Goto(l, "failed") /\ UNCHANGED store
    /\ UNCHANGED <<clusterVars, receipts, pulls, outcome, custody, pinVars, taskVars, ownerVars>>

\* finish_pull: the whole object has arrived, its checksum agrees and it has not been
\* deleted meanwhile.  The copy is readable and in the lease's custody at once.
Finish(l) ==
    LET n == Target[l]  o == Input(l)  k == Wanted(l) IN
    /\ At(l, "finish")
    /\ IF ~Deleted(n, o, k) /\ store[n][o] = Partial(k)
       THEN /\ store' = [store EXCEPT ![n][o] = Sealed(k)]
            /\ pulls' = [pulls EXCEPT ![n][o] = Pull("READY", k)]
            /\ custody' = [custody EXCEPT ![l] = Recorded(@, o)]
            /\ Goto(l, "release")
       ELSE Goto(l, "failed") /\ UNCHANGED <<store, pulls, custody>>
    /\ UNCHANGED <<clusterVars, faults, receipts, outcome, pinVars, taskVars, ownerVars>>

\* Mutant of Abort: the place of the failed pull is not given back.
AbortKeepingBuffer(l) ==
    LET n == Target[l]  o == Input(l) IN
    /\ At(l, "failed")
    /\ pulls' = [pulls EXCEPT ![n][o].state = "FAILED"]
    /\ Fails(l, "release")
    /\ UNCHANGED <<clusterVars, faults, store, receipts, outcome, custody, pinVars, taskVars, ownerVars>>

\* fail_pull, _fail_record: what has arrived is thrown away.
Abort(l) ==
    LET n == Target[l]  o == Input(l) IN
    /\ At(l, "failed")
    /\ store' = [store EXCEPT ![n][o] = Absent]
    /\ pulls' = [pulls EXCEPT ![n][o].state = "FAILED"]
    /\ Fails(l, "release")
    /\ UNCHANGED <<clusterVars, faults, receipts, outcome, custody, pinVars, taskVars, ownerVars>>

\* _handle_release_object_pin: close the transfer for ever, whether or not its pin came.
ServeRelease(t) == session' = [session EXCEPT ![t] = "closed"]

\* Mutant of Release: the obligation is given up with the last try.
ReleaseForgetful(l) ==
    LET t == Transfer(l) IN
    /\ At(l, "release")
    /\ ticket' = [ticket EXCEPT ![t] = "settled"]
    /\ \/ /\ Source(t) \in up /\ ServeRelease(t) /\ UNCHANGED faults
          /\ IF thread[l].failed THEN Goto(l, "exit") ELSE Advance(l)
       \/ /\ Source(t) \notin up /\ Goto(l, "exit") /\ UNCHANGED <<session, faults>>
       \/ /\ Lost /\ Goto(l, "exit") /\ UNCHANGED session
    /\ UNCHANGED <<clusterVars, replicaVars, outcome, custody, late, taskVars, ownerVars>>

\* _finish_source_pin_read: three tries.  If they all fail, the obligation stays, and the
\* localization fails even if the copy is already sealed.
Release(l) ==
    LET t == Transfer(l) IN
    /\ At(l, "release")
    /\ \/ /\ Source(t) \in up /\ ServeRelease(t) /\ UNCHANGED faults
          /\ ticket' = [ticket EXCEPT ![t] = "settled"]
          /\ IF thread[l].failed THEN Goto(l, "exit") ELSE Advance(l)
       \/ /\ Source(t) \notin up /\ Goto(l, "exit") /\ UNCHANGED <<session, faults>>
          /\ ticket' = [ticket EXCEPT ![t] = "closing"]
       \/ /\ Lost /\ Goto(l, "exit") /\ UNCHANGED session
          /\ ticket' = [ticket EXCEPT ![t] = "closing"]
    /\ UNCHANGED <<clusterVars, replicaVars, outcome, custody, late, taskVars, ownerVars>>

\* Mutant of Leave: the copy of a localization that fails is not recorded.
LeaveForgetful(l) ==
    LET o == Input(l) IN
    /\ At(l, "exit")
    /\ custody' = [custody EXCEPT ![l].pending = @ \ {o}, ![l].held = @ \ {o}]
    /\ outcome' = [outcome EXCEPT ![l] = "rejected"]
    /\ Goto(l, "idle")
    /\ UNCHANGED <<clusterVars, faults, replicaVars, pinVars, taskVars, ownerVars>>

\* The exception path: a copy that was sealed stays in the lease's custody; without one,
\* or with another attempt's that was there before, there is nothing to keep.  Another
\* attempt's copy that appeared meanwhile settles nothing, and the candidate stays.
Leave(l) ==
    LET n == Target[l]  o == Input(l) IN
    /\ At(l, "exit")
    /\ custody' = [custody EXCEPT ![l] =
                      IF Holds(n, o, Wanted(l)) THEN Recorded(@, o)
                      ELSE IF store[n][o].state # "sealed" \/ thread[l].before THEN Discarded(@, o)
                      ELSE @]
    /\ outcome' = [outcome EXCEPT ![l] = "rejected"]
    /\ Goto(l, "idle")
    /\ UNCHANGED <<clusterVars, faults, replicaVars, pinVars, taskVars, ownerVars>>

\* With every input still there the lease is granted, or refused for want of resources.
Grant(l) ==
    /\ At(l, "localized")
    /\ Goto(l, "idle")
    /\ outcome' = [outcome EXCEPT ![l] =
                      IF \A o \in InputSet(l) : Holds(Target[l], o, desc[l][o].attempt)
                      THEN "granted" ELSE "rejected"]
    /\ UNCHANGED <<clusterVars, faults, replicaVars, custody, pinVars, taskVars, ownerVars>>

Refuse(l) ==
    /\ At(l, "localized")
    /\ Goto(l, "idle")
    /\ outcome' = [outcome EXCEPT ![l] = "refused"]
    /\ UNCHANGED <<clusterVars, faults, replicaVars, custody, pinVars, taskVars, ownerVars>>

-----------------------------------------------------------------------------
(* Source pins that outlive their pull *)

\* _drive_source_pin_releases: repeated until the source answers or is known to be dead.
CloseTicket(t) ==
    /\ ticket[t] = "closing" /\ Target[t[1]] \in up
    /\ \/ Source(t) \in up /\ ServeRelease(t)
       \/ Source(t) \in dead /\ UNCHANGED session
    /\ ticket' = [ticket EXCEPT ![t] = "settled"]
    /\ UNCHANGED <<clusterVars, faults, replicaVars, leaseVars, late, taskVars, ownerVars>>

\* _drive_transfer_pins: the source closes the pins of a Node it learns is dead.
CloseSession(t) ==
    /\ session[t] = "open" /\ Source(t) \in up /\ Target[t[1]] \in dead
    /\ ServeRelease(t)
    /\ UNCHANGED <<clusterVars, faults, replicaVars, leaseVars, ticket, late, taskVars, ownerVars>>

-----------------------------------------------------------------------------
(* The submitter *)

\* A live submitter keeps a hold on the inputs of its Task until the Task ends.
Holding == {"asking", "granted", "cancelling", "cancelled", "running"}
Held(o) == \E l \in Leases : o \in InputSet(l) /\ task[l] \in Holding

\* The request names a known location of each input.
Submit(l) ==
    /\ task[l] = "new"
    /\ \A o \in InputSet(l) : owner[o].state = "ready"
    /\ task' = [task EXCEPT ![l] = "asking"]
    /\ \E sources \in [InputSet(l) -> Nodes] :
          /\ \A o \in InputSet(l) : sources[o] \in owner[o].locs
          /\ desc' = [desc EXCEPT ![l] = [o \in InputSet(l) |->
                                            [source |-> sources[o], attempt |-> owner[o].attempt]]]
    /\ UNCHANGED <<clusterVars, faults, replicaVars, leaseVars, pinVars, reported, doomed, ownerVars>>

\* The answer: a grant, a refusal for good, one for want of resources (the request may be
\* repeated, or given up), or none.
Learn(l) ==
    /\ task[l] = "asking" /\ At(l, "idle")
    /\ \/ /\ outcome[l] = "granted"
          /\ task' = [task EXCEPT ![l] = "granted"] /\ UNCHANGED <<doomed, faults>>
       \/ /\ outcome[l] \in {"rejected", "refused"}
          /\ task' = [task EXCEPT ![l] = "cancelling"]
          /\ doomed' = doomed \cup {l} /\ UNCHANGED faults
    /\ UNCHANGED <<clusterVars, replicaVars, leaseVars, pinVars, desc, reported, ownerVars>>

GiveUp(l) ==
    /\ task[l] = "asking" /\ Lost
    /\ task' = [task EXCEPT ![l] = "cancelling"] /\ doomed' = doomed \cup {l}
    /\ UNCHANGED <<clusterVars, replicaVars, leaseVars, pinVars, desc, reported, ownerVars>>

\* _reconcile_localization_candidates: what a candidate left behind, told from the store.
Reconciled(l) ==
    LET n == Target[l] IN
    [custody[l] EXCEPT
        !.pending = {o \in @ : store[n][o].state = "sealed" /\ ~Holds(n, o, desc[l][o].attempt)},
        !.held = @ \cup {o \in custody[l].pending : Holds(n, o, desc[l][o].attempt)}]

\* _handle_cancel_worker_lease: waits for the thread, resolves the candidates, and fences
\* the lease with the inventory of the copies it holds.  Without an answer it is repeated.
Cancel(l) ==
    /\ task[l] = "cancelling" \/ (task[l] = "granted" /\ l \in doomed)
    /\ At(l, "idle")
    /\ custody' = [custody EXCEPT ![l] = Reconciled(l)]
    /\ IF Reconciled(l).pending = {}
       THEN /\ outcome' = [outcome EXCEPT ![l] = "cancelled"]
            /\ task' = [task EXCEPT ![l] = "cancelled"]
       ELSE UNCHANGED <<outcome, task>>
    /\ UNCHANGED <<clusterVars, faults, replicaVars, thread, pinVars, desc, reported, doomed, ownerVars>>

\* The copies a submitter has to hand over: those of the grant, or of the inventory.
Inventory(l) == custody[l].held

\* _record_replica_custody_locked: the copy of a current attempt becomes a location, and
\* brings a lost object back; one of a retired object or attempt is kept for deletion; a
\* location on a dead Node is refused.
Retired(o, k) == owner[o].state = "retired" \/ owner[o].attempt # k
Accepts(n, o, k) ==
    IF Retired(o, k)
    THEN owed' = (IF n \in dead THEN owed ELSE owed \cup {<<n, o, k>>}) /\ UNCHANGED owner
    ELSE /\ owner' = [owner EXCEPT ![o].state = "ready", ![o].locs = @ \cup {n}]
         /\ UNCHANGED owed

\* Mutant of Report: a copy of a retired attempt is refused, again and again.
ReportRefused(l, o) ==
    /\ task[l] \in {"granted", "cancelled"} /\ o \in Inventory(l) \ reported[l]
    /\ Target[l] \notin dead
    /\ ~Retired(o, desc[l][o].attempt)
    /\ Accepts(Target[l], o, desc[l][o].attempt)
    /\ reported' = [reported EXCEPT ![l] = @ \cup {o}]
    /\ UNCHANGED <<clusterVars, faults, replicaVars, leaseVars, pinVars, desc, task, doomed>>

\* _drive_location_handoff: each copy is reported to its owner until it is answered; a
\* copy that is only kept for deletion means that the Task must not run.
Report(l, o) ==
    /\ task[l] \in {"granted", "cancelled"} /\ o \in Inventory(l) \ reported[l]
    /\ Target[l] \notin dead
    /\ Accepts(Target[l], o, desc[l][o].attempt)
    /\ \/ /\ reported' = [reported EXCEPT ![l] = @ \cup {o}]
          /\ doomed' = IF Retired(o, desc[l][o].attempt) THEN doomed \cup {l} ELSE doomed
          /\ UNCHANGED faults
       \/ Lost /\ UNCHANGED <<reported, doomed>>
    /\ UNCHANGED <<clusterVars, replicaVars, leaseVars, pinVars, desc, task>>

\* _handle_ack_lease_dependency_custody: once every owner has its copy, and the lease is
\* granted or, for a Task that must not run, cancelled.
Ack(l) ==
    /\ task[l] \in {"granted", "cancelled"} /\ Target[l] \in up
    /\ Inventory(l) \subseteq reported[l]
    /\ l \in doomed => task[l] = "cancelled"
    /\ custody[l].handed = "no"
    /\ custody' = [custody EXCEPT ![l].handed = "acked"]
    /\ UNCHANGED <<clusterVars, faults, replicaVars, thread, outcome, pinVars, taskVars, ownerVars>>

\* Mutant of Proceed: the Task is pushed although a copy is to be deleted.
ProceedAnyway(l) ==
    /\ task[l] = "granted" /\ Inventory(l) \subseteq reported[l]
    /\ task' = [task EXCEPT ![l] = "running"]
    /\ UNCHANGED <<clusterVars, faults, replicaVars, leaseVars, pinVars, desc, reported, doomed, ownerVars>>

\* The Task is pushed, or ends in an error.
Proceed(l) ==
    /\ task[l] \in {"granted", "cancelled"} /\ custody[l].handed = "acked"
    /\ task' = [task EXCEPT ![l] = IF l \in doomed THEN "ended" ELSE "running"]
    /\ UNCHANGED <<clusterVars, faults, replicaVars, leaseVars, pinVars, desc, reported, doomed, ownerVars>>

End(l) ==
    /\ task[l] = "running"
    /\ task' = [task EXCEPT ![l] = "ended"]
    /\ UNCHANGED <<clusterVars, faults, replicaVars, leaseVars, pinVars, desc, reported, doomed, ownerVars>>

\* observe_target: the death of the lease's Node ends the hand-off.
TargetLost(l) ==
    /\ task[l] \in Holding /\ Target[l] \in dead
    /\ task' = [task EXCEPT ![l] = "ended"]
    /\ UNCHANGED <<clusterVars, faults, replicaVars, leaseVars, pinVars, desc, reported, doomed, ownerVars>>

SubmitterExit(l) ==
    /\ l \in MortalTasks /\ task[l] \in Holding
    /\ task' = [task EXCEPT ![l] = "exited"]
    /\ UNCHANGED <<clusterVars, faults, replicaVars, leaseVars, pinVars, desc, reported, doomed, ownerVars>>

\* Candidates that are left, or copies of a lease the Node has not taken over.
Unresolved(l) == custody[l].pending # {} \/ (custody[l].held # {} /\ ~custody[l].abandoned)

\* _drive_abandoned_dependency_custody: the Node takes over a dead submitter's hand-off,
\* one owner at a time; each round resolves the candidates that are left.
Abandon(l) ==
    /\ task[l] = "exited" /\ At(l, "idle") /\ custody[l].handed = "no" /\ Unresolved(l)
    /\ custody' = [custody EXCEPT ![l] = [Reconciled(l) EXCEPT !.abandoned = TRUE]]
    /\ outcome' = [outcome EXCEPT ![l] = IF @ = "granted" THEN "cancelled" ELSE @]
    /\ UNCHANGED <<clusterVars, faults, replicaVars, thread, pinVars, taskVars, ownerVars>>

HandOver(l, o) ==
    /\ Target[l] \in up \ dead /\ custody[l].abandoned /\ custody[l].handed = "no"
    /\ custody[l].pending = {} /\ o \in custody[l].held \ custody[l].given
    /\ Accepts(Target[l], o, desc[l][o].attempt)
    /\ \/ custody' = [custody EXCEPT ![l].given = @ \cup {o}] /\ UNCHANGED faults
       \/ Lost /\ UNCHANGED custody
    /\ UNCHANGED <<clusterVars, replicaVars, thread, outcome, pinVars, taskVars>>

HandedOver(l) ==
    /\ Target[l] \in up /\ custody[l].abandoned /\ custody[l].handed = "no"
    /\ custody[l].pending = {} /\ custody[l].held \subseteq custody[l].given
    /\ custody' = [custody EXCEPT ![l].handed = "abandoned"]
    /\ UNCHANGED <<clusterVars, faults, replicaVars, thread, outcome, pinVars, taskVars, ownerVars>>

-----------------------------------------------------------------------------
(* The owner *)

\* _handle_seal_object: the result of an attempt is put into its Node's store.  A result
\* that cannot be stored is as good as deleted, and the attempt has failed.
Produce(n, o) ==
    LET k == owner[o].attempt IN
    /\ owner[o].state = "pending" /\ n \in Makers \cap up
    /\ IF ~Deleted(n, o, k) /\ ~Present(n, o) /\ ~Full(n)
       THEN /\ store' = [store EXCEPT ![n][o] = Sealed(k)]
            /\ owner' = [owner EXCEPT ![o].state = "ready", ![o].locs = {n}]
            /\ UNCHANGED receipts
       ELSE /\ receipts' = IF Present(n, o) THEN receipts ELSE receipts \cup {<<n, o, k>>}
            /\ owner' = [owner EXCEPT ![o] = IF k < Attempts THEN [@ EXCEPT !.attempt = k + 1]
                                                            ELSE [@ EXCEPT !.state = "failed"]]
            /\ UNCHANGED store
    /\ UNCHANGED <<clusterVars, faults, pulls, leaseVars, pinVars, taskVars, owed>>

\* A lost object is produced again, under the next attempt.
Reconstruct(o) ==
    /\ owner[o].state = "lost" /\ owner[o].attempt < Attempts
    /\ owner' = [owner EXCEPT ![o].state = "pending", ![o].attempt = @ + 1]
    /\ UNCHANGED <<clusterVars, faults, replicaVars, leaseVars, pinVars, taskVars, owed>>

\* Nothing needs the object: every known copy has to be deleted.
Collect(o) ==
    /\ owner[o].state \in {"ready", "lost"} /\ ~Held(o)
    /\ owner' = [owner EXCEPT ![o].state = "retired", ![o].locs = {}]
    /\ owed' = owed \cup (owner[o].locs \X {o} \X {owner[o].attempt})
    /\ UNCHANGED <<clusterVars, faults, replicaVars, leaseVars, pinVars, taskVars>>

\* Mutant of Droppable: a copy is deleted under the pin of a transfer.
DroppablePinned(n, o, k) == Holds(n, o, k) /\ ~Leased(n, o)

\* _drop_sealed_replica_locked: the exact copy, which no transfer or lease has pinned.
Droppable(n, o, k) == Holds(n, o, k) /\ ~Pinned(n, o) /\ ~Leased(n, o)

\* _handle_drop_object_replica: a copy is deleted once, and a deleted one stays deleted.
\* The owner repeats the call until it is answered so.
Drop(n, o, k) ==
    /\ <<n, o, k>> \in owed /\ n \in up /\ ~Locked(n, o)
    /\ \/ <<n, o, k>> \in receipts /\ UNCHANGED replicaVars
       \/ /\ <<n, o, k>> \notin receipts /\ Droppable(n, o, k)
          /\ store' = [store EXCEPT ![n][o] = Absent]
          /\ receipts' = receipts \cup {<<n, o, k>>}
          /\ pulls' = [pulls EXCEPT ![n][o] = IF @.attempt = k THEN NoPull ELSE @]
    /\ \/ owed' = owed \ {<<n, o, k>>} /\ UNCHANGED faults
       \/ Lost /\ UNCHANGED owed
    /\ UNCHANGED <<clusterVars, leaseVars, pinVars, taskVars, owner>>

-----------------------------------------------------------------------------
(* Nodes *)

Idle == [pc |-> "idle", input |-> 1, round |-> 0, failed |-> FALSE, before |-> FALSE]
NoCustody == [pending |-> {}, held |-> {}, given |-> {}, handed |-> "no", abandoned |-> FALSE]

\* Everything the Node kept is gone with it.
NodeExit(n) ==
    /\ n \in Mortal \cap up
    /\ up' = up \ {n}
    /\ store' = [store EXCEPT ![n] = [o \in Objects |-> Absent]]
    /\ pulls' = [pulls EXCEPT ![n] = [o \in Objects |-> NoPull]]
    /\ receipts' = {c \in receipts : c[1] # n}
    /\ thread' = [l \in Leases |-> IF Target[l] = n THEN [Idle EXCEPT !.round = thread[l].round]
                                                   ELSE thread[l]]
    /\ ticket' = [t \in Transfers |-> IF Target[t[1]] = n THEN "none" ELSE ticket[t]]
    /\ session' = [t \in Transfers |-> IF task[t[1]] # "new" /\ t[2] \in InputSet(t[1]) /\ Source(t) = n
                                       THEN "none" ELSE session[t]]
    /\ UNCHANGED <<dead, faults, outcome, custody, late, taskVars, ownerVars>>

\* handle_node_death: the owners forget its copies, and have none of them to delete.
HandleDeath(n) ==
    /\ n \notin up \cup dead
    /\ dead' = dead \cup {n}
    /\ owner' = [o \in Objects |->
                    [owner[o] EXCEPT !.locs = @ \ {n},
                                     !.state = IF @ = "ready" /\ owner[o].locs = {n} THEN "lost" ELSE @]]
    /\ owed' = {c \in owed : c[1] # n}
    /\ UNCHANGED <<up, faults, replicaVars, leaseVars, pinVars, taskVars>>

-----------------------------------------------------------------------------
Init ==
    /\ up = Nodes /\ dead = {} /\ faults = 0
    /\ store = [n \in Nodes |-> [o \in Objects |-> Absent]]
    /\ pulls = [n \in Nodes |-> [o \in Objects |-> NoPull]]
    /\ receipts = {}
    /\ thread = [l \in Leases |-> Idle]
    /\ outcome = [l \in Leases |-> "none"]
    /\ custody = [l \in Leases |-> NoCustody]
    /\ ticket = [t \in Transfers |-> "none"]
    /\ session = [t \in Transfers |-> "none"]
    /\ late = {}
    /\ desc = [l \in Leases |-> <<>>]
    /\ task = [l \in Leases |-> "new"]
    /\ reported = [l \in Leases |-> {}]
    /\ doomed = {}
    /\ owner = [o \in Objects |-> [state |-> "pending", attempt |-> 1, locs |-> {}]]
    /\ owed = {}

LeaseNext(l) ==
    \/ Enter(l) \/ Check(l) \/ Request(l) \/ Pin(l) \/ Read(l) \/ Finish(l) \/ Abort(l)
    \/ Release(l) \/ Leave(l) \/ Grant(l) \/ Refuse(l)
    \/ Submit(l) \/ Learn(l) \/ GiveUp(l) \/ Cancel(l) \/ Ack(l) \/ Proceed(l) \/ End(l)
    \/ TargetLost(l) \/ SubmitterExit(l) \/ Abandon(l) \/ HandedOver(l)
    \/ \E o \in InputSet(l) : Report(l, o) \/ HandOver(l, o)

Next ==
    \/ \E l \in Leases : LeaseNext(l)
    \/ \E t \in Transfers : LatePin(t) \/ CloseTicket(t) \/ CloseSession(t)
    \/ \E o \in Objects : Reconstruct(o) \/ Collect(o)
    \/ \E n \in Nodes, o \in Objects : Produce(n, o) \/ \E k \in 1..Attempts : Drop(n, o, k)
    \/ \E n \in Nodes : NodeExit(n) \/ HandleDeath(n)

Spec == Init /\ [][Next]_vars

\* A Node serves the requests it has accepted and drives what it still has to release or
\* hand over; a submitter repeats its calls until they are answered; recorded deaths reach
\* everybody.  Nothing makes a Task end, an object be collected, or a process exit.  Each
\* of these steps happens finitely often, so fairness to all of them together is enough.
Driven(l) ==
    \/ Check(l) \/ Request(l) \/ Pin(l) \/ Read(l) \/ Finish(l) \/ Abort(l) \/ Release(l)
    \/ Leave(l) \/ Grant(l) \/ Learn(l) \/ Cancel(l) \/ Ack(l) \/ Abandon(l) \/ HandedOver(l)
    \/ TargetLost(l) \/ \E o \in InputSet(l) : Report(l, o) \/ HandOver(l, o)

FairSpec ==
    /\ Spec
    /\ WF_vars(\/ \E l \in Leases : Driven(l)
               \/ \E t \in Transfers : CloseTicket(t) \/ CloseSession(t)
               \/ \E n \in Nodes : HandleDeath(n))

-----------------------------------------------------------------------------
(* Properties *)

ThreadStates == Locking \cup {"idle", "check", "localized"}

\* Every variable has its type.
TypeOK ==
    /\ up \subseteq Nodes /\ dead \subseteq Nodes \ up /\ faults \in 0..MaxFaults
    /\ store \in [Nodes -> [Objects -> [state : {"absent", "partial", "sealed"}, attempt : 0..Attempts]]]
    /\ receipts \subseteq Copies
    /\ pulls \in [Nodes -> [Objects -> [state : {"none", "PULLING", "READY", "FAILED"}, attempt : 0..Attempts]]]
    /\ thread \in [Leases -> [pc : ThreadStates, input : Nat, round : 0..Rounds,
                              failed : BOOLEAN, before : BOOLEAN]]
    /\ outcome \in [Leases -> {"none", "granted", "refused", "rejected", "cancelled"}]
    /\ custody \in [Leases -> [pending : SUBSET Objects, held : SUBSET Objects, given : SUBSET Objects,
                               handed : {"no", "acked", "abandoned"}, abandoned : BOOLEAN]]
    /\ ticket \in [Transfers -> {"none", "active", "closing", "settled"}]
    /\ session \in [Transfers -> {"none", "open", "closed"}]
    /\ late \subseteq Transfers /\ doomed \subseteq Leases /\ owed \subseteq Copies
    /\ task \in [Leases -> Holding \cup {"new", "ended", "exited"}]
    /\ reported \in [Leases -> SUBSET Objects]
    /\ owner \in [Objects -> [state : {"pending", "ready", "lost", "retired", "failed"},
                              attempt : 1..Attempts, locs : SUBSET Nodes]]

\* While a source holds a pin for a transfer, the exact copy the transfer reads is in its
\* store: no deletion, production or late call replaces the bytes under a reader.
PinKeepsReplica ==
    \A t \in Transfers :
        session[t] = "open" /\ Source(t) \in up => Holds(Source(t), t[2], Attempt(t))

\* A place taken in a store for bytes that are still to come belongs to a pull that is
\* under way: whatever becomes of the pull, the place comes back.
RoomComesBack ==
    \A n \in up, o \in Objects :
        store[n][o].state = "partial" =>
            /\ pulls[n][o].state = "PULLING"
            /\ \E l \in Leases : /\ Target[l] = n /\ Input(l) = o
                                 /\ thread[l].pc \in {"pin", "read", "finish", "failed"}

\* A copy that a Node has told its owner is deleted does not come back, nor does one of an
\* earlier attempt: no pull that was under way, and no late result, brings it back.
NothingReturns ==
    \A c \in receipts :
        LET entry == store[c[1]][c[2]] IN entry.state = "sealed" => entry.attempt > c[3]

\* Every copy in a store is known to the owner, as a location or for deletion, or is still
\* in the custody of a lease that has not handed it over; and a location the owner gives
\* to others does hold the bytes; nor has a deleted copy come back.
CustodyAccountedFor ==
    /\ TypeOK
    /\ NothingReturns
    /\ \A n \in up, o \in Objects :
          /\ n \in owner[o].locs => Holds(n, o, owner[o].attempt)
          /\ \A k \in 1..Attempts : Holds(n, o, k) =>
                \/ n \in owner[o].locs /\ owner[o].attempt = k
                \/ <<n, o, k>> \in owed
                \/ \E l \in Leases :
                      /\ Target[l] = n /\ o \in custody[l].pending \cup custody[l].held
                      /\ desc[l][o].attempt = k /\ custody[l].handed = "no"

\* A Task that runs has every input in the store of its Node, of the attempt it asked for,
\* and at a location the owner knows, for as long as the Node runs.
InputsStay ==
    \A l \in Leases : task[l] = "running" /\ Target[l] \in up =>
        \A o \in InputSet(l) :
            Holds(Target[l], o, desc[l][o].attempt) /\ Target[l] \in owner[o].locs

\* A source pin is released, although release calls are lost and either Node may exit.
PinsReleased ==
    \A t \in Transfers : (session[t] = "open") ~> (session[t] # "open" \/ Source(t) \notin up)

Unsettled(l) == custody[l].handed = "no" /\ custody[l].pending \cup custody[l].held # {}

\* What a lease localized ends in its owners' hands, although calls are lost, and although
\* the submitter exits before, during or after the hand-off.
CustodySettles ==
    \A l \in Leases :
        Unsettled(l) ~> (~Unsettled(l) \/ Target[l] \notin up)
=============================================================================

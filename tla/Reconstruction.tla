--------------------------- MODULE Reconstruction ---------------------------
(***************************************************************************)
(* Lineage recovery: how an owner (CoreWorker, core.py) produces lost      *)
(* outputs of Tasks again by running the Tasks once more.                  *)
(*                                                                         *)
(* A get of a LOST output previews the Tasks that have to run (its own and *)
(* those of the inputs that are lost too), renews the holds of their       *)
(* inputs that other processes own, retires the lost publications, and     *)
(* commits all of them at once; each of these steps takes the owner's      *)
(* state lock anew, and several gets, of this process or asked for by      *)
(* another one (owner_reconstruction.py), run them at the same time.       *)
(* recovery.py keeps the retry budget, reconstruction_runtime.py the       *)
(* reconstructions that are active, foreign_lineage_runtime.py the holds.  *)
(*                                                                         *)
(* A Task has one output.  Attempts are numbers, and a Task's inputs have  *)
(* smaller names than the Task.  At the start every Task has succeeded     *)
(* once.  One process owns all outputs; F, of ForeignLineage.tla, owns the *)
(* others.  The execution of an attempt is one step (TaskDispatch.tla).    *)
(***************************************************************************)
EXTENDS ForeignLineage, FiniteSetsExt

CONSTANTS
    Deps,           \* the inputs of each Task that this process owns
    Getters,
    Wants,          \* the output each getter asks for
    Remote,         \* the getters of other processes
    MaxLosses       \* bound on losses of outputs

ASSUME ReconstructionAssumption ==
    /\ Deps \in [Tasks -> SUBSET Tasks]
    /\ \A t \in Tasks : \A d \in Deps[t] : d < t
    /\ Wants \in [Getters -> Tasks]
    /\ Remote \subseteq Getters
    /\ MaxLosses \in Nat

VARIABLES
    owner,      \* the owner's entry of each output
    rec,        \* the retry record of each Task
    sessions,   \* the Tasks with an active reconstruction
    handoffs,   \* the attempts whose queueing is recorded
    enqueued,   \* how often each attempt has been queued
    jobs,       \* the pending executions
    barrier,    \* the outputs whose execution is not finished
    finishedTasks,   \* the Tasks whose execution is finished
    holds,      \* submitted holds: <<input, Task, attempt>>
    retire,     \* who drives the retirement of an output's publication
    coll,       \* the outputs being collected
    getter,     \* the threads that serve a get
    held,       \* the getters that hold their reference
    losses      \* outputs lost so far

recoveryVars == <<rec, sessions, handoffs>>
jobVars == <<enqueued, jobs, barrier, finishedTasks, holds>>
getterVars == <<getter, held>>
vars == <<owner, recoveryVars, jobVars, retire, coll, getterVars, losses, foreignVars>>

NoAttempt == MaxRetries + 1

Idle(out) == [pc |-> "done", outcome |-> out, asked |-> NoAttempt, plan |-> <<>>,
              driven |-> {}, retired |-> {}, gaveup |-> FALSE]

RecoveryInit ==
    /\ owner = [t \in Tasks |-> [state |-> "READY", attempt |-> 0, member |-> TRUE]]
    /\ rec = [t \in Tasks |-> [state |-> "SUCCEEDED", attempt |-> 0, active |-> NoAttempt]]
    /\ sessions = {} /\ handoffs = {} /\ jobs = {} /\ barrier = {} /\ holds = {} /\ coll = {}
    /\ enqueued = [t \in Tasks |-> [a \in Attempts |-> IF a = 0 THEN 1 ELSE 0]]
    /\ finishedTasks = Tasks
    /\ retire = [t \in Tasks |-> "none"]
    /\ getter = [g \in Getters |-> Idle("value")]
    /\ held = Getters
    /\ losses = 0
    /\ ForeignInit

At(g, pc) == getter[g].pc = pc
Goto(g, pc) == getter' = [getter EXCEPT ![g].pc = pc]

\* The thread's pass is over: its caller looks again, or has given it up.
Again(g) ==
    getter' = [getter EXCEPT ![g] = IF @.gaveup THEN Idle("gaveup") ELSE [Idle("none") EXCEPT !.pc = "poll"]]
Ends(g, out) == getter' = [getter EXCEPT ![g] = Idle(IF @.gaveup THEN "gaveup" ELSE out)]

Plan(g) == getter[g].plan
Planned(g) == DOMAIN Plan(g)

-----------------------------------------------------------------------------
(* The preflight *)

\* request_reconstruction has no attempt left to start.
Exhausted(t) == rec[t].attempt = MaxRetries

\* preflight_graph: the outputs it visits; only a lost one has its inputs visited.
Visited(want) ==
    LET reach[t \in Tasks] ==
            {t} \cup IF owner[t].state = "LOST" THEN UNION {reach[d] : d \in Deps[t]} ELSE {}
    IN reach[want]

\* What makes preflight_graph, or the preview of one of its nodes, fail.
Blemished(t) ==
    \/ t \in coll \/ owner[t].state \in {"ERROR", "GONE"}
    \/ owner[t].attempt # rec[t].attempt
    \/ owner[t].state = "PENDING" /\ rec[t].active # owner[t].attempt
    \/ owner[t].state = "LOST" /\ (rec[t].state # "SUCCEEDED" \/ Exhausted(t))

\* The start of a get; only one of a lost output is of interest here, and no caller tries
\* again after an error.
Get(g) ==
    /\ g \in held /\ At(g, "done") /\ getter[g].outcome = "value" /\ owner[Wants[g]].state = "LOST"
    /\ getter' = [getter EXCEPT ![g] = [Idle("none") EXCEPT !.pc = "poll"]]
    /\ UNCHANGED <<owner, recoveryVars, jobVars, retire, coll, held, losses, foreignVars>>

\* get: a look at the output.  A get waits for the end of a retirement and of an execution.
Poll(g) ==
    LET t == Wants[g] IN
    /\ At(g, "poll") /\ g \notin Remote
    /\ \/ owner[t].state = "READY" /\ Ends(g, "value")
       \/ owner[t].state \in {"ERROR", "GONE"} /\ Ends(g, "error")
       \/ /\ owner[t].state = "LOST" /\ t \notin barrier /\ retire[t] = "none"
          /\ Goto(g, "plan")
    /\ UNCHANGED <<owner, recoveryVars, jobVars, retire, coll, held, losses, foreignVars>>

\* get_owned_object: the owner's answer to a borrower.
Shown(t) == [owner[t] EXCEPT !.state = IF @ = "GONE" THEN "ERROR" ELSE @]

\* _get_borrowed_object: another process looks at the output, and asks the owner to produce
\* it again after the attempt it was shown.
PollRemote(g) ==
    LET reply == Shown(Wants[g]) IN
    /\ At(g, "poll") /\ g \in Remote
    /\ \/ reply.state = "READY" /\ Ends(g, "value")
       \/ reply.state = "ERROR" /\ Ends(g, "error")
       \/ /\ reply.state = "LOST"
          /\ getter' = [getter EXCEPT ![g].pc = "ask", ![g].asked = reply.attempt]
    /\ UNCHANGED <<owner, recoveryVars, jobVars, retire, coll, held, losses, foreignVars>>

\* _is_join_of_active_reconstruction.
Joins(g) ==
    LET t == Wants[g] IN
    rec[t].active # NoAttempt /\ rec[t].active = owner[t].attempt /\ rec[t].active > getter[g].asked

\* OwnedObjectReconstructionReducer.handle: the owner's checks of a remote request.  An
\* active reconstruction of a later attempt is joined.  (Its cache of replies to repeated
\* requests changes nothing here.)
HandleReconstruction(g) ==
    LET t == Wants[g] IN
    /\ At(g, "ask")
    /\ IF owner[t].state = "GONE" \/ g \notin held THEN Ends(g, "error")
       ELSE IF owner[t].attempt # getter[g].asked /\ ~Joins(g) THEN Again(g)
       ELSE IF t \in coll \/ (~Joins(g) /\ owner[t].state # "LOST") THEN Again(g)
       ELSE IF rec[t].active = NoAttempt /\ Exhausted(t) THEN Ends(g, "error")
       ELSE Goto(g, "plan")
    /\ UNCHANGED <<owner, recoveryVars, jobVars, retire, coll, held, losses, foreignVars>>

\* _start_or_join_reconstruction, up to the first release of the lock: a plan that is only a
\* preview, the lost outputs with the attempts that would produce them again.
Preflight(g) ==
    LET t == Wants[g]
        lost == {d \in Tasks : d \in Visited(t) /\ owner[d].state = "LOST"}
    IN
    /\ At(g, "plan")
    /\ IF owner[t].state # "LOST" \/ t \in barrier THEN Again(g)
       ELSE IF \E d \in Visited(t) : Blemished(d) THEN Ends(g, "error")
       ELSE IF lost \cap barrier # {} THEN Again(g)
       ELSE getter' = [getter EXCEPT ![g].pc = "drive",
                                     ![g].plan = [d \in lost |-> owner[d].attempt + 1]]
    /\ UNCHANGED <<owner, recoveryVars, jobVars, retire, coll, held, losses, foreignVars>>

-----------------------------------------------------------------------------
(* The renewal of the foreign holds, one Task after the other, without the lock *)

Undriven(g) == {t \in Planned(g) : Registered(t)} \ getter[g].driven
Driving(g) == Min(Undriven(g))

Drive(g) ==
    /\ At(g, "drive") /\ Undriven(g) # {}
    /\ LET t == Driving(g)
           a == Plan(g)[t]
       IN IF Conflict(t, a) THEN Ends(g, "conflict") /\ UNCHANGED renewal
          ELSE IF Refused(t, a) THEN Ends(g, "error") /\ UNCHANGED renewal
          ELSE IF Driven(t, a) THEN Again(g) /\ UNCHANGED renewal
          ELSE /\ BeginDrive(t, a)
               /\ Goto(g, IF Asks(t, a) THEN "replace"
                          ELSE IF Opened(t, a).acked /\ ~Opened(t, a).failed THEN "query" ELSE "conclude")
    /\ UNCHANGED <<owner, recoveryVars, jobVars, retire, coll, held, losses>>
    /\ UNCHANGED <<edge, holdVars, borrow, fobj, late, fup, fdead, faults>>

After(answer) == IF answer = "replaced" THEN "query" ELSE "conclude"

\* The request and its answer, with what may be lost of them.
Replace(g) ==
    LET t == Driving(g)
        old == edge[t].hold
        new == Plan(g)[t]
    IN
    /\ At(g, "replace")
    /\ \/ /\ fup /\ Serve(t, old, new) /\ ReplaceAnswered(t, Verdict(t, old, new))
          /\ Goto(g, After(Verdict(t, old, new)))
          /\ UNCHANGED <<late, faults>>
       \/ /\ fup /\ Lost /\ Serve(t, old, new) /\ ReplaceAnswered(t, "lost")
          /\ Goto(g, "conclude") /\ UNCHANGED late
       \/ /\ fup /\ Lost /\ late' = late \cup {<<t, old, new>>} /\ ReplaceAnswered(t, "lost")
          /\ Goto(g, "conclude") /\ UNCHANGED holdVars
       \/ /\ ~fup /\ ReplaceAnswered(t, IF fdead THEN "rejected" ELSE "lost")
          /\ Goto(g, "conclude") /\ UNCHANGED <<holdVars, late, faults>>
    /\ UNCHANGED <<owner, recoveryVars, jobVars, retire, coll, held, losses>>
    /\ UNCHANGED <<borrow, fobj, fup, fdead>>

\* The pass goes on with the next Task, or ends the get or this attempt at it.
Concluded(g, found) ==
    LET t == Driving(g)
        s == renewal[t]
    IN
    /\ EndDrive(t, found)
    /\ IF s.failed \/ found = "failed" \/ (found = "found" /\ fdead) THEN Ends(g, "error")
       ELSE IF found # "found" THEN Again(g)
       ELSE getter' = [getter EXCEPT ![g].pc = "drive", ![g].driven = @ \cup {t}]

ConcludeDrive(g) ==
    /\ At(g, "conclude") /\ Concluded(g, "none")
    /\ UNCHANGED <<owner, recoveryVars, jobVars, retire, coll, held, losses>>
    /\ UNCHANGED <<edge, holdVars, borrow, fobj, late, fup, fdead, faults>>

\* The look-up of the input, or the request for its reconstruction, may be lost.
QueryInput(g) ==
    /\ At(g, "query")
    /\ \/ Requested(Driving(g)) /\ Concluded(g, Query(Driving(g))) /\ UNCHANGED faults
       \/ fup /\ Lost /\ UNCHANGED fobj /\ Concluded(g, "waiting")
    /\ UNCHANGED <<owner, recoveryVars, jobVars, retire, coll, held, losses>>
    /\ UNCHANGED <<edge, holdVars, borrow, late, fup, fdead>>

-----------------------------------------------------------------------------
(* The second and the third time under the lock *)

\* preview against the plan: "same" when the plan still holds, "other" when another plan or
\* another thread's reconstruction has taken its place, "error" when there is none.
Preview(t, a) ==
    IF t \in coll \/ owner[t].state = "GONE" THEN "error"
    ELSE IF t \in sessions THEN "other"
    ELSE IF owner[t].state # "LOST" THEN "error"
    ELSE IF owner[t].attempt + 1 = a /\ ~Exhausted(t) THEN "same" ELSE "other"

\* prepare also needs the lost publication to be retired.
Prepare(t, a) ==
    IF Preview(t, a) = "same" /\ (owner[t].member \/ retire[t] # "none") THEN "error" ELSE Preview(t, a)

Previewed(g) == [t \in Planned(g) |-> Preview(t, Plan(g)[t])]
Prepared(g) == [t \in Planned(g) |-> Prepare(t, Plan(g)[t])]

\* The first Task that stands in the way of a plan decides what becomes of it.
Deviates(view) == {t \in DOMAIN view : view[t] # "same"}
InTheWay(view) == view[Min(Deviates(view))]
AllRenewed(g) == \A t \in getter[g].driven : Renewed(t, Plan(g)[t])

\* The plan is checked before anything is retired.
Check(g) ==
    /\ At(g, "drive") /\ Undriven(g) = {}
    /\ IF Planned(g) \cap barrier # {} THEN Again(g)
       ELSE IF Deviates(Previewed(g)) # {}
            THEN IF InTheWay(Previewed(g)) = "other" THEN Again(g) ELSE Ends(g, "error")
       ELSE IF ~AllRenewed(g) THEN Ends(g, "error")
       ELSE Goto(g, "retire")
    /\ UNCHANGED <<owner, recoveryVars, jobVars, retire, coll, held, losses, foreignVars>>

Unretired(g) == Planned(g) \ getter[g].retired
Retiring(g) == Min(Unretired(g))

\* begin_output_publication_retirement: a lost output that still has its publication.
Retirable(t) == owner[t].state = "LOST" /\ owner[t].member

\* _retire_lost_output_memberships: takes the ticket of a retirement, which it opens when
\* there is none.
Retire(g) ==
    /\ At(g, "retire") /\ Unretired(g) # {}
    /\ LET t == Retiring(g) IN
       IF retire[t] = "none" /\ ~Retirable(t)
       THEN getter' = [getter EXCEPT ![g].retired = @ \cup {t}] /\ UNCHANGED retire
       ELSE IF (retire[t] = "none" /\ (t \in barrier \/ t \in coll)) \/ retire[t] \notin {"none", "open"}
       THEN Again(g) /\ UNCHANGED retire
       ELSE Goto(g, "retiring") /\ retire' = [retire EXCEPT ![t] = g]
    /\ UNCHANGED <<owner, recoveryVars, jobVars, coll, held, losses, foreignVars>>

\* The GCS, the children's owners and the Nodes have answered: the publication is gone.  When
\* one of these calls fails the retirement stays open.
EndRetirement(t) ==
    /\ owner' = [owner EXCEPT ![t].member = FALSE]
    /\ retire' = [retire EXCEPT ![t] = "none"]

Retired(g) ==
    /\ At(g, "retiring")
    /\ LET t == Retiring(g) IN
       \/ /\ EndRetirement(t)
          /\ getter' = [getter EXCEPT ![g].pc = "retire", ![g].retired = @ \cup {t}]
          /\ UNCHANGED faults
       \/ /\ Lost /\ Again(g)
          /\ retire' = [retire EXCEPT ![t] = "open"] /\ UNCHANGED owner
    /\ UNCHANGED <<recoveryVars, jobVars, coll, held, losses, edge, renewal, holdVars>>
    /\ UNCHANGED <<borrow, fobj, late, fup, fdead>>

\* The coordinator drives a retirement that was left open.
CoordinatorRetire(t) ==
    /\ retire[t] = "open"
    /\ EndRetirement(t)
    /\ UNCHANGED <<recoveryVars, jobVars, coll, getterVars, losses, foreignVars>>

Job(t, a) ==
    [task |-> t, attempt |-> a, hold |-> a,
     fhold |-> IF Registered(t) THEN edge[t].hold ELSE NoAttempt, pc |-> "queued"]

Submitted(t, a) == {<<d, t, a>> : d \in Deps[t]}

\* TaskRecord.begin_reconstruction, record_failure: attempt a is the one in progress.
InProgress(a) == [state |-> "RETRY_PENDING", attempt |-> a, active |-> a]

\* TaskRecord.record_success and record_failure: no attempt is.
Ended(t, state) == [rec[t] EXCEPT !.state = state, !.active = NoAttempt]

\* advance_task_outputs: the output waits for attempt a.
Advanced(t, a) == [owner[t] EXCEPT !.state = "PENDING", !.attempt = a]

\* ReconstructionCoordinator.complete: the session of an attempt that ended is forgotten.
Forget(t, a) ==
    /\ sessions' = sessions \ {t}
    /\ handoffs' = handoffs \ {<<t, a>>}

\* Everything one plan changes: the owner's attempt, the retry record, the session, the holds
\* of the inputs, the barrier, and the queue.
Start(plan) ==
    LET T == DOMAIN plan IN
    /\ owner' = [t \in Tasks |->
                    IF t \in T THEN Advanced(t, plan[t]) ELSE owner[t]]
    /\ rec' = [t \in Tasks |-> IF t \in T THEN InProgress(plan[t]) ELSE rec[t]]
    /\ sessions' = sessions \cup T
    /\ handoffs' = handoffs \cup {<<t, plan[t]>> : t \in T}
    /\ enqueued' = [t \in Tasks |-> IF t \in T THEN [enqueued[t] EXCEPT ![plan[t]] = @ + 1] ELSE enqueued[t]]
    /\ jobs' = jobs \cup {Job(t, plan[t]) : t \in T}
    /\ barrier' = barrier \cup T
    /\ finishedTasks' = finishedTasks \ T
    /\ holds' = holds \cup UNION {Submitted(t, plan[t]) : t \in T}

\* complete_renewal
Completed(g) ==
    renewal' = [t \in Foreign |-> IF t \in getter[g].driven THEN NoRenewal ELSE renewal[t]]

\* Mutant of Commit: the plan that was checked before the retirement is committed unseen.
CommitUnseen(g) ==
    /\ At(g, "retire") /\ Unretired(g) = {}
    /\ Start(Plan(g)) /\ Completed(g) /\ Again(g)
    /\ UNCHANGED <<retire, coll, held, losses>>
    /\ UNCHANGED <<edge, holdVars, borrow, fobj, late, fup, fdead, faults>>

\* The plan is prepared once more and committed under the same lock.
Commit(g) ==
    /\ At(g, "retire") /\ Unretired(g) = {}
    /\ IF Planned(g) \cap barrier = {} /\ Deviates(Prepared(g)) = {} /\ AllRenewed(g)
       THEN Start(Plan(g)) /\ Completed(g) /\ Again(g)
       ELSE /\ IF \/ Planned(g) \cap barrier # {}
                  \/ Deviates(Prepared(g)) # {} /\ InTheWay(Prepared(g)) = "other"
               THEN Again(g) ELSE Ends(g, "error")
            /\ UNCHANGED <<owner, recoveryVars, jobVars, renewal>>
    /\ UNCHANGED <<retire, coll, held, losses>>
    /\ UNCHANGED <<edge, holdVars, borrow, fobj, late, fup, fdead, faults>>

-----------------------------------------------------------------------------
(* Executions *)

Replaced(j, k) == jobs' = (jobs \ {j}) \cup {k}
Is(j, pc) == j \in jobs /\ j.pc = pc

\* _is_current_task_pending
Current(j) == owner[j.task].state = "PENDING" /\ owner[j.task].attempt = j.attempt

\* An error is published: the retry record ends with it, and the session is forgotten.
PublishJobError(j, state) ==
    /\ owner' = [owner EXCEPT ![j.task].state = "ERROR"]
    /\ rec' = [rec EXCEPT ![j.task] = Ended(j.task, state)]
    /\ Forget(j.task, j.attempt)
    /\ Replaced(j, [j EXCEPT !.pc = "ended"])

InputWaits(j) ==
    \/ \E d \in Deps[j.task] : owner[d].state = "PENDING"
    \/ j.fhold # NoAttempt /\ fup /\ <<j.task, j.fhold>> \in fhold /\ fobj[j.task] = "PENDING"

InputFails(j) ==
    \/ \E d \in Deps[j.task] : owner[d].state \in {"LOST", "ERROR"}
    \/ /\ j.fhold # NoAttempt
       /\ ~fup \/ <<j.task, j.fhold>> \notin fhold \/ fobj[j.task] = "LOST"

\* _admit_or_block: an execution waits for its inputs, and fails for good when one is lost or
\* ended in an error.
Admit(j) ==
    /\ Is(j, "queued")
    /\ IF ~Current(j)
       THEN Replaced(j, [j EXCEPT !.pc = "ended"]) /\ UNCHANGED <<owner, recoveryVars, borrow>>
       ELSE /\ ~InputWaits(j)
            /\ IF InputFails(j) THEN PublishJobError(j, "SYSTEM_FAILED") /\ UNCHANGED borrow
               ELSE /\ Replaced(j, [j EXCEPT !.pc = "running"])
                    /\ borrow' = IF j.fhold = NoAttempt THEN borrow ELSE borrow \cup {<<j.task, j.fhold>>}
                    /\ UNCHANGED <<owner, recoveryVars>>
    /\ UNCHANGED <<enqueued, barrier, finishedTasks, holds, retire, coll, getterVars, losses>>
    /\ UNCHANGED <<localVars, holdVars, fobj, late, fup, fdead, faults>>

\* The executing Worker gives up what it borrowed, some time after the execution.
BorrowEnds(b) ==
    /\ b \in borrow
    /\ ~\E j \in jobs : j.pc = "running" /\ <<j.task, j.fhold>> = b
    /\ borrow' = borrow \ {b}
    /\ UNCHANGED <<owner, recoveryVars, jobVars, retire, coll, getterVars, losses>>
    /\ UNCHANGED <<localVars, holdVars, fobj, late, fup, fdead, faults>>

\* _publish_output_batch: the result is published, the retry record succeeds, and complete
\* forgets the session, all under one lock.
Succeed(j) ==
    /\ Is(j, "running")
    /\ owner' = [owner EXCEPT ![j.task] = [state |-> "READY", attempt |-> j.attempt, member |-> TRUE]]
    /\ rec' = [rec EXCEPT ![j.task] = Ended(j.task, "SUCCEEDED")]
    /\ Forget(j.task, j.attempt)
    /\ Replaced(j, [j EXCEPT !.pc = "ended"])
    /\ UNCHANGED <<enqueued, barrier, finishedTasks, holds, retire, coll, getterVars, losses, foreignVars>>

AppError(j) ==
    /\ Is(j, "running")
    /\ PublishJobError(j, "APPLICATION_FAILED")
    /\ UNCHANGED <<enqueued, barrier, finishedTasks, holds, retire, coll, getterVars, losses, foreignVars>>

\* _retry_system_failure: a failure of the system takes a retry, of the same hold, while there
\* is one.
SystemFailure(j) ==
    LET next == j.attempt + 1 IN
    /\ Is(j, "running")
    /\ IF j.attempt < MaxRetries
       THEN /\ owner' = [owner EXCEPT ![j.task] = Advanced(j.task, next)]
            /\ rec' = [rec EXCEPT ![j.task] = InProgress(next)]
            /\ handoffs' = (handoffs \ {<<j.task, j.attempt>>}) \cup {<<j.task, next>>}
            /\ enqueued' = [enqueued EXCEPT ![j.task][next] = @ + 1]
            /\ Replaced(j, [j EXCEPT !.attempt = next, !.pc = "queued"])
            /\ UNCHANGED sessions
       ELSE PublishJobError(j, "SYSTEM_FAILED") /\ UNCHANGED enqueued
    /\ UNCHANGED <<barrier, finishedTasks, holds, retire, coll, getterVars, losses, foreignVars>>

\* Mutant of Finish: the foreign hold is released although it belongs to the lineage.
FinishReleasing(j) ==
    /\ Is(j, "ended")
    /\ owner[j.task].attempt = j.attempt
    /\ jobs' = jobs \ {j}
    /\ IF j.task \in finishedTasks THEN UNCHANGED <<barrier, finishedTasks, holds>>
       ELSE /\ holds' = holds \ Submitted(j.task, j.hold)
            /\ finishedTasks' = finishedTasks \cup {j.task}
            /\ barrier' = barrier \ {j.task}
    /\ fhold' = fhold \ {<<j.task, j.fhold>>}
    /\ freleased' = freleased \cup {<<j.task, j.fhold>>}
    /\ UNCHANGED <<owner, recoveryVars, enqueued, retire, coll, getterVars, losses>>
    /\ UNCHANGED <<localVars, replaced, borrow, fobj, late, fup, fdead, faults>>

\* _finish_pending_task: the holds of the inputs are released, but for the foreign ones,
\* which belong to the lineage; then the output may be lost, retired or collected again.
Finish(j) ==
    /\ Is(j, "ended")
    /\ owner[j.task].attempt = j.attempt
    /\ jobs' = jobs \ {j}
    /\ IF j.task \in finishedTasks THEN UNCHANGED <<barrier, finishedTasks, holds>>
       ELSE /\ holds' = holds \ Submitted(j.task, j.hold)
            /\ finishedTasks' = finishedTasks \cup {j.task}
            /\ barrier' = barrier \ {j.task}
    /\ UNCHANGED <<owner, recoveryVars, enqueued, retire, coll, getterVars, losses, foreignVars>>

-----------------------------------------------------------------------------
(* Losses, callers, and the end of an output *)

Lose(t) ==
    /\ owner[t].state = "READY" /\ t \notin coll /\ losses < MaxLosses
    /\ owner' = [owner EXCEPT ![t].state = "LOST"]
    /\ losses' = losses + 1
    /\ UNCHANGED <<recoveryVars, jobVars, retire, coll, getterVars, foreignVars>>

\* A remote caller's time is up; the owner's thread does not know.
GiveUp(g) ==
    /\ g \in Remote /\ ~getter[g].gaveup /\ getter[g].pc \notin {"poll", "done"}
    /\ getter' = [getter EXCEPT ![g].gaveup = TRUE]
    /\ UNCHANGED <<owner, recoveryVars, jobVars, retire, coll, held, losses, foreignVars>>

Drop(g) ==
    /\ g \in held /\ (At(g, "done") \/ getter[g].gaveup)
    /\ held' = held \ {g}
    /\ UNCHANGED <<owner, recoveryVars, jobVars, retire, coll, getter, losses, foreignVars>>

\* begin_collection: nothing refers to the output, no Task that may run again reads it, and no
\* execution of its own is unfinished.
Unreferenced(t) ==
    /\ \A g \in held : Wants[g] # t
    /\ \A c \in Tasks : t \in Deps[c] => owner[c].state = "GONE"
    /\ \A h \in holds : h[1] # t

BeginCollect(t) ==
    /\ Unreferenced(t)
    /\ owner[t].state \in {"READY", "LOST", "ERROR"} /\ t \notin barrier \cup coll /\ retire[t] = "none"
    /\ coll' = coll \cup {t}
    /\ UNCHANGED <<owner, recoveryVars, jobVars, retire, getterVars, losses, foreignVars>>

FinishCollect(t) ==
    /\ t \in coll
    /\ coll' = coll \ {t}
    /\ owner' = [owner EXCEPT ![t].state = "GONE"]
    /\ UNCHANGED <<recoveryVars, jobVars, retire, getterVars, losses, foreignVars>>

\* _drive_foreign_lineage_collection
ForeignCollect(t) ==
    /\ t \in Foreign /\ owner[t].state = "GONE"
    /\ Claim(t) \/ ReleaseEdge(t)
    /\ UNCHANGED <<owner, recoveryVars, jobVars, retire, coll, getterVars, losses>>

ForeignStep ==
    /\ \/ \E m \in late : LateReplace(m) \/ LateLost(m)
       \/ \E t \in Foreign : LoseForeign(t) \/ ProduceForeign(t)
       \/ ForeignExit \/ DeathLearned
    /\ UNCHANGED <<owner, recoveryVars, jobVars, retire, coll, getterVars, losses>>

Thread(g) ==
    \/ Poll(g) \/ PollRemote(g) \/ HandleReconstruction(g) \/ Preflight(g)
    \/ Drive(g) \/ Replace(g) \/ ConcludeDrive(g) \/ QueryInput(g)
    \/ Check(g) \/ Retire(g) \/ Retired(g) \/ Commit(g)

RecoveryNext ==
    \/ \E g \in Getters : Get(g) \/ Thread(g) \/ GiveUp(g) \/ Drop(g)
    \/ \E t \in Tasks : CoordinatorRetire(t) \/ Lose(t) \/ BeginCollect(t) \/ FinishCollect(t)
    \/ \E t \in Foreign : ForeignCollect(t)
    \/ \E j \in jobs : Admit(j) \/ Succeed(j) \/ AppError(j) \/ SystemFailure(j) \/ Finish(j)
    \/ \E b \in borrow : BorrowEnds(b)
    \/ ForeignStep

\* The coordinator's and the reference threads' work, the executions, and what F and the
\* membership poll do in the end: all of it happens finitely often.
Background ==
    \/ \E t \in Tasks : CoordinatorRetire(t) \/ BeginCollect(t) \/ FinishCollect(t)
    \/ \E t \in Foreign : ForeignCollect(t)
    \/ \E j \in jobs : Admit(j) \/ Succeed(j) \/ Finish(j)
    \/ \E b \in borrow : BorrowEnds(b)
    \/ /\ (\E t \in Foreign : ProduceForeign(t)) \/ DeathLearned
       /\ UNCHANGED <<owner, recoveryVars, jobVars, retire, coll, getterVars, losses>>

RecoverySpec == RecoveryInit /\ [][RecoveryNext]_vars

FairRecovery == RecoverySpec /\ WF_vars(Background) /\ \A g \in Getters : WF_vars(Thread(g))

-----------------------------------------------------------------------------
(* Properties *)

\* The owner's entry, the retry record, the coordinator's session and the queue agree on the
\* attempt in progress: no attempt beyond the budget, none queued twice, and a reconstruction
\* that is active is the one that is queued or runs.
EpochsAgree ==
    /\ \A t \in Tasks :
          /\ owner[t].attempt = rec[t].attempt /\ rec[t].attempt <= MaxRetries
          /\ t \in sessions <=> rec[t].active # NoAttempt
          /\ owner[t].state = "PENDING" <=> rec[t].active # NoAttempt
          /\ owner[t].state \in {"READY", "LOST"} => rec[t].state = "SUCCEEDED"
          /\ rec[t].active # NoAttempt =>
                /\ rec[t].active = rec[t].attempt /\ <<t, rec[t].active>> \in handoffs
                /\ \E j \in jobs : j.task = t /\ j.attempt = rec[t].active /\ j.pc # "ended"
          /\ \A a \in Attempts : enqueued[t][a] <= 1
    /\ \A j, k \in jobs : j.task = k.task => j = k

\* Every input of an execution that is queued or runs is kept for it: the owner's entry by a
\* submitted hold, the foreign one by a hold active at F as long as F runs.  And while the Task
\* may run again, F keeps the input by exactly one hold of it, whatever became of the requests
\* to replace it.
InputsHeld ==
    /\ \A j \in jobs : j.pc # "ended" =>
          /\ \A d \in Deps[j.task] : owner[d].state # "GONE" /\ d \notin coll
          /\ Submitted(j.task, j.hold) \subseteq holds
          /\ j.fhold # NoAttempt => (fup => <<j.task, j.fhold>> \in fhold)
    /\ \A t \in Foreign : edge[t].state = "registered" =>
          Cardinality({h \in fhold : h[1] = t}) = 1

\* Every get ends, every execution is finished with its holds released, and once a Task's
\* output is gone the foreign hold its record names is released, unless the answer to its
\* replacement was lost.
Settles ==
    <>[](/\ \A g \in Getters : At(g, "done")
         /\ jobs = {} /\ barrier = {} /\ holds = {}
         /\ \A t \in Foreign :
               owner[t].state = "GONE" /\ ~renewal[t].uncertain =>
                  edge[t].state = "done" /\ (fup => <<t, edge[t].hold>> \notin fhold))

\* A renewal is driven for the attempt that is about to be committed; so no get finds that of
\* another attempt in its way.
NoConflict == \A g \in Getters : getter[g].outcome # "conflict"
=============================================================================

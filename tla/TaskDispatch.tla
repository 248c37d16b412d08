----------------------------- MODULE TaskDispatch -----------------------------
(***************************************************************************)
(* How a Core gets one Task executed (core.py, _execute and the handlers it *)
(* continues in): it asks a Node for a worker lease, pushes the Task to the *)
(* granted Worker, and turns what it learns into one result, one error, or *)
(* a new attempt.                                                          *)
(*                                                                         *)
(* The Core has one lane for the Task, which makes one call at a time; the *)
(* attempts of one hop or of one release count as one call.  A call may    *)
(* fail to connect, which proves that it was not delivered; it may time    *)
(* out, delivered or not, and then it may also arrive later; or it is      *)
(* answered.  Each attempt has its own LeaseID, kept through every   *)
(* replay, so an attempt stands for its lease and the Worker it is granted *)
(* on.                                                                     *)
(*                                                                         *)
(* The Task has no arguments to localize and belongs to no placement       *)
(* group, the Node stays alive, and a spillback, which repeats the request *)
(* at another Node under the same LeaseID, is not distinguished.  The Node *)
(* is reduced to the lease of each attempt: its pool and its ledger are    *)
(* module WorkerLeases.                                                    *)
(***************************************************************************)
EXTENDS RetryBudget, FiniteSets

CONSTANTS
    Rounds,         \* _LEASE_RPC_REPLAY_ATTEMPTS
    Faults,         \* what may go wrong in this instance, a subset of AllFaults
    MaxStrays,      \* bound: calls that have timed out and may still arrive
    None

AllFaults == {"death",      \* Workers die
              "delay",      \* a call arrives after its sender gave it up
              "exit",       \* user code raises SystemExit
              "shutdown"}   \* the Core's shutdown deadline passes

Live     == {"GRANTED", "RUNNING"}
Terminal == {"COMPLETED", "ABANDONED", "WORKER_LOST"}

\* A value, an exception of the user's, a failure that may be retried.
Outcomes == {"value", "app_error", "system_error"}

\* What a Node answers, and what a Worker does.
Replies == {"grant", "pending", "rejected", "released", "refused", "cancelled", "lost",
            "cleanup"} \cup Live \cup Terminal
PushReplies == Outcomes \cup {"remote_error", "closed"}

ASSUME DispatchAssumption ==
    /\ Rounds \in Nat
    /\ MaxStrays \in Nat
    /\ Faults \subseteq AllFaults
    /\ None \notin Replies \cup PushReplies

VARIABLES
    phase,          \* what the lane waits for or does next
    attempt,        \* the current attempt
    round,          \* ambiguity_round of its lease request
    unresolved,     \* whether the Task is in _protocol_unresolved
    object,         \* the owner's state of the Task's output
    finished,       \* whether _finish_pending_task has released the Task
    call,           \* the call the lane is waiting for, and the answer to it
    strays,         \* calls that timed out undelivered
    decision,       \* the Node's reply cached for each lease request
    lease,          \* the state of each lease
    cancelled,      \* leases with a cancellation tombstone
    work,           \* how far the Worker got with each accepted Push
    serving,        \* its handler: none, one the lane waits for, one it gave up
    runs,           \* how often user code was started in each attempt
    result,         \* the outcome the Worker chose
    dead            \* attempts whose Worker has died

laneVars   == <<phase, attempt, round, unresolved, object, finished>>
nodeVars   == <<decision, lease, cancelled>>
workerVars == <<work, serving, runs, result, dead>>
dispatchVars == <<laneVars, call, strays, nodeVars, workerVars>>

NoCall == [kind |-> "none", reply |-> None]

Calling(kind) == call.kind = kind /\ call.reply = None

Answered(kind, reply) == call = [kind |-> kind, reply |-> reply]

Init ==
    /\ phase = "fresh"
    /\ attempt = 0
    /\ round = 0
    /\ unresolved = FALSE
    /\ object = "PENDING"
    /\ finished = FALSE
    /\ call = NoCall
    /\ strays = {}
    /\ decision = [a \in Attempts |-> "NONE"]
    /\ lease = [a \in Attempts |-> "NONE"]
    /\ cancelled = {}
    /\ work = [a \in Attempts |-> "none"]
    /\ serving = [a \in Attempts |-> "no"]
    /\ runs = [a \in Attempts |-> 0]
    /\ result = [a \in Attempts |-> None]
    /\ dead = {}

-----------------------------------------------------------------------------
(* How a turn of the lane ends.                                            *)

\* Send a call; the Task is in _protocol_unresolved before the first byte is.
Send(kind, next) ==
    /\ phase' = next
    /\ call' = [kind |-> kind, reply |-> None]
    /\ unresolved' = TRUE
    /\ UNCHANGED <<attempt, object, finished>>

\* Put the Task back into the queue.
Requeue(next, fenced) ==
    /\ phase' = next
    /\ call' = NoCall
    /\ unresolved' = fenced
    /\ UNCHANGED <<attempt, object, finished>>

\* _publish_task_error does nothing while the Task is unresolved or its output
\* is no longer pending.
PublishError(fenced) ==
    object' = IF ~fenced /\ object = "PENDING" THEN "ERROR" ELSE object

\* Mutant of Fail: publish, then clear the obligation.
FailThenClear ==
    /\ PublishError(unresolved)
    /\ unresolved' = FALSE
    /\ phase' = "done"
    /\ call' = NoCall
    /\ UNCHANGED <<attempt, finished>>

\* Clear the obligation, then publish.
Fail ==
    /\ PublishError(FALSE)
    /\ unresolved' = FALSE
    /\ phase' = "done"
    /\ call' = NoCall
    /\ UNCHANGED <<attempt, finished>>

\* _retry_system_failure.
RetrySystemFailure ==
    IF object = "PENDING" /\ attempt < MaxRetries
      THEN /\ attempt' = attempt + 1
           /\ phase' = "fresh"
           /\ call' = NoCall
           /\ unresolved' = FALSE
           /\ UNCHANGED <<object, finished>>
      ELSE Fail

\* A Complete that the Node acknowledged: its output is adopted before the
\* obligation is cleared.
Conclude(r) ==
    CASE r = "value"        -> Requeue("adopting", TRUE)
      [] r = "app_error"    -> Fail
      [] r = "system_error" -> RetrySystemFailure

-----------------------------------------------------------------------------
(* The lane.                                                               *)

\* The dispatcher drops a Task whose output is no longer pending.
Dequeue ==
    /\ phase \in {"fresh", "capacity_wait", "lease_wait", "push_wait", "cancel_wait"}
    /\ CASE object # "PENDING" -> Requeue("done", unresolved)
         [] object = "PENDING" /\ phase = "push_wait" -> Send("push", "replay_send")
         [] object = "PENDING" /\ phase = "cancel_wait" -> Send("cancel", "cancel_send")
         [] OTHER -> Requeue("admitted", unresolved)
    /\ UNCHANGED <<round, strays, nodeVars, workerVars>>

RequestLease ==
    /\ phase = "admitted"
    /\ Send("request", "lease_send")
    /\ UNCHANGED <<round, strays, nodeVars, workerVars>>

\* _handle_ambiguous_lease: replay the request a bounded number of times, then
\* cancel the lease.
ReplayLease ==
    IF round < Rounds
      THEN Requeue("lease_wait", TRUE) /\ round' = round + 1
      ELSE Send("cancel", "cancel_send") /\ UNCHANGED round

\* The reply to a lease request settles the obligation.
LeaseReplied ==
    /\ \/ Answered("request", "grant") /\ Requeue("granted", FALSE)
       \/ Answered("request", "pending") /\ Requeue("capacity_wait", FALSE)
       \/ Answered("request", "rejected") /\ Fail
    /\ round' = 0
    /\ UNCHANGED <<strays, nodeVars, workerVars>>

\* The grant becomes an obligation.
AcceptGrant ==
    /\ phase = "granted"
    /\ Requeue("reporting", TRUE)
    /\ UNCHANGED <<round, strays, nodeVars, workerVars>>

\* The last check before the Task is pushed.
AdmitPush ==
    /\ phase = "reporting"
    /\ IF object = "PENDING" THEN Send("push", "push_send") ELSE Requeue("done", unresolved)
    /\ UNCHANGED <<round, strays, nodeVars, workerVars>>

PushReplied ==
    /\ \E r \in Outcomes : Answered("push", r) /\ Conclude(r)
    /\ UNCHANGED <<round, strays, nodeVars, workerVars>>

\* Mutant of PushFailed: a remote error is taken for a Push that did not start.
PushFailedUnstarted ==
    /\ Answered("push", "remote_error")
    /\ IF phase = "push_send" THEN Send("release", "release_send")
                              ELSE Send("outcome", "outcome_send")
    /\ UNCHANGED <<round, strays, nodeVars, workerVars>>

\* A Push that failed at the Worker may have run there.
PushFailed ==
    /\ Answered("push", "remote_error")
    /\ IF phase = "push_send" THEN Requeue("push_wait", TRUE) ELSE Send("outcome", "outcome_send")
    /\ UNCHANGED <<round, strays, nodeVars, workerVars>>

\* Mutant of OutcomeReplied: a lease that has not completed is retried.
OutcomeRetried ==
    /\ \/ Answered("outcome", "cleanup") /\ Requeue("push_wait", TRUE)
       \/ /\ \E s \in Live \cup {"WORKER_LOST", "ABANDONED"} : Answered("outcome", s)
          /\ RetrySystemFailure
       \/ Answered("outcome", "COMPLETED") /\ Conclude(result[attempt])
    /\ UNCHANGED <<round, strays, nodeVars, workerVars>>

\* _resolve_ambiguous_push_outcome: only a terminal lease ends the attempt.
OutcomeReplied ==
    /\ \/ \E s \in Live \cup {"cleanup"} : Answered("outcome", s) /\ Requeue("push_wait", TRUE)
       \/ \E s \in {"WORKER_LOST", "ABANDONED"} : Answered("outcome", s) /\ RetrySystemFailure
       \/ Answered("outcome", "COMPLETED") /\ Conclude(result[attempt])
    /\ UNCHANGED <<round, strays, nodeVars, workerVars>>

\* Only a lease the Node gave back proves that the attempt may fail at once.
ReleaseReplied ==
    /\ \/ Answered("release", "released") /\ Fail
       \/ Answered("release", "refused") /\ Send("cancel", "cancel_send")
    /\ UNCHANGED <<round, strays, nodeVars, workerVars>>

\* _resolve_lease_cancellation: the error waits for the cancellation, or for the
\* loss of the Worker, whose lease outcome it then reads.
CancelReplied ==
    /\ \/ \E r \in {"cancelled", "lost"} : Answered("cancel", r) /\ Fail
       \/ Answered("cancel", "refused") /\ Requeue("cancel_wait", TRUE)
    /\ UNCHANGED <<round, strays, nodeVars, workerVars>>

\* What the lane does when it cannot tell what became of its call.
Ambiguous ==
    CASE call.kind = "request" -> ReplayLease
      [] phase = "push_send"   -> Requeue("push_wait", TRUE) /\ UNCHANGED round
      [] phase = "replay_send" -> Send("outcome", "outcome_send") /\ UNCHANGED round
      [] phase = "outcome_send" -> Requeue("push_wait", TRUE) /\ UNCHANGED round
      [] phase = "release_send" -> Send("cancel", "cancel_send") /\ UNCHANGED round
      [] phase = "cancel_send"  -> Requeue("cancel_wait", TRUE) /\ UNCHANGED round

\* TransportConnectionError: the call was not delivered.
ConnectionFails ==
    /\ call.kind # "none"
    /\ call.reply = None
    /\ call.kind = "push" => serving[attempt] # "current"
    /\ CASE call.kind = "request" /\ round = 0 -> Fail /\ UNCHANGED round
         [] phase = "push_send" -> Send("release", "release_send") /\ UNCHANGED round
         [] OTHER -> Ambiguous
    /\ UNCHANGED <<strays, nodeVars, workerVars>>

\* The call, or the answer to it, is lost or late, or the connection is closed.
TimesOut ==
    /\ call.kind # "none"
    /\ Ambiguous
    /\ IF call.kind = "push" /\ serving[attempt] = "current"
         THEN serving' = [serving EXCEPT ![attempt] = "old"]
         ELSE UNCHANGED serving
    /\ \/ UNCHANGED strays
       \/ /\ "delay" \in Faults
          /\ Cardinality(strays) < MaxStrays
          /\ call.reply = None
          /\ call.kind = "push" => serving[attempt] # "current"
          /\ strays' = strays \cup {[kind |-> call.kind, attempt |-> attempt]}
    /\ UNCHANGED <<nodeVars, work, runs, result, dead>>

\* The owner makes the completed output READY and reports its adoption.
AdoptOutput ==
    /\ phase = "adopting"
    /\ object' = IF object = "PENDING" THEN "READY" ELSE object
    /\ phase' = "adopted"
    /\ UNCHANGED <<attempt, round, unresolved, finished, call, strays, nodeVars, workerVars>>

FinishAdoption ==
    /\ phase = "adopted"
    /\ Requeue("done", FALSE)
    /\ UNCHANGED <<round, strays, nodeVars, workerVars>>

\* _finish_pending_task.
FinishTask ==
    /\ phase = "done"
    /\ ~unresolved
    /\ finished' = TRUE
    /\ phase' = "finished"
    /\ UNCHANGED <<attempt, round, unresolved, object, call, strays, nodeVars, workerVars>>

\* The shutdown deadline passes: fail every output that no obligation protects.
ShutdownDeadline ==
    /\ "shutdown" \in Faults
    /\ PublishError(unresolved)
    /\ UNCHANGED <<phase, attempt, round, unresolved, finished, call, strays, nodeVars, workerVars>>

-----------------------------------------------------------------------------
(* The Node's handlers.                                                    *)

\* Mutant of HandleRequest: the tombstone is not looked at.
HandleRequestUncancelled(a, reply) ==
    /\ \/ /\ decision[a] \in {"NONE", "PENDING"}
          /\ \/ reply = "grant" /\ decision' = [decision EXCEPT ![a] = "GRANT"]
             \/ reply = "pending" /\ decision' = [decision EXCEPT ![a] = "PENDING"]
             \/ reply = "rejected" /\ decision' = [decision EXCEPT ![a] = "REJECTED"]
       \/ /\ decision[a] \in {"GRANT", "REJECTED"}
          /\ reply = IF decision[a] = "GRANT" /\ lease[a] = "GRANTED" THEN "grant" ELSE "rejected"
          /\ UNCHANGED decision
    /\ lease' = IF decision'[a] # decision[a] /\ reply = "grant"
                  THEN [lease EXCEPT ![a] = "GRANTED"] ELSE lease
    /\ UNCHANGED cancelled

\* RequestWorkerLease: a decision is frozen, except that capacity may be polled
\* for again; a grant is replayed while its lease has not started.
HandleRequest(a, reply) ==
    /\ \/ a \in cancelled /\ reply = "rejected" /\ UNCHANGED decision
       \/ /\ a \notin cancelled
          /\ decision[a] \in {"NONE", "PENDING"}
          /\ \/ reply = "grant" /\ decision' = [decision EXCEPT ![a] = "GRANT"]
             \/ reply = "pending" /\ decision' = [decision EXCEPT ![a] = "PENDING"]
             \/ reply = "rejected" /\ decision' = [decision EXCEPT ![a] = "REJECTED"]
       \/ /\ a \notin cancelled
          /\ decision[a] \in {"GRANT", "REJECTED"}
          /\ reply = IF decision[a] = "GRANT" /\ lease[a] = "GRANTED" THEN "grant" ELSE "rejected"
          /\ UNCHANGED decision
    /\ lease' = IF decision'[a] # decision[a] /\ reply = "grant"
                  THEN [lease EXCEPT ![a] = "GRANTED"] ELSE lease
    /\ UNCHANGED cancelled

\* ReleaseWorkerLease.
HandleRelease(a, reply) ==
    /\ reply = IF lease[a] = "GRANTED" THEN "released" ELSE "refused"
    /\ lease' = IF lease[a] = "GRANTED" THEN [lease EXCEPT ![a] = "ABANDONED"] ELSE lease
    /\ UNCHANGED <<decision, cancelled>>

\* CancelWorkerLease.
HandleCancel(a, reply) ==
    /\ reply = CASE lease[a] \in {"NONE", "GRANTED", "ABANDONED"} -> "cancelled"
                 [] lease[a] = "WORKER_LOST" -> "lost"
                 [] OTHER -> "refused"
    /\ cancelled' = IF reply = "cancelled" THEN cancelled \cup {a} ELSE cancelled
    /\ lease' = IF lease[a] = "GRANTED" THEN [lease EXCEPT ![a] = "ABANDONED"] ELSE lease
    /\ UNCHANGED decision

\* GetWorkerLeaseOutcome: the state of the lease, or that a publication it lost
\* is still being rolled back (cleanup_pending).
HandleOutcome(a, reply) ==
    /\ \/ reply = lease[a]
       \/ reply = "cleanup" /\ lease[a] \in Terminal /\ runs[a] > 0
    /\ UNCHANGED nodeVars

Handle(kind, a, reply) ==
    \/ kind = "request" /\ HandleRequest(a, reply)
    \/ kind = "release" /\ HandleRelease(a, reply)
    \/ kind = "cancel"  /\ HandleCancel(a, reply)
    \/ kind = "outcome" /\ HandleOutcome(a, reply)

NodeAnswers(kind) ==
    /\ Calling(kind)
    /\ \E reply \in Replies :
          /\ Handle(kind, attempt, reply)
          /\ call' = [call EXCEPT !.reply = reply]
    /\ UNCHANGED <<laneVars, strays, workerVars>>

\* A call that was given up reaches the Node.
StrayArrives(m) ==
    /\ m.kind # "push"
    /\ \E reply \in Replies : Handle(m.kind, m.attempt, reply)
    /\ strays' = strays \ {m}
    /\ UNCHANGED <<laneVars, call, workerVars>>

\* The supervisor notices that the granted Worker has died.
NoticeDeath(a) ==
    /\ a \in dead
    /\ lease[a] \in Live
    /\ lease' = [lease EXCEPT ![a] = "WORKER_LOST"]
    /\ UNCHANGED <<laneVars, call, strays, decision, cancelled, workerVars>>

-----------------------------------------------------------------------------
(* The Worker.                                                             *)

\* Mutant of Accept: an execution whose completion is unacknowledged is redone.
AcceptUncached(a) ==
    work' = [work EXCEPT ![a] = IF @ = "acked" THEN @ ELSE "accepted"]

\* _begin_task: the first Push is accepted, an exact replay resumes.
Accept(a) == work' = [work EXCEPT ![a] = IF @ = "none" THEN "accepted" ELSE @]

PushArrives ==
    /\ Calling("push")
    /\ attempt \notin dead
    /\ serving[attempt] = "no"
    /\ Accept(attempt)
    /\ serving' = [serving EXCEPT ![attempt] = "current"]
    /\ UNCHANGED <<laneVars, call, strays, nodeVars, runs, result, dead>>

StrayPushArrives(a) ==
    /\ [kind |-> "push", attempt |-> a] \in strays
    /\ a \notin dead
    /\ serving[a] = "no"
    /\ Accept(a)
    /\ serving' = [serving EXCEPT ![a] = "old"]
    /\ strays' = strays \ {[kind |-> "push", attempt |-> a]}
    /\ UNCHANGED <<laneVars, call, nodeVars, runs, result, dead>>

\* The port of a dead Worker was taken by another one, which refuses the Push.
PushRefused ==
    /\ Calling("push")
    /\ attempt \in dead
    /\ call' = [call EXCEPT !.reply = "remote_error"]
    /\ UNCHANGED <<laneVars, strays, nodeVars, workerVars>>

\* The handler ends with reply, which the lane receives if it still waits.
HandlerEnds(a, reply) ==
    /\ serving' = [serving EXCEPT ![a] = "no"]
    /\ call' = IF serving[a] = "current" THEN [call EXCEPT !.reply = reply] ELSE call

\* StartWorkerLease, sent before any user code; the acknowledgement may be lost.
StartLease(a) ==
    /\ serving[a] # "no"
    /\ work[a] = "accepted"
    /\ lease[a] \in Live
    /\ lease' = [lease EXCEPT ![a] = "RUNNING"]
    /\ \/ work' = [work EXCEPT ![a] = "started"] /\ UNCHANGED <<serving, call>>
       \/ HandlerEnds(a, "remote_error") /\ UNCHANGED work
    /\ UNCHANGED <<laneVars, strays, decision, cancelled, runs, result, dead>>

\* A StartWorkerLease or CompleteWorkerLease that was refused or lost, or an
\* output whose publication is still pending.
HandlerFails(a) ==
    /\ serving[a] # "no"
    /\ work[a] \in {"accepted", "ended"}
    /\ HandlerEnds(a, "remote_error")
    /\ UNCHANGED <<laneVars, strays, nodeVars, work, runs, result, dead>>

\* Bound: runs counts up to 2, which is already one too many.
RunTask(a) ==
    /\ serving[a] # "no"
    /\ work[a] = "started"
    /\ work' = [work EXCEPT ![a] = "running"]
    /\ runs' = [runs EXCEPT ![a] = IF @ < 2 THEN @ + 1 ELSE @]
    /\ UNCHANGED <<laneVars, call, strays, nodeVars, serving, result, dead>>

\* The outcome is chosen and kept before the lease is completed.
EndTask(a, r) ==
    /\ work[a] = "running"
    /\ a \notin dead
    /\ work' = [work EXCEPT ![a] = "ended"]
    /\ result' = [result EXCEPT ![a] = r]
    /\ UNCHANGED <<laneVars, call, strays, nodeVars, serving, runs, dead>>

\* SystemExit ends the handler's thread: nothing is kept, and the connection is
\* closed without a reply.
TaskExits(a) ==
    /\ "exit" \in Faults
    /\ work[a] = "running"
    /\ a \notin dead
    /\ work' = [work EXCEPT ![a] = "accepted"]
    /\ HandlerEnds(a, "closed")
    /\ UNCHANGED <<laneVars, strays, nodeVars, runs, result, dead>>

\* CompleteWorkerLease; the acknowledgement may be lost.
CompleteLease(a) ==
    /\ serving[a] # "no"
    /\ work[a] = "ended"
    /\ lease[a] \in {"RUNNING", "COMPLETED"}
    /\ lease' = [lease EXCEPT ![a] = "COMPLETED"]
    /\ \/ work' = [work EXCEPT ![a] = "acked"] /\ UNCHANGED <<serving, call>>
       \/ HandlerEnds(a, "remote_error") /\ UNCHANGED work
    /\ UNCHANGED <<laneVars, strays, decision, cancelled, runs, result, dead>>

\* Mutant of ReplyPush: the completion need not be acknowledged.
ReplyEarly(a) ==
    /\ serving[a] # "no"
    /\ work[a] \in {"ended", "acked"}
    /\ HandlerEnds(a, result[a])
    /\ UNCHANGED <<laneVars, strays, nodeVars, work, runs, result, dead>>

ReplyPush(a) ==
    /\ serving[a] # "no"
    /\ work[a] = "acked"
    /\ HandlerEnds(a, result[a])
    /\ UNCHANGED <<laneVars, strays, nodeVars, work, runs, result, dead>>

\* The process ends with everything it kept.
WorkerDies(a) ==
    /\ "death" \in Faults
    /\ decision[a] = "GRANT"
    /\ a \notin dead
    /\ dead' = dead \cup {a}
    /\ HandlerEnds(a, "closed")
    /\ UNCHANGED <<laneVars, strays, nodeVars, work, runs, result>>

-----------------------------------------------------------------------------
LaneNext ==
    \/ Dequeue \/ RequestLease \/ LeaseReplied \/ AcceptGrant \/ AdmitPush
    \/ PushReplied \/ PushFailed \/ OutcomeReplied \/ ReleaseReplied \/ CancelReplied
    \/ AdoptOutput \/ FinishAdoption \/ FinishTask

NodeNext ==
    \/ \E kind \in {"request", "release", "cancel", "outcome"} : NodeAnswers(kind)
    \/ \E m \in strays : StrayArrives(m)
    \/ \E a \in Attempts : NoticeDeath(a)

WorkerNext(a) ==
    \/ StrayPushArrives(a)
    \/ StartLease(a) \/ HandlerFails(a)
    \/ RunTask(a) \/ \E r \in Outcomes : EndTask(a, r)
    \/ TaskExits(a)
    \/ CompleteLease(a) \/ ReplyPush(a)
    \/ WorkerDies(a)

Next ==
    \/ LaneNext
    \/ ConnectionFails \/ TimesOut \/ ShutdownDeadline
    \/ NodeNext
    \/ PushArrives \/ PushRefused
    \/ \E a \in Attempts : WorkerNext(a)

Spec == Init /\ [][Next]_dispatchVars


(***************************************************************************)
(* Fairness.  The lane's threads and the handlers keep running, user code  *)
(* returns, and a death is noticed; a call has a deadline.  Calls may fail again and again but    *)
(* not always: one that is repeated for ever is some time delivered and    *)
(* its answer received, capacity some time suffices or is refused, and a   *)
(* publication that is being rolled back is some time gone.  The lane      *)
(* replays without a limit of its own, so this is what its progress needs. *)
(***************************************************************************)
AnswerFairness ==
    /\ SF_dispatchVars(NodeAnswers("request") /\ call'.reply # "pending")
    /\ SF_dispatchVars(NodeAnswers("outcome") /\ call'.reply # "cleanup")
    /\ SF_dispatchVars(NodeAnswers("release"))
    /\ SF_dispatchVars(NodeAnswers("cancel"))
    /\ SF_dispatchVars(LeaseReplied)
    /\ SF_dispatchVars(PushReplied)
    /\ SF_dispatchVars(OutcomeReplied /\ call.reply # "cleanup")
    /\ SF_dispatchVars(CancelReplied)

WorkerFairness ==
    /\ SF_dispatchVars(\E a \in Attempts : StartLease(a) /\ work'[a] = "started")
    /\ WF_dispatchVars(\E a \in Attempts : RunTask(a))
    /\ WF_dispatchVars(\E a \in Attempts : \E r \in Outcomes : EndTask(a, r))
    /\ SF_dispatchVars(\E a \in Attempts : CompleteLease(a) /\ work'[a] = "acked")
    /\ SF_dispatchVars(\E a \in Attempts : ReplyPush(a))
    /\ WF_dispatchVars(\E a \in Attempts : NoticeDeath(a))

FairSpec ==
    /\ Spec
    /\ WF_dispatchVars(LaneNext)
    /\ WF_dispatchVars(TimesOut)
    /\ SF_dispatchVars(PushArrives)
    /\ AnswerFairness
    /\ WorkerFairness

-----------------------------------------------------------------------------
(* Properties.                                                             *)

Calls == [kind : {"none", "request", "push", "outcome", "release", "cancel"},
          reply : Replies \cup PushReplies \cup {None}]

LaneTypeOK ==
    /\ phase \in {"fresh", "admitted", "lease_send", "capacity_wait", "lease_wait", "granted",
                  "reporting", "push_send", "push_wait", "replay_send", "outcome_send",
                  "release_send", "cancel_send", "cancel_wait", "adopting", "adopted",
                  "done", "finished"}
    /\ attempt \in Attempts
    /\ round \in 0 .. Rounds
    /\ object \in {"PENDING", "READY", "ERROR"}

CallTypeOK ==
    /\ call \in Calls
    /\ strays \subseteq [kind : {"request", "push", "outcome", "release", "cancel"},
                         attempt : Attempts]

NodeTypeOK ==
    /\ decision \in [Attempts -> {"NONE", "PENDING", "GRANT", "REJECTED"}]
    /\ lease \in [Attempts -> {"NONE"} \cup Live \cup Terminal]
    /\ cancelled \subseteq Attempts

WorkerTypeOK ==
    /\ work \in [Attempts -> {"none", "accepted", "started", "running", "ended", "acked"}]
    /\ serving \in [Attempts -> {"no", "current", "old"}]
    /\ runs \in [Attempts -> 0 .. 2]
    /\ result \in [Attempts -> Outcomes \cup {None}]
    /\ dead \subseteq Attempts

\* Every variable keeps its type: _execute and the handlers it continues in.
TypeOK ==
    /\ LaneTypeOK
    /\ unresolved \in BOOLEAN /\ finished \in BOOLEAN
    /\ CallTypeOK
    /\ NodeTypeOK
    /\ WorkerTypeOK

\* User code is started at most once in an attempt, however often the Push is
\* replayed: _begin_task finds the execution by its AttemptID and LeaseID.
RunsOncePerAttempt == \A a \in Attempts : runs[a] <= 1

\* While user code runs at a living Worker the Core still waits for it: the
\* attempt is the current one, no error has been published, the obligation
\* stands and so does the lease.  _resolve_ambiguous_push_outcome must not take
\* a Push whose answer was lost for one that is over.
ExecutionIsFenced ==
    \A a \in Attempts : work[a] = "running" /\ a \notin dead =>
        /\ a = attempt
        /\ object = "PENDING"
        /\ unresolved
        /\ lease[a] = "RUNNING"

\* A cancelled lease holds no Worker, now or later, whichever copies of its
\* request and of its cancellation come first at the Node.
CancelledHoldsNothing == \A a \in cancelled : lease[a] \notin Live

\* A Task leaves _pending_tasks only with its output published: no caller of get
\* waits for a Task that the Core has forgotten.
FinishedIsPublished == finished => object # "PENDING"

\* A READY output comes from a lease that the Node knows to be COMPLETED, and
\* from an execution that returned a value.
ReadyIsCompleted ==
    object = "READY" => lease[attempt] = "COMPLETED" /\ result[attempt] = "value"

\* A retry starts only when the lease of every earlier attempt is over.
SupersededIsOver == \A a \in Attempts : a < attempt => lease[a] \in Terminal

\* Every Task is finished some time, through deaths of its Workers and calls
\* that fail, with a result or with an error.
TaskFinishes == <>finished
=============================================================================

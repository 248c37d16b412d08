-------------------------- MODULE TaskAttemptsProofs --------------------------
(***************************************************************************)
(* The safety of the attempts at a Task: of the dispatch of each attempt   *)
(* (TaskDispatch.tla), for every retry budget, number of replays, set of   *)
(* faults and number of late calls; and of lineage recovery, which makes   *)
(* new attempts at Tasks that have succeeded (Reconstruction.tla), for     *)
(* every set of Tasks with any inputs and any foreign ones, any getters,   *)
(* and any number of losses and lost calls.                                *)
(*                                                                         *)
(* The invariant of the dispatch joins what the three sides know: a Push   *)
(* is on its way only in the phases in which the lane keeps the Task       *)
(* unresolved, until its lease is over; and a reply that lets the lane     *)
(* leave those phases tells it so, because what is over stays over.        *)
(*                                                                         *)
(* The invariant of the recovery joins the owner's records, on which every *)
(* lock section of every get depends, with the holds on foreign inputs: a  *)
(* record may be behind the owner F by the one replacement whose answer is *)
(* outstanding, and nothing is committed or claimed until it is answered.  *)
(***************************************************************************)
EXTENDS TaskDispatch, Reconstruction, FiniteSetTheorems, WellFoundedInduction, TLAPS

-----------------------------------------------------------------------------
(* The dispatch of an attempt *)


\* The phases in which a Push of the current attempt may be at the Worker.
PushPhases == {"push_send", "push_wait", "replay_send", "outcome_send"}

\* The phases before the first Push of an attempt.
UnpushedPhases == {"fresh", "admitted", "lease_send", "capacity_wait", "lease_wait", "granted",
                   "reporting"}

\* The phases that follow a grant.
GrantPhases == PushPhases \cup {"granted", "reporting", "release_send", "adopting", "adopted"}

StrayPush(a) == [kind |-> "push", attempt |-> a]

\* A Push of the attempt has arrived, or may still arrive late.
Pushed(a) == work[a] # "none" \/ StrayPush(a) \in strays

\* The lane waits for the call that its phase names.
CallFitsPhase ==
    /\ call.kind = "request" <=> phase = "lease_send"
    /\ call.kind = "push"    <=> phase \in {"push_send", "replay_send"}
    /\ call.kind = "outcome" <=> phase = "outcome_send"
    /\ call.kind = "release" <=> phase = "release_send"
    /\ call.kind = "cancel"  <=> phase = "cancel_send"

\* Nothing has happened in a later attempt.
FutureUntouched ==
    /\ \A a \in Attempts : a > attempt =>
          /\ decision[a] = "NONE"
          /\ lease[a] = "NONE"
          /\ work[a] = "none"
          /\ serving[a] = "no"
    /\ \A m \in strays : m.attempt <= attempt

\* What the Node knows of a lease.
LeaseRecords ==
    /\ \A a \in Attempts : lease[a] = "NONE" <=> decision[a] # "GRANT"
    /\ \A a \in Attempts : lease[a] = "WORKER_LOST" => a \in dead
    /\ \A a \in cancelled : lease[a] \in {"NONE", "ABANDONED"}

\* A Push is sent only under a lease.
PushedUnderLease ==
    /\ \A a \in Attempts : Pushed(a) => lease[a] # "NONE"
    /\ phase \in GrantPhases => lease[attempt] # "NONE"
    /\ call.kind = "request" /\ call.reply = "grant" => lease[attempt] # "NONE"

\* Until the lease is over, the lane fences a Task that was pushed.
PushFenced ==
    /\ Pushed(attempt) /\ lease[attempt] \in Live => phase \in PushPhases
    /\ phase \in UnpushedPhases => ~Pushed(attempt)
    /\ phase \in PushPhases => unresolved /\ object = "PENDING"
    /\ phase = "push_send" /\ call.reply = None /\ Pushed(attempt) => serving[attempt] = "current"

\* The handler the lane waits for, and the handlers of the dead.
Handlers ==
    /\ \A a \in Attempts : serving[a] = "current" => a = attempt /\ Calling("push")
    /\ \A a \in dead : serving[a] = "no"

\* How an execution and its lease keep step.
ExecutionMatchesLease ==
    /\ \A a \in Attempts :
          work[a] \in {"started", "running"} /\ a \notin dead => lease[a] = "RUNNING"
    /\ \A a \in Attempts : work[a] = "acked" => lease[a] = "COMPLETED"
    /\ \A a \in Attempts : lease[a] = "COMPLETED" => work[a] \in {"ended", "acked"}
    /\ \A a \in Attempts : work[a] \in {"ended", "acked"} => result[a] \in Outcomes

\* A reply that ends the attempt is true, and stays so.
RepliesHold ==
    /\ call.kind = "push" /\ call.reply \in Outcomes =>
          lease[attempt] = "COMPLETED" /\ result[attempt] = call.reply
    /\ call.kind = "outcome" /\ call.reply \in Terminal => lease[attempt] = call.reply

\* The end of the lane.
LaneEnds ==
    /\ phase = "adopting" => lease[attempt] = "COMPLETED" /\ result[attempt] = "value"
    /\ phase \in {"adopted", "done", "finished"} => object # "PENDING"
    /\ finished => phase = "finished"

DispatchInv ==
    /\ TypeOK
    /\ CallFitsPhase
    /\ FutureUntouched
    /\ SupersededIsOver
    /\ LeaseRecords
    /\ PushedUnderLease
    /\ PushFenced
    /\ Handlers
    /\ ExecutionMatchesLease
    /\ RepliesHold
    /\ LaneEnds
    /\ ReadyIsCompleted

-----------------------------------------------------------------------------
\* A call that is sent, and one that is answered, is a call.
LEMMA CallsTyped ==
    /\ \A k \in {"none", "request", "push", "outcome", "release", "cancel"} :
          [kind |-> k, reply |-> None] \in Calls
    /\ \A c \in Calls, r \in Replies \cup PushReplies : [c EXCEPT !.reply = r] \in Calls
BY DEF Calls

\* Whatever a Node's handler does to a lease, its records agree.
LEMMA HandleKeepsRecords ==
    ASSUME DispatchInv, NEW kind, NEW a \in Attempts, NEW reply, Handle(kind, a, reply),
           UNCHANGED dead
    PROVE  LeaseRecords'
<1> USE DEF DispatchInv, TypeOK, NodeTypeOK, LeaseRecords
<1>1. CASE HandleRequest(a, reply)
  <2>1. CASE decision' = decision /\ lease' = lease
    BY <1>1, <2>1 DEF HandleRequest
  <2>2. CASE /\ decision' = [decision EXCEPT ![a] = "GRANT"]
             /\ lease' = [lease EXCEPT ![a] = "GRANTED"]
             /\ a \notin cancelled
    BY <1>1, <2>2 DEF HandleRequest
  <2>3. CASE \E d \in {"PENDING", "REJECTED"} :
                 /\ decision' = [decision EXCEPT ![a] = d]
                 /\ lease' = lease
                 /\ decision[a] # "GRANT"
    BY <1>1, <2>3 DEF HandleRequest
  <2> QED
    BY <1>1, <2>1, <2>2, <2>3 DEF HandleRequest
<1>2. CASE HandleRelease(a, reply)
  BY <1>2 DEF HandleRelease
<1>3. CASE HandleCancel(a, reply)
  BY <1>3 DEF HandleCancel, Live, Terminal
<1>4. CASE HandleOutcome(a, reply)
  BY <1>4 DEF HandleOutcome, nodeVars
<1> QED
  BY <1>1, <1>2, <1>3, <1>4 DEF Handle

-----------------------------------------------------------------------------
(* One lemma per action.                                                   *)

\* The dispatcher takes up the Task or drops it.
LEMMA DequeueKeeps ==
    ASSUME DispatchInv, Dequeue
    PROVE  DispatchInv'
<1> USE RetryBudgetAssumption, DispatchAssumption
    DEF DispatchInv, TypeOK, Dequeue, Requeue, Send, nodeVars,
      workerVars, NoCall
<1>1. NodeTypeOK' /\ WorkerTypeOK' /\ FutureUntouched' /\ SupersededIsOver' /\ LeaseRecords' /\
     ExecutionMatchesLease' /\ ReadyIsCompleted'
  BY DEF NodeTypeOK, WorkerTypeOK, FutureUntouched, SupersededIsOver, LeaseRecords,
    ExecutionMatchesLease, ReadyIsCompleted
<1>2. LaneTypeOK'
  BY DEF LaneTypeOK
<1>3. unresolved' \in BOOLEAN /\ finished' \in BOOLEAN
  BY ZenonT(30)
<1>4. CallTypeOK'
  BY CallsTyped DEF CallTypeOK
<1>5. CallFitsPhase'
  BY DEF CallFitsPhase
<1>6. PushedUnderLease'
  BY DEF PushedUnderLease, Pushed, PushPhases, GrantPhases
<1>7. PushFenced'
  BY DEF PushFenced, Pushed, PushPhases, UnpushedPhases
<1>8. Handlers'
  BY DEF Calling, CallFitsPhase, Handlers
<1>9. RepliesHold'
  BY DEF RepliesHold, PushReplies
<1>10. LaneEnds'
  BY DEF LaneEnds
<1> QED
  BY <1>1, <1>2, <1>3, <1>4, <1>5, <1>6, <1>7, <1>8, <1>9, <1>10

\* The lane asks for a lease: nothing was pushed in this attempt.
LEMMA RequestLeaseKeeps ==
    ASSUME DispatchInv, RequestLease
    PROVE  DispatchInv'
<1> USE RetryBudgetAssumption, DispatchAssumption
    DEF DispatchInv, TypeOK, RequestLease, Send, nodeVars, workerVars
<1>1. NodeTypeOK' /\ WorkerTypeOK' /\ FutureUntouched' /\ SupersededIsOver' /\ LeaseRecords' /\
     ExecutionMatchesLease' /\ ReadyIsCompleted'
  BY DEF NodeTypeOK, WorkerTypeOK, FutureUntouched, SupersededIsOver, LeaseRecords,
    ExecutionMatchesLease, ReadyIsCompleted
<1>2. LaneTypeOK'
  BY DEF LaneTypeOK
<1>3. unresolved' \in BOOLEAN /\ finished' \in BOOLEAN
  BY ZenonT(30)
<1>4. CallTypeOK'
  BY CallsTyped DEF CallTypeOK
<1>5. CallFitsPhase'
  BY DEF CallFitsPhase
<1>6. PushedUnderLease'
  BY DEF PushedUnderLease, Pushed, PushPhases, GrantPhases, Replies
<1>7. PushFenced'
  BY DEF PushFenced, Pushed, PushPhases, UnpushedPhases
<1>8. Handlers'
  BY DEF Calling, CallFitsPhase, Handlers
<1>9. RepliesHold'
  BY DEF RepliesHold, Terminal, Outcomes
<1>10. LaneEnds'
  BY DEF LaneEnds
<1> QED
  BY <1>1, <1>2, <1>3, <1>4, <1>5, <1>6, <1>7, <1>8, <1>9, <1>10

\* The answer to a lease request: a grant was recorded before it was sent.
LEMMA LeaseRepliedKeeps ==
    ASSUME DispatchInv, LeaseReplied
    PROVE  DispatchInv'
<1> USE RetryBudgetAssumption, DispatchAssumption
    DEF DispatchInv, TypeOK, LeaseReplied, Answered, Requeue, Fail,
      nodeVars, workerVars, NoCall, PublishError
<1>1. NodeTypeOK' /\ WorkerTypeOK' /\ FutureUntouched' /\ SupersededIsOver' /\ LeaseRecords' /\
     ExecutionMatchesLease'
  BY DEF NodeTypeOK, WorkerTypeOK, FutureUntouched, SupersededIsOver, LeaseRecords,
    ExecutionMatchesLease
<1>2. LaneTypeOK'
  BY DEF LaneTypeOK
<1>3. unresolved' \in BOOLEAN /\ finished' \in BOOLEAN
  BY ZenonT(30)
<1>4. CallTypeOK'
  BY CallsTyped DEF CallTypeOK
<1>5. CallFitsPhase'
  BY DEF CallFitsPhase
<1>6. PushedUnderLease'
  BY DEF PushedUnderLease, Pushed, PushPhases, GrantPhases
<1>7. PushFenced'
  BY DEF CallFitsPhase, PushFenced, Pushed, PushPhases, UnpushedPhases
<1>8. Handlers'
  BY DEF Calling, Handlers
<1>9. RepliesHold'
  BY DEF RepliesHold, Terminal, Outcomes
<1>10. LaneEnds'
  BY DEF CallFitsPhase, LaneEnds
<1>11. ReadyIsCompleted'
  BY DEF ReadyIsCompleted
<1> QED
  BY <1>1, <1>2, <1>3, <1>4, <1>5, <1>6, <1>7, <1>8, <1>9, <1>10, <1>11

\* The grant becomes an obligation.
LEMMA AcceptGrantKeeps ==
    ASSUME DispatchInv, AcceptGrant
    PROVE  DispatchInv'
<1> USE RetryBudgetAssumption, DispatchAssumption
    DEF DispatchInv, TypeOK, AcceptGrant, Requeue, nodeVars, workerVars,
      NoCall
<1>1. NodeTypeOK' /\ WorkerTypeOK' /\ FutureUntouched' /\ SupersededIsOver' /\ LeaseRecords' /\
     ExecutionMatchesLease' /\ ReadyIsCompleted'
  BY DEF NodeTypeOK, WorkerTypeOK, FutureUntouched, SupersededIsOver, LeaseRecords,
    ExecutionMatchesLease, ReadyIsCompleted
<1>2. LaneTypeOK'
  BY DEF LaneTypeOK
<1>3. unresolved' \in BOOLEAN /\ finished' \in BOOLEAN
  BY ZenonT(30)
<1>4. CallTypeOK'
  BY CallsTyped DEF CallTypeOK
<1>5. CallFitsPhase'
  BY DEF CallFitsPhase
<1>6. PushedUnderLease'
  BY DEF PushedUnderLease, Pushed, GrantPhases
<1>7. PushFenced'
  BY DEF PushFenced, Pushed, PushPhases, UnpushedPhases
<1>8. Handlers'
  BY DEF Calling, CallFitsPhase, Handlers
<1>9. RepliesHold'
  BY DEF RepliesHold, Terminal, Outcomes
<1>10. LaneEnds'
  BY DEF LaneEnds
<1> QED
  BY <1>1, <1>2, <1>3, <1>4, <1>5, <1>6, <1>7, <1>8, <1>9, <1>10

\* The first Push of the attempt, or none if the output is decided.
LEMMA AdmitPushKeeps ==
    ASSUME DispatchInv, AdmitPush
    PROVE  DispatchInv'
<1> USE RetryBudgetAssumption, DispatchAssumption
    DEF DispatchInv, TypeOK, AdmitPush, Send, Requeue, nodeVars,
      workerVars, NoCall
<1>1. NodeTypeOK' /\ WorkerTypeOK' /\ FutureUntouched' /\ SupersededIsOver' /\ LeaseRecords' /\
     ExecutionMatchesLease' /\ ReadyIsCompleted'
  BY DEF NodeTypeOK, WorkerTypeOK, FutureUntouched, SupersededIsOver, LeaseRecords,
    ExecutionMatchesLease, ReadyIsCompleted
<1>2. LaneTypeOK'
  BY DEF LaneTypeOK
<1>3. unresolved' \in BOOLEAN /\ finished' \in BOOLEAN
  BY ZenonT(30)
<1>4. CallTypeOK'
  BY CallsTyped DEF CallTypeOK
<1>5. CallFitsPhase'
  BY DEF CallFitsPhase
<1>6. PushedUnderLease'
  BY DEF PushedUnderLease, Pushed, GrantPhases
<1>7. PushFenced'
  BY DEF PushFenced, Pushed, PushPhases, UnpushedPhases
<1>8. Handlers'
  BY DEF Calling, CallFitsPhase, Handlers
<1>9. RepliesHold'
  BY DEF RepliesHold, PushReplies
<1>10. LaneEnds'
  BY DEF LaneEnds
<1> QED
  BY <1>1, <1>2, <1>3, <1>4, <1>5, <1>6, <1>7, <1>8, <1>9, <1>10

\* A Push that failed at the Worker keeps the Task fenced.
LEMMA PushFailedKeeps ==
    ASSUME DispatchInv, PushFailed
    PROVE  DispatchInv'
<1> USE RetryBudgetAssumption, DispatchAssumption
    DEF DispatchInv, TypeOK, PushFailed, Answered, Requeue, Send,
      nodeVars, workerVars, NoCall
<1>1. NodeTypeOK' /\ WorkerTypeOK' /\ FutureUntouched' /\ SupersededIsOver' /\ LeaseRecords' /\
     ExecutionMatchesLease' /\ ReadyIsCompleted'
  BY DEF NodeTypeOK, WorkerTypeOK, FutureUntouched, SupersededIsOver, LeaseRecords,
    ExecutionMatchesLease, ReadyIsCompleted
<1>2. LaneTypeOK'
  BY DEF LaneTypeOK
<1>3. unresolved' \in BOOLEAN /\ finished' \in BOOLEAN
  BY ZenonT(30)
<1>4. CallTypeOK'
  BY CallsTyped DEF CallTypeOK
<1>5. CallFitsPhase'
  BY DEF CallFitsPhase
<1>6. PushedUnderLease'
  BY DEF CallFitsPhase, PushedUnderLease, Pushed, PushPhases, GrantPhases
<1>7. PushFenced'
  BY DEF CallFitsPhase, PushFenced, PushPhases, UnpushedPhases
<1>8. Handlers'
  BY DEF Calling, Handlers, PushReplies
<1>9. RepliesHold'
  BY DEF RepliesHold, Replies
<1>10. LaneEnds'
  BY DEF LaneTypeOK, NodeTypeOK, WorkerTypeOK, Attempts, CallFitsPhase, LaneEnds
<1> QED
  BY <1>1, <1>2, <1>3, <1>4, <1>5, <1>6, <1>7, <1>8, <1>9, <1>10

\* The lease was given back, or must be cancelled.
LEMMA ReleaseRepliedKeeps ==
    ASSUME DispatchInv, ReleaseReplied
    PROVE  DispatchInv'
<1> USE RetryBudgetAssumption, DispatchAssumption
    DEF DispatchInv, TypeOK, ReleaseReplied, Answered, Fail, Send,
      nodeVars, workerVars, PublishError, NoCall
<1>1. NodeTypeOK' /\ WorkerTypeOK' /\ FutureUntouched' /\ SupersededIsOver' /\ LeaseRecords' /\
     ExecutionMatchesLease'
  BY DEF NodeTypeOK, WorkerTypeOK, FutureUntouched, SupersededIsOver, LeaseRecords,
    ExecutionMatchesLease
<1>2. LaneTypeOK'
  BY DEF LaneTypeOK
<1>3. unresolved' \in BOOLEAN /\ finished' \in BOOLEAN
  BY ZenonT(30)
<1>4. CallTypeOK'
  BY CallsTyped DEF CallTypeOK
<1>5. CallFitsPhase'
  BY DEF CallFitsPhase
<1>6. PushedUnderLease'
  BY DEF PushedUnderLease, Pushed, PushPhases, GrantPhases
<1>7. PushFenced'
  BY DEF CallFitsPhase, PushFenced, Pushed, PushPhases, UnpushedPhases
<1>8. Handlers'
  BY DEF Calling, Handlers
<1>9. RepliesHold'
  BY DEF RepliesHold, Terminal, Outcomes
<1>10. LaneEnds'
  BY DEF CallFitsPhase, LaneEnds
<1>11. ReadyIsCompleted'
  BY DEF ReadyIsCompleted
<1> QED
  BY <1>1, <1>2, <1>3, <1>4, <1>5, <1>6, <1>7, <1>8, <1>9, <1>10, <1>11

\* The cancellation was accepted, or must be repeated.
LEMMA CancelRepliedKeeps ==
    ASSUME DispatchInv, CancelReplied
    PROVE  DispatchInv'
<1> USE RetryBudgetAssumption, DispatchAssumption
    DEF DispatchInv, TypeOK, CancelReplied, Answered, Fail, Requeue,
      nodeVars, workerVars, PublishError, NoCall
<1>1. NodeTypeOK' /\ WorkerTypeOK' /\ FutureUntouched' /\ SupersededIsOver' /\ LeaseRecords' /\
     ExecutionMatchesLease'
  BY DEF NodeTypeOK, WorkerTypeOK, FutureUntouched, SupersededIsOver, LeaseRecords,
    ExecutionMatchesLease
<1>2. LaneTypeOK'
  BY DEF LaneTypeOK
<1>3. unresolved' \in BOOLEAN /\ finished' \in BOOLEAN
  BY ZenonT(30)
<1>4. CallTypeOK'
  BY CallsTyped DEF CallTypeOK
<1>5. CallFitsPhase'
  BY DEF CallFitsPhase
<1>6. PushedUnderLease'
  BY DEF PushedUnderLease, Pushed, PushPhases, GrantPhases
<1>7. PushFenced'
  BY DEF CallFitsPhase, PushFenced, Pushed, PushPhases, UnpushedPhases
<1>8. Handlers'
  BY DEF Calling, Handlers
<1>9. RepliesHold'
  BY DEF RepliesHold, Terminal, Outcomes
<1>10. LaneEnds'
  BY DEF CallFitsPhase, LaneEnds
<1>11. ReadyIsCompleted'
  BY DEF ReadyIsCompleted
<1> QED
  BY <1>1, <1>2, <1>3, <1>4, <1>5, <1>6, <1>7, <1>8, <1>9, <1>10, <1>11

\* A value whose lease is COMPLETED becomes READY.
LEMMA AdoptOutputKeeps ==
    ASSUME DispatchInv, AdoptOutput
    PROVE  DispatchInv'
<1> USE RetryBudgetAssumption, DispatchAssumption
    DEF DispatchInv, TypeOK, AdoptOutput, nodeVars, workerVars
<1>1. unresolved' \in BOOLEAN /\ finished' \in BOOLEAN /\ CallTypeOK' /\ NodeTypeOK' /\
     WorkerTypeOK' /\ FutureUntouched' /\ SupersededIsOver' /\ LeaseRecords' /\ Handlers' /\
     ExecutionMatchesLease' /\ RepliesHold'
  BY DEF CallTypeOK, NodeTypeOK, WorkerTypeOK, FutureUntouched, SupersededIsOver, LeaseRecords,
    Handlers, ExecutionMatchesLease, RepliesHold, Calling
<1>2. LaneTypeOK'
  BY DEF LaneTypeOK
<1>3. CallFitsPhase'
  BY DEF CallFitsPhase
<1>4. PushedUnderLease'
  BY DEF PushedUnderLease, Pushed, GrantPhases
<1>5. PushFenced'
  BY DEF PushFenced, Pushed, PushPhases, UnpushedPhases
<1>6. LaneEnds'
  BY DEF LaneEnds
<1>7. ReadyIsCompleted'
  BY DEF LaneTypeOK, NodeTypeOK, WorkerTypeOK, Attempts, PushFenced, RepliesHold, LaneEnds,
    ReadyIsCompleted
<1> QED
  BY <1>1, <1>2, <1>3, <1>4, <1>5, <1>6, <1>7

\* The adoption ends the obligation.
LEMMA FinishAdoptionKeeps ==
    ASSUME DispatchInv, FinishAdoption
    PROVE  DispatchInv'
<1> USE RetryBudgetAssumption, DispatchAssumption
    DEF DispatchInv, TypeOK, FinishAdoption, Requeue, nodeVars,
      workerVars, NoCall
<1>1. NodeTypeOK' /\ WorkerTypeOK' /\ FutureUntouched' /\ SupersededIsOver' /\ LeaseRecords' /\
     ExecutionMatchesLease' /\ ReadyIsCompleted'
  BY DEF NodeTypeOK, WorkerTypeOK, FutureUntouched, SupersededIsOver, LeaseRecords,
    ExecutionMatchesLease, ReadyIsCompleted
<1>2. LaneTypeOK'
  BY DEF LaneTypeOK
<1>3. unresolved' \in BOOLEAN /\ finished' \in BOOLEAN
  BY ZenonT(30)
<1>4. CallTypeOK'
  BY CallsTyped DEF CallTypeOK
<1>5. CallFitsPhase'
  BY DEF CallFitsPhase
<1>6. PushedUnderLease'
  BY DEF PushedUnderLease, Pushed, GrantPhases
<1>7. PushFenced'
  BY DEF PushFenced, Pushed, PushPhases, UnpushedPhases
<1>8. Handlers'
  BY DEF Calling, CallFitsPhase, Handlers
<1>9. RepliesHold'
  BY DEF RepliesHold, Terminal, Outcomes
<1>10. LaneEnds'
  BY DEF LaneEnds
<1> QED
  BY <1>1, <1>2, <1>3, <1>4, <1>5, <1>6, <1>7, <1>8, <1>9, <1>10

\* The Task is forgotten with its output decided.
LEMMA FinishTaskKeeps ==
    ASSUME DispatchInv, FinishTask
    PROVE  DispatchInv'
<1> USE RetryBudgetAssumption, DispatchAssumption
    DEF DispatchInv, TypeOK, FinishTask, nodeVars, workerVars
<1>1. CallTypeOK' /\ NodeTypeOK' /\ WorkerTypeOK' /\ FutureUntouched' /\ SupersededIsOver' /\
     LeaseRecords' /\ Handlers' /\ ExecutionMatchesLease' /\ RepliesHold' /\ ReadyIsCompleted'
  BY DEF CallTypeOK, NodeTypeOK, WorkerTypeOK, FutureUntouched, SupersededIsOver, LeaseRecords,
    Handlers, ExecutionMatchesLease, RepliesHold, ReadyIsCompleted, Calling
<1>2. LaneTypeOK'
  BY DEF LaneTypeOK
<1>3. unresolved' \in BOOLEAN /\ finished' \in BOOLEAN
  BY ZenonT(30)
<1>4. CallFitsPhase'
  BY DEF CallFitsPhase
<1>5. PushedUnderLease'
  BY DEF PushedUnderLease, Pushed, PushPhases, GrantPhases
<1>6. PushFenced'
  BY DEF PushFenced, Pushed, PushPhases, UnpushedPhases
<1>7. LaneEnds'
  BY DEF LaneEnds
<1> QED
  BY <1>1, <1>2, <1>3, <1>4, <1>5, <1>6, <1>7

\* The shutdown deadline fails an output that no obligation fences.
LEMMA ShutdownDeadlineKeeps ==
    ASSUME DispatchInv, ShutdownDeadline
    PROVE  DispatchInv'
<1> USE RetryBudgetAssumption, DispatchAssumption
    DEF DispatchInv, TypeOK, ShutdownDeadline, PublishError, nodeVars,
      workerVars
<1>1. unresolved' \in BOOLEAN /\ finished' \in BOOLEAN /\ CallTypeOK' /\ NodeTypeOK' /\
     WorkerTypeOK' /\ CallFitsPhase' /\ FutureUntouched' /\ SupersededIsOver' /\ LeaseRecords' /\
     PushedUnderLease' /\ Handlers' /\ ExecutionMatchesLease' /\ RepliesHold'
  BY DEF CallTypeOK, NodeTypeOK, WorkerTypeOK, CallFitsPhase, FutureUntouched, SupersededIsOver,
    LeaseRecords, PushedUnderLease, Handlers, ExecutionMatchesLease, RepliesHold, Pushed,
    StrayPush, Calling
<1>2. LaneTypeOK'
  BY DEF LaneTypeOK
<1>3. PushFenced'
  BY DEF PushFenced, Pushed
<1>4. LaneEnds'
  BY DEF LaneEnds
<1>5. ReadyIsCompleted'
  BY DEF ReadyIsCompleted
<1> QED
  BY <1>1, <1>2, <1>3, <1>4, <1>5

\* A Node answers the call that the lane waits for.
LEMMA NodeAnswersKeeps ==
    ASSUME DispatchInv, NEW kind \in {"request", "release", "cancel", "outcome"}, NodeAnswers(kind)
    PROVE  DispatchInv'
<1> USE RetryBudgetAssumption, DispatchAssumption
    DEF DispatchInv, TypeOK, NodeAnswers, Calling, Handle, laneVars,
      workerVars, HandleRequest, HandleRelease, HandleCancel, HandleOutcome, nodeVars
<1>1. LaneTypeOK' /\ unresolved' \in BOOLEAN /\ finished' \in BOOLEAN /\ WorkerTypeOK'
  BY DEF LaneTypeOK, WorkerTypeOK
<1>2. CallTypeOK'
  BY CallsTyped DEF CallTypeOK
<1>3. NodeTypeOK'
  BY DEF LaneTypeOK, NodeTypeOK, CallFitsPhase, Live, Terminal
<1>4. CallFitsPhase'
  BY DEF CallFitsPhase
<1>5. FutureUntouched'
  BY DEF NodeTypeOK, Attempts, FutureUntouched
<1>6. SupersededIsOver'
  BY DEF NodeTypeOK, WorkerTypeOK, Attempts, SupersededIsOver
<1>7. LeaseRecords'
  <2>1. attempt \in Attempts
    BY DEF LaneTypeOK
  <2> QED
    BY <2>1, HandleKeepsRecords DEF NodeAnswers, workerVars
<1>8. PushedUnderLease'
  BY DEF LaneTypeOK, NodeTypeOK, PushedUnderLease, Pushed
<1>9. PushFenced'
  BY DEF CallFitsPhase, PushFenced, Pushed, UnpushedPhases, Live
<1>10. Handlers'
  BY DEF Handlers
<1>11. ExecutionMatchesLease'
  BY DEF NodeTypeOK, LeaseRecords, ExecutionMatchesLease
<1>12. RepliesHold'
  BY DEF RepliesHold, Terminal, Outcomes
<1>13. LaneEnds'
  BY DEF CallFitsPhase, LaneEnds
<1>14. ReadyIsCompleted'
  BY DEF LaneTypeOK, CallTypeOK, NodeTypeOK, WorkerTypeOK, Calls, Attempts, NoCall, Answered,
    CallFitsPhase, FutureUntouched, SupersededIsOver, LeaseRecords, PushedUnderLease,
    PushFenced, ReadyIsCompleted
<1> QED
  BY <1>1, <1>2, <1>3, <1>4, <1>5, <1>6, <1>7, <1>8, <1>9, <1>10, <1>11, <1>12, <1>13, <1>14

\* A Node receives a call that was given up.
LEMMA StrayArrivesKeeps ==
    ASSUME DispatchInv, NEW m \in strays, StrayArrives(m)
    PROVE  DispatchInv'
<1> USE RetryBudgetAssumption, DispatchAssumption
    DEF DispatchInv, TypeOK, StrayArrives, Handle, laneVars, workerVars,
      HandleRequest, HandleRelease, HandleCancel, HandleOutcome, nodeVars
<1>1. LaneTypeOK' /\ unresolved' \in BOOLEAN /\ finished' \in BOOLEAN /\ WorkerTypeOK' /\
     CallFitsPhase' /\ Handlers'
  BY DEF LaneTypeOK, WorkerTypeOK, CallFitsPhase, Handlers, Calling
<1>2. CallTypeOK'
  BY CallsTyped DEF CallTypeOK
<1>3. NodeTypeOK'
  BY DEF CallTypeOK, NodeTypeOK, Live, Terminal
<1>4. FutureUntouched'
  BY DEF LaneTypeOK, NodeTypeOK, Attempts, FutureUntouched
<1>5. SupersededIsOver'
  BY DEF NodeTypeOK, SupersededIsOver, LeaseRecords, Terminal
<1>6. LeaseRecords'
  <2>1. m.attempt \in Attempts
    BY DEF CallTypeOK
  <2> QED
    BY <2>1, HandleKeepsRecords DEF StrayArrives, workerVars
<1>7. PushedUnderLease'
  BY DEF LaneTypeOK, NodeTypeOK, PushedUnderLease, Pushed
<1>8. PushFenced'
  BY DEF LaneTypeOK, NodeTypeOK, LeaseRecords, PushedUnderLease, PushFenced, Pushed, Live
<1>9. ExecutionMatchesLease'
  BY DEF NodeTypeOK, LeaseRecords, ExecutionMatchesLease
<1>10. RepliesHold'
  BY DEF LaneTypeOK, NodeTypeOK, LeaseRecords, RepliesHold, Terminal
<1>11. LaneEnds'
  BY DEF LaneTypeOK, NodeTypeOK, LeaseRecords, LaneEnds
<1>12. ReadyIsCompleted'
  BY DEF LaneTypeOK, CallTypeOK, NodeTypeOK, WorkerTypeOK, Calls, Attempts, NoCall, Answered,
    Calling, CallFitsPhase, FutureUntouched, SupersededIsOver, LeaseRecords, PushedUnderLease,
    PushFenced, ReadyIsCompleted
<1> QED
  BY <1>1, <1>2, <1>3, <1>4, <1>5, <1>6, <1>7, <1>8, <1>9, <1>10, <1>11, <1>12

\* A lease whose Worker died is lost.
LEMMA NoticeDeathKeeps ==
    ASSUME DispatchInv, NEW a \in Attempts, NoticeDeath(a)
    PROVE  DispatchInv'
<1> USE RetryBudgetAssumption, DispatchAssumption
    DEF DispatchInv, TypeOK, NoticeDeath, laneVars, workerVars
<1>1. LaneTypeOK' /\ unresolved' \in BOOLEAN /\ finished' \in BOOLEAN /\ CallTypeOK' /\
     WorkerTypeOK' /\ CallFitsPhase' /\ Handlers'
  BY DEF LaneTypeOK, CallTypeOK, WorkerTypeOK, CallFitsPhase, Handlers, Calling
<1>2. NodeTypeOK'
  BY DEF NodeTypeOK, Terminal
<1>3. FutureUntouched'
  BY DEF FutureUntouched, Live
<1>4. SupersededIsOver'
  BY DEF SupersededIsOver, Terminal
<1>5. LeaseRecords'
  BY DEF LeaseRecords, Live
<1>6. PushedUnderLease'
  BY DEF PushedUnderLease, Pushed, StrayPush
<1>7. PushFenced'
  BY DEF PushFenced, Pushed
<1>8. ExecutionMatchesLease'
  BY DEF ExecutionMatchesLease, Live
<1>9. RepliesHold'
  BY DEF RepliesHold, Live, Terminal
<1>10. LaneEnds'
  BY DEF LaneEnds, Live
<1>11. ReadyIsCompleted'
  BY DEF LaneTypeOK, CallTypeOK, NodeTypeOK, WorkerTypeOK, Calls, Attempts, NoCall, Answered,
    Calling, CallFitsPhase, FutureUntouched, SupersededIsOver, LeaseRecords, PushedUnderLease,
    PushFenced, Handlers, ExecutionMatchesLease, RepliesHold, LaneEnds, ReadyIsCompleted,
    Pushed, StrayPush, PushPhases, UnpushedPhases, GrantPhases, Live, Terminal, Outcomes,
    Replies, PushReplies, nodeVars
<1> QED
  BY <1>1, <1>2, <1>3, <1>4, <1>5, <1>6, <1>7, <1>8, <1>9, <1>10, <1>11

\* The Push that the lane waits for arrives.
LEMMA PushArrivesKeeps ==
    ASSUME DispatchInv, PushArrives
    PROVE  DispatchInv'
<1> USE RetryBudgetAssumption, DispatchAssumption
    DEF DispatchInv, TypeOK, PushArrives, Calling, Accept, laneVars,
      nodeVars
<1>1. LaneTypeOK' /\ unresolved' \in BOOLEAN /\ finished' \in BOOLEAN /\ CallTypeOK' /\
     NodeTypeOK' /\ CallFitsPhase' /\ SupersededIsOver' /\ LeaseRecords' /\ RepliesHold' /\
     LaneEnds' /\ ReadyIsCompleted'
  BY DEF LaneTypeOK, CallTypeOK, NodeTypeOK, CallFitsPhase, SupersededIsOver, LeaseRecords,
    RepliesHold, LaneEnds, ReadyIsCompleted
<1>2. WorkerTypeOK'
  BY DEF WorkerTypeOK
<1>3. FutureUntouched'
  BY DEF Attempts, FutureUntouched
<1>4. PushedUnderLease'
  BY DEF CallFitsPhase, PushedUnderLease, Pushed, PushPhases, GrantPhases
<1>5. PushFenced'
  BY DEF WorkerTypeOK, CallFitsPhase, PushFenced, Pushed, PushPhases, UnpushedPhases
<1>6. Handlers'
  BY DEF Handlers
<1>7. ExecutionMatchesLease'
  BY DEF ExecutionMatchesLease
<1> QED
  BY <1>1, <1>2, <1>3, <1>4, <1>5, <1>6, <1>7

\* A Push that was given up arrives.
LEMMA StrayPushArrivesKeeps ==
    ASSUME DispatchInv, NEW a \in Attempts, StrayPushArrives(a)
    PROVE  DispatchInv'
<1> USE RetryBudgetAssumption, DispatchAssumption
    DEF DispatchInv, TypeOK, StrayPushArrives, Accept, laneVars, nodeVars
<1>1. LaneTypeOK' /\ unresolved' \in BOOLEAN /\ finished' \in BOOLEAN /\ NodeTypeOK' /\
     CallFitsPhase' /\ SupersededIsOver' /\ LeaseRecords' /\ RepliesHold' /\ LaneEnds' /\
     ReadyIsCompleted'
  BY DEF LaneTypeOK, NodeTypeOK, CallFitsPhase, SupersededIsOver, LeaseRecords, RepliesHold,
    LaneEnds, ReadyIsCompleted
<1>2. CallTypeOK'
  BY CallsTyped DEF CallTypeOK
<1>3. WorkerTypeOK'
  BY DEF WorkerTypeOK
<1>4. FutureUntouched'
  BY DEF LaneTypeOK, Attempts, FutureUntouched
<1>5. PushedUnderLease'
  BY DEF PushedUnderLease, Pushed, StrayPush
<1>6. PushFenced'
  BY DEF PushFenced, Pushed, StrayPush
<1>7. Handlers'
  BY DEF Calling, Handlers
<1>8. ExecutionMatchesLease'
  BY DEF ExecutionMatchesLease
<1> QED
  BY <1>1, <1>2, <1>3, <1>4, <1>5, <1>6, <1>7, <1>8

\* A Push reaches a port that the dead Worker left.
LEMMA PushRefusedKeeps ==
    ASSUME DispatchInv, PushRefused
    PROVE  DispatchInv'
<1> USE RetryBudgetAssumption, DispatchAssumption
    DEF DispatchInv, TypeOK, PushRefused, Calling, laneVars, nodeVars,
      workerVars
<1>1. LaneTypeOK' /\ unresolved' \in BOOLEAN /\ finished' \in BOOLEAN /\ NodeTypeOK' /\
     WorkerTypeOK' /\ FutureUntouched' /\ SupersededIsOver' /\ LeaseRecords' /\
     ExecutionMatchesLease' /\ LaneEnds' /\ ReadyIsCompleted'
  BY DEF LaneTypeOK, NodeTypeOK, WorkerTypeOK, FutureUntouched, SupersededIsOver, LeaseRecords,
    ExecutionMatchesLease, LaneEnds, ReadyIsCompleted
<1>2. CallTypeOK'
  BY CallsTyped DEF CallTypeOK, PushReplies
<1>3. CallFitsPhase'
  BY DEF CallFitsPhase
<1>4. PushedUnderLease'
  BY DEF PushedUnderLease, Pushed, StrayPush
<1>5. PushFenced'
  BY DEF PushFenced, Pushed
<1>6. Handlers'
  BY DEF Handlers
<1>7. RepliesHold'
  BY DEF RepliesHold, Terminal, Outcomes
<1> QED
  BY <1>1, <1>2, <1>3, <1>4, <1>5, <1>6, <1>7

\* The Worker starts its lease, which must be live.
LEMMA StartLeaseKeeps ==
    ASSUME DispatchInv, NEW a \in Attempts, StartLease(a)
    PROVE  DispatchInv'
<1> USE RetryBudgetAssumption, DispatchAssumption
    DEF DispatchInv, TypeOK, StartLease, HandlerEnds, laneVars
<1>1. LaneTypeOK' /\ unresolved' \in BOOLEAN /\ finished' \in BOOLEAN
  BY DEF LaneTypeOK
<1>2. CallTypeOK'
  <2>1. call' = call \/ call' = [call EXCEPT !.reply = "remote_error"]
    BY DEF StartLease, HandlerEnds
  <2> QED
    BY <2>1, CallsTyped DEF StartLease, CallTypeOK, PushReplies
<1>3. NodeTypeOK'
  BY DEF NodeTypeOK, Live
<1>4. WorkerTypeOK'
  BY DEF WorkerTypeOK
<1>5. CallFitsPhase'
  BY DEF CallTypeOK, Calls, CallFitsPhase
<1>6. FutureUntouched'
  BY DEF WorkerTypeOK, FutureUntouched
<1>7. SupersededIsOver'
  BY DEF SupersededIsOver, Live, Terminal
<1>8. LeaseRecords'
  BY DEF LeaseRecords, Live
<1>9. PushedUnderLease'
  BY DEF CallTypeOK, WorkerTypeOK, Calls, PushedUnderLease, Pushed
<1>10. PushFenced'
  BY DEF LaneTypeOK, CallTypeOK, WorkerTypeOK, Calls, PushFenced, Pushed, PushReplies
<1>11. Handlers'
  BY DEF WorkerTypeOK, Calling, Handlers
<1>12. ExecutionMatchesLease'
  BY DEF NodeTypeOK, WorkerTypeOK, ExecutionMatchesLease
<1>13. RepliesHold'
  BY DEF CallTypeOK, Calls, RepliesHold, Live, Terminal, Outcomes
<1>14. LaneEnds'
  BY DEF ExecutionMatchesLease, LaneEnds
<1>15. ReadyIsCompleted'
  BY DEF LaneTypeOK, CallTypeOK, NodeTypeOK, WorkerTypeOK, Calls, Attempts, NoCall, Answered,
    Calling, CallFitsPhase, FutureUntouched, SupersededIsOver, LeaseRecords, PushedUnderLease,
    PushFenced, Handlers, ExecutionMatchesLease, RepliesHold, LaneEnds, ReadyIsCompleted,
    Pushed, StrayPush, PushPhases, UnpushedPhases, GrantPhases, Live, Terminal, Outcomes,
    Replies, PushReplies, nodeVars, workerVars
<1> QED
  BY <1>1, <1>2, <1>3, <1>4, <1>5, <1>6, <1>7, <1>8, <1>9, <1>10, <1>11, <1>12, <1>13, <1>14,
    <1>15

\* The handler of a Push fails.
LEMMA HandlerFailsKeeps ==
    ASSUME DispatchInv, NEW a \in Attempts, HandlerFails(a)
    PROVE  DispatchInv'
<1> USE RetryBudgetAssumption, DispatchAssumption
    DEF DispatchInv, TypeOK, HandlerFails, HandlerEnds, laneVars,
      nodeVars
<1>1. LaneTypeOK' /\ unresolved' \in BOOLEAN /\ finished' \in BOOLEAN /\ NodeTypeOK' /\
     SupersededIsOver' /\ LeaseRecords' /\ ExecutionMatchesLease' /\ LaneEnds' /\ ReadyIsCompleted'
  BY DEF LaneTypeOK, NodeTypeOK, SupersededIsOver, LeaseRecords, ExecutionMatchesLease,
    LaneEnds, ReadyIsCompleted
<1>2. CallTypeOK'
  BY CallsTyped DEF CallTypeOK, PushReplies
<1>3. WorkerTypeOK'
  BY DEF WorkerTypeOK
<1>4. CallFitsPhase'
  BY DEF CallFitsPhase
<1>5. FutureUntouched'
  BY DEF FutureUntouched
<1>6. PushedUnderLease'
  BY DEF PushedUnderLease, Pushed, StrayPush
<1>7. PushFenced'
  BY DEF PushFenced, Pushed, PushReplies
<1>8. Handlers'
  BY DEF WorkerTypeOK, Calling, Handlers
<1>9. RepliesHold'
  BY DEF RepliesHold, Terminal, Outcomes
<1> QED
  BY <1>1, <1>2, <1>3, <1>4, <1>5, <1>6, <1>7, <1>8, <1>9

\* User code starts.
LEMMA RunTaskKeeps ==
    ASSUME DispatchInv, NEW a \in Attempts, RunTask(a)
    PROVE  DispatchInv'
<1> USE RetryBudgetAssumption, DispatchAssumption
    DEF DispatchInv, TypeOK, RunTask, laneVars, nodeVars
<1>1. LaneTypeOK' /\ unresolved' \in BOOLEAN /\ finished' \in BOOLEAN /\ CallTypeOK' /\
     NodeTypeOK' /\ CallFitsPhase' /\ SupersededIsOver' /\ LeaseRecords' /\ Handlers' /\
     RepliesHold' /\ LaneEnds' /\ ReadyIsCompleted'
  BY DEF LaneTypeOK, CallTypeOK, NodeTypeOK, CallFitsPhase, SupersededIsOver, LeaseRecords,
    Handlers, RepliesHold, LaneEnds, ReadyIsCompleted, Calling
<1>2. WorkerTypeOK'
  BY DEF WorkerTypeOK
<1>3. FutureUntouched'
  BY DEF FutureUntouched
<1>4. PushedUnderLease'
  BY DEF PushedUnderLease, Pushed, StrayPush
<1>5. PushFenced'
  BY DEF PushFenced, Pushed
<1>6. ExecutionMatchesLease'
  BY DEF ExecutionMatchesLease
<1> QED
  BY <1>1, <1>2, <1>3, <1>4, <1>5, <1>6

\* User code ends with an outcome.
LEMMA EndTaskKeeps ==
    ASSUME DispatchInv, NEW a \in Attempts, NEW r \in Outcomes, EndTask(a, r)
    PROVE  DispatchInv'
<1> USE RetryBudgetAssumption, DispatchAssumption
    DEF DispatchInv, TypeOK, EndTask, laneVars, nodeVars
<1>1. LaneTypeOK' /\ unresolved' \in BOOLEAN /\ finished' \in BOOLEAN /\ CallTypeOK' /\
     NodeTypeOK' /\ CallFitsPhase' /\ SupersededIsOver' /\ LeaseRecords' /\ Handlers'
  BY DEF LaneTypeOK, CallTypeOK, NodeTypeOK, CallFitsPhase, SupersededIsOver, LeaseRecords,
    Handlers, Calling
<1>2. WorkerTypeOK'
  BY DEF WorkerTypeOK
<1>3. FutureUntouched'
  BY DEF FutureUntouched
<1>4. PushedUnderLease'
  BY DEF PushedUnderLease, Pushed, StrayPush
<1>5. PushFenced'
  BY DEF PushFenced, Pushed
<1>6. ExecutionMatchesLease'
  BY DEF WorkerTypeOK, ExecutionMatchesLease
<1>7. RepliesHold'
  BY DEF ExecutionMatchesLease, RepliesHold
<1>8. LaneEnds'
  BY DEF ExecutionMatchesLease, LaneEnds
<1>9. ReadyIsCompleted'
  BY DEF LaneTypeOK, CallTypeOK, NodeTypeOK, WorkerTypeOK, Calls, Attempts, NoCall, Answered,
    Calling, CallFitsPhase, FutureUntouched, SupersededIsOver, LeaseRecords, PushedUnderLease,
    PushFenced, Handlers, ExecutionMatchesLease, RepliesHold, LaneEnds, ReadyIsCompleted,
    Pushed, StrayPush, PushPhases, UnpushedPhases, GrantPhases, Live, Terminal, Outcomes,
    Replies, PushReplies, workerVars
<1> QED
  BY <1>1, <1>2, <1>3, <1>4, <1>5, <1>6, <1>7, <1>8, <1>9

\* User code ends the handler.
LEMMA TaskExitsKeeps ==
    ASSUME DispatchInv, NEW a \in Attempts, TaskExits(a)
    PROVE  DispatchInv'
<1> USE RetryBudgetAssumption, DispatchAssumption
    DEF DispatchInv, TypeOK, TaskExits, HandlerEnds, laneVars, nodeVars
<1>1. LaneTypeOK' /\ unresolved' \in BOOLEAN /\ finished' \in BOOLEAN /\ NodeTypeOK' /\
     SupersededIsOver' /\ LeaseRecords' /\ LaneEnds' /\ ReadyIsCompleted'
  BY DEF LaneTypeOK, NodeTypeOK, SupersededIsOver, LeaseRecords, LaneEnds, ReadyIsCompleted
<1>2. CallTypeOK'
  BY CallsTyped DEF CallTypeOK, PushReplies
<1>3. WorkerTypeOK'
  BY DEF WorkerTypeOK
<1>4. CallFitsPhase'
  BY DEF CallFitsPhase
<1>5. FutureUntouched'
  BY DEF FutureUntouched
<1>6. PushedUnderLease'
  BY DEF PushedUnderLease, Pushed, StrayPush
<1>7. PushFenced'
  BY DEF PushFenced, Pushed, PushReplies
<1>8. Handlers'
  BY DEF WorkerTypeOK, Calling, Handlers
<1>9. ExecutionMatchesLease'
  BY DEF ExecutionMatchesLease
<1>10. RepliesHold'
  BY DEF RepliesHold, Terminal, Outcomes
<1> QED
  BY <1>1, <1>2, <1>3, <1>4, <1>5, <1>6, <1>7, <1>8, <1>9, <1>10

\* The Worker completes its lease, with its outcome kept.
LEMMA CompleteLeaseKeeps ==
    ASSUME DispatchInv, NEW a \in Attempts, CompleteLease(a)
    PROVE  DispatchInv'
<1> USE RetryBudgetAssumption, DispatchAssumption
    DEF DispatchInv, TypeOK, CompleteLease, HandlerEnds, laneVars
<1>1. LaneTypeOK' /\ unresolved' \in BOOLEAN /\ finished' \in BOOLEAN
  BY DEF LaneTypeOK
<1>2. CallTypeOK'
  <2>1. call' = call \/ call' = [call EXCEPT !.reply = "remote_error"]
    BY DEF CompleteLease, HandlerEnds
  <2> QED
    BY <2>1, CallsTyped DEF CompleteLease, CallTypeOK, PushReplies
<1>3. NodeTypeOK'
  BY DEF NodeTypeOK, Terminal
<1>4. WorkerTypeOK'
  BY DEF WorkerTypeOK
<1>5. CallFitsPhase'
  BY DEF CallTypeOK, Calls, CallFitsPhase
<1>6. FutureUntouched'
  BY DEF WorkerTypeOK, FutureUntouched
<1>7. SupersededIsOver'
  BY DEF SupersededIsOver, Terminal
<1>8. LeaseRecords'
  BY DEF LeaseRecords
<1>9. PushedUnderLease'
  BY DEF CallTypeOK, WorkerTypeOK, Calls, PushedUnderLease, Pushed
<1>10. PushFenced'
  BY DEF LaneTypeOK, CallTypeOK, WorkerTypeOK, Calls, PushFenced, Pushed, Live, PushReplies
<1>11. Handlers'
  BY DEF WorkerTypeOK, Calling, Handlers
<1>12. ExecutionMatchesLease'
  BY DEF NodeTypeOK, WorkerTypeOK, ExecutionMatchesLease
<1>13. RepliesHold'
  BY DEF CallTypeOK, Calls, RepliesHold, Terminal, Outcomes
<1>14. LaneEnds'
  BY DEF LaneEnds
<1>15. ReadyIsCompleted'
  BY DEF ReadyIsCompleted
<1> QED
  BY <1>1, <1>2, <1>3, <1>4, <1>5, <1>6, <1>7, <1>8, <1>9, <1>10, <1>11, <1>12, <1>13, <1>14,
    <1>15

\* The Worker answers with the outcome of a COMPLETED lease.
LEMMA ReplyPushKeeps ==
    ASSUME DispatchInv, NEW a \in Attempts, ReplyPush(a)
    PROVE  DispatchInv'
<1> USE RetryBudgetAssumption, DispatchAssumption
    DEF DispatchInv, TypeOK, ReplyPush, HandlerEnds, laneVars, nodeVars
<1>1. LaneTypeOK' /\ unresolved' \in BOOLEAN /\ finished' \in BOOLEAN /\ NodeTypeOK' /\
     SupersededIsOver' /\ LeaseRecords' /\ ExecutionMatchesLease' /\ LaneEnds' /\ ReadyIsCompleted'
  BY DEF LaneTypeOK, NodeTypeOK, SupersededIsOver, LeaseRecords, ExecutionMatchesLease,
    LaneEnds, ReadyIsCompleted
<1>2. CallTypeOK'
  BY CallsTyped DEF CallTypeOK, ExecutionMatchesLease, PushReplies
<1>3. WorkerTypeOK'
  BY DEF WorkerTypeOK
<1>4. CallFitsPhase'
  BY DEF CallFitsPhase
<1>5. FutureUntouched'
  BY DEF FutureUntouched
<1>6. PushedUnderLease'
  BY DEF PushedUnderLease, ExecutionMatchesLease, Pushed, Outcomes
<1>7. PushFenced'
  BY DEF PushFenced, ExecutionMatchesLease, Pushed, PushReplies
<1>8. Handlers'
  BY DEF WorkerTypeOK, Calling, Handlers
<1>9. RepliesHold'
  BY DEF LaneTypeOK, NodeTypeOK, WorkerTypeOK, Attempts, CallFitsPhase, LeaseRecords, Handlers,
    ExecutionMatchesLease, RepliesHold, Live, Terminal, Outcomes, Replies, PushReplies
<1> QED
  BY <1>1, <1>2, <1>3, <1>4, <1>5, <1>6, <1>7, <1>8, <1>9

\* A Worker dies, with its handlers.
LEMMA WorkerDiesKeeps ==
    ASSUME DispatchInv, NEW a \in Attempts, WorkerDies(a)
    PROVE  DispatchInv'
<1> USE RetryBudgetAssumption, DispatchAssumption
    DEF DispatchInv, TypeOK, WorkerDies, HandlerEnds, laneVars, nodeVars
<1>1. LaneTypeOK' /\ unresolved' \in BOOLEAN /\ finished' \in BOOLEAN /\ NodeTypeOK' /\
     SupersededIsOver' /\ LaneEnds' /\ ReadyIsCompleted'
  BY DEF LaneTypeOK, NodeTypeOK, SupersededIsOver, LaneEnds, ReadyIsCompleted
<1>2. CallTypeOK'
  BY CallsTyped DEF CallTypeOK, PushReplies
<1>3. WorkerTypeOK'
  BY DEF WorkerTypeOK
<1>4. CallFitsPhase'
  BY DEF CallFitsPhase
<1>5. FutureUntouched'
  BY DEF FutureUntouched
<1>6. LeaseRecords'
  BY DEF LeaseRecords
<1>7. PushedUnderLease'
  BY DEF PushedUnderLease, Pushed, StrayPush
<1>8. PushFenced'
  BY DEF PushFenced, Pushed, PushReplies
<1>9. Handlers'
  BY DEF WorkerTypeOK, Calling, Handlers
<1>10. ExecutionMatchesLease'
  BY DEF ExecutionMatchesLease
<1>11. RepliesHold'
  BY DEF RepliesHold, Terminal, Outcomes
<1> QED
  BY <1>1, <1>2, <1>3, <1>4, <1>5, <1>6, <1>7, <1>8, <1>9, <1>10, <1>11

-----------------------------------------------------------------------------
(* The turns that several calls share.                                     *)

\* The lane publishes an error where no Push can still run.
LEMMA FailKeeps ==
    ASSUME DispatchInv, Fail, round' \in 0 .. Rounds,
           UNCHANGED <<strays, nodeVars, workerVars>>,
           ~finished, serving[attempt] # "current",
           Pushed(attempt) => lease[attempt] \notin Live
    PROVE  DispatchInv'
<1> USE RetryBudgetAssumption, DispatchAssumption
    DEF DispatchInv, TypeOK, Fail
<1>1. FutureUntouched' /\ SupersededIsOver' /\ LeaseRecords' /\ ExecutionMatchesLease'
  BY DEF FutureUntouched, SupersededIsOver, LeaseRecords, ExecutionMatchesLease, nodeVars,
    workerVars
<1>2. LaneTypeOK'
  BY DEF LaneTypeOK, PublishError
<1>3. unresolved' \in BOOLEAN /\ finished' \in BOOLEAN
  BY ZenonT(30)
<1>4. CallTypeOK' /\ NodeTypeOK' /\ WorkerTypeOK'
  BY CallsTyped DEF NoCall, CallTypeOK, NodeTypeOK, WorkerTypeOK, nodeVars, workerVars
<1>5. CallFitsPhase'
  BY DEF NoCall, CallFitsPhase
<1>6. PushedUnderLease'
  BY DEF NoCall, PushedUnderLease, Pushed, StrayPush, GrantPhases, PushPhases, nodeVars, workerVars
<1>7. PushFenced'
  BY DEF NoCall, PushFenced, Pushed, StrayPush, PushPhases, UnpushedPhases, nodeVars, workerVars
<1>8. Handlers'
  BY DEF NoCall, Handlers, Calling, nodeVars, workerVars
<1>9. RepliesHold'
  BY DEF NoCall, RepliesHold
<1>10. LaneEnds' /\ ReadyIsCompleted'
  BY DEF LaneTypeOK, LaneEnds, ReadyIsCompleted, PublishError, nodeVars, workerVars
<1> QED
  BY <1>1, <1>2, <1>3, <1>4, <1>5, <1>6, <1>7, <1>8, <1>9, <1>10

\* The lane starts a new attempt when the lease of the last one is over.
LEMMA RetryKeeps ==
    ASSUME DispatchInv, RetrySystemFailure,
           UNCHANGED <<round, strays, nodeVars, workerVars>>,
           ~finished, serving[attempt] # "current",
           lease[attempt] \in Terminal
    PROVE  DispatchInv'
<1> USE RetryBudgetAssumption, DispatchAssumption
    DEF DispatchInv, TypeOK
<1>1. CASE Fail
  BY <1>1, FailKeeps DEF LaneTypeOK, Live, Terminal
<1>2. CASE /\ object = "PENDING" /\ attempt < MaxRetries
           /\ attempt' = attempt + 1 /\ phase' = "fresh" /\ call' = NoCall
           /\ unresolved' = FALSE
           /\ UNCHANGED <<object, finished>>
  <2> USE <1>2
  <2>1. LaneTypeOK' /\ attempt \in Attempts /\ attempt' \in Attempts
    BY DEF LaneTypeOK, Attempts
  <2>2. unresolved' \in BOOLEAN /\ finished' \in BOOLEAN
    BY ZenonT(30)
  <2>3. CallTypeOK' /\ NodeTypeOK' /\ WorkerTypeOK'
    BY CallsTyped DEF NoCall, CallTypeOK, NodeTypeOK, WorkerTypeOK, nodeVars, workerVars
  <2>4. LeaseRecords' /\ ExecutionMatchesLease'
    BY DEF LeaseRecords, ExecutionMatchesLease, nodeVars, workerVars
  <2>5. FutureUntouched' /\ SupersededIsOver'
    BY <2>1 DEF FutureUntouched, SupersededIsOver, CallTypeOK, Attempts, nodeVars, workerVars
  <2>6. CallFitsPhase' /\ RepliesHold'
    BY DEF NoCall, CallFitsPhase, RepliesHold
  <2>7. ~Pushed(attempt')
    BY <2>1 DEF Pushed, StrayPush, FutureUntouched, Attempts
  <2>8. PushedUnderLease'
    BY <2>7 DEF NoCall, PushedUnderLease, Pushed, StrayPush, GrantPhases, PushPhases, nodeVars,
      workerVars
  <2>9. PushFenced'
    BY <2>7 DEF NoCall, PushFenced, Pushed, StrayPush, PushPhases, UnpushedPhases, nodeVars,
      workerVars
  <2>10. Handlers'
    BY DEF NoCall, Handlers, Calling, nodeVars, workerVars
  <2>11. LaneEnds' /\ ReadyIsCompleted'
    BY DEF LaneEnds, ReadyIsCompleted
  <2> QED
    BY <2>1, <2>2, <2>3, <2>4, <2>5, <2>6, <2>8, <2>9, <2>10, <2>11
<1> QED
  BY <1>1, <1>2 DEF RetrySystemFailure

\* The lane reads the outcome of a COMPLETED lease.
LEMMA ConcludeKeeps ==
    ASSUME DispatchInv, NEW r \in Outcomes, Conclude(r),
           UNCHANGED <<round, strays, nodeVars, workerVars>>,
           ~finished, serving[attempt] # "current",
           lease[attempt] = "COMPLETED", result[attempt] = r
    PROVE  DispatchInv'
<1> USE RetryBudgetAssumption, DispatchAssumption
    DEF DispatchInv, TypeOK
<1>1. CASE r = "value"
  <2>1. Requeue("adopting", TRUE)
    BY <1>1 DEF Conclude
  <2> USE <1>1, <2>1 DEF Requeue
  <2>2. FutureUntouched' /\ SupersededIsOver' /\ LeaseRecords' /\ ExecutionMatchesLease'
    BY DEF FutureUntouched, SupersededIsOver, LeaseRecords, ExecutionMatchesLease, nodeVars,
      workerVars
  <2>3. LaneTypeOK'
    BY DEF LaneTypeOK
  <2>4. unresolved' \in BOOLEAN /\ finished' \in BOOLEAN
    BY ZenonT(30)
  <2>5. CallTypeOK' /\ NodeTypeOK' /\ WorkerTypeOK'
    BY CallsTyped DEF NoCall, CallTypeOK, NodeTypeOK, WorkerTypeOK, nodeVars, workerVars
  <2>6. CallFitsPhase' /\ RepliesHold'
    BY DEF NoCall, CallFitsPhase, RepliesHold
  <2>7. PushedUnderLease'
    BY DEF NoCall, PushedUnderLease, Pushed, StrayPush, GrantPhases, PushPhases, nodeVars,
      workerVars
  <2>8. PushFenced'
    BY DEF NoCall, PushFenced, Pushed, StrayPush, PushPhases, UnpushedPhases, Live, nodeVars,
      workerVars
  <2>9. Handlers'
    BY DEF NoCall, Handlers, Calling, nodeVars, workerVars
  <2>10. LaneEnds' /\ ReadyIsCompleted'
    BY DEF LaneEnds, ReadyIsCompleted, nodeVars, workerVars
  <2> QED
    BY <2>2, <2>3, <2>4, <2>5, <2>6, <2>7, <2>8, <2>9, <2>10
<1>2. CASE r = "app_error"
  BY <1>2, FailKeeps DEF Conclude, LaneTypeOK, Live
<1>3. CASE r = "system_error"
  BY <1>3, RetryKeeps DEF Conclude, Terminal
<1> QED
  BY <1>1, <1>2, <1>3 DEF Outcomes

\* The answer to a Push.
LEMMA PushRepliedKeeps ==
    ASSUME DispatchInv, PushReplied
    PROVE  DispatchInv'
<1> USE RetryBudgetAssumption, DispatchAssumption
    DEF DispatchInv, TypeOK
<1>1. PICK r \in Outcomes : Answered("push", r) /\ Conclude(r)
  BY DEF PushReplied
<1>2. r # None /\ call.kind = "push" /\ call.reply = r
  BY <1>1 DEF Answered, Outcomes, PushReplies
<1>3. lease[attempt] = "COMPLETED" /\ result[attempt] = r
  BY <1>2 DEF RepliesHold
<1>4. ~finished /\ serving[attempt] # "current"
  BY <1>2 DEF CallFitsPhase, LaneEnds, Handlers, Calling, LaneTypeOK
<1> QED
  BY <1>1, <1>3, <1>4, ConcludeKeeps DEF PushReplied

\* The answer to a question for the lease outcome.
LEMMA OutcomeRepliedKeeps ==
    ASSUME DispatchInv, OutcomeReplied
    PROVE  DispatchInv'
<1> USE RetryBudgetAssumption, DispatchAssumption
    DEF DispatchInv, TypeOK
<1>1. call.kind = "outcome" /\ phase = "outcome_send"
  <2>1. \E s : Answered("outcome", s)
    BY DEF OutcomeReplied
  <2> QED
    BY <2>1 DEF Answered, CallFitsPhase
<1>2. ~finished /\ serving[attempt] # "current" /\ attempt \in Attempts
  BY <1>1 DEF LaneEnds, Handlers, Calling, LaneTypeOK
<1>3. CASE Requeue("push_wait", TRUE)
  <2> USE <1>1, <1>3 DEF Requeue, OutcomeReplied
  <2>1. FutureUntouched' /\ SupersededIsOver' /\ LeaseRecords' /\ ExecutionMatchesLease'
    BY DEF FutureUntouched, SupersededIsOver, LeaseRecords, ExecutionMatchesLease, nodeVars,
      workerVars
  <2>2. LaneTypeOK'
    BY DEF LaneTypeOK
  <2>3. unresolved' \in BOOLEAN /\ finished' \in BOOLEAN
    BY ZenonT(30)
  <2>4. CallTypeOK' /\ NodeTypeOK' /\ WorkerTypeOK'
    BY CallsTyped DEF NoCall, CallTypeOK, NodeTypeOK, WorkerTypeOK, nodeVars, workerVars
  <2>5. CallFitsPhase' /\ RepliesHold'
    BY DEF NoCall, CallFitsPhase, RepliesHold
  <2>6. PushedUnderLease'
    BY DEF NoCall, PushedUnderLease, Pushed, StrayPush, GrantPhases, PushPhases, nodeVars,
      workerVars
  <2>7. PushFenced'
    BY DEF NoCall, PushFenced, Pushed, StrayPush, PushPhases, UnpushedPhases, nodeVars,
      workerVars
  <2>8. Handlers'
    BY <1>2 DEF NoCall, Handlers, Calling, nodeVars, workerVars
  <2>9. LaneEnds' /\ ReadyIsCompleted'
    BY DEF LaneEnds, ReadyIsCompleted, nodeVars, workerVars
  <2> QED
    BY <2>1, <2>2, <2>3, <2>4, <2>5, <2>6, <2>7, <2>8, <2>9
<1>4. CASE \E s \in {"WORKER_LOST", "ABANDONED"} : Answered("outcome", s) /\ RetrySystemFailure
  <2>1. lease[attempt] \in Terminal
    BY <1>4 DEF Answered, RepliesHold, Terminal
  <2> QED
    BY <1>2, <1>4, <2>1, RetryKeeps DEF OutcomeReplied
<1>5. CASE Answered("outcome", "COMPLETED") /\ Conclude(result[attempt])
  <2>1. lease[attempt] = "COMPLETED" /\ result[attempt] \in Outcomes
    BY <1>2, <1>5 DEF Answered, RepliesHold, Terminal, ExecutionMatchesLease
  <2> QED
    BY <1>2, <1>5, <2>1, ConcludeKeeps DEF OutcomeReplied
<1> QED
  BY <1>3, <1>4, <1>5 DEF OutcomeReplied

-----------------------------------------------------------------------------
(* A call whose fate the lane cannot tell.                                 *)

\* The lane goes from one phase to the next with a new call, or with none.
Turn(from, next, kind) ==
    phase = from /\ phase' = next /\ call' = [kind |-> kind, reply |-> None]

\* Every way in which the lane goes on after an ambiguous call.
AmbiguousTurns ==
    \/ Turn("lease_send", "lease_wait", "none")
    \/ Turn("lease_send", "cancel_send", "cancel")
    \/ Turn("push_send", "push_wait", "none")
    \/ Turn("replay_send", "outcome_send", "outcome")
    \/ Turn("outcome_send", "push_wait", "none")
    \/ Turn("release_send", "cancel_send", "cancel")
    \/ Turn("cancel_send", "cancel_wait", "none")

\* Where the lane goes on after a call whose fate it cannot tell.
LEMMA AmbiguousTurn ==
    ASSUME DispatchInv, call.kind # "none", Ambiguous
    PROVE  /\ AmbiguousTurns
           /\ unresolved' = TRUE
           /\ round' \in 0 .. Rounds
           /\ UNCHANGED <<attempt, object, finished>>
<1> USE RetryBudgetAssumption, DispatchAssumption
    DEF DispatchInv, TypeOK, LaneTypeOK, CallFitsPhase, AmbiguousTurns,
      Turn, Requeue, Send, NoCall
<1>1. CASE phase = "lease_send"
  <2>1. ReplayLease
    BY <1>1 DEF Ambiguous
  <2>2. CASE round < Rounds
    BY <1>1, <2>1, <2>2 DEF ReplayLease
  <2>3. CASE ~(round < Rounds)
    BY <1>1, <2>1, <2>3 DEF ReplayLease
  <2> QED
    BY <2>2, <2>3
<1>2. CASE phase = "push_send"
  BY <1>2 DEF Ambiguous
<1>3. CASE phase = "replay_send"
  BY <1>3 DEF Ambiguous
<1>4. CASE phase = "outcome_send"
  BY <1>4 DEF Ambiguous
<1>5. CASE phase = "release_send"
  BY <1>5 DEF Ambiguous
<1>6. CASE phase = "cancel_send"
  BY <1>6 DEF Ambiguous
<1>7. phase \in {"lease_send", "push_send", "replay_send", "outcome_send", "release_send",
                 "cancel_send"}
  BY DEF CallTypeOK, Calls
<1> QED
  BY <1>1, <1>2, <1>3, <1>4, <1>5, <1>6, <1>7

\* The lane goes on after a call that it gave up; a copy of that call may be
\* late, and the handler of a Push runs on without it.
LEMMA AmbiguousKeeps ==
    ASSUME DispatchInv, call.kind # "none", Ambiguous,
           \/ strays' = strays
           \/ strays' = strays \cup {[kind |-> call.kind, attempt |-> attempt]},
           \/ serving' = serving /\ serving[attempt] # "current"
           \/ serving' = [serving EXCEPT ![attempt] = "old"],
           serving[attempt] = "no" => serving'[attempt] = "no",
           UNCHANGED <<nodeVars, work, runs, result, dead>>
    PROVE  DispatchInv'
<1> USE RetryBudgetAssumption, DispatchAssumption
    DEF DispatchInv, TypeOK, nodeVars
<1>1. /\ AmbiguousTurns
      /\ unresolved' = TRUE
      /\ round' \in 0 .. Rounds
      /\ UNCHANGED <<attempt, object, finished>>
  BY AmbiguousTurn
<1> USE <1>1 DEF AmbiguousTurns, Turn
<1>2. attempt \in Attempts
  BY DEF LaneTypeOK
<1>3. LaneTypeOK'
  BY DEF LaneTypeOK
<1>4. unresolved' \in BOOLEAN /\ finished' \in BOOLEAN
  BY ZenonT(30)
<1>5. CallTypeOK'
  <2>1. call' \in Calls
    BY CallsTyped
  <2>2. call.kind \in {"request", "push", "outcome", "release", "cancel"}
    BY DEF CallTypeOK, Calls
  <2> QED
    BY <1>2, <2>1, <2>2 DEF CallTypeOK
<1>6. NodeTypeOK' /\ WorkerTypeOK'
  BY <1>2 DEF NodeTypeOK, WorkerTypeOK
<1>7. CallFitsPhase'
  BY DEF CallFitsPhase
<1>8. FutureUntouched'
  BY <1>2 DEF FutureUntouched, WorkerTypeOK, Attempts
<1>9. SupersededIsOver' /\ LeaseRecords' /\ ExecutionMatchesLease'
  BY DEF SupersededIsOver, LeaseRecords, ExecutionMatchesLease
<1>10. \A a \in Attempts : 
         Pushed(a)' => \/ Pushed(a)
                       \/ a = attempt /\ phase \in {"push_send", "replay_send"}
  BY DEF Pushed, StrayPush, CallFitsPhase
<1>11. PushedUnderLease'
  BY <1>2, <1>10 DEF PushedUnderLease, GrantPhases, PushPhases
<1>12. PushFenced'
  BY <1>2, <1>10 DEF PushFenced, PushPhases, UnpushedPhases
<1>13. Handlers'
  BY <1>2 DEF Handlers, Calling, WorkerTypeOK
<1>14. RepliesHold'
  BY DEF RepliesHold, Replies, PushReplies, Outcomes, Terminal
<1>15. LaneEnds' /\ ReadyIsCompleted'
  BY DEF LaneEnds, ReadyIsCompleted
<1> QED
  BY <1>3, <1>4, <1>5, <1>6, <1>7, <1>8, <1>9, <1>11, <1>12, <1>13, <1>14, <1>15

\* A call that was not delivered: the first Push was never received.
LEMMA ConnectionFailsKeeps ==
    ASSUME DispatchInv, ConnectionFails
    PROVE  DispatchInv'
<1> USE RetryBudgetAssumption, DispatchAssumption
    DEF DispatchInv, TypeOK
<1>1. serving[attempt] # "current" /\ ~finished /\ attempt \in Attempts
  <2>1. call.kind \in {"request", "push", "outcome", "release", "cancel"}
    BY DEF ConnectionFails, CallTypeOK, Calls
  <2>2. serving[attempt] = "current" => call.kind = "push"
    BY DEF Handlers, Calling, LaneTypeOK
  <2> QED
    BY <2>1, <2>2 DEF ConnectionFails, LaneEnds, CallFitsPhase, LaneTypeOK
<1>2. CASE call.kind = "request" /\ Fail /\ UNCHANGED round
  <2>1. Pushed(attempt) => lease[attempt] \notin Live
    BY <1>2 DEF PushFenced, PushPhases, CallFitsPhase
  <2> QED
    BY <1>1, <1>2, <2>1, FailKeeps DEF ConnectionFails, LaneTypeOK
<1>3. CASE phase = "push_send" /\ Send("release", "release_send") /\ UNCHANGED round
  <2> USE <1>3 DEF Send, ConnectionFails
  <2>1. ~Pushed(attempt)
    BY <1>1 DEF PushFenced
  <2>2. FutureUntouched' /\ SupersededIsOver' /\ LeaseRecords' /\ ExecutionMatchesLease'
    BY DEF FutureUntouched, SupersededIsOver, LeaseRecords, ExecutionMatchesLease, nodeVars,
      workerVars
  <2>3. LaneTypeOK'
    BY DEF LaneTypeOK
  <2>4. unresolved' \in BOOLEAN /\ finished' \in BOOLEAN
    BY ZenonT(30)
  <2>5. CallTypeOK' /\ NodeTypeOK' /\ WorkerTypeOK'
    BY CallsTyped DEF CallTypeOK, NodeTypeOK, WorkerTypeOK, nodeVars, workerVars
  <2>6. CallFitsPhase' /\ RepliesHold'
    BY DEF CallFitsPhase, RepliesHold
  <2>7. PushedUnderLease'
    BY DEF PushedUnderLease, Pushed, StrayPush, GrantPhases, PushPhases, nodeVars, workerVars
  <2>8. PushFenced'
    BY <2>1 DEF PushFenced, Pushed, StrayPush, PushPhases, UnpushedPhases, nodeVars, workerVars
  <2>9. Handlers'
    BY <1>1 DEF Handlers, Calling, nodeVars, workerVars
  <2>10. LaneEnds' /\ ReadyIsCompleted'
    BY DEF LaneEnds, ReadyIsCompleted, nodeVars, workerVars
  <2> QED
    BY <2>2, <2>3, <2>4, <2>5, <2>6, <2>7, <2>8, <2>9, <2>10
<1>4. CASE Ambiguous
  BY <1>1, <1>4, AmbiguousKeeps DEF ConnectionFails, workerVars
<1> QED
  BY <1>2, <1>3, <1>4 DEF ConnectionFails

\* A call that was given up.
LEMMA TimesOutKeeps ==
    ASSUME DispatchInv, TimesOut
    PROVE  DispatchInv'
<1>1. attempt \in Attempts /\ serving \in [Attempts -> {"no", "current", "old"}]
  BY DEF DispatchInv, TypeOK, LaneTypeOK, WorkerTypeOK
<1>2. serving[attempt] = "current" => call.kind = "push"
  BY <1>1 DEF DispatchInv, Handlers, Calling
<1>3. /\ \/ serving' = serving /\ serving[attempt] # "current"
         \/ serving' = [serving EXCEPT ![attempt] = "old"]
      /\ serving[attempt] = "no" => serving'[attempt] = "no"
  BY <1>1, <1>2 DEF TimesOut
<1>4. \/ strays' = strays
      \/ strays' = strays \cup {[kind |-> call.kind, attempt |-> attempt]}
  BY DEF TimesOut
<1> QED
  BY <1>3, <1>4, AmbiguousKeeps DEF TimesOut

-----------------------------------------------------------------------------
(* The invariant.                                                          *)

\* Before the Task is dispatched nothing has happened.
LEMMA InitHolds == Init => DispatchInv
<1> SUFFICES ASSUME Init
             PROVE  DispatchInv
  OBVIOUS
<1> USE RetryBudgetAssumption, DispatchAssumption
    DEF Init
<1>1. LaneTypeOK
  BY DEF LaneTypeOK, Attempts
<1>2. unresolved \in BOOLEAN /\ finished \in BOOLEAN
  BY ZenonT(30)
<1>3. CallTypeOK /\ NodeTypeOK /\ WorkerTypeOK
  BY CallsTyped DEF NoCall, CallTypeOK, NodeTypeOK, WorkerTypeOK
<1>4. CallFitsPhase /\ RepliesHold
  BY DEF NoCall, CallFitsPhase, RepliesHold
<1>5. FutureUntouched /\ SupersededIsOver /\ LeaseRecords /\ ExecutionMatchesLease
  BY DEF FutureUntouched, SupersededIsOver, LeaseRecords, ExecutionMatchesLease, Attempts
<1>6. PushedUnderLease /\ PushFenced
  BY <1>1 DEF NoCall, PushedUnderLease, PushFenced, Pushed, StrayPush, GrantPhases, PushPhases,
    UnpushedPhases, LaneTypeOK
<1>7. Handlers /\ LaneEnds /\ ReadyIsCompleted
  BY DEF Handlers, LaneEnds, ReadyIsCompleted
<1> QED
  BY <1>1, <1>2, <1>3, <1>4, <1>5, <1>6, <1>7 DEF DispatchInv, TypeOK

\* A stuttering step keeps the invariant.
LEMMA StutterKeeps ==
    ASSUME DispatchInv, UNCHANGED dispatchVars
    PROVE  DispatchInv'
<1> USE DEF DispatchInv, TypeOK, dispatchVars, laneVars, nodeVars, workerVars
<1>1. LaneTypeOK' /\ unresolved' \in BOOLEAN /\ finished' \in BOOLEAN
  BY DEF LaneTypeOK
<1>2. CallTypeOK' /\ NodeTypeOK' /\ WorkerTypeOK'
  BY DEF CallTypeOK, NodeTypeOK, WorkerTypeOK
<1>3. CallFitsPhase' /\ RepliesHold' /\ FutureUntouched' /\ SupersededIsOver' /\ LeaseRecords'
  BY DEF CallFitsPhase, RepliesHold, FutureUntouched, SupersededIsOver, LeaseRecords
<1>4. PushedUnderLease' /\ PushFenced'
  BY DEF PushedUnderLease, PushFenced, Pushed, StrayPush
<1>5. Handlers' /\ ExecutionMatchesLease' /\ LaneEnds' /\ ReadyIsCompleted'
  BY DEF Handlers, Calling, ExecutionMatchesLease, LaneEnds, ReadyIsCompleted
<1> QED
  BY <1>1, <1>2, <1>3, <1>4, <1>5

\* Every turn of the lane keeps the invariant.
LEMMA LaneKeeps ==
    ASSUME DispatchInv, LaneNext
    PROVE  DispatchInv'
BY DequeueKeeps, RequestLeaseKeeps, LeaseRepliedKeeps, AcceptGrantKeeps, AdmitPushKeeps,
   PushRepliedKeeps, PushFailedKeeps, OutcomeRepliedKeeps, ReleaseRepliedKeeps,
   CancelRepliedKeeps, AdoptOutputKeeps, FinishAdoptionKeeps, FinishTaskKeeps DEF LaneNext

\* Every step of a Worker keeps the invariant.
LEMMA WorkerKeeps ==
    ASSUME DispatchInv, NEW a \in Attempts, WorkerNext(a)
    PROVE  DispatchInv'
BY StrayPushArrivesKeeps, StartLeaseKeeps, HandlerFailsKeeps, RunTaskKeeps, EndTaskKeeps,
   TaskExitsKeeps, CompleteLeaseKeeps, ReplyPushKeeps, WorkerDiesKeeps DEF WorkerNext

\* Every step keeps the invariant.
LEMMA StepKeeps == DispatchInv /\ [Next]_dispatchVars => DispatchInv'
<1> SUFFICES ASSUME DispatchInv, [Next]_dispatchVars
             PROVE  DispatchInv'
  OBVIOUS
<1>1. CASE LaneNext
  BY <1>1, LaneKeeps
<1>2. CASE NodeNext
  BY <1>2, NodeAnswersKeeps, StrayArrivesKeeps, NoticeDeathKeeps DEF NodeNext
<1>3. CASE \E a \in Attempts : WorkerNext(a)
  BY <1>3, WorkerKeeps
<1>4. CASE ConnectionFails \/ TimesOut \/ ShutdownDeadline \/ PushArrives \/ PushRefused
  BY <1>4, ConnectionFailsKeeps, TimesOutKeeps, ShutdownDeadlineKeeps, PushArrivesKeeps,
     PushRefusedKeeps
<1>5. CASE UNCHANGED dispatchVars
  BY <1>5, StutterKeeps
<1> QED
  BY <1>1, <1>2, <1>3, <1>4, <1>5 DEF Next

\* The inductive invariant holds of the dispatch, from its first admission to
\* _finish_pending_task.
THEOREM DispatchInvHolds == Spec => []DispatchInv
BY InitHolds, StepKeeps, PTL DEF Spec

\* Every variable of _execute, of the Node's leases and of the Worker keeps its
\* type.
THEOREM TypeHolds == Spec => []TypeOK
<1>1. DispatchInv => TypeOK
  BY DEF DispatchInv
<1> QED
  BY <1>1, DispatchInvHolds, PTL

\* While user code runs at a living Worker the lane still waits for it under the
\* same attempt: _resolve_ambiguous_push_outcome never takes a lost answer for
\* an execution that is over.
THEOREM FenceHolds == Spec => []ExecutionIsFenced
<1>1. DispatchInv => ExecutionIsFenced
  <2> SUFFICES ASSUME DispatchInv, NEW a \in Attempts, work[a] = "running", a \notin dead
               PROVE  /\ a = attempt /\ object = "PENDING"
                      /\ unresolved
                      /\ lease[a] = "RUNNING"
    BY DEF ExecutionIsFenced
  <2> USE DEF DispatchInv
  <2>1. lease[a] = "RUNNING"
    BY DEF ExecutionMatchesLease
  <2>2. a = attempt
    <3>1. ~(a < attempt)
      BY <2>1 DEF SupersededIsOver, Terminal
    <3>2. ~(a > attempt)
      BY DEF FutureUntouched
    <3> QED
      BY <3>1, <3>2, RetryBudgetAssumption DEF TypeOK, LaneTypeOK, Attempts
  <2>3. phase \in PushPhases
    BY <2>1, <2>2 DEF PushFenced, Pushed, Live
  <2> QED
    BY <2>1, <2>2, <2>3 DEF PushFenced
<1> QED
  BY <1>1, DispatchInvHolds, PTL

\* A retry (_retry_system_failure) starts only when the lease of every earlier
\* attempt is over.
THEOREM SupersededHolds == Spec => []SupersededIsOver
<1>1. DispatchInv => SupersededIsOver
  BY DEF DispatchInv
<1> QED
  BY <1>1, DispatchInvHolds, PTL

\* A READY output comes from a lease that the Node knows to be COMPLETED, and
\* from an execution that returned a value.
THEOREM ReadyHolds == Spec => []ReadyIsCompleted
<1>1. DispatchInv => ReadyIsCompleted
  BY DEF DispatchInv
<1> QED
  BY <1>1, DispatchInvHolds, PTL

\* _finish_pending_task forgets a Task only with its output published.
THEOREM FinishedHolds == Spec => []FinishedIsPublished
<1>1. DispatchInv => FinishedIsPublished
  BY DEF DispatchInv, LaneEnds, FinishedIsPublished
<1> QED
  BY <1>1, DispatchInvHolds, PTL

\* A cancelled lease holds no Worker, whatever arrives late at the Node.
THEOREM CancelledHolds == Spec => []CancelledHoldsNothing
<1>1. DispatchInv => CancelledHoldsNothing
  BY DEF DispatchInv, LeaseRecords, CancelledHoldsNothing, Live
<1> QED
  BY <1>1, DispatchInvHolds, PTL

-----------------------------------------------------------------------------
(* Executions.                                                             *)

\* How often user code was started, by how far the Worker got.
RunsCounted ==
    \A a \in Attempts :
        runs[a] = IF work[a] \in {"none", "accepted", "started"} THEN 0 ELSE 1

\* The lane does not touch the Worker.
LEMMA LaneKeepsRuns ==
    ASSUME LaneNext
    PROVE  UNCHANGED <<work, runs>>
BY DEF LaneNext, Dequeue, RequestLease, LeaseReplied, AcceptGrant, AdmitPush, PushReplied,
   PushFailed, OutcomeReplied, ReleaseReplied, CancelReplied, AdoptOutput, FinishAdoption,
   FinishTask, workerVars

\* Every step keeps the count of executions.
LEMMA RunsStep ==
    ASSUME "exit" \notin Faults, DispatchInv, DispatchInv', RunsCounted, [Next]_dispatchVars
    PROVE  RunsCounted'
<1> USE DEF RunsCounted, DispatchInv, TypeOK, WorkerTypeOK
<1>1. CASE LaneNext
  BY <1>1, LaneKeepsRuns
<1>2. CASE NodeNext
  BY <1>2 DEF NodeNext, NodeAnswers, StrayArrives, NoticeDeath, workerVars
<1>3. CASE ConnectionFails \/ TimesOut \/ ShutdownDeadline \/ PushRefused
  BY <1>3 DEF ConnectionFails, TimesOut, ShutdownDeadline, PushRefused, workerVars
<1>4. CASE PushArrives
  BY <1>4 DEF PushArrives, Accept
<1>5. ASSUME NEW a \in Attempts, WorkerNext(a)
      PROVE  RunsCounted'
  <2>1. CASE StrayPushArrives(a)
    BY <2>1 DEF StrayPushArrives, Accept
  <2>2. CASE StartLease(a)
    BY <2>2 DEF StartLease
  <2>3. CASE HandlerFails(a) \/ ReplyPush(a) \/ WorkerDies(a)
    BY <2>3 DEF HandlerFails, ReplyPush, WorkerDies
  <2>4. CASE RunTask(a)
    BY <2>4 DEF RunTask
  <2>5. CASE \E r \in Outcomes : EndTask(a, r)
    BY <2>5 DEF EndTask
  <2>6. CASE CompleteLease(a)
    BY <2>6 DEF CompleteLease
  <2> QED
    BY <1>5, <2>1, <2>2, <2>3, <2>4, <2>5, <2>6 DEF WorkerNext, TaskExits
<1>6. CASE UNCHANGED dispatchVars
  BY <1>6 DEF dispatchVars, workerVars
<1> QED
  BY <1>1, <1>2, <1>3, <1>4, <1>5, <1>6 DEF Next

\* Where user code does not raise SystemExit, _begin_task starts it at most once
\* in an attempt, whatever is lost, late or repeated.
THEOREM RunsOnceHolds ==
    ASSUME "exit" \notin Faults
    PROVE  Spec => []RunsOncePerAttempt
<1>1. Init => RunsCounted
  BY DEF Init, RunsCounted
<1>2. RunsCounted /\ DispatchInv /\ DispatchInv' /\ [Next]_dispatchVars => RunsCounted'
  BY RunsStep
<1>3. RunsCounted /\ DispatchInv => RunsOncePerAttempt
  BY DEF RunsCounted, DispatchInv, TypeOK, WorkerTypeOK, RunsOncePerAttempt
<1> QED
  BY <1>1, <1>2, <1>3, DispatchInvHolds, PTL DEF Spec

-----------------------------------------------------------------------------
(* The recovery of lost outputs *)

-----------------------------------------------------------------------------
(* The types *)

OutputStates == {"READY", "LOST", "PENDING", "ERROR", "GONE"}
RetryStates == {"SUCCEEDED", "RETRY_PENDING", "SYSTEM_FAILED", "APPLICATION_FAILED"}
Outputs == [state : OutputStates, attempt : Attempts, member : BOOLEAN]
Retries == [state : RetryStates, attempt : Attempts, active : Attempts \cup {NoAttempt}]
Executions == [task : Tasks, attempt : Attempts, hold : Attempts, fhold : Attempts \cup {NoAttempt},
               pc : {"queued", "running", "ended"}]
Plans == UNION {[S -> Attempts] : S \in SUBSET Tasks}
Places == {"done", "poll", "ask", "plan", "drive", "replace", "query", "conclude", "retire", "retiring"}
Gets == [pc : Places, outcome : {"value", "none", "error", "conflict", "gaveup"},
         asked : Attempts \cup {NoAttempt}, plan : Plans, driven : SUBSET Tasks, retired : SUBSET Tasks,
         gaveup : BOOLEAN]
Edges == [state : {"registered", "claimed", "done"}, hold : Attempts]
Renewals == [attempt : Attempts \cup {NoAttempt}, driving : BOOLEAN, acked : BOOLEAN,
             uncertain : BOOLEAN, failed : BOOLEAN, ready : BOOLEAN]

OwnerTyped == owner \in [Tasks -> Outputs] /\ coll \in SUBSET Tasks
RecoveryTyped ==
    rec \in [Tasks -> Retries] /\ sessions \in SUBSET Tasks /\ handoffs \in SUBSET (Tasks \X Attempts)
JobsTyped ==
    /\ enqueued \in [Tasks -> [Attempts -> Nat]]
    /\ jobs \in SUBSET Executions
    /\ barrier \in SUBSET Tasks /\ finishedTasks \in SUBSET Tasks
    /\ holds \in SUBSET (Tasks \X Tasks \X Attempts)
GettersTyped == getter \in [Getters -> Gets] /\ held \in SUBSET Getters
ForeignTyped ==
    /\ edge \in [Foreign -> Edges] /\ renewal \in [Foreign -> Renewals]
    /\ \A t \in Foreign : renewal[t].attempt = NoAttempt => renewal[t] = NoRenewal
    /\ fhold \in SUBSET (Foreign \X Attempts) /\ freleased \in SUBSET (Foreign \X Attempts)
    /\ replaced \in SUBSET (Foreign \X Attempts \X Attempts)
    /\ late \in SUBSET (Foreign \X Attempts \X Attempts)
    /\ fup \in BOOLEAN /\ fdead \in BOOLEAN

LEMMA Constants ==
    /\ Tasks \subseteq Nat /\ Foreign \subseteq Tasks /\ MaxRetries \in Nat
    /\ Attempts = 0..MaxRetries /\ NoAttempt = MaxRetries + 1 /\ NoAttempt \notin Attempts
    /\ \A t \in Tasks : Deps[t] \subseteq Tasks
    /\ \A g \in Getters : Wants[g] \in Tasks
  BY RetryBudgetAssumption, ForeignLineageAssumption, ReconstructionAssumption DEF Attempts, NoAttempt

\* The empty plan.
LEMMA NoPlan == <<>> \in Plans /\ DOMAIN <<>> = {}
<1>1. <<>> \in [{} -> Attempts]
  OBVIOUS
<1>2. QED  BY <1>1 DEF Plans

LEMMA PlanIs ==
    ASSUME NEW p \in Plans
    PROVE  DOMAIN p \in SUBSET Tasks /\ p \in [DOMAIN p -> Attempts]
  BY DEF Plans

\* A getter's record.
LEMMA GetIs ==
    ASSUME GettersTyped, NEW g \in Getters
    PROVE  /\ getter[g] \in Gets /\ Plan(g) \in Plans /\ Planned(g) \in SUBSET Tasks
           /\ \A t \in Planned(g) : Plan(g)[t] \in Attempts
  BY PlanIs DEF GettersTyped, Gets, Plan, Planned

\* An idle thread has no plan.
LEMMA IdleIs ==
    ASSUME NEW out \in {"value", "none", "error", "conflict", "gaveup"}
    PROVE  /\ Idle(out) \in Gets /\ DOMAIN Idle(out).plan = {} /\ Idle(out).driven = {}
           /\ Idle(out).pc = "done"
           /\ [Idle(out) EXCEPT !.pc = "poll"] \in Gets
  BY NoPlan, Constants DEF Idle, Gets, Places

\* A thread that moves keeps its plan.
LEMMA GotoIs ==
    ASSUME GettersTyped, NEW g \in Getters, NEW pc \in Places, Goto(g, pc)
    PROVE  /\ getter' \in [Getters -> Gets]
           /\ getter' = [getter EXCEPT ![g] = [getter[g] EXCEPT !.pc = pc]]
           /\ getter'[g].pc = pc /\ getter'[g].plan = getter[g].plan /\ getter'[g].driven = getter[g].driven
           /\ \A h \in Getters : h # g => getter'[h] = getter[h]
  BY DEF GettersTyped, Goto, Gets

\* A thread whose pass is over has no plan any more.
NoPass(g) == getter'[g].pc \in {"done", "poll"} /\ DOMAIN getter'[g].plan = {}

LEMMA AgainIs ==
    ASSUME GettersTyped, NEW g \in Getters, Again(g)
    PROVE  /\ getter' \in [Getters -> Gets] /\ NoPass(g)
           /\ \A h \in Getters : h # g => getter'[h] = getter[h]
<1> DEFINE new == IF getter[g].gaveup THEN Idle("gaveup") ELSE [Idle("none") EXCEPT !.pc = "poll"]
<1>1. getter' = [getter EXCEPT ![g] = new]
  BY DEF Again
<1>2. new \in Gets /\ new.pc \in {"done", "poll"} /\ DOMAIN new.plan = {}
  BY IdleIs, NoPlan DEF Idle
<1> HIDE DEF new
<1>3. QED  BY <1>1, <1>2 DEF GettersTyped, NoPass

LEMMA EndsIs ==
    ASSUME GettersTyped, NEW g \in Getters, NEW out \in {"value", "none", "error", "conflict"}, Ends(g, out)
    PROVE  /\ getter' \in [Getters -> Gets] /\ NoPass(g)
           /\ \A h \in Getters : h # g => getter'[h] = getter[h]
<1> DEFINE new == Idle(IF getter[g].gaveup THEN "gaveup" ELSE out)
<1>1. getter' = [getter EXCEPT ![g] = new]
  BY DEF Ends
<1>2. new \in Gets /\ new.pc \in {"done", "poll"} /\ DOMAIN new.plan = {}
  BY IdleIs, NoPlan
<1> HIDE DEF new
<1>3. QED  BY <1>1, <1>2 DEF GettersTyped, NoPass

-----------------------------------------------------------------------------
(* What the steps do to the plans of getters *)

Typed == OwnerTyped /\ RecoveryTyped /\ JobsTyped /\ GettersTyped /\ ForeignTyped

\* A plan that was just made: lost outputs, each with the attempt after its own.
NewPlan(g) ==
    /\ getter'[g].pc = "drive"
    /\ \E S \in SUBSET Tasks :
          /\ \A d \in S : owner[d].state = "LOST" /\ owner[d].attempt # MaxRetries
          /\ getter'[g].plan = [d \in S |-> owner[d].attempt + 1]
    /\ UNCHANGED <<owner, jobs>>

PlanMoves(g) ==
    \/ getter'[g].plan = getter[g].plan
    \/ DOMAIN getter'[g].plan = {}
    \/ NewPlan(g)

\* The getters after a step of one of them.
OnlyMoves(g) ==
    /\ getter' \in [Getters -> Gets]
    /\ \A h \in Getters : h # g => getter'[h] = getter[h]

LEMMA GetMoves ==
    ASSUME GettersTyped, OwnerTyped, NEW g \in Getters, Get(g) \/ Poll(g) \/ PollRemote(g) \/ HandleReconstruction(g)
    PROVE  /\ OnlyMoves(g)
           /\ NoPass(g) \/ (getter'[g].plan = getter[g].plan /\ getter'[g].pc \in {"ask", "plan"})
<1>1. CASE Get(g)
  <2>1. getter' = [getter EXCEPT ![g] = [Idle("none") EXCEPT !.pc = "poll"]]
    BY <1>1 DEF Get
  <2>2. [Idle("none") EXCEPT !.pc = "poll"].pc = "poll" /\ DOMAIN [Idle("none") EXCEPT !.pc = "poll"].plan = {}
    BY NoPlan DEF Idle
  <2>3. QED  BY <2>1, <2>2, IdleIs DEF OnlyMoves, NoPass, GettersTyped
<1>2. CASE Poll(g)
  <2>1. Ends(g, "value") \/ Ends(g, "error") \/ Goto(g, "plan")
    BY <1>2 DEF Poll
  <2>2. QED  BY <2>1, EndsIs, GotoIs DEF OnlyMoves, Places
<1>3. CASE PollRemote(g)
  <2>1. \/ Ends(g, "value") \/ Ends(g, "error")
        \/ getter' = [getter EXCEPT ![g] = [getter[g] EXCEPT !.pc = "ask", !.asked = Shown(Wants[g]).attempt]]
    BY <1>3 DEF PollRemote, GettersTyped
  <2>2. CASE getter' = [getter EXCEPT ![g] = [getter[g] EXCEPT !.pc = "ask", !.asked = Shown(Wants[g]).attempt]]
    <3>1. Shown(Wants[g]).attempt \in Attempts
      BY Constants DEF OwnerTyped, Outputs, Shown
    <3>2. [getter[g] EXCEPT !.pc = "ask", !.asked = Shown(Wants[g]).attempt] \in Gets
      BY <3>1 DEF GettersTyped, Gets, Places
    <3>3. getter'[g] = [getter[g] EXCEPT !.pc = "ask", !.asked = Shown(Wants[g]).attempt]
      BY <2>2 DEF GettersTyped
    <3>4. getter'[g].plan = getter[g].plan /\ getter'[g].pc = "ask"
      BY <3>3 DEF GettersTyped, Gets
    <3>5. OnlyMoves(g)
      BY <2>2, <3>2 DEF GettersTyped, OnlyMoves
    <3>6. QED  BY <3>4, <3>5
  <2>3. QED  BY <2>1, <2>2, EndsIs DEF OnlyMoves
<1>4. CASE HandleReconstruction(g)
  <2>1. Ends(g, "error") \/ Again(g) \/ Goto(g, "plan")
    BY <1>4 DEF HandleReconstruction
  <2>2. QED  BY <2>1, EndsIs, AgainIs, GotoIs DEF OnlyMoves, Places
<1>5. QED  BY <1>1, <1>2, <1>3, <1>4

\* The preview makes the plan.
LEMMA PreflightMoves ==
    ASSUME Typed, NEW g \in Getters, Preflight(g)
    PROVE  OnlyMoves(g) /\ (NoPass(g) \/ NewPlan(g))
<1> DEFINE lost == {d \in Tasks : d \in Visited(Wants[g]) /\ owner[d].state = "LOST"}
           plan == [d \in lost |-> owner[d].attempt + 1]
<1>1. \/ Again(g) \/ Ends(g, "error")
      \/ /\ \A d \in lost : ~Blemished(d)
         /\ getter' = [getter EXCEPT ![g].pc = "drive", ![g].plan = plan]
  BY DEF Preflight
<1>2. ASSUME \A d \in lost : ~Blemished(d),
             getter' = [getter EXCEPT ![g].pc = "drive", ![g].plan = plan]
      PROVE  OnlyMoves(g) /\ NewPlan(g)
  <2>1. \A d \in lost : owner[d].state = "LOST" /\ owner[d].attempt # MaxRetries
    BY <1>2 DEF Blemished, Exhausted
  <2>2. plan \in [lost -> Attempts]
    <3>1. ASSUME NEW d \in lost PROVE owner[d].attempt + 1 \in Attempts
      <4>1. d \in Tasks /\ owner[d].attempt # MaxRetries
        BY <2>1
      <4>2. owner[d].attempt \in 0..MaxRetries
        BY <4>1, Constants DEF Typed, OwnerTyped, Outputs
      <4>3. QED  BY <4>1, <4>2, Constants
    <3>2. QED  BY <3>1
  <2>3. plan \in Plans
    BY <2>2 DEF Plans
  <2>4. getter' = [getter EXCEPT ![g] = [getter[g] EXCEPT !.pc = "drive", !.plan = plan]]
    BY <1>2 DEF Typed, GettersTyped
  <2>5. [getter[g] EXCEPT !.pc = "drive", !.plan = plan] \in Gets
    BY <2>3 DEF Typed, GettersTyped, Gets, Places
  <2>6. OnlyMoves(g) /\ getter'[g] = [getter[g] EXCEPT !.pc = "drive", !.plan = plan]
    BY <2>4, <2>5 DEF Typed, GettersTyped, OnlyMoves
  <2>7. getter'[g].pc = "drive" /\ getter'[g].plan = plan
    <3> HIDE DEF plan
    <3>1. QED  BY <2>6 DEF Typed, GettersTyped, Gets
  <2>8. UNCHANGED <<owner, jobs>>
    BY DEF Preflight, jobVars
  <2>9. QED  BY <2>1, <2>6, <2>7, <2>8 DEF NewPlan
<1>3. QED  BY <1>1, <1>2, AgainIs, EndsIs DEF Typed, OnlyMoves

\* A thread between two Tasks, and one that renews a hold.
SamePass(g) == getter'[g].plan = getter[g].plan /\ getter'[g].driven = getter[g].driven

LEMMA DriveMoves ==
    ASSUME Typed, NEW g \in Getters, Drive(g)
    PROVE  /\ OnlyMoves(g)
           /\ \/ NoPass(g) /\ UNCHANGED renewal
              \/ LET t == Driving(g)
                     a == Plan(g)[t]
                 IN /\ SamePass(g) /\ BeginDrive(t, a)
                    /\ ~Conflict(t, a) /\ ~Refused(t, a) /\ ~Driven(t, a)
                    /\ getter'[g].pc \in {"replace", "query", "conclude"}
                    /\ getter'[g].pc = "replace" => Asks(t, a)
<1> DEFINE t == Driving(g)
           a == Plan(g)[t]
<1>1. \/ UNCHANGED renewal /\ (Ends(g, "conflict") \/ Ends(g, "error") \/ Again(g))
      \/ /\ ~Conflict(t, a) /\ ~Refused(t, a) /\ ~Driven(t, a) /\ BeginDrive(t, a)
         /\ Goto(g, IF Asks(t, a) THEN "replace"
                    ELSE IF Opened(t, a).acked /\ ~Opened(t, a).failed THEN "query" ELSE "conclude")
  BY DEF Drive
<1> HIDE DEF t, a
<1>2. \A pc \in Places : Goto(g, pc) => OnlyMoves(g) /\ SamePass(g) /\ getter'[g].pc = pc
  BY GotoIs DEF Typed, OnlyMoves, SamePass
<1>3. CASE UNCHANGED renewal /\ (Ends(g, "conflict") \/ Ends(g, "error") \/ Again(g))
  BY <1>3, AgainIs, EndsIs DEF Typed, OnlyMoves
<1>4. CASE /\ ~Conflict(t, a) /\ ~Refused(t, a) /\ ~Driven(t, a) /\ BeginDrive(t, a)
           /\ Goto(g, IF Asks(t, a) THEN "replace"
                      ELSE IF Opened(t, a).acked /\ ~Opened(t, a).failed THEN "query" ELSE "conclude")
  <2>1. \E pc \in {"replace", "query", "conclude"} : Goto(g, pc) /\ (pc = "replace" => Asks(t, a))
    BY <1>4
  <2>2. QED  BY <1>2, <1>4, <2>1 DEF Places, t, a
<1>5. QED  BY <1>1, <1>3, <1>4

LEMMA ReplaceMoves ==
    ASSUME GettersTyped, NEW g \in Getters, Replace(g)
    PROVE  OnlyMoves(g) /\ SamePass(g) /\ getter'[g].pc \in {"query", "conclude"}
<1>1. \E pc \in {"query", "conclude"} : Goto(g, pc)
  BY DEF Replace, After
<1>2. QED  BY <1>1, GotoIs DEF OnlyMoves, SamePass, Places

LEMMA ConcludedMoves ==
    ASSUME GettersTyped, NEW g \in Getters, NEW found, Concluded(g, found), Driving(g) \in Tasks
    PROVE  /\ OnlyMoves(g) /\ EndDrive(Driving(g), found)
           /\ \/ NoPass(g)
              \/ /\ getter'[g].plan = getter[g].plan /\ getter'[g].pc = "drive"
                 /\ getter'[g].driven = getter[g].driven \cup {Driving(g)}
<1> DEFINE t == Driving(g)
<1>1. /\ EndDrive(t, found)
      /\ \/ Ends(g, "error") \/ Again(g)
         \/ getter' = [getter EXCEPT ![g].pc = "drive", ![g].driven = getter[g].driven \cup {t}]
  BY DEF Concluded, GettersTyped
<1> HIDE DEF t
<1>2. CASE getter' = [getter EXCEPT ![g].pc = "drive", ![g].driven = getter[g].driven \cup {t}]
  <2>1. getter' = [getter EXCEPT ![g] = [getter[g] EXCEPT !.pc = "drive", !.driven = getter[g].driven \cup {t}]]
    BY <1>2 DEF GettersTyped
  <2>2. [getter[g] EXCEPT !.pc = "drive", !.driven = getter[g].driven \cup {t}] \in Gets
    BY DEF t, GettersTyped, Gets, Places
  <2>3. QED  BY <1>1, <2>1, <2>2 DEF GettersTyped, OnlyMoves, Gets, t
<1>3. QED  BY <1>1, <1>2, AgainIs, EndsIs DEF OnlyMoves, t

LEMMA CheckMoves ==
    ASSUME GettersTyped, NEW g \in Getters, Check(g)
    PROVE  /\ OnlyMoves(g)
           /\ NoPass(g) \/ (SamePass(g) /\ getter'[g].pc = "retire" /\ Undriven(g) = {})
<1>1. Undriven(g) = {} /\ (Again(g) \/ Ends(g, "error") \/ Goto(g, "retire"))
  BY DEF Check
<1>2. QED  BY <1>1, AgainIs, EndsIs, GotoIs DEF OnlyMoves, SamePass, Places

LEMMA RetireMoves ==
    ASSUME GettersTyped, NEW g \in Getters, Retire(g) \/ Retired(g), Retiring(g) \in Tasks
    PROVE  /\ OnlyMoves(g) /\ getter[g].pc \in {"retire", "retiring"}
           /\ \/ NoPass(g)
              \/ SamePass(g) /\ getter'[g].pc = "retire"
              \/ /\ SamePass(g) /\ getter'[g].pc = "retiring" /\ getter'[g].retired = getter[g].retired
                 /\ Unretired(g) # {}
<1> DEFINE t == Retiring(g)
<1>1. getter[g].pc \in {"retire", "retiring"}
  BY DEF Retire, Retired, At
<1>2. \/ Again(g)
      \/ Goto(g, "retiring") /\ Unretired(g) # {}
      \/ /\ getter[g].pc = "retire"
         /\ getter' = [getter EXCEPT ![g] = [getter[g] EXCEPT !.retired = getter[g].retired \cup {t}]]
      \/ getter' = [getter EXCEPT ![g] = [getter[g] EXCEPT !.pc = "retire", !.retired = getter[g].retired \cup {t}]]
  BY DEF Retire, Retired, GettersTyped, At
<1> HIDE DEF t
<1>3. CASE /\ getter[g].pc = "retire"
           /\ getter' = [getter EXCEPT ![g] = [getter[g] EXCEPT !.retired = getter[g].retired \cup {t}]]
  BY <1>1, <1>3 DEF GettersTyped, Gets, OnlyMoves, SamePass, t
<1>4. CASE getter' = [getter EXCEPT ![g] = [getter[g] EXCEPT !.pc = "retire", !.retired = getter[g].retired \cup {t}]]
  <2>1. [getter[g] EXCEPT !.pc = "retire", !.retired = getter[g].retired \cup {t}] \in Gets
    BY DEF GettersTyped, Gets, t, Places
  <2>2. getter'[g] = [getter[g] EXCEPT !.pc = "retire", !.retired = getter[g].retired \cup {t}]
    BY <1>4 DEF GettersTyped
  <2>3. SamePass(g) /\ getter'[g].pc = "retire"
    BY <2>2 DEF GettersTyped, Gets, SamePass
  <2>4. OnlyMoves(g)
    BY <1>4, <2>1 DEF GettersTyped, OnlyMoves
  <2>5. QED  BY <1>1, <2>3, <2>4
<1>5. CASE Goto(g, "retiring") /\ Unretired(g) # {}
  <2>1. getter'[g].retired = getter[g].retired
    BY <1>5 DEF Goto, GettersTyped, Gets
  <2>2. QED  BY <1>1, <1>5, <2>1, GotoIs DEF OnlyMoves, SamePass, Places
<1>6. QED  BY <1>1, <1>2, <1>3, <1>4, <1>5, AgainIs DEF OnlyMoves

LEMMA CommitMoves ==
    ASSUME GettersTyped, NEW g \in Getters, Commit(g)
    PROVE  OnlyMoves(g) /\ NoPass(g) /\ getter[g].pc = "retire"
  BY AgainIs, EndsIs DEF Commit, At, OnlyMoves

LEMMA GiveUpMoves ==
    ASSUME GettersTyped, NEW g \in Getters, GiveUp(g)
    PROVE  /\ OnlyMoves(g) /\ SamePass(g) /\ getter'[g].pc = getter[g].pc
           /\ getter'[g].retired = getter[g].retired
<1>1. getter' = [getter EXCEPT ![g] = [getter[g] EXCEPT !.gaveup = TRUE]]
  BY DEF GiveUp, GettersTyped
<1>2. QED  BY <1>1 DEF GettersTyped, Gets, OnlyMoves, SamePass

-----------------------------------------------------------------------------
(* The inductive invariant *)

\* The least of a set of Tasks.
LEMMA LeastTask ==
    ASSUME NEW S \in SUBSET Tasks, S # {}
    PROVE  Min(S) \in S /\ \A k \in S : Min(S) <= k
<1> DEFINE Less == {p \in Nat \X Nat : p[1] < p[2]}
<1>1. OpToRel(<, Nat) = Less
  BY DEF OpToRel
<1>2. IsWellFoundedOn(Less, Nat)
  BY <1>1, NatLessThanWellFounded
<1>3. \A x, y \in Nat : <<y, x>> \in Less <=> y < x
  OBVIOUS
<1>4. S \in SUBSET Nat
  BY Constants
<1> HIDE DEF Less
<1>5. PICK m \in S : \A k \in S : ~(<<k, m>> \in Less)
  BY <1>2, <1>4, WFMin
<1>6. ASSUME NEW k \in S PROVE m <= k
  <2>1. m \in Nat /\ k \in Nat
    BY <1>4
  <2>2. ~(k < m)
    BY <2>1, <1>3, <1>5
  <2>3. QED  BY <2>1, <2>2
<1>7. QED  BY <1>6 DEF Min

\* Where a thread stands in its pass: it renews a hold that is still to be renewed, for the
\* attempt of its plan, and is the only one that does; and it retires what is still to be retired.
Waiting == {"replace", "query", "conclude"}
Passes ==
    \A g \in Getters :
        /\ getter[g].pc \in Waiting =>
              /\ Undriven(g) # {}
              /\ renewal[Driving(g)].driving /\ renewal[Driving(g)].attempt = Plan(g)[Driving(g)]
              /\ getter[g].pc = "replace" => ~renewal[Driving(g)].acked
              /\ \A h \in Getters : getter[h].pc \in Waiting /\ Driving(h) = Driving(g) => h = g
        /\ getter[g].pc = "retiring" => Unretired(g) # {}

\* From the check before the retirement on, every foreign hold of the plan has been renewed.
AllDriven ==
    \A g \in Getters : getter[g].pc \in {"retire", "retiring"} => Undriven(g) = {}

\* An execution is in the barrier until it is finished, and is that of the active attempt.
JobsCurrent ==
    \A j \in jobs :
        /\ j.task \in barrier \ finishedTasks
        /\ j.pc # "ended" => rec[j.task].active = j.attempt /\ j.hold <= j.attempt

\* What is collected has no execution, and nothing that may run again reads it.
Collected ==
    \A t \in Tasks :
        t \in coll \/ owner[t].state = "GONE" =>
            /\ t \notin barrier /\ owner[t].state # "PENDING"
            /\ \A c \in Tasks : t \in Deps[c] => owner[c].state = "GONE"

\* Attempts are queued in their order.
QueuedOnce ==
    \A t \in Tasks, a \in Attempts : enqueued[t][a] <= IF a <= rec[t].attempt THEN 1 ELSE 0

\* A plan may be out of date, but never ahead of the next attempt, nor of an active execution.
PlansInTime ==
    \A g \in Getters : \A t \in Planned(g) :
        /\ Plan(g)[t] <= owner[t].attempt + 1
        /\ \A j \in jobs : j.task = t /\ j.pc # "ended" => Plan(g)[t] <= j.hold

\* The submitted holds of an active execution are there.
InputHolds ==
    \A j \in jobs : j.pc # "ended" => Submitted(j.task, j.hold) \subseteq holds

\* A renewal session is open; it is for an attempt that the record names once it is acknowledged.
Open(t) == renewal[t].attempt # NoAttempt
EdgesOrdered ==
    \A t \in Foreign :
        /\ edge[t].state # "registered" => owner[t].state = "GONE" /\ ~Open(t)
        /\ Open(t) => IF renewal[t].acked THEN edge[t].hold = renewal[t].attempt
                                         ELSE edge[t].hold < renewal[t].attempt

\* What F has released it never holds again.
ReleasedForGood ==
    /\ fhold \cap freleased = {}
    /\ \A r \in replaced : <<r[1], r[2]>> \in freleased
    /\ \A m \in late : m[2] < m[3]

\* A late replacement changes nothing, or does what the open session asked for.
LateRequests ==
    \A m \in late : edge[m[1]].state = "registered" =>
        \/ <<m[1], m[2]>> \in freleased
        \/ Open(m[1]) /\ ~renewal[m[1]].acked /\ renewal[m[1]].attempt = m[3] /\ edge[m[1]].hold = m[2]

\* F keeps one hold of a registered Task: the one the record names, or the one that has taken
\* its place while the answer is still out.
HoldsOf(t) == {h \in fhold : h[1] = t}
OneHold ==
    \A t \in Foreign : edge[t].state = "registered" =>
        \/ HoldsOf(t) = {<<t, edge[t].hold>>}
        \/ /\ Open(t) /\ ~renewal[t].acked
           /\ HoldsOf(t) = {<<t, renewal[t].attempt>>}
           /\ <<t, edge[t].hold, renewal[t].attempt>> \in replaced

\* The foreign hold of an active execution is that of the record, and nobody replaces it.
ForeignJobs ==
    \A j \in jobs : j.pc # "ended" =>
        IF j.task \in Foreign
        THEN /\ j.fhold = j.hold /\ edge[j.task].hold = j.hold
             /\ Open(j.task) => renewal[j.task].acked
        ELSE j.fhold = NoAttempt

RecoveryInvariant ==
    /\ Typed /\ EpochsAgree /\ Passes /\ AllDriven
    /\ JobsCurrent /\ Collected /\ QueuedOnce /\ PlansInTime /\ InputHolds
    /\ EdgesOrdered /\ ReleasedForGood /\ LateRequests /\ OneHold /\ ForeignJobs

\* The Tasks that a thread is about.
LEMMA DrivingIs ==
    ASSUME Typed, Passes, NEW g \in Getters
    PROVE  /\ Undriven(g) # {} => Driving(g) \in Undriven(g)
           /\ Undriven(g) \subseteq Planned(g) \cap Foreign
           /\ getter[g].pc \in Waiting => Driving(g) \in Planned(g) \cap Foreign
           /\ getter[g].pc = "retiring" => Retiring(g) \in Planned(g)
           /\ Unretired(g) # {} => Retiring(g) \in Planned(g)
           /\ Planned(g) \in SUBSET Tasks
<1>1. Planned(g) \in SUBSET Tasks
  BY GetIs DEF Typed
<1>2. Undriven(g) \subseteq Planned(g) \cap Foreign
  BY DEF Undriven, Registered
<1>3. Undriven(g) # {} => Driving(g) \in Undriven(g)
  BY <1>1, <1>2, LeastTask DEF Driving
<1>4. Unretired(g) # {} => Retiring(g) \in Planned(g)
  BY <1>1, LeastTask DEF Unretired, Retiring
<1>5. QED  BY <1>1, <1>2, <1>3, <1>4 DEF Passes

\* Every step's part in the getters.
LEMMA GettersStep ==
    ASSUME Typed, Passes, RecoveryNext
    PROVE  /\ GettersTyped'
           /\ \A g \in Getters : PlanMoves(g)
           /\ \A g \in Getters : NewPlan(g) => UNCHANGED <<owner, jobs>>
<1> SUFFICES GettersTyped' /\ \A g \in Getters : PlanMoves(g)
  BY DEF NewPlan
<1>1. held' \in SUBSET Getters
  <2>1. ASSUME NEW g \in Getters, Get(g) \/ Thread(g) \/ GiveUp(g) \/ Drop(g)
        PROVE  held' = held \/ held' = held \ {g}
    BY <2>1 DEF Get, Thread, GiveUp, Drop, Poll, PollRemote, HandleReconstruction, Preflight, Drive, Replace,
                ConcludeDrive, QueryInput, Check, Retire, Retired, Commit
  <2>2. CASE ~\E g \in Getters : Get(g) \/ Thread(g) \/ GiveUp(g) \/ Drop(g)
    BY <2>2 DEF RecoveryNext, CoordinatorRetire, Lose, BeginCollect, FinishCollect, ForeignCollect, Admit, Succeed,
                AppError, SystemFailure, Finish, BorrowEnds, ForeignStep, getterVars, Typed, GettersTyped
  <2>3. QED  BY <2>1, <2>2 DEF Typed, GettersTyped
<1>2. ASSUME NEW g \in Getters, OnlyMoves(g), PlanMoves(g)
      PROVE  GettersTyped' /\ \A h \in Getters : PlanMoves(h)
  BY <1>1, <1>2 DEF OnlyMoves, PlanMoves, GettersTyped
<1>3. CASE UNCHANGED getter
  BY <1>1, <1>3 DEF PlanMoves, Typed, GettersTyped
<1>4. ASSUME NEW g \in Getters, Get(g) \/ Thread(g) \/ GiveUp(g) \/ Drop(g)
      PROVE  UNCHANGED getter \/ (OnlyMoves(g) /\ PlanMoves(g))
  <2>1. CASE Get(g) \/ Poll(g) \/ PollRemote(g) \/ HandleReconstruction(g)
    BY <2>1, GetMoves DEF Typed, PlanMoves, NoPass
  <2>2. CASE Preflight(g)
    BY <2>2, PreflightMoves DEF PlanMoves, NoPass
  <2>3. CASE Drive(g)
    BY <2>3, DriveMoves DEF PlanMoves, NoPass, SamePass
  <2>4. CASE Replace(g)
    BY <2>4, ReplaceMoves DEF Typed, PlanMoves, SamePass
  <2>5. CASE ConcludeDrive(g) \/ QueryInput(g)
    <3>1. Driving(g) \in Tasks
      BY <2>5, DrivingIs DEF ConcludeDrive, QueryInput, At, Waiting
    <3>2. \E found \in {"none", "failed", "waiting", "found"} : Concluded(g, found)
      BY <2>5 DEF ConcludeDrive, QueryInput, Query
    <3>3. QED  BY <3>1, <3>2, ConcludedMoves DEF Typed, PlanMoves, NoPass
  <2>6. CASE Check(g)
    BY <2>6, CheckMoves DEF Typed, PlanMoves, NoPass, SamePass
  <2>7. CASE Retire(g) \/ Retired(g)
    <3>1. Retiring(g) \in Tasks
      BY <2>7, DrivingIs DEF Retire, Retired, At
    <3>2. QED  BY <2>7, <3>1, RetireMoves DEF Typed, PlanMoves, NoPass, SamePass
  <2>8. CASE Commit(g)
    BY <2>8, CommitMoves DEF Typed, PlanMoves, NoPass
  <2>9. CASE GiveUp(g)
    BY <2>9, GiveUpMoves DEF Typed, PlanMoves, SamePass
  <2>10. CASE Drop(g)
    BY <2>10 DEF Drop
  <2>11. QED
    BY <1>4, <2>1, <2>2, <2>3, <2>4, <2>5, <2>6, <2>7, <2>8, <2>9, <2>10 DEF Thread
<1>5. CASE \E g \in Getters : Get(g) \/ Thread(g) \/ GiveUp(g) \/ Drop(g)
  BY <1>2, <1>3, <1>4, <1>5
<1>6. CASE ~\E g \in Getters : Get(g) \/ Thread(g) \/ GiveUp(g) \/ Drop(g)
  <2>1. UNCHANGED getter
    BY <1>6 DEF RecoveryNext, CoordinatorRetire, Lose, BeginCollect, FinishCollect, ForeignCollect, Admit,
                Succeed, AppError, SystemFailure, Finish, BorrowEnds, ForeignStep, getterVars
  <2>2. QED  BY <1>3, <2>1
<1>7. QED  BY <1>5, <1>6

-----------------------------------------------------------------------------
(* The owner's records *)

Records ==
    /\ OwnerTyped /\ RecoveryTyped /\ JobsTyped /\ EpochsAgree
    /\ JobsCurrent /\ Collected /\ QueuedOnce /\ InputHolds

\* What the records say of an output, and that they do so for each of them.
Agrees(t) ==
    /\ owner[t].attempt = rec[t].attempt
    /\ t \in sessions <=> rec[t].active # NoAttempt
    /\ owner[t].state = "PENDING" <=> rec[t].active # NoAttempt
    /\ owner[t].state \in {"READY", "LOST"} => rec[t].state = "SUCCEEDED"
    /\ rec[t].active # NoAttempt =>
          /\ rec[t].active = rec[t].attempt /\ <<t, rec[t].active>> \in handoffs
          /\ \E j \in jobs : j.task = t /\ j.attempt = rec[t].active /\ j.pc # "ended"
OneJob == \A j, k \in jobs : j.task = k.task => j = k
OutputIdle(t) == t \notin barrier /\ owner[t].state # "PENDING"
                 /\ \A c \in Tasks : t \in Deps[c] => owner[c].state = "GONE"

RecordParts ==
    /\ OwnerTyped /\ RecoveryTyped /\ JobsTyped
    /\ \A t \in Tasks : Agrees(t)
    /\ OneJob /\ JobsCurrent /\ QueuedOnce /\ InputHolds
    /\ \A t \in Tasks : t \in coll \/ owner[t].state = "GONE" => OutputIdle(t)

LEMMA RecordsAre == Records <=> RecordParts
<1>1. Collected <=> \A t \in Tasks : t \in coll \/ owner[t].state = "GONE" => OutputIdle(t)
  BY DEF Collected, OutputIdle
<1>2. ASSUME OwnerTyped, RecoveryTyped, QueuedOnce, \A t \in Tasks : Agrees(t), OneJob, JobsTyped
      PROVE  EpochsAgree
  <2>1. ASSUME NEW t \in Tasks PROVE rec[t].attempt <= MaxRetries
    BY <1>2, Constants DEF RecoveryTyped, Retries
  <2>2. ASSUME NEW t \in Tasks, NEW a \in Attempts PROVE enqueued[t][a] <= 1
    <3>1. enqueued[t][a] \in Nat /\ enqueued[t][a] <= IF a <= rec[t].attempt THEN 1 ELSE 0
      BY <1>2 DEF JobsTyped, QueuedOnce
    <3>2. QED  BY <3>1
  <2>3. QED  BY <1>2, <2>1, <2>2 DEF EpochsAgree, Agrees, OneJob
<1>3. EpochsAgree => (\A t \in Tasks : Agrees(t)) /\ OneJob
  BY DEF EpochsAgree, Agrees, OneJob
<1>4. QED  BY <1>1, <1>2, <1>3 DEF Records, RecordParts

\* The records of the next state are in order if each part of them is.
LEMMA RecordsFollow == RecordParts' => Records'
<1>1. RecordParts => Records
  BY RecordsAre
<1>2. QED  BY <1>1, PTL

\* What the records know of an execution that has not ended.
LEMMA JobIs ==
    ASSUME Records, NEW j \in jobs
    PROVE  /\ j \in Executions /\ j.task \in Tasks /\ j.attempt \in Attempts /\ j.hold \in Attempts
           /\ j.task \in barrier /\ j.task \notin finishedTasks /\ j.task \notin coll
           /\ \A k \in jobs : k.task = j.task => k = j
           /\ j.pc # "ended" =>
                 /\ owner[j.task].state = "PENDING" /\ owner[j.task].attempt = j.attempt
                 /\ rec[j.task].active = j.attempt /\ rec[j.task].attempt = j.attempt
                 /\ j.task \in sessions /\ <<j.task, j.attempt>> \in handoffs /\ j.hold <= j.attempt
<1>1. j \in Executions /\ j.task \in Tasks /\ j.attempt \in Attempts /\ j.hold \in Attempts
  BY DEF Records, JobsTyped, Executions
<1>2. j.task \in barrier \ finishedTasks
  BY DEF Records, JobsCurrent
<1>3. j.task \notin coll
  BY <1>1, <1>2 DEF Records, Collected
<1>4. \A k \in jobs : k.task = j.task => k = j
  BY RecordsAre DEF RecordParts, OneJob
<1>5. ASSUME j.pc # "ended"
      PROVE  /\ owner[j.task].state = "PENDING" /\ owner[j.task].attempt = j.attempt
             /\ rec[j.task].active = j.attempt /\ rec[j.task].attempt = j.attempt
             /\ j.task \in sessions /\ <<j.task, j.attempt>> \in handoffs /\ j.hold <= j.attempt
  <2>1. rec[j.task].active = j.attempt /\ j.hold <= j.attempt
    BY <1>5 DEF Records, JobsCurrent
  <2>2. j.attempt # NoAttempt
    BY <1>1, Constants
  <2>3. Agrees(j.task)
    BY <1>1, RecordsAre DEF RecordParts
  <2>4. QED  BY <2>1, <2>2, <2>3 DEF Agrees
<1>6. QED  BY <1>1, <1>2, <1>3, <1>4, <1>5

\* An output is lost.
LEMMA LoseRecords ==
    ASSUME Records, NEW t \in Tasks, Lose(t)
    PROVE  Records'
<1>1. /\ owner' = [owner EXCEPT ![t] = [owner[t] EXCEPT !.state = "LOST"]]
      /\ owner[t].state = "READY" /\ t \notin coll
      /\ UNCHANGED <<rec, sessions, handoffs, enqueued, jobs, barrier, finishedTasks, holds, coll>>
  BY DEF Lose, recoveryVars, jobVars, Records, OwnerTyped
<1>2. /\ OwnerTyped'
      /\ \A u \in Tasks : owner'[u].attempt = owner[u].attempt /\ (u # t => owner'[u] = owner[u])
      /\ owner'[t].state = "LOST"
  BY <1>1 DEF Records, OwnerTyped, Outputs, OutputStates
<1>3. \A u \in Tasks : Agrees(u)'
  BY <1>1, <1>2, RecordsAre DEF RecordParts, Agrees
<1>4. \A u \in Tasks : u \in coll' \/ owner'[u].state = "GONE" => OutputIdle(u)'
  <2>1. TAKE u \in Tasks
  <2>2. HAVE u \in coll' \/ owner'[u].state = "GONE"
  <2>3. u # t /\ OutputIdle(u)
    BY <1>1, <1>2, <2>2, RecordsAre DEF RecordParts
  <2>4. t \notin Deps[u] \/ owner[t].state = "READY"
    BY <1>1
  <2>5. \A c \in Tasks : u \in Deps[c] => c # t
    BY <1>1, <2>3 DEF OutputIdle
  <2>6. QED  BY <1>1, <1>2, <2>3, <2>5 DEF OutputIdle
<1>5. (RecoveryTyped /\ JobsTyped /\ OneJob /\ JobsCurrent /\ QueuedOnce /\ InputHolds)'
  BY <1>1, RecordsAre DEF RecordParts, RecoveryTyped, JobsTyped, OneJob, JobsCurrent, QueuedOnce, InputHolds
<1>6. QED  BY <1>2, <1>3, <1>4, <1>5, RecordsFollow DEF RecordParts

\* A publication is gone.
LEMMA MemberRecords ==
    ASSUME Records, NEW t \in Tasks, EndRetirement(t),
           UNCHANGED <<rec, sessions, handoffs, enqueued, jobs, barrier, finishedTasks, holds, coll>>
    PROVE  Records'
<1>1. owner' = [owner EXCEPT ![t] = [owner[t] EXCEPT !.member = FALSE]]
  BY DEF EndRetirement, Records, OwnerTyped
<1>2. /\ OwnerTyped'
      /\ \A u \in Tasks : owner'[u].attempt = owner[u].attempt /\ owner'[u].state = owner[u].state
  BY <1>1 DEF Records, OwnerTyped, Outputs, OutputStates
<1>3. \A u \in Tasks : Agrees(u)'
  BY <1>2, RecordsAre DEF RecordParts, Agrees
<1>4. \A u \in Tasks : u \in coll' \/ owner'[u].state = "GONE" => OutputIdle(u)'
  BY <1>2, RecordsAre DEF RecordParts, OutputIdle
<1>5. (RecoveryTyped /\ JobsTyped /\ OneJob /\ JobsCurrent /\ QueuedOnce /\ InputHolds)'
  BY RecordsAre DEF RecordParts, RecoveryTyped, JobsTyped, OneJob, JobsCurrent, QueuedOnce, InputHolds
<1>6. QED  BY <1>2, <1>3, <1>4, <1>5, RecordsFollow DEF RecordParts

\* An output that nothing refers to is collected.
LEMMA CollectRecords ==
    ASSUME Records, NEW t \in Tasks, BeginCollect(t)
    PROVE  Records'
<1>1. /\ coll' = coll \cup {t} /\ t \notin barrier /\ owner[t].state # "PENDING"
      /\ \A c \in Tasks : t \in Deps[c] => owner[c].state = "GONE"
      /\ UNCHANGED <<owner, rec, sessions, handoffs, enqueued, jobs, barrier, finishedTasks, holds>>
  BY DEF BeginCollect, Unreferenced, recoveryVars, jobVars
<1>2. OwnerTyped'
  BY <1>1 DEF Records, OwnerTyped
<1>3. \A u \in Tasks : Agrees(u)'
  BY <1>1, RecordsAre DEF RecordParts, Agrees
<1>4. \A u \in Tasks : u \in coll' \/ owner'[u].state = "GONE" => OutputIdle(u)'
  BY <1>1, RecordsAre DEF RecordParts, OutputIdle
<1>5. (RecoveryTyped /\ JobsTyped /\ OneJob /\ JobsCurrent /\ QueuedOnce /\ InputHolds)'
  BY <1>1, RecordsAre DEF RecordParts, RecoveryTyped, JobsTyped, OneJob, JobsCurrent, QueuedOnce, InputHolds
<1>6. QED  BY <1>2, <1>3, <1>4, <1>5, RecordsFollow DEF RecordParts

LEMMA CollectedRecords ==
    ASSUME Records, NEW t \in Tasks, FinishCollect(t)
    PROVE  Records'
<1>1. /\ coll' = coll \ {t} /\ t \in coll
      /\ owner' = [owner EXCEPT ![t] = [owner[t] EXCEPT !.state = "GONE"]]
      /\ UNCHANGED <<rec, sessions, handoffs, enqueued, jobs, barrier, finishedTasks, holds>>
  BY DEF FinishCollect, recoveryVars, jobVars, Records, OwnerTyped
<1>2. /\ OwnerTyped'
      /\ \A u \in Tasks : owner'[u].attempt = owner[u].attempt /\ (u # t => owner'[u] = owner[u])
      /\ owner'[t].state = "GONE"
  BY <1>1 DEF Records, OwnerTyped, Outputs, OutputStates
<1>3. OutputIdle(t)
  BY <1>1, RecordsAre DEF RecordParts
<1>4. \A u \in Tasks : Agrees(u)'
  BY <1>1, <1>2, <1>3, RecordsAre DEF RecordParts, Agrees, OutputIdle
<1>5. \A u \in Tasks : u \in coll' \/ owner'[u].state = "GONE" => OutputIdle(u)'
  <2>1. TAKE u \in Tasks
  <2>2. HAVE u \in coll' \/ owner'[u].state = "GONE"
  <2>3. OutputIdle(u)
    BY <1>1, <1>2, <1>3, <2>2, RecordsAre DEF RecordParts
  <2>4. QED  BY <1>1, <1>2, <2>3 DEF OutputIdle
<1>6. (RecoveryTyped /\ JobsTyped /\ OneJob /\ JobsCurrent /\ QueuedOnce /\ InputHolds)'
  BY <1>1, RecordsAre DEF RecordParts, RecoveryTyped, JobsTyped, OneJob, JobsCurrent, QueuedOnce, InputHolds
<1>7. QED  BY <1>2, <1>4, <1>5, <1>6, RecordsFollow DEF RecordParts

\* The execution of a Task changes: what the others' records say stays as it was.
JobBecomes(j, k) ==
    /\ Replaced(j, k)
    /\ k \in Executions /\ k.task = j.task /\ k.hold = j.hold /\ k.fhold = j.fhold

LEMMA JobChanges ==
    ASSUME Records, NEW j \in jobs, NEW k, JobBecomes(j, k)
    PROVE  /\ k \in jobs' /\ jobs' \subseteq Executions
           /\ \A i \in jobs' : i = k \/ (i \in jobs /\ i # j /\ i.task # j.task)
           /\ \A i \in jobs : i # j => i \in jobs'
           /\ OneJob'
<1>1. jobs' = (jobs \ {j}) \cup {k} /\ k \in Executions /\ k.task = j.task
  BY DEF JobBecomes, Replaced
<1>2. \A i \in jobs : i.task = j.task => i = j
  BY JobIs
<1>3. jobs \subseteq Executions /\ OneJob
  BY RecordsAre DEF RecordParts, JobsTyped
<1>4. OneJob'
  BY <1>1, <1>2, <1>3 DEF OneJob
<1>5. QED  BY <1>1, <1>2, <1>3, <1>4

\* An execution begins to run, or turns out to be out of date.
LEMMA RunRecords ==
    ASSUME Records, NEW j \in jobs, j.pc # "ended", Replaced(j, [j EXCEPT !.pc = "running"]),
           UNCHANGED <<owner, rec, sessions, handoffs, enqueued, barrier, finishedTasks, holds, coll>>
    PROVE  Records' /\ JobBecomes(j, [j EXCEPT !.pc = "running"])
<1> DEFINE k == [j EXCEPT !.pc = "running"]
<1>1. /\ k \in Executions /\ k.task = j.task /\ k.attempt = j.attempt /\ k.hold = j.hold /\ k.fhold = j.fhold
      /\ k.pc = "running"
  BY JobIs DEF Executions
<1>2. JobBecomes(j, k)
  BY <1>1 DEF JobBecomes
<1> HIDE DEF k
<1>3. /\ k \in jobs' /\ jobs' \subseteq Executions /\ OneJob'
      /\ \A i \in jobs' : i = k \/ (i \in jobs /\ i # j /\ i.task # j.task)
      /\ \A i \in jobs : i # j => i \in jobs'
  BY <1>2, JobChanges
<1>4. \A u \in Tasks : Agrees(u)'
  BY <1>1, <1>3, RecordsAre DEF RecordParts, Agrees
<1>5. \A u \in Tasks : u \in coll' \/ owner'[u].state = "GONE" => OutputIdle(u)'
  BY RecordsAre DEF RecordParts, OutputIdle
<1>6. JobsCurrent'
  BY <1>1, <1>3, RecordsAre DEF RecordParts, JobsCurrent
<1>7. InputHolds'
  BY <1>1, <1>3, RecordsAre DEF RecordParts, InputHolds, Submitted
<1>8. (OwnerTyped /\ RecoveryTyped /\ JobsTyped /\ QueuedOnce)'
  BY <1>3, RecordsAre DEF RecordParts, OwnerTyped, RecoveryTyped, JobsTyped, QueuedOnce
<1>9. QED  BY <1>2, <1>3, <1>4, <1>5, <1>6, <1>7, <1>8, RecordsFollow DEF RecordParts, k

\* An attempt ends: its output is there, or an error is.
LEMMA EndRecords ==
    ASSUME Records, NEW j \in jobs, j.pc # "ended",
           NEW state \in {"READY", "ERROR"}, NEW end \in RetryStates, NEW member \in BOOLEAN,
           state = "READY" => end = "SUCCEEDED",
           owner' = [owner EXCEPT ![j.task] = [state |-> state, attempt |-> j.attempt, member |-> member]],
           rec' = [rec EXCEPT ![j.task] = Ended(j.task, end)],
           Forget(j.task, j.attempt), Replaced(j, [j EXCEPT !.pc = "ended"]),
           UNCHANGED <<enqueued, barrier, finishedTasks, holds, coll>>
    PROVE  Records' /\ JobBecomes(j, [j EXCEPT !.pc = "ended"])
<1> DEFINE k == [j EXCEPT !.pc = "ended"]
           t == j.task
<1>0. /\ t \in Tasks /\ j.attempt \in Attempts /\ t \notin coll /\ owner[t].state = "PENDING"
      /\ t \in barrier /\ t \notin finishedTasks
      /\ owner[t].attempt = j.attempt /\ rec[t].attempt = j.attempt /\ NoAttempt \notin Attempts
  BY JobIs, Constants
<1>1. /\ k \in Executions /\ k.task = t /\ k.hold = j.hold /\ k.fhold = j.fhold /\ k.pc = "ended"
  BY JobIs DEF Executions
<1>2. JobBecomes(j, k)
  BY <1>1 DEF JobBecomes
<1> HIDE DEF k
<1>3. /\ k \in jobs' /\ jobs' \subseteq Executions /\ OneJob'
      /\ \A i \in jobs' : i = k \/ (i \in jobs /\ i # j /\ i.task # t)
      /\ \A i \in jobs : i # j => i \in jobs'
  BY <1>2, JobChanges
<1>4. /\ OwnerTyped' /\ \A u \in Tasks : u # t => owner'[u] = owner[u]
      /\ owner'[t].state = state /\ owner'[t].attempt = j.attempt
  BY <1>0 DEF Records, OwnerTyped, Outputs, OutputStates
<1>5. /\ rec' \in [Tasks -> Retries] /\ \A u \in Tasks : u # t => rec'[u] = rec[u]
      /\ rec'[t].state = end /\ rec'[t].active = NoAttempt /\ rec'[t].attempt = rec[t].attempt
  <2>1. Ended(t, end) = [rec[t] EXCEPT !.state = end, !.active = NoAttempt]
    BY DEF Ended
  <2>2. Ended(t, end) \in Retries /\ Ended(t, end).state = end /\ Ended(t, end).active = NoAttempt
        /\ Ended(t, end).attempt = rec[t].attempt
    <3>1. rec[t] \in Retries
      BY <1>0 DEF Records, RecoveryTyped
    <3>2. QED  BY <2>1, <3>1 DEF Retries
  <2>3. QED  BY <1>0, <2>2 DEF Records, RecoveryTyped
<1>6. sessions' = sessions \ {t} /\ handoffs' = handoffs \ {<<t, j.attempt>>}
  BY DEF Forget
<1>7. RecoveryTyped'
  BY <1>5, <1>6 DEF Records, RecoveryTyped
<1>8. ASSUME NEW u \in Tasks PROVE Agrees(u)'
  <2>1. CASE u = t
    BY <1>0, <1>4, <1>5, <1>6, <2>1 DEF Agrees
  <2>2. CASE u # t
    <3>1. Agrees(u) /\ owner'[u] = owner[u] /\ rec'[u] = rec[u]
      BY <1>4, <1>5, <2>2, RecordsAre DEF RecordParts
    <3>2. <<u, rec[u].active>> \in handoffs => <<u, rec[u].active>> \in handoffs'
      BY <1>6, <2>2
    <3>3. \A i \in jobs : i.task = u => i \in jobs'
      BY <1>3, <2>2
    <3>4. QED  BY <1>6, <2>2, <3>1, <3>2, <3>3 DEF Agrees
  <2>3. QED  BY <2>1, <2>2
<1>9. \A u \in Tasks : u \in coll' \/ owner'[u].state = "GONE" => OutputIdle(u)'
  <2>1. TAKE u \in Tasks
  <2>2. HAVE u \in coll' \/ owner'[u].state = "GONE"
  <2>3. u # t /\ OutputIdle(u)
    BY <1>0, <1>4, <2>2, RecordsAre DEF RecordParts
  <2>4. \A c \in Tasks : u \in Deps[c] => c # t
    BY <1>0, <2>3 DEF OutputIdle
  <2>5. QED  BY <1>4, <2>3, <2>4 DEF OutputIdle
<1>10. JobsCurrent'
  BY <1>0, <1>1, <1>3, <1>5, RecordsAre, JobIs DEF RecordParts, JobsCurrent
<1>11. InputHolds'
  BY <1>1, <1>3, RecordsAre DEF RecordParts, InputHolds, Submitted
<1>12. QueuedOnce'
  BY <1>0, <1>5, RecordsAre DEF RecordParts, QueuedOnce
<1>13. JobsTyped'
  BY <1>3 DEF Records, JobsTyped
<1>14. QED
  BY <1>2, <1>3, <1>4, <1>7, <1>8, <1>9, <1>10, <1>11, <1>12, <1>13, RecordsFollow DEF RecordParts, k

\* An error is published.
LEMMA ErrorRecords ==
    ASSUME Records, NEW j \in jobs, j.pc # "ended", NEW end \in RetryStates, PublishJobError(j, end),
           UNCHANGED <<enqueued, barrier, finishedTasks, holds, coll>>
    PROVE  Records' /\ JobBecomes(j, [j EXCEPT !.pc = "ended"])
<1>1. j.task \in Tasks /\ owner[j.task] \in Outputs /\ owner[j.task].attempt = j.attempt
  BY JobIs DEF Records, OwnerTyped
<1>2. owner' = [owner EXCEPT ![j.task] = [owner[j.task] EXCEPT !.state = "ERROR"]]
  BY DEF PublishJobError, Records, OwnerTyped
<1>3. [owner[j.task] EXCEPT !.state = "ERROR"] =
      [state |-> "ERROR", attempt |-> j.attempt, member |-> owner[j.task].member]
  BY <1>1 DEF Outputs
<1>4. /\ rec' = [rec EXCEPT ![j.task] = Ended(j.task, end)]
      /\ Forget(j.task, j.attempt) /\ Replaced(j, [j EXCEPT !.pc = "ended"])
  BY DEF PublishJobError
<1>5. owner[j.task].member \in BOOLEAN
  BY <1>1 DEF Outputs
<1>6. owner' = [owner EXCEPT ![j.task] = [state |-> "ERROR", attempt |-> j.attempt, member |-> owner[j.task].member]]
  BY <1>2, <1>3
<1>7. QED  BY <1>4, <1>5, <1>6, EndRecords

\* An attempt is tried again under the same holds.
LEMMA RetryRecords ==
    ASSUME Records, NEW j \in jobs, j.pc # "ended", j.attempt < MaxRetries,
           owner' = [owner EXCEPT ![j.task] = Advanced(j.task, j.attempt + 1)],
           rec' = [rec EXCEPT ![j.task] = InProgress(j.attempt + 1)],
           handoffs' = (handoffs \ {<<j.task, j.attempt>>}) \cup {<<j.task, j.attempt + 1>>},
           enqueued' = [enqueued EXCEPT ![j.task][j.attempt + 1] = enqueued[j.task][j.attempt + 1] + 1],
           Replaced(j, [j EXCEPT !.attempt = j.attempt + 1, !.pc = "queued"]),
           UNCHANGED <<sessions, barrier, finishedTasks, holds, coll>>
    PROVE  Records' /\ JobBecomes(j, [j EXCEPT !.attempt = j.attempt + 1, !.pc = "queued"])
<1> DEFINE t == j.task
           n == j.attempt + 1
           k == [j EXCEPT !.attempt = n, !.pc = "queued"]
<1>0. /\ t \in Tasks /\ t \notin coll /\ owner[t].state = "PENDING" /\ t \in barrier /\ t \notin finishedTasks
      /\ owner[t].attempt = j.attempt /\ rec[t].attempt = j.attempt /\ rec[t].active = j.attempt
      /\ t \in sessions /\ j.attempt \in Nat /\ j.attempt \in Attempts /\ j.hold \in Nat /\ j.hold <= j.attempt
      /\ n \in Attempts /\ n \in Nat /\ n # NoAttempt /\ Attempts \subseteq Nat /\ j \in Executions
  <2>1. j.attempt \in 0..MaxRetries /\ j.hold \in 0..MaxRetries /\ MaxRetries \in Nat /\ NoAttempt = MaxRetries + 1
    BY JobIs, Constants
  <2>2. /\ n \in 0..MaxRetries /\ n \in Nat /\ n # NoAttempt
        /\ j.attempt \in Nat /\ j.hold \in Nat
    BY <2>1
  <2>3. n \in Attempts /\ j.attempt \in Attempts /\ Attempts \subseteq Nat
    BY <2>1, <2>2, Constants
  <2>4. /\ t \in Tasks /\ t \notin coll /\ owner[t].state = "PENDING" /\ t \in barrier /\ t \notin finishedTasks
        /\ owner[t].attempt = j.attempt /\ rec[t].attempt = j.attempt /\ rec[t].active = j.attempt
        /\ t \in sessions /\ j.hold <= j.attempt /\ j \in Executions
    BY JobIs
  <2>5. QED  BY <2>2, <2>3, <2>4
<1>1. /\ k \in Executions /\ k.task = t /\ k.hold = j.hold /\ k.fhold = j.fhold /\ k.pc = "queued" /\ k.attempt = n
  BY <1>0 DEF Executions
<1>2. JobBecomes(j, k)
  BY <1>1 DEF JobBecomes
<1> HIDE DEF k
<1>3. /\ k \in jobs' /\ jobs' \subseteq Executions /\ OneJob'
      /\ \A i \in jobs' : i = k \/ (i \in jobs /\ i # j /\ i.task # t)
      /\ \A i \in jobs : i # j => i \in jobs'
  BY <1>2, JobChanges
<1>4. /\ OwnerTyped' /\ \A u \in Tasks : u # t => owner'[u] = owner[u]
      /\ owner'[t].state = "PENDING" /\ owner'[t].attempt = n
  <2>1. owner[t] \in Outputs
    BY <1>0 DEF Records, OwnerTyped
  <2>2. Advanced(t, n) \in Outputs /\ Advanced(t, n).state = "PENDING" /\ Advanced(t, n).attempt = n
    BY <1>0, <2>1 DEF Advanced, Outputs, OutputStates
  <2>3. QED  BY <1>0, <2>2 DEF Records, OwnerTyped
<1>5. /\ rec' \in [Tasks -> Retries] /\ \A u \in Tasks : u # t => rec'[u] = rec[u]
      /\ rec'[t].state = "RETRY_PENDING" /\ rec'[t].active = n /\ rec'[t].attempt = n
  <2>1. InProgress(n) \in Retries /\ InProgress(n).state = "RETRY_PENDING" /\ InProgress(n).active = n
        /\ InProgress(n).attempt = n
    BY <1>0 DEF InProgress, Retries, RetryStates
  <2>2. QED  BY <1>0, <2>1 DEF Records, RecoveryTyped
<1>6. RecoveryTyped'
  BY <1>0, <1>5 DEF Records, RecoveryTyped
<1>7. /\ enqueued' \in [Tasks -> [Attempts -> Nat]]
      /\ \A u \in Tasks, a \in Attempts : (u # t \/ a # n) => enqueued'[u][a] = enqueued[u][a]
      /\ enqueued'[t][n] = enqueued[t][n] + 1
  <2>1. enqueued \in [Tasks -> [Attempts -> Nat]] /\ enqueued[t] \in [Attempts -> Nat] /\ enqueued[t][n] \in Nat
    BY <1>0 DEF Records, JobsTyped
  <2>2. enqueued' = [enqueued EXCEPT ![t] = [enqueued[t] EXCEPT ![n] = enqueued[t][n] + 1]]
    BY <2>1
  <2>3. [enqueued[t] EXCEPT ![n] = enqueued[t][n] + 1] \in [Attempts -> Nat]
    BY <1>0, <2>1
  <2>4. QED  BY <1>0, <2>1, <2>2, <2>3
<1>8. ASSUME NEW u \in Tasks PROVE Agrees(u)'
  <2>1. CASE u = t
    BY <1>0, <1>1, <1>3, <1>4, <1>5, <2>1 DEF Agrees
  <2>2. CASE u # t
    <3>1. Agrees(u) /\ owner'[u] = owner[u] /\ rec'[u] = rec[u]
      BY <1>4, <1>5, <2>2, RecordsAre DEF RecordParts
    <3>2. <<u, rec[u].active>> \in handoffs => <<u, rec[u].active>> \in handoffs'
      BY <2>2
    <3>3. \A i \in jobs : i.task = u => i \in jobs'
      BY <1>3, <2>2
    <3>4. QED  BY <2>2, <3>1, <3>2, <3>3 DEF Agrees
  <2>3. QED  BY <2>1, <2>2
<1>9. \A u \in Tasks : u \in coll' \/ owner'[u].state = "GONE" => OutputIdle(u)'
  <2>1. TAKE u \in Tasks
  <2>2. HAVE u \in coll' \/ owner'[u].state = "GONE"
  <2>3. u # t /\ OutputIdle(u)
    BY <1>0, <1>4, <2>2, RecordsAre DEF RecordParts
  <2>4. \A c \in Tasks : u \in Deps[c] => c # t
    BY <1>0, <2>3 DEF OutputIdle
  <2>5. QED  BY <1>4, <2>3, <2>4 DEF OutputIdle
<1>10. JobsCurrent'
  <2>1. SUFFICES ASSUME NEW i \in jobs'
                 PROVE  /\ i.task \in (barrier \ finishedTasks)'
                        /\ i.pc # "ended" => rec'[i.task].active = i.attempt /\ i.hold <= i.attempt
    BY DEF JobsCurrent
  <2>2. CASE i = k
    BY <1>0, <1>1, <1>5, <2>2
  <2>3. CASE i # k
    <3>1. i \in jobs /\ i.task # t /\ i.task \in Tasks
      BY <1>3, <2>3, JobIs
    <3>2. QED  BY <1>5, <3>1, RecordsAre DEF RecordParts, JobsCurrent
  <2>4. QED  BY <2>2, <2>3
<1>11. InputHolds'
  BY <1>1, <1>3, RecordsAre DEF RecordParts, InputHolds, Submitted
<1>12. QueuedOnce'
  <2>1. SUFFICES ASSUME NEW u \in Tasks, NEW a \in Attempts
                 PROVE  enqueued'[u][a] <= IF a <= rec'[u].attempt THEN 1 ELSE 0
    BY DEF QueuedOnce
  <2>2. enqueued[u][a] \in Nat /\ enqueued[u][a] <= IF a <= rec[u].attempt THEN 1 ELSE 0
    BY RecordsAre DEF RecordParts, QueuedOnce, JobsTyped
  <2>3. a \in Nat
    BY <1>0
  <2>4. CASE u # t
    BY <1>5, <1>7, <2>2, <2>4
  <2>5. CASE u = t /\ a # n
    BY <1>0, <1>5, <1>7, <2>2, <2>3, <2>5
  <2>6. CASE u = t /\ a = n
    BY <1>0, <1>5, <1>7, <2>2, <2>3, <2>6
  <2>7. QED  BY <2>4, <2>5, <2>6
<1>13. JobsTyped'
  BY <1>3, <1>7 DEF Records, JobsTyped
<1>14. QED
  BY <1>2, <1>3, <1>4, <1>6, <1>8, <1>9, <1>10, <1>11, <1>12, <1>13, RecordsFollow DEF RecordParts, k

\* An execution is finished, and gives up the holds of its inputs.
LEMMA FinishRecords ==
    ASSUME Records, NEW j \in jobs, Finish(j)
    PROVE  Records' /\ jobs' = jobs \ {j}
<1>1. /\ j.pc = "ended" /\ jobs' = jobs \ {j}
      /\ holds' = holds \ Submitted(j.task, j.hold)
      /\ finishedTasks' = finishedTasks \cup {j.task} /\ barrier' = barrier \ {j.task}
      /\ UNCHANGED <<owner, rec, sessions, handoffs, enqueued, coll>>
  BY JobIs DEF Finish, Is, recoveryVars
<1>2. \A i \in jobs' : i \in jobs /\ i.task # j.task
  BY <1>1, JobIs
<1>3. \A u \in Tasks : Agrees(u)'
  BY <1>1, RecordsAre DEF RecordParts, Agrees
<1>4. \A u \in Tasks : u \in coll' \/ owner'[u].state = "GONE" => OutputIdle(u)'
  BY <1>1, RecordsAre DEF RecordParts, OutputIdle
<1>5. (OwnerTyped /\ RecoveryTyped /\ QueuedOnce)'
  BY <1>1, RecordsAre DEF RecordParts, OwnerTyped, RecoveryTyped, QueuedOnce
<1>6. OneJob'
  BY <1>2, RecordsAre DEF RecordParts, OneJob
<1>7. JobsTyped'
  <2>1. j.task \in Tasks
    BY JobIs
  <2>2. QED  BY <1>1, <2>1 DEF Records, JobsTyped
<1>8. JobsCurrent'
  BY <1>1, <1>2, RecordsAre DEF RecordParts, JobsCurrent
<1>9. InputHolds'
  BY <1>1, <1>2, RecordsAre DEF RecordParts, InputHolds, Submitted
<1>10. QED  BY <1>1, <1>3, <1>4, <1>5, <1>6, <1>7, <1>8, <1>9, RecordsFollow DEF RecordParts


\* The outputs of a plan that may be committed are lost, and nobody else is about them.
Startable(plan) ==
    /\ plan \in Plans
    /\ \A t \in DOMAIN plan :
          /\ owner[t].state = "LOST" /\ owner[t].attempt + 1 = plan[t]
          /\ t \notin coll /\ t \notin barrier

LEMMA StartIs ==
    ASSUME Typed, Records, NEW plan, Startable(plan), Start(plan), UNCHANGED coll
    PROVE  /\ DOMAIN plan \in SUBSET Tasks
           /\ \A t \in DOMAIN plan :
                 /\ plan[t] \in Attempts /\ plan[t] # NoAttempt /\ owner'[t].state = "PENDING"
                 /\ owner'[t].attempt = plan[t] /\ rec'[t] = InProgress(plan[t])
                 /\ Job(t, plan[t]) \in jobs' /\ Job(t, plan[t]) \in Executions
           /\ \A t \in Tasks \ DOMAIN plan : owner'[t] = owner[t] /\ rec'[t] = rec[t]
           /\ \A i \in jobs' : \/ i \in jobs /\ i.task \notin DOMAIN plan
                               \/ i.task \in DOMAIN plan /\ i = Job(i.task, plan[i.task])
           /\ jobs \subseteq jobs'
           /\ OwnerTyped' /\ RecoveryTyped'
<1>1. DOMAIN plan \in SUBSET Tasks /\ plan \in [DOMAIN plan -> Attempts]
  BY PlanIs DEF Startable
<1>2. \A t \in DOMAIN plan : t \in Tasks /\ plan[t] \in Attempts /\ plan[t] # NoAttempt
  BY <1>1, Constants
<1>3. ASSUME NEW t \in DOMAIN plan
      PROVE  Advanced(t, plan[t]) \in Outputs /\ Advanced(t, plan[t]).state = "PENDING"
             /\ Advanced(t, plan[t]).attempt = plan[t]
  BY <1>2 DEF Typed, OwnerTyped, Advanced, Outputs, OutputStates
<1>4. ASSUME NEW t \in DOMAIN plan
      PROVE  InProgress(plan[t]) \in Retries
  BY <1>2 DEF InProgress, Retries, RetryStates
<1>5. ASSUME NEW t \in DOMAIN plan
      PROVE  Job(t, plan[t]) \in Executions /\ Job(t, plan[t]).task = t
  <2>1. Registered(t) => edge[t].hold \in Attempts
    BY DEF Registered, Typed, ForeignTyped, Edges
  <2>2. QED  BY <1>2, <2>1 DEF Job, Executions
<1>6. owner' = [t \in Tasks |-> IF t \in DOMAIN plan THEN Advanced(t, plan[t]) ELSE owner[t]]
  BY DEF Start
<1>7. rec' = [t \in Tasks |-> IF t \in DOMAIN plan THEN InProgress(plan[t]) ELSE rec[t]]
  BY DEF Start
<1>8. jobs' = jobs \cup {Job(t, plan[t]) : t \in DOMAIN plan}
  BY DEF Start
<1>9. OwnerTyped'
  BY <1>3, <1>6 DEF Typed, OwnerTyped
<1>10. RecoveryTyped'
  <2>1. rec' \in [Tasks -> Retries]
    BY <1>4, <1>7 DEF Typed, RecoveryTyped
  <2>2. sessions' = sessions \cup DOMAIN plan
        /\ handoffs' = handoffs \cup {<<t, plan[t]>> : t \in DOMAIN plan}
    BY DEF Start
  <2>3. QED  BY <1>2, <2>1, <2>2 DEF Typed, RecoveryTyped
<1>11. ASSUME NEW i \in jobs'
       PROVE  \/ i \in jobs /\ i.task \notin DOMAIN plan
              \/ i.task \in DOMAIN plan /\ i = Job(i.task, plan[i.task])
  <2>1. CASE i \in jobs
    BY <2>1, JobIs DEF Startable
  <2>2. CASE i \notin jobs
    BY <1>5, <1>8, <2>2
  <2>3. QED  BY <2>1, <2>2
<1>12. QED  BY <1>1, <1>2, <1>3, <1>5, <1>6, <1>7, <1>8, <1>9, <1>10, <1>11

\* A plan is committed: all its Tasks are queued once more.
LEMMA StartRecords ==
    ASSUME Typed, Records, NEW plan, Startable(plan), Start(plan), UNCHANGED coll
    PROVE  Records'
<1> DEFINE T == DOMAIN plan
<1>0. /\ T \in SUBSET Tasks
      /\ \A t \in T : plan[t] \in Attempts /\ plan[t] # NoAttempt /\ plan[t] \in Nat
      /\ \A t \in T : /\ owner'[t].state = "PENDING" /\ owner'[t].attempt = plan[t]
                      /\ rec'[t].active = plan[t] /\ rec'[t].attempt = plan[t]
                      /\ Job(t, plan[t]) \in jobs' /\ Job(t, plan[t]) \in Executions
      /\ \A t \in Tasks \ T : owner'[t] = owner[t] /\ rec'[t] = rec[t]
      /\ \A i \in jobs' : \/ i \in jobs /\ i.task \notin T
                          \/ i.task \in T /\ i = Job(i.task, plan[i.task])
      /\ OwnerTyped' /\ RecoveryTyped' /\ jobs \subseteq jobs'
  <2>1. /\ T \in SUBSET Tasks
        /\ \A t \in T : /\ plan[t] \in Attempts /\ plan[t] # NoAttempt /\ owner'[t].state = "PENDING"
                        /\ owner'[t].attempt = plan[t] /\ rec'[t] = InProgress(plan[t])
                        /\ Job(t, plan[t]) \in jobs' /\ Job(t, plan[t]) \in Executions
        /\ \A t \in Tasks \ T : owner'[t] = owner[t] /\ rec'[t] = rec[t]
        /\ \A i \in jobs' : \/ i \in jobs /\ i.task \notin T
                            \/ i.task \in T /\ i = Job(i.task, plan[i.task])
        /\ OwnerTyped' /\ RecoveryTyped' /\ jobs \subseteq jobs'
    BY StartIs
  <2>2. \A a \in Attempts : a \in Nat /\ InProgress(a).active = a /\ InProgress(a).attempt = a
    BY Constants DEF InProgress
  <2>3. QED  BY <2>1, <2>2
<1>1. \A t \in T : owner[t].state = "LOST" /\ owner[t].attempt + 1 = plan[t] /\ t \notin coll /\ t \notin barrier
  BY DEF Startable
<1>2. /\ sessions' = sessions \cup T
      /\ handoffs' = handoffs \cup {<<t, plan[t]>> : t \in T}
      /\ enqueued' = [t \in Tasks |-> IF t \in T THEN [enqueued[t] EXCEPT ![plan[t]] = enqueued[t][plan[t]] + 1]
                                                 ELSE enqueued[t]]
      /\ barrier' = barrier \cup T /\ finishedTasks' = finishedTasks \ T
      /\ holds' = holds \cup UNION {Submitted(t, plan[t]) : t \in T}
  BY <1>0 DEF Start, Records, JobsTyped
<1>3. \A t \in Tasks, a \in Attempts : Job(t, a).task = t /\ Job(t, a).attempt = a /\ Job(t, a).hold = a
                                       /\ Job(t, a).pc = "queued"
  BY DEF Job
<1>4. ASSUME NEW u \in Tasks PROVE Agrees(u)'
  <2>1. CASE u \in T
    <3>1. Job(u, plan[u]) \in jobs' /\ Job(u, plan[u]).task = u /\ Job(u, plan[u]).attempt = plan[u]
          /\ Job(u, plan[u]).pc # "ended"
      BY <1>0, <1>3, <2>1
    <3>2. <<u, plan[u]>> \in handoffs' /\ u \in sessions'
      BY <1>2, <2>1
    <3>3. QED  BY <1>0, <2>1, <3>1, <3>2 DEF Agrees
  <2>2. CASE u \notin T
    <3>1. Agrees(u) /\ owner'[u] = owner[u] /\ rec'[u] = rec[u]
      BY <1>0, <2>2, RecordsAre DEF RecordParts
    <3>2. <<u, rec[u].active>> \in handoffs => <<u, rec[u].active>> \in handoffs'
      BY <1>2
    <3>3. u \in sessions' <=> u \in sessions
      BY <1>2, <2>2
    <3>4. QED  BY <1>0, <3>1, <3>2, <3>3 DEF Agrees
  <2>3. QED  BY <2>1, <2>2
<1>5. ASSUME NEW u \in Tasks, u \in coll' \/ owner'[u].state = "GONE" PROVE OutputIdle(u)'
  <2>1. u \notin T
    BY <1>0, <1>1, <1>5
  <2>2. OutputIdle(u) /\ owner'[u] = owner[u]
    BY <1>0, <1>5, <2>1, RecordsAre DEF RecordParts
  <2>3. \A c \in Tasks : u \in Deps[c] => c \notin T /\ owner'[c] = owner[c]
    BY <1>0, <1>1, <2>2 DEF OutputIdle
  <2>4. QED  BY <1>2, <2>1, <2>2, <2>3 DEF OutputIdle
<1>6. OneJob'
  <2>1. SUFFICES ASSUME NEW i \in jobs', NEW k \in jobs', i.task = k.task PROVE i = k
    BY DEF OneJob
  <2>2. QED  BY <1>0, <2>1, RecordsAre DEF RecordParts, OneJob
<1>7. JobsCurrent'
  <2>1. SUFFICES ASSUME NEW i \in jobs'
                 PROVE  /\ i.task \in (barrier \ finishedTasks)'
                        /\ i.pc # "ended" => rec'[i.task].active = i.attempt /\ i.hold <= i.attempt
    BY DEF JobsCurrent
  <2>2. CASE i \in jobs /\ i.task \notin T
    <3>1. i.task \in barrier \ finishedTasks /\ i.task \in Tasks
          /\ (i.pc # "ended" => rec[i.task].active = i.attempt /\ i.hold <= i.attempt)
      BY <2>2, JobIs, RecordsAre DEF RecordParts, JobsCurrent
    <3>2. QED  BY <1>0, <1>2, <2>2, <3>1
  <2>3. CASE i.task \in T /\ i = Job(i.task, plan[i.task])
    <3>1. i.attempt = plan[i.task] /\ i.hold = plan[i.task]
      BY <1>0, <1>3, <2>3
    <3>2. QED  BY <1>0, <1>2, <2>3, <3>1
  <2>4. QED  BY <1>0, <2>2, <2>3
<1>8. InputHolds'
  <2>1. SUFFICES ASSUME NEW i \in jobs', i.pc # "ended" PROVE Submitted(i.task, i.hold) \subseteq holds'
    BY DEF InputHolds, Submitted
  <2>2. CASE i \in jobs
    BY <1>2, <2>1, <2>2, RecordsAre DEF RecordParts, InputHolds
  <2>3. CASE i.task \in T /\ i = Job(i.task, plan[i.task])
    <3>1. i.hold = plan[i.task]
      BY <1>0, <1>3, <2>3
    <3>2. QED  BY <1>2, <2>3, <3>1
  <2>4. QED  BY <1>0, <2>2, <2>3
<1>9. /\ enqueued' \in [Tasks -> [Attempts -> Nat]]
      /\ \A u \in Tasks, a \in Attempts :
            enqueued'[u][a] = IF u \in T /\ a = plan[u] THEN enqueued[u][a] + 1 ELSE enqueued[u][a]
  <2>1. enqueued \in [Tasks -> [Attempts -> Nat]]
    BY DEF Records, JobsTyped
  <2>2. ASSUME NEW u \in Tasks
        PROVE  /\ enqueued'[u] \in [Attempts -> Nat]
               /\ \A a \in Attempts :
                     enqueued'[u][a] = IF u \in T /\ a = plan[u] THEN enqueued[u][a] + 1 ELSE enqueued[u][a]
    <3>1. enqueued[u] \in [Attempts -> Nat]
      BY <2>1
    <3>2. CASE u \in T
      <4>1. enqueued'[u] = [enqueued[u] EXCEPT ![plan[u]] = enqueued[u][plan[u]] + 1]
        BY <1>2, <3>2
      <4>2. enqueued[u][plan[u]] \in Nat /\ plan[u] \in Attempts
        BY <1>0, <3>1, <3>2
      <4>3. QED  BY <3>1, <3>2, <4>1, <4>2
    <3>3. CASE u \notin T
      BY <1>2, <3>1, <3>3
    <3>4. QED  BY <3>2, <3>3
  <2>3. QED  BY <1>2, <2>2
<1>10. QueuedOnce'
  <2>1. SUFFICES ASSUME NEW u \in Tasks, NEW a \in Attempts
                 PROVE  enqueued'[u][a] <= IF a <= rec'[u].attempt THEN 1 ELSE 0
    BY DEF QueuedOnce
  <2>2. /\ enqueued[u][a] \in Nat /\ enqueued[u][a] <= IF a <= rec[u].attempt THEN 1 ELSE 0
        /\ owner[u].attempt = rec[u].attempt /\ rec[u].attempt \in Nat /\ a \in Nat
    <3>1. enqueued[u][a] \in Nat /\ enqueued[u][a] <= IF a <= rec[u].attempt THEN 1 ELSE 0
      BY RecordsAre DEF RecordParts, QueuedOnce, JobsTyped
    <3>2. Agrees(u) /\ owner[u].attempt \in Attempts
      BY RecordsAre DEF RecordParts, OwnerTyped, Outputs
    <3>3. a \in Nat /\ owner[u].attempt \in Nat
      BY <3>2, Constants
    <3>4. QED  BY <3>1, <3>2, <3>3 DEF Agrees
  <2>3. CASE u \notin T
    BY <1>0, <1>9, <2>2, <2>3
  <2>4. CASE u \in T /\ a # plan[u]
    <3>1. rec'[u].attempt = plan[u] /\ plan[u] = rec[u].attempt + 1
      BY <1>0, <1>1, <2>2, <2>4
    <3>2. enqueued'[u][a] = enqueued[u][a]
      BY <1>9, <2>4
    <3>3. QED  BY <2>2, <2>4, <3>1, <3>2
  <2>5. CASE u \in T /\ a = plan[u]
    <3>1. rec'[u].attempt = plan[u] /\ plan[u] = rec[u].attempt + 1
      BY <1>0, <1>1, <2>2, <2>5
    <3>2. enqueued'[u][a] = enqueued[u][a] + 1
      BY <1>9, <2>5
    <3>3. QED  BY <2>2, <2>5, <3>1, <3>2
  <2>6. QED  BY <2>3, <2>4, <2>5
<1>11. JobsTyped'
  <2>1. jobs' \subseteq Executions
    BY <1>0 DEF Records, JobsTyped
  <2>2. \A t \in T : Submitted(t, plan[t]) \subseteq Tasks \X Tasks \X Attempts
    <3>1. SUFFICES ASSUME NEW t \in T, NEW d \in Deps[t] PROVE <<d, t, plan[t]>> \in Tasks \X Tasks \X Attempts
      BY DEF Submitted
    <3>2. d \in Tasks /\ t \in Tasks /\ plan[t] \in Attempts
      BY <1>0, Constants
    <3>3. QED  BY <3>2
  <2>3. QED  BY <1>0, <1>2, <1>9, <2>1, <2>2 DEF Records, JobsTyped
<1>12. QED  BY <1>0, <1>4, <1>5, <1>6, <1>7, <1>8, <1>10, <1>11, RecordsFollow DEF RecordParts

\* A plan is committed only as it was prepared.
LEMMA CommitIs ==
    ASSUME Typed, NEW g \in Getters, Commit(g)
    PROVE  /\ \/ Startable(Plan(g)) /\ Start(Plan(g)) /\ Completed(g) /\ AllRenewed(g)
              \/ UNCHANGED <<owner, recoveryVars, jobVars, renewal>>
           /\ UNCHANGED <<coll, edge, holdVars, late, fup>>
           /\ getter[g].pc = "retire"
<1>1. ASSUME Planned(g) \cap barrier = {}, Deviates(Prepared(g)) = {}
      PROVE  Startable(Plan(g))
  <2>1. Planned(g) \in SUBSET Tasks /\ Plan(g) \in Plans
    BY GetIs DEF Typed
  <2>2. ASSUME NEW t \in Planned(g)
        PROVE  owner[t].state = "LOST" /\ owner[t].attempt + 1 = Plan(g)[t] /\ t \notin coll
    <3>1. Prepare(t, Plan(g)[t]) = "same"
      BY <1>1 DEF Deviates, Prepared
    <3>2. Preview(t, Plan(g)[t]) = "same"
      BY <3>1 DEF Prepare
    <3>3. QED  BY <3>2 DEF Preview
  <2>3. \A t \in Planned(g) : t \notin barrier
    BY <1>1
  <2>4. QED  BY <2>1, <2>2, <2>3 DEF Startable, Planned
<1>2. QED  BY <1>1 DEF Commit, At

\* A step that leaves the records alone.
recordVars == <<owner, rec, sessions, handoffs, enqueued, jobs, barrier, finishedTasks, holds, coll>>

LEMMA QuietRecords ==
    ASSUME Records, UNCHANGED recordVars
    PROVE  Records'
  BY DEF recordVars, Records, OwnerTyped, RecoveryTyped, JobsTyped, EpochsAgree, JobsCurrent, Collected,
         QueuedOnce, InputHolds

LEMMA Numbered ==
    ASSUME OwnerTyped, NEW t \in Tasks
    PROVE  owner[t] \in Outputs /\ owner[t].attempt \in Nat
<1>1. owner[t] \in Outputs /\ owner[t].attempt \in Attempts
  BY DEF OwnerTyped, Outputs
<1>2. QED  BY <1>1, Constants

\* What a step that commits no plan does to the outputs and to the executions.
Carried(i) == \E k \in jobs : k.pc # "ended" /\ k.task = i.task /\ k.hold = i.hold /\ k.fhold = i.fhold

RecordsKept ==
    /\ Records'
    /\ \A t \in Tasks : /\ owner[t].attempt <= owner'[t].attempt
                        /\ owner[t].state = "GONE" => owner'[t].state = "GONE"
    /\ \A i \in jobs' : i.pc # "ended" => Carried(i)

LEMMA QuietStep ==
    ASSUME Records, UNCHANGED recordVars
    PROVE  RecordsKept
<1>1. \A t \in Tasks : owner[t].attempt \in Nat
  BY Numbered DEF Records
<1>2. \A t \in Tasks : owner[t].attempt <= owner'[t].attempt
  BY <1>1 DEF recordVars
<1>3. QED  BY <1>2, QuietRecords DEF recordVars, RecordsKept, Carried

LEMMA MemberStep ==
    ASSUME Records, NEW t \in Tasks, EndRetirement(t),
           UNCHANGED <<rec, sessions, handoffs, enqueued, jobs, barrier, finishedTasks, holds, coll>>
    PROVE  RecordsKept
<1>1. owner' = [owner EXCEPT ![t] = [owner[t] EXCEPT !.member = FALSE]]
  BY DEF EndRetirement, Records, OwnerTyped
<1>2. \A u \in Tasks : owner[u].attempt \in Nat /\ owner[u] \in Outputs
  BY Numbered DEF Records
<1>3. \A u \in Tasks : owner'[u].attempt = owner[u].attempt /\ owner'[u].state = owner[u].state
  BY <1>1, <1>2 DEF Records, OwnerTyped, Outputs
<1>4. \A u \in Tasks : owner[u].attempt <= owner'[u].attempt
  BY <1>2, <1>3
<1>5. QED  BY <1>3, <1>4, MemberRecords DEF RecordsKept, Carried

LEMMA OutputStep ==
    ASSUME Records, NEW t \in Tasks, Lose(t) \/ BeginCollect(t) \/ FinishCollect(t)
    PROVE  RecordsKept
<1>1. \/ owner' = [owner EXCEPT ![t] = [owner[t] EXCEPT !.state = "LOST"]] /\ owner[t].state = "READY"
      \/ owner' = owner
      \/ owner' = [owner EXCEPT ![t] = [owner[t] EXCEPT !.state = "GONE"]]
  BY DEF Lose, BeginCollect, FinishCollect, Records, OwnerTyped
<1>2. \A u \in Tasks : owner[u].attempt \in Nat /\ owner[u] \in Outputs
  BY Numbered DEF Records
<1>3. \A u \in Tasks : /\ owner'[u].attempt = owner[u].attempt
                       /\ owner[u].state = "GONE" => owner'[u].state = "GONE"
  BY <1>1, <1>2 DEF Records, OwnerTyped, Outputs
<1>4. \A u \in Tasks : owner[u].attempt <= owner'[u].attempt
  BY <1>2, <1>3
<1>5. UNCHANGED jobs
  BY DEF Lose, BeginCollect, FinishCollect, jobVars
<1>6. Records'
  BY LoseRecords, CollectRecords, CollectedRecords
<1>7. QED  BY <1>3, <1>4, <1>5, <1>6 DEF RecordsKept, Carried

\* An execution that has not ended changes its record and its output's entry.
LEMMA ChangedStep ==
    ASSUME Records, Records', NEW j \in jobs, j.pc # "ended", NEW k, JobBecomes(j, k),
           NEW n \in Attempts, j.attempt <= n,
           owner'[j.task].attempt = n, \A u \in Tasks : u # j.task => owner'[u] = owner[u]
    PROVE  RecordsKept
<1>1. /\ \A i \in jobs' : i = k \/ i \in jobs
      /\ k.task = j.task /\ k.hold = j.hold /\ k.fhold = j.fhold
  BY JobChanges DEF JobBecomes
<1>2. \A i \in jobs' : i.pc # "ended" => Carried(i)
  BY <1>1 DEF Carried
<1>3. \A u \in Tasks : owner[u].attempt \in Nat
  BY Numbered DEF Records
<1>4. owner[j.task].attempt = j.attempt /\ owner[j.task].state = "PENDING" /\ j.task \in Tasks
  BY JobIs
<1>5. ASSUME NEW u \in Tasks
      PROVE  owner[u].attempt <= owner'[u].attempt /\ (owner[u].state = "GONE" => owner'[u].state = "GONE")
  <2>1. CASE u = j.task
    BY <1>4, <2>1
  <2>2. CASE u # j.task
    BY <1>3, <2>2
  <2>3. QED  BY <2>1, <2>2
<1>6. QED  BY <1>2, <1>5 DEF RecordsKept

LEMMA JobStep ==
    ASSUME Records, NEW j \in jobs, Admit(j) \/ Succeed(j) \/ AppError(j) \/ SystemFailure(j) \/ Finish(j)
    PROVE  RecordsKept
<1>1. /\ j \in Executions /\ j.task \in Tasks /\ j.attempt \in Attempts
      /\ owner[j.task] \in Outputs /\ j.attempt \in Nat /\ j.attempt <= j.attempt
  <2>1. j \in Executions /\ j.task \in Tasks /\ j.attempt \in Attempts
    BY JobIs
  <2>2. j.attempt \in 0..MaxRetries
    BY <2>1, Constants
  <2>3. owner[j.task] \in Outputs
    BY <2>1, Numbered DEF Records
  <2>4. QED  BY <2>1, <2>2, <2>3
<1>2. j.pc # "ended" => owner[j.task].attempt = j.attempt /\ Current(j)
  BY JobIs DEF Current
<1>3. ASSUME NEW end \in RetryStates, PublishJobError(j, end), j.pc # "ended",
             UNCHANGED <<enqueued, barrier, finishedTasks, holds, coll>>
      PROVE  RecordsKept
  <2>1. Records' /\ JobBecomes(j, [j EXCEPT !.pc = "ended"])
    BY <1>3, ErrorRecords
  <2>2. owner' = [owner EXCEPT ![j.task] = [owner[j.task] EXCEPT !.state = "ERROR"]]
    BY <1>3 DEF PublishJobError, Records, OwnerTyped
  <2>3. owner'[j.task].attempt = j.attempt /\ \A u \in Tasks : u # j.task => owner'[u] = owner[u]
    BY <1>1, <1>2, <1>3, <2>2 DEF Records, OwnerTyped, Outputs
  <2>4. QED  BY <1>1, <1>3, <2>1, <2>3, ChangedStep
<1>4. CASE Admit(j)
  <2>1. j.pc # "ended" /\ Current(j)
    BY <1>2, <1>4 DEF Admit, Is
  <2>2. \/ PublishJobError(j, "SYSTEM_FAILED")
        \/ Replaced(j, [j EXCEPT !.pc = "running"]) /\ UNCHANGED <<owner, recoveryVars>>
    BY <1>4, <2>1 DEF Admit
  <2>3. UNCHANGED <<enqueued, barrier, finishedTasks, holds, coll>>
    BY <1>4 DEF Admit
  <2>4. CASE Replaced(j, [j EXCEPT !.pc = "running"]) /\ UNCHANGED <<owner, recoveryVars>>
    <3>1. Records' /\ JobBecomes(j, [j EXCEPT !.pc = "running"])
      BY <2>1, <2>3, <2>4, RunRecords DEF recoveryVars
    <3>2. owner'[j.task].attempt = j.attempt /\ \A u \in Tasks : u # j.task => owner'[u] = owner[u]
      BY <1>2, <2>1, <2>4
    <3>3. QED  BY <1>1, <2>1, <3>1, <3>2, ChangedStep
  <2>5. QED  BY <1>3, <2>1, <2>2, <2>3, <2>4 DEF RetryStates
<1>5. CASE Succeed(j)
  <2>1. j.pc # "ended" /\ UNCHANGED <<enqueued, barrier, finishedTasks, holds, coll>>
    BY <1>5 DEF Succeed, Is
  <2>2. /\ owner' = [owner EXCEPT ![j.task] = [state |-> "READY", attempt |-> j.attempt, member |-> TRUE]]
        /\ rec' = [rec EXCEPT ![j.task] = Ended(j.task, "SUCCEEDED")]
        /\ Forget(j.task, j.attempt) /\ Replaced(j, [j EXCEPT !.pc = "ended"])
    BY <1>5 DEF Succeed
  <2>3. Records' /\ JobBecomes(j, [j EXCEPT !.pc = "ended"])
    BY <2>1, <2>2, EndRecords DEF RetryStates
  <2>4. owner'[j.task].attempt = j.attempt /\ \A u \in Tasks : u # j.task => owner'[u] = owner[u]
    BY <1>1, <2>2 DEF Records, OwnerTyped
  <2>5. QED  BY <1>1, <2>1, <2>3, <2>4, ChangedStep
<1>6. CASE AppError(j)
  BY <1>3, <1>6 DEF AppError, Is, RetryStates
<1>7. CASE SystemFailure(j)
  <2>1. j.pc # "ended" /\ UNCHANGED <<barrier, finishedTasks, holds, coll>>
    BY <1>7 DEF SystemFailure, Is
  <2>2. CASE j.attempt < MaxRetries
    <3>1. /\ owner' = [owner EXCEPT ![j.task] = Advanced(j.task, j.attempt + 1)]
          /\ rec' = [rec EXCEPT ![j.task] = InProgress(j.attempt + 1)]
          /\ handoffs' = (handoffs \ {<<j.task, j.attempt>>}) \cup {<<j.task, j.attempt + 1>>}
          /\ enqueued' = [enqueued EXCEPT ![j.task][j.attempt + 1] = enqueued[j.task][j.attempt + 1] + 1]
          /\ Replaced(j, [j EXCEPT !.attempt = j.attempt + 1, !.pc = "queued"])
          /\ UNCHANGED sessions
      BY <1>7, <2>2 DEF SystemFailure
    <3>2. Records' /\ JobBecomes(j, [j EXCEPT !.attempt = j.attempt + 1, !.pc = "queued"])
      BY <2>1, <2>2, <3>1, RetryRecords
    <3>3. j.attempt + 1 \in Attempts /\ j.attempt <= j.attempt + 1
      BY <1>1, <2>2, Constants
    <3>4. owner'[j.task].attempt = j.attempt + 1 /\ \A u \in Tasks : u # j.task => owner'[u] = owner[u]
      BY <1>1, <3>1 DEF Records, OwnerTyped, Advanced, Outputs
    <3>5. QED  BY <2>1, <3>2, <3>3, <3>4, ChangedStep
  <2>3. CASE ~(j.attempt < MaxRetries)
    BY <1>3, <1>7, <2>1, <2>3 DEF SystemFailure, RetryStates
  <2>4. QED  BY <2>2, <2>3
<1>8. CASE Finish(j)
  <2>1. Records' /\ jobs' = jobs \ {j} /\ UNCHANGED owner
    BY <1>8, FinishRecords DEF Finish
  <2>2. \A t \in Tasks : owner[t].attempt <= owner'[t].attempt
    BY <2>1, Numbered DEF Records
  <2>3. QED  BY <2>1, <2>2 DEF RecordsKept, Carried
<1>9. QED  BY <1>4, <1>5, <1>6, <1>7, <1>8

\* Every step's part in the records.
CommitsPlan == \E g \in Getters : Commit(g) /\ Startable(Plan(g)) /\ Start(Plan(g)) /\ Completed(g) /\ AllRenewed(g)

LEMMA RecordsStep ==
    ASSUME Typed, Passes, Records, RecoveryNext
    PROVE  RecordsKept \/ (Records' /\ CommitsPlan)
<1>1. ASSUME NEW g \in Getters, Get(g) \/ Thread(g) \/ GiveUp(g) \/ Drop(g)
      PROVE  RecordsKept \/ (Records' /\ CommitsPlan)
  <2>1. CASE Commit(g)
    <3>1. CASE Startable(Plan(g)) /\ Start(Plan(g)) /\ Completed(g) /\ AllRenewed(g)
      BY <2>1, <3>1, CommitIs, StartRecords DEF CommitsPlan
    <3>2. CASE UNCHANGED <<owner, recoveryVars, jobVars, renewal>>
      BY <2>1, <3>2, CommitIs, QuietStep DEF recordVars, recoveryVars, jobVars
    <3>3. QED  BY <2>1, <3>1, <3>2, CommitIs
  <2>2. CASE Retired(g) /\ EndRetirement(Retiring(g))
    <3>1. Retiring(g) \in Tasks
      BY <2>2, DrivingIs DEF Retired, At
    <3>2. QED  BY <2>2, <3>1, MemberStep DEF Retired, recoveryVars, jobVars
  <2>3. CASE Retired(g) /\ ~EndRetirement(Retiring(g))
    BY <2>3, QuietStep DEF Retired, recordVars, recoveryVars, jobVars
  <2>4. CASE ~Commit(g) /\ ~Retired(g)
    <3>1. UNCHANGED recordVars
      BY <1>1, <2>4 DEF Get, Thread, GiveUp, Drop, Poll, PollRemote, HandleReconstruction, Preflight, Drive, Replace,
                        ConcludeDrive, QueryInput, Check, Retire, recordVars, recoveryVars, jobVars
    <3>2. QED  BY <3>1, QuietStep
  <2>5. QED  BY <2>1, <2>2, <2>3, <2>4
<1>2. ASSUME NEW t \in Tasks, CoordinatorRetire(t)
      PROVE  RecordsKept
  BY <1>2, MemberStep DEF CoordinatorRetire, recoveryVars, jobVars
<1>3. CASE \/ \E t \in Foreign : ForeignCollect(t)
           \/ \E b \in borrow : BorrowEnds(b)
           \/ ForeignStep
  <2>1. UNCHANGED recordVars
    BY <1>3 DEF ForeignCollect, BorrowEnds, ForeignStep, recordVars, recoveryVars, jobVars
  <2>2. QED  BY <2>1, QuietStep
<1>4. QED  BY <1>1, <1>2, <1>3, OutputStep, JobStep DEF RecoveryNext

-----------------------------------------------------------------------------
(* The plans *)

LEMMA PlansStep ==
    ASSUME Typed, Passes, Records, PlansInTime, RecoveryNext
    PROVE  PlansInTime'
<1>1. RecordsKept \/ CommitsPlan
  BY RecordsStep
<1>2. \A g \in Getters : PlanMoves(g)
  BY GettersStep
<1>3. ASSUME NEW t \in Tasks PROVE owner[t].attempt \in Nat /\ owner[t].attempt <= owner'[t].attempt
                                  /\ owner'[t].attempt \in Nat
  <2>1. owner[t].attempt \in Nat
    BY Numbered DEF Records
  <2>2. CASE RecordsKept
    <3>1. OwnerTyped' /\ owner[t].attempt <= owner'[t].attempt
      BY <2>2 DEF RecordsKept, Records
    <3>2. owner'[t].attempt \in Attempts
      BY <3>1 DEF OwnerTyped, Outputs
    <3>3. QED  BY <2>1, <3>1, <3>2, Constants
  <2>3. CASE CommitsPlan
    <3>1. PICK g \in Getters : Commit(g) /\ Startable(Plan(g)) /\ Start(Plan(g))
      BY <2>3 DEF CommitsPlan
    <3>2. UNCHANGED coll
      BY <3>1, CommitIs
    <3>3. \/ t \notin Planned(g) /\ owner'[t] = owner[t]
          \/ t \in Planned(g) /\ owner'[t].attempt = Plan(g)[t]
      BY <3>1, <3>2, StartIs DEF Planned
    <3>4. t \in Planned(g) => owner[t].attempt + 1 = Plan(g)[t]
      BY <3>1 DEF Startable, Planned
    <3>5. QED  BY <2>1, <3>3, <3>4
  <2>4. QED  BY <1>1, <2>2, <2>3
<1>4. SUFFICES ASSUME NEW g \in Getters, NEW t \in Planned(g)'
               PROVE  /\ Plan(g)'[t] <= owner'[t].attempt + 1
                      /\ \A j \in jobs' : j.task = t /\ j.pc # "ended" => Plan(g)'[t] <= j.hold
  BY DEF PlansInTime
<1>5. CASE getter'[g].plan = getter[g].plan
  <2>1. /\ t \in Planned(g) /\ t \in Tasks /\ Plan(g)'[t] = Plan(g)[t]
    BY <1>4, <1>5, GetIs DEF Plan, Planned, Typed
  <2>2. Plan(g)[t] \in Nat
    BY <2>1, GetIs, Constants DEF Typed
  <2>3. Plan(g)[t] <= owner[t].attempt + 1
    BY <2>1 DEF PlansInTime
  <2>4. ASSUME NEW j \in jobs', j.task = t, j.pc # "ended" PROVE Plan(g)[t] <= j.hold
    <3>1. CASE RecordsKept
      <4>1. PICK k \in jobs : k.pc # "ended" /\ k.task = t /\ k.hold = j.hold
        BY <2>4, <3>1 DEF RecordsKept, Carried
      <4>2. QED  BY <2>1, <4>1 DEF PlansInTime
    <3>2. CASE CommitsPlan
      <4>1. PICK h \in Getters : Commit(h) /\ Startable(Plan(h)) /\ Start(Plan(h))
        BY <3>2 DEF CommitsPlan
      <4>2. \/ j \in jobs
            \/ t \in DOMAIN Plan(h) /\ j = Job(t, Plan(h)[t])
        BY <2>4, <4>1, CommitIs, StartIs
      <4>3. CASE j \in jobs
        BY <2>1, <2>4, <4>3 DEF PlansInTime
      <4>4. CASE t \in DOMAIN Plan(h) /\ j = Job(t, Plan(h)[t])
        <5>1. j.hold = owner[t].attempt + 1
          BY <4>1, <4>4 DEF Job, Startable
        <5>2. QED  BY <2>3, <5>1
      <4>5. QED  BY <4>2, <4>3, <4>4
    <3>3. QED  BY <1>1, <3>1, <3>2
  <2>5. QED  BY <1>3, <2>1, <2>2, <2>3, <2>4
<1>6. CASE DOMAIN getter'[g].plan = {}
  BY <1>4, <1>6 DEF Plan, Planned
<1>7. CASE NewPlan(g)
  <2>1. PICK S \in SUBSET Tasks :
           /\ \A d \in S : owner[d].state = "LOST"
           /\ getter'[g].plan = [d \in S |-> owner[d].attempt + 1]
    BY <1>7 DEF NewPlan
  <2>2. t \in S /\ Plan(g)'[t] = owner[t].attempt + 1 /\ owner'[t] = owner[t] /\ jobs' = jobs /\ t \in Tasks
    BY <1>4, <1>7, <2>1 DEF NewPlan, Plan, Planned
  <2>3. \A j \in jobs' : j.task = t => j.pc = "ended"
    BY <2>1, <2>2, JobIs
  <2>4. QED  BY <1>3, <2>2, <2>3
<1>8. QED  BY <1>2, <1>5, <1>6, <1>7 DEF PlanMoves

-----------------------------------------------------------------------------
(* The foreign holds *)

HoldsInOrder == ForeignTyped /\ EdgesOrdered /\ ReleasedForGood /\ LateRequests /\ OneHold

GoneStays == \A t \in Tasks : owner[t].state = "GONE" => owner'[t].state = "GONE"

\* What may become of a renewal session while the record and F's holds stay as they are.
SessionMoves(t) ==
    \/ renewal'[t].attempt = renewal[t].attempt /\ renewal'[t].acked = renewal[t].acked
    \/ renewal'[t].attempt = NoAttempt /\ (Open(t) => renewal[t].acked)
    \/ /\ ~Open(t) /\ edge[t].state = "registered"
       /\ IF renewal'[t].acked THEN edge[t].hold = renewal'[t].attempt ELSE edge[t].hold < renewal'[t].attempt

SessionsTyped ==
    renewal \in [Foreign -> Renewals] /\ \A t \in Foreign : renewal[t].attempt = NoAttempt => renewal[t] = NoRenewal

LEMMA SessionsMove ==
    ASSUME HoldsInOrder, GoneStays, UNCHANGED <<edge, holdVars>>, late' \subseteq late,
           SessionsTyped', \A t \in Foreign : SessionMoves(t), fup' \in BOOLEAN, fdead' \in BOOLEAN
    PROVE  HoldsInOrder'
<1>0. Foreign \subseteq Tasks
  BY Constants
<1>1. ForeignTyped'
  BY DEF HoldsInOrder, ForeignTyped, SessionsTyped, holdVars
<1>2. EdgesOrdered'
  <2>1. SUFFICES ASSUME NEW t \in Foreign
                 PROVE  /\ edge[t].state # "registered" => owner'[t].state = "GONE" /\ renewal'[t].attempt = NoAttempt
                        /\ renewal'[t].attempt # NoAttempt =>
                              IF renewal'[t].acked THEN edge[t].hold = renewal'[t].attempt
                                                   ELSE edge[t].hold < renewal'[t].attempt
    BY DEF EdgesOrdered, Open, holdVars
  <2>2. /\ edge[t].state # "registered" => owner[t].state = "GONE" /\ ~Open(t)
        /\ Open(t) => IF renewal[t].acked THEN edge[t].hold = renewal[t].attempt
                                          ELSE edge[t].hold < renewal[t].attempt
    BY DEF HoldsInOrder, EdgesOrdered
  <2>3. SessionMoves(t) /\ (owner[t].state = "GONE" => owner'[t].state = "GONE")
    BY <1>0 DEF GoneStays
  <2>4. QED  BY <2>2, <2>3 DEF SessionMoves, Open
<1>3. ReleasedForGood'
  BY DEF HoldsInOrder, ReleasedForGood, holdVars
<1>4. LateRequests'
  <2>1. SUFFICES ASSUME NEW m \in late', edge[m[1]].state = "registered"
                 PROVE  \/ <<m[1], m[2]>> \in freleased
                        \/ /\ renewal'[m[1]].attempt # NoAttempt /\ ~renewal'[m[1]].acked
                           /\ renewal'[m[1]].attempt = m[3] /\ edge[m[1]].hold = m[2]
    BY DEF LateRequests, Open, holdVars
  <2>2. m \in late /\ m[1] \in Foreign
    BY DEF HoldsInOrder, ForeignTyped
  <2>3. QED  BY <2>1, <2>2 DEF HoldsInOrder, LateRequests, SessionMoves, Open
<1>5. OneHold'
  <2>1. SUFFICES ASSUME NEW t \in Foreign, edge[t].state = "registered"
                 PROVE  \/ HoldsOf(t) = {<<t, edge[t].hold>>}
                        \/ /\ renewal'[t].attempt # NoAttempt /\ ~renewal'[t].acked
                           /\ HoldsOf(t) = {<<t, renewal'[t].attempt>>}
                           /\ <<t, edge[t].hold, renewal'[t].attempt>> \in replaced
    BY DEF OneHold, Open, holdVars, HoldsOf
  <2>2. QED  BY <2>1 DEF HoldsInOrder, OneHold, SessionMoves, Open
<1>6. QED  BY <1>1, <1>2, <1>3, <1>4, <1>5 DEF HoldsInOrder

\* Nothing of it changes.
LEMMA QuietHolds ==
    ASSUME HoldsInOrder, GoneStays, UNCHANGED <<edge, renewal, holdVars, late>>, fup' \in BOOLEAN, fdead' \in BOOLEAN
    PROVE  HoldsInOrder'
<1>1. SessionsTyped' /\ \A t \in Foreign : SessionMoves(t)
  BY DEF HoldsInOrder, ForeignTyped, SessionsTyped, SessionMoves
<1>2. QED  BY <1>1, SessionsMove

\* A session as its record has it.
LEMMA SessionIs ==
    ASSUME ForeignTyped, NEW t \in Foreign
    PROVE  /\ renewal[t] \in Renewals /\ edge[t] \in Edges
           /\ edge[t].hold \in Attempts /\ edge[t].hold \in Nat
           /\ Open(t) <=> renewal[t] # NoRenewal
           /\ Open(t) => renewal[t].attempt \in Attempts /\ renewal[t].attempt \in Nat
           /\ ~Open(t) => ~renewal[t].driving /\ ~renewal[t].acked
<1>1. renewal[t] \in Renewals /\ edge[t] \in Edges /\ (renewal[t].attempt = NoAttempt => renewal[t] = NoRenewal)
  BY DEF ForeignTyped
<1>2. NoRenewal.attempt = NoAttempt /\ ~NoRenewal.driving /\ ~NoRenewal.acked
  BY DEF NoRenewal, NoAttempt
<1>3. renewal[t].attempt \in Attempts \cup {NoAttempt} /\ edge[t].hold \in Attempts
  BY <1>1 DEF Renewals, Edges
<1>4. Attempts \subseteq Nat
  BY Constants
<1>5. QED  BY <1>1, <1>2, <1>3, <1>4 DEF Open

\* A pass over a Task begins.
LEMMA BeginHolds ==
    ASSUME HoldsInOrder, GoneStays, NEW t \in Foreign, Registered(t), NEW a \in Attempts,
           BeginDrive(t, a), ~Refused(t, a), ~Driven(t, a),
           UNCHANGED <<edge, holdVars, late, fup, fdead>>
    PROVE  /\ HoldsInOrder' /\ ~renewal[t].driving
           /\ renewal'[t].driving /\ renewal'[t].attempt = a
           /\ Asks(t, a) => ~renewal'[t].acked
           /\ \A u \in Foreign : u # t => renewal'[u] = renewal[u]
           /\ Open(t) => renewal'[t].acked = renewal[t].acked
           /\ ~Open(t) => edge[t].hold <= a /\ (renewal'[t].acked <=> edge[t].hold = a)
<1> DEFINE s == Opened(t, a)
           new == [s EXCEPT !.driving = TRUE, !.uncertain = Asks(t, a), !.failed = s.failed \/ (fdead /\ ~s.acked)]
<1>1. renewal' = [renewal EXCEPT ![t] = new]
  BY DEF BeginDrive
<1>2. /\ renewal[t] \in Renewals /\ edge[t] \in Edges /\ edge[t].hold \in Nat /\ a \in Nat /\ a # NoAttempt
      /\ Open(t) <=> renewal[t] # NoRenewal
      /\ ~Open(t) => ~renewal[t].driving
      /\ fdead \in BOOLEAN /\ renewal \in [Foreign -> Renewals]
      /\ edge[t].state \in {"registered", "claimed", "done"}
  <2>1. a \in Nat /\ a # NoAttempt
    BY Constants
  <2>2. QED  BY <2>1, SessionIs DEF HoldsInOrder, ForeignTyped, Edges
<1>3. /\ s \in Renewals /\ s.attempt = a /\ ~s.driving
      /\ Open(t) => s = renewal[t]
      /\ ~Open(t) => (s.acked <=> edge[t].hold = a) /\ edge[t].state # "claimed" /\ ~(edge[t].hold > a)
  <2>1. CASE Open(t)
    <3>1. s = renewal[t]
      BY <1>2, <2>1 DEF Opened
    <3>2. s.attempt = a /\ ~s.driving
      BY <1>2, <2>1, <3>1 DEF Refused, Driven
    <3>3. QED  BY <1>2, <2>1, <3>1, <3>2
  <2>2. CASE ~Open(t)
    <3>1. s = NewSession(t, a) /\ edge[t].state # "claimed" /\ ~(edge[t].hold > a)
      BY <1>2, <2>2 DEF Opened, Refused
    <3>2. NewSession(t, a) \in Renewals /\ NewSession(t, a).attempt = a /\ ~NewSession(t, a).driving
          /\ (NewSession(t, a).acked <=> edge[t].hold = a)
      BY DEF NewSession, Renewals
    <3>3. QED  BY <2>2, <3>1, <3>2
  <2>3. QED  BY <2>1, <2>2
<1>4. Asks(t, a) \in BOOLEAN /\ (Asks(t, a) => ~s.acked)
  BY DEF Asks
<1>5. /\ new \in Renewals /\ new.driving /\ new.attempt = a /\ new.acked = s.acked
  <2> HIDE DEF s
  <2>1. s.failed \in BOOLEAN
    BY <1>3 DEF Renewals
  <2>2. QED  BY <1>2, <1>3, <1>4, <2>1 DEF Renewals
<1> HIDE DEF new
<1>6. renewal'[t] = new /\ renewal' \in [Foreign -> Renewals] /\ \A u \in Foreign : u # t => renewal'[u] = renewal[u]
  BY <1>1, <1>2, <1>5
<1>7. SessionsTyped'
  BY <1>2, <1>5, <1>6 DEF HoldsInOrder, ForeignTyped, SessionsTyped
<1>8. SessionMoves(t)
  <2>1. CASE Open(t)
    BY <1>3, <1>5, <1>6, <2>1 DEF SessionMoves
  <2>2. CASE ~Open(t)
    <3>1. edge[t].state = "registered"
      BY <1>2, <1>3, <2>2 DEF Registered
    <3>2. s.acked \in BOOLEAN
      BY <1>3 DEF Renewals
    <3>3. QED  BY <1>2, <1>3, <1>5, <1>6, <2>2, <3>1, <3>2 DEF SessionMoves
  <2>3. QED  BY <2>1, <2>2
<1>9. \A u \in Foreign : SessionMoves(u)
  BY <1>6, <1>8 DEF SessionMoves
<1>10. fup' \in BOOLEAN /\ fdead' \in BOOLEAN
  BY DEF HoldsInOrder, ForeignTyped
<1>11. HoldsInOrder'
  BY <1>7, <1>9, <1>10, SessionsMove
<1>12. ~renewal[t].driving
  BY <1>2, <1>3
<1>13. ~Open(t) => edge[t].hold <= a /\ (renewal'[t].acked <=> edge[t].hold = a)
  <2>1. HAVE ~Open(t)
  <2>2. edge[t].hold <= a
    BY <1>2, <1>3, <2>1
  <2>3. QED  BY <1>3, <1>5, <1>6, <2>1, <2>2
<1>14. QED  BY <1>3, <1>4, <1>5, <1>6, <1>11, <1>12, <1>13

\* A pass over a Task ends.
LEMMA ConcludeHolds ==
    ASSUME HoldsInOrder, GoneStays, NEW t \in Foreign, Open(t), NEW found, EndDrive(t, found),
           UNCHANGED <<edge, holdVars, late, fup, fdead>>
    PROVE  /\ HoldsInOrder'
           /\ \A u \in Foreign : renewal'[u].attempt = renewal[u].attempt /\ renewal'[u].acked = renewal[u].acked
                                 /\ (u # t => renewal'[u] = renewal[u])
<1> DEFINE s == renewal[t]
           ready == IF found = "none" THEN s.ready ELSE found = "found" /\ ~fdead
           new == [s EXCEPT !.driving = FALSE, !.ready = ready, !.failed = s.failed \/ found = "failed"]
<1>1. s \in Renewals /\ s.attempt # NoAttempt /\ renewal \in [Foreign -> Renewals] /\ fdead \in BOOLEAN
  BY SessionIs DEF Open, HoldsInOrder, ForeignTyped
<1>2. renewal' = [renewal EXCEPT ![t] = new]
  BY <1>1 DEF EndDrive
<1>3. new \in Renewals /\ new.attempt = s.attempt /\ new.acked = s.acked
  <2> HIDE DEF s
  <2>1. ready \in BOOLEAN
    BY <1>1 DEF Renewals
  <2> HIDE DEF ready
  <2>2. s.failed \in BOOLEAN
    BY <1>1 DEF Renewals
  <2>3. QED  BY <1>1, <2>1, <2>2 DEF Renewals
<1> HIDE DEF new
<1>4. /\ renewal' \in [Foreign -> Renewals] /\ renewal'[t] = new
      /\ \A u \in Foreign : u # t => renewal'[u] = renewal[u]
  BY <1>1, <1>2, <1>3
<1>5. SessionsTyped' /\ \A u \in Foreign : SessionMoves(u)
  BY <1>1, <1>3, <1>4 DEF HoldsInOrder, ForeignTyped, SessionsTyped, SessionMoves
<1>6. fup' \in BOOLEAN /\ fdead' \in BOOLEAN
  BY DEF HoldsInOrder, ForeignTyped
<1>7. QED  BY <1>3, <1>4, <1>5, <1>6, SessionsMove

\* F's death is learned.
LEMMA DeathHolds ==
    ASSUME HoldsInOrder, GoneStays, DeathLearned
    PROVE  /\ HoldsInOrder'
           /\ \A u \in Foreign : renewal'[u].attempt = renewal[u].attempt /\ renewal'[u].acked = renewal[u].acked
                                 /\ renewal'[u].driving = renewal[u].driving
<1>1. ASSUME NEW u \in Foreign
      PROVE  /\ renewal'[u] \in Renewals /\ renewal'[u].attempt = renewal[u].attempt
             /\ renewal'[u].acked = renewal[u].acked /\ renewal'[u].driving = renewal[u].driving
             /\ renewal[u] = NoRenewal => renewal'[u] = NoRenewal
  <2>1. renewal[u] \in Renewals
    BY DEF HoldsInOrder, ForeignTyped
  <2>2. \/ renewal[u] = NoRenewal /\ renewal'[u] = renewal[u]
        \/ /\ renewal[u] # NoRenewal
           /\ renewal'[u] = [renewal[u] EXCEPT !.uncertain = FALSE, !.failed = TRUE, !.ready = FALSE]
    BY DEF DeathLearned
  <2>3. QED  BY <2>1, <2>2 DEF Renewals
<1>2. DOMAIN renewal' = Foreign /\ renewal' \in [Foreign -> Renewals]
  BY <1>1 DEF DeathLearned
<1>3. SessionsTyped' /\ \A u \in Foreign : SessionMoves(u)
  BY <1>1, <1>2 DEF HoldsInOrder, ForeignTyped, SessionsTyped, SessionMoves
<1>4. UNCHANGED <<edge, holdVars, late>> /\ fup' \in BOOLEAN /\ fdead' \in BOOLEAN
  BY DEF DeathLearned, HoldsInOrder, ForeignTyped
<1>5. QED  BY <1>1, <1>3, <1>4, SessionsMove

\* The sessions of a committed plan are forgotten.
LEMMA CompletedHolds ==
    ASSUME HoldsInOrder, GoneStays, NEW g \in Getters, Completed(g), AllRenewed(g),
           UNCHANGED <<edge, holdVars, late, fup, fdead>>
    PROVE  HoldsInOrder'
<1>1. \A t \in Foreign : renewal'[t] = IF t \in getter[g].driven THEN NoRenewal ELSE renewal[t]
  BY DEF Completed
<1>2. NoRenewal \in Renewals /\ NoRenewal.attempt = NoAttempt
  BY DEF NoRenewal, Renewals, NoAttempt
<1>3. renewal' \in [Foreign -> Renewals]
  BY <1>2 DEF Completed, HoldsInOrder, ForeignTyped
<1>4. \A t \in Foreign : t \in getter[g].driven => renewal[t].acked
  BY DEF AllRenewed, Renewed
<1>5. SessionsTyped' /\ \A t \in Foreign : SessionMoves(t)
  BY <1>1, <1>2, <1>3, <1>4 DEF HoldsInOrder, ForeignTyped, SessionsTyped, SessionMoves
<1>6. fup' \in BOOLEAN /\ fdead' \in BOOLEAN
  BY DEF HoldsInOrder, ForeignTyped
<1>7. QED  BY <1>5, <1>6, SessionsMove

\* The replacement that the open session of a registered Task asks for.
AsksFor(t, old, new) == Open(t) /\ ~renewal[t].acked /\ renewal[t].attempt = new /\ edge[t].hold = old

LEMMA ServeIs ==
    ASSUME HoldsInOrder, NEW t \in Foreign, NEW old \in Attempts, NEW new \in Attempts, old < new,
           edge[t].state = "registered" => <<t, old>> \in freleased \/ AsksFor(t, old, new),
           Serve(t, old, new)
    PROVE  /\ fhold' \in SUBSET (Foreign \X Attempts) /\ freleased' \in SUBSET (Foreign \X Attempts)
           /\ replaced' \in SUBSET (Foreign \X Attempts \X Attempts)
           /\ fhold' \cap freleased' = {} /\ \A r \in replaced' : <<r[1], r[2]>> \in freleased'
           /\ freleased \subseteq freleased' /\ replaced \subseteq replaced'
           /\ \A u \in Foreign : u # t => HoldsOf(u)' = HoldsOf(u)
           /\ edge[t].state = "registered" =>
                 \/ HoldsOf(t)' = HoldsOf(t)
                 \/ AsksFor(t, old, new) /\ HoldsOf(t)' = {<<t, new>>} /\ <<t, old, new>> \in replaced'
           /\ Verdict(t, old, new) = "replaced" => <<t, old, new>> \in replaced' /\ <<t, old>> \in freleased'
<1>1. /\ fhold \in SUBSET (Foreign \X Attempts) /\ freleased \in SUBSET (Foreign \X Attempts)
      /\ replaced \in SUBSET (Foreign \X Attempts \X Attempts)
      /\ fhold \cap freleased = {} /\ \A r \in replaced : <<r[1], r[2]>> \in freleased
  BY DEF HoldsInOrder, ForeignTyped, ReleasedForGood
<1>2. CASE Verdict(t, old, new) = "replaced" /\ <<t, old, new>> \notin replaced
  <2>1. /\ fhold' = (fhold \ {<<t, old>>}) \cup {<<t, new>>}
        /\ freleased' = freleased \cup {<<t, old>>} /\ replaced' = replaced \cup {<<t, old, new>>}
    BY <1>2 DEF Serve
  <2>2. <<t, old>> \in fhold /\ <<t, old>> \notin freleased /\ <<t, new>> \notin freleased
    BY <1>2 DEF Verdict
  <2>3. <<t, new>> # <<t, old>>
    <3>1. old \in Nat /\ new \in Nat
      BY Constants
    <3>2. QED  BY <3>1
  <2>4. fhold' \cap freleased' = {}
    BY <1>1, <2>1, <2>2, <2>3
  <2>5. ASSUME edge[t].state = "registered"
        PROVE  AsksFor(t, old, new) /\ HoldsOf(t)' = {<<t, new>>}
    <3>1. AsksFor(t, old, new)
      BY <2>2, <2>5
    <3>2. HoldsOf(t) = {<<t, old>>}
      <4>1. \/ HoldsOf(t) = {<<t, old>>}
            \/ <<t, old, new>> \in replaced
        BY <2>5, <3>1 DEF AsksFor, HoldsInOrder, OneHold
      <4>2. QED  BY <1>2, <4>1
    <3>3. HoldsOf(t)' = (HoldsOf(t) \ {<<t, old>>}) \cup {<<t, new>>}
      BY <2>1 DEF HoldsOf
    <3>4. QED  BY <3>1, <3>2, <3>3
  <2>6. \A u \in Foreign : u # t => HoldsOf(u)' = HoldsOf(u)
    BY <2>1 DEF HoldsOf
  <2>7. ASSUME NEW r \in replaced' PROVE <<r[1], r[2]>> \in freleased'
    <3>1. CASE r \in replaced
      BY <1>1, <2>1, <3>1
    <3>2. CASE r = <<t, old, new>>
      <4>1. r[1] = t /\ r[2] = old
        BY <3>2
      <4>2. QED  BY <2>1, <4>1
    <3>3. QED  BY <2>1, <3>1, <3>2
  <2>8. /\ fhold' \in SUBSET (Foreign \X Attempts) /\ freleased' \in SUBSET (Foreign \X Attempts)
        /\ replaced' \in SUBSET (Foreign \X Attempts \X Attempts)
    BY <1>1, <2>1
  <2>9. QED  BY <2>1, <2>4, <2>5, <2>6, <2>7, <2>8
<1>3. CASE ~(Verdict(t, old, new) = "replaced" /\ <<t, old, new>> \notin replaced)
  <2>1. fhold' = fhold /\ freleased' = freleased /\ replaced' = replaced
    BY <1>3 DEF Serve, holdVars
  <2>2. Verdict(t, old, new) = "replaced" => <<t, old, new>> \in replaced /\ <<t, old>> \in freleased
    BY <1>1, <1>3
  <2>3. \A u \in Foreign : HoldsOf(u)' = HoldsOf(u)
    BY <2>1 DEF HoldsOf
  <2>4. QED  BY <1>1, <2>1, <2>2, <2>3
<1>4. QED  BY <1>2, <1>3

\* F serves a request; its sender does not learn of it.
LEMMA ServeHolds ==
    ASSUME HoldsInOrder, GoneStays, NEW t \in Foreign, NEW old \in Attempts, NEW new \in Attempts, old < new,
           edge[t].state = "registered" => <<t, old>> \in freleased \/ AsksFor(t, old, new),
           Serve(t, old, new), UNCHANGED <<edge, renewal, fup, fdead>>, late' \subseteq late
    PROVE  HoldsInOrder'
<1>1. /\ fhold' \in SUBSET (Foreign \X Attempts) /\ freleased' \in SUBSET (Foreign \X Attempts)
      /\ replaced' \in SUBSET (Foreign \X Attempts \X Attempts)
      /\ fhold' \cap freleased' = {} /\ \A r \in replaced' : <<r[1], r[2]>> \in freleased'
      /\ freleased \subseteq freleased' /\ replaced \subseteq replaced'
      /\ \A u \in Foreign : u # t => HoldsOf(u)' = HoldsOf(u)
      /\ edge[t].state = "registered" =>
            \/ HoldsOf(t)' = HoldsOf(t)
            \/ AsksFor(t, old, new) /\ HoldsOf(t)' = {<<t, new>>} /\ <<t, old, new>> \in replaced'
  BY ServeIs
<1>2. ForeignTyped'
  BY <1>1 DEF HoldsInOrder, ForeignTyped
<1>3. EdgesOrdered'
  BY Constants DEF HoldsInOrder, EdgesOrdered, Open, GoneStays
<1>4. ReleasedForGood'
  BY <1>1 DEF HoldsInOrder, ReleasedForGood
<1>5. LateRequests'
  BY <1>1 DEF HoldsInOrder, LateRequests, Open
<1>6. OneHold'
  <2>1. SUFFICES ASSUME NEW u \in Foreign, edge[u].state = "registered"
                 PROVE  \/ HoldsOf(u)' = {<<u, edge[u].hold>>}
                        \/ /\ Open(u) /\ ~renewal[u].acked /\ HoldsOf(u)' = {<<u, renewal[u].attempt>>}
                           /\ <<u, edge[u].hold, renewal[u].attempt>> \in replaced'
    BY DEF OneHold, Open
  <2>2. \/ HoldsOf(u) = {<<u, edge[u].hold>>}
        \/ /\ Open(u) /\ ~renewal[u].acked /\ HoldsOf(u) = {<<u, renewal[u].attempt>>}
           /\ <<u, edge[u].hold, renewal[u].attempt>> \in replaced
    BY <2>1 DEF HoldsInOrder, OneHold
  <2>3. CASE HoldsOf(u)' = HoldsOf(u)
    BY <1>1, <2>2, <2>3
  <2>4. CASE u = t /\ AsksFor(t, old, new) /\ HoldsOf(t)' = {<<t, new>>} /\ <<t, old, new>> \in replaced'
    BY <2>4 DEF AsksFor
  <2>5. QED  BY <1>1, <2>1, <2>3, <2>4
<1>7. QED  BY <1>2, <1>3, <1>4, <1>5, <1>6 DEF HoldsInOrder

\* A request that was given up.
LEMMA LateHolds ==
    ASSUME HoldsInOrder, GoneStays, NEW t \in Foreign, NEW old \in Attempts, NEW new \in Attempts, old < new,
           AsksFor(t, old, new), late' = late \cup {<<t, old, new>>},
           UNCHANGED <<edge, renewal, holdVars, fup, fdead>>
    PROVE  HoldsInOrder'
<1>1. ForeignTyped'
  BY DEF HoldsInOrder, ForeignTyped, holdVars
<1>2. EdgesOrdered'
  BY Constants DEF HoldsInOrder, EdgesOrdered, Open, GoneStays
<1>3. ReleasedForGood'
  BY DEF HoldsInOrder, ReleasedForGood, holdVars
<1>4. LateRequests'
  BY DEF HoldsInOrder, LateRequests, Open, AsksFor, holdVars
<1>5. OneHold'
  BY DEF HoldsInOrder, OneHold, Open, HoldsOf, holdVars
<1>6. QED  BY <1>1, <1>2, <1>3, <1>4, <1>5 DEF HoldsInOrder

\* The session after an answer.
LEMMA AnsweredIs ==
    ASSUME ForeignTyped, NEW t \in Foreign, Open(t), NEW answer \in {"replaced", "busy", "rejected", "lost"},
           ReplaceAnswered(t, answer)
    PROVE  /\ SessionsTyped'
           /\ \A u \in Foreign : /\ renewal'[u].attempt = renewal[u].attempt
                                 /\ renewal'[u].driving = renewal[u].driving
                                 /\ u # t \/ answer # "replaced" => renewal'[u].acked = renewal[u].acked
                                 /\ u # t => renewal'[u] = renewal[u] /\ edge'[u] = edge[u]
           /\ answer # "replaced" => edge' = edge
           /\ answer = "replaced" => renewal'[t].acked /\ edge'[t].hold = renewal[t].attempt
           /\ edge' \in [Foreign -> Edges] /\ edge'[t].state = edge[t].state
<1> DEFINE s == renewal[t]
           new == CASE answer = "replaced" -> [s EXCEPT !.uncertain = FALSE, !.acked = TRUE, !.failed = FALSE]
                    [] answer = "busy" -> [s EXCEPT !.uncertain = FALSE]
                    [] answer = "rejected" -> [s EXCEPT !.uncertain = FALSE, !.failed = TRUE]
                    [] answer = "lost" -> s
<1>1. renewal' = [renewal EXCEPT ![t] = new]
      /\ edge' = IF answer = "replaced" THEN [edge EXCEPT ![t] = [edge[t] EXCEPT !.hold = s.attempt]] ELSE edge
  BY DEF ReplaceAnswered, Committed, ForeignTyped
<1>2. s \in Renewals /\ s.attempt # NoAttempt /\ s.attempt \in Attempts
  BY SessionIs DEF Open
<1>3. new \in Renewals /\ new.attempt = s.attempt /\ new.driving = s.driving
      /\ (answer # "replaced" => new.acked = s.acked) /\ (answer = "replaced" => new.acked)
  <2> HIDE DEF s
  <2>1. CASE answer = "replaced"
    BY <1>2, <2>1 DEF Renewals
  <2>2. CASE answer = "busy"
    BY <1>2, <2>2 DEF Renewals
  <2>3. CASE answer = "rejected"
    BY <1>2, <2>3 DEF Renewals
  <2>4. CASE answer = "lost"
    BY <1>2, <2>4
  <2>5. QED  BY <2>1, <2>2, <2>3, <2>4
<1> HIDE DEF new
<1>4. /\ renewal' \in [Foreign -> Renewals] /\ renewal'[t] = new
      /\ \A u \in Foreign : u # t => renewal'[u] = renewal[u]
  BY <1>1, <1>3 DEF ForeignTyped
<1>5. SessionsTyped'
  BY <1>2, <1>3, <1>4 DEF ForeignTyped, SessionsTyped
<1>6. /\ edge' \in [Foreign -> Edges] /\ edge'[t].state = edge[t].state
      /\ answer # "replaced" => edge' = edge
      /\ answer = "replaced" => edge'[t].hold = s.attempt
      /\ \A u \in Foreign : u # t => edge'[u] = edge[u]
  <2>1. edge \in [Foreign -> Edges]
    BY DEF ForeignTyped
  <2>2. [edge[t] EXCEPT !.hold = s.attempt] \in Edges
    BY <1>2, <2>1 DEF Edges
  <2>3. [edge[t] EXCEPT !.hold = s.attempt].hold = s.attempt /\ [edge[t] EXCEPT !.hold = s.attempt].state = edge[t].state
    BY <1>2, <2>1 DEF Edges
  <2>4. QED  BY <1>1, <2>1, <2>2, <2>3
<1>7. QED  BY <1>3, <1>4, <1>5, <1>6

\* F has replaced the hold, and the record names the new one.
LEMMA ReplacedHolds ==
    ASSUME HoldsInOrder, GoneStays, NEW t \in Foreign, NEW old \in Attempts, NEW new \in Attempts, old < new,
           edge[t].state = "registered", AsksFor(t, old, new), Serve(t, old, new),
           Verdict(t, old, new) = "replaced", ReplaceAnswered(t, "replaced"), UNCHANGED <<late, fup, fdead>>
    PROVE  HoldsInOrder'
<1>1. /\ fhold' \in SUBSET (Foreign \X Attempts) /\ freleased' \in SUBSET (Foreign \X Attempts)
      /\ replaced' \in SUBSET (Foreign \X Attempts \X Attempts)
      /\ fhold' \cap freleased' = {} /\ \A r \in replaced' : <<r[1], r[2]>> \in freleased'
      /\ freleased \subseteq freleased' /\ replaced \subseteq replaced'
      /\ \A u \in Foreign : u # t => HoldsOf(u)' = HoldsOf(u)
      /\ HoldsOf(t)' = HoldsOf(t) \/ HoldsOf(t)' = {<<t, new>>}
      /\ <<t, old, new>> \in replaced' /\ <<t, old>> \in freleased'
  BY ServeIs
<1>2. /\ SessionsTyped' /\ edge' \in [Foreign -> Edges]
      /\ \A u \in Foreign : u # t => renewal'[u] = renewal[u] /\ edge'[u] = edge[u]
      /\ renewal'[t].attempt = new /\ renewal'[t].acked /\ edge'[t].hold = new /\ edge'[t].state = "registered"
      /\ Open(t)
  <2>1. ForeignTyped /\ Open(t) /\ renewal[t].attempt = new
    BY DEF HoldsInOrder, AsksFor
  <2>2. QED  BY <2>1, AnsweredIs
<1>3. ForeignTyped'
  BY <1>1, <1>2 DEF HoldsInOrder, ForeignTyped, SessionsTyped
<1>4. EdgesOrdered'
  <2>1. SUFFICES ASSUME NEW u \in Foreign
                 PROVE  /\ edge'[u].state # "registered" => owner'[u].state = "GONE" /\ ~Open(u)'
                        /\ Open(u)' => IF renewal'[u].acked THEN edge'[u].hold = renewal'[u].attempt
                                                            ELSE edge'[u].hold < renewal'[u].attempt
    BY DEF EdgesOrdered
  <2>2. CASE u = t
    BY <1>2, <2>2
  <2>3. CASE u # t
    <3>1. renewal'[u] = renewal[u] /\ edge'[u] = edge[u]
      BY <1>2, <2>3
    <3>2. QED  BY <3>1, Constants DEF HoldsInOrder, EdgesOrdered, Open, GoneStays
  <2>4. QED  BY <2>2, <2>3
<1>5. ReleasedForGood'
  BY <1>1 DEF HoldsInOrder, ReleasedForGood
<1>6. LateRequests'
  <2>1. SUFFICES ASSUME NEW m \in late, edge'[m[1]].state = "registered"
                 PROVE  \/ <<m[1], m[2]>> \in freleased'
                        \/ Open(m[1])' /\ ~renewal'[m[1]].acked /\ renewal'[m[1]].attempt = m[3]
                           /\ edge'[m[1]].hold = m[2]
    BY DEF LateRequests
  <2>2. m[1] \in Foreign
    BY DEF HoldsInOrder, ForeignTyped
  <2>3. CASE m[1] = t
    <3>1. <<t, m[2]>> \in freleased \/ m[2] = old
      BY <2>3 DEF HoldsInOrder, LateRequests, AsksFor
    <3>2. QED  BY <1>1, <2>3, <3>1
  <2>4. CASE m[1] # t
    <3>1. renewal'[m[1]] = renewal[m[1]] /\ edge'[m[1]] = edge[m[1]]
      BY <1>2, <2>2, <2>4
    <3>2. QED  BY <1>1, <2>1, <3>1 DEF HoldsInOrder, LateRequests, Open
  <2>5. QED  BY <2>3, <2>4
<1>7. OneHold'
  <2>1. SUFFICES ASSUME NEW u \in Foreign, edge'[u].state = "registered"
                 PROVE  \/ HoldsOf(u)' = {<<u, edge'[u].hold>>}
                        \/ /\ Open(u)' /\ ~renewal'[u].acked /\ HoldsOf(u)' = {<<u, renewal'[u].attempt>>}
                           /\ <<u, edge'[u].hold, renewal'[u].attempt>> \in replaced'
    BY DEF OneHold
  <2>2. CASE u = t
    <3>1. HoldsOf(t) # {<<t, old>>} \/ HoldsOf(t)' = {<<t, new>>}
      <4>1. <<t, old>> \notin fhold'
        BY <1>1
      <4>2. <<t, old>> \notin HoldsOf(t)'
        BY <4>1 DEF HoldsOf
      <4>3. QED  BY <1>1, <4>2
    <3>2. HoldsOf(t) = {<<t, old>>} \/ HoldsOf(t) = {<<t, new>>}
      BY DEF HoldsInOrder, OneHold, AsksFor
    <3>3. HoldsOf(t)' = {<<t, new>>}
      BY <1>1, <3>1, <3>2
    <3>4. QED  BY <1>2, <2>2, <3>3
  <2>3. CASE u # t
    <3>1. renewal'[u] = renewal[u] /\ edge'[u] = edge[u] /\ HoldsOf(u)' = HoldsOf(u)
      BY <1>1, <1>2, <2>3
    <3>2. QED  BY <1>1, <2>1, <3>1 DEF HoldsInOrder, OneHold, Open
  <2>4. QED  BY <2>2, <2>3
<1>8. QED  BY <1>3, <1>4, <1>5, <1>6, <1>7 DEF HoldsInOrder

\* Any other answer changes nothing of the holds.
LEMMA AnsweredHolds ==
    ASSUME HoldsInOrder, GoneStays, NEW t \in Foreign, Open(t), NEW answer \in {"busy", "rejected", "lost"},
           ReplaceAnswered(t, answer), UNCHANGED <<holdVars, late, fup, fdead>>
    PROVE  HoldsInOrder'
<1>1. /\ SessionsTyped' /\ UNCHANGED edge
      /\ \A u \in Foreign : renewal'[u].attempt = renewal[u].attempt /\ renewal'[u].acked = renewal[u].acked
  BY AnsweredIs DEF HoldsInOrder
<1>2. fup' \in BOOLEAN /\ fdead' \in BOOLEAN
  BY DEF HoldsInOrder, ForeignTyped
<1>3. QED  BY <1>1, <1>2, SessionsMove DEF SessionMoves

\* The end of a lineage: the hold is fixed, and released.
LEMMA ClaimHolds ==
    ASSUME HoldsInOrder, GoneStays, NEW t \in Foreign, owner'[t].state = "GONE", Claim(t)
    PROVE  HoldsInOrder' /\ ~renewal[t].driving
           /\ \A u \in Foreign : u # t => renewal'[u] = renewal[u] /\ edge'[u] = edge[u]
           /\ edge'[t].state = "claimed"
<1>1. edge' = [edge EXCEPT ![t] = [edge[t] EXCEPT !.state = "claimed"]]
      /\ renewal' = [renewal EXCEPT ![t] = NoRenewal] /\ ~renewal[t].driving
      /\ UNCHANGED <<fhold, freleased, replaced, late, fup, fdead>>
  BY DEF Claim, Claimed, holdVars, HoldsInOrder, ForeignTyped
<1>2. NoRenewal \in Renewals /\ NoRenewal.attempt = NoAttempt
  BY DEF NoRenewal, Renewals, NoAttempt
<1>3. [edge[t] EXCEPT !.state = "claimed"] \in Edges /\ [edge[t] EXCEPT !.state = "claimed"].state = "claimed"
  BY DEF HoldsInOrder, ForeignTyped, Edges
<1>4. /\ edge' \in [Foreign -> Edges] /\ edge'[t].state = "claimed" /\ renewal' \in [Foreign -> Renewals]
      /\ renewal'[t] = NoRenewal
      /\ \A u \in Foreign : u # t => renewal'[u] = renewal[u] /\ edge'[u] = edge[u]
  BY <1>1, <1>2, <1>3 DEF HoldsInOrder, ForeignTyped
<1>5. ForeignTyped'
  BY <1>1, <1>2, <1>4 DEF HoldsInOrder, ForeignTyped
<1>6. EdgesOrdered'
  <2>1. SUFFICES ASSUME NEW u \in Foreign
                 PROVE  /\ edge'[u].state # "registered" => owner'[u].state = "GONE" /\ ~Open(u)'
                        /\ Open(u)' => IF renewal'[u].acked THEN edge'[u].hold = renewal'[u].attempt
                                                            ELSE edge'[u].hold < renewal'[u].attempt
    BY DEF EdgesOrdered
  <2>2. CASE u = t
    BY <1>2, <1>4, <2>2 DEF Open
  <2>3. CASE u # t
    BY <1>4, <2>3, Constants DEF HoldsInOrder, EdgesOrdered, Open, GoneStays
  <2>4. QED  BY <2>2, <2>3
<1>7. ReleasedForGood'
  BY <1>1 DEF HoldsInOrder, ReleasedForGood
<1>8. LateRequests'
  <2>1. SUFFICES ASSUME NEW m \in late, edge'[m[1]].state = "registered"
                 PROVE  \/ <<m[1], m[2]>> \in freleased
                        \/ Open(m[1])' /\ ~renewal'[m[1]].acked /\ renewal'[m[1]].attempt = m[3]
                           /\ edge'[m[1]].hold = m[2]
    BY <1>1 DEF LateRequests
  <2>2. m[1] \in Foreign /\ m[1] # t
    BY <1>4, <2>1 DEF HoldsInOrder, ForeignTyped
  <2>3. QED  BY <1>4, <2>1, <2>2 DEF HoldsInOrder, LateRequests, Open
<1>9. OneHold'
  <2>1. SUFFICES ASSUME NEW u \in Foreign, edge'[u].state = "registered"
                 PROVE  \/ HoldsOf(u) = {<<u, edge'[u].hold>>}
                        \/ /\ Open(u)' /\ ~renewal'[u].acked /\ HoldsOf(u) = {<<u, renewal'[u].attempt>>}
                           /\ <<u, edge'[u].hold, renewal'[u].attempt>> \in replaced
    BY <1>1 DEF OneHold, HoldsOf
  <2>2. u # t
    BY <1>4, <2>1
  <2>3. QED  BY <1>4, <2>1, <2>2 DEF HoldsInOrder, OneHold, Open
<1>10. QED  BY <1>1, <1>4, <1>5, <1>6, <1>7, <1>8, <1>9 DEF HoldsInOrder

LEMMA ReleaseHolds ==
    ASSUME HoldsInOrder, GoneStays, NEW t \in Foreign, ReleaseEdge(t)
    PROVE  HoldsInOrder' /\ edge[t].state = "claimed" /\ renewal' = renewal
           /\ \A u \in Foreign : u # t => edge'[u] = edge[u]
<1> DEFINE h == <<t, edge[t].hold>>
<1>1. /\ edge[t].state = "claimed"
      /\ edge' = [edge EXCEPT ![t] = [edge[t] EXCEPT !.state = "done"]] \/ edge' = edge
      /\ \/ fhold' = fhold \ {h} /\ freleased' = freleased \cup {h}
         \/ fhold' = fhold /\ freleased' = freleased
      /\ UNCHANGED <<renewal, replaced, late, fup, fdead>>
  BY DEF ReleaseEdge, HoldsInOrder, ForeignTyped
<1>2. /\ edge' \in [Foreign -> Edges] /\ edge'[t].state # "registered"
      /\ \A u \in Foreign : u # t => edge'[u] = edge[u]
  <2>1. [edge[t] EXCEPT !.state = "done"] \in Edges /\ [edge[t] EXCEPT !.state = "done"].state = "done"
    BY DEF HoldsInOrder, ForeignTyped, Edges
  <2>2. QED  BY <1>1, <2>1 DEF HoldsInOrder, ForeignTyped
<1>3. h \in Foreign \X Attempts
  BY DEF HoldsInOrder, ForeignTyped, Edges
<1>4. ForeignTyped'
  BY <1>1, <1>2, <1>3 DEF HoldsInOrder, ForeignTyped
<1>5. EdgesOrdered'
  <2>1. SUFFICES ASSUME NEW u \in Foreign
                 PROVE  /\ edge'[u].state # "registered" => owner'[u].state = "GONE" /\ ~Open(u)
                        /\ Open(u) => IF renewal[u].acked THEN edge'[u].hold = renewal[u].attempt
                                                          ELSE edge'[u].hold < renewal[u].attempt
    BY <1>1 DEF EdgesOrdered, Open
  <2>2. CASE u = t
    BY <1>1, <2>2, Constants DEF HoldsInOrder, EdgesOrdered, GoneStays
  <2>3. CASE u # t
    BY <1>2, <2>3, Constants DEF HoldsInOrder, EdgesOrdered, GoneStays
  <2>4. QED  BY <2>2, <2>3
<1>6. ReleasedForGood'
  BY <1>1 DEF HoldsInOrder, ReleasedForGood
<1>7. LateRequests'
  <2>1. SUFFICES ASSUME NEW m \in late, edge'[m[1]].state = "registered"
                 PROVE  \/ <<m[1], m[2]>> \in freleased
                        \/ Open(m[1]) /\ ~renewal[m[1]].acked /\ renewal[m[1]].attempt = m[3]
                           /\ edge'[m[1]].hold = m[2]
    BY <1>1 DEF LateRequests, Open
  <2>2. m[1] \in Foreign /\ m[1] # t
    BY <1>2, <2>1 DEF HoldsInOrder, ForeignTyped
  <2>3. QED  BY <1>2, <2>1, <2>2 DEF HoldsInOrder, LateRequests
<1>8. OneHold'
  <2>1. SUFFICES ASSUME NEW u \in Foreign, edge'[u].state = "registered"
                 PROVE  \/ HoldsOf(u)' = {<<u, edge'[u].hold>>}
                        \/ /\ Open(u) /\ ~renewal[u].acked /\ HoldsOf(u)' = {<<u, renewal[u].attempt>>}
                           /\ <<u, edge'[u].hold, renewal[u].attempt>> \in replaced
    BY <1>1 DEF OneHold, Open
  <2>2. u # t
    BY <1>2, <2>1
  <2>3. HoldsOf(u)' = HoldsOf(u)
    BY <1>1, <2>2 DEF HoldsOf
  <2>4. QED  BY <1>2, <2>1, <2>2, <2>3 DEF HoldsInOrder, OneHold
<1>9. QED  BY <1>1, <1>2, <1>4, <1>5, <1>6, <1>7, <1>8 DEF HoldsInOrder

\* The task of a thread that waits, and its session.
LEMMA WaitingIs ==
    ASSUME Typed, Passes, HoldsInOrder, NEW g \in Getters, getter[g].pc \in Waiting
    PROVE  /\ Driving(g) \in Foreign /\ Driving(g) \in Tasks /\ Driving(g) \in Undriven(g)
           /\ Open(Driving(g)) /\ renewal[Driving(g)].driving
           /\ edge[Driving(g)].state = "registered"
           /\ renewal[Driving(g)].attempt = Plan(g)[Driving(g)] /\ Plan(g)[Driving(g)] \in Attempts
           /\ edge[Driving(g)].hold \in Attempts
           /\ getter[g].pc = "replace" =>
                 /\ AsksFor(Driving(g), edge[Driving(g)].hold, Plan(g)[Driving(g)])
                 /\ edge[Driving(g)].hold < Plan(g)[Driving(g)]
<1> DEFINE t == Driving(g)
<1>1. t \in Planned(g) \cap Foreign /\ t \in Undriven(g) /\ t \in Tasks
  BY DrivingIs, Constants DEF Passes
<1>2. renewal[t].driving /\ renewal[t].attempt = Plan(g)[t] /\ (getter[g].pc = "replace" => ~renewal[t].acked)
  BY DEF Passes
<1>3. Plan(g)[t] \in Attempts
  BY <1>1, GetIs DEF Typed
<1>4. Open(t)
  BY <1>2, <1>3, Constants DEF Open
<1>5. edge[t].state = "registered" /\ (~renewal[t].acked => edge[t].hold < renewal[t].attempt)
  BY <1>1, <1>4 DEF HoldsInOrder, EdgesOrdered
<1>6. edge[t].hold \in Attempts
  BY <1>1, SessionIs DEF HoldsInOrder
<1>7. QED  BY <1>1, <1>2, <1>3, <1>4, <1>5, <1>6 DEF AsksFor

LEMMA ReplaceHolds ==
    ASSUME Typed, Passes, HoldsInOrder, GoneStays, NEW g \in Getters, Replace(g)
    PROVE  /\ HoldsInOrder'
           /\ \A u \in Foreign : /\ renewal'[u].attempt = renewal[u].attempt
                                 /\ renewal'[u].driving = renewal[u].driving
                                 /\ u # Driving(g) => renewal'[u] = renewal[u] /\ edge'[u] = edge[u]
                                 /\ edge'[u].state = edge[u].state
<1> DEFINE t == Driving(g)
           old == edge[t].hold
           new == Plan(g)[t]
           v == Verdict(t, old, new)
<1>1. At(g, "replace") /\ UNCHANGED <<fup, fdead>>
  BY DEF Replace
<1>2. /\ t \in Foreign /\ Open(t) /\ edge[t].state = "registered"
      /\ old \in Attempts /\ new \in Attempts /\ old < new /\ AsksFor(t, old, new)
  BY <1>1, WaitingIs DEF At, Waiting
<1>3. v \in {"replaced", "busy", "rejected"}
  BY DEF Verdict
<1>4. \/ Serve(t, old, new) /\ ReplaceAnswered(t, v) /\ UNCHANGED late
      \/ Serve(t, old, new) /\ ReplaceAnswered(t, "lost") /\ UNCHANGED late
      \/ late' = late \cup {<<t, old, new>>} /\ ReplaceAnswered(t, "lost") /\ UNCHANGED holdVars
      \/ \E answer \in {"rejected", "lost"} : ReplaceAnswered(t, answer) /\ UNCHANGED <<holdVars, late>>
  BY DEF Replace
<1> HIDE DEF t, old, new, v
<1>5. \E answer \in {"replaced", "busy", "rejected", "lost"} : ReplaceAnswered(t, answer)
  BY <1>3, <1>4
<1>6. \A u \in Foreign : /\ renewal'[u].attempt = renewal[u].attempt
                         /\ renewal'[u].driving = renewal[u].driving
                         /\ u # t => renewal'[u] = renewal[u] /\ edge'[u] = edge[u]
                         /\ edge'[u].state = edge[u].state
  <2>1. ForeignTyped
    BY DEF HoldsInOrder
  <2>2. QED  BY <1>2, <1>5, <2>1, AnsweredIs
<1>7. CASE Serve(t, old, new) /\ ReplaceAnswered(t, v) /\ UNCHANGED late
  <2>1. CASE v = "replaced"
    BY <1>1, <1>2, <1>6, <1>7, <2>1, ReplacedHolds DEF t, v
  <2>2. CASE v # "replaced"
    <3>1. UNCHANGED holdVars
      BY <1>7, <2>2 DEF Serve, v
    <3>2. HoldsInOrder'
      BY <1>1, <1>2, <1>3, <1>7, <2>2, <3>1, AnsweredHolds
    <3>3. QED  BY <1>6, <3>2 DEF t
  <2>3. QED  BY <2>1, <2>2
<1>8. CASE ReplaceAnswered(t, "lost") /\ \/ Serve(t, old, new) /\ UNCHANGED late
                                         \/ late' = late \cup {<<t, old, new>>} /\ UNCHANGED holdVars
  <2>1. renewal' = renewal /\ edge' = edge
    BY <1>8 DEF ReplaceAnswered, HoldsInOrder, ForeignTyped
  <2>2. HoldsInOrder'
    BY <1>1, <1>2, <1>8, <2>1, ServeHolds, LateHolds
  <2>3. QED  BY <1>6, <2>2 DEF t
<1>9. CASE \E answer \in {"rejected", "lost"} : ReplaceAnswered(t, answer) /\ UNCHANGED <<holdVars, late>>
  <2>1. HoldsInOrder'
    BY <1>1, <1>2, <1>9, AnsweredHolds
  <2>2. QED  BY <1>6, <2>1 DEF t
<1>10. QED  BY <1>4, <1>7, <1>8, <1>9

\* What the steps of a getter that neither drives nor commits leave as it is.
HoldersQuiet == UNCHANGED <<edge, renewal, holdVars, late, fup, fdead>>

\* The step of a thread that begins a pass over a Task.
BeginsPass(g) == Drive(g) /\ ~NoPass(g)
EndsPass(g) == ConcludeDrive(g) \/ QueryInput(g)

LEMMA GetterQuiet ==
    ASSUME Typed, Passes, NEW g \in Getters, Get(g) \/ Thread(g) \/ GiveUp(g) \/ Drop(g),
           ~BeginsPass(g), ~Replace(g), ~EndsPass(g)
    PROVE  HoldersQuiet \/ (Commit(g) /\ Startable(Plan(g)) /\ Start(Plan(g)) /\ Completed(g) /\ AllRenewed(g)
                            /\ UNCHANGED <<edge, holdVars, late, fup, fdead>>)
<1>1. CASE Commit(g)
  <2>1. UNCHANGED <<edge, holdVars, late, fup, fdead>>
    BY <1>1 DEF Commit
  <2>2. QED  BY <1>1, <2>1, CommitIs DEF HoldersQuiet
<1>2. CASE Drive(g)
  <2>1. UNCHANGED renewal /\ UNCHANGED <<edge, holdVars, late, fup, fdead>>
    BY <1>2, DriveMoves DEF Drive, BeginsPass, NoPass
  <2>2. QED  BY <2>1 DEF HoldersQuiet
<1>3. CASE Get(g) \/ Poll(g) \/ PollRemote(g) \/ HandleReconstruction(g) \/ Preflight(g) \/ Check(g) \/ Retire(g) \/ Retired(g)
           \/ GiveUp(g) \/ Drop(g)
  BY <1>3 DEF Get, Poll, PollRemote, HandleReconstruction, Preflight, Check, Retire, Retired, GiveUp, Drop,
              HoldersQuiet, foreignVars, localVars
<1>4. QED  BY <1>1, <1>2, <1>3 DEF Thread, EndsPass

\* The step of a thread that begins a pass, with all that is known of it.
LEMMA BeginsIs ==
    ASSUME Typed, Passes, HoldsInOrder, GoneStays, NEW g \in Getters, BeginsPass(g)
    PROVE  LET t == Driving(g)
               a == Plan(g)[t]
           IN /\ OnlyMoves(g) /\ SamePass(g) /\ getter'[g].pc \in Waiting
              /\ getter'[g].pc = "replace" => ~renewal'[t].acked
              /\ t \in Foreign /\ t \in Undriven(g) /\ a \in Attempts
              /\ UNCHANGED <<edge, jobs>>
              /\ HoldsInOrder' /\ ~renewal[t].driving
              /\ renewal'[t].driving /\ renewal'[t].attempt = a
              /\ \A u \in Foreign : u # t => renewal'[u] = renewal[u]
              /\ Open(t) => renewal'[t].acked = renewal[t].acked
              /\ ~Open(t) => edge[t].hold <= a /\ (renewal'[t].acked <=> edge[t].hold = a)
<1> DEFINE t == Driving(g)
           a == Plan(g)[t]
<1>1. Undriven(g) # {} /\ UNCHANGED <<edge, holdVars, late, fup, fdead, jobs>>
  BY DEF BeginsPass, Drive, jobVars
<1>2. t \in Undriven(g) /\ t \in Planned(g) /\ t \in Foreign /\ Registered(t)
  BY <1>1, DrivingIs DEF Undriven
<1>3. a \in Attempts
  BY <1>2, GetIs DEF Typed
<1>4. /\ OnlyMoves(g) /\ SamePass(g) /\ getter'[g].pc \in {"replace", "query", "conclude"}
      /\ getter'[g].pc = "replace" => Asks(t, a)
      /\ BeginDrive(t, a) /\ ~Refused(t, a) /\ ~Driven(t, a)
  BY DriveMoves DEF BeginsPass
<1>5. /\ HoldsInOrder' /\ ~renewal[t].driving
      /\ renewal'[t].driving /\ renewal'[t].attempt = a
      /\ Asks(t, a) => ~renewal'[t].acked
      /\ \A u \in Foreign : u # t => renewal'[u] = renewal[u]
      /\ Open(t) => renewal'[t].acked = renewal[t].acked
      /\ ~Open(t) => edge[t].hold <= a /\ (renewal'[t].acked <=> edge[t].hold = a)
  BY <1>1, <1>2, <1>3, <1>4, BeginHolds
<1>6. QED  BY <1>1, <1>2, <1>3, <1>4, <1>5 DEF Waiting

LEMMA EndsIsPass ==
    ASSUME Typed, Passes, HoldsInOrder, GoneStays, NEW g \in Getters, EndsPass(g)
    PROVE  /\ OnlyMoves(g) /\ getter[g].pc \in Waiting
           /\ \/ NoPass(g)
              \/ getter'[g].plan = getter[g].plan /\ getter'[g].pc = "drive"
           /\ HoldsInOrder' /\ UNCHANGED <<edge, jobs>>
           /\ \A u \in Foreign : renewal'[u].attempt = renewal[u].attempt /\ renewal'[u].acked = renewal[u].acked
                                 /\ (u # Driving(g) => renewal'[u] = renewal[u])
<1>1. getter[g].pc \in Waiting /\ UNCHANGED <<edge, holdVars, late, fup, fdead, jobs>>
  BY DEF EndsPass, ConcludeDrive, QueryInput, At, Waiting, jobVars
<1>2. Driving(g) \in Foreign /\ Driving(g) \in Tasks /\ Open(Driving(g))
  BY <1>1, WaitingIs
<1>3. PICK found \in {"none", "failed", "waiting", "found"} : Concluded(g, found)
  BY DEF EndsPass, ConcludeDrive, QueryInput, Query
<1>4. /\ OnlyMoves(g) /\ EndDrive(Driving(g), found)
      /\ \/ NoPass(g)
         \/ getter'[g].plan = getter[g].plan /\ getter'[g].pc = "drive"
  BY <1>2, <1>3, ConcludedMoves DEF Typed
<1>5. QED  BY <1>1, <1>2, <1>4, ConcludeHolds

LEMMA GoneForGood ==
    ASSUME Typed, Passes, Records, RecoveryNext
    PROVE  GoneStays
<1>1. CASE RecordsKept
  BY <1>1 DEF RecordsKept, GoneStays
<1>2. CASE CommitsPlan
  <2>1. PICK g \in Getters : Commit(g) /\ Startable(Plan(g)) /\ Start(Plan(g))
    BY <1>2 DEF CommitsPlan
  <2>2. \A t \in Tasks : t \in DOMAIN Plan(g) \/ owner'[t] = owner[t]
    BY <2>1, CommitIs, StartIs
  <2>3. \A t \in DOMAIN Plan(g) : owner[t].state = "LOST"
    BY <2>1 DEF Startable
  <2>4. QED  BY <2>2, <2>3 DEF GoneStays
<1>3. QED  BY <1>1, <1>2, RecordsStep

\* The steps of F, and of the collection of foreign lineages.
LEMMA ForeignHolds ==
    ASSUME HoldsInOrder, GoneStays, ForeignStep \/ \E t \in Foreign : ForeignCollect(t)
    PROVE  HoldsInOrder'
<1>1. ASSUME NEW t \in Foreign, ForeignCollect(t) PROVE HoldsInOrder'
  <2>1. owner'[t].state = "GONE"
    BY <1>1 DEF ForeignCollect
  <2>2. QED  BY <1>1, <2>1, ClaimHolds, ReleaseHolds DEF ForeignCollect
<1>2. ASSUME NEW m \in late, LateReplace(m) \/ LateLost(m) PROVE HoldsInOrder'
  <2>1. /\ m[1] \in Foreign /\ m[2] \in Attempts /\ m[3] \in Attempts /\ m[2] < m[3]
        /\ edge[m[1]].state = "registered" => <<m[1], m[2]>> \in freleased \/ AsksFor(m[1], m[2], m[3])
    BY DEF HoldsInOrder, ForeignTyped, ReleasedForGood, LateRequests, AsksFor
  <2>2. CASE LateReplace(m)
    <3>1. Serve(m[1], m[2], m[3]) /\ UNCHANGED <<edge, renewal, fup, fdead>> /\ late' \subseteq late
      BY <2>2 DEF LateReplace, localVars
    <3>2. QED  BY <2>1, <3>1, ServeHolds
  <2>3. CASE LateLost(m)
    <3>1. /\ UNCHANGED <<edge, holdVars, renewal>> /\ late' \subseteq late
          /\ fup' \in BOOLEAN /\ fdead' \in BOOLEAN
      BY <2>3 DEF LateLost, localVars, HoldsInOrder, ForeignTyped
    <3>2. SessionsTyped' /\ \A t \in Foreign : SessionMoves(t)
      BY <3>1 DEF HoldsInOrder, ForeignTyped, SessionsTyped, SessionMoves
    <3>3. QED  BY <3>1, <3>2, SessionsMove
  <2>4. QED  BY <1>2, <2>2, <2>3
<1>3. ASSUME (\E t \in Foreign : LoseForeign(t) \/ ProduceForeign(t)) \/ ForeignExit
      PROVE  HoldsInOrder'
  <2>1. UNCHANGED <<edge, renewal, holdVars, late>> /\ fup' \in BOOLEAN /\ fdead' \in BOOLEAN
    BY <1>3 DEF LoseForeign, ProduceForeign, ForeignExit, localVars, HoldsInOrder, ForeignTyped
  <2>2. QED  BY <2>1, QuietHolds
<1>4. QED  BY <1>1, <1>2, <1>3, DeathHolds DEF ForeignStep

LEMMA HoldsStep ==
    ASSUME Typed, Passes, Records, HoldsInOrder, RecoveryNext
    PROVE  HoldsInOrder'
<1>0. GoneStays
  BY GoneForGood
<1>1. ASSUME HoldersQuiet PROVE HoldsInOrder'
  <2>1. fup' \in BOOLEAN /\ fdead' \in BOOLEAN
    BY <1>1 DEF HoldersQuiet, HoldsInOrder, ForeignTyped
  <2>2. QED  BY <1>0, <1>1, <2>1, QuietHolds DEF HoldersQuiet
<1>2. ASSUME NEW g \in Getters, Get(g) \/ Thread(g) \/ GiveUp(g) \/ Drop(g)
      PROVE  HoldsInOrder'
  <2>1. CASE BeginsPass(g)
    BY <1>0, <2>1, BeginsIs
  <2>2. CASE Replace(g)
    BY <1>0, <2>2, ReplaceHolds
  <2>3. CASE EndsPass(g)
    BY <1>0, <2>3, EndsIsPass
  <2>4. CASE ~BeginsPass(g) /\ ~Replace(g) /\ ~EndsPass(g)
    BY <1>0, <1>1, <1>2, <2>4, GetterQuiet, CompletedHolds
  <2>5. QED  BY <2>1, <2>2, <2>3, <2>4
<1>3. CASE \/ \E t \in Tasks : CoordinatorRetire(t) \/ Lose(t) \/ BeginCollect(t) \/ FinishCollect(t)
           \/ \E j \in jobs : Admit(j) \/ Succeed(j) \/ AppError(j) \/ SystemFailure(j) \/ Finish(j)
           \/ \E b \in borrow : BorrowEnds(b)
  <2>1. HoldersQuiet
    BY <1>3 DEF CoordinatorRetire, Lose, BeginCollect, FinishCollect, Admit, Succeed, AppError, SystemFailure,
                Finish, BorrowEnds, HoldersQuiet, foreignVars, localVars
  <2>2. QED  BY <1>1, <2>1
<1>4. QED  BY <1>0, <1>2, <1>3, ForeignHolds DEF RecoveryNext

-----------------------------------------------------------------------------
(* The executions and the foreign holds *)

\* Every step's part in the record and the session of a Task whose execution is active.
LEMMA ForeignJobsStep ==
    ASSUME Typed, Passes, AllDriven, Records, PlansInTime, HoldsInOrder, ForeignJobs, RecoveryNext
    PROVE  ForeignJobs'
<1>0. GoneStays
  BY GoneForGood
<1> DEFINE Keeps == \A k \in jobs : k.pc # "ended" /\ k.task \in Foreign =>
                       /\ edge'[k.task].hold = edge[k.task].hold
                       /\ Open(k.task)' => renewal'[k.task].acked
<1>1. ASSUME RecordsKept, Keeps PROVE ForeignJobs'
  <2>1. SUFFICES ASSUME NEW i \in jobs', i.pc # "ended"
                 PROVE  IF i.task \in Foreign
                        THEN /\ i.fhold = i.hold /\ edge'[i.task].hold = i.hold
                             /\ Open(i.task)' => renewal'[i.task].acked
                        ELSE i.fhold = NoAttempt
    BY DEF ForeignJobs
  <2>2. PICK k \in jobs : k.pc # "ended" /\ k.task = i.task /\ k.hold = i.hold /\ k.fhold = i.fhold
    BY <1>1, <2>1 DEF RecordsKept, Carried
  <2>3. QED  BY <1>1, <2>2 DEF ForeignJobs
<1>2. \A k \in jobs : k.pc # "ended" => k.task \in Tasks /\ owner[k.task].state = "PENDING"
  BY JobIs
<1>3. ASSUME \A t \in Foreign : edge'[t].hold = edge[t].hold,
             \A t \in Foreign : renewal'[t].acked = renewal[t].acked /\ renewal'[t].attempt = renewal[t].attempt
      PROVE  Keeps
  BY <1>3 DEF ForeignJobs, Open
<1>4. ASSUME NEW g \in Getters, BeginsPass(g) PROVE Keeps
  <2> DEFINE t == Driving(g)
             a == Plan(g)[t]
  <2>1. /\ t \in Foreign /\ t \in Planned(g) /\ a \in Attempts /\ UNCHANGED edge
        /\ \A u \in Foreign : u # t => renewal'[u] = renewal[u]
        /\ Open(t) => renewal'[t].acked = renewal[t].acked
        /\ ~Open(t) => edge[t].hold <= a /\ (renewal'[t].acked <=> edge[t].hold = a)
    BY <1>0, <1>4, BeginsIs, DrivingIs
  <2> HIDE DEF t, a
  <2>2. SUFFICES ASSUME NEW k \in jobs, k.pc # "ended", k.task \in Foreign
                 PROVE  Open(k.task)' => renewal'[k.task].acked
    BY <2>1
  <2>3. edge[k.task].hold = k.hold /\ (Open(k.task) => renewal[k.task].acked)
    BY <2>2 DEF ForeignJobs
  <2>4. CASE k.task # t
    BY <2>1, <2>2, <2>3, <2>4 DEF Open
  <2>5. CASE k.task = t /\ Open(t)
    BY <2>1, <2>3, <2>5
  <2>6. CASE k.task = t /\ ~Open(t)
    <3>1. a <= k.hold
      BY <2>1, <2>2, <2>6 DEF PlansInTime, a, t
    <3>2. a \in Nat /\ k.hold \in Nat
      <4>1. a \in Attempts /\ k.hold \in Attempts
        BY <2>1, <2>2, JobIs
      <4>2. QED  BY <4>1, Constants
    <3>3. QED  BY <2>1, <2>3, <2>6, <3>1, <3>2
  <2>7. QED  BY <2>4, <2>5, <2>6
<1>5. ASSUME NEW g \in Getters, Replace(g) PROVE Keeps
  <2>1. /\ Open(Driving(g)) /\ ~renewal[Driving(g)].acked
    BY <1>5, WaitingIs DEF Replace, At, Waiting, AsksFor
  <2>2. \A u \in Foreign : u # Driving(g) => renewal'[u] = renewal[u] /\ edge'[u] = edge[u]
    BY <1>0, <1>5, ReplaceHolds
  <2>3. \A k \in jobs : k.pc # "ended" /\ k.task \in Foreign => k.task # Driving(g)
    BY <2>1 DEF ForeignJobs
  <2>4. QED  BY <2>2, <2>3 DEF ForeignJobs, Open
<1>6. ASSUME NEW g \in Getters, EndsPass(g) PROVE Keeps
  BY <1>0, <1>3, <1>6, EndsIsPass
<1>7. ASSUME HoldersQuiet PROVE Keeps
  BY <1>3, <1>7 DEF HoldersQuiet
<1>8. ASSUME NEW t \in Foreign, ForeignCollect(t) PROVE Keeps
  <2>1. owner[t].state = "GONE"
    BY <1>8 DEF ForeignCollect
  <2>2. \A u \in Foreign : u # t => renewal'[u] = renewal[u] /\ edge'[u] = edge[u]
    <3>1. owner'[t].state = "GONE" /\ (Claim(t) \/ ReleaseEdge(t))
      BY <1>8 DEF ForeignCollect
    <3>2. QED  BY <1>0, <3>1, ClaimHolds, ReleaseHolds
  <2>3. \A k \in jobs : k.pc # "ended" /\ k.task \in Foreign => k.task # t
    BY <1>2, <2>1
  <2>4. QED  BY <2>2, <2>3 DEF ForeignJobs, Open
<1>9. ASSUME ForeignStep PROVE Keeps
  <2>1. CASE DeathLearned
    <3>1. UNCHANGED edge
      BY <2>1 DEF DeathLearned
    <3>2. QED  BY <1>0, <1>3, <2>1, <3>1, DeathHolds
  <2>2. CASE ~DeathLearned
    <3>1. UNCHANGED <<edge, renewal>>
      BY <1>9, <2>2 DEF ForeignStep, LateReplace, LateLost, LoseForeign, ProduceForeign, ForeignExit, localVars
    <3>2. QED  BY <1>3, <3>1
  <2>3. QED  BY <2>1, <2>2
<1>10. CASE CommitsPlan
  <2>1. PICK g \in Getters : /\ Commit(g) /\ Startable(Plan(g)) /\ Start(Plan(g)) /\ Completed(g) /\ AllRenewed(g)
    BY <1>10 DEF CommitsPlan
  <2>2. UNCHANGED <<edge, coll>> /\ getter[g].pc = "retire"
    BY <2>1, CommitIs
  <2>3. \A t \in Foreign : renewal'[t] = IF t \in getter[g].driven THEN NoRenewal ELSE renewal[t]
    BY <2>1 DEF Completed
  <2>4. SUFFICES ASSUME NEW i \in jobs', i.pc # "ended"
                 PROVE  IF i.task \in Foreign
                        THEN /\ i.fhold = i.hold /\ edge[i.task].hold = i.hold
                             /\ Open(i.task)' => renewal'[i.task].acked
                        ELSE i.fhold = NoAttempt
    BY <2>2 DEF ForeignJobs
  <2>5. \/ i \in jobs /\ i.task \notin DOMAIN Plan(g)
        \/ i.task \in DOMAIN Plan(g) /\ i = Job(i.task, Plan(g)[i.task])
    BY <2>1, <2>2, StartIs
  <2>6. CASE i \in jobs
    <3>1. IF i.task \in Foreign
          THEN /\ i.fhold = i.hold /\ edge[i.task].hold = i.hold
               /\ Open(i.task) => renewal[i.task].acked
          ELSE i.fhold = NoAttempt
      BY <2>4, <2>6 DEF ForeignJobs
    <3>2. NoRenewal.attempt = NoAttempt
      BY DEF NoRenewal, NoAttempt
    <3>3. QED  BY <2>3, <3>1, <3>2 DEF Open
  <2>7. CASE i.task \in DOMAIN Plan(g) /\ i = Job(i.task, Plan(g)[i.task])
    <3> DEFINE t == i.task
               a == Plan(g)[t]
    <3>1. t \in Planned(g) /\ owner[t].state = "LOST"
      BY <2>1, <2>7 DEF Startable, Planned
    <3>2. i.hold = a /\ i.fhold = IF Registered(t) THEN edge[t].hold ELSE NoAttempt
      BY <2>7 DEF Job
    <3>3. CASE t \in Foreign
      <4>1. edge[t].state = "registered"
        BY <3>1, <3>3 DEF HoldsInOrder, EdgesOrdered
      <4>2. Registered(t)
        BY <3>3, <4>1 DEF Registered
      <4>3. t \in getter[g].driven
        BY <2>2, <3>1, <4>2 DEF AllDriven, Undriven
      <4>4. renewal[t].attempt = a /\ renewal[t].acked
        BY <2>1, <4>3 DEF AllRenewed, Renewed
      <4>5. a # NoAttempt
        BY <3>1, GetIs, Constants DEF Typed
      <4>6. edge[t].hold = a
        BY <3>3, <4>4, <4>5 DEF HoldsInOrder, EdgesOrdered, Open
      <4>7. ~Open(t)'
        BY <2>3, <3>3, <4>3 DEF Open, NoRenewal, NoAttempt
      <4>8. QED  BY <3>2, <3>3, <4>2, <4>6, <4>7
    <3>4. CASE t \notin Foreign
      BY <3>2, <3>4 DEF Registered
    <3>5. QED  BY <3>3, <3>4
  <2>8. QED  BY <2>5, <2>6, <2>7
<1>11. CASE ~CommitsPlan
  <2>1. RecordsKept
    BY <1>11, RecordsStep
  <2>2. Keeps
    <3>1. ASSUME NEW g \in Getters, Get(g) \/ Thread(g) \/ GiveUp(g) \/ Drop(g) PROVE Keeps
      <4>1. CASE ~BeginsPass(g) /\ ~Replace(g) /\ ~EndsPass(g)
        BY <1>7, <1>11, <3>1, <4>1, GetterQuiet DEF CommitsPlan
      <4>2. QED  BY <1>4, <1>5, <1>6, <4>1
    <3>2. CASE \/ \E t \in Tasks : CoordinatorRetire(t) \/ Lose(t) \/ BeginCollect(t) \/ FinishCollect(t)
               \/ \E j \in jobs : Admit(j) \/ Succeed(j) \/ AppError(j) \/ SystemFailure(j) \/ Finish(j)
               \/ \E b \in borrow : BorrowEnds(b)
      <4>1. HoldersQuiet
        BY <3>2 DEF CoordinatorRetire, Lose, BeginCollect, FinishCollect, Admit, Succeed, AppError,
                    SystemFailure, Finish, BorrowEnds, HoldersQuiet, foreignVars, localVars
      <4>2. QED  BY <1>7, <4>1
    <3> HIDE DEF Keeps
    <3>3. QED  BY <1>8, <1>9, <3>1, <3>2 DEF RecoveryNext
  <2>3. QED  BY <1>1, <2>1, <2>2
<1>12. QED  BY <1>10, <1>11

-----------------------------------------------------------------------------
(* The passes of the threads *)

\* The least Task of a set stays the least of a part of it.
LEMMA LeastStays ==
    ASSUME NEW S \in SUBSET Tasks, NEW T \in SUBSET S, S # {}, Min(S) \in T
    PROVE  Min(T) = Min(S)
<1>1. Min(S) \in S /\ \A k \in S : Min(S) <= k
  BY LeastTask
<1>2. Min(T) \in T /\ \A k \in T : Min(T) <= k
  BY LeastTask
<1>3. Min(T) <= Min(S) /\ Min(S) <= Min(T)
  BY <1>1, <1>2
<1>4. Min(T) \in Nat /\ Min(S) \in Nat
  BY <1>1, <1>2, Constants
<1>5. QED  BY <1>3, <1>4

\* A record that is done stays so.
DoneStays == \A t \in Foreign : edge[t].state = "done" => edge'[t].state = "done"

LEMMA UndrivenKept ==
    ASSUME DoneStays, NEW g \in Getters, SamePass(g)
    PROVE  Undriven(g)' \subseteq Undriven(g)
  BY DEF DoneStays, SamePass, Undriven, Registered, Planned, Plan

\* What Passes says of one thread that waits.
Waits(g) ==
    /\ Undriven(g) # {}
    /\ renewal[Driving(g)].driving /\ renewal[Driving(g)].attempt = Plan(g)[Driving(g)]
    /\ getter[g].pc = "replace" => ~renewal[Driving(g)].acked

Alone(g) == \A h \in Getters : getter[h].pc \in Waiting /\ Driving(h) = Driving(g) => h = g

PassParts ==
    \A g \in Getters : /\ getter[g].pc \in Waiting => Waits(g) /\ Alone(g)
                       /\ getter[g].pc = "retiring" => Unretired(g) # {}

LEMMA PassesAre == Passes <=> PassParts
  BY DEF Passes, PassParts, Waits, Alone

LEMMA PassesFollow == PassParts' => Passes'
<1>1. PassParts => Passes
  BY PassesAre
<1>2. QED  BY <1>1, PTL

\* A thread that goes on waiting.
LEMMA WaitsOn ==
    ASSUME Typed, Passes, HoldsInOrder, DoneStays, NEW g \in Getters, getter[g].pc \in Waiting, SamePass(g),
           getter'[g].pc = "replace" => getter[g].pc = "replace",
           edge'[Driving(g)].state # "done",
           renewal'[Driving(g)].driving, renewal'[Driving(g)].attempt = renewal[Driving(g)].attempt,
           getter'[g].pc # "replace" \/ renewal'[Driving(g)].acked = renewal[Driving(g)].acked
    PROVE  Waits(g)' /\ Driving(g)' = Driving(g)
<1>1. Driving(g) \in Foreign /\ Driving(g) \in Undriven(g)
  BY WaitingIs
<1>2. Driving(g) \in Undriven(g)'
  BY <1>1 DEF Undriven, SamePass, Planned, Plan, Registered
<1>3. Undriven(g)' \subseteq Undriven(g) /\ Undriven(g) \in SUBSET Tasks
  BY UndrivenKept, DrivingIs
<1>4. Driving(g)' = Driving(g)
  BY <1>1, <1>2, <1>3, LeastStays DEF Driving
<1>5. Plan(g)' = Plan(g)
  BY DEF SamePass, Plan
<1>6. QED  BY <1>2, <1>4, <1>5, PassesAre DEF PassParts, Waits

\* The other threads go on, and the one that moves does not wait, or has a Task of its own.
LEMMA PassesOn ==
    ASSUME Typed, Passes, HoldsInOrder, DoneStays, NEW g \in Getters, OnlyMoves(g),
           \A h \in Getters : h # g /\ getter[h].pc \in Waiting => Waits(h)' /\ Driving(h)' = Driving(h),
           getter'[g].pc \in Waiting =>
              Waits(g)' /\ \A h \in Getters : h # g /\ getter[h].pc \in Waiting => Driving(h) # Driving(g)',
           getter'[g].pc = "retiring" => Unretired(g)' # {}
    PROVE  Passes'
<1>1. \A h \in Getters : h # g => getter'[h] = getter[h]
  BY DEF OnlyMoves
<1>2. SUFFICES ASSUME NEW h \in Getters
               PROVE  /\ getter'[h].pc \in Waiting => Waits(h)' /\ Alone(h)'
                      /\ getter'[h].pc = "retiring" => Unretired(h)' # {}
  BY PassesFollow DEF PassParts
<1>3. getter'[h].pc = "retiring" => Unretired(h)' # {}
  <2>1. CASE h # g
    BY <1>1, <2>1 DEF Passes, Unretired, Planned, Plan
  <2>2. QED  BY <2>1
<1>4. ASSUME getter'[h].pc \in Waiting PROVE Waits(h)'
  BY <1>1, <1>4
<1>5. ASSUME getter'[h].pc \in Waiting PROVE Alone(h)'
  <2>1. SUFFICES ASSUME NEW k \in Getters, getter'[k].pc \in Waiting, Driving(k)' = Driving(h)'
                 PROVE  k = h
    BY DEF Alone
  <2>2. CASE h # g /\ k # g
    <3>1. Driving(k) = Driving(h) /\ getter[k].pc \in Waiting /\ getter[h].pc \in Waiting
      BY <1>1, <1>5, <2>1, <2>2
    <3>2. QED  BY <3>1, PassesAre DEF PassParts, Alone
  <2>3. CASE h = g /\ k # g
    BY <1>1, <1>5, <2>1, <2>3
  <2>4. CASE h # g /\ k = g
    BY <1>1, <1>5, <2>1, <2>4
  <2>5. QED  BY <2>2, <2>3, <2>4
<1>6. QED  BY <1>3, <1>4, <1>5

\* No thread moves.
LEMMA PassesStay ==
    ASSUME Typed, Passes, HoldsInOrder, DoneStays, UNCHANGED getter,
           \A h \in Getters : getter[h].pc \in Waiting => Waits(h)' /\ Driving(h)' = Driving(h)
    PROVE  Passes'
<1>1. SUFFICES ASSUME NEW h \in Getters
               PROVE  /\ getter'[h].pc \in Waiting => Waits(h)' /\ Alone(h)'
                      /\ getter'[h].pc = "retiring" => Unretired(h)' # {}
  BY PassesFollow DEF PassParts
<1>2. getter'[h].pc = "retiring" => Unretired(h)' # {}
  BY DEF Passes, Unretired, Planned, Plan
<1>3. getter'[h].pc \in Waiting => Waits(h)'
  OBVIOUS
<1>4. getter'[h].pc \in Waiting => Alone(h)'
  BY PassesAre DEF PassParts, Alone
<1>5. QED  BY <1>2, <1>3, <1>4

\* The steps of a thread that neither begin a pass, nor wait in it, nor end it.
LEMMA PlacesAre ==
    ASSUME Typed, Passes, NEW g \in Getters, Get(g) \/ Thread(g), ~BeginsPass(g), ~Replace(g), ~EndsPass(g)
    PROVE  /\ OnlyMoves(g) /\ getter'[g].pc \notin Waiting
           /\ getter'[g].pc = "retiring" => Unretired(g)' # {}
           /\ getter'[g].pc \in {"retire", "retiring"} =>
                 SamePass(g) /\ (getter[g].pc \in {"retire", "retiring"} \/ Undriven(g) = {})
<1>1. CASE Get(g) \/ Poll(g) \/ PollRemote(g) \/ HandleReconstruction(g)
  BY <1>1, GetMoves DEF Typed, NoPass, Waiting
<1>2. CASE Preflight(g)
  BY <1>2, PreflightMoves DEF NoPass, NewPlan, Waiting
<1>3. CASE Drive(g)
  BY <1>3, DriveMoves DEF BeginsPass, NoPass, Waiting
<1>4. CASE Check(g)
  BY <1>4, CheckMoves DEF Typed, NoPass, Waiting
<1>5. CASE Retire(g) \/ Retired(g)
  <2>1. Retiring(g) \in Tasks
    BY <1>5, DrivingIs DEF Retire, Retired, At
  <2>2. /\ OnlyMoves(g) /\ getter[g].pc \in {"retire", "retiring"}
        /\ \/ NoPass(g)
           \/ SamePass(g) /\ getter'[g].pc = "retire"
           \/ /\ SamePass(g) /\ getter'[g].pc = "retiring" /\ getter'[g].retired = getter[g].retired
              /\ Unretired(g) # {}
    BY <1>5, <2>1, RetireMoves DEF Typed
  <2>3. QED  BY <2>2 DEF NoPass, Waiting, SamePass, Unretired, Planned, Plan
<1>6. CASE Commit(g)
  BY <1>6, CommitMoves DEF Typed, NoPass, Waiting
<1>7. QED  BY <1>1, <1>2, <1>3, <1>4, <1>5, <1>6 DEF Thread, EndsPass

\* A thread whose session is left alone goes on waiting.
LEMMA OthersWait ==
    ASSUME Typed, Passes, HoldsInOrder, HoldsInOrder', DoneStays, NEW h \in Getters, getter[h].pc \in Waiting,
           SamePass(h), getter'[h].pc = getter[h].pc,
           renewal'[Driving(h)].driving = renewal[Driving(h)].driving,
           renewal'[Driving(h)].attempt = renewal[Driving(h)].attempt,
           renewal'[Driving(h)].acked = renewal[Driving(h)].acked
    PROVE  Waits(h)' /\ Driving(h)' = Driving(h)
<1>1. Driving(h) \in Foreign /\ Open(Driving(h)) /\ renewal[Driving(h)].driving
  BY WaitingIs
<1>2. \A t \in Foreign : renewal'[t].attempt # NoAttempt => edge'[t].state = "registered"
  BY DEF HoldsInOrder, EdgesOrdered, Open
<1>3. edge'[Driving(h)].state # "done"
  BY <1>1, <1>2 DEF Open
<1>4. QED  BY <1>1, <1>3, WaitsOn

LEMMA DoneForGood ==
    ASSUME Typed, Passes, Records, HoldsInOrder, RecoveryNext
    PROVE  DoneStays
<1>0. GoneStays
  BY GoneForGood
<1>1. ASSUME NEW g \in Getters, Get(g) \/ Thread(g) \/ GiveUp(g) \/ Drop(g)
      PROVE  \A t \in Foreign : edge'[t].state = edge[t].state
  <2>1. CASE BeginsPass(g)
    BY <1>0, <2>1, BeginsIs
  <2>2. CASE Replace(g)
    BY <1>0, <2>2, ReplaceHolds
  <2>3. CASE EndsPass(g)
    BY <1>0, <2>3, EndsIsPass
  <2>4. CASE ~BeginsPass(g) /\ ~Replace(g) /\ ~EndsPass(g)
    BY <1>1, <2>4, GetterQuiet DEF HoldersQuiet
  <2>5. QED  BY <2>1, <2>2, <2>3, <2>4
<1>2. ASSUME NEW t \in Foreign, ForeignCollect(t) PROVE DoneStays
  <2>1. edge[t].state # "done"
    BY <1>2 DEF ForeignCollect, Claim, ReleaseEdge
  <2>2. \A u \in Foreign : u # t => edge'[u] = edge[u]
    <3>1. owner'[t].state = "GONE" /\ (Claim(t) \/ ReleaseEdge(t))
      BY <1>2 DEF ForeignCollect
    <3>2. QED  BY <1>0, <3>1, ClaimHolds, ReleaseHolds
  <2>3. QED  BY <2>1, <2>2 DEF DoneStays
<1>3. CASE \/ \E t \in Tasks : CoordinatorRetire(t) \/ Lose(t) \/ BeginCollect(t) \/ FinishCollect(t)
           \/ \E j \in jobs : Admit(j) \/ Succeed(j) \/ AppError(j) \/ SystemFailure(j) \/ Finish(j)
           \/ \E b \in borrow : BorrowEnds(b)
           \/ ForeignStep
  <2>1. UNCHANGED edge
    BY <1>3 DEF CoordinatorRetire, Lose, BeginCollect, FinishCollect, Admit, Succeed, AppError, SystemFailure,
                Finish, BorrowEnds, ForeignStep, LateReplace, LateLost, LoseForeign, ProduceForeign, ForeignExit,
                DeathLearned, foreignVars, localVars
  <2>2. QED  BY <2>1 DEF DoneStays
<1>4. QED  BY <1>1, <1>2, <1>3 DEF RecoveryNext, DoneStays

LEMMA PassesStep ==
    ASSUME Typed, Passes, Records, HoldsInOrder, RecoveryNext
    PROVE  Passes'
<1>0. GoneStays /\ DoneStays /\ HoldsInOrder'
  BY GoneForGood, DoneForGood, HoldsStep
<1>1. ASSUME NEW g \in Getters, BeginsPass(g) PROVE Passes'
  <2>1. /\ OnlyMoves(g) /\ SamePass(g) /\ getter'[g].pc \in Waiting
        /\ getter'[g].pc = "replace" => ~renewal'[Driving(g)].acked
        /\ Driving(g) \in Undriven(g) /\ UNCHANGED edge
        /\ ~renewal[Driving(g)].driving
        /\ renewal'[Driving(g)].driving /\ renewal'[Driving(g)].attempt = Plan(g)[Driving(g)]
        /\ \A u \in Foreign : u # Driving(g) => renewal'[u] = renewal[u]
    BY <1>0, <1>1, BeginsIs
  <2>2. Undriven(g)' = Undriven(g) /\ Driving(g)' = Driving(g) /\ Plan(g)' = Plan(g)
    BY <2>1 DEF SamePass, Undriven, Driving, Planned, Plan, Registered
  <2>3. Waits(g)'
    BY <2>1, <2>2 DEF Waits
  <2>4. ASSUME NEW h \in Getters, h # g, getter[h].pc \in Waiting
        PROVE  Waits(h)' /\ Driving(h)' = Driving(h) /\ Driving(h) # Driving(g)
    <3>1. Driving(h) \in Foreign /\ renewal[Driving(h)].driving
      BY <2>4, <1>0, WaitingIs
    <3>2. Driving(h) # Driving(g) /\ renewal'[Driving(h)] = renewal[Driving(h)] /\ getter'[h] = getter[h]
      BY <2>1, <2>4, <3>1 DEF OnlyMoves
    <3>3. QED  BY <1>0, <2>4, <3>2, OthersWait DEF SamePass
  <2>5. getter'[g].pc # "retiring"
    BY <2>1 DEF Waiting
  <2>6. QED  BY <1>0, <2>1, <2>2, <2>3, <2>4, <2>5, PassesOn
<1>2. ASSUME NEW g \in Getters, Replace(g) PROVE Passes'
  <2>1. OnlyMoves(g) /\ SamePass(g) /\ getter'[g].pc \in {"query", "conclude"} /\ getter[g].pc \in Waiting
    BY <1>2, ReplaceMoves DEF Typed, Replace, At, Waiting
  <2>2. /\ \A u \in Foreign : /\ renewal'[u].attempt = renewal[u].attempt
                              /\ renewal'[u].driving = renewal[u].driving
                              /\ u # Driving(g) => renewal'[u] = renewal[u]
                              /\ edge'[u].state = edge[u].state
    BY <1>0, <1>2, ReplaceHolds
  <2>3. Driving(g) \in Foreign /\ edge[Driving(g)].state = "registered" /\ renewal[Driving(g)].driving
    BY <2>1, WaitingIs
  <2>4. Waits(g)' /\ Driving(g)' = Driving(g)
    BY <1>0, <2>1, <2>2, <2>3, WaitsOn
  <2>5. ASSUME NEW h \in Getters, h # g, getter[h].pc \in Waiting
        PROVE  Waits(h)' /\ Driving(h)' = Driving(h) /\ Driving(h) # Driving(g)
    <3>1. Driving(h) \in Foreign
      BY <2>5, WaitingIs
    <3>2. Driving(h) # Driving(g)
      BY <2>1, <2>5, PassesAre DEF PassParts, Alone
    <3>3. renewal'[Driving(h)] = renewal[Driving(h)] /\ getter'[h] = getter[h]
      BY <2>1, <2>2, <2>5, <3>1, <3>2 DEF OnlyMoves
    <3>4. QED  BY <1>0, <2>5, <3>2, <3>3, OthersWait DEF SamePass
  <2>6. QED  BY <1>0, <2>1, <2>4, <2>5, PassesOn
<1>3. ASSUME NEW g \in Getters, EndsPass(g) PROVE Passes'
  <2>1. /\ OnlyMoves(g) /\ getter[g].pc \in Waiting /\ getter'[g].pc \in {"done", "poll", "drive"}
        /\ \A u \in Foreign : u # Driving(g) => renewal'[u] = renewal[u]
    BY <1>0, <1>3, EndsIsPass DEF NoPass
  <2>2. ASSUME NEW h \in Getters, h # g, getter[h].pc \in Waiting
        PROVE  Waits(h)' /\ Driving(h)' = Driving(h)
    <3>1. Driving(h) \in Foreign
      BY <2>2, WaitingIs
    <3>2. Driving(h) # Driving(g)
      BY <2>1, <2>2, PassesAre DEF PassParts, Alone
    <3>3. renewal'[Driving(h)] = renewal[Driving(h)] /\ getter'[h] = getter[h]
      BY <2>1, <2>2, <3>1, <3>2 DEF OnlyMoves
    <3>4. QED  BY <1>0, <2>2, <3>3, OthersWait DEF SamePass
  <2>3. getter'[g].pc \notin Waiting /\ getter'[g].pc # "retiring"
    BY <2>1 DEF Waiting
  <2>4. QED  BY <1>0, <2>1, <2>2, <2>3, PassesOn
<1>4. ASSUME NEW g \in Getters, Get(g) \/ Thread(g) \/ GiveUp(g) \/ Drop(g),
             ~BeginsPass(g), ~Replace(g), ~EndsPass(g)
      PROVE  \A t \in Foreign : renewal[t].driving => renewal'[t] = renewal[t]
  <2>1. CASE HoldersQuiet
    BY <2>1 DEF HoldersQuiet
  <2>2. CASE Completed(g) /\ AllRenewed(g)
    BY <2>2 DEF Completed, AllRenewed, Renewed
  <2>3. QED  BY <1>4, <2>1, <2>2, GetterQuiet
<1>5. ASSUME NEW g \in Getters, Get(g) \/ Thread(g), ~BeginsPass(g), ~Replace(g), ~EndsPass(g)
      PROVE  Passes'
  <2>1. /\ OnlyMoves(g) /\ getter'[g].pc \notin Waiting /\ (getter'[g].pc = "retiring" => Unretired(g)' # {})
        /\ \A t \in Foreign : renewal[t].driving => renewal'[t] = renewal[t]
    BY <1>4, <1>5, PlacesAre
  <2>2. ASSUME NEW h \in Getters, h # g, getter[h].pc \in Waiting
        PROVE  Waits(h)' /\ Driving(h)' = Driving(h)
    <3>1. Driving(h) \in Foreign /\ renewal[Driving(h)].driving
      BY <2>2, WaitingIs
    <3>2. renewal'[Driving(h)] = renewal[Driving(h)] /\ getter'[h] = getter[h]
      BY <2>1, <2>2, <3>1 DEF OnlyMoves
    <3>3. QED  BY <1>0, <2>2, <3>2, OthersWait DEF SamePass
  <2>3. QED  BY <1>0, <2>1, <2>2, PassesOn
<1>6. ASSUME NEW g \in Getters, GiveUp(g) PROVE Passes'
  <2>1. /\ OnlyMoves(g) /\ SamePass(g) /\ getter'[g].pc = getter[g].pc /\ getter'[g].retired = getter[g].retired
        /\ UNCHANGED renewal
    BY <1>6, GiveUpMoves DEF Typed, GiveUp, foreignVars, localVars
  <2>2. ASSUME NEW h \in Getters, getter[h].pc \in Waiting
        PROVE  Waits(h)' /\ Driving(h)' = Driving(h)
    <3>1. SamePass(h) /\ getter'[h].pc = getter[h].pc
      BY <2>1 DEF OnlyMoves, SamePass
    <3>2. QED  BY <1>0, <2>1, <2>2, <3>1, OthersWait
  <2>3. getter'[g].pc \in Waiting => \A h \in Getters : h # g /\ getter[h].pc \in Waiting => Driving(h) # Driving(g)'
    BY <2>1, <2>2, PassesAre DEF PassParts, Alone
  <2>4. getter'[g].pc = "retiring" => Unretired(g)' # {}
    BY <2>1 DEF Passes, SamePass, Unretired, Planned, Plan
  <2>5. QED  BY <1>0, <2>1, <2>2, <2>3, <2>4, PassesOn
<1>7. ASSUME UNCHANGED getter,
             \A t \in Foreign : renewal[t].driving =>
                /\ renewal'[t].driving = renewal[t].driving /\ renewal'[t].attempt = renewal[t].attempt
                /\ renewal'[t].acked = renewal[t].acked
      PROVE  Passes'
  <2>1. ASSUME NEW h \in Getters, getter[h].pc \in Waiting
        PROVE  Waits(h)' /\ Driving(h)' = Driving(h)
    <3>1. Driving(h) \in Foreign /\ renewal[Driving(h)].driving
      BY <2>1, WaitingIs
    <3>2. QED  BY <1>0, <1>7, <2>1, <3>1, OthersWait DEF SamePass
  <2>2. QED  BY <1>0, <1>7, <2>1, PassesStay
<1>8. ASSUME NEW t \in Foreign, ForeignCollect(t) PROVE Passes'
  <2>1. UNCHANGED getter /\ owner'[t].state = "GONE" /\ (Claim(t) \/ ReleaseEdge(t))
    BY <1>8 DEF ForeignCollect, getterVars
  <2>2. \A u \in Foreign : renewal[u].driving => renewal'[u] = renewal[u]
    BY <1>0, <2>1, ClaimHolds, ReleaseHolds
  <2>3. QED  BY <1>7, <2>1, <2>2
<1>9. CASE ForeignStep
  <2>1. UNCHANGED getter
    BY <1>9 DEF ForeignStep, getterVars
  <2>2. CASE DeathLearned
    BY <1>0, <1>7, <2>1, <2>2, DeathHolds
  <2>3. CASE ~DeathLearned
    <3>1. UNCHANGED renewal
      BY <1>9, <2>3 DEF ForeignStep, LateReplace, LateLost, LoseForeign, ProduceForeign, ForeignExit, localVars
    <3>2. QED  BY <1>7, <2>1, <3>1
  <2>4. QED  BY <2>2, <2>3
<1>10. CASE \/ \E t \in Tasks : CoordinatorRetire(t) \/ Lose(t) \/ BeginCollect(t) \/ FinishCollect(t)
            \/ \E j \in jobs : Admit(j) \/ Succeed(j) \/ AppError(j) \/ SystemFailure(j) \/ Finish(j)
            \/ \E b \in borrow : BorrowEnds(b)
            \/ \E g \in Getters : Drop(g)
  <2>1. UNCHANGED <<getter, renewal>>
    BY <1>10 DEF CoordinatorRetire, Lose, BeginCollect, FinishCollect, Admit, Succeed, AppError, SystemFailure,
                 Finish, BorrowEnds, Drop, getterVars, foreignVars, localVars
  <2>2. QED  BY <1>7, <2>1
<1>11. QED  BY <1>1, <1>2, <1>3, <1>5, <1>6, <1>8, <1>9, <1>10 DEF RecoveryNext

LEMMA AllDrivenStep ==
    ASSUME Typed, Passes, AllDriven, Records, HoldsInOrder, RecoveryNext
    PROVE  AllDriven'
<1>0. GoneStays /\ DoneStays
  BY GoneForGood, DoneForGood
<1>1. SUFFICES ASSUME NEW h \in Getters, getter'[h].pc \in {"retire", "retiring"}
               PROVE  SamePass(h) /\ (getter[h].pc \in {"retire", "retiring"} \/ Undriven(h) = {})
  BY <1>0, UndrivenKept DEF AllDriven
<1>2. ASSUME getter'[h] = getter[h]
      PROVE  SamePass(h) /\ (getter[h].pc \in {"retire", "retiring"} \/ Undriven(h) = {})
  BY <1>1, <1>2 DEF SamePass
<1>3. ASSUME NEW g \in Getters, Get(g) \/ Thread(g) \/ GiveUp(g) \/ Drop(g)
      PROVE  SamePass(h) /\ (getter[h].pc \in {"retire", "retiring"} \/ Undriven(h) = {})
  <2>1. CASE BeginsPass(g)
    BY <1>0, <1>1, <1>2, <2>1, BeginsIs DEF OnlyMoves, Waiting
  <2>2. CASE Replace(g)
    BY <1>1, <1>2, <2>2, ReplaceMoves DEF Typed, OnlyMoves
  <2>3. CASE EndsPass(g)
    BY <1>0, <1>1, <1>2, <2>3, EndsIsPass DEF OnlyMoves, NoPass
  <2>4. CASE (Get(g) \/ Thread(g)) /\ ~BeginsPass(g) /\ ~Replace(g) /\ ~EndsPass(g)
    BY <1>1, <1>2, <2>4, PlacesAre DEF OnlyMoves
  <2>5. CASE GiveUp(g)
    BY <1>1, <1>2, <2>5, GiveUpMoves DEF Typed, OnlyMoves
  <2>6. CASE Drop(g)
    BY <1>2, <2>6 DEF Drop
  <2>7. QED  BY <1>3, <2>1, <2>2, <2>3, <2>4, <2>5, <2>6
<1>4. CASE ~\E g \in Getters : Get(g) \/ Thread(g) \/ GiveUp(g) \/ Drop(g)
  <2>1. UNCHANGED getter
    BY <1>4 DEF RecoveryNext, CoordinatorRetire, Lose, BeginCollect, FinishCollect, ForeignCollect, Admit,
                Succeed, AppError, SystemFailure, Finish, BorrowEnds, ForeignStep, getterVars
  <2>2. QED  BY <1>2, <2>1
<1>5. QED  BY <1>3, <1>4

-----------------------------------------------------------------------------
(* The theorems *)

LEMMA InvariantParts ==
    RecoveryInvariant <=> Typed /\ Records /\ Passes /\ AllDriven /\ PlansInTime /\ HoldsInOrder /\ ForeignJobs
  BY DEF RecoveryInvariant, Records, Typed, HoldsInOrder

LEMMA InvariantFollows ==
    (Typed /\ Records /\ Passes /\ AllDriven /\ PlansInTime /\ HoldsInOrder /\ ForeignJobs)' => RecoveryInvariant'
<1>1. Typed /\ Records /\ Passes /\ AllDriven /\ PlansInTime /\ HoldsInOrder /\ ForeignJobs => RecoveryInvariant
  BY InvariantParts
<1>2. QED  BY <1>1, PTL

LEMMA RecoveryInvariantInit ==
    ASSUME RecoveryInit
    PROVE  RecoveryInvariant
<1>0. /\ 0 \in Attempts /\ NoAttempt \in Attempts \cup {NoAttempt} /\ 0 # NoAttempt /\ MaxRetries \in Nat
      /\ Foreign \subseteq Tasks /\ \A t \in Tasks : Deps[t] \subseteq Tasks
  BY Constants
<1>1. OwnerTyped
  BY <1>0 DEF RecoveryInit, OwnerTyped, Outputs, OutputStates
<1>2. RecoveryTyped
  BY <1>0 DEF RecoveryInit, RecoveryTyped, Retries, RetryStates
<1>3. JobsTyped
  BY <1>0 DEF RecoveryInit, JobsTyped
<1>4. GettersTyped
  <2>1. Idle("value") \in Gets
    BY IdleIs
  <2>2. QED  BY <2>1 DEF RecoveryInit, GettersTyped
<1>5. ForeignTyped
  <2>1. NoRenewal \in Renewals
    BY DEF NoRenewal, Renewals, NoAttempt
  <2>2. edge \in [Foreign -> Edges]
    BY <1>0 DEF RecoveryInit, ForeignInit, Edges
  <2>3. renewal \in [Foreign -> Renewals] /\ \A t \in Foreign : renewal[t] = NoRenewal
    BY <2>1 DEF RecoveryInit, ForeignInit
  <2>4. fhold \in SUBSET (Foreign \X Attempts)
    BY <1>0 DEF RecoveryInit, ForeignInit
  <2>5. freleased = {} /\ replaced = {} /\ late = {} /\ fup = TRUE /\ fdead = FALSE
    BY DEF RecoveryInit, ForeignInit
  <2>6. QED  BY <2>2, <2>3, <2>4, <2>5 DEF ForeignTyped
<1>6. Records
  <2>1. \A t \in Tasks : Agrees(t)
    BY <1>0 DEF RecoveryInit, Agrees
  <2>2. OneJob /\ JobsCurrent /\ InputHolds
    BY DEF RecoveryInit, OneJob, JobsCurrent, InputHolds
  <2>3. QueuedOnce
    <3>1. SUFFICES ASSUME NEW t \in Tasks, NEW a \in Attempts
                   PROVE  enqueued[t][a] <= IF a <= rec[t].attempt THEN 1 ELSE 0
      BY DEF QueuedOnce
    <3>2. enqueued[t][a] = (IF a = 0 THEN 1 ELSE 0) /\ rec[t].attempt = 0
      BY DEF RecoveryInit
    <3>3. a \in Nat
      BY Constants
    <3>4. QED  BY <3>2, <3>3
  <2>4. \A t \in Tasks : ~(t \in coll \/ owner[t].state = "GONE")
    BY DEF RecoveryInit
  <2>5. QED  BY <1>1, <1>2, <1>3, <2>1, <2>2, <2>3, <2>4, RecordsAre DEF RecordParts
<1>7. \A g \in Getters : getter[g].pc = "done" /\ Planned(g) = {}
  <2>1. Idle("value").pc = "done" /\ DOMAIN Idle("value").plan = {}
    BY IdleIs
  <2>2. QED  BY <2>1 DEF RecoveryInit, Planned, Plan
<1>8. Passes /\ AllDriven /\ PlansInTime
  BY <1>7 DEF Passes, AllDriven, PlansInTime, Waiting
<1>9. ForeignJobs
  BY DEF RecoveryInit, ForeignJobs
<1>10. NoRenewal.attempt = NoAttempt
  BY DEF NoRenewal, NoAttempt
<1>11. EdgesOrdered
  BY <1>10 DEF RecoveryInit, ForeignInit, EdgesOrdered, Open
<1>12. ReleasedForGood /\ LateRequests
  BY DEF RecoveryInit, ForeignInit, ReleasedForGood, LateRequests
<1>13. OneHold
  BY DEF RecoveryInit, ForeignInit, OneHold, HoldsOf
<1>14. QED
  BY <1>1, <1>2, <1>3, <1>4, <1>5, <1>6, <1>8, <1>9, <1>11, <1>12, <1>13, InvariantParts DEF Typed, HoldsInOrder

LEMMA RecoveryInvariantStep ==
    ASSUME RecoveryInvariant, [RecoveryNext]_vars
    PROVE  RecoveryInvariant'
<1>0. Typed /\ Records /\ Passes /\ AllDriven /\ PlansInTime /\ HoldsInOrder /\ ForeignJobs
  BY InvariantParts
<1>1. CASE RecoveryNext
  <2>1. Records'
    BY <1>0, <1>1, RecordsStep DEF RecordsKept
  <2>2. GettersTyped'
    BY <1>0, <1>1, GettersStep
  <2>3. HoldsInOrder'
    BY <1>0, <1>1, HoldsStep
  <2>4. Typed'
    BY <2>1, <2>2, <2>3 DEF Typed, Records, HoldsInOrder
  <2>5. Passes' /\ AllDriven'
    BY <1>0, <1>1, PassesStep, AllDrivenStep
  <2>6. PlansInTime'
    BY <1>0, <1>1, PlansStep
  <2>7. ForeignJobs'
    BY <1>0, <1>1, ForeignJobsStep
  <2>8. QED  BY <2>1, <2>3, <2>4, <2>5, <2>6, <2>7, InvariantFollows
<1>2. CASE UNCHANGED vars
  <2>1. UNCHANGED recordVars
    BY <1>2 DEF vars, recordVars, recoveryVars, jobVars
  <2>2. Records'
    BY <1>0, <2>1, QuietRecords
  <2>3. UNCHANGED <<edge, renewal, fhold, freleased, replaced, late, fup, fdead, getter, held, jobs, owner>>
    BY <1>2 DEF vars, foreignVars, localVars, holdVars, getterVars, jobVars
  <2>4. HoldsInOrder'
    BY <1>0, <2>3 DEF HoldsInOrder, ForeignTyped, EdgesOrdered, ReleasedForGood, LateRequests, OneHold, Open, HoldsOf
  <2>5. GettersTyped'
    BY <1>0, <2>3 DEF Typed, GettersTyped
  <2>6. Typed'
    BY <2>2, <2>4, <2>5 DEF Typed, Records, HoldsInOrder
  <2>7. (Passes /\ AllDriven)'
    <3>1. \A g \in Getters : Undriven(g)' = Undriven(g) /\ Unretired(g)' = Unretired(g) /\ Plan(g)' = Plan(g)
      BY <2>3 DEF Undriven, Unretired, Planned, Plan, Registered
    <3>2. \A g \in Getters : Driving(g)' = Driving(g)
      BY <3>1 DEF Driving
    <3>3. QED  BY <1>0, <2>3, <3>1, <3>2 DEF Passes, AllDriven
  <2>8. PlansInTime'
    BY <1>0, <2>3 DEF PlansInTime, Planned, Plan
  <2>9. ForeignJobs'
    BY <1>0, <2>3 DEF ForeignJobs, Open
  <2>10. QED  BY <2>2, <2>4, <2>6, <2>7, <2>8, <2>9, InvariantFollows
<1>3. QED  BY <1>1, <1>2

\* The owner's records and the foreign holds stay in order, whatever is lost and whoever asks:
\* at every lock section of every thread of _start_or_join_reconstruction, at every step of an
\* execution, of F, and of the collections.
THEOREM RecoveryStaysInOrder == RecoverySpec => []RecoveryInvariant
<1>1. RecoveryInit => RecoveryInvariant
  BY RecoveryInvariantInit
<1>2. RecoveryInvariant /\ [RecoveryNext]_vars => RecoveryInvariant'
  BY RecoveryInvariantStep
<1>3. QED  BY <1>1, <1>2, PTL DEF RecoverySpec

\* The owner's entry, the retry record, the session and the queue agree on the attempt in
\* progress: advance_task_outputs, TaskRecord and ReconstructionCoordinator are never apart, and
\* no attempt is beyond the budget or queued twice.
THEOREM RecordsAgree == RecoverySpec => []EpochsAgree
<1>1. RecoveryInvariant => EpochsAgree
  BY DEF RecoveryInvariant
<1>2. QED  BY <1>1, RecoveryStaysInOrder, PTL

LEMMA InvariantKeepsInputs ==
    ASSUME RecoveryInvariant
    PROVE  InputsHeld
<1>0. Records /\ HoldsInOrder /\ ForeignJobs
  BY InvariantParts
<1>1. ASSUME NEW j \in jobs, j.pc # "ended"
      PROVE  /\ \A d \in Deps[j.task] : owner[d].state # "GONE" /\ d \notin coll
             /\ Submitted(j.task, j.hold) \subseteq holds
             /\ j.fhold # NoAttempt => (fup => <<j.task, j.fhold>> \in fhold)
  <2>1. j.task \in Tasks /\ owner[j.task].state = "PENDING" /\ Deps[j.task] \subseteq Tasks
    BY <1>0, <1>1, JobIs, Constants
  <2>2. \A d \in Deps[j.task] : owner[d].state # "GONE" /\ d \notin coll
    BY <1>0, <2>1 DEF Records, Collected
  <2>3. Submitted(j.task, j.hold) \subseteq holds
    BY <1>0, <1>1 DEF Records, InputHolds
  <2>4. ASSUME j.fhold # NoAttempt PROVE <<j.task, j.fhold>> \in fhold
    <3>1. /\ j.task \in Foreign /\ j.fhold = edge[j.task].hold
          /\ Open(j.task) => renewal[j.task].acked
      BY <1>0, <1>1, <2>4 DEF ForeignJobs
    <3>2. edge[j.task].state = "registered"
      BY <1>0, <2>1, <3>1 DEF HoldsInOrder, EdgesOrdered
    <3>3. HoldsOf(j.task) = {<<j.task, j.fhold>>}
      BY <1>0, <3>1, <3>2 DEF HoldsInOrder, OneHold
    <3>4. QED  BY <3>3 DEF HoldsOf
  <2>5. QED  BY <2>2, <2>3, <2>4
<1>2. ASSUME NEW t \in Foreign, edge[t].state = "registered"
      PROVE  Cardinality({h \in fhold : h[1] = t}) = 1
  <2>1. \E h : HoldsOf(t) = {h}
    BY <1>0, <1>2 DEF HoldsInOrder, OneHold
  <2>2. PICK h : {k \in fhold : k[1] = t} = {h}
    BY <2>1 DEF HoldsOf
  <2>3. QED  BY <2>2, FS_Singleton
<1>3. QED  BY <1>1, <1>2 DEF InputsHeld

\* Every input of an execution that is queued or runs is kept for it, and F keeps the input of
\* a Task that may run again by exactly one hold, whatever became of the requests of
\* drive_renewal to replace it.
THEOREM InputsStayHeld == RecoverySpec => []InputsHeld
<1>1. RecoveryInvariant => InputsHeld
  BY InvariantKeepsInputs
<1>2. QED  BY <1>1, RecoveryStaysInOrder, PTL
=============================================================================

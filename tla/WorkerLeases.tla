---------------------------- MODULE WorkerLeases ----------------------------
(***************************************************************************)
(* The Node's authority over worker leases (node.py, class NodeServer):    *)
(* which attempt may run on which Worker process, what it is charged for,  *)
(* and how its execution ended.                                            *)
(*                                                                         *)
(* Submitters and Workers call the handlers over RPC, so a call may arrive *)
(* late, twice, or after its sender has died: every handler is an action   *)
(* that any lease may take in any state.  Handlers run concurrently.  What *)
(* one does under _state_lock is one action; a lease request releases that *)
(* lock to localize its dependencies and is two, with the lock of its      *)
(* LeaseID held between them (localizing).  A rejected call and an         *)
(* idempotent replay change nothing and are stuttering steps.              *)
(*                                                                         *)
(* A LeaseID is bound to one request, so the lease stands for its request, *)
(* its allocation token and its attempt.  Placement-group leases, actors   *)
(* and dependency pins are not part of this module.                        *)
(***************************************************************************)
EXTENDS Integers, FiniteSetsExt

CONSTANTS
    Leases,         \* LeaseIDs
    Submitters,     \* WorkerIDs of the Cores that request leases
    Submitter,      \* the submitter of each lease
    Slots,          \* positions in the Node's pool of ordinary Workers
    Workers,        \* WorkerIDs; fresh ones are taken in ascending order
    Names, CPU, Total, Request,     \* see ResourceLedger
    Outputs,        \* the leases whose executions return a value
    MaxSequence,    \* bound: blocking episodes of an execution
    None

\* The pool starts with one Worker per slot.
ASSUME LeasesAssumption ==
    /\ IsFiniteSet(Leases)
    /\ Slots \subseteq Workers
    /\ Workers \subseteq Nat
    /\ MaxSequence \in Nat
    /\ Submitter \in [Leases -> Submitters]
    /\ Outputs \subseteq Leases
    /\ CPU \in Names
    /\ Total \in [Names -> Nat]
    /\ Request \in [Leases -> [Names -> Nat]]
    /\ None \notin Leases \cup Workers
    /\ None \notin {"SUCCEEDED", "FAILED", "failed", "lost"}

VARIABLES
    record,         \* execution state of each lease's _LeaseRecord
    outcome,        \* the reply cached for its request
    localizing,     \* leases whose request is between its two locked parts
    cancelled,      \* leases with a cancellation tombstone
    grantee,        \* the Worker a lease was granted on
    slot,           \* each _WorkerSlot: its Worker, process and active lease
    deadWorkers,    \* _dead_worker_exitcodes
    deadSubmitters, \* _dead_dependency_submitters
    fenced,         \* _owner_death_fences
    draining,       \* whether BeginDrain installed its fence
    episode,        \* the blocking episodes of each execution
    completion,     \* the CompleteWorkerLease that ended it
    proposal,       \* output_complete_inflight
    journal,        \* state of its output publication in the Node's journal
    rollback,       \* the rollback begun for that publication
    available, allocation           \* see ResourceLedger

Ledger == INSTANCE ResourceLedger WITH Tokens <- Leases

grantVars   == <<outcome, localizing, grantee>>
factVars    == <<deadSubmitters, fenced, draining>>
outputVars  == <<completion, proposal, journal, rollback>>
leaseVars   == <<record, outcome, localizing, cancelled, grantee, slot, deadWorkers,
                 deadSubmitters, fenced, draining, episode, completion, proposal, journal,
                 rollback, available, allocation>>

Live     == {"GRANTED", "RUNNING"}
Terminal == {"COMPLETED", "ABANDONED", "WORKER_LOST"}

NoEpisode == [sequence |-> -1, open |-> FALSE, yielded |-> FALSE]

SubmitterDead(l) == Submitter[l] \in deadSubmitters

OwnerFenced(l) == Submitter[l] \in fenced

Bound(l) == journal[l] # "UNBOUND"

\* _idle_worker_slot_locked takes the first in pool order.
IdleSlots == {s \in Slots : slot[s].process = "running" /\ slot[s].active = None}

Init ==
    /\ record     = [l \in Leases |-> "NONE"]
    /\ outcome    = [l \in Leases |-> "NONE"]
    /\ localizing = {}
    /\ cancelled  = {}
    /\ grantee    = [l \in Leases |-> None]
    /\ slot       = [s \in Slots |-> [worker |-> s, process |-> "running", active |-> None]]
    /\ deadWorkers    = {}
    /\ deadSubmitters = {}
    /\ fenced         = {}
    /\ draining       = FALSE
    /\ episode    = [l \in Leases |-> NoEpisode]
    /\ completion = [l \in Leases |-> None]
    /\ proposal   = [l \in Leases |-> None]
    /\ journal    = [l \in Leases |-> "UNBOUND"]
    /\ rollback   = [l \in Leases |-> None]
    /\ Ledger!Init

-----------------------------------------------------------------------------
\* _release_record_locked, on the pool as it is (pool): return the resources,
\* free the Worker, close the blocking episode.
ReleaseRecord(l, state, pool) ==
    /\ IF allocation[l] \in {"ACTIVE", "CPU_YIELDED"}
         THEN Ledger!Release(l)
         ELSE UNCHANGED <<available, allocation>>
    /\ record' = [record EXCEPT ![l] = state]
    /\ episode' = [episode EXCEPT ![l].open = FALSE, ![l].yielded = FALSE]
    /\ slot' = [s \in Slots |->
          IF pool[s].worker = grantee[l] /\ pool[s].active = l
            THEN [pool[s] EXCEPT !.active = None]
            ELSE pool[s]]

\* Mutant of BeginRequest: the drain fence is not looked at.
BeginRequestDraining(l) ==
    /\ l \notin localizing \cup cancelled
    /\ outcome[l] \in {"NONE", "PENDING_CAPACITY"}
    /\ localizing' = localizing \cup {l}
    /\ UNCHANGED <<record, outcome, cancelled, grantee, slot, deadWorkers, factVars, episode,
                   outputVars, available, allocation>>

\* The first part of RequestWorkerLease.  A decision is frozen, except that the
\* lease may be polled again while capacity is pending.
BeginRequest(l) ==
    /\ l \notin localizing \cup cancelled
    /\ ~SubmitterDead(l)
    /\ outcome[l] \in {"NONE", "PENDING_CAPACITY"}
    /\ IF draining
         THEN outcome' = [outcome EXCEPT ![l] = "REFUSED"] /\ UNCHANGED localizing
         ELSE localizing' = localizing \cup {l} /\ UNCHANGED outcome
    /\ UNCHANGED <<record, cancelled, grantee, slot, deadWorkers, factVars, episode, outputVars,
                   available, allocation>>

\* The request fails: the policy spilled it back, found it infeasible or the
\* cluster busy, or a dependency could not be had; or, in the second locked
\* part, the Node is draining, the submitter is dead, or there is no capacity.
Refuse(l, reply) ==
    /\ l \in localizing
    /\ localizing' = localizing \ {l}
    /\ outcome' = [outcome EXCEPT ![l] = reply]
    /\ UNCHANGED <<record, cancelled, grantee, slot, deadWorkers, factVars, episode, outputVars,
                   available, allocation>>

\* The second part: allocate, bind the first idle Worker and publish the grant.
Grant(l) ==
    /\ l \in localizing
    /\ ~draining
    /\ ~SubmitterDead(l)
    /\ record[l] = "NONE"
    /\ Ledger!Feasible(l)
    /\ IdleSlots # {}
    /\ Ledger!Allocate(l)
    /\ LET s == Min(IdleSlots) IN
          /\ slot' = [slot EXCEPT ![s].active = l]
          /\ grantee' = [grantee EXCEPT ![l] = slot[s].worker]
    /\ record' = [record EXCEPT ![l] = "GRANTED"]
    /\ outcome' = [outcome EXCEPT ![l] = "GRANT"]
    /\ localizing' = localizing \ {l}
    /\ UNCHANGED <<cancelled, deadWorkers, factVars, episode, outputVars>>

\* CancelWorkerLease waits for the request to be decided and leaves a tombstone,
\* also for a request that has not arrived yet.
Cancel(l) ==
    /\ l \notin localizing \cup cancelled
    /\ record[l] \in {"NONE", "GRANTED", "ABANDONED"}
    /\ cancelled' = cancelled \cup {l}
    /\ IF record[l] = "GRANTED"
         THEN ReleaseRecord(l, "ABANDONED", slot)
         ELSE UNCHANGED <<record, slot, episode, available, allocation>>
    /\ UNCHANGED <<grantVars, deadWorkers, factVars, outputVars>>

\* ReleaseWorkerLease gives up an unstarted lease.
ReleaseLease(l) ==
    /\ record[l] = "GRANTED"
    /\ ReleaseRecord(l, "ABANDONED", slot)
    /\ UNCHANGED <<grantVars, cancelled, deadWorkers, factVars, outputVars>>

\* The Node is told that a submitter has died.
LearnSubmitterDeath(w) ==
    /\ deadSubmitters' = deadSubmitters \cup {w}
    /\ UNCHANGED <<record, grantVars, cancelled, slot, deadWorkers, fenced, draining, episode,
                   outputVars, available, allocation>>

\* _drive_abandoned_dependency_custody gives up its unstarted leases.
AbandonLease(l) ==
    /\ SubmitterDead(l)
    /\ l \notin localizing
    /\ record[l] = "GRANTED"
    /\ ReleaseRecord(l, "ABANDONED", slot)
    /\ UNCHANGED <<grantVars, cancelled, deadWorkers, factVars, outputVars>>

\* StartWorkerLease, sent by the granted Worker before it runs the task.
Start(l) ==
    /\ record[l] = "GRANTED"
    /\ IF SubmitterDead(l)
         THEN ReleaseRecord(l, "ABANDONED", slot)
         ELSE /\ record' = [record EXCEPT ![l] = "RUNNING"]
              /\ UNCHANGED <<slot, episode, available, allocation>>
    /\ UNCHANGED <<grantVars, cancelled, deadWorkers, factVars, outputVars>>

-----------------------------------------------------------------------------
\* NotifyWorkerBlocked opens the next episode and returns the CPU.
Blocked(l, sequence) ==
    /\ record[l] = "RUNNING"
    /\ sequence = episode[l].sequence + 1
    /\ ~episode[l].open
    /\ IF allocation[l] = "ACTIVE" /\ Request[l][CPU] > 0
         THEN Ledger!YieldCpu(l)
         ELSE UNCHANGED <<available, allocation>>
    /\ episode' = [episode EXCEPT ![l] =
          [sequence |-> sequence, open |-> TRUE,
           yielded |-> allocation[l] = "ACTIVE" /\ Request[l][CPU] > 0]]
    /\ UNCHANGED <<record, grantVars, cancelled, slot, deadWorkers, factVars, outputVars>>

\* Mutant of Unblocked: the CPU is not taken back.
UnblockedOnly(l, sequence) ==
    /\ record[l] = "RUNNING"
    /\ sequence = episode[l].sequence
    /\ episode[l].open
    /\ episode' = [episode EXCEPT ![l].open = FALSE, ![l].yielded = FALSE]
    /\ UNCHANGED <<record, grantVars, cancelled, slot, deadWorkers, factVars, outputVars,
                   available, allocation>>

\* NotifyWorkerUnblocked closes the open episode and takes the CPU back.
Unblocked(l, sequence) ==
    /\ record[l] = "RUNNING"
    /\ sequence = episode[l].sequence
    /\ episode[l].open
    /\ IF episode[l].yielded
         THEN Ledger!ReacquireCpu(l)
         ELSE UNCHANGED <<available, allocation>>
    /\ episode' = [episode EXCEPT ![l].open = FALSE, ![l].yielded = FALSE]
    /\ UNCHANGED <<record, grantVars, cancelled, slot, deadWorkers, factVars, outputVars>>

\* An Unblocked that overtakes its Blocked closes the episode before it opens.
UnblockedFirst(l, sequence) ==
    /\ record[l] = "RUNNING"
    /\ sequence = episode[l].sequence + 1
    /\ ~episode[l].open
    /\ episode' = [episode EXCEPT ![l].sequence = sequence]
    /\ UNCHANGED <<record, grantVars, cancelled, slot, deadWorkers, factVars, outputVars,
                   available, allocation>>

-----------------------------------------------------------------------------
\* CompleteWorkerLease of an execution that failed and published no output.
CompleteFailed(l) ==
    /\ ~Bound(l)
    /\ record[l] = "RUNNING"
    /\ ReleaseRecord(l, "COMPLETED", slot)
    /\ completion' = [completion EXCEPT ![l] = "FAILED"]
    /\ UNCHANGED <<grantVars, cancelled, deadWorkers, factVars, proposal, journal, rollback>>

\* PrepareOutputPublication binds the execution to its output.
PrepareOutput(l) ==
    /\ l \in Outputs
    /\ record[l] = "RUNNING"
    /\ ~OwnerFenced(l)
    /\ ~Bound(l)
    /\ proposal[l] = None
    /\ journal' = [journal EXCEPT ![l] = "ACTIVE"]
    /\ UNCHANGED <<record, grantVars, cancelled, slot, deadWorkers, factVars, episode, completion,
                   proposal, rollback, available, allocation>>

\* The owner, the children and the publication authority acknowledged every
\* effect of the preparation (_ready_to_complete).
OutputReady(l) ==
    /\ journal[l] = "ACTIVE"
    /\ journal' = [journal EXCEPT ![l] = "READY"]
    /\ UNCHANGED <<record, grantVars, cancelled, slot, deadWorkers, factVars, episode, completion,
                   proposal, rollback, available, allocation>>

\* _commit_output_lease_locked: a lost or abandoned lease has released its
\* resources already.
CommitOutputLease(l, status) ==
    /\ IF record[l] = "RUNNING"
         THEN ReleaseRecord(l, "COMPLETED", slot)
         ELSE /\ record' = [record EXCEPT ![l] = "COMPLETED"]
              /\ UNCHANGED <<slot, episode, available, allocation>>
    /\ completion' = [completion EXCEPT ![l] = status]
    /\ proposal' = [proposal EXCEPT ![l] = None]

Chosen(l) == IF completion[l] # None THEN completion[l] ELSE proposal[l]

\* Mutant of CompleteOutput: the execution need not be running any more.
CompleteOutputLate(l) ==
    /\ ~OwnerFenced(l)
    /\ Chosen(l) \in {None, "SUCCEEDED"}
    /\ journal[l] = "READY"
    /\ CommitOutputLease(l, "SUCCEEDED")
    /\ journal' = [journal EXCEPT ![l] = "COMPLETED"]
    /\ UNCHANGED <<grantVars, cancelled, deadWorkers, factVars, rollback>>

\* CompleteWorkerLease(SUCCEEDED): the irreversible local Complete.
CompleteOutput(l) ==
    /\ ~OwnerFenced(l)
    /\ Chosen(l) \in {None, "SUCCEEDED"}
    /\ journal[l] = "READY"
    /\ record[l] = "RUNNING"
    /\ CommitOutputLease(l, "SUCCEEDED")
    /\ journal' = [journal EXCEPT ![l] = "COMPLETED"]
    /\ UNCHANGED <<grantVars, cancelled, deadWorkers, factVars, rollback>>

\* Mutant of CompleteRolledBack: the rollback begins before the Complete that was
\* chosen is looked at.
RollBackBeforeCheck(l) ==
    /\ Bound(l)
    /\ ~OwnerFenced(l)
    /\ record[l] \in {"RUNNING"} \cup Terminal
    /\ IF Chosen(l) = "SUCCEEDED"
         THEN UNCHANGED <<record, slot, episode, available, allocation, completion, proposal>>
         ELSE CommitOutputLease(l, "FAILED")
    /\ rollback' = [rollback EXCEPT ![l] = "failed"]
    /\ journal' = [journal EXCEPT ![l] = "ROLLING_BACK"]
    /\ UNCHANGED <<grantVars, cancelled, deadWorkers, factVars>>

\* CompleteWorkerLease of a failure after the output was bound: fence the
\* publication with a rollback and end the lease.
CompleteRolledBack(l) ==
    /\ Bound(l)
    /\ ~OwnerFenced(l)
    /\ Chosen(l) \in {None, "FAILED"}
    /\ journal[l] \in {"ACTIVE", "READY"} \/ rollback[l] = "failed"
    /\ record[l] \in {"RUNNING"} \cup Terminal
    /\ CommitOutputLease(l, "FAILED")
    /\ rollback' = [rollback EXCEPT ![l] = "failed"]
    /\ journal' = [journal EXCEPT ![l] = IF @ \in {"ACTIVE", "READY"} THEN "ROLLING_BACK" ELSE @]
    /\ UNCHANGED <<grantVars, cancelled, deadWorkers, factVars>>

\* The same call when the supervisor has begun its own rollback: begin_rollback
\* raises after the proposal was recorded.
CompleteConflicts(l) ==
    /\ Bound(l)
    /\ ~OwnerFenced(l)
    /\ Chosen(l) \in {None, "FAILED"}
    /\ rollback[l] = "lost"
    /\ completion[l] = None
    /\ proposal' = [proposal EXCEPT ![l] = "FAILED"]
    /\ UNCHANGED <<record, grantVars, cancelled, slot, deadWorkers, factVars, episode, completion,
                   journal, rollback, available, allocation>>

\* Mutant of RollbackLost: only abandoned executions are rolled back.
RollbackAbandoned(l) ==
    /\ ~OwnerFenced(l)
    /\ journal[l] \in {"ACTIVE", "READY"}
    /\ Chosen(l) = None
    /\ record[l] = "ABANDONED"
    /\ rollback' = [rollback EXCEPT ![l] = "lost"]
    /\ journal' = [journal EXCEPT ![l] = "ROLLING_BACK"]
    /\ UNCHANGED <<record, grantVars, cancelled, slot, deadWorkers, factVars, episode, completion,
                   proposal, available, allocation>>

\* _drive_output_publications begins the rollback of a lost execution.
RollbackLost(l) ==
    /\ ~OwnerFenced(l)
    /\ journal[l] \in {"ACTIVE", "READY"}
    /\ Chosen(l) = None
    /\ record[l] \in {"WORKER_LOST", "ABANDONED"}
    /\ rollback' = [rollback EXCEPT ![l] = "lost"]
    /\ journal' = [journal EXCEPT ![l] = "ROLLING_BACK"]
    /\ UNCHANGED <<record, grantVars, cancelled, slot, deadWorkers, factVars, episode, completion,
                   proposal, available, allocation>>

\* Every compensation was acknowledged, or the owner adopted the output.
RetireOutput(l) ==
    /\ ~OwnerFenced(l)
    /\ journal[l] \in {"ROLLING_BACK", "COMPLETED"}
    /\ journal' = [journal EXCEPT ![l] = "RETIRED"]
    /\ UNCHANGED <<record, grantVars, cancelled, slot, deadWorkers, factVars, episode, completion,
                   proposal, rollback, available, allocation>>

\* The owner of the output is dead: no later Complete may win.
InstallOwnerFence(w) ==
    /\ fenced' = fenced \cup {w}
    /\ UNCHANGED <<record, grantVars, cancelled, slot, deadWorkers, deadSubmitters, draining,
                   episode, outputVars, available, allocation>>

\* _finalize_output_owner_custody.
FinalizeOwnerDeath(l) ==
    /\ Bound(l)
    /\ OwnerFenced(l)
    /\ IF journal[l] = "COMPLETED" \/ completion[l] = "SUCCEEDED"
         THEN CommitOutputLease(l, "SUCCEEDED")
         ELSE IF record[l] \in Live
                THEN /\ ReleaseRecord(l, "ABANDONED", slot)
                     /\ proposal' = [proposal EXCEPT ![l] = None]
                     /\ UNCHANGED completion
                ELSE UNCHANGED <<record, slot, episode, available, allocation, completion, proposal>>
    /\ journal' = [journal EXCEPT ![l] = "RETIRED"]
    /\ UNCHANGED <<grantVars, cancelled, deadWorkers, factVars, rollback>>

-----------------------------------------------------------------------------
\* A Worker process ends, at any time and unnoticed.
ExitWorker(s) ==
    /\ slot[s].process = "running"
    /\ slot' = [slot EXCEPT ![s].process = "exited"]
    /\ UNCHANGED <<record, grantVars, cancelled, deadWorkers, factVars, episode, outputVars,
                   available, allocation>>

\* The supervisor sees the exit and reclaims the Worker's lease.
NoticeExit(s) ==
    /\ slot[s].process = "exited"
    /\ deadWorkers' = deadWorkers \cup {slot[s].worker}
    /\ LET l == slot[s].active
           pool == [slot EXCEPT ![s].process = "vacant"]
       IN  IF l # None /\ record[l] \in Live
             THEN ReleaseRecord(l, "WORKER_LOST", pool)
             ELSE /\ slot' = [pool EXCEPT ![s].active = None]
                  /\ UNCHANGED <<record, episode, available, allocation>>
    /\ UNCHANGED <<grantVars, cancelled, factVars, outputVars>>

UsedWorkers == {slot[s].worker : s \in Slots} \cup deadWorkers

\* A fresh Worker takes the vacant slot, unless the Node is draining.
ReplaceWorker(s) ==
    /\ slot[s].process = "vacant"
    /\ ~draining
    /\ Workers \ UsedWorkers # {}
    /\ slot' = [slot EXCEPT ![s] =
          [worker |-> Min(Workers \ UsedWorkers), process |-> "running", active |-> None]]
    /\ UNCHANGED <<record, grantVars, cancelled, deadWorkers, factVars, episode, outputVars,
                   available, allocation>>

\* BeginDrain.
BeginDrain ==
    /\ draining' = TRUE
    /\ UNCHANGED <<record, grantVars, cancelled, slot, deadWorkers, deadSubmitters, fenced, episode,
                   outputVars, available, allocation>>

LeaseNext(l) ==
    \/ BeginRequest(l)
    \/ \E reply \in {"REFUSED", "PENDING_CAPACITY"} : Refuse(l, reply)
    \/ Grant(l)
    \/ Cancel(l)
    \/ ReleaseLease(l)
    \/ AbandonLease(l)
    \/ Start(l)
    \/ \E sequence \in 0 .. MaxSequence :
          Blocked(l, sequence) \/ Unblocked(l, sequence) \/ UnblockedFirst(l, sequence)
    \/ CompleteFailed(l)
    \/ PrepareOutput(l)
    \/ OutputReady(l)
    \/ CompleteOutput(l)
    \/ CompleteRolledBack(l)
    \/ CompleteConflicts(l)
    \/ RollbackLost(l)
    \/ RetireOutput(l)
    \/ FinalizeOwnerDeath(l)

Next ==
    \/ \E l \in Leases : LeaseNext(l)
    \/ \E w \in Submitters : LearnSubmitterDeath(w) \/ InstallOwnerFence(w)
    \/ \E s \in Slots : ExitWorker(s) \/ NoticeExit(s) \/ ReplaceWorker(s)
    \/ BeginDrain

Spec == Init /\ [][Next]_leaseVars

\* The Node's supervisor always runs; a submitter pushes each lease it was
\* granted or gives it up, and a Worker ends each task it started, unless it dies.
Decide(l) == Grant(l) \/ \E reply \in {"REFUSED", "PENDING_CAPACITY"} : Refuse(l, reply)

StartOrGiveUp(l) == Start(l) \/ ReleaseLease(l) \/ Cancel(l) \/ AbandonLease(l)

Finish(l) ==
    /\ record[l] = "RUNNING"
    /\ \A s \in Slots : slot[s].active = l => slot[s].process = "running"
    /\ CompleteFailed(l) \/ CompleteOutput(l) \/ CompleteRolledBack(l)

FairSpec ==
    /\ Spec
    /\ \A l \in Leases :
          /\ WF_leaseVars(Decide(l))
          /\ WF_leaseVars(StartOrGiveUp(l))
          /\ WF_leaseVars(Finish(l))
          /\ WF_leaseVars(RollbackLost(l))
          /\ WF_leaseVars(RetireOutput(l))
          /\ WF_leaseVars(FinalizeOwnerDeath(l))
    /\ \A s \in Slots : WF_leaseVars(NoticeExit(s))

-----------------------------------------------------------------------------
TypeOK ==
    /\ record     \in [Leases -> {"NONE"} \cup Live \cup Terminal]
    /\ outcome    \in [Leases -> {"NONE", "PENDING_CAPACITY", "REFUSED", "GRANT"}]
    /\ localizing \in SUBSET Leases
    /\ cancelled  \in SUBSET Leases
    /\ grantee    \in [Leases -> Workers \cup {None}]
    /\ slot       \in [Slots -> [worker : Workers, process : {"running", "exited", "vacant"},
                                active : Leases \cup {None}]]
    /\ deadWorkers    \in SUBSET Workers
    /\ deadSubmitters \in SUBSET Submitters
    /\ fenced         \in SUBSET Submitters
    /\ draining       \in BOOLEAN
    /\ episode    \in [Leases -> [sequence : -1 .. MaxSequence, open : BOOLEAN, yielded : BOOLEAN]]
    /\ completion \in [Leases -> {None, "SUCCEEDED", "FAILED"}]
    /\ proposal   \in [Leases -> {None, "SUCCEEDED", "FAILED"}]
    /\ journal    \in [Leases -> {"UNBOUND", "ACTIVE", "READY", "COMPLETED", "ROLLING_BACK", "RETIRED"}]
    /\ rollback   \in [Leases -> {None, "failed", "lost"}]
    /\ Ledger!TypeOK

\* A lease is live exactly while the Worker it was granted on is in the pool and
\* bound to it: no Worker serves two executions, none outlives its Worker in the
\* pool, and releasing one always finds its slot ("lease grant names an unknown
\* ordinary Worker", "active lease has no lease record").
LeasesOnWorkers ==
    /\ \A l \in Leases : record[l] \in Live =>
          \E s \in Slots : slot[s].worker = grantee[l] /\ slot[s].active = l
                           /\ slot[s].process # "vacant"
    /\ \A s \in Slots : slot[s].active # None =>
          record[slot[s].active] \in Live /\ grantee[slot[s].active] = slot[s].worker

\* The ledger charges exactly the live leases, and the CPU of those that are not
\* blocked, whatever the order in which blocking notifications, completions and
\* exits arrive ("running lease CPU allocation disagrees with its request",
\* "open blocking episode could not reacquire its CPU").
LedgerMatchesLeases ==
    \A l \in Leases :
        allocation[l] = CASE record[l] = "NONE"     -> "UNKNOWN"
                          [] record[l] \in Terminal -> "RELEASED"
                          [] episode[l].open /\ Request[l][CPU] > 0 -> "CPU_YIELDED"
                          [] OTHER -> "ACTIVE"

ResourcesConserved == Ledger!Conserved /\ Ledger!AssertionsHold

NeverBlocked == {l \in Leases : record[l] \in Live /\ episode[l].sequence = -1}

\* Only executions that were resumed can overcommit the CPU: those that never
\* blocked fit the Node's total together.
DebtOnlyFromResumed ==
    SumFunctionOnSet([l \in Leases |-> Request[l][CPU]], NeverBlocked) <= Total[CPU]

\* A lease is granted at most once and its execution has one end; the execution
\* of a lost Worker is never turned into a success, which its owner may have
\* retried meanwhile.
ExecutionsEndOnce ==
    [][\A l \in Leases :
          /\ record[l] \in Terminal => record'[l] \in Terminal
          /\ record[l] = "RUNNING" => record'[l] # "GRANTED"
          /\ record[l] = "WORKER_LOST" => completion'[l] # "SUCCEEDED"
          /\ completion[l] # None => completion'[l] = completion[l]]_leaseVars

\* A success is one that the publication journal completed, and it is not rolled
\* back.
SuccessIsPublished ==
    \A l \in Leases :
        /\ journal[l] = "COMPLETED" => completion[l] = "SUCCEEDED"
        /\ completion[l] = "SUCCEEDED" => record[l] = "COMPLETED" /\ rollback[l] = None

\* The Node holds nothing that would keep its shutdown waiting
\* (_cleanup_plane_quiescent_locked): leases, requests, and publications.
Quiescent ==
    /\ localizing = {}
    /\ \A s \in Slots : slot[s].active = None
    /\ \A l \in Leases :
          /\ allocation[l] \in {"UNKNOWN", "RELEASED"}
          /\ Bound(l) => record[l] \in Terminal /\ journal[l] = "RETIRED"

\* What BeginDrain fences stays finished: once the draining Node reports that
\* it is idle, no delayed call gives it work again.
QuiescenceIsStable == [][draining /\ Quiescent => Quiescent']_leaseVars

\* The ledger and the leases tell one story at every step: a live lease is on one
\* Worker of the pool, the ledger charges what the live leases hold and no more, and
\* the Node owes a CPU only for executions it has resumed (_release_leased_worker_locked,
\* _handle_notify_worker_unblocked, ResourceLedger).
LedgerSound ==
    /\ TypeOK
    /\ LeasesOnWorkers
    /\ LedgerMatchesLeases
    /\ ResourcesConserved
    /\ DebtOnlyFromResumed

\* A draining Node becomes idle: leases, requests and publications come to an end
\* after BeginDrain.  A proposal to complete is not among what Quiescent asks for.
DrainConverges == draining ~> Quiescent
=============================================================================

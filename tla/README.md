# mini-ray: a verification development

TLA+ modules for mini-ray (`src/src/miniray/`), the TLC configurations that check
them on small instances, and TLAPS proofs for every value of their constants.
Paths below are relative to `src/src/miniray/` unless they start with `src/`.

    tlc -workers 2 -config <run>.cfg <module>      (runs: PROJECT.json, "runs")
    tlapm <module>Proofs.tla

## 1. The system

mini-ray is Ray Core in miniature. One GCS process (`control.py`), one or two
Nodes (`node.py`) that supervise one or two Worker processes each (`worker.py`),
and a Core (`core.py`) in the driver and, for nested tasks, in every Worker. They
talk over request/reply TCP (`transport.py`); a failed call says either that it
was not delivered (`TransportConnectionError`) or that nobody knows.

    Core --RequestWorkerLease / Release / Cancel / Outcome--> Node
    Core --PushTask--> Worker --Start/CompleteWorkerLease, Blocked/Unblocked--> Node
    Node --PublicationAuthority requests--> GCS
    Node --register / adopt / abort an output--> owner's Core
    Core, Node, Worker --membership, death reports, placement groups, actors--> GCS

A Task that returns a value passes the GCS in a fixed order: INTENT, PREPARED
(the containment edges are reserved), ARMED (the Node holds value and children),
TERMINAL (the lease completed), COMMITTED, then the owner makes it READY and
reports ADOPTED. What is given up or replaced is FENCED and then RETIRED.

### Inventory

| component | state | operations | what makes it hard | what makes it correct |
|---|---|---|---|---|
| GCS publication authority, `enhanced_publication.py` | one record per publication: receipts, fence, facts | `apply` of INTENT, PREPARE, ARM, TERMINAL, COMMIT, ADOPT, FENCE, RETIRE | replayed and delayed requests of several attempts, Nodes and owners | attempts of an object serialized, containment acyclic, adopt or abort |
| Node worker leases, `node.py` | lease records, cached replies, tombstones, pool, death fences, journal | request (two locked parts), cancel, release, start, blocked, unblocked, complete, exit, drain | concurrent handlers, a lock released in the middle, dying Workers, late calls | a lease is on one Worker, charged once, ended once; a drain converges |
| Resource ledger, `resources.py` | units left, allocation per token | allocate, release, yield and reacquire CPU | a resumed execution overdraws the CPU | units conserved, only the CPU overdrawn |
| Core task dispatch, `core.py` 9200-10900 | pending tasks, `_protocol_unresolved`, attempt | dequeue, lease, push, replay, outcome, retry, publish, finish | every answer can be lost; replays; bounded retries; shutdown | one result, no overlap of attempts, the lane ends |
| Worker execution, `worker.py` | executions by attempt and lease | `_begin_task`, start, run, complete, reply | the same Push twice, beside itself or late | user code once per attempt |
| Node output publication, `output_publication_node.py`, `output_publication_journal.py`, `output_protocol.py`, `enhanced_publication_client.py` | journal of effects | bind, register, prepare children, materialize, arm, promote, commit, roll back | an effect fails after others were acknowledged | all effects or none |
| Owner hand-off, `output_handoff.py`, `output_discovery.py`, `contained_edges.py`, `publication_gate.py`, `task_outputs.py` | hand-off records, gate | register, adopt, abort, discover | Node dies between Complete and adoption | the owner adopts or aborts |
| Publication control, `enhanced_publication_control.py` | clean-up work of dead owners, gate | admit, clean up, close | runs outside the GCS lock | every publication of a dead owner retired, once |
| Object ownership, `ownership.py`, `ref_transfer.py`, `retained_replacement.py`, `owner_service.py` | per object: state, local, borrowed, submitted, contained references | add and release references, complete, collect in two phases | late and repeated releases, transfers in flight | no collection with a reference, eventually a collection |
| Owner puts, `put_handoff.py` | put records | discover, register, commit | partial failure | as outputs |
| Lineage, `recovery.py`, `reconstruction_runtime.py`, `owner_reconstruction.py`, `foreign_lineage*.py` | producers, attempts, budgets | reconstruct, coalesce, finish | stale successes, two consumers | one attempt at a time, budget kept |
| Object store and transfer, `object_store.py`, `object_manager.py`, `transfer_pins.py`, `replica_cleanup.py` | bytes, pulls, pins, deletions | pull by chunks, pin, delete | late location reports, abandoned pulls | bytes of a live object stay, others go |
| GCS membership, `control.py`, `death_proofs.py` | registries, death journal | register, heartbeat, report, fence | repeated and reordered reports | an incarnation dies once |
| Death fences, `owner_death_fence_registry.py`, `node_death_view.py`, `node_monitor.py` | fan-out, barriers | spread, acknowledge | a Node joins meanwhile | every live Node fenced |
| Placement groups, `placement.py`, `placement_group_runtime.py` | group, bundle reservations | plan, prepare, commit, remove | rejection, removal and Node death between phases | all bundles or none, nothing leaked |
| Actors, `actor_*.py`, `control.py` | registry, generation, route, mailbox | create, restart, call, tell the owner | answers and routes that arrive late | one route per epoch, calls of a generation in order, at most once |
| Blocking notifier, `blocking.py` | nesting, sequence | block, unblock | lost notification | balanced episodes |
| Dependencies, `dependency.py`; scheduling, `resources.py`, `lease_policy.py` | - | encode; rank Nodes | - | pure |
| Cluster API, `api.py` | processes, shutdown phase | start, shut down | two observations of a moving system | shutdown only of an idle cluster |
| Transport, wire types, function registry, tracing | - | - | - | not modelled: I/O and data |

PROJECT.json lists the same components with their status and, under "hazards",
the places where the code could go wrong out of reach of a test, with the
properties that watch over them or the reason why none does.

## 2. Modules

| module | models | kind |
|---|---|---|
| ObjectEpochs | what the authority promises | abstract specification |
| ContainmentGraph | cycles of a containment relation, without RECURSIVE | operators |
| PublicationAuthority | class `PublicationAuthority` | component; implements ObjectEpochs |
| CycleSearch | `_would_cycle`, one stack entry per step | algorithm against the reference `Acyclic` |
| ResourceLedger | class `ResourceLedger` | component |
| WorkerLeases | lease handlers of `NodeServer`, supervisor, journal in outline | component; composes ResourceLedger by INSTANCE |
| RetryBudget | the attempts that `_next_attempt` can reach | constants shared by TaskDispatch and ForeignLineage |
| TaskDispatch | the Core's lane for one Task with a Node and its Workers | composition of Core, Node and Worker |
| OutputPublication | one output from its prepared value to READY, rolled back or lost | composition of Worker, Node, owner, child owners and the authority (INSTANCE of PublicationAuthority) |
| ObjectOwner | one object's references, locations and collection | component with its peers |
| ObjectTransfer | pulls, source pins, deletions, custody of the inputs of leases | composition of Nodes, submitters and owners |
| NodeDeaths | exits of Nodes and Workers, and who learns of them when | component |
| PlacementGroups | two-phase reservations | component; extends NodeDeaths |
| Actors | creation, restarts, routes, calls | component; extends NodeDeaths |
| ClusterControl | the three above | composition: one handler of a Node's death goes through all |
| ForeignLineage | the hold of a Task on an input of another owner, and the saga that moves it to the next attempt | component |
| Reconstruction | recovery of lost outputs by gets, local and remote | component; extends ForeignLineage |
| FiniteSums | what happens to the sum of a function over a finite set when one value changes | lemmas |
| PublicationAuthorityProofs, TaskAttemptsProofs, ObjectOwnerProofs, WorkerLeasesProofs, OutputPublicationProofs, ObjectTransferProofs, ClusterControlProofs | | theorems about the module each is named for; TaskAttemptsProofs covers TaskDispatch, ForeignLineage and Reconstruction, PublicationAuthorityProofs CycleSearch too, ClusterControlProofs NodeDeaths, PlacementGroups and Actors |
| MC... | instances for TLC | |

Every definition of these modules that translates code is listed in PROJECT.json
"map" with the lines it translates. Definitions whose comment begins "Mutant of"
are not part of the specification: they are deliberate errors, and show which
property notices each of them.

**PublicationAuthority.** The reducer runs under one lock, so a request is one
action. A record is its set of issued receipts (`stages`) and the facts given
with them. Receipt numbers are left out: they are compared only inside one
publication, whose stages are never withdrawn. A rejected request and the replay
of an accepted one leave the record alone and are stuttering steps. `Begin` and
`Fence` register a publication and check its binding against all known ones
(`_validate_binding`): the owner's route, the owners that manifests claim for
children, and for an execution that earlier epochs of the object are retired and
have lower attempt numbers. `Retire` takes a settlement of child holds
(`ClosedContainedHolds`) that covers every hold that may exist.

**CycleSearch.** The explicit stack of the code, with entering and leaving
entries, duplicates included, and the order in which children are pushed left
open. It decides the guard `WouldCycle` of `Prepare`. Its names differ from those of
PublicationAuthority (`SearchSpec`, `Vertices`), so that one module can prove about both.

**WorkerLeases.** All handlers may be called at any time for any lease, which is
what retries, late calls and dead senders amount to. What happens under
`_state_lock` is one action; `RequestWorkerLease` lets go of that lock to localize
dependencies and is `BeginRequest` followed by `Grant` or `Refuse`. The journal of
an execution's output is its state only: active, ready, completed, rolling back,
retired. OutputPublication has the effects between these.

**TaskDispatch.** One Task. The lane of the Core makes one call at a time; the
attempts that one call makes inside the transport count as one call. A call is
answered, fails to connect (not delivered), or times out: delivered or not, its
answer lost or not, or still on its way (`strays`, fault "delay"). `unresolved` is
membership in `_protocol_unresolved`, which is set before the first byte of a call
and decides whether `_publish_task_error` does anything. The Node is reduced to the
lease of each attempt, with the guards of WorkerLeases; the Worker to how far it
got with the attempt's execution and who waits for its handler. The constant
`Faults` selects what may go wrong: "death" of a Worker, "delay" of calls, "exit"
(user code raises SystemExit, which ends the handler's thread), "shutdown" (the
Core's shutdown deadline passes).

**OutputPublication.** One publication. The Node's supervisor, the owner's driver
and the GCS's driver each run rounds: a round takes its ticket, does the next
step that is not done, which may be an RPC, and on failure gives the ticket back
and is scheduled again. `call` is the one RPC a caller has outstanding; its callee
serves it (`Deliver`) or refuses it, and a caller that gives up first leaves the
request in `late`, from where it may still arrive. An exit (`down`) is seen by the
others only after the GCS has recorded it (`dead`) and they have been told
(`told`). The authority is INSTANCE PublicationAuthority with this publication
alone; whether its graph closes a cycle is chosen at the start.

**ObjectOwner.** A reference is a token with a kind, a holder and, when it was
exported from another reference, a source; a token is used once. Requests of
other processes may be given up by the caller and still arrive, before or after
the release that follows them, which is why the owner keeps the tokens that were
given back (`released`). Two drivers, the reference mailbox and the thread of a
releasing RPC, may collect the same object; `todo` is the obligation record that
they share, and each step that a driver takes outside the lock is an action.

**ObjectTransfer.** The thread that serves a lease request holds the object's lock
from its check to the end of the pull, and lets go of the Node's state lock at
each RPC; every such gap is a step boundary. The owner is reduced to the attempt
and the locations of an object. An object's copy belongs to the attempt that
made it; a store has places, and a pull takes one before its bytes arrive.

**NodeDeaths, PlacementGroups, Actors, ClusterControl.** The Driver sees a Node's
process exit and reports it; the GCS commits the death, then fails the groups of
the Node, then its Actors, and answers whether all owners know. Then the Driver
installs the new membership on every survivor, certifies it, and tells the
owners. The handler's two parts belong to PlacementGroups (`GroupDeath`) and Actors
(`ActorDeath`), and what the owner's Core does to its groups with the notice is
`MarkLost`; ClusterControl joins them. The GCS holds an Actor's lock over a whole create or
exit report, RPCs included, and `alock` says how far its handler is. What an owner is told of
an Actor's route is a message: the answer to a create (`reply`, which `TakeReply` takes), a
pushed install, or the state that a call which failed asks for (`QueryState`). The GCS
either has the owner's acknowledgement (`Acked`) or not (`NotAcked`); an install without it
may have been applied, may be applied late, after newer ones, or never (`installs`,
`ReceiveLate`). A Worker's death is spread to every Node as a
fence on what it owned, before the GCS schedules on that Node again.

**ForeignLineage, Reconstruction.** A get of a lost output previews which Tasks
have to run again (`Preflight`), drives the renewal of their foreign holds
(`Drive`, `Replace`, `ConcludeDrive`), checks again under the lock (`Check`), retires
the lost publications (`Retire`), and commits all attempts (`Commit`). The lock is let
go between these, and any number of gets do it at once. An execution is one
step here (TaskDispatch has it), and so is the retirement of a publication. The names
differ from those of TaskDispatch (`RecoverySpec`, `HandleReconstruction`), because one module
proves theorems about both.

## 3. Runs

| run | instance | shows |
|---|---|---|
| epochs | a Task of A returning a value that contains B, its retry, a put of B containing A, and a second put under the same key that claims A for another owner | snapshot consistency, acyclicity, adopt or abort, and the refinement of ObjectEpochs |
| cycle_search | all graphs over 3 objects, all orders | the search is right |
| leases | 2 leases of the driver on 2 slots with 3 Workers, 1 CPU, 1 GPU, one blocking episode, one output | leases on Workers, the ledger agrees with them and conserves (`LedgerSound`), one end per execution, success is published, drain converges and stays idle |
| dispatch | all faults, 1 retry, 1 replay, 2 late calls | execution fenced, cancelled leases hold nothing, a finished Task is published, READY only after COMPLETED |
| dispatch_liveness | Worker deaths, lost calls and answers, 1 retry, 1 replay | user code at most once per attempt, every Task finishes |
| publication | one contained reference, inline or stored, one exit of any process or one RPC given up | READY is committed and pinned, retired edges hold no pin, one outcome, every publication settles |
| objects | four sets of references of three processes, two Nodes, shutdown, and one lost request or answer between processes that share references, or one exit; no call to the GCS is lost (`GcsFaults` = FALSE) | held objects are kept, nothing given back returns, all copies accounted for, the GCS fenced first, collection in the end |
| cluster | nine use cases of up to 3 Nodes, 2 Workers, 2 groups, 2 Actors, with up to two exits or one lost RPC; what an owner is told may come late, out of order or never | survivors know first, no orphans where the GCS schedules, records match reservations, routes agree, calls once and in order |
| transfer | 3 Nodes, 2 leases sharing an input, 2 objects, room for one at the target, one lost call, an exit of a source and of a submitter | pins keep replicas, places come back, copies accounted for, inputs of a running Task stay |
| transfer_liveness | 2 Nodes that may both exit, 2 leases with one object as input, one lost call, an exit of a submitter; no other attempt's copy on the target (`Makers`, section 6) | pins released, custody settles |
| recovery | a chain of 2 Tasks, the first with a foreign input; a local and a remote get; 2 losses, 2 retries, one lost call, F mortal | epochs agree, inputs held, all settles |
| renewal_stranded | two gets, no fault | a disagreement of code and document, section 6 |

Each module's type invariant is a conjunct of one of its run's invariants
(`LedgerSound`, `OneOutcome`, `NothingComesBack`, `CustodyAccountedFor`, `SurvivorsKnowFirst`,
`RecordMatchesReservations`, `RoutesAgree`), or is proved (section 4).

### Bounds and why they are enough

* `epochs`: two attempts are the least that can overlap, and two objects that
  contain each other the least that can form a cycle; every pair of manifests can
  conflict in the key, the owner or the route of a binding. Objects beyond two
  only add longer cycles, which CycleSearch covers and its proof generalizes.
* `leases`: a Worker lost and replaced while another lease waits needs two
  leases and one more Worker than slots; the CPU debt needs two CPU leases for
  one CPU; `MaxSequence` = 0 is one blocking episode in either order of its two
  notifications; a second episode repeats the first, because an episode is opened
  only when the one before it is closed.
* `dispatch*`: one retry gives two attempts, one replay both branches of
  `_handle_ambiguous_lease`, and two late calls are a request and its cancellation, or
  a Push and a request, in both orders. `runs` stops at 2, one beyond what is
  allowed. TaskAttemptsProofs removes these bounds.
* `publication`: the rounds treat children one after the other in the same way, and
  one child already has a hold that is intended, acknowledged, promoted or
  released. One fault (`MaxFaults`) is an exit or a time-out at any step, with the
  late request it leaves; a call to a process that has exited is refused.
* `objects`: `MCUses` are the ways references meet: a Task with a borrow by its
  attempt; a container with a reader; a peer that borrows and keeps what it got in
  a value of its own; and lineage. All four kinds at once are out of reach in time;
  ObjectOwnerProofs removes the bound.
  Two Nodes, one of which makes the bytes, so that a copy may be localized and
  lost. One fault of a request, an answer or a process.
* `cluster`: `MCUses` lists what is present and how much may fail in one behaviour, since
  all at once is out of reach: a group that packs and one that spreads, an Actor
  of the driver that may restart once and one owned by a Worker, two exits in
  either order, or one exit with one lost RPC. A third Node is there to join or to
  survive two exits. One lost RPC leaves one route behind that an owner may get at any
  later time, and the answer to a create is another; an Actor that may restart
  once goes through up to four epochs, which can overtake both.
* `transfer*`: the pull's source is one of two other Nodes, so a reconstruction can
  move it; two attempts of an object distinguish an old copy from a new one; the
  shared input makes two threads meet at one record; room for one object makes the
  second pull fail. `Rounds` = 1: a lease is asked for once, and a request that is
  refused is given up. Liveness is checked on one object, because the custody of
  two is out of reach in time, and on two Nodes, the source and the target of a
  pull, either of which may exit.
* `recovery`: a chain of two has one Task that waits for another; two gets are
  the least that can overlap; `MaxRetries` = 2 is a recovery after a recovery, which
  `MaxLosses` = 2 allows. With `MaxFaults` = 2 the run passes too, in 1.1 million states.
* `CHECK_DEADLOCK FALSE` everywhere: a Task that finished, a drained Node, a search
  that answered, a settled publication, a collected object and a cluster with no
  work left stop.

### Fairness

* WorkerLeases (`FairSpec`): the supervisor and the handler of a request run (weak
  fairness of `Decide`, `NoticeExit`, `RollbackLost`, `RetireOutput`, `FinalizeOwnerDeath`);
  a submitter pushes or gives up what it was granted and a living Worker ends
  what it started. Nothing is assumed of cancellations, deaths or late calls.
* TaskDispatch (`FairSpec`): weak fairness of the lane's own turns, of the deadline of a
  call (`TimesOut`), of user code's return and of noticing a death; strong fairness
  of delivering a call and its answer, since the lane repeats what is ambiguous
  without limit and calls may fail any number of times in between. Capacity is
  some time granted or refused and a roll-back is some time over: each is the
  progress of the Node, which WorkerLeases checks as `DrainConverges` for its own
  part. `_execute` has no limit of its own for these waits, so without them a Task
  may wait for ever.
* OutputPublication: weak fairness of every driver's rounds, of serving or refusing an
  RPC that is not given up, and of a recorded exit reaching those who watch for it.
  Nothing of exits, time-outs and late requests. Time-outs are bounded by
  `MaxFaults`, so no strong fairness is needed.
* ObjectOwner: the mailbox, the two drivers, timers and polls run; a holder
  that no longer needs its reference closes it; requests in flight are served or
  given up. No process has to exit, and no reference has to be taken.
* ObjectTransfer: the Node drives what it has to release or hand over, submitters
  repeat unanswered calls, recorded deaths reach everybody. No Task has to end and
  no object to be collected. All of these steps together are finitely many in a
  behaviour, which is why weak fairness of their disjunction is enough.
* Reconstruction: the coordinator, the reference threads, the executions, F's
  production and the membership poll (`Background`), and every get's own thread.
* ClusterControl has safety properties only.

## 4. What is proved

The proofs hold for every value of the constants that satisfies the named
ASSUME of the module.

* **PublicationAuthorityProofs** (assumes `PublicationsAssumption`; Objects, Owners and
  Publications may be infinite): `TypeOK`, `SnapshotValid`, `ActiveGraphAcyclic`,
  `EpochsSerialized`, `AdoptedOrAborted`, the action property
  `StaleEpochStopped`, and that every behaviour implements ObjectEpochs. The
  invariant joins the consistency of each record with the serialization of
  epochs; the latter alone is not inductive, because a receipt is only known to
  follow its prerequisites from the former, and a fence recorded before its
  publication must be known to keep it from being admitted. Acyclicity needs
  that removing publications removes edges only (a subrelation of an acyclic
  relation is acyclic) and that `Prepare` is the only action that adds one.
* **PublicationAuthorityProofs**, of CycleSearch (assumes a finite set of vertices): `Correct`. The
  invariant, `SearchInvariant` of CycleSearch, says that the leaving entries of
  the stack spell out the current path, that each entry is a child of the path
  vertex closest below it (so a vertex of the path met again closes a cycle), that
  the children of a path vertex are done or wait above it, and that the done
  vertices are closed under containment and acyclic (so at the end, when all
  roots are done, the graph is). A vertex that is left extends the done set
  because its children are all in it (`AcyclicAdd`).
* **TaskAttemptsProofs**, of TaskDispatch (assumes `RetryBudgetAssumption` and
  `DispatchAssumption`: any retry budget, any number of replays and late calls, any
  set of faults): `TypeOK`, `ExecutionIsFenced`, `SupersededIsOver`,
  `ReadyIsCompleted`, `FinishedIsPublished`, `CancelledHoldsNothing`; and
  `RunsOncePerAttempt` where user code does not raise SystemExit. None of these is
  inductive. `DispatchInv` adds what the three sides know of each other: the lane
  waits for the call its phase names; later attempts are untouched; the Node's records
  agree with each other; a Push is sent only under a lease, not before a grant, and
  until that lease is over the lane stays in the phases in which the Task is
  unresolved; the handler that the lane waits for is the current attempt's; the
  execution and its lease keep step; and an answer that ends the attempt (a result, or
  a terminal lease state) is still true when it is read, because what is over stays
  over. One lemma per action, and three for the turns several actions share:
  publishing an error, retrying, and giving a call up.
* **TaskAttemptsProofs**, of Reconstruction (assumes `RetryBudgetAssumption`,
  `ForeignLineageAssumption` and `ReconstructionAssumption`: any finite set of Tasks with any
  inputs, of this process and of F, any getters, any retry budget, any number of losses
  and lost calls, F mortal or not): `EpochsAgree`, `InputsHeld`. `RecoveryInvariant` adds to
  `EpochsAgree` what the lock sections of a get rely on across the gaps between them.
  *Threads*: at most one drives the renewal of a hold, and it is one that its plan
  still needs (`Passes`); after the check under the lock no hold of the plan is left to
  renew (`AllDriven`). *Plans*: a plan made before others moved on may be out of date, but
  is never ahead of the next attempt, nor of the attempt whose holds an active
  execution uses (`PlansInTime`); that is why a renewal for an old plan cannot move a
  hold from under an execution. *Executions*: each is that of the active attempt
  (`JobsCurrent`), attempts are queued in order (`QueuedOnce`), and what is collected has no
  execution and no reader that may run again (`Collected`). *Foreign holds*: what F
  released it never holds again (`ReleasedForGood`); F keeps one hold of a registered
  Task, the one the record names or the one that took its place while the answer is
  outstanding (`OneHold`); and a late request either finds its old hold released or is
  the one the open session asked for (`LateRequests`). `InputsHeld` alone is not inductive:
  without `LateRequests` a replacement that was given up could arrive after the Task
  was queued. The lemmas follow the variables: what a step does to the records
  (`RecordsStep`), to the threads and to the holds is shown once for the few shapes that
  steps have, and each action is matched with its shape. One conjunct of `Passes`
  needs that a non-empty set of Tasks has a least member (`LeastTask`), because the code
  takes Tasks in order.
* **ObjectOwnerProofs** (assumes `ObjectOwnerAssumption`; any set of tokens with any
  sources and holders, any Nodes, any number of faults): `HeldIsKept`,
  `NothingComesBack`, `CopiesAccountedFor`, `FencedFirst`. `OwnerInv` has three parts
  besides the types. *References*: a token was used before it can be known, given
  back or still on its way, and leaves the table only because its holder gave it
  back, died, or lost the Task hold it came from; without the first half a late
  registration could not be told from a first one. *Collection*: a driver is past
  the fence only if the work record that both drivers share says so. *Copies*: each
  copy is a location of the active object, part of the frozen plan, queued for
  deletion or still to be reported, and a Node that deleted the object does not
  store it again; `CopiesAccountedFor` alone speaks of the end only and is not
  inductive.
* **WorkerLeasesProofs** (assumes `LeasesAssumption`: a finite set of leases, any Workers and slots,
  any demands and totals): `LedgerSound`, `SuccessIsPublished`, and the action properties
  `ExecutionsEndOnce` and `QuiescenceIsStable`. `LeaseInv` adds to `LedgerSound` that a CPU
  is given up exactly while a blocking episode of a running execution is open, and
  what the end of an execution and the state of its journal say of each other.
  Conservation is a statement about sums: an action changes the allocation of one
  lease, and **FiniteSums** (`SumOfOneChange`, `SumIsMonotone`) turns that into one
  difference, which the ledger takes from or adds to what is left (`LedgerStep`).
* **OutputPublicationProofs** (assumes `OutputPublicationAssumption`, any number of children, any
  processes that may exit, any number of faults, and that `None` is none of the names in
  use): `ReadyIsBacked`, `RetiredHoldsNothing`, `OneOutcome`. The parties meet only through
  requests that may be late, so `Invariant` is about what lasts. *Requests*: whatever is
  under way, late or not, was justified by what its sender knew and still is
  (`SentJustified`: a RecordTerminal by a Complete, an Arm by promoted children, a release
  by somebody who gave the publication up, a retirement by releases of every pin that
  may exist). *Answers*: an accepted request has had its effect, which nothing undoes
  (`AnswersEffective`). *Pins*: a released pin is gone for good (`Gone`), and all that the
  Node, the owner and the GCS remember as released is gone. *Records*: the journal, the
  owner's entry, the authority's record and the pins of each child agree
  (`NodeConsistent`, `OwnerConsistent`, `GcsConsistent`, `PinsConsistent`). A READY object's child
  could lose its pin only to somebody who gave the publication up (`Undone`), and a
  Complete excludes each of these: the Node has rolled nothing back, the owner lives,
  and it did not choose to discard. A retired publication holds nothing because either
  every pin is gone, or the rollback's plan is, which has every pin that was intended.
  A step is taken apart by the party that takes it (`Parties`), and what each party's
  part leaves true is one lemma (`NodeStep`, `OwnerStep`, `GcsStep`, `ChildGrows`, `FaultStep`,
  `NetStep`, `NodeMemory`); the invariant follows from these.
* **ObjectTransferProofs** (assumes `ObjectTransferAssumption`: any sets of Nodes, objects and
  leases, any capacities, inputs in any order but none twice, any bounds on attempts,
  rounds and lost calls, any Nodes and submitters that may exit): `PinKeepsReplica`,
  `RoomComesBack`, `CustodyAccountedFor`, `InputsStay`. `TransferInvariant` adds to them what a
  thread, its lease and the owner know of each other. *Threads*: a thread that has passed
  an input left it in the lease's custody (`ThreadPlaced`); no two threads are inside one
  object's lock (`LocksExclude`), so the place a thread took is there when it comes back
  to it (`PullsOwnTheirPlace`), and nobody else removes it. *Copies*: a location is that of a
  ready object, and a copy is owed a deletion only when its attempt is past
  (`OwnersRecord`), so what is deleted is never what is wanted; a Node that deleted a copy
  takes it in no more (`NothingReturns`). *Custody*: a held copy is stored or was deleted
  (`CustodyKept`), and each copy that nobody else knows is in the custody of a lease that
  has not handed it over (`Accounted`). *Hand-off*: a reported copy is known to the owner
  (`ReportsKnown`), and as a location while the Task has not been given up (`RunsKnown`); a
  Task runs only after all it holds was reported and acknowledged (`Phases`), which with
  the location's copy gives `InputsStay`. For each variable one lemma says which actions
  change it (`StoreChanges` ... `OwnerChanges`) and another what its change looks like
  (`StoreStep` ... `OwnerStep`); each conjunct is then carried over by the few that it reads.
* **ClusterControlProofs** (assumes the named assumptions of NodeDeaths, PlacementGroups
  and Actors: finite sets of Nodes, groups and calls, any Workers and Actors, any use
  of them, any number of exits and lost RPCs), with one invariant for each part; a later part uses
  those of the earlier ones, never the other way round.
  * *Membership*: `SurvivorsKnowFirst`, `NoOrphansWhereScheduled`. `DeathInv` says that the
    history of memberships only loses Nodes, so that a death has one epoch and that
    epoch stays what it was; that a transaction in its installing step names no
    death and every survivor it is done with has its epoch; and that a death that
    anybody was told of, is being told of or has in its view is recorded and
    installed on every live Node. The last is what makes the property inductive: a
    Node that is told by a poll hears from the GCS's view, not from the Driver. For
    Workers: each dead owner and live Node has its fence under way, or installed
    with nothing behind it.
  * *Placement groups*: `RecordMatchesReservations`. `GroupInv` relates the phase of a
    record to its progress, the lock of a group to the rounds under way, and the
    progress to what the Nodes reserve: no abort is under way or late while a group
    is being formed, so a late request cannot undo what is counted on. `DeathPasses`
    follows a death through the groups: until it has listed them anything goes,
    then each group that counts on the Node is listed or held and about to fail,
    even one whose plan was made from a snapshot taken before, because the death
    waits for the lock of every group it listed.
  * *Actors*: `RoutesAgree`, `CallsOnceInOrder`. Routes may arrive in any order, so `ActorInv`
    says what an epoch alone tells: a generation has the epochs around twice its number
    (`RecordFits`), and every route that the owner has, or may yet receive, is one that the record
    had at that epoch (`RouteFits`); two routes with one epoch are then the same, and the
    epoch guard of an install is enough to keep what is late from undoing what is newer.
    `Knows` says when the GCS may rely on the owner, and `Reports` that an accepted exit
    whose outcome the owner may not know is still reported by its Node. Besides, an Actor
    routed to a dying Node has yet to be examined; and what a mailbox
    admits and runs is numbered from zero without a gap. A mailbox admits up to the
    first gap in the numbers it has, and there is one no higher than the number of
    calls (`FirstGap`, by the pigeonhole principle).
  In the composition a step of one part leaves the others' variables alone, except the
  handler of a Node's death and the exit of an Actor's Worker; `GroupStepsAlone`,
  `GroupDeathMoves` and `ActorsAloneKeep` say so, and carry each invariant over the other
  parts' steps.

Each of these invariants was checked by TLC on the instance of the module's run before
it was proved.

The library's induction theorems take an operator as a parameter and cannot be used
here. Where a proof needs an induction it is stated as an argument about a least or
a minimal counterexample (`MinimalSubset`, `MinIsMember`, `LowestIsIn`, `FirstGap`), which the
well-foundedness theorems give without one. That reaches sums and minima; what a
recursive definition computes in general stays out of reach.

Only model-checked: ResourceLedger's assertions about its own calls outside the use that
WorkerLeases makes of it; and all liveness (`DrainConverges`, `TaskFinishes`, `PublicationSettles`,
`EventuallyCollected`, `PinsReleased`, `CustodySettles`, `Settles`): liveness under fairness
and ENABLED are beyond the prover.

## 5. What is not modelled

* TaskDispatch: spillback as a second hop (it repeats the request under the same
  LeaseID elsewhere), placement-group routing of a lease, and the death of the Node under
  a lane (a Worker's death is there). A Task's output is one
  object; a Task with several outputs publishes them together.
* WorkerLeases: placement-group leases and actor Workers.
* OutputPublication: discovery and encoding of the contained references; the gate
  of the publication control at shutdown; several publications at once (the
  authority's own run has those).
* PublicationAuthority: the wire types and their validation; a manifest is what
  the guards compare. Children are credentials `<<object, owner>>`.
* ObjectOwner: one object at a time; a contained hold's two phases are one hold, as
  OutputPublication has them. Lost calls to the GCS during a collection are left out
  of run `objects` (`GcsFaults` = FALSE), for the reason given in section 6.
* ObjectTransfer: chunks, and spilling from one store's limit to another. Copies of
  another attempt are not produced on the target Node while it localizes (`Makers`),
  for the reason given in section 6. So the runs never have an exited submitter's lease with
  candidates left after the Node took it over, and the repeated reconciliation of `Abandon`
  is there, and in the proofs, but not exercised by TLC.
* ClusterControl: the packing policy (any plan that fits may be chosen), the
  mailbox's capacity, the drain of Actors at shutdown, an owner that takes its
  provisional registration back because the GCS cannot be reached or has closed
  (`core.py` 3637-3664, 3830-3839), and liveness.
* Reconstruction: outputs lost with a placement group, the shutdown gates
  (`_accepting`), the gate of a late replica clean-up, holds nested in foreign values,
  targeted terminal failure (`recovery.py` 787-832), several foreign inputs of one
  Task, the reply cache of the reducer.
* Whole components: dependency encoding, the scheduling policy (a ranking; the
  models let any Node be chosen), the driver's shutdown barrier, the blocking
  notifier inside a Worker, framing, sockets, pickling, process start, tracing, the
  function registry.

## 6. Where the code and its documents disagree

**renewal_stranded** is a run: the module docstring of `foreign_lineage_runtime.py`
says that a caller drives the saga to READY "and only then commits that attempt".
A second get drives it for an attempt that the first has committed already
(`core.py:7373`), the check under the lock then returns without completing the session
(`core.py:7409-7410`), and every later renewal of the Task is refused
(`foreign_lineage_runtime.py:299-302`). `recovery` passes with the same steps, because
the get that is refused does end, with an error.

Writing the models brought up more places of this kind. They have no run; the
modules have the steps that lead there, except where it says otherwise, and the
properties are stated so that they hold with them.

Node and dispatch:
* `node.py:1450`: a failed Complete that arrives after the supervisor's roll-back has
  begun records its proposal and then raises, and nothing removes it, though
  `node.py:1444` says "Remove only that uncrossed proposal so supervisor rollback can
  proceed". The drain never becomes clean; `Quiescent` does not count proposals.
* `worker.py:672`: SystemExit in user code ends the handler without a cached reply; the
  replayed Push starts the Task again, against `src/docs/design.md:246-248`.
* `core.py:9715`: the obligation that "fences shutdown" (`core.py:9679-9680`) is cleared by
  the lease's reply and set again at the Push; a shutdown deadline in between
  publishes an error while the lease is held.
* `core.py:10238`: a lease request that timed out is answered through its replay, which
  clears the ambiguity of the first copy; it may still be granted behind a
  published error, against `src/docs/design.md:234-238`.
* `core.py:9972-9973` takes a remote error of a Push for a rejection before the Task
  started, while the code that handles it (`core.py:11398-11407`) treats it as a Push that
  may have run. The model follows the code; the mutant `PushFailedUnstarted` is the
  comment's reading.

Publication and objects:
* `core.py:11526`: when the Node has aborted the hand-off in its own rollback before it
  died, the owner's abort under another reason conflicts, its choice has no fence,
  and each later round fails at `core.py:11535`. `PublicationSettles` names this state
  (`FenceMissing`).
* `core.py:691-693`: a call to the GCS that fails while the mailbox drives a collection
  is dropped, and nothing replays it before shutdown, though `core.py:5004-5007` says that
  it is. The step is in ObjectOwner, under `GcsFaults`.
* A Node refuses a pull when the record of an earlier, finished pull of the same
  object names another source or attempt; the lease that asks is refused, though
  no pull is under way.
* When another attempt's copy is sealed on the target while a lease localizes,
  the custody of that lease cannot be handed over until that copy is gone (`node.py`
  5436-5470, 5830-5858).

Control plane:
* A group whose Node dies before it is created is answered as retryable for ever,
  and `create_placement_group` does not return (`core.py:4030`).
* When an Actor's owner is a Worker that died, the report of a Node's death that
  has to tell that owner does not converge, and no owner learns of the death.
* An Actor with restarts left whose Node is lost becomes DEAD (`control.py` 1299-1346), as
  `src/docs/current-status.md:16` has it. `src/tests/integration/test_actor_node_loss_migration_path.py`
  (lines 380-387), which `src/docs/acceptance-matrix.md:239` lists under E12, asserts that
  its next generation is ALIVE on the surviving Node. The model follows the code (`FailActor`).

Recovery:
* After a lost answer to a replacement, the collection of the output raises
  (`foreign_lineage_runtime.py:769-776`), and the foreign hold stays until shutdown.
* A BUSY answer clears `uncertain` (461-466) although an earlier request that was given
  up may be applied later; the hold it makes then leaks when the record is
  collected. So `InputsHeld` says that F keeps one hold while the Task may run
  again, and `Settles` speaks of the hold the record names.
* A get that loses a race after its preflight gets an error although the object is
  PENDING or READY (`core.py` 7409, 7431).
* A Task that waits for an input that becomes LOST fails for good (`core.py:12518`).

## 7. Plan

What is modelled next and proved next, in this order.

1. That TaskDispatch's Node implements the lease states of WorkerLeases.
2. The driver's shutdown barrier, spillback, and placement-group leases.

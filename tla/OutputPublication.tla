------------------------- MODULE OutputPublication -------------------------
(***************************************************************************)
(* The publication of one Task output, from the Worker's prepared value to *)
(* the owner's READY object: the journal and the adapter of the publishing *)
(* Node (output_publication_journal.py, output_publication_node.py and     *)
(* their handlers in node.py), the owner's hand-off, adoption and Node-    *)
(* loss drivers (core.py, output_handoff.py, ownership.py), the contained  *)
(* pins at the owners of the output's children (ownership.py) and the GCS: *)
(* module PublicationAuthority behind the membership guards and the dead-  *)
(* owner clean-up of enhanced_publication_control.py.                      *)
(*                                                                         *)
(* The parties only meet through RPCs.  A caller has one RPC outstanding;  *)
(* the callee serves it at some later time, or refuses it; the caller may  *)
(* give up first, and the request may still be served afterwards.  A round *)
(* that fails is retried from its first unfinished step.                   *)
(***************************************************************************)
EXTENDS Naturals

CONSTANTS
    Transfers,      \* how many references the output's value contains
    Tiers,          \* whether the value may be in the object store (TRUE) or inline
    Crashes,        \* the processes that may exit
    MaxFaults,      \* bound on the exits and the RPCs that are given up
    None

Pub == "publication"
C == 1..Transfers
Hold == C \X {"provisional", "final"}

\* The process that executes the Task, its Node, the owner of its output, and
\* the process that owns the objects the output contains.
Processes == {"executor", "node", "owner", "child"}

ASSUME OutputPublicationAssumption ==
    /\ Transfers \in Nat
    /\ Tiers \subseteq BOOLEAN
    /\ Crashes \subseteq Processes
    /\ MaxFaults \in Nat

\* Who issues RPCs: the Node's publication round, its report of a Complete, the
\* owner's driver of the Task, the GCS clean-up of a dead owner.
Callers == {"node", "report", "owner", "gcs"}

OwnerRequests == {<<"Register">>, <<"AbortOwner">>, <<"ReportComplete">>, <<"ReportRollback">>}
GcsRequests == {<<"Begin">>, <<"PrepareGraph">>, <<"Arm">>, <<"RecordTerminal">>,
                <<"Commit">>, <<"RecordAdoption">>, <<"FenceAbort">>, <<"FenceDeath">>,
                <<"FenceLost">>, <<"RetireRolledBack">>, <<"RetireReleased">>, <<"GetPublication">>}
NodeRequests == {<<"AckAdopted">>, <<"Finalize">>}
ChildRequests == ({"Prepare", "Promote"} \X C) \cup ({"Release"} \X C \X {"provisional", "final"})
Requests == OwnerRequests \cup GcsRequests \cup NodeRequests \cup ChildRequests

\* None is no request, and names no state of a journal or a report, and no round,
\* driver or choice.
ASSUME NoneAssumption ==
    None \notin Requests \cup {"COMPLETED", "ROLLING_BACK", "RETIRED", "pending", "recorded",
                               "reported", "prepare", "rollback", "cleanup", "adopt", "loss",
                               "keep", "discard"}

VARIABLES
    stages, fence, prepared, complete, adoption, closed,   \* PublicationAuthority
    cycle,      \* the rest of the graph makes the output's edges a cycle
    stored,     \* the tier of the value
    call,       \* the request each caller waits for
    answer,     \* whether it has been accepted
    late,       \* requests given up by their callers that may still arrive
    faults,     \* exits and RPCs given up so far
    down,       \* processes that exited
    dead,       \* those the GCS has recorded
    journal,    \* the Node's journal of the publication
    adapter,    \* what the Node's adapter still has to do
    lease,      \* the Worker lease and the Worker's verdict on the execution
    replica,    \* the Node's copy of a stored value
    child,      \* the pins at the owner of each child
    told,       \* deaths the child owner has installed
    handoff,    \* the owner's record of the publication
    object,     \* the owner's entry for the output and its driver
    cleanup     \* holds the GCS released for a dead owner

gcsVars == <<stages, fence, prepared, complete, adoption, closed>>
netVars == <<call, answer, late, faults>>
nodeVars == <<journal, adapter, lease, replica>>
childVars == <<child, told>>
ownerVars == <<handoff, object>>
faultVars == <<down, dead>>
fixedVars == <<cycle, stored>>
vars == <<gcsVars, fixedVars, netVars, nodeVars, childVars, ownerVars, faultVars, cleanup>>

Gcs == INSTANCE PublicationAuthority WITH
    Objects      <- 0..Transfers,
    Owners       <- {"owner", "child"},
    Keys         <- {Pub},
    Publications <- {Pub},
    Key          <- [p \in {Pub} |-> Pub],
    Object       <- [p \in {Pub} |-> 0],
    Owner        <- [p \in {Pub} |-> "owner"],
    Route        <- [p \in {Pub} |-> "owner"],
    Attempt      <- [p \in {Pub} |-> 0],
    Kind         <- [p \in {Pub} |-> "task"],
    Children     <- [p \in {Pub} |-> C \X {"child"}],
    Completes    <- {"success"}

Up(process) == process \notin down
Issued(stage) == Gcs!Has(Pub, stage)

-----------------------------------------------------------------------------
(* Journal *)

Acked(r) == r \in journal.acks
AllAcked(op) == \A c \in C : Acked(<<op, c>>)
Intended(j, op) == {c \in C : <<op, c>> \in j.intents}

\* _ready_to_complete: every effect and the GCS's ARMED receipt.
Ready == AllAcked("Promote") /\ Acked(<<"Materialize">>) /\ Acked(<<"Register">>) /\ Acked(<<"Arm">>)

\* The pins a rollback has to release: those that may have been installed.
Planned(j) == (Intended(j, "Promote") \X {"final"}) \cup (Intended(j, "Prepare") \X {"provisional"})

Started(j) == <<"Materialize">> \in j.intents

\* The rollback's tombstone: every planned effect has been compensated.
Compensated(j) == j.plan \subseteq j.released /\ (Started(j) => <<"Drop">> \in j.acks)

\* begin_rollback: fence forward work and freeze the plan, which may be empty.
RolledBack(j) ==
    [j EXCEPT !.rollback = TRUE, !.plan = Planned(j),
              !.state = IF Planned(j) = {} /\ ~Started(j) THEN "RETIRED" ELSE "ROLLING_BACK"]

\* ack_rollback: the last compensation leaves the tombstone.
Compensate(j) == [j EXCEPT !.state = IF Compensated(j) THEN "RETIRED" ELSE @]

\* Release order: final pins, then provisional ones, each from the last one.
NextRelease(c, kind, todo) ==
    /\ <<c, kind>> \in todo
    /\ kind = "provisional" => \A h \in todo : h[2] # "final"
    /\ \A h \in todo : h[2] = kind => h[1] <= c

\* prepare: the next effect of the round, in the order the code runs them.
NextPrepare(r) ==
    \/ r = <<"Register">> /\ ~Acked(r)
    \/ r = <<"Begin">> /\ ~Acked(r) /\ Acked(<<"Register">>)
    \/ r = <<"PrepareGraph">> /\ ~Acked(r) /\ Acked(<<"Begin">>)
    \/ \E c \in C :
          /\ r = <<"Prepare", c>> /\ ~Acked(r) /\ Acked(<<"PrepareGraph">>)
          /\ \A d \in 1..(c - 1) : Acked(<<"Prepare", d>>)
    \/ \E c \in C :
          /\ r = <<"Promote", c>> /\ ~Acked(r) /\ Acked(<<"Materialize">>)
          /\ \A d \in 1..(c - 1) : Acked(<<"Promote", d>>)
    \/ r = <<"Arm">> /\ ~Acked(r) /\ Acked(<<"Materialize">>) /\ AllAcked("Promote")

\* rollback: owner abort, GCS fence, compensations, graph retirement, report.
NextRollback(r) ==
    \/ r = <<"AbortOwner">> /\ ~Acked(r) /\ ~Acked(<<"Fence">>)
    \/ r = <<"FenceAbort">> /\ Acked(<<"AbortOwner">>) /\ ~Acked(<<"Fence">>)
    \/ /\ Acked(<<"Fence">>)
       /\ Started(journal) => Acked(<<"Drop">>)
       /\ \E h \in Hold : r = <<"Release", h[1], h[2]>>
                          /\ NextRelease(h[1], h[2], journal.plan \ journal.released)
    \/ r = <<"RetireRolledBack">> /\ Acked(<<"Fence">>) /\ Compensated(journal) /\ ~Acked(r)
    \/ r = <<"ReportRollback">> /\ Acked(<<"RetireRolledBack">>)

\* finish_owner_death: fence, report a Complete, release every pin.
NextCleanup(r) ==
    \/ r = <<"FenceDeath">> /\ ~Acked(<<"Fence">>)
    \/ r = <<"RecordTerminal">> /\ Acked(<<"Fence">>) /\ journal.complete /\ ~Acked(r)
    \/ /\ Acked(<<"Fence">>)
       /\ journal.complete => Acked(<<"RecordTerminal">>)
       /\ \E h \in Hold : r = <<"Release", h[1], h[2]>>
                          /\ NextRelease(h[1], h[2], Hold \ adapter.cleaned)

\* What a round that failed forgets: it asks the owner and the GCS again.
Forgotten == {<<"AbortOwner">>, <<"RetireRolledBack">>, <<"RecordTerminal">>}

EndRound(j) == [j EXCEPT !.acks = @ \ Forgotten]

-----------------------------------------------------------------------------
(* Owner *)

Round(r) == r \in object.round

\* _drive_output_publication_adoption: commit, CAS (AdoptOutput), record, ack.
NextAdopt(r) ==
    \/ r = <<"RecordTerminal">> /\ ~Round(r)
    \/ r = <<"Commit">> /\ Round(<<"RecordTerminal">>) /\ ~Round(r)
    \/ r = <<"RecordAdoption">> /\ Round(<<"Commit">>) /\ handoff.phase = "ADOPTED" /\ ~Round(r)
    \/ r = <<"AckAdopted">> /\ Round(<<"RecordAdoption">>) /\ ~Round(r)

\* _drive_output_node_loss: query the GCS, decide (DecideLoss), then either
\* keep the output or fence it, release its pins and retire its edges.
NextLoss(r) ==
    \/ r = <<"GetPublication">> /\ handoff.manifest /\ ~Round(r)
    \/ /\ object.choice = "keep" /\ Round(<<"GetPublication">>)
       /\ \/ r = <<"RecordTerminal">> /\ ~Round(r)
          \/ r = <<"Commit">> /\ Round(<<"RecordTerminal">>) /\ ~Round(r)
          \/ r = <<"RecordAdoption">> /\ Round(<<"Resolved">>) /\ ~Round(r)
    \/ /\ object.choice = "discard" /\ object.fenced /\ Round(<<"GetPublication">>)
       /\ \/ r = <<"FenceLost">> /\ ~Round(r)
          \/ /\ Round(<<"FenceLost">>)
             /\ \E h \in Hold : r = <<"Release", h[1], h[2]>>
                                /\ NextRelease(h[1], h[2], Hold \ object.released)
          \/ /\ r = <<"RetireReleased">> /\ Round(<<"FenceLost">>) /\ ~Round(r)
             /\ object.released = Hold

-----------------------------------------------------------------------------
(* Serving a request.  A request that no disjunct accepts is refused. *)

Credential(H) == {<< <<h[1], "child">>, h[2] >> : h \in H}

\* closed_rollback_holds: the compensations of a rollback before Complete.
RollbackScope ==
    [rollback |-> TRUE,
     prepares |-> Intended(journal, "Prepare") \X {"child"},
     promotes |-> Intended(journal, "Promote") \X {"child"},
     started  |-> Started(journal),
     settled  |-> Credential(journal.plan)]

\* ClosedContainedHolds of an owner's retirement or death: every pin.
EveryHold ==
    [rollback |-> FALSE, prepares |-> C \X {"child"}, promotes |-> C \X {"child"},
     started |-> TRUE, settled |-> Credential(Hold)]

Open == Gcs!ForwardOpen(Pub)

\* New work needs a live owner, publisher Node and executor (_require_*_open).
PublisherOpen == dead \cap {"owner", "node", "executor"} = {}

\* A request served before is answered from the record.
Replay(stage) == Issued(stage) /\ UNCHANGED gcsVars

\* EnhancedPublicationControl.handle.  A reply whose snapshot is no longer open
\* does not let its caller go on, and counts as a refusal here.
ServeGcs(r) ==
    \/ /\ r = <<"Begin">> /\ Open
       /\ Replay("INTENT") \/ (PublisherOpen /\ Gcs!Begin(Pub))
    \/ /\ r = <<"PrepareGraph">> /\ Open
       /\ Replay("PREPARED") \/ (PublisherOpen /\ ~cycle /\ Gcs!Prepare(Pub))
    \/ /\ r = <<"Arm">> /\ Open
       /\ Replay("ARMED") \/ (PublisherOpen /\ Gcs!Arm(Pub))
    \/ /\ r = <<"RecordTerminal">>
       /\ Replay("TERMINAL") \/ Gcs!RecordTerminal(Pub, "success")
    \/ /\ r = <<"Commit">> /\ Open
       /\ Replay("COMMITTED") \/ ("owner" \notin dead /\ Gcs!CommitTask(Pub))
    \/ /\ r = <<"RecordAdoption">>
       /\ Replay("ADOPTED") \/ Gcs!Adopt(Pub, "success")
    \/ /\ r = <<"FenceAbort">>
       /\ (fence[Pub] = "OwnerAbort" /\ Replay("FENCED")) \/ Gcs!Fence(Pub, "OwnerAbort")
    \/ /\ r = <<"FenceDeath">> /\ "owner" \in dead
       /\ Replay("FENCED") \/ Gcs!Fence(Pub, "OwnerDeath")
    \/ /\ r = <<"FenceLost">>
       /\ \/ Replay("FENCED")
          \/ Gcs!Fence(Pub, IF object.known THEN "OwnerRetirement" ELSE "OwnerAbort")
    \/ /\ r = <<"RetireRolledBack">>
       /\ \/ closed[Pub] = RollbackScope /\ Replay("RETIRED")
          \/ Gcs!Retire(Pub, RollbackScope)
    \/ /\ r = <<"RetireReleased">>
       /\ Replay("RETIRED") \/ Gcs!Retire(Pub, EveryHold)

\* GetPublication: the owner learns whether the GCS knows of a Complete.
ServeQuery(r) ==
    /\ r = <<"GetPublication">>
    /\ object' = [object EXCEPT !.central = Issued("TERMINAL")]
    /\ UNCHANGED <<gcsVars, handoff, nodeVars, childVars>>

\* register_output_handoff, abort_owner_publication, report_output_handoff_*.
ServeOwner(r) ==
    /\ Up("owner")
    /\ \/ /\ r = <<"Register">>
          /\ ~object.over /\ object.state = "PENDING" /\ ~object.seen
          /\ handoff.phase \in {None, "PENDING"}
          /\ handoff' = [handoff EXCEPT !.manifest = TRUE, !.phase = "PENDING"]
       \/ /\ r = <<"AbortOwner">>
          /\ handoff.phase # "ADOPTED" /\ ~handoff.complete
          /\ handoff.phase = None => journal.plan = {} /\ ~Started(journal)
          /\ handoff' = [handoff EXCEPT !.manifest = TRUE, !.phase = "ABORTED",
                            !.reason = IF handoff.phase = "ABORTED" THEN @ ELSE "rollback"]
       \/ /\ r = <<"ReportComplete">>
          /\ handoff.manifest /\ (handoff.complete \/ handoff.phase # "ABORTED")
          /\ handoff' = [handoff EXCEPT !.complete = TRUE]
       \/ /\ r = <<"ReportRollback">>
          /\ handoff.phase # "ADOPTED" /\ ~handoff.complete
          /\ handoff.manifest \/ (journal.plan = {} /\ ~Started(journal))
          /\ handoff' = [handoff EXCEPT !.manifest = TRUE, !.phase = "ABORTED",
                            !.reason = IF handoff.phase = "ABORTED" THEN @ ELSE "rollback"]
    /\ UNCHANGED object

\* _handle_ack_output_publication_adopted: drop the retained result.
\* _handle_finalize_output_owner_death answers once the Node's round is done.
ServeNode(r) ==
    /\ Up("node")
    /\ \/ /\ r = <<"AckAdopted">>
          /\ ~adapter.fenced /\ journal.complete /\ lease.state = "COMPLETED"
          /\ journal' = [journal EXCEPT !.state = "RETIRED", !.held = FALSE]
       \/ r = <<"Finalize">> /\ adapter.done /\ UNCHANGED journal
    /\ UNCHANGED <<adapter, lease, replica>>

Pin(c, kind) == kind \in child[c].held

\* Mutant of ServePrepare: a release leaves no trace for a later preparation.
ServePrepareLate(c) ==
    \/ child[c].prepared /\ UNCHANGED child
    \/ /\ ~child[c].prepared
       /\ "executor" \notin told
       /\ child' = [child EXCEPT ![c].prepared = TRUE, ![c].held = @ \cup {"provisional"}]

\* prepare_stored_contained_reference; a release that came first refuses it.
ServePrepare(c) ==
    \/ child[c].prepared /\ UNCHANGED child
    \/ /\ ~child[c].prepared
       /\ "executor" \notin told
       /\ "provisional" \notin child[c].released
       /\ child' = [child EXCEPT ![c].prepared = TRUE, ![c].held = @ \cup {"provisional"}]

\* promote_stored_contained_reference: exchange the pin in one step.
ServePromote(c) ==
    \/ child[c].promoted /\ UNCHANGED child
    \/ /\ ~child[c].promoted
       /\ child[c].prepared /\ Pin(c, "provisional")
       /\ "owner" \notin told
       /\ "final" \notin child[c].released
       /\ child' = [child EXCEPT ![c].promoted = TRUE,
                        ![c].held = (@ \ {"provisional"}) \cup {"final"},
                        ![c].released = @ \cup {"provisional"}]

\* release_contained_reference: release, or refuse the pin in advance.
ServeRelease(c, kind) ==
    child' = [child EXCEPT ![c].held = @ \ {kind}, ![c].released = @ \cup {kind}]

ServeChild(r) ==
    /\ Up("child")
    /\ \E c \in C :
          \/ r = <<"Prepare", c>> /\ ServePrepare(c)
          \/ r = <<"Promote", c>> /\ ServePromote(c)
          \/ \E kind \in {"provisional", "final"} :
                r = <<"Release", c, kind>> /\ ServeRelease(c, kind)
    /\ UNCHANGED told

Serve(r) ==
    /\ \/ ServeGcs(r) /\ UNCHANGED <<ownerVars, nodeVars, childVars>>
       \/ ServeQuery(r)
       \/ ServeOwner(r) /\ UNCHANGED <<gcsVars, nodeVars, childVars>>
       \/ ServeNode(r) /\ UNCHANGED <<gcsVars, ownerVars, childVars>>
       \/ ServeChild(r) /\ UNCHANGED <<gcsVars, ownerVars, nodeVars>>
    /\ UNCHANGED <<fixedVars, faultVars, cleanup>>

-----------------------------------------------------------------------------
(* RPCs *)

Waiting(x) == call[x] # None

\* A caller issues its next request.
Issue(x, r) ==
    /\ ~Waiting(x)
    /\ call' = [call EXCEPT ![x] = r]
    /\ answer' = [answer EXCEPT ![x] = FALSE]
    /\ UNCHANGED <<late, faults>>

\* The callee accepts the request a caller waits for.
Deliver(x) ==
    /\ Waiting(x) /\ ~answer[x]
    /\ Serve(call[x])
    /\ answer' = [answer EXCEPT ![x] = TRUE]
    /\ UNCHANGED <<call, late, faults>>

\* The callee accepts a request its caller has given up.
Arrive(r) ==
    /\ Serve(r)
    /\ late' = late \ {r}
    /\ UNCHANGED <<call, answer, faults>>

Clear(x) ==
    /\ call' = [call EXCEPT ![x] = None]
    /\ answer' = [answer EXCEPT ![x] = FALSE]
    /\ UNCHANGED <<late, faults>>

\* Mutant of FailRound: a round that fails keeps its ticket.
FailRoundTicketed(x) ==
    CASE x = "node" -> journal' = EndRound(journal) /\ UNCHANGED <<adapter, object, cleanup>>
      [] x = "report" ->
            /\ adapter' = [adapter EXCEPT !.terminal = "pending"]
            /\ UNCHANGED <<journal, object, cleanup>>
      [] x = "owner" ->
            /\ object' = [object EXCEPT !.driver = None, !.round = {}]
            /\ UNCHANGED <<journal, adapter, cleanup>>
      [] x = "gcs" -> UNCHANGED <<journal, adapter, object, cleanup>>

\* The round of a caller fails: the Node's ticket is given back, the report
\* starts again, the owner's driver is queued again.
FailRound(x) ==
    CASE x = "node" ->
            /\ adapter' = [adapter EXCEPT !.ticket = None]
            /\ journal' = EndRound(journal)
            /\ UNCHANGED <<object, cleanup>>
      [] x = "report" ->
            /\ adapter' = [adapter EXCEPT !.terminal = "pending"]
            /\ UNCHANGED <<journal, object, cleanup>>
      [] x = "owner" ->
            /\ object' = [object EXCEPT !.driver = None, !.round = {}]
            /\ UNCHANGED <<journal, adapter, cleanup>>
      [] x = "gcs" -> UNCHANGED <<journal, adapter, object, cleanup>>

\* The child owner is known to be dead: its pins need no release.
ProvenGone(r) == r[1] = "Release" /\ "child" \in dead

Refuse(x) ==
    /\ Waiting(x) /\ ~answer[x]
    /\ ~ProvenGone(call[x])
    /\ ~ENABLED Serve(call[x])
    /\ Clear(x)
    /\ FailRound(x)
    /\ UNCHANGED <<gcsVars, fixedVars, lease, replica, childVars, handoff, faultVars>>

TimeOut(x) ==
    /\ Waiting(x)
    /\ faults < MaxFaults
    /\ faults' = faults + 1
    /\ late' = IF answer[x] THEN late ELSE late \cup {call[x]}
    /\ call' = [call EXCEPT ![x] = None]
    /\ answer' = [answer EXCEPT ![x] = FALSE]
    /\ FailRound(x)
    /\ UNCHANGED <<gcsVars, fixedVars, lease, replica, childVars, handoff, faultVars>>

-----------------------------------------------------------------------------
(* Node *)

Ticket(round) == Up("node") /\ adapter.ticket = round /\ ~Waiting("node")

Free == Ticket(None) /\ ~adapter.fenced /\ ~adapter.done

nodeRest == <<gcsVars, fixedVars, netVars, childVars, ownerVars, faultVars, cleanup>>

\* _handle_prepare_output_publication: open the journal and start the effects.
StartPrepare ==
    /\ Free
    /\ lease.state = "RUNNING" /\ lease.verdict = None
    /\ journal.state \in {None, "ACTIVE"} /\ ~Acked(<<"Arm">>)
    /\ journal' = [journal EXCEPT !.state = "ACTIVE"]
    /\ adapter' = [adapter EXCEPT !.ticket = "prepare"]
    /\ UNCHANGED <<lease, replica, nodeRest>>

\* _begin: a journaled effect records its intent before its RPC, and only
\* while the publication is ACTIVE.
CallPrepare(r) ==
    /\ Ticket("prepare")
    /\ NextPrepare(r)
    /\ r[1] \in {"Begin", "PrepareGraph"} \/ journal.state = "ACTIVE"
    /\ Issue("node", r)
    /\ journal' = [journal EXCEPT !.intents =
                      IF r[1] \in {"Register", "Prepare", "Promote"} THEN @ \cup {r} ELSE @]
    /\ UNCHANGED <<adapter, lease, replica, gcsVars, fixedVars, childVars, ownerVars, faultVars, cleanup>>

\* _ack_forward, record_publication_reply(forward): only while ACTIVE.
ReturnPrepare ==
    /\ Up("node") /\ adapter.ticket = "prepare" /\ answer["node"]
    /\ journal.state = "ACTIVE"
    /\ Clear("node")
    /\ journal' = [journal EXCEPT !.acks = @ \cup {call["node"]}]
    /\ UNCHANGED <<adapter, lease, replica, gcsVars, fixedVars, childVars, ownerVars, faultVars, cleanup>>

\* _materialize: seal the value; a full store leaves the write claim behind.
Materialize ==
    /\ Ticket("prepare") /\ journal.state = "ACTIVE"
    /\ Acked(<<"PrepareGraph">>) /\ AllAcked("Prepare") /\ ~Acked(<<"Materialize">>)
    /\ \/ /\ journal' = [journal EXCEPT !.intents = @ \cup {<<"Materialize">>},
                             !.acks = @ \cup {<<"Materialize">>}, !.held = TRUE]
          /\ replica' = IF stored THEN "sealed" ELSE replica
          /\ UNCHANGED adapter
       \/ /\ stored
          /\ journal' = EndRound([journal EXCEPT !.intents = @ \cup {<<"Materialize">>}])
          /\ replica' = "claimed"
          /\ adapter' = [adapter EXCEPT !.ticket = None]
    /\ UNCHANGED <<lease, nodeRest>>

\* The round is over: the output is prepared, or it is no longer ACTIVE.
EndPrepare ==
    /\ Ticket("prepare")
    /\ Ready \/ journal.state # "ACTIVE"
    /\ adapter' = [adapter EXCEPT !.ticket = None]
    /\ UNCHANGED <<journal, lease, replica, nodeRest>>

\* An answer that comes after a rollback began ends the round.
AbandonPrepare ==
    /\ Up("node") /\ adapter.ticket = "prepare" /\ answer["node"]
    /\ journal.state # "ACTIVE"
    /\ Clear("node")
    /\ adapter' = [adapter EXCEPT !.ticket = None]
    /\ UNCHANGED <<journal, lease, replica, gcsVars, fixedVars, childVars, ownerVars, faultVars, cleanup>>

\* The Worker's verdict: success once its output is prepared, failure when the
\* function or the preparation failed.
Decide(verdict) ==
    /\ Up("executor") /\ lease.state = "RUNNING" /\ lease.verdict = None
    /\ journal.state # None
    /\ verdict = "SUCCEEDED" => Ready /\ adapter.ticket = None
    /\ lease' = [lease EXCEPT !.verdict = verdict]
    /\ UNCHANGED <<journal, adapter, replica, nodeRest>>

\* Mutant of CompleteSucceeded: a rollback that has begun is not looked at.
CompleteSucceededLate ==
    /\ Free
    /\ lease.verdict = "SUCCEEDED" /\ Ready
    /\ journal.state # "COMPLETED"
    /\ journal' = [journal EXCEPT !.state = "COMPLETED", !.complete = TRUE]
    /\ lease' = [lease EXCEPT !.state = "COMPLETED"]
    /\ adapter' = [adapter EXCEPT !.terminal = "pending"]
    /\ UNCHANGED <<replica, nodeRest>>

\* _handle_complete_output_worker_lease, SUCCEEDED: Complete and the lease's
\* completion are one step under the journal's and the Node's locks.
CompleteSucceeded ==
    /\ Free
    /\ lease.verdict = "SUCCEEDED" /\ lease.state = "RUNNING"
    /\ journal.state = "ACTIVE" /\ Ready
    /\ journal' = [journal EXCEPT !.state = "COMPLETED", !.complete = TRUE]
    /\ lease' = [lease EXCEPT !.state = "COMPLETED"]
    /\ adapter' = [adapter EXCEPT !.terminal = "pending"]
    /\ UNCHANGED <<replica, nodeRest>>

\* FAILED: begin_rollback fences the journal even under a running preparation.
\* A publication without effects is compensated at once.
CompleteFailed ==
    /\ Up("node") /\ ~adapter.fenced
    /\ lease.verdict = "FAILED" /\ lease.state \in {"RUNNING", "WORKER_LOST"}
    /\ journal.state = "ACTIVE"
    /\ lease' = [lease EXCEPT !.state = "COMPLETED"]
    /\ journal' = RolledBack(journal)
    /\ UNCHANGED <<adapter, replica, nodeRest>>

\* The Node reaps its Worker.
WorkerLost ==
    /\ Up("node") /\ "executor" \in down /\ lease.state = "RUNNING"
    /\ lease' = [lease EXCEPT !.state = "WORKER_LOST"]
    /\ UNCHANGED <<journal, adapter, replica, nodeRest>>

\* _drive_output_publications, rollback(max_effects=1): take the ticket.
StartRollback ==
    /\ Free
    /\ ~journal.complete /\ ~adapter.reported
    /\ \/ journal.rollback /\ UNCHANGED journal
       \/ /\ ~journal.rollback /\ journal.state = "ACTIVE" /\ lease.state = "WORKER_LOST"
          /\ journal' = RolledBack(journal)
    /\ adapter' = [adapter EXCEPT !.ticket = "rollback"]
    /\ UNCHANGED <<lease, replica, nodeRest>>

CallRound(round, r) ==
    /\ Ticket(round)
    /\ Issue("node", r)
    /\ UNCHANGED <<nodeVars, gcsVars, fixedVars, childVars, ownerVars, faultVars, cleanup>>

CallRollback(r) == NextRollback(r) /\ CallRound("rollback", r)

\* SLOT_DROP: the retained result and its replica go first.  A round runs one
\* compensation, and goes on to retire the graph after the last one.
DropSlot ==
    /\ Ticket("rollback") /\ Acked(<<"Fence">>)
    /\ Started(journal) /\ ~Acked(<<"Drop">>)
    /\ journal' = Compensate([journal EXCEPT !.acks = @ \cup {<<"Drop">>}, !.held = FALSE])
    /\ replica' = IF stored THEN "dropped" ELSE replica
    /\ adapter' = [adapter EXCEPT !.ticket = IF Compensated(journal') THEN @ ELSE None]
    /\ UNCHANGED <<lease, nodeRest>>

ReturnRollback ==
    LET r == call["node"] IN
    /\ Up("node") /\ adapter.ticket = "rollback"
    /\ Waiting("node") /\ (answer["node"] \/ ProvenGone(r))
    /\ Clear("node")
    /\ \/ /\ r[1] \in {"AbortOwner", "RetireRolledBack"}
          /\ journal' = [journal EXCEPT !.acks = @ \cup {r}]
          /\ UNCHANGED adapter
       \/ /\ r[1] = "FenceAbort"
          /\ journal' = [journal EXCEPT !.acks = @ \cup {<<"Fence">>}]
          /\ UNCHANGED adapter
       \/ /\ r[1] = "Release"
          /\ journal' = Compensate([journal EXCEPT !.released = @ \cup {<<r[2], r[3]>>}])
          /\ adapter' = [adapter EXCEPT !.ticket = IF Compensated(journal') THEN @ ELSE None]
       \/ /\ r[1] = "ReportRollback"
          /\ journal' = EndRound(journal)
          /\ adapter' = [adapter EXCEPT !.reported = TRUE, !.ticket = None]
    /\ UNCHANGED <<lease, replica, gcsVars, fixedVars, childVars, ownerVars, faultVars, cleanup>>

\* report_terminal: to the GCS, then to the owner, outside the ticket.
CallReport ==
    /\ Up("node") /\ ~adapter.fenced
    /\ \/ adapter.terminal = "pending" /\ Issue("report", <<"RecordTerminal">>)
       \/ adapter.terminal = "recorded" /\ Issue("report", <<"ReportComplete">>)
    /\ UNCHANGED <<nodeVars, gcsVars, fixedVars, childVars, ownerVars, faultVars, cleanup>>

ReturnReport ==
    /\ Up("node") /\ answer["report"]
    /\ Clear("report")
    /\ adapter' = [adapter EXCEPT !.terminal =
                      CASE @ = "pending" -> "recorded" [] @ = "recorded" -> "reported" [] OTHER -> @]
    /\ UNCHANGED <<journal, lease, replica, gcsVars, fixedVars, childVars, ownerVars, faultVars, cleanup>>

\* install_owner_death_fence reaches the Node.
InstallOwnerFence ==
    /\ Up("node") /\ "owner" \in dead /\ ~adapter.fenced
    /\ adapter' = [adapter EXCEPT !.fenced = TRUE]
    /\ UNCHANGED <<journal, lease, replica, nodeRest>>

\* finish_owner_death takes the ticket that every forward effect needs.
StartCleanup ==
    /\ Ticket(None) /\ adapter.fenced /\ ~adapter.done /\ journal.state # None
    /\ adapter' = [adapter EXCEPT !.ticket = "cleanup"]
    /\ UNCHANGED <<journal, lease, replica, nodeRest>>

CallCleanup(r) == NextCleanup(r) /\ CallRound("cleanup", r)

ReturnCleanup ==
    LET r == call["node"] IN
    /\ Up("node") /\ adapter.ticket = "cleanup"
    /\ Waiting("node") /\ (answer["node"] \/ ProvenGone(r))
    /\ Clear("node")
    /\ \/ /\ r[1] = "FenceDeath"
          /\ journal' = [journal EXCEPT !.acks = @ \cup {<<"Fence">>}]
          /\ UNCHANGED adapter
       \/ /\ r[1] = "RecordTerminal"
          /\ journal' = [journal EXCEPT !.acks = @ \cup {r}]
          /\ UNCHANGED adapter
       \/ /\ r[1] = "Release"
          /\ adapter' = [adapter EXCEPT !.cleaned = @ \cup {<<r[2], r[3]>>}]
          /\ UNCHANGED journal
    /\ UNCHANGED <<lease, replica, gcsVars, fixedVars, childVars, ownerVars, faultVars, cleanup>>

\* _finalize_output_owner_custody: lease, replica and reply cache are given up.
FinishCleanup ==
    /\ Ticket("cleanup")
    /\ Acked(<<"Fence">>) /\ adapter.cleaned = Hold
    /\ journal.complete => Acked(<<"RecordTerminal">>)
    /\ lease' = [lease EXCEPT !.state =
                    IF journal.complete THEN "COMPLETED" ELSE IF @ = "RUNNING" THEN "ABANDONED" ELSE @]
    /\ replica' = IF Started(journal) /\ stored THEN "dropped" ELSE replica
    /\ journal' = EndRound([journal EXCEPT !.state = "RETIRED", !.held = FALSE])
    /\ adapter' = [adapter EXCEPT !.ticket = None, !.done = TRUE, !.terminal = None]
    /\ UNCHANGED nodeRest

-----------------------------------------------------------------------------
(* Owner *)

ownerRest == <<gcsVars, fixedVars, nodeVars, childVars, faultVars, cleanup>>

Driver(d) == Up("owner") /\ ~object.over /\ object.driver = d /\ ~Waiting("owner")

\* The owner gets the envelope, from the Worker's reply or from an outcome
\* query of the Node, while the Node retains the result.
ReceiveEnvelope ==
    /\ Up("owner") /\ ~object.over
    /\ journal.complete /\ journal.held
    /\ ~object.custody /\ object.choice = None
    /\ object' = [object EXCEPT !.custody = TRUE]
    /\ UNCHANGED <<handoff, netVars, ownerRest>>

StartAdoption ==
    /\ Driver(None)
    /\ object.custody /\ ~object.seen
    /\ handoff.manifest /\ handoff.phase # "ABORTED"
    /\ handoff' = [handoff EXCEPT !.complete = TRUE]
    /\ object' = [object EXCEPT !.driver = "adopt", !.round = {}]
    /\ UNCHANGED <<netVars, ownerRest>>

CallOwner(r) ==
    /\ \/ Driver("adopt") /\ NextAdopt(r)
       \/ Driver("loss") /\ NextLoss(r)
    /\ Issue("owner", r)
    /\ UNCHANGED <<ownerVars, ownerRest>>

\* A release that is proven by the child owner's death needs no reply.
ReturnOwner ==
    LET r == call["owner"] IN
    /\ Up("owner")
    /\ Waiting("owner") /\ (answer["owner"] \/ ProvenGone(r))
    /\ Clear("owner")
    /\ object' = IF r[1] = "Release"
                 THEN [object EXCEPT !.released = @ \cup {<<r[2], r[3]>>}]
                 ELSE [object EXCEPT !.round = @ \cup {r}]
    /\ UNCHANGED <<handoff, ownerRest>>

\* Mutant of AdoptOutput: the value is shown before its graph is committed.
AdoptOutputEarly ==
    /\ Driver("adopt")
    /\ handoff.phase # "ADOPTED" /\ ~object.seen
    /\ object.state \in {"PENDING", "READY"}
    /\ object' = [object EXCEPT !.state = "READY"]
    /\ handoff' = [handoff EXCEPT !.phase = "ADOPTED"]
    /\ UNCHANGED <<netVars, ownerRest>>

\* The owner CAS: under the lock that sees a Node's death first, a committed
\* output becomes READY and its hand-off ADOPTED.
AdoptOutput ==
    /\ Driver("adopt")
    /\ Round(<<"Commit">>) /\ handoff.phase # "ADOPTED" /\ ~object.seen
    /\ object.state \in {"PENDING", "READY"}
    /\ object' = [object EXCEPT !.state = "READY"]
    /\ handoff' = [handoff EXCEPT !.phase = "ADOPTED"]
    /\ UNCHANGED <<netVars, ownerRest>>

FinishAdoption ==
    /\ Driver("adopt") /\ Round(<<"AckAdopted">>)
    /\ object' = [object EXCEPT !.over = TRUE, !.custody = FALSE, !.driver = None]
    /\ UNCHANGED <<handoff, netVars, ownerRest>>

\* The CAS meets a Node that died in the meantime: the round fails.
AbandonAdoption ==
    /\ Driver("adopt") /\ object.seen
    /\ object' = [object EXCEPT !.driver = None, !.round = {}]
    /\ UNCHANGED <<handoff, netVars, ownerRest>>

\* Another Node copies the READY value and reports its location.
CopyReplica ==
    /\ Up("owner") /\ stored /\ object.state = "READY" /\ ~object.seen /\ ~object.survivors
    /\ object' = [object EXCEPT !.survivors = TRUE]
    /\ UNCHANGED <<handoff, netVars, ownerRest>>

\* The owner learns that the publishing Node died and drops its location.
SeeNodeDeath ==
    /\ Up("owner") /\ "node" \in dead /\ ~object.seen
    /\ object' = [object EXCEPT !.seen = TRUE,
                     !.state = IF stored /\ @ = "READY" /\ ~object.survivors THEN "LOST" ELSE @]
    /\ UNCHANGED <<handoff, netVars, ownerRest>>

StartLoss ==
    /\ Driver(None) /\ object.seen
    /\ object' = [object EXCEPT !.driver = "loss", !.round = {}]
    /\ UNCHANGED <<handoff, netVars, ownerRest>>

\* A Complete the owner knows of: reported, carried by its envelope, or read
\* at the GCS before the lock was taken.
CompleteKnown == handoff.complete \/ object.custody \/ object.central

\* What survives the Node: the bytes of an inline value the owner holds, or an
\* adopted replica on another Node.
Kept == CompleteKnown /\ IF stored THEN object.state = "READY" /\ object.survivors ELSE object.custody

\* The choice is latched before the hand-off is aborted.  An abort under another
\* reason is a conflict: it raises, and the fence the round needs is never set.
DecideLoss ==
    /\ Driver("loss") /\ object.choice = None
    /\ handoff.manifest /\ Round(<<"GetPublication">>)
    /\ LET aborts == ~Kept /\ handoff.phase # "ADOPTED"
           conflict == aborts /\ handoff.phase = "ABORTED" /\ handoff.reason # "loss"
       IN /\ handoff' = [handoff EXCEPT
                !.complete = @ \/ (CompleteKnown /\ handoff.phase # "ABORTED"),
                !.phase = IF aborts THEN "ABORTED" ELSE @,
                !.reason = IF aborts /\ ~conflict THEN "loss" ELSE @]
          /\ object' = [object EXCEPT
                !.choice = IF Kept THEN "keep" ELSE "discard",
                !.known = CompleteKnown,
                !.fenced = ~Kept /\ ~conflict,
                !.driver = IF conflict THEN None ELSE @]
    /\ UNCHANGED <<netVars, ownerRest>>

\* The publisher died before it registered: refuse it for good and retry.
AbortUnregistered ==
    /\ Driver("loss") /\ ~handoff.manifest
    /\ handoff' = [handoff EXCEPT !.phase = "ABORTED", !.reason = "loss"]
    /\ object' = [object EXCEPT !.over = TRUE, !.driver = None]
    /\ UNCHANGED <<netVars, ownerRest>>

\* A latched choice without its fence: the round fails and is queued again.
LossRoundFails ==
    /\ Driver("loss") /\ object.choice = "discard" /\ ~object.fenced
    /\ Round(<<"GetPublication">>)
    /\ object' = [object EXCEPT !.driver = None, !.round = {}]
    /\ UNCHANGED <<handoff, netVars, ownerRest>>

\* resolve_output_node_loss: READY with what is left, LOST, or to be retried.
ResolveLoss ==
    /\ Driver("loss")
    /\ \/ /\ object.choice = "keep" /\ Round(<<"Commit">>) /\ ~Round(<<"Resolved">>)
          /\ object' = [object EXCEPT !.round = @ \cup {<<"Resolved">>},
                           !.state = IF stored /\ ~object.survivors THEN "LOST" ELSE "READY"]
          /\ handoff' = [handoff EXCEPT !.phase = "ADOPTED"]
       \/ /\ object.choice = "discard" /\ Round(<<"RetireReleased">>)
          /\ object' = [object EXCEPT !.over = TRUE, !.driver = None, !.custody = FALSE,
                           !.state = IF object.known THEN "LOST" ELSE "PENDING"]
          /\ UNCHANGED handoff
       \/ /\ object.choice = "keep" /\ Round(<<"RecordAdoption">>)
          /\ object' = [object EXCEPT !.over = TRUE, !.driver = None, !.custody = FALSE]
          /\ UNCHANGED handoff
    /\ UNCHANGED <<netVars, ownerRest>>

\* The Node's reply says the rollback is complete: the attempt has failed.
DropAttempt ==
    /\ Driver(None) /\ adapter.reported
    /\ object' = [object EXCEPT !.over = TRUE]
    /\ UNCHANGED <<handoff, netVars, ownerRest>>

-----------------------------------------------------------------------------
(* GCS: clean-up of a dead owner's publication, and membership *)

\* commit_owner_death has queued the publication.
Work == "owner" \in dead /\ Gcs!Registered(Pub) /\ ~Issued("RETIRED")

\* _drive: the Node finalizes while it lives, else the GCS releases the pins.
CallGcs ==
    /\ Work /\ ~cleanup.closed
    /\ \/ "node" \notin dead /\ Issue("gcs", <<"Finalize">>)
       \/ /\ "node" \in dead
          /\ \E h \in Hold : NextRelease(h[1], h[2], Hold \ cleanup.released)
                             /\ Issue("gcs", <<"Release", h[1], h[2]>>)
    /\ UNCHANGED <<gcsVars, fixedVars, nodeVars, childVars, ownerVars, faultVars, cleanup>>

ReturnGcs ==
    LET r == call["gcs"] IN
    /\ Waiting("gcs") /\ (answer["gcs"] \/ ProvenGone(r))
    /\ Clear("gcs")
    /\ cleanup' = IF r[1] = "Release" THEN [cleanup EXCEPT !.released = @ \cup {<<r[2], r[3]>>}]
                                      ELSE [cleanup EXCEPT !.closed = TRUE]
    /\ UNCHANGED <<gcsVars, fixedVars, nodeVars, childVars, ownerVars, faultVars>>

RetireDead ==
    /\ Work /\ ~Waiting("gcs")
    /\ cleanup.closed \/ ("node" \in dead /\ cleanup.released = Hold)
    /\ Gcs!Retire(Pub, EveryHold)
    /\ UNCHANGED <<fixedVars, netVars, nodeVars, childVars, ownerVars, faultVars, cleanup>>

\* A process exits.  A Node's Workers exit with it; RPCs of a process that
\* exited may still arrive.
Exit(process) ==
    LET gone == IF process = "node" THEN {"node", "executor"} ELSE {process}
        lost == {x \in Callers : \/ x = "owner" /\ process = "owner"
                                 \/ x \in {"node", "report"} /\ process = "node"}
    IN /\ process \in Crashes /\ Up(process)
       /\ faults < MaxFaults
       /\ faults' = faults + 1
       /\ down' = down \cup gone
       /\ late' = late \cup {call[x] : x \in {y \in lost : Waiting(y) /\ ~answer[y]}}
       /\ call' = [x \in Callers |-> IF x \in lost THEN None ELSE call[x]]
       /\ answer' = [x \in Callers |-> answer[x] /\ x \notin lost]
       /\ UNCHANGED <<gcsVars, fixedVars, nodeVars, childVars, ownerVars, dead, cleanup>>

\* The GCS records an exit; commit_owner_death fences the owner's publications.
RecordExit(process) ==
    /\ process \in down \ dead
    /\ dead' = dead \cup (IF process = "node" THEN {"node", "executor"} ELSE {process})
    /\ IF process = "owner" /\ Gcs!Registered(Pub) /\ fence[Pub] = None
       THEN Gcs!Fence(Pub, "OwnerDeath")
       ELSE UNCHANGED gcsVars
    /\ UNCHANGED <<fixedVars, netVars, nodeVars, childVars, ownerVars, down, cleanup>>

\* install_dead_worker at the child owner: the dead container's pins go.
InstallDeath(process, kind) ==
    /\ Up("child") /\ process \in dead \ told
    /\ <<process, kind>> \in {<<"executor", "provisional">>, <<"owner", "final">>}
    /\ told' = told \cup {process}
    /\ child' = [c \in C |-> IF Pin(c, kind)
                             THEN [child[c] EXCEPT !.held = @ \ {kind}, !.released = @ \cup {kind}]
                             ELSE child[c]]
    /\ UNCHANGED <<gcsVars, fixedVars, netVars, nodeVars, ownerVars, faultVars, cleanup>>

-----------------------------------------------------------------------------
Init ==
    /\ Gcs!Init
    /\ cycle \in BOOLEAN /\ stored \in Tiers
    /\ call = [x \in Callers |-> None]
    /\ answer = [x \in Callers |-> FALSE]
    /\ late = {} /\ faults = 0
    /\ down = {} /\ dead = {}
    /\ journal = [state |-> None, intents |-> {}, acks |-> {}, complete |-> FALSE,
                  rollback |-> FALSE, plan |-> {}, held |-> FALSE, released |-> {}]
    /\ adapter = [ticket |-> None, terminal |-> None, reported |-> FALSE,
                  fenced |-> FALSE, cleaned |-> {}, done |-> FALSE]
    /\ lease = [state |-> "RUNNING", verdict |-> None]
    /\ replica = "absent"
    /\ child = [c \in C |-> [prepared |-> FALSE, promoted |-> FALSE, held |-> {}, released |-> {}]]
    /\ told = {}
    /\ handoff = [manifest |-> FALSE, phase |-> None, complete |-> FALSE, reason |-> None]
    /\ object = [state |-> "PENDING", over |-> FALSE, custody |-> FALSE, driver |-> None,
                 round |-> {}, choice |-> None, known |-> FALSE, fenced |-> FALSE,
                 released |-> {}, central |-> FALSE, seen |-> FALSE, survivors |-> FALSE]
    /\ cleanup = [released |-> {}, closed |-> FALSE]

NodeRound ==
    \/ StartPrepare
    \/ \E r \in Requests : CallPrepare(r)
    \/ ReturnPrepare
    \/ Materialize
    \/ EndPrepare
    \/ AbandonPrepare
    \/ CompleteSucceeded
    \/ CompleteFailed
    \/ StartRollback
    \/ \E r \in Requests : CallRollback(r)
    \/ DropSlot
    \/ ReturnRollback
    \/ StartCleanup
    \/ \E r \in Requests : CallCleanup(r)
    \/ ReturnCleanup
    \/ FinishCleanup

ReportRound == CallReport \/ ReturnReport

OwnerRound ==
    \/ StartAdoption
    \/ \E r \in Requests : CallOwner(r)
    \/ ReturnOwner
    \/ AdoptOutput
    \/ FinishAdoption
    \/ AbandonAdoption
    \/ StartLoss
    \/ DecideLoss
    \/ AbortUnregistered
    \/ LossRoundFails
    \/ ResolveLoss
    \/ DropAttempt

GcsRound == CallGcs \/ ReturnGcs \/ RetireDead

Next ==
    \/ \E verdict \in {"SUCCEEDED", "FAILED"} : Decide(verdict)
    \/ NodeRound
    \/ ReportRound
    \/ WorkerLost
    \/ InstallOwnerFence
    \/ ReceiveEnvelope
    \/ SeeNodeDeath
    \/ OwnerRound
    \/ CopyReplica
    \/ GcsRound
    \/ \E x \in Callers : Deliver(x)
    \/ \E x \in Callers : Refuse(x)
    \/ \E x \in Callers : TimeOut(x)
    \/ \E r \in late : Arrive(r)
    \/ \E process \in Processes : Exit(process)
    \/ \E process \in Processes : RecordExit(process)
    \/ \E process \in Processes, kind \in {"provisional", "final"} : InstallDeath(process, kind)

\* The supervisor, the lanes, the watchers and the GCS driver keep running, the
\* Worker finishes or is lost, and an RPC that is not given up is answered.
\* Nothing is assumed of exits, time-outs, late requests and other replicas.
Fairness ==
    /\ WF_vars(\E verdict \in {"SUCCEEDED", "FAILED"} : Decide(verdict))
    /\ WF_vars(NodeRound)
    /\ WF_vars(ReportRound)
    /\ WF_vars(WorkerLost)
    /\ WF_vars(InstallOwnerFence)
    /\ WF_vars(ReceiveEnvelope)
    /\ WF_vars(SeeNodeDeath)
    /\ WF_vars(OwnerRound)
    /\ WF_vars(GcsRound)
    /\ \A x \in Callers : WF_vars(Deliver(x)) /\ WF_vars(Refuse(x))
    /\ WF_vars(\E process \in Processes : RecordExit(process))
    /\ WF_vars(\E process \in Processes, kind \in {"provisional", "final"} : InstallDeath(process, kind))

Spec == Init /\ [][Next]_vars

FairSpec == Spec /\ Fairness

-----------------------------------------------------------------------------
TypeOK ==
    /\ Gcs!TypeOK
    /\ cycle \in BOOLEAN /\ stored \in Tiers
    /\ call \in [Callers -> Requests \cup {None}]
    /\ answer \in [Callers -> BOOLEAN]
    /\ late \subseteq Requests
    /\ faults \in 0..MaxFaults
    /\ dead \subseteq down /\ down \subseteq Processes
    /\ journal.state \in {None, "ACTIVE", "COMPLETED", "ROLLING_BACK", "RETIRED"}
    /\ adapter.ticket \in {None, "prepare", "rollback", "cleanup"}
    /\ adapter.terminal \in {None, "pending", "recorded", "reported"}
    /\ adapter.cleaned \subseteq Hold /\ journal.released \subseteq Hold
    /\ lease.state \in {"RUNNING", "COMPLETED", "WORKER_LOST", "ABANDONED"}
    /\ lease.verdict \in {None, "SUCCEEDED", "FAILED"}
    /\ replica \in {"absent", "claimed", "sealed", "dropped"}
    /\ child \in [C -> [prepared : BOOLEAN, promoted : BOOLEAN,
                        held : SUBSET {"provisional", "final"},
                        released : SUBSET {"provisional", "final"}]]
    /\ told \subseteq dead
    /\ handoff.phase \in {None, "PENDING", "ADOPTED", "ABORTED"}
    /\ object.state \in {"PENDING", "READY", "LOST"}
    /\ object.driver \in {None, "adopt", "loss"}
    /\ object.choice \in {None, "keep", "discard"}
    /\ cleanup.released \subseteq Hold

\* What an owner shows READY is a committed publication whose children are
\* pinned, whichever round failed, was retried or was taken over by the Node-
\* loss driver in the meantime (_drive_output_publication_adoption: the graph
\* commit precedes the owner CAS; promote_stored_contained_reference).
ReadyIsBacked ==
    object.state = "READY" /\ Up("owner") =>
        /\ Issued("COMMITTED")
        /\ Up("child") => \A c \in C : Pin(c, "final")

\* Once a publication's edges are retired, no pin of it is left at a live child
\* owner, and none comes back with a request that was sent before
\* (release_contained_reference leaves a tombstone; begin_rollback compensates
\* every effect that was intended, not only those that were acknowledged).
RetiredHoldsNothing ==
    Issued("RETIRED") /\ Up("child") => \A c \in C : child[c].held = {}

\* A Complete and a rollback exclude each other at the Node, at the owner and at
\* the GCS: an output that was rolled back was never completed and is not READY
\* (OutputPublicationJournal.complete and begin_rollback, abort_owner_publication).
OneOutcome ==
    /\ TypeOK
    /\ journal.rollback \/ handoff.reason = "rollback" \/ closed[Pub].rollback =>
          /\ ~journal.complete /\ complete[Pub] = None
          /\ object.state = "PENDING" /\ ~handoff.complete

\* The publication is over for everyone who is left: adopted, and the Node has
\* given up its copy; or retired, and the owner has given up the attempt.
Settled ==
    \/ /\ Issued("ADOPTED") /\ object.over
       /\ "node" \in down \/ journal.state = "RETIRED"
    \/ /\ Issued("RETIRED") \/ (~Gcs!Registered(Pub) /\ "node" \in down)
       /\ "owner" \in down \/ object.over

\* The hand-off was aborted by the Node's rollback before the Node died: the owner's
\* own abort conflicts with it, and its choice never gets a fence (core.py 11526).
FenceMissing == object.choice = "discard" /\ ~object.fenced

\* Every publication that was opened settles, whichever process exits and
\* whichever RPCs are given up (the drivers of _drive_output_publications,
\* _drive_output_node_loss and EnhancedPublicationControl.drive_one).
PublicationSettles == journal.state # None ~> Settled \/ FenceMissing
=============================================================================

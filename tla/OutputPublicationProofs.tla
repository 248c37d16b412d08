---------------------- MODULE OutputPublicationProofs ----------------------
(***************************************************************************)
(* Safety of the publication of an output for every number of children,    *)
(* every set of processes that may exit and any number of faults: its      *)
(* types, the one outcome of Complete and rollback, what backs a READY     *)
(* object, and that a retired publication holds nothing.                   *)
(***************************************************************************)
EXTENDS OutputPublication, TLAPS

-----------------------------------------------------------------------------
(* The types of the records *)

Effects == Requests \cup {<<"Materialize">>, <<"Drop">>, <<"Fence">>}
Releases == {"Release"} \X C \X {"provisional", "final"}

Journals ==
    [state : {None, "ACTIVE", "COMPLETED", "ROLLING_BACK", "RETIRED"}, intents : SUBSET Effects,
     acks : SUBSET Effects, complete : BOOLEAN, rollback : BOOLEAN, plan : SUBSET Hold,
     held : BOOLEAN, released : SUBSET Hold]
Adapters ==
    [ticket : {None, "prepare", "rollback", "cleanup"},
     terminal : {None, "pending", "recorded", "reported"},
     reported : BOOLEAN, fenced : BOOLEAN, cleaned : SUBSET Hold, done : BOOLEAN]
Leases ==
    [state : {"RUNNING", "COMPLETED", "WORKER_LOST", "ABANDONED"},
     verdict : {None, "SUCCEEDED", "FAILED"}]
Handoffs ==
    [manifest : BOOLEAN, phase : {None, "PENDING", "ADOPTED", "ABORTED"}, complete : BOOLEAN,
     reason : {None, "rollback", "loss"}]
Outputs ==
    [state : {"PENDING", "READY", "LOST"}, over : BOOLEAN, custody : BOOLEAN,
     driver : {None, "adopt", "loss"}, round : SUBSET (Requests \cup {<<"Resolved">>}),
     choice : {None, "keep", "discard"}, known : BOOLEAN, fenced : BOOLEAN,
     released : SUBSET Hold, central : BOOLEAN, seen : BOOLEAN, survivors : BOOLEAN]
Pins ==
    [prepared : BOOLEAN, promoted : BOOLEAN, held : SUBSET {"provisional", "final"},
     released : SUBSET {"provisional", "final"}]

RecordsTyped ==
    /\ journal \in Journals /\ adapter \in Adapters /\ lease \in Leases
    /\ handoff \in Handoffs /\ object \in Outputs
    /\ cleanup \in [released : SUBSET Hold, closed : BOOLEAN]

\* What the report and the GCS ask for, and that a Node's Workers exit with it.
CallsTyped ==
    /\ call["report"] \in {None, <<"RecordTerminal">>, <<"ReportComplete">>}
    /\ call["gcs"] \in {None, <<"Finalize">>} \cup Releases
    /\ "node" \in down => "executor" \in down

-----------------------------------------------------------------------------
(* The inductive invariant *)

\* A request is under way: its caller waits for it, or has given it up.
Sent(r) == r \in late \/ \E x \in Callers : call[x] = r

\* The pin h can never be at a live child owner again.
Gone(h) == h[2] \in child[h[1]].released \/ "child" \in down
AllGone == \A h \in Hold : Gone(h)

\* Someone has given the publication up: its Node, or its owner by dying or by
\* choosing to discard what a dead Node left.
Undone == journal.rollback \/ "owner" \in dead \/ object.choice = "discard"

\* Every pin of a rollback's plan is released.
PlanDone == journal.rollback /\ journal.plan \subseteq journal.released

\* What the sender of a request knew, and what stays true while it is under way.
Justified(r) ==
    /\ r[1] \in {"RecordTerminal", "ReportComplete"} => journal.complete
    /\ r[1] \in {"AbortOwner", "ReportRollback", "RetireRolledBack"} => journal.rollback
    /\ r[1] = "RetireRolledBack" => PlanDone
    /\ r[1] = "RetireReleased" => object.released = Hold
    /\ r[1] = "Arm" => \A c \in C : child[c].promoted
    /\ r[1] = "Release" => Undone
    /\ r[1] \in {"Prepare", "Promote"} => r \in journal.intents

SentJustified == \A r \in Requests : Sent(r) => Justified(r)

\* What an accepted request has left at its callee.
Effective(r) ==
    /\ r[1] = "Promote" => child[r[2]].promoted
    /\ r[1] = "Commit" => Issued("COMMITTED")
    /\ r[1] = "Release" => Gone(<<r[2], r[3]>>)
    /\ r[1] = "Finalize" => adapter.done

AnswersEffective == \A x \in Callers : answer[x] => call[x] # None /\ Effective(call[x])

NodeConsistent ==
    /\ journal.complete => ~journal.rollback
    /\ journal.state \in {None, "ACTIVE"} => ~journal.complete /\ ~journal.rollback
    /\ journal.rollback => journal.plan = Planned(journal)
    /\ adapter.ticket = "rollback" => journal.rollback
    /\ adapter.ticket = "cleanup" => adapter.fenced
    /\ adapter.terminal # None => journal.complete
    /\ adapter.fenced => "owner" \in dead
    /\ adapter.done => adapter.cleaned = Hold

ReleasesGone ==
    /\ \A h \in journal.released \cup adapter.cleaned \cup object.released \cup cleanup.released : Gone(h)
    /\ cleanup.closed => AllGone

OwnerConsistent ==
    /\ \/ object.custody \/ object.central \/ object.known \/ handoff.complete
       \/ object.state # "PENDING" \/ object.choice = "keep" \/ object.driver = "adopt"
       => journal.complete
    /\ handoff.reason = "rollback" => journal.rollback
    /\ object.driver = "adopt" => object.custody
    /\ object.driver = "loss" \/ object.choice # None => object.seen
    /\ Round(<<"Commit">>) \/ object.state = "READY" => Issued("COMMITTED")
    /\ object.choice = "discard" => object.state # "READY"
    /\ ~object.over /\ object.state = "READY" =>
          /\ object.choice = "keep" \/ object.custody
          /\ stored /\ object.seen => object.survivors
    /\ ~object.over /\ object.choice = "keep" => stored \/ object.custody

GcsConsistent ==
    /\ Issued("COMMITTED") => Issued("TERMINAL")
    /\ Issued("TERMINAL") => Issued("ARMED") /\ journal.complete
    /\ complete[Pub] # None => journal.complete
    /\ Issued("ARMED") => \A c \in C : child[c].promoted
    /\ closed[Pub].rollback => journal.rollback
    /\ Issued("RETIRED") => AllGone \/ PlanDone

PinsConsistent(c) ==
    /\ child[c].held \cap child[c].released = {}
    /\ child[c].promoted => "final" \in child[c].held \cup child[c].released
    /\ Pin(c, "provisional") => child[c].prepared
    /\ Pin(c, "final") => child[c].promoted
    /\ child[c].prepared => <<"Prepare", c>> \in journal.intents
    /\ child[c].promoted => <<"Promote", c>> \in journal.intents
    /\ "final" \in child[c].released => Undone
    /\ Acked(<<"Promote", c>>) => child[c].promoted

ChildConsistent == \A c \in C : PinsConsistent(c)

Invariant ==
    /\ TypeOK
    /\ RecordsTyped
    /\ CallsTyped
    /\ SentJustified
    /\ AnswersEffective
    /\ NodeConsistent
    /\ ReleasesGone
    /\ OwnerConsistent
    /\ GcsConsistent
    /\ ChildConsistent

-----------------------------------------------------------------------------
(* Requests *)

\* What None is not.
LEMMA NoneIsNot ==
    /\ None \notin Requests
    /\ None # "prepare" /\ None # "rollback" /\ None # "cleanup" /\ None # "pending"
    /\ None # "recorded" /\ None # "reported" /\ None # "adopt" /\ None # "loss"
    /\ None # "keep" /\ None # "discard" /\ None # "COMPLETED"
    /\ None # "ROLLING_BACK" /\ None # "RETIRED"
  BY NoneAssumption

\* A request is told by its name; only those to child owners carry more.
LEMMA RequestKinds ==
    ASSUME NEW r \in Requests
    PROVE  /\ r[1] \in {"Register", "AbortOwner", "ReportComplete", "ReportRollback",
                        "Begin", "PrepareGraph", "Arm", "RecordTerminal", "Commit",
                        "RecordAdoption", "FenceAbort", "FenceDeath", "FenceLost",
                        "RetireRolledBack", "RetireReleased", "GetPublication",
                        "AckAdopted", "Finalize"} => r = <<r[1]>>
           /\ r[1] \in {"Prepare", "Promote"} => r[2] \in C /\ r = <<r[1], r[2]>>
           /\ r[1] = "Release" => <<r[2], r[3]>> \in Hold /\ r = <<"Release", r[2], r[3]>>
<1>1. CASE r \in OwnerRequests
  BY <1>1 DEF OwnerRequests
<1>2. CASE r \in GcsRequests
  BY <1>2 DEF GcsRequests
<1>3. CASE r \in NodeRequests
  BY <1>3 DEF NodeRequests
<1>4. CASE r \in {"Prepare", "Promote"} \X C
  BY <1>4
<1>5. CASE r \in {"Release"} \X C \X {"provisional", "final"}
  BY <1>5 DEF Hold
<1>6. QED  BY <1>1, <1>2, <1>3, <1>4, <1>5 DEF Requests, ChildRequests

\* The requests the actions name.
LEMMA RequestsAre ==
    /\ OwnerRequests \subseteq Requests /\ GcsRequests \subseteq Requests
    /\ NodeRequests \subseteq Requests
    /\ \A c \in C : <<"Prepare", c>> \in Requests /\ <<"Promote", c>> \in Requests
    /\ \A h \in Hold : <<"Release", h[1], h[2]>> \in Requests
  BY DEF Requests, ChildRequests, Hold

-----------------------------------------------------------------------------
(* The Node *)

\* A rollback freezes the plan and keeps everything else.
LEMMA RolledBackIs ==
    ASSUME NEW j \in Journals
    PROVE  /\ RolledBack(j) \in Journals
           /\ RolledBack(j).rollback
           /\ RolledBack(j).state \in {"RETIRED", "ROLLING_BACK"}
           /\ RolledBack(j).plan = Planned(j)
           /\ RolledBack(j).complete = j.complete
           /\ RolledBack(j).intents = j.intents
           /\ RolledBack(j).acks = j.acks
           /\ RolledBack(j).released = j.released
           /\ Planned(RolledBack(j)) = Planned(j)
<1>1. Planned(j) \subseteq Hold
  BY DEF Planned, Hold, Intended
<1>2. /\ RolledBack(j) \in Journals
      /\ RolledBack(j).rollback
      /\ RolledBack(j).state \in {"RETIRED", "ROLLING_BACK"}
      /\ RolledBack(j).plan = Planned(j)
      /\ RolledBack(j).complete = j.complete
      /\ RolledBack(j).intents = j.intents
      /\ RolledBack(j).acks = j.acks
      /\ RolledBack(j).released = j.released
  <2> HIDE DEF Planned, Effects, Hold
  <2>1. QED  BY <1>1 DEF RolledBack, Journals
<1>3. Planned(RolledBack(j)) = Planned(j)
  <2> HIDE DEF RolledBack
  <2>1. QED  BY <1>2 DEF Planned, Intended
<1>4. QED  BY <1>2, <1>3

\* A compensation changes at most the state.
LEMMA CompensateIs ==
    ASSUME NEW j \in Journals
    PROVE  /\ Compensate(j) \in Journals
           /\ Compensate(j).state \in {j.state, "RETIRED"}
           /\ Compensate(j).complete = j.complete
           /\ Compensate(j).rollback = j.rollback
           /\ Compensate(j).plan = j.plan
           /\ Compensate(j).intents = j.intents
           /\ Compensate(j).acks = j.acks
           /\ Compensate(j).released = j.released
           /\ Planned(Compensate(j)) = Planned(j)
<1>1. /\ Compensate(j) \in Journals
      /\ Compensate(j).state \in {j.state, "RETIRED"}
      /\ Compensate(j).complete = j.complete
      /\ Compensate(j).rollback = j.rollback
      /\ Compensate(j).plan = j.plan
      /\ Compensate(j).intents = j.intents
      /\ Compensate(j).acks = j.acks
      /\ Compensate(j).released = j.released
  <2> HIDE DEF Compensated
  <2>1. QED  BY DEF Compensate, Journals
<1>2. QED  BY <1>1 DEF Planned, Intended

\* A failed round forgets what it must ask again, and no effect.
LEMMA EndRoundIs ==
    ASSUME NEW j \in Journals
    PROVE  /\ EndRound(j) \in Journals
           /\ EndRound(j).state = j.state
           /\ EndRound(j).complete = j.complete
           /\ EndRound(j).rollback = j.rollback
           /\ EndRound(j).plan = j.plan
           /\ EndRound(j).intents = j.intents
           /\ EndRound(j).acks \subseteq j.acks
           /\ EndRound(j).released = j.released
           /\ Planned(EndRound(j)) = Planned(j)
<1>1. /\ EndRound(j) \in Journals
      /\ EndRound(j).state = j.state
      /\ EndRound(j).complete = j.complete
      /\ EndRound(j).rollback = j.rollback
      /\ EndRound(j).plan = j.plan
      /\ EndRound(j).intents = j.intents
      /\ EndRound(j).acks = j.acks \ Forgotten
      /\ EndRound(j).released = j.released
  <2> HIDE DEF Forgotten
  <2>1. QED  BY DEF EndRound, Journals
<1>2. QED  BY <1>1 DEF Planned, Intended

\* What a step may do to a journal: its decision stands, its effects and its
\* releases are never forgotten, nor is the plan of a rollback.
JournalGrows ==
    /\ journal.complete => journal'.complete
    /\ journal.rollback => journal'.rollback /\ journal'.plan = journal.plan
    /\ journal.intents \subseteq journal'.intents
    /\ journal.released \subseteq journal'.released
    /\ adapter.done => adapter'.done

\* The Node's part of a step.
NodeStep ==
    /\ journal' \in Journals /\ adapter' \in Adapters /\ lease' \in Leases
    /\ NodeConsistent'
    /\ JournalGrows

\* What a step knows of the Node.
NodeKnown ==
    /\ journal \in Journals /\ adapter \in Adapters /\ lease \in Leases
    /\ NodeConsistent
    /\ dead \subseteq dead'
    /\ call \in [Callers -> Requests \cup {None}]
    /\ answer["node"] => call["node"] # None
    /\ call["report"] # None => journal.complete

\* An ACTIVE journal has no decision: giving it a plan, an intent or a decision
\* contradicts nothing.
LEMMA ActiveOpen ==
    ASSUME NodeKnown, journal.state \in {None, "ACTIVE"}
    PROVE  ~journal.complete /\ ~journal.rollback /\ adapter.ticket # "rollback"
  BY DEF NodeKnown, NodeConsistent

\* A step that leaves the journal's decision, its plan and the adapter's flags
\* as they were keeps the Node consistent.
LEMMA NodeKept ==
    ASSUME NodeKnown, journal' \in Journals, adapter' \in Adapters, lease' \in Leases,
           journal'.complete = journal.complete, journal'.rollback = journal.rollback,
           journal'.state \in {None, "ACTIVE"} => journal.state \in {None, "ACTIVE"},
           journal.rollback => journal'.plan = journal.plan /\ journal'.intents = journal.intents,
           journal.intents \subseteq journal'.intents,
           journal.released \subseteq journal'.released,
           adapter'.ticket = "rollback" => journal.rollback,
           adapter'.ticket = "cleanup" => adapter'.fenced,
           adapter'.terminal # None => journal.complete,
           adapter'.fenced => adapter.fenced \/ "owner" \in dead,
           adapter.done => adapter'.done /\ adapter'.cleaned = adapter.cleaned,
           adapter'.done => adapter'.cleaned = Hold
    PROVE  NodeStep
<1>1. journal.rollback => Planned(journal)' = Planned(journal)
  BY DEF Planned, Intended
<1>2. NodeConsistent'
  <2> HIDE DEF Planned
  <2>1. QED  BY <1>1 DEF NodeKnown, NodeConsistent
<1>3. QED  BY <1>2 DEF NodeStep, JournalGrows

\* _handle_prepare_output_publication opens the journal.
LEMMA StartPrepareNode == ASSUME NodeKnown, StartPrepare PROVE NodeStep
<1>1. /\ journal' = [journal EXCEPT !.state = "ACTIVE"]
      /\ adapter' = [adapter EXCEPT !.ticket = "prepare"]
      /\ lease' = lease /\ journal.state \in {None, "ACTIVE"}
  BY DEF StartPrepare
<1>2. QED  BY <1>1, NodeKept DEF NodeKnown, NodeConsistent, Journals, Adapters

\* A journaled effect records its intent.
LEMMA CallPrepareNode == ASSUME NodeKnown, NEW r \in Requests, CallPrepare(r) PROVE NodeStep
<1>1. /\ journal' = [journal EXCEPT !.intents =
                      IF r[1] \in {"Register", "Prepare", "Promote"} THEN @ \cup {r} ELSE @]
      /\ UNCHANGED <<adapter, lease>>
      /\ r[1] \in {"Begin", "PrepareGraph"} \/ journal.state = "ACTIVE"
  BY DEF CallPrepare
<1>2. r \in Effects
  BY DEF Effects
<1>3. journal.rollback => journal' = journal
  BY <1>1, ActiveOpen DEF NodeKnown, Journals
<1>4. QED  BY <1>1, <1>2, <1>3, NodeKept DEF NodeKnown, NodeConsistent, Journals, Adapters

\* An effect is acknowledged.
LEMMA ReturnPrepareNode == ASSUME NodeKnown, ReturnPrepare PROVE NodeStep
<1>1. /\ journal' = [journal EXCEPT !.acks = @ \cup {call["node"]}]
      /\ UNCHANGED <<adapter, lease>>
      /\ answer["node"]
  BY DEF ReturnPrepare
<1>2. call["node"] \in Effects
  BY <1>1 DEF Effects, NodeKnown, Callers
<1>3. QED  BY <1>1, <1>2, NodeKept DEF NodeKnown, NodeConsistent, Journals, Adapters

\* The value is sealed, or its write claim is left behind.
LEMMA MaterializeNode == ASSUME NodeKnown, Materialize PROVE NodeStep
<1>1. <<"Materialize">> \in Effects
  BY DEF Effects
<1>2. journal.state = "ACTIVE" /\ ~journal.rollback /\ lease' = lease
  BY ActiveOpen DEF Materialize
<1>3. CASE /\ journal' = [journal EXCEPT !.intents = @ \cup {<<"Materialize">>},
                             !.acks = @ \cup {<<"Materialize">>}, !.held = TRUE]
           /\ UNCHANGED adapter
  BY <1>1, <1>2, <1>3, NodeKept DEF NodeKnown, NodeConsistent, Journals, Adapters
<1>4. CASE /\ journal' = EndRound([journal EXCEPT !.intents = @ \cup {<<"Materialize">>}])
           /\ adapter' = [adapter EXCEPT !.ticket = None]
  <2> DEFINE j == [journal EXCEPT !.intents = @ \cup {<<"Materialize">>}]
  <2>1. /\ j \in Journals /\ j.state = journal.state /\ j.complete = journal.complete
        /\ j.rollback = journal.rollback /\ journal.intents \subseteq j.intents
        /\ j.released = journal.released
    BY <1>1 DEF NodeKnown, Journals
  <2>2. journal' = EndRound(j)
    BY <1>4
  <2> HIDE DEF j
  <2>3. QED
    BY <1>2, <1>4, <2>1, <2>2, EndRoundIs, NodeKept, NoneIsNot DEF NodeKnown, NodeConsistent, Adapters
<1>5. QED  BY <1>3, <1>4 DEF Materialize

\* The ticket is given back, and the journal stays.
LEMMA TicketBackNode ==
    ASSUME NodeKnown, journal' = journal, lease' \in Leases,
           adapter' = [adapter EXCEPT !.ticket = None] \/ adapter' = adapter
    PROVE  NodeStep
<1>1. CASE adapter' = adapter
  BY <1>1, NodeKept DEF NodeKnown, NodeConsistent
<1>2. CASE adapter' = [adapter EXCEPT !.ticket = None]
  BY <1>2, NodeKept, NoneIsNot DEF NodeKnown, NodeConsistent, Adapters
<1>3. QED  BY <1>1, <1>2

\* The end of a preparation, the Worker's verdict, the loss of the Worker.
LEMMA QuietNode ==
    ASSUME NodeKnown,
           \/ EndPrepare \/ AbandonPrepare \/ WorkerLost
           \/ \E verdict \in {"SUCCEEDED", "FAILED"} : Decide(verdict)
           \/ UNCHANGED nodeVars
    PROVE  NodeStep
<1>1. CASE EndPrepare
  BY <1>1, TicketBackNode DEF EndPrepare, NodeKnown
<1>2. CASE AbandonPrepare
  BY <1>2, TicketBackNode DEF AbandonPrepare, NodeKnown
<1>3. CASE WorkerLost
  <2>1. lease' \in Leases
    BY <1>3 DEF WorkerLost, NodeKnown, Leases
  <2>2. QED  BY <1>3, <2>1, TicketBackNode DEF WorkerLost
<1>4. ASSUME NEW verdict \in {"SUCCEEDED", "FAILED"}, Decide(verdict) PROVE NodeStep
  <2>1. lease' \in Leases
    BY <1>4 DEF Decide, NodeKnown, Leases
  <2>2. QED  BY <1>4, <2>1, TicketBackNode DEF Decide
<1>5. CASE UNCHANGED nodeVars
  BY <1>5, TicketBackNode DEF nodeVars, NodeKnown
<1>6. QED  BY <1>1, <1>2, <1>3, <1>4, <1>5

\* Complete decides a journal that is still ACTIVE.
LEMMA CompleteSucceededNode == ASSUME NodeKnown, CompleteSucceeded PROVE NodeStep
<1>1. /\ journal' = [journal EXCEPT !.state = "COMPLETED", !.complete = TRUE]
      /\ lease' = [lease EXCEPT !.state = "COMPLETED"]
      /\ adapter' = [adapter EXCEPT !.terminal = "pending"]
      /\ journal.state = "ACTIVE" /\ adapter.ticket = None
  BY DEF CompleteSucceeded, Free, Ticket
<1>2. ~journal.complete /\ ~journal.rollback
  BY <1>1, ActiveOpen
<1>3. journal' \in Journals /\ adapter' \in Adapters /\ lease' \in Leases
  BY <1>1 DEF NodeKnown, Journals, Adapters, Leases
<1>4. /\ journal'.complete /\ ~journal'.rollback /\ journal'.state = "COMPLETED"
      /\ journal'.intents = journal.intents /\ journal'.released = journal.released
      /\ adapter'.ticket = None /\ adapter'.fenced = adapter.fenced
      /\ adapter'.done = adapter.done /\ adapter'.cleaned = adapter.cleaned
  BY <1>1, <1>2 DEF NodeKnown, Journals, Adapters
<1>5. NodeConsistent'
  BY <1>4, NoneIsNot DEF NodeKnown, NodeConsistent
<1>6. QED  BY <1>2, <1>3, <1>4, <1>5 DEF NodeStep, JournalGrows

\* A rollback decides a journal that is still ACTIVE.
LEMMA DecidedByRollback ==
    ASSUME NodeKnown, journal.state = "ACTIVE", journal' = RolledBack(journal),
           adapter' \in Adapters, lease' \in Leases,
           adapter'.ticket \in {adapter.ticket, "rollback"},
           adapter'.terminal = adapter.terminal, adapter'.fenced = adapter.fenced,
           adapter'.done = adapter.done, adapter'.cleaned = adapter.cleaned
    PROVE  NodeStep
<1>1. ~journal.complete /\ ~journal.rollback
  BY ActiveOpen
<1>2. /\ journal' \in Journals /\ journal'.rollback
      /\ journal'.state \in {"RETIRED", "ROLLING_BACK"}
      /\ journal'.complete = journal.complete
      /\ journal'.intents = journal.intents
      /\ journal'.released = journal.released
      /\ journal'.plan = Planned(journal')
  BY RolledBackIs DEF NodeKnown
<1>3. NodeConsistent'
  BY <1>1, <1>2, NoneIsNot DEF NodeKnown, NodeConsistent
<1>4. QED  BY <1>1, <1>2, <1>3 DEF NodeStep, JournalGrows

\* A failed execution is rolled back, even under a running preparation.
LEMMA CompleteFailedNode == ASSUME NodeKnown, CompleteFailed PROVE NodeStep
<1>1. /\ journal.state = "ACTIVE" /\ journal' = RolledBack(journal) /\ adapter' = adapter
      /\ lease' = [lease EXCEPT !.state = "COMPLETED"]
  BY DEF CompleteFailed
<1>2. adapter' \in Adapters /\ lease' \in Leases
  BY <1>1 DEF NodeKnown, Leases
<1>3. QED  BY <1>1, <1>2, DecidedByRollback

\* The supervisor begins the rollback of a lost Worker's output, or resumes one.
LEMMA StartRollbackNode == ASSUME NodeKnown, StartRollback PROVE NodeStep
<1>1. adapter' = [adapter EXCEPT !.ticket = "rollback"] /\ lease' = lease
  BY DEF StartRollback
<1>2. adapter' \in Adapters /\ lease' \in Leases
  BY <1>1 DEF NodeKnown, Adapters
<1>3. CASE journal.rollback /\ UNCHANGED journal
  BY <1>1, <1>2, <1>3, NodeKept DEF NodeKnown, NodeConsistent, Adapters
<1>4. CASE journal.state = "ACTIVE" /\ journal' = RolledBack(journal)
  BY <1>1, <1>2, <1>4, DecidedByRollback DEF NodeKnown, Adapters
<1>5. QED  BY <1>3, <1>4 DEF StartRollback

\* The retained result of a rolled back publication is dropped.
LEMMA DropSlotNode == ASSUME NodeKnown, DropSlot PROVE NodeStep
<1> DEFINE j == [journal EXCEPT !.acks = @ \cup {<<"Drop">>}, !.held = FALSE]
<1>1. journal' = Compensate(j) /\ lease' = lease /\ adapter.ticket = "rollback"
  BY DEF DropSlot, Ticket
<1>2. adapter' = [adapter EXCEPT !.ticket = IF Compensated(journal') THEN @ ELSE None]
  BY DEF DropSlot
<1>3. <<"Drop">> \in Effects
  BY DEF Effects
<1>4. /\ j \in Journals /\ j.state = journal.state /\ j.complete = journal.complete
      /\ j.rollback = journal.rollback /\ j.intents = journal.intents
      /\ j.released = journal.released /\ j.plan = journal.plan
  BY <1>3 DEF NodeKnown, Journals
<1>5. /\ adapter' \in Adapters /\ adapter'.ticket \in {adapter.ticket, None}
      /\ adapter'.terminal = adapter.terminal /\ adapter'.fenced = adapter.fenced
      /\ adapter'.done = adapter.done /\ adapter'.cleaned = adapter.cleaned
  BY <1>2 DEF NodeKnown, Adapters
<1> HIDE DEF j
<1>6. QED
  BY <1>1, <1>4, <1>5, CompensateIs, NodeKept, NoneIsNot DEF NodeKnown, NodeConsistent

\* The answer to a request of a rollback.
LEMMA ReturnRollbackNode ==
    ASSUME NodeKnown, ReturnRollback PROVE NodeStep
<1> DEFINE r == call["node"]
<1>1. r \in Requests /\ lease' = lease /\ adapter.ticket = "rollback"
  BY DEF ReturnRollback, Waiting, NodeKnown, Callers
<1> HIDE DEF r
<1>2. ASSUME NEW e \in Effects, journal' = [journal EXCEPT !.acks = @ \cup {e}], adapter' = adapter
      PROVE  NodeStep
  BY <1>1, <1>2, NodeKept DEF NodeKnown, NodeConsistent, Journals
<1>3. CASE r[1] \in {"AbortOwner", "RetireRolledBack"}
           /\ journal' = [journal EXCEPT !.acks = @ \cup {r}] /\ UNCHANGED adapter
  <2>1. r \in Effects
    BY <1>1 DEF Effects
  <2>2. QED  BY <1>2, <1>3, <2>1
<1>4. CASE journal' = [journal EXCEPT !.acks = @ \cup {<<"Fence">>}] /\ UNCHANGED adapter
  <2>1. <<"Fence">> \in Effects
    BY DEF Effects
  <2>2. QED  BY <1>2, <1>4, <2>1
<1>5. CASE /\ r[1] = "Release"
           /\ journal' = Compensate([journal EXCEPT !.released = @ \cup {<<r[2], r[3]>>}])
           /\ adapter' = [adapter EXCEPT !.ticket = IF Compensated(journal') THEN @ ELSE None]
  <2> DEFINE j == [journal EXCEPT !.released = @ \cup {<<r[2], r[3]>>}]
  <2>1. <<r[2], r[3]>> \in Hold
    BY <1>1, <1>5, RequestKinds
  <2>2. /\ j \in Journals /\ j.state = journal.state /\ j.complete = journal.complete
        /\ j.rollback = journal.rollback /\ j.intents = journal.intents
        /\ journal.released \subseteq j.released /\ j.plan = journal.plan
    BY <2>1 DEF NodeKnown, Journals
  <2>3. journal' = Compensate(j)
    BY <1>5
  <2>4. /\ adapter' \in Adapters /\ adapter'.ticket \in {adapter.ticket, None}
        /\ adapter'.terminal = adapter.terminal /\ adapter'.fenced = adapter.fenced
        /\ adapter'.done = adapter.done /\ adapter'.cleaned = adapter.cleaned
    BY <1>5 DEF NodeKnown, Adapters
  <2> HIDE DEF j
  <2>5. QED
    BY <1>1, <2>2, <2>3, <2>4, CompensateIs, NodeKept, NoneIsNot DEF NodeKnown, NodeConsistent
<1>6. CASE /\ journal' = EndRound(journal)
           /\ adapter' = [adapter EXCEPT !.reported = TRUE, !.ticket = None]
  <2>1. /\ adapter' \in Adapters /\ adapter'.ticket = None
        /\ adapter'.terminal = adapter.terminal /\ adapter'.fenced = adapter.fenced
        /\ adapter'.done = adapter.done /\ adapter'.cleaned = adapter.cleaned
    BY <1>6 DEF NodeKnown, Adapters
  <2>2. QED
    BY <1>1, <1>6, <2>1, EndRoundIs, NodeKept, NoneIsNot DEF NodeKnown, NodeConsistent
<1>7. QED  BY <1>3, <1>4, <1>5, <1>6 DEF ReturnRollback, r

\* The report of a Complete progresses.
LEMMA ReturnReportNode == ASSUME NodeKnown, ReturnReport PROVE NodeStep
<1>1. journal' = journal /\ lease' = lease
      /\ adapter' = [adapter EXCEPT !.terminal =
            CASE @ = "pending" -> "recorded" [] @ = "recorded" -> "reported" [] OTHER -> @]
  BY DEF ReturnReport
<1>2. /\ adapter' \in Adapters /\ adapter'.ticket = adapter.ticket
      /\ adapter'.fenced = adapter.fenced /\ adapter'.done = adapter.done
      /\ adapter'.cleaned = adapter.cleaned
      /\ adapter'.terminal # None => adapter.terminal # None
  BY <1>1, NoneIsNot DEF NodeKnown, Adapters
<1>3. QED  BY <1>1, <1>2, NodeKept DEF NodeKnown, NodeConsistent

\* The owner's death reaches the Node.
LEMMA InstallOwnerFenceNode == ASSUME NodeKnown, InstallOwnerFence PROVE NodeStep
<1>1. /\ adapter' = [adapter EXCEPT !.fenced = TRUE] /\ journal' = journal /\ lease' = lease
      /\ "owner" \in dead
  BY DEF InstallOwnerFence
<1>2. QED  BY <1>1, NodeKept DEF NodeKnown, NodeConsistent, Adapters

\* The clean-up of a dead owner's publication takes the ticket.
LEMMA StartCleanupNode == ASSUME NodeKnown, StartCleanup PROVE NodeStep
<1>1. /\ adapter' = [adapter EXCEPT !.ticket = "cleanup"] /\ journal' = journal /\ lease' = lease
      /\ adapter.fenced
  BY DEF StartCleanup
<1>2. QED  BY <1>1, NodeKept DEF NodeKnown, NodeConsistent, Adapters

\* The answer to a request of a clean-up.
LEMMA ReturnCleanupNode ==
    ASSUME NodeKnown, ReturnCleanup PROVE NodeStep
<1> DEFINE r == call["node"]
<1>1. r \in Requests /\ lease' = lease /\ adapter.ticket = "cleanup"
  BY DEF ReturnCleanup, Waiting, NodeKnown, Callers
<1> HIDE DEF r
<1>2. ASSUME NEW e \in Effects, journal' = [journal EXCEPT !.acks = @ \cup {e}], adapter' = adapter
      PROVE  NodeStep
  BY <1>1, <1>2, NodeKept DEF NodeKnown, NodeConsistent, Journals
<1>3. CASE journal' = [journal EXCEPT !.acks = @ \cup {<<"Fence">>}] /\ UNCHANGED adapter
  <2>1. <<"Fence">> \in Effects
    BY DEF Effects
  <2>2. QED  BY <1>2, <1>3, <2>1
<1>4. CASE journal' = [journal EXCEPT !.acks = @ \cup {r}] /\ UNCHANGED adapter
  <2>1. r \in Effects
    BY <1>1 DEF Effects
  <2>2. QED  BY <1>2, <1>4, <2>1
<1>5. CASE /\ r[1] = "Release" /\ journal' = journal
           /\ adapter' = [adapter EXCEPT !.cleaned = @ \cup {<<r[2], r[3]>>}]
  <2>1. <<r[2], r[3]>> \in Hold
    BY <1>1, <1>5, RequestKinds
  <2>2. /\ adapter' \in Adapters /\ adapter'.ticket = adapter.ticket
        /\ adapter'.terminal = adapter.terminal /\ adapter'.fenced = adapter.fenced
        /\ adapter'.done = adapter.done /\ adapter'.cleaned = adapter.cleaned \cup {<<r[2], r[3]>>}
    BY <1>5, <2>1 DEF NodeKnown, Adapters
  <2>3. adapter.done => adapter'.cleaned = adapter.cleaned
    BY <2>1, <2>2 DEF NodeKnown, NodeConsistent
  <2>4. QED  BY <1>1, <1>5, <2>2, <2>3, NodeKept DEF NodeKnown, NodeConsistent
<1>6. QED  BY <1>3, <1>4, <1>5 DEF ReturnCleanup, r

\* The clean-up is done: every pin is released, and the journal is retired.
LEMMA FinishCleanupNode == ASSUME NodeKnown, FinishCleanup PROVE NodeStep
<1> DEFINE j == [journal EXCEPT !.state = "RETIRED", !.held = FALSE]
<1>1. /\ journal' = EndRound(j)
      /\ adapter' = [adapter EXCEPT !.ticket = None, !.done = TRUE, !.terminal = None]
      /\ adapter.ticket = "cleanup" /\ adapter.cleaned = Hold
  BY DEF FinishCleanup, Ticket
<1>2. lease' \in Leases
  BY DEF FinishCleanup, NodeKnown, Leases
<1>3. /\ j \in Journals /\ j.state = "RETIRED" /\ j.complete = journal.complete
      /\ j.rollback = journal.rollback /\ j.intents = journal.intents
      /\ j.released = journal.released /\ j.plan = journal.plan
  BY DEF NodeKnown, Journals
<1>4. /\ adapter' \in Adapters /\ adapter'.ticket = None /\ adapter'.terminal = None
      /\ adapter'.fenced = adapter.fenced /\ adapter'.done /\ adapter'.cleaned = adapter.cleaned
  BY <1>1 DEF NodeKnown, Adapters
<1> HIDE DEF j
<1>5. QED
  BY <1>1, <1>2, <1>3, <1>4, EndRoundIs, NodeKept, NoneIsNot DEF NodeKnown, NodeConsistent

\* The owner's acknowledgement lets a completed journal go.
LEMMA ServeNodeNode == ASSUME NodeKnown, NEW r, ServeNode(r) PROVE NodeStep
<1>1. UNCHANGED <<adapter, lease>>
  BY DEF ServeNode
<1>2. CASE journal.complete /\ journal' = [journal EXCEPT !.state = "RETIRED", !.held = FALSE]
  BY <1>1, <1>2, NodeKept, NoneIsNot DEF NodeKnown, NodeConsistent, Journals
<1>3. CASE journal' = journal
  BY <1>1, <1>3, NodeKept DEF NodeKnown, NodeConsistent
<1>4. QED  BY <1>2, <1>3 DEF ServeNode

\* A failed round gives the ticket back, or starts the report again.
LEMMA FailRoundNode ==
    ASSUME NodeKnown, NEW x \in Callers, call[x] # None, FailRound(x), lease' = lease
    PROVE  NodeStep
<1>1. CASE x = "node"
  <2>1. adapter' = [adapter EXCEPT !.ticket = None] /\ journal' = EndRound(journal)
    BY <1>1 DEF FailRound
  <2>2. /\ adapter' \in Adapters /\ adapter'.ticket = None
        /\ adapter'.terminal = adapter.terminal /\ adapter'.fenced = adapter.fenced
        /\ adapter'.done = adapter.done /\ adapter'.cleaned = adapter.cleaned
    BY <2>1 DEF NodeKnown, Adapters
  <2>3. QED  BY <2>1, <2>2, EndRoundIs, NodeKept, NoneIsNot DEF NodeKnown, NodeConsistent
<1>2. CASE x = "report"
  <2>1. adapter' = [adapter EXCEPT !.terminal = "pending"] /\ journal' = journal
    BY <1>2 DEF FailRound
  <2>2. /\ adapter' \in Adapters /\ adapter'.ticket = adapter.ticket
        /\ adapter'.fenced = adapter.fenced
        /\ adapter'.done = adapter.done /\ adapter'.cleaned = adapter.cleaned
    BY <2>1 DEF NodeKnown, Adapters
  <2>3. QED  BY <1>2, <2>1, <2>2, NodeKept DEF NodeKnown, NodeConsistent
<1>3. CASE x \in {"owner", "gcs"}
  <2>1. UNCHANGED <<journal, adapter>>
    BY <1>3 DEF FailRound
  <2>2. QED  BY <2>1, NodeKept DEF NodeKnown, NodeConsistent
<1>4. QED  BY <1>1, <1>2, <1>3 DEF Callers

-----------------------------------------------------------------------------
(* What each party leaves alone *)

NodeActs ==
    \/ NodeRound \/ ReportRound \/ WorkerLost \/ InstallOwnerFence
    \/ \E verdict \in {"SUCCEEDED", "FAILED"} : Decide(verdict)
OwnerActs == OwnerRound \/ ReceiveEnvelope \/ SeeNodeDeath \/ CopyReplica

\* The Node's steps are its own.
LEMMA NodeActsFrame ==
    NodeActs => UNCHANGED <<gcsVars, fixedVars, childVars, ownerVars, faultVars, cleanup>>
<1> USE DEF nodeRest
<1>1. ASSUME NodeRound
      PROVE  UNCHANGED <<gcsVars, fixedVars, childVars, ownerVars, faultVars, cleanup>>
  BY <1>1 DEF NodeRound, StartPrepare, CallPrepare, ReturnPrepare, Materialize, EndPrepare,
              AbandonPrepare, CompleteSucceeded, CompleteFailed, StartRollback, CallRollback,
              DropSlot, ReturnRollback, StartCleanup, CallCleanup, ReturnCleanup, FinishCleanup,
              CallRound
<1>2. ASSUME ReportRound
      PROVE  UNCHANGED <<gcsVars, fixedVars, childVars, ownerVars, faultVars, cleanup>>
  BY <1>2 DEF ReportRound, CallReport, ReturnReport
<1>3. QED  BY <1>1, <1>2 DEF NodeActs, WorkerLost, InstallOwnerFence, Decide

\* The owner's steps are its own.
LEMMA OwnerActsFrame ==
    OwnerActs => UNCHANGED <<gcsVars, fixedVars, nodeVars, childVars, faultVars, cleanup>>
<1> USE DEF ownerRest
<1>1. ASSUME OwnerRound
      PROVE  UNCHANGED <<gcsVars, fixedVars, nodeVars, childVars, faultVars, cleanup>>
  BY <1>1 DEF OwnerRound, StartAdoption, CallOwner, ReturnOwner, AdoptOutput, FinishAdoption,
              AbandonAdoption, StartLoss, DecideLoss, AbortUnregistered, LossRoundFails,
              ResolveLoss, DropAttempt
<1>2. QED  BY <1>1 DEF OwnerActs, ReceiveEnvelope, SeeNodeDeath, CopyReplica

\* A step of the system is a step of one of the parties.
LEMMA Parties ==
    Next =>
        \/ NodeActs
        \/ OwnerActs
        \/ CallGcs \/ ReturnGcs \/ RetireDead
        \/ \E x \in Callers : Deliver(x) \/ Refuse(x) \/ TimeOut(x)
        \/ \E r \in late : Arrive(r)
        \/ \E p \in Processes : Exit(p) \/ RecordExit(p)
        \/ \E p \in Processes, kind \in {"provisional", "final"} : InstallDeath(p, kind)
  BY DEF Next, NodeActs, OwnerActs, GcsRound

\* Serving a request changes the callee only.
LEMMA ServeFrame ==
    ASSUME NEW r, Serve(r)
    PROVE  /\ UNCHANGED <<fixedVars, faultVars, cleanup>>
           /\ \/ ServeGcs(r) /\ UNCHANGED <<ownerVars, nodeVars, childVars>>
              \/ ServeQuery(r)
              \/ ServeOwner(r) /\ UNCHANGED <<gcsVars, nodeVars, childVars>>
              \/ ServeNode(r) /\ UNCHANGED <<gcsVars, ownerVars, childVars>>
              \/ ServeChild(r) /\ UNCHANGED <<gcsVars, ownerVars, nodeVars>>
  BY DEF Serve

\* A round fails with its caller's state only.
LEMMA FailFrame ==
    ASSUME NEW x \in Callers, Refuse(x) \/ TimeOut(x)
    PROVE  /\ call[x] # None /\ FailRound(x)
           /\ UNCHANGED <<gcsVars, fixedVars, lease, replica, childVars, handoff, faultVars, cleanup>>
<1>1. call[x] # None /\ FailRound(x)
      /\ UNCHANGED <<gcsVars, fixedVars, lease, replica, childVars, handoff, faultVars>>
  BY DEF Refuse, TimeOut, Waiting
<1>2. UNCHANGED cleanup
  BY <1>1 DEF FailRound, Callers
<1>3. QED  BY <1>1, <1>2

\* Exits and deaths are never taken back; the GCS records processes that exited.
FaultStep ==
    /\ UNCHANGED fixedVars
    /\ dead \subseteq dead' /\ down \subseteq down'
    /\ dead' \subseteq down' /\ down' \subseteq Processes
    /\ told' \subseteq dead'
    /\ "node" \in down' => "executor" \in down'

\* Every step only adds to the exits and the deaths.
LEMMA NextFaults == ASSUME TypeOK, CallsTyped, [Next]_vars PROVE FaultStep
<1>1. dead \subseteq down /\ down \subseteq Processes /\ told \subseteq dead
      /\ ("node" \in down => "executor" \in down)
  BY DEF TypeOK, CallsTyped
<1>2. ASSUME UNCHANGED <<fixedVars, dead, down, told>> PROVE FaultStep
  BY <1>1, <1>2 DEF FaultStep
<1>3. CASE NodeActs
  BY <1>2, <1>3, NodeActsFrame DEF childVars, faultVars
<1>4. CASE OwnerActs
  BY <1>2, <1>4, OwnerActsFrame DEF childVars, faultVars
<1>5. CASE CallGcs \/ ReturnGcs \/ RetireDead
  BY <1>2, <1>5 DEF CallGcs, ReturnGcs, RetireDead, childVars, faultVars
<1>6. ASSUME NEW r, Serve(r) PROVE FaultStep
  <2>1. told' = told
    BY <1>6, ServeFrame DEF childVars, ServeChild, ServeQuery
  <2>2. QED  BY <1>2, <1>6, <2>1, ServeFrame DEF faultVars
<1>7. ASSUME NEW x \in Callers, Deliver(x) \/ Refuse(x) \/ TimeOut(x) PROVE FaultStep
  <2>1. CASE Deliver(x)
    BY <1>6, <2>1 DEF Deliver
  <2>2. CASE Refuse(x) \/ TimeOut(x)
    BY <1>2, <2>2, FailFrame DEF childVars, faultVars
  <2>3. QED  BY <1>7, <2>1, <2>2
<1>8. ASSUME NEW r \in late, Arrive(r) PROVE FaultStep
  BY <1>6, <1>8 DEF Arrive
<1>9. ASSUME NEW p \in Processes, Exit(p) PROVE FaultStep
  <2>1. /\ down' = down \cup (IF p = "node" THEN {"node", "executor"} ELSE {p})
        /\ UNCHANGED <<dead, fixedVars, childVars>>
    BY <1>9 DEF Exit
  <2>2. QED  BY <1>1, <2>1 DEF FaultStep, childVars, Processes
<1>10. ASSUME NEW p \in Processes, RecordExit(p) PROVE FaultStep
  <2>1. /\ p \in down
        /\ dead' = dead \cup (IF p = "node" THEN {"node", "executor"} ELSE {p})
        /\ UNCHANGED <<down, fixedVars, childVars>>
    BY <1>10 DEF RecordExit
  <2>2. QED  BY <1>1, <2>1 DEF FaultStep, childVars, Processes
<1>11. ASSUME NEW p \in Processes, NEW kind \in {"provisional", "final"}, InstallDeath(p, kind)
       PROVE  FaultStep
  <2>1. told' = told \cup {p} /\ p \in dead /\ UNCHANGED <<fixedVars, faultVars>>
    BY <1>11 DEF InstallDeath
  <2>2. QED  BY <1>1, <2>1 DEF FaultStep, faultVars
<1>12. CASE UNCHANGED vars
  BY <1>2, <1>12 DEF vars, faultVars, childVars
<1>13. QED
  BY <1>3, <1>4, <1>5, <1>7, <1>8, <1>9, <1>10, <1>11, <1>12, Parties

\* What the invariant says of the Node.
LEMMA KnownNode ==
    ASSUME TypeOK, RecordsTyped, CallsTyped, SentJustified, AnswersEffective, NodeConsistent,
           dead \subseteq dead'
    PROVE  NodeKnown
<1>1. call \in [Callers -> Requests \cup {None}]
  BY DEF TypeOK
<1>2. answer["node"] => call["node"] # None
  BY DEF AnswersEffective, Callers
<1>3. call["report"] # None => journal.complete
  <2>1. SUFFICES ASSUME call["report"] # None PROVE journal.complete
    OBVIOUS
  <2>2. call["report"] \in Requests /\ Sent(call["report"])
    BY <1>1, <2>1 DEF Sent, Callers
  <2>3. call["report"][1] \in {"RecordTerminal", "ReportComplete"}
    BY <2>1 DEF CallsTyped
  <2>4. QED  BY <2>2, <2>3 DEF SentJustified, Justified
<1>4. QED  BY <1>1, <1>2, <1>3 DEF NodeKnown, RecordsTyped

\* Every step keeps the Node consistent.
LEMMA NextNode ==
    ASSUME TypeOK, RecordsTyped, CallsTyped, SentJustified, AnswersEffective, NodeConsistent,
           [Next]_vars
    PROVE  NodeStep
<1>1. NodeKnown
  BY NextFaults, KnownNode DEF FaultStep
<1>2. ASSUME UNCHANGED nodeVars PROVE NodeStep
  BY <1>1, <1>2, QuietNode
<1>3. CASE NodeActs
  <2>1. CASE NodeRound
    <3>1. ASSUME NEW r \in Requests, CallPrepare(r) PROVE NodeStep
      BY <1>1, <3>1, CallPrepareNode
    <3>2. ASSUME NEW r \in Requests, CallRollback(r) \/ CallCleanup(r) PROVE NodeStep
      BY <1>2, <3>2 DEF CallRollback, CallCleanup, CallRound
    <3>3. CASE EndPrepare \/ AbandonPrepare
      BY <1>1, <3>3, QuietNode
    <3>4. QED
      BY <1>1, <2>1, <3>1, <3>2, <3>3, StartPrepareNode, ReturnPrepareNode, MaterializeNode,
         CompleteSucceededNode, CompleteFailedNode, StartRollbackNode, DropSlotNode,
         ReturnRollbackNode, StartCleanupNode, ReturnCleanupNode, FinishCleanupNode DEF NodeRound
  <2>2. CASE ReportRound
    <3>1. CASE CallReport
      BY <1>2, <3>1 DEF CallReport
    <3>2. QED  BY <1>1, <2>2, <3>1, ReturnReportNode DEF ReportRound
  <2>3. CASE WorkerLost \/ \E verdict \in {"SUCCEEDED", "FAILED"} : Decide(verdict)
    BY <1>1, <2>3, QuietNode
  <2>4. QED  BY <1>1, <1>3, <2>1, <2>2, <2>3, InstallOwnerFenceNode DEF NodeActs
<1>4. CASE OwnerActs
  BY <1>2, <1>4, OwnerActsFrame
<1>5. CASE CallGcs \/ ReturnGcs \/ RetireDead
  BY <1>2, <1>5 DEF CallGcs, ReturnGcs, RetireDead
<1>6. ASSUME NEW r, Serve(r) PROVE NodeStep
  <2>1. CASE ServeNode(r)
    BY <1>1, <2>1, ServeNodeNode
  <2>2. CASE UNCHANGED nodeVars
    BY <1>2, <2>2
  <2>3. QED  BY <1>6, <2>1, <2>2, ServeFrame DEF ServeQuery
<1>7. ASSUME NEW x \in Callers, Deliver(x) \/ Refuse(x) \/ TimeOut(x) PROVE NodeStep
  <2>1. CASE Deliver(x)
    BY <1>6, <2>1 DEF Deliver
  <2>2. CASE Refuse(x) \/ TimeOut(x)
    BY <1>1, <2>2, FailFrame, FailRoundNode
  <2>3. QED  BY <1>7, <2>1, <2>2
<1>8. ASSUME NEW r \in late, Arrive(r) PROVE NodeStep
  BY <1>6, <1>8 DEF Arrive
<1>9. ASSUME NEW p \in Processes, Exit(p) \/ RecordExit(p) PROVE NodeStep
  BY <1>2, <1>9 DEF Exit, RecordExit
<1>10. ASSUME NEW p \in Processes, NEW kind \in {"provisional", "final"}, InstallDeath(p, kind)
       PROVE  NodeStep
  BY <1>2, <1>10 DEF InstallDeath
<1>11. CASE UNCHANGED vars
  BY <1>2, <1>11 DEF vars
<1>12. QED
  BY <1>3, <1>4, <1>5, <1>7, <1>8, <1>9, <1>10, <1>11, Parties

-----------------------------------------------------------------------------
(* The GCS *)

\* What an Accept adds to the record of the publication.
LEMMA AcceptIs ==
    ASSUME Gcs!TypeOK, NEW s \in Gcs!Stages, Gcs!Accept(Pub, s)
    PROVE  /\ stages' \in [{Pub} -> SUBSET Gcs!Stages]
           /\ stages'[Pub] = stages[Pub] \cup {s}
           /\ s \notin stages[Pub]
  BY DEF Gcs!TypeOK, Gcs!Accept, Gcs!Has

\* The stages the requests name.
LEMMA StagesAre ==
    /\ "INTENT" \in Gcs!Stages /\ "PREPARED" \in Gcs!Stages /\ "ARMED" \in Gcs!Stages
    /\ "TERMINAL" \in Gcs!Stages /\ "COMMITTED" \in Gcs!Stages /\ "ADOPTED" \in Gcs!Stages
    /\ "FENCED" \in Gcs!Stages /\ "RETIRED" \in Gcs!Stages
  BY DEF Gcs!Stages

\* The settlements that the parties report are settlements.
LEMMA SettlementsAre ==
    ASSUME journal \in Journals
    PROVE  RollbackScope \in Gcs!Settlement /\ EveryHold \in Gcs!Settlement
<1>1. C \X {"child"} \subseteq (0..Transfers) \X {"owner", "child"}
  BY OutputPublicationAssumption DEF C
<1>2. ASSUME NEW H, H \subseteq Hold
      PROVE  Credential(H) \subseteq ((0..Transfers) \X {"owner", "child"}) \X {"provisional", "final"}
  BY <1>1, <1>2 DEF Credential, Hold
<1>3. Intended(journal, "Prepare") \subseteq C /\ Intended(journal, "Promote") \subseteq C
  BY DEF Intended
<1>4. Intended(journal, "Prepare") \X {"child"} \subseteq (0..Transfers) \X {"owner", "child"}
      /\ Intended(journal, "Promote") \X {"child"} \subseteq (0..Transfers) \X {"owner", "child"}
  BY <1>1, <1>3
<1>5. Started(journal) \in BOOLEAN
  BY DEF Started
<1>6. Credential(journal.plan) \subseteq ((0..Transfers) \X {"owner", "child"}) \X {"provisional", "final"}
  BY <1>2 DEF Journals
<1>7. RollbackScope \in Gcs!Settlement
  <2> HIDE DEF Intended, Started, Credential, C
  <2>1. QED  BY <1>4, <1>5, <1>6 DEF RollbackScope, Gcs!Settlement
<1>8. Credential(Hold) \subseteq ((0..Transfers) \X {"owner", "child"}) \X {"provisional", "final"}
  BY <1>2
<1>9. EveryHold \in Gcs!Settlement
  <2> HIDE DEF Credential, C
  <2>1. QED  BY <1>1, <1>8 DEF EveryHold, Gcs!Settlement
<1>10. QED  BY <1>7, <1>9

\* A step adds stages to the record, and some only for the request r.
GcsMove(r) ==
    /\ Gcs!TypeOK'
    /\ stages[Pub] \subseteq stages'[Pub]
    /\ Issued("COMMITTED")' => Issued("COMMITTED") \/ (r[1] = "Commit" /\ Issued("TERMINAL"))
    /\ Issued("TERMINAL")' => Issued("TERMINAL") \/ (r[1] = "RecordTerminal" /\ Issued("ARMED"))
    /\ Issued("ARMED")' => Issued("ARMED") \/ r[1] = "Arm"
    /\ Issued("RETIRED")' => Issued("RETIRED") \/ r[1] \in {"RetireRolledBack", "RetireReleased"}
    /\ complete'[Pub] # None => complete[Pub] # None \/ r[1] = "RecordTerminal"
    /\ closed'[Pub].rollback => closed[Pub].rollback \/ r[1] = "RetireRolledBack"
    /\ r[1] = "Commit" => Issued("COMMITTED")'

\* Nothing happens at the GCS.
LEMMA GcsQuiet ==
    ASSUME Gcs!TypeOK, UNCHANGED gcsVars, NEW r, r[1] = "Commit" => Issued("COMMITTED")
    PROVE  GcsMove(r)
  BY DEF gcsVars, GcsMove, Gcs!TypeOK, Issued, Gcs!Has

\* A fence, whichever its proof.
LEMMA FenceMove ==
    ASSUME Gcs!TypeOK, NEW r, NEW proof \in {"OwnerAbort", "OwnerRetirement", "OwnerDeath"},
           Gcs!Fence(Pub, proof), r[1] # "Commit"
    PROVE  GcsMove(r)
<1>1. /\ stages' \in [{Pub} -> SUBSET Gcs!Stages] /\ stages'[Pub] = stages[Pub] \cup {"FENCED"}
      /\ fence' = [fence EXCEPT ![Pub] = proof] /\ UNCHANGED <<prepared, complete, adoption, closed>>
  BY AcceptIs, StagesAre DEF Gcs!Fence
<1>2. Gcs!TypeOK'
  BY <1>1 DEF Gcs!TypeOK, Gcs!FenceProofs
<1>3. QED  BY <1>1, <1>2 DEF GcsMove, Issued, Gcs!Has

\* A retirement, with the settlement of a rollback only if the request says so.
LEMMA RetireMove ==
    ASSUME Gcs!TypeOK, NEW r, NEW s \in Gcs!Settlement, Gcs!Retire(Pub, s),
           r[1] \in {"RetireRolledBack", "RetireReleased"},
           s.rollback => r[1] = "RetireRolledBack"
    PROVE  GcsMove(r)
<1>1. /\ stages' \in [{Pub} -> SUBSET Gcs!Stages] /\ stages'[Pub] = stages[Pub] \cup {"RETIRED"}
      /\ closed' = [closed EXCEPT ![Pub] = s] /\ UNCHANGED <<fence, prepared, complete, adoption>>
  BY AcceptIs, StagesAre DEF Gcs!Retire
<1>2. Gcs!TypeOK' /\ closed'[Pub] = s
  <2> HIDE DEF Gcs!Settlement
  <2>1. QED  BY <1>1 DEF Gcs!TypeOK
<1>3. QED  BY <1>1, <1>2 DEF GcsMove, Issued, Gcs!Has

\* Every request to the GCS is such a step.
LEMMA ServeGcsMove ==
    ASSUME Gcs!TypeOK, journal \in Journals, NEW r, ServeGcs(r)
    PROVE  GcsMove(r)
<1> USE AcceptIs, StagesAre
<1>1. CASE r = <<"Begin">> /\ (Replay("INTENT") \/ Gcs!Begin(Pub))
  <2>1. CASE Replay("INTENT")
    BY <1>1, <2>1, GcsQuiet DEF Replay
  <2>2. CASE Gcs!Begin(Pub)
    <3>1. /\ stages' \in [{Pub} -> SUBSET Gcs!Stages] /\ stages'[Pub] = stages[Pub] \cup {"INTENT"}
          /\ UNCHANGED <<fence, prepared, complete, adoption, closed>>
      BY <2>2 DEF Gcs!Begin
    <3>2. QED  BY <1>1, <3>1 DEF GcsMove, Issued, Gcs!Has, Gcs!TypeOK
  <2>3. QED  BY <1>1, <2>1, <2>2
<1>2. CASE r = <<"PrepareGraph">> /\ (Replay("PREPARED") \/ Gcs!Prepare(Pub))
  <2>1. CASE Replay("PREPARED")
    BY <1>2, <2>1, GcsQuiet DEF Replay
  <2>2. CASE Gcs!Prepare(Pub)
    <3>1. /\ stages' \in [{Pub} -> SUBSET Gcs!Stages] /\ stages'[Pub] = stages[Pub] \cup {"PREPARED"}
          /\ UNCHANGED <<fence, prepared, complete, adoption, closed>>
      BY <2>2 DEF Gcs!Prepare
    <3>2. QED  BY <1>2, <3>1 DEF GcsMove, Issued, Gcs!Has, Gcs!TypeOK
  <2>3. QED  BY <1>2, <2>1, <2>2
<1>3. CASE r = <<"Arm">> /\ (Replay("ARMED") \/ Gcs!Arm(Pub))
  <2>1. CASE Replay("ARMED")
    BY <1>3, <2>1, GcsQuiet DEF Replay
  <2>2. CASE Gcs!Arm(Pub)
    <3>1. /\ stages' \in [{Pub} -> SUBSET Gcs!Stages] /\ stages'[Pub] = stages[Pub] \cup {"ARMED"}
          /\ UNCHANGED <<fence, complete, adoption, closed>>
          /\ prepared' = [prepared EXCEPT ![Pub] = TRUE]
      BY <2>2 DEF Gcs!Arm
    <3>2. QED  BY <1>3, <3>1 DEF GcsMove, Issued, Gcs!Has, Gcs!TypeOK
  <2>3. QED  BY <1>3, <2>1, <2>2
<1>4. CASE r = <<"RecordTerminal">> /\ (Replay("TERMINAL") \/ Gcs!RecordTerminal(Pub, "success"))
  <2>1. CASE Replay("TERMINAL")
    BY <1>4, <2>1, GcsQuiet DEF Replay
  <2>2. CASE Gcs!RecordTerminal(Pub, "success")
    <3>1. /\ stages' \in [{Pub} -> SUBSET Gcs!Stages] /\ stages'[Pub] = stages[Pub] \cup {"TERMINAL"}
          /\ UNCHANGED <<fence, prepared, adoption, closed>>
          /\ complete' = [complete EXCEPT ![Pub] = "success"] /\ Issued("ARMED")
      BY <2>2 DEF Gcs!RecordTerminal, Issued
    <3>2. QED  BY <1>4, <3>1 DEF GcsMove, Issued, Gcs!Has, Gcs!TypeOK
  <2>3. QED  BY <1>4, <2>1, <2>2
<1>5. CASE r = <<"Commit">> /\ (Replay("COMMITTED") \/ Gcs!CommitTask(Pub))
  <2>1. CASE Replay("COMMITTED")
    BY <1>5, <2>1, GcsQuiet DEF Replay
  <2>2. CASE Gcs!CommitTask(Pub)
    <3>1. /\ stages' \in [{Pub} -> SUBSET Gcs!Stages] /\ stages'[Pub] = stages[Pub] \cup {"COMMITTED"}
          /\ UNCHANGED <<fence, prepared, complete, adoption, closed>> /\ Issued("TERMINAL")
      BY <2>2 DEF Gcs!CommitTask, Issued
    <3>2. QED  BY <1>5, <3>1 DEF GcsMove, Issued, Gcs!Has, Gcs!TypeOK
  <2>3. QED  BY <1>5, <2>1, <2>2
<1>6. CASE r = <<"RecordAdoption">> /\ (Replay("ADOPTED") \/ Gcs!Adopt(Pub, "success"))
  <2>1. CASE Replay("ADOPTED")
    BY <1>6, <2>1, GcsQuiet DEF Replay
  <2>2. CASE Gcs!Adopt(Pub, "success")
    <3>1. /\ stages' \in [{Pub} -> SUBSET Gcs!Stages] /\ stages'[Pub] = stages[Pub] \cup {"ADOPTED"}
          /\ UNCHANGED <<fence, prepared, complete, closed>>
          /\ adoption' = [adoption EXCEPT ![Pub] = "success"]
      BY <2>2 DEF Gcs!Adopt
    <3>2. QED  BY <1>6, <3>1 DEF GcsMove, Issued, Gcs!Has, Gcs!TypeOK
  <2>3. QED  BY <1>6, <2>1, <2>2
<1>7. CASE r[1] \in {"FenceAbort", "FenceDeath", "FenceLost"}
           /\ (UNCHANGED gcsVars \/ Gcs!Fence(Pub, "OwnerAbort") \/ Gcs!Fence(Pub, "OwnerDeath")
               \/ Gcs!Fence(Pub, "OwnerRetirement"))
  BY <1>7, GcsQuiet, FenceMove
<1>8. CASE r[1] = "RetireRolledBack" /\ (UNCHANGED gcsVars \/ Gcs!Retire(Pub, RollbackScope))
  BY <1>8, GcsQuiet, RetireMove, SettlementsAre
<1>9. CASE r[1] = "RetireReleased" /\ (UNCHANGED gcsVars \/ Gcs!Retire(Pub, EveryHold))
  <2>1. ~EveryHold.rollback
    BY DEF EveryHold
  <2>2. QED  BY <1>9, <2>1, GcsQuiet, RetireMove, SettlementsAre
<1> HIDE AcceptIs, StagesAre
<1>10. QED
  <2>1. CASE r = <<"FenceAbort">> \/ r = <<"FenceDeath">> \/ r = <<"FenceLost">>
    <3>1. UNCHANGED gcsVars \/ Gcs!Fence(Pub, "OwnerAbort") \/ Gcs!Fence(Pub, "OwnerDeath")
               \/ Gcs!Fence(Pub, "OwnerRetirement")
      BY <2>1 DEF ServeGcs, Replay
    <3>2. QED  BY <1>7, <2>1, <3>1
  <2>2. CASE r = <<"RetireRolledBack">>
    BY <1>8, <2>2 DEF ServeGcs, Replay
  <2>3. CASE r = <<"RetireReleased">>
    BY <1>9, <2>3 DEF ServeGcs, Replay
  <2>4. QED
    BY <1>1, <1>2, <1>3, <1>4, <1>5, <1>6, <2>1, <2>2, <2>3 DEF ServeGcs

\* What a step adds to the record, in terms of what is true before it.
GcsStep ==
    /\ Gcs!TypeOK'
    /\ stages[Pub] \subseteq stages'[Pub]
    /\ Issued("COMMITTED")' => Issued("COMMITTED") \/ Issued("TERMINAL")
    /\ Issued("TERMINAL")' => Issued("TERMINAL") \/ (journal.complete /\ Issued("ARMED"))
    /\ Issued("ARMED")' => Issued("ARMED") \/ \A c \in C : child[c].promoted
    /\ Issued("RETIRED")' => Issued("RETIRED") \/ AllGone \/ PlanDone
    /\ complete'[Pub] # None => complete[Pub] # None \/ journal.complete
    /\ closed'[Pub].rollback => closed[Pub].rollback \/ journal.rollback

\* A request that was sent was sent by somebody who knew.
LEMMA MoveJustified ==
    ASSUME NEW r \in Requests, Sent(r), SentJustified, GcsMove(r), ReleasesGone
    PROVE  GcsStep
<1>1. Justified(r)
  BY DEF SentJustified
<1>2. r[1] = "RetireReleased" => AllGone
  BY <1>1 DEF Justified, ReleasesGone, AllGone
<1>3. QED  BY <1>1, <1>2 DEF GcsMove, GcsStep, Justified

\* A step that leaves the GCS alone.
LEMMA GcsAlone == ASSUME Gcs!TypeOK, UNCHANGED gcsVars PROVE GcsStep
  BY DEF gcsVars, GcsStep, Gcs!TypeOK, Issued, Gcs!Has

\* A request that is served was sent.
LEMMA ServedSent ==
    ASSUME TypeOK, NEW r,
           \/ \E x \in Callers : r = call[x] /\ Deliver(x)
           \/ r \in late /\ Arrive(r)
    PROVE  r \in Requests /\ Sent(r) /\ Serve(r)
<1>1. ASSUME NEW x \in Callers, r = call[x], Deliver(x) PROVE r \in Requests /\ Sent(r) /\ Serve(r)
  BY <1>1 DEF Deliver, Waiting, TypeOK, Sent
<1>2. ASSUME r \in late, Arrive(r) PROVE r \in Requests /\ Sent(r) /\ Serve(r)
  BY <1>2 DEF Arrive, TypeOK, Sent
<1>3. QED  BY <1>1, <1>2

\* Every step of the system changes the record in this way only.
LEMMA NextGcs ==
    ASSUME TypeOK, RecordsTyped, SentJustified, ReleasesGone, [Next]_vars
    PROVE  GcsStep
<1>1. Gcs!TypeOK /\ journal \in Journals
  BY DEF TypeOK, RecordsTyped
<1>2. CASE NodeActs
  BY <1>1, <1>2, NodeActsFrame, GcsAlone
<1>3. CASE OwnerActs
  BY <1>1, <1>3, OwnerActsFrame, GcsAlone
<1>4. CASE CallGcs \/ ReturnGcs
  BY <1>1, <1>4, GcsAlone DEF CallGcs, ReturnGcs
<1>5. CASE RetireDead
  <2> DEFINE r == <<"RetireReleased">>
  <2>1. ~EveryHold.rollback
    BY DEF EveryHold
  <2>2. GcsMove(r)
    BY <1>1, <1>5, <2>1, RetireMove, SettlementsAre DEF RetireDead
  <2>3. AllGone
    BY <1>5 DEF RetireDead, ReleasesGone, AllGone
  <2>4. QED  BY <2>2, <2>3 DEF GcsMove, GcsStep
<1>6. ASSUME NEW r \in Requests, Sent(r), Serve(r) PROVE GcsStep
  <2>1. CASE ServeGcs(r)
    BY <1>1, <1>6, <2>1, ServeGcsMove, MoveJustified
  <2>2. CASE UNCHANGED gcsVars
    BY <1>1, <2>2, GcsAlone
  <2>3. QED  BY <1>6, <2>1, <2>2, ServeFrame DEF ServeQuery
<1>7. ASSUME NEW x \in Callers, Deliver(x) \/ Refuse(x) \/ TimeOut(x) PROVE GcsStep
  <2>1. CASE Deliver(x)
    BY <1>6, <2>1, ServedSent
  <2>2. CASE Refuse(x) \/ TimeOut(x)
    BY <1>1, <2>2, FailFrame, GcsAlone
  <2>3. QED  BY <1>7, <2>1, <2>2
<1>8. ASSUME NEW r \in late, Arrive(r) PROVE GcsStep
  BY <1>6, <1>8, ServedSent
<1>9. ASSUME NEW p \in Processes, Exit(p) PROVE GcsStep
  BY <1>1, <1>9, GcsAlone DEF Exit
<1>10. ASSUME NEW p \in Processes, RecordExit(p) PROVE GcsStep
  <2>1. CASE Gcs!Fence(Pub, "OwnerDeath")
    <3> DEFINE r == <<"FenceDeath">>
    <3>1. GcsMove(r)
      BY <1>1, <2>1, FenceMove
    <3>2. QED  BY <3>1 DEF GcsMove, GcsStep
  <2>2. CASE UNCHANGED gcsVars
    BY <1>1, <2>2, GcsAlone
  <2>3. QED  BY <1>10, <2>1, <2>2 DEF RecordExit
<1>11. ASSUME NEW p \in Processes, NEW kind \in {"provisional", "final"}, InstallDeath(p, kind)
       PROVE  GcsStep
  BY <1>1, <1>11, GcsAlone DEF InstallDeath
<1>12. CASE UNCHANGED vars
  BY <1>1, <1>12, GcsAlone DEF vars
<1>13. QED
  BY <1>2, <1>3, <1>4, <1>5, <1>7, <1>8, <1>9, <1>10, <1>11, <1>12, Parties

-----------------------------------------------------------------------------
(* The owner *)

OwnerStep ==
    /\ handoff' \in Handoffs /\ object' \in Outputs
    /\ OwnerConsistent'
    /\ object.choice = "discard" => object'.choice = "discard"
    /\ object.released \subseteq object'.released

\* What a step knows of the owner.
OwnerKnown ==
    /\ handoff \in Handoffs /\ object \in Outputs
    /\ OwnerConsistent
    /\ journal.complete => journal'.complete
    /\ journal.rollback => journal'.rollback
    /\ Issued("COMMITTED") => Issued("COMMITTED")'
    /\ stored' = stored

\* The step that leaves the owner alone.
LEMMA OwnerAlone == ASSUME OwnerKnown, UNCHANGED ownerVars PROVE OwnerStep
<1>1. handoff' = handoff /\ object' = object
  BY DEF ownerVars
<1>2. OwnerConsistent'
  BY <1>1 DEF OwnerKnown, OwnerConsistent, Round
<1>3. QED  BY <1>1, <1>2 DEF OwnerStep, OwnerKnown

\* A step of the object that knows of no new Complete and shows nothing new.
LEMMA ObjectKept ==
    ASSUME OwnerKnown, object' \in Outputs, handoff' \in Handoffs,
           handoff'.complete => handoff.complete \/ journal.complete,
           handoff'.reason = "rollback" => handoff.reason = "rollback" \/ journal.rollback,
           object'.custody => object.custody \/ (journal.complete /\ object.choice = None),
           object'.central => object.central \/ journal.complete,
           object'.known => object.known \/ journal.complete,
           object'.state = object.state,
           object'.choice = object.choice,
           object'.released = object.released,
           object'.driver \in {object.driver, None},
           object'.round \subseteq object.round,
           object'.seen = object.seen,
           object.survivors => object'.survivors,
           object.over => object'.over,
           ~object'.over => object'.custody \/ ~object.custody,
           object'.driver = "adopt" => object'.custody
    PROVE  OwnerStep
<1>1. OwnerConsistent'
  BY NoneIsNot DEF OwnerKnown, OwnerConsistent, Round
<1>2. QED  BY <1>1 DEF OwnerStep, OwnerKnown

\* The owner receives the envelope.
LEMMA ReceiveEnvelopeOwner == ASSUME OwnerKnown, ReceiveEnvelope PROVE OwnerStep
<1>1. /\ object' = [object EXCEPT !.custody = TRUE] /\ handoff' = handoff
      /\ journal.complete /\ object.choice = None
  BY DEF ReceiveEnvelope
<1>2. /\ object' \in Outputs /\ object'.custody /\ object'.central = object.central
      /\ object'.known = object.known /\ object'.state = object.state
      /\ object'.choice = object.choice /\ object'.released = object.released
      /\ object'.driver = object.driver /\ object'.round = object.round
      /\ object'.seen = object.seen /\ object'.survivors = object.survivors
      /\ object'.over = object.over
  BY <1>1 DEF OwnerKnown, Outputs
<1>3. QED  BY <1>1, <1>2, ObjectKept DEF OwnerKnown, OwnerConsistent

\* The driver of the adoption starts.
LEMMA StartAdoptionOwner == ASSUME OwnerKnown, StartAdoption PROVE OwnerStep
<1>1. /\ object' = [object EXCEPT !.driver = "adopt", !.round = {}]
      /\ handoff' = [handoff EXCEPT !.complete = TRUE]
      /\ object.custody
  BY DEF StartAdoption
<1>2. /\ object' \in Outputs /\ object'.custody = object.custody /\ object'.central = object.central
      /\ object'.known = object.known /\ object'.state = object.state
      /\ object'.choice = object.choice /\ object'.released = object.released
      /\ object'.driver = "adopt" /\ object'.round = {}
      /\ object'.seen = object.seen /\ object'.survivors = object.survivors
      /\ object'.over = object.over
  BY <1>1 DEF OwnerKnown, Outputs
<1>3. handoff' \in Handoffs /\ handoff'.reason = handoff.reason
  BY <1>1 DEF OwnerKnown, Handoffs
<1>4. journal.complete
  BY <1>1 DEF OwnerKnown, OwnerConsistent
<1>5. OwnerConsistent'
  BY <1>1, <1>2, <1>3, <1>4 DEF OwnerKnown, OwnerConsistent, Round
<1>6. QED  BY <1>2, <1>3, <1>5 DEF OwnerStep

\* An answer to the owner: a released pin, or a finished request of its round.
LEMMA ReturnOwnerOwner ==
    ASSUME OwnerKnown, ReturnOwner, call["owner"] # None => call["owner"] \in Requests,
           answer["owner"] => Effective(call["owner"])
    PROVE  OwnerStep
<1> DEFINE r == call["owner"]
<1>1. /\ object' = IF r[1] = "Release"
                   THEN [object EXCEPT !.released = @ \cup {<<r[2], r[3]>>}]
                   ELSE [object EXCEPT !.round = @ \cup {r}]
      /\ handoff' = handoff /\ r \in Requests
      /\ r[1] = "Commit" => Issued("COMMITTED")
  <2>1. r[1] = "Commit" => answer["owner"]
    BY DEF ReturnOwner, ProvenGone
  <2>2. QED  BY <2>1 DEF ReturnOwner, Waiting, Effective
<1> HIDE DEF r
<1>2. CASE r[1] = "Release"
  <2>1. <<r[2], r[3]>> \in Hold
    BY <1>1, <1>2, RequestKinds
  <2>2. /\ object' \in Outputs /\ object'.custody = object.custody /\ object'.central = object.central
        /\ object'.known = object.known /\ object'.state = object.state
        /\ object'.choice = object.choice /\ object.released \subseteq object'.released
        /\ object'.driver = object.driver /\ object'.round = object.round
        /\ object'.seen = object.seen /\ object'.survivors = object.survivors
        /\ object'.over = object.over
    BY <1>1, <1>2, <2>1 DEF OwnerKnown, Outputs
  <2>3. OwnerConsistent'
    BY <1>1, <2>2 DEF OwnerKnown, OwnerConsistent, Round
  <2>4. QED  BY <1>1, <2>2, <2>3 DEF OwnerStep, OwnerKnown
<1>3. CASE r[1] # "Release"
  <2>2. /\ object' \in Outputs /\ object'.custody = object.custody /\ object'.central = object.central
        /\ object'.known = object.known /\ object'.state = object.state
        /\ object'.choice = object.choice /\ object.released = object'.released
        /\ object'.driver = object.driver /\ object'.round = object.round \cup {r}
        /\ object'.seen = object.seen /\ object'.survivors = object.survivors
        /\ object'.over = object.over
    BY <1>1, <1>3 DEF OwnerKnown, Outputs
  <2>3. <<"Commit">> \in object'.round => <<"Commit">> \in object.round \/ Issued("COMMITTED")
    BY <1>1, <2>2
  <2>4. OwnerConsistent'
    BY <1>1, <2>2, <2>3 DEF OwnerKnown, OwnerConsistent, Round
  <2>5. QED  BY <1>1, <2>2, <2>4 DEF OwnerStep, OwnerKnown
<1>4. QED  BY <1>2, <1>3

\* The owner CAS shows a committed output.
LEMMA AdoptOutputOwner == ASSUME OwnerKnown, AdoptOutput PROVE OwnerStep
<1>1. /\ object' = [object EXCEPT !.state = "READY"]
      /\ handoff' = [handoff EXCEPT !.phase = "ADOPTED"]
      /\ object.driver = "adopt" /\ Round(<<"Commit">>) /\ ~object.seen
  BY DEF AdoptOutput, Driver
<1>2. /\ object' \in Outputs /\ object'.custody = object.custody /\ object'.central = object.central
      /\ object'.known = object.known /\ object'.state = "READY"
      /\ object'.choice = object.choice /\ object'.released = object.released
      /\ object'.driver = object.driver /\ object'.round = object.round
      /\ object'.seen = object.seen /\ object'.survivors = object.survivors
      /\ object'.over = object.over
  BY <1>1 DEF OwnerKnown, Outputs
<1>3. handoff' \in Handoffs /\ handoff'.reason = handoff.reason /\ handoff'.complete = handoff.complete
  BY <1>1 DEF OwnerKnown, Handoffs
<1>4. object.custody /\ journal.complete /\ object.choice = None
  BY <1>1 DEF OwnerKnown, OwnerConsistent, Outputs
<1>5. OwnerConsistent'
  BY <1>1, <1>2, <1>3, <1>4, NoneIsNot DEF OwnerKnown, OwnerConsistent, Round
<1>6. QED  BY <1>2, <1>3, <1>5 DEF OwnerStep

\* A round of the owner ends: its driver stops, or its attempt is over.
LEMMA RoundEndsOwner ==
    ASSUME OwnerKnown,
           \/ FinishAdoption \/ AbandonAdoption \/ LossRoundFails \/ AbortUnregistered \/ DropAttempt
           \/ CopyReplica
    PROVE  OwnerStep
<1>1. CASE FinishAdoption
  <2>1. object' = [object EXCEPT !.over = TRUE, !.custody = FALSE, !.driver = None] /\ handoff' = handoff
    BY <1>1 DEF FinishAdoption
  <2>2. /\ object' \in Outputs /\ ~object'.custody /\ object'.central = object.central
        /\ object'.known = object.known /\ object'.state = object.state
        /\ object'.choice = object.choice /\ object'.released = object.released
        /\ object'.driver = None /\ object'.round = object.round
        /\ object'.seen = object.seen /\ object'.survivors = object.survivors
        /\ object'.over
    BY <2>1 DEF OwnerKnown, Outputs
  <2>3. QED  BY <2>1, <2>2, ObjectKept, NoneIsNot DEF OwnerKnown
<1>2. CASE AbandonAdoption \/ LossRoundFails
  <2>1. object' = [object EXCEPT !.driver = None, !.round = {}] /\ handoff' = handoff
    BY <1>2 DEF AbandonAdoption, LossRoundFails
  <2>2. /\ object' \in Outputs /\ object'.custody = object.custody /\ object'.central = object.central
        /\ object'.known = object.known /\ object'.state = object.state
        /\ object'.choice = object.choice /\ object'.released = object.released
        /\ object'.driver = None /\ object'.round = {}
        /\ object'.seen = object.seen /\ object'.survivors = object.survivors
        /\ object'.over = object.over
    BY <2>1 DEF OwnerKnown, Outputs
  <2>3. QED  BY <2>1, <2>2, ObjectKept, NoneIsNot DEF OwnerKnown
<1>3. CASE AbortUnregistered
  <2>1. /\ object' = [object EXCEPT !.over = TRUE, !.driver = None]
        /\ handoff' = [handoff EXCEPT !.phase = "ABORTED", !.reason = "loss"]
    BY <1>3 DEF AbortUnregistered
  <2>2. /\ object' \in Outputs /\ object'.custody = object.custody /\ object'.central = object.central
        /\ object'.known = object.known /\ object'.state = object.state
        /\ object'.choice = object.choice /\ object'.released = object.released
        /\ object'.driver = None /\ object'.round = object.round
        /\ object'.seen = object.seen /\ object'.survivors = object.survivors
        /\ object'.over
    BY <2>1 DEF OwnerKnown, Outputs
  <2>3. handoff' \in Handoffs /\ handoff'.reason = "loss" /\ handoff'.complete = handoff.complete
    BY <2>1 DEF OwnerKnown, Handoffs
  <2>4. QED  BY <2>2, <2>3, ObjectKept, NoneIsNot DEF OwnerKnown
<1>4. CASE DropAttempt
  <2>1. object' = [object EXCEPT !.over = TRUE] /\ handoff' = handoff
    BY <1>4 DEF DropAttempt
  <2>2. /\ object' \in Outputs /\ object'.custody = object.custody /\ object'.central = object.central
        /\ object'.known = object.known /\ object'.state = object.state
        /\ object'.choice = object.choice /\ object'.released = object.released
        /\ object'.driver = object.driver /\ object'.round = object.round
        /\ object'.seen = object.seen /\ object'.survivors = object.survivors
        /\ object'.over
    BY <2>1 DEF OwnerKnown, Outputs
  <2>3. QED  BY <2>1, <2>2, ObjectKept DEF OwnerKnown, OwnerConsistent
<1>5. CASE CopyReplica
  <2>1. object' = [object EXCEPT !.survivors = TRUE] /\ handoff' = handoff
    BY <1>5 DEF CopyReplica
  <2>2. /\ object' \in Outputs /\ object'.custody = object.custody /\ object'.central = object.central
        /\ object'.known = object.known /\ object'.state = object.state
        /\ object'.choice = object.choice /\ object'.released = object.released
        /\ object'.driver = object.driver /\ object'.round = object.round
        /\ object'.seen = object.seen /\ object'.survivors
        /\ object'.over = object.over
    BY <2>1 DEF OwnerKnown, Outputs
  <2>3. QED  BY <2>1, <2>2, ObjectKept DEF OwnerKnown, OwnerConsistent
<1>6. QED  BY <1>1, <1>2, <1>3, <1>4, <1>5

\* The owner learns of the Node's death: a value with no other replica is lost.
LEMMA SeeNodeDeathOwner == ASSUME OwnerKnown, SeeNodeDeath PROVE OwnerStep
<1>1. /\ object' = [object EXCEPT !.seen = TRUE,
              !.state = IF stored /\ @ = "READY" /\ ~object.survivors THEN "LOST" ELSE @]
      /\ handoff' = handoff
  BY DEF SeeNodeDeath
<1>2. /\ object' \in Outputs /\ object'.custody = object.custody /\ object'.central = object.central
      /\ object'.known = object.known /\ object'.choice = object.choice
      /\ object'.released = object.released /\ object'.driver = object.driver
      /\ object'.round = object.round /\ object'.seen
      /\ object'.survivors = object.survivors /\ object'.over = object.over
      /\ object'.state = IF stored /\ object.state = "READY" /\ ~object.survivors
                         THEN "LOST" ELSE object.state
  BY <1>1 DEF OwnerKnown, Outputs
<1>3. OwnerConsistent'
  BY <1>1, <1>2 DEF OwnerKnown, OwnerConsistent, Round
<1>4. QED  BY <1>1, <1>2, <1>3 DEF OwnerStep, OwnerKnown

\* The Node-loss driver starts.
LEMMA StartLossOwner == ASSUME OwnerKnown, StartLoss PROVE OwnerStep
<1>1. object' = [object EXCEPT !.driver = "loss", !.round = {}] /\ handoff' = handoff /\ object.seen
  BY DEF StartLoss
<1>2. /\ object' \in Outputs /\ object'.custody = object.custody /\ object'.central = object.central
      /\ object'.known = object.known /\ object'.choice = object.choice
      /\ object'.released = object.released /\ object'.driver = "loss"
      /\ object'.round = {} /\ object'.seen = object.seen
      /\ object'.survivors = object.survivors /\ object'.over = object.over
      /\ object'.state = object.state
  BY <1>1 DEF OwnerKnown, Outputs
<1>3. OwnerConsistent'
  BY <1>1, <1>2 DEF OwnerKnown, OwnerConsistent, Round
<1>4. QED  BY <1>1, <1>2, <1>3 DEF OwnerStep, OwnerKnown

\* The choice between keeping and discarding what the Node left.
LEMMA DecideLossOwner == ASSUME OwnerKnown, DecideLoss PROVE OwnerStep
<1> DEFINE conflict == /\ ~Kept /\ handoff.phase # "ADOPTED"
                       /\ handoff.phase = "ABORTED" /\ handoff.reason # "loss"
<1>1. /\ object.driver = "loss" /\ object.choice = None /\ ~object.over
      /\ handoff' = [handoff EXCEPT
              !.complete = @ \/ (CompleteKnown /\ handoff.phase # "ABORTED"),
              !.phase = IF ~Kept /\ handoff.phase # "ADOPTED" THEN "ABORTED" ELSE @,
              !.reason = IF ~Kept /\ handoff.phase # "ADOPTED" /\ ~conflict THEN "loss" ELSE @]
      /\ object' = [object EXCEPT
              !.choice = IF Kept THEN "keep" ELSE "discard",
              !.known = CompleteKnown,
              !.fenced = ~Kept /\ ~conflict,
              !.driver = IF conflict THEN None ELSE @]
  BY DEF DecideLoss, Driver
<1>2. CompleteKnown \in BOOLEAN /\ Kept \in BOOLEAN
  BY DEF CompleteKnown, Kept, OwnerKnown, Handoffs, Outputs
<1>3. /\ handoff' \in Handoffs
      /\ handoff'.complete => handoff.complete \/ CompleteKnown
      /\ handoff'.reason = "rollback" => handoff.reason = "rollback"
  <2> HIDE DEF CompleteKnown, Kept, conflict
  <2>1. QED  BY <1>1, <1>2 DEF OwnerKnown, Handoffs
<1>4. /\ object' \in Outputs /\ object'.custody = object.custody /\ object'.central = object.central
      /\ object'.known = CompleteKnown /\ object'.choice = (IF Kept THEN "keep" ELSE "discard")
      /\ object'.released = object.released /\ object'.driver \in {object.driver, None}
      /\ object'.round = object.round /\ object'.seen = object.seen
      /\ object'.survivors = object.survivors /\ object'.over = object.over
      /\ object'.state = object.state
  <2>1. conflict \in BOOLEAN
    OBVIOUS
  <2> HIDE DEF CompleteKnown, Kept, conflict
  <2>2. QED  BY <1>1, <1>2, <2>1, ZenonT(60) DEF OwnerKnown, Outputs
<1>5. CompleteKnown => journal.complete
  BY DEF CompleteKnown, OwnerKnown, OwnerConsistent
<1>6. object.state = "READY" => Kept
  BY <1>1, NoneIsNot DEF Kept, CompleteKnown, OwnerKnown, OwnerConsistent
<1>7. Kept => CompleteKnown /\ (stored \/ object.custody)
  BY DEF Kept
<1> HIDE DEF CompleteKnown, Kept, conflict
<1>8. OwnerConsistent'
  BY <1>1, <1>3, <1>4, <1>5, <1>6, <1>7, NoneIsNot DEF OwnerKnown, OwnerConsistent, Round
<1>9. QED  BY <1>1, <1>3, <1>4, <1>8, NoneIsNot DEF OwnerStep

\* The end of a Node's loss: the output is shown, lost, or to be made again.
LEMMA ResolveLossOwner == ASSUME OwnerKnown, ResolveLoss PROVE OwnerStep
<1>1. object.driver = "loss" /\ ~object.over
  BY DEF ResolveLoss, Driver
<1>2. CASE /\ object.choice = "keep" /\ Round(<<"Commit">>)
           /\ object' = [object EXCEPT !.round = @ \cup {<<"Resolved">>},
                            !.state = IF stored /\ ~object.survivors THEN "LOST" ELSE "READY"]
           /\ handoff' = [handoff EXCEPT !.phase = "ADOPTED"]
  <2>1. /\ object' \in Outputs /\ object'.custody = object.custody /\ object'.central = object.central
        /\ object'.known = object.known /\ object'.choice = object.choice
        /\ object'.released = object.released /\ object'.driver = object.driver
        /\ object'.seen = object.seen
        /\ object'.survivors = object.survivors /\ object'.over = object.over
        /\ object'.state = IF stored /\ ~object.survivors THEN "LOST" ELSE "READY"
    BY <1>2 DEF OwnerKnown, Outputs
  <2>2. handoff' \in Handoffs /\ handoff'.reason = handoff.reason /\ handoff'.complete = handoff.complete
    BY <1>2 DEF OwnerKnown, Handoffs
  <2>3. Issued("COMMITTED")'
    BY <1>2 DEF OwnerKnown, OwnerConsistent
  <2>4. OwnerConsistent'
    BY <1>1, <1>2, <2>1, <2>2, <2>3 DEF OwnerKnown, OwnerConsistent
  <2>5. QED  BY <2>1, <2>2, <2>4 DEF OwnerStep
<1>3. CASE /\ object.choice = "discard" /\ handoff' = handoff
           /\ object' = [object EXCEPT !.over = TRUE, !.driver = None, !.custody = FALSE,
                            !.state = IF object.known THEN "LOST" ELSE "PENDING"]
  <2>1. /\ object' \in Outputs /\ ~object'.custody /\ object'.central = object.central
        /\ object'.known = object.known /\ object'.choice = object.choice
        /\ object'.released = object.released /\ object'.driver = None
        /\ object'.seen = object.seen /\ object'.round = object.round
        /\ object'.survivors = object.survivors /\ object'.over
        /\ object'.state = IF object.known THEN "LOST" ELSE "PENDING"
    BY <1>3 DEF OwnerKnown, Outputs
  <2>2. OwnerConsistent'
    BY <1>3, <2>1, NoneIsNot DEF OwnerKnown, OwnerConsistent, Round
  <2>3. QED  BY <1>3, <2>1, <2>2 DEF OwnerStep, OwnerKnown
<1>4. CASE /\ object' = [object EXCEPT !.over = TRUE, !.driver = None, !.custody = FALSE]
           /\ handoff' = handoff
  <2>1. /\ object' \in Outputs /\ ~object'.custody /\ object'.central = object.central
        /\ object'.known = object.known /\ object'.state = object.state
        /\ object'.choice = object.choice /\ object'.released = object.released
        /\ object'.driver = None /\ object'.round = object.round
        /\ object'.seen = object.seen /\ object'.survivors = object.survivors
        /\ object'.over
    BY <1>4 DEF OwnerKnown, Outputs
  <2>2. QED  BY <1>4, <2>1, ObjectKept, NoneIsNot DEF OwnerKnown
<1>5. QED  BY <1>2, <1>3, <1>4 DEF ResolveLoss

\* A round of the owner fails.
LEMMA FailRoundOwner ==
    ASSUME OwnerKnown, NEW x \in Callers, FailRound(x), handoff' = handoff
    PROVE  OwnerStep
<1>1. CASE x = "owner"
  <2>1. object' = [object EXCEPT !.driver = None, !.round = {}]
    BY <1>1 DEF FailRound
  <2>2. /\ object' \in Outputs /\ object'.custody = object.custody /\ object'.central = object.central
        /\ object'.known = object.known /\ object'.state = object.state
        /\ object'.choice = object.choice /\ object'.released = object.released
        /\ object'.driver = None /\ object'.round = {}
        /\ object'.seen = object.seen /\ object'.survivors = object.survivors
        /\ object'.over = object.over
    BY <2>1 DEF OwnerKnown, Outputs
  <2>3. QED  BY <2>1, <2>2, ObjectKept, NoneIsNot DEF OwnerKnown
<1>2. CASE x \in {"node", "report", "gcs"}
  <2>1. UNCHANGED object
    BY <1>2 DEF FailRound
  <2>2. QED  BY <2>1, OwnerAlone DEF ownerVars
<1>3. QED  BY <1>1, <1>2 DEF Callers

\* The Node's requests: they report what the Node knows.
LEMMA ServeOwnerOwner ==
    ASSUME OwnerKnown, NEW r \in Requests, Justified(r), ServeOwner(r)
    PROVE  OwnerStep
<1>1. object' = object
  BY DEF ServeOwner
<1>2. ASSUME handoff' \in Handoffs,
             handoff'.complete => handoff.complete \/ journal.complete,
             handoff'.reason = "rollback" => handoff.reason = "rollback" \/ journal.rollback
      PROVE  OwnerStep
  BY <1>1, <1>2, ObjectKept DEF OwnerKnown, OwnerConsistent
<1>3. CASE r = <<"Register">> /\ handoff' = [handoff EXCEPT !.manifest = TRUE, !.phase = "PENDING"]
  BY <1>2, <1>3 DEF OwnerKnown, Handoffs
<1>4. CASE /\ r = <<"AbortOwner">> \/ r = <<"ReportRollback">>
           /\ handoff' = [handoff EXCEPT !.manifest = TRUE, !.phase = "ABORTED",
                             !.reason = IF handoff.phase = "ABORTED" THEN @ ELSE "rollback"]
  <2>1. journal.rollback
    BY <1>4 DEF Justified
  <2>2. QED  BY <1>2, <1>4, <2>1 DEF OwnerKnown, Handoffs
<1>5. CASE r = <<"ReportComplete">> /\ handoff' = [handoff EXCEPT !.complete = TRUE]
  <2>1. journal.complete
    BY <1>5 DEF Justified
  <2>2. QED  BY <1>2, <1>5, <2>1 DEF OwnerKnown, Handoffs
<1>6. QED  BY <1>3, <1>4, <1>5 DEF ServeOwner

\* The answer to the owner's query of the GCS.
LEMMA ServeQueryOwner ==
    ASSUME OwnerKnown, Issued("TERMINAL") => journal.complete, NEW r, ServeQuery(r)
    PROVE  OwnerStep
<1>1. object' = [object EXCEPT !.central = Issued("TERMINAL")] /\ handoff' = handoff
  BY DEF ServeQuery
<1>2. Issued("TERMINAL") \in BOOLEAN
  BY DEF Issued, Gcs!Has
<1>3. /\ object' \in Outputs /\ object'.custody = object.custody
      /\ object'.central = Issued("TERMINAL")
      /\ object'.known = object.known /\ object'.state = object.state
      /\ object'.choice = object.choice /\ object'.released = object.released
      /\ object'.driver = object.driver /\ object'.round = object.round
      /\ object'.seen = object.seen /\ object'.survivors = object.survivors
      /\ object'.over = object.over
  <2> HIDE DEF Issued
  <2>1. QED  BY <1>1, <1>2 DEF OwnerKnown, Outputs
<1>4. QED  BY <1>1, <1>3, ObjectKept DEF OwnerKnown, OwnerConsistent

\* Every step keeps the owner consistent.
LEMMA NextOwner ==
    ASSUME TypeOK, RecordsTyped, CallsTyped, SentJustified, AnswersEffective, NodeConsistent,
           ReleasesGone, OwnerConsistent, GcsConsistent, [Next]_vars
    PROVE  OwnerStep
<1>1. OwnerKnown
  <2>1. JournalGrows
    BY NextNode DEF NodeStep
  <2>2. Issued("COMMITTED") => Issued("COMMITTED")'
    BY NextGcs DEF GcsStep, Issued, Gcs!Has
  <2>3. stored' = stored
    BY NextFaults DEF FaultStep, fixedVars
  <2>4. QED  BY <2>1, <2>2, <2>3 DEF OwnerKnown, JournalGrows, RecordsTyped
<1>2. ASSUME UNCHANGED ownerVars PROVE OwnerStep
  BY <1>1, <1>2, OwnerAlone
<1>3. CASE NodeActs
  BY <1>2, <1>3, NodeActsFrame
<1>4. CASE OwnerActs
  <2>1. ASSUME NEW r \in Requests, CallOwner(r) PROVE OwnerStep
    BY <1>2, <2>1 DEF CallOwner
  <2>2. CASE ReturnOwner
    <3>1. call["owner"] # None => call["owner"] \in Requests
      BY DEF TypeOK, Callers
    <3>2. answer["owner"] => Effective(call["owner"])
      BY DEF AnswersEffective, Callers
    <3>3. QED  BY <1>1, <2>2, <3>1, <3>2, ReturnOwnerOwner
  <2>3. CASE FinishAdoption \/ AbandonAdoption \/ LossRoundFails \/ AbortUnregistered \/ DropAttempt
             \/ CopyReplica
    BY <1>1, <2>3, RoundEndsOwner
  <2>4. QED
    BY <1>1, <1>4, <2>1, <2>2, <2>3, ReceiveEnvelopeOwner, StartAdoptionOwner, AdoptOutputOwner,
       SeeNodeDeathOwner, StartLossOwner, DecideLossOwner, ResolveLossOwner DEF OwnerActs, OwnerRound
<1>5. CASE CallGcs \/ ReturnGcs \/ RetireDead
  BY <1>2, <1>5 DEF CallGcs, ReturnGcs, RetireDead
<1>6. ASSUME NEW r \in Requests, Sent(r), Serve(r) PROVE OwnerStep
  <2>1. CASE ServeOwner(r)
    BY <1>1, <1>6, <2>1, ServeOwnerOwner DEF SentJustified
  <2>2. CASE ServeQuery(r)
    BY <1>1, <2>2, ServeQueryOwner DEF GcsConsistent
  <2>3. CASE UNCHANGED ownerVars
    BY <1>2, <2>3
  <2>4. QED  BY <1>6, <2>1, <2>2, <2>3, ServeFrame
<1>7. ASSUME NEW x \in Callers, Deliver(x) \/ Refuse(x) \/ TimeOut(x) PROVE OwnerStep
  <2>1. CASE Deliver(x)
    BY <1>6, <2>1, ServedSent
  <2>2. CASE Refuse(x) \/ TimeOut(x)
    BY <1>1, <2>2, FailFrame, FailRoundOwner
  <2>3. QED  BY <1>7, <2>1, <2>2
<1>8. ASSUME NEW r \in late, Arrive(r) PROVE OwnerStep
  BY <1>6, <1>8, ServedSent
<1>9. ASSUME NEW p \in Processes, Exit(p) \/ RecordExit(p) PROVE OwnerStep
  BY <1>2, <1>9 DEF Exit, RecordExit
<1>10. ASSUME NEW p \in Processes, NEW kind \in {"provisional", "final"}, InstallDeath(p, kind)
       PROVE  OwnerStep
  BY <1>2, <1>10 DEF InstallDeath
<1>11. CASE UNCHANGED vars
  BY <1>2, <1>11 DEF vars
<1>12. QED
  BY <1>3, <1>4, <1>5, <1>7, <1>8, <1>9, <1>10, <1>11, Parties

-----------------------------------------------------------------------------
(* The owners of the children *)

\* Pins are typed; a promotion and a release are never forgotten.
ChildGrows ==
    /\ child' \in [C -> Pins]
    /\ \A c \in C : child[c].promoted => child'[c].promoted
    /\ \A c \in C : child[c].released \subseteq child'[c].released

\* A step that leaves the children alone.
LEMMA ChildAlone == ASSUME child \in [C -> Pins], UNCHANGED child PROVE ChildGrows
  BY DEF ChildGrows

\* A preparation pins the child, unless a release came first.
LEMMA PrepareGrows ==
    ASSUME child \in [C -> Pins], NEW c \in C, ServePrepare(c)
    PROVE  /\ ChildGrows
           /\ \/ UNCHANGED child
              \/ /\ "provisional" \notin child[c].released
                 /\ \A d \in C : d # c => child'[d] = child[d]
                 /\ child'[c].prepared /\ child'[c].promoted = child[c].promoted
                 /\ child'[c].held = child[c].held \cup {"provisional"}
                 /\ child'[c].released = child[c].released
<1>1. CASE child[c].prepared /\ UNCHANGED child
  BY <1>1, ChildAlone
<1>2. CASE /\ "provisional" \notin child[c].released
           /\ child' = [child EXCEPT ![c].prepared = TRUE, ![c].held = @ \cup {"provisional"}]
  <2>1. \A d \in C : d # c => child'[d] = child[d]
    BY <1>2
  <2>2. child'[c] = [child[c] EXCEPT !.prepared = TRUE, !.held = child[c].held \cup {"provisional"}]
    BY <1>2
  <2>3. /\ child'[c] \in Pins
        /\ child'[c].prepared /\ child'[c].promoted = child[c].promoted
        /\ child'[c].held = child[c].held \cup {"provisional"}
        /\ child'[c].released = child[c].released
    BY <2>2, ZenonT(60) DEF Pins
  <2>4. child' \in [C -> Pins]
    BY <1>2, <2>1, <2>3
  <2>5. QED  BY <1>2, <2>1, <2>3, <2>4 DEF ChildGrows
<1>3. QED  BY <1>1, <1>2 DEF ServePrepare

\* A promotion exchanges the pins, unless a release came first.
LEMMA PromoteGrows ==
    ASSUME child \in [C -> Pins], NEW c \in C, ServePromote(c)
    PROVE  /\ ChildGrows /\ child'[c].promoted
           /\ \/ UNCHANGED child
              \/ /\ "final" \notin child[c].released
                 /\ \A d \in C : d # c => child'[d] = child[d]
                 /\ child'[c].prepared = child[c].prepared
                 /\ child'[c].held = (child[c].held \ {"provisional"}) \cup {"final"}
                 /\ child'[c].released = child[c].released \cup {"provisional"}
<1>1. CASE child[c].promoted /\ UNCHANGED child
  BY <1>1, ChildAlone
<1>2. CASE /\ "final" \notin child[c].released
           /\ child' = [child EXCEPT ![c].promoted = TRUE,
                            ![c].held = (@ \ {"provisional"}) \cup {"final"},
                            ![c].released = @ \cup {"provisional"}]
  <2>1. \A d \in C : d # c => child'[d] = child[d]
    BY <1>2
  <2>2. child'[c] = [child[c] EXCEPT !.promoted = TRUE,
                         !.held = (child[c].held \ {"provisional"}) \cup {"final"},
                         !.released = child[c].released \cup {"provisional"}]
    BY <1>2
  <2>3. /\ child'[c] \in Pins /\ child'[c].promoted
        /\ child'[c].prepared = child[c].prepared
        /\ child'[c].held = (child[c].held \ {"provisional"}) \cup {"final"}
        /\ child'[c].released = child[c].released \cup {"provisional"}
    BY <2>2 DEF Pins
  <2>4. child' \in [C -> Pins]
    BY <1>2, <2>1, <2>3
  <2>5. QED  BY <1>2, <2>1, <2>3, <2>4 DEF ChildGrows
<1>3. QED  BY <1>1, <1>2 DEF ServePromote

\* The pins of a child that are left when one of them is released.
LEMMA WithoutPin ==
    ASSUME child \in [C -> Pins], NEW c \in C, NEW kind \in {"provisional", "final"},
           child'[c] = [child[c] EXCEPT !.held = child[c].held \ {kind},
                            !.released = child[c].released \cup {kind}]
    PROVE  /\ child'[c] \in Pins
           /\ child'[c].prepared = child[c].prepared /\ child'[c].promoted = child[c].promoted
           /\ child'[c].held = child[c].held \ {kind}
           /\ child'[c].released = child[c].released \cup {kind}
<1> DEFINE h == child[c].held \ {kind}
           q == child[c].released \cup {kind}
<1>1. child[c] \in Pins
  OBVIOUS
<1>2. h \in SUBSET {"provisional", "final"} /\ q \in SUBSET {"provisional", "final"}
  BY <1>1 DEF Pins
<1>3. child'[c] = [child[c] EXCEPT !.held = h, !.released = q]
  OBVIOUS
<1> HIDE DEF h, q
<1>4. /\ child'[c] \in Pins
      /\ child'[c].prepared = child[c].prepared /\ child'[c].promoted = child[c].promoted
      /\ child'[c].held = h /\ child'[c].released = q
  BY <1>1, <1>2, <1>3 DEF Pins
<1>5. QED  BY <1>4 DEF h, q

\* A release leaves its tombstone.
LEMMA ReleaseGrows ==
    ASSUME child \in [C -> Pins], NEW c \in C, NEW kind \in {"provisional", "final"},
           ServeRelease(c, kind)
    PROVE  /\ ChildGrows
           /\ \A d \in C : d # c => child'[d] = child[d]
           /\ child'[c].prepared = child[c].prepared /\ child'[c].promoted = child[c].promoted
           /\ child'[c].held = child[c].held \ {kind}
           /\ child'[c].released = child[c].released \cup {kind}
<1>1. child' = [child EXCEPT ![c].held = @ \ {kind}, ![c].released = @ \cup {kind}]
  BY DEF ServeRelease
<1>2. \A d \in C : d # c => child'[d] = child[d]
  BY <1>1
<1>3. child'[c] = [child[c] EXCEPT !.held = child[c].held \ {kind}, !.released = child[c].released \cup {kind}]
  BY <1>1
<1>4. /\ child'[c] \in Pins
      /\ child'[c].prepared = child[c].prepared /\ child'[c].promoted = child[c].promoted
      /\ child'[c].held = child[c].held \ {kind}
      /\ child'[c].released = child[c].released \cup {kind}
  BY <1>3, WithoutPin
<1>5. child' \in [C -> Pins]
  BY <1>1, <1>2, <1>4
<1>6. QED  BY <1>2, <1>4, <1>5 DEF ChildGrows

\* The death of a container releases the pins it held.
LEMMA DeathGrows ==
    ASSUME child \in [C -> Pins], NEW p, NEW kind \in {"provisional", "final"}, InstallDeath(p, kind)
    PROVE  /\ ChildGrows
           /\ kind = "final" => p = "owner" /\ p \in dead
           /\ \A c \in C :
                 \/ child'[c] = child[c]
                 \/ /\ kind \in child[c].held
                    /\ child'[c].prepared = child[c].prepared /\ child'[c].promoted = child[c].promoted
                    /\ child'[c].held = child[c].held \ {kind}
                    /\ child'[c].released = child[c].released \cup {kind}
<1>1. /\ child' = [c \in C |-> IF Pin(c, kind)
                               THEN [child[c] EXCEPT !.held = @ \ {kind}, !.released = @ \cup {kind}]
                               ELSE child[c]]
      /\ <<p, kind>> \in {<<"executor", "provisional">>, <<"owner", "final">>} /\ p \in dead
  BY DEF InstallDeath
<1>2. ASSUME NEW c \in C
      PROVE  /\ child'[c] \in Pins
             /\ \/ child'[c] = child[c]
                \/ /\ kind \in child[c].held
                   /\ child'[c].prepared = child[c].prepared /\ child'[c].promoted = child[c].promoted
                   /\ child'[c].held = child[c].held \ {kind}
                   /\ child'[c].released = child[c].released \cup {kind}
  <2>1. CASE ~Pin(c, kind)
    BY <1>1, <2>1
  <2>2. CASE Pin(c, kind)
    <3>1. child'[c] = [child[c] EXCEPT !.held = child[c].held \ {kind}, !.released = child[c].released \cup {kind}]
      BY <1>1, <2>2
    <3>2. QED  BY <2>2, <3>1, WithoutPin DEF Pin
  <2>3. QED  BY <2>1, <2>2
<1>3. child' \in [C -> Pins]
  BY <1>1, <1>2
<1>4. ChildGrows
  BY <1>2, <1>3 DEF ChildGrows
<1>5. QED  BY <1>1, <1>2, <1>4

\* A request to a child owner is one of the three.
LEMMA ServeChildGrows ==
    ASSUME child \in [C -> Pins], NEW r, ServeChild(r) PROVE ChildGrows
  BY PrepareGrows, PromoteGrows, ReleaseGrows DEF ServeChild

\* Every step keeps what the children have been through.
LEMMA NextChild == ASSUME TypeOK, [Next]_vars PROVE ChildGrows
<1>1. child \in [C -> Pins]
  BY DEF TypeOK, Pins
<1>2. ASSUME UNCHANGED child PROVE ChildGrows
  BY <1>1, <1>2, ChildAlone
<1>3. CASE NodeActs
  BY <1>2, <1>3, NodeActsFrame DEF childVars
<1>4. CASE OwnerActs
  BY <1>2, <1>4, OwnerActsFrame DEF childVars
<1>5. CASE CallGcs \/ ReturnGcs \/ RetireDead
  BY <1>2, <1>5 DEF CallGcs, ReturnGcs, RetireDead, childVars
<1>6. ASSUME NEW r, Serve(r) PROVE ChildGrows
  <2>1. CASE ServeChild(r)
    BY <1>1, <2>1, ServeChildGrows
  <2>2. CASE UNCHANGED childVars
    BY <1>2, <2>2 DEF childVars
  <2>3. QED  BY <1>6, <2>1, <2>2, ServeFrame DEF ServeQuery
<1>7. ASSUME NEW x \in Callers, Deliver(x) \/ Refuse(x) \/ TimeOut(x) PROVE ChildGrows
  <2>1. CASE Deliver(x)
    BY <1>6, <2>1 DEF Deliver
  <2>2. CASE Refuse(x) \/ TimeOut(x)
    BY <1>2, <2>2, FailFrame DEF childVars
  <2>3. QED  BY <1>7, <2>1, <2>2
<1>8. ASSUME NEW r \in late, Arrive(r) PROVE ChildGrows
  BY <1>6, <1>8 DEF Arrive
<1>9. ASSUME NEW p \in Processes, Exit(p) \/ RecordExit(p) PROVE ChildGrows
  BY <1>2, <1>9 DEF Exit, RecordExit, childVars
<1>10. ASSUME NEW p \in Processes, NEW kind \in {"provisional", "final"}, InstallDeath(p, kind)
       PROVE  ChildGrows
  BY <1>1, <1>10, DeathGrows
<1>11. CASE UNCHANGED vars
  BY <1>2, <1>11 DEF vars, childVars
<1>12. QED
  BY <1>3, <1>4, <1>5, <1>7, <1>8, <1>9, <1>10, <1>11, Parties

-----------------------------------------------------------------------------
(* What stays true *)

\* Every part of a step, together.
Grows == NodeStep /\ OwnerStep /\ GcsStep /\ ChildGrows /\ FaultStep

\* A step from a state of the invariant only adds to what every party knows.
LEMMA NextGrows == ASSUME Invariant, [Next]_vars PROVE Grows
  BY NextNode, NextOwner, NextGcs, NextChild, NextFaults DEF Invariant, Grows

\* What was given up stays given up, and a pin that is gone stays gone.
LEMMA Lasting ==
    ASSUME Invariant, Grows
    PROVE  /\ Undone => Undone'
           /\ \A h \in Hold : Gone(h) => Gone(h)'
           /\ AllGone => AllGone'
           /\ PlanDone => PlanDone'
<1>1. Undone => Undone'
  BY DEF Undone, Grows, NodeStep, JournalGrows, OwnerStep, FaultStep
<1>2. \A h \in Hold : Gone(h) => Gone(h)'
  BY DEF Gone, Hold, Grows, ChildGrows, FaultStep
<1>3. AllGone => AllGone'
  BY <1>2 DEF AllGone
<1>4. PlanDone => PlanDone'
  BY DEF PlanDone, Grows, NodeStep, JournalGrows
<1>5. QED  BY <1>1, <1>2, <1>3, <1>4

\* So what justified a request still does.
LEMMA JustifiedLasts ==
    ASSUME Invariant, Grows, NEW r \in Requests, Justified(r) PROVE Justified(r)'
<1>1. Undone => Undone'
  BY Lasting
<1>2. PlanDone => PlanDone'
  BY Lasting
<1>3. object.released = Hold => object'.released = Hold
  BY DEF Grows, OwnerStep, Outputs
<1>4. /\ journal.complete => journal'.complete
      /\ journal.rollback => journal'.rollback
      /\ journal.intents \subseteq journal'.intents
      /\ \A c \in C : child[c].promoted => child'[c].promoted
  BY DEF Grows, NodeStep, JournalGrows, ChildGrows
<1>5. QED  BY <1>1, <1>2, <1>3, <1>4 DEF Justified

\* And what an answer stands for is still there.
LEMMA EffectiveLasts ==
    ASSUME Invariant, Grows, NEW r \in Requests, Effective(r) PROVE Effective(r)'
<1>1. r[1] = "Promote" => r[2] \in C
  BY RequestKinds
<1>2. r[1] = "Release" => <<r[2], r[3]>> \in Hold
  BY RequestKinds
<1>3. \A h \in Hold : Gone(h) => Gone(h)'
  BY Lasting
<1>4. Issued("COMMITTED") => Issued("COMMITTED")'
  BY DEF Grows, GcsStep, Issued, Gcs!Has
<1>5. adapter.done => adapter'.done
  BY DEF Grows, NodeStep, JournalGrows
<1>6. \A c \in C : child[c].promoted => child'[c].promoted
  BY DEF Grows, ChildGrows
<1>7. QED  BY <1>1, <1>2, <1>3, <1>4, <1>5, <1>6 DEF Effective

-----------------------------------------------------------------------------
(* Requests and their answers *)

\* The network's part of a step: what is sent is justified, what is answered has
\* its effect.
NetStep ==
    /\ call' \in [Callers -> Requests \cup {None}]
    /\ answer' \in [Callers -> BOOLEAN]
    /\ late' \subseteq Requests
    /\ faults' \in 0..MaxFaults
    /\ \A r \in Requests : Sent(r)' => Sent(r) \/ Justified(r)'
    /\ \A x \in Callers : answer'[x] =>
          /\ call'[x] = call[x] /\ call[x] # None
          /\ answer[x] \/ Effective(call[x])'
    /\ call'["report"] \in {None, <<"RecordTerminal">>, <<"ReportComplete">>}
    /\ call'["gcs"] \in {None, <<"Finalize">>} \cup Releases

\* What a step knows of the network.
NetKnown ==
    /\ call \in [Callers -> Requests \cup {None}]
    /\ answer \in [Callers -> BOOLEAN]
    /\ late \subseteq Requests
    /\ faults \in 0..MaxFaults
    /\ \A x \in Callers : answer[x] => call[x] # None
    /\ call["report"] \in {None, <<"RecordTerminal">>, <<"ReportComplete">>}
    /\ call["gcs"] \in {None, <<"Finalize">>} \cup Releases

\* What the invariant says of the network.
LEMMA KnownNet == Invariant => NetKnown
  BY DEF Invariant, TypeOK, CallsTyped, AnswersEffective, NetKnown

\* Nothing is sent or answered.
LEMMA NetAlone == ASSUME NetKnown, UNCHANGED netVars PROVE NetStep
  BY DEF NetKnown, NetStep, netVars, Sent

\* A caller takes its answer, or its round is over.
LEMMA NetClear == ASSUME NetKnown, NEW x \in Callers, Clear(x) PROVE NetStep
<1>1. /\ call' = [call EXCEPT ![x] = None] /\ answer' = [answer EXCEPT ![x] = FALSE]
      /\ UNCHANGED <<late, faults>>
  BY DEF Clear
<1>2. \A r \in Requests : Sent(r)' => Sent(r)
  BY <1>1, NoneIsNot DEF Sent, NetKnown
<1>3. \A y \in Callers : answer'[y] => answer[y] /\ call'[y] = call[y]
  BY <1>1 DEF NetKnown
<1>4. /\ call' \in [Callers -> Requests \cup {None}] /\ answer' \in [Callers -> BOOLEAN]
      /\ \A y \in Callers : call'[y] \in {call[y], None}
  BY <1>1 DEF NetKnown
<1>5. QED  BY <1>1, <1>2, <1>3, <1>4 DEF NetKnown, NetStep, Callers

\* A caller issues a request that it can justify.
LEMMA NetIssue ==
    ASSUME NetKnown, NEW x \in Callers, NEW r \in Requests, Issue(x, r), Justified(r)',
           x = "report" => r \in {<<"RecordTerminal">>, <<"ReportComplete">>},
           x = "gcs" => r \in {<<"Finalize">>} \cup Releases
    PROVE  NetStep
<1>1. /\ call' = [call EXCEPT ![x] = r] /\ answer' = [answer EXCEPT ![x] = FALSE]
      /\ UNCHANGED <<late, faults>>
  BY DEF Issue
<1>2. \A q \in Requests : Sent(q)' => Sent(q) \/ q = r
  BY <1>1 DEF Sent, NetKnown
<1>3. \A y \in Callers : answer'[y] => answer[y] /\ call'[y] = call[y]
  BY <1>1 DEF NetKnown
<1>4. /\ call' \in [Callers -> Requests \cup {None}] /\ answer' \in [Callers -> BOOLEAN]
      /\ \A y \in Callers : call'[y] = call[y] \/ (y = x /\ call'[y] = r)
  BY <1>1 DEF NetKnown
<1>5. QED  BY <1>1, <1>2, <1>3, <1>4 DEF NetKnown, NetStep, Callers

\* An effect of a preparation: its intent is recorded, and ARMED is asked for
\* once every child is promoted.
LEMMA PrepareJustified ==
    ASSUME Invariant, Grows, NEW r \in Requests, CallPrepare(r) PROVE NetStep
<1>1. NextPrepare(r) /\ Issue("node", r)
      /\ journal' = [journal EXCEPT !.intents =
                      IF r[1] \in {"Register", "Prepare", "Promote"} THEN @ \cup {r} ELSE @]
  BY DEF CallPrepare
<1>2. r[1] \in {"Prepare", "Promote"} => r \in journal'.intents
  BY <1>1 DEF Invariant, RecordsTyped, Journals
<1>3. r[1] = "Arm" => \A c \in C : child[c].promoted
  <2>1. SUFFICES ASSUME r[1] = "Arm", NEW c \in C PROVE child[c].promoted
    OBVIOUS
  <2>2. Acked(<<"Promote", c>>)
    BY <1>1, <2>1 DEF NextPrepare, AllAcked
  <2>3. QED  BY <2>2 DEF Invariant, ChildConsistent, PinsConsistent
<1>4. r[1] \in {"Register", "Begin", "PrepareGraph", "Prepare", "Promote", "Arm"}
  BY <1>1 DEF NextPrepare
<1>5. \A c \in C : child[c].promoted => child'[c].promoted
  BY DEF Grows, ChildGrows
<1>6. Justified(r)'
  BY <1>2, <1>3, <1>4, <1>5 DEF Justified
<1>7. QED  BY <1>1, <1>6, NetIssue, KnownNet DEF Callers

\* A compensation, or its report: the journal was rolled back.
LEMMA RollbackJustified ==
    ASSUME Invariant, Grows, NEW r \in Requests, CallRollback(r) PROVE NetStep
<1>1. NextRollback(r) /\ Issue("node", r) /\ adapter.ticket = "rollback"
  BY DEF CallRollback, CallRound, Ticket
<1>2. journal.rollback
  BY <1>1 DEF Invariant, NodeConsistent
<1>3. /\ r[1] \in {"AbortOwner", "FenceAbort", "Release", "RetireRolledBack", "ReportRollback"}
      /\ r[1] = "RetireRolledBack" => Compensated(journal)
  BY <1>1 DEF NextRollback
<1>4. Justified(r)
  BY <1>2, <1>3 DEF Justified, Undone, PlanDone, Compensated
<1>5. QED  BY <1>1, <1>4, JustifiedLasts, NetIssue, KnownNet DEF Callers

\* A clean-up: the owner is dead, and only a Complete is recorded.
LEMMA CleanupJustified ==
    ASSUME Invariant, Grows, NEW r \in Requests, CallCleanup(r) PROVE NetStep
<1>1. NextCleanup(r) /\ Issue("node", r) /\ adapter.ticket = "cleanup"
  BY DEF CallCleanup, CallRound, Ticket
<1>2. "owner" \in dead
  BY <1>1 DEF Invariant, NodeConsistent
<1>3. /\ r[1] \in {"FenceDeath", "RecordTerminal", "Release"}
      /\ r[1] = "RecordTerminal" => journal.complete
  BY <1>1 DEF NextCleanup
<1>4. Justified(r)
  BY <1>2, <1>3 DEF Justified, Undone
<1>5. QED  BY <1>1, <1>4, JustifiedLasts, NetIssue, KnownNet DEF Callers

\* The report of a Complete.
LEMMA ReportJustified == ASSUME Invariant, Grows, CallReport PROVE NetStep
<1>1. \E r \in {<<"RecordTerminal">>, <<"ReportComplete">>} :
         Issue("report", r) /\ adapter.terminal \in {"pending", "recorded"}
  BY DEF CallReport
<1>2. PICK r \in {<<"RecordTerminal">>, <<"ReportComplete">>} : Issue("report", r)
  BY <1>1
<1>3. journal.complete
  BY <1>1, NoneIsNot DEF Invariant, NodeConsistent
<1>4. r \in Requests
  BY RequestsAre DEF OwnerRequests, GcsRequests
<1>5. Justified(r)
  BY <1>3 DEF Justified
<1>6. QED  BY <1>2, <1>4, <1>5, JustifiedLasts, NetIssue, KnownNet DEF Callers

\* The owner's rounds: an adoption and a value that is kept know of the Complete;
\* a value that is discarded is released before its edges are retired.
LEMMA OwnerJustified ==
    ASSUME Invariant, Grows, NEW r \in Requests, CallOwner(r) PROVE NetStep
<1>1. Issue("owner", r) /\ ((object.driver = "adopt" /\ NextAdopt(r)) \/ NextLoss(r))
  BY DEF CallOwner, Driver
<1>2. CASE object.driver = "adopt" /\ NextAdopt(r)
  <2>1. journal.complete
    BY <1>2 DEF Invariant, OwnerConsistent
  <2>2. r[1] \in {"RecordTerminal", "Commit", "RecordAdoption", "AckAdopted"}
    BY <1>2 DEF NextAdopt
  <2>3. Justified(r)
    BY <2>1, <2>2 DEF Justified
  <2>4. QED  BY <1>1, <2>3, JustifiedLasts, NetIssue, KnownNet DEF Callers
<1>3. CASE NextLoss(r)
  <2>1. /\ r[1] \in {"GetPublication", "RecordTerminal", "Commit", "RecordAdoption", "FenceLost",
                     "Release", "RetireReleased"}
        /\ r[1] = "RecordTerminal" => object.choice = "keep"
        /\ r[1] = "Release" => object.choice = "discard"
        /\ r[1] = "RetireReleased" => object.released = Hold
    BY <1>3 DEF NextLoss
  <2>2. Justified(r)
    BY <2>1 DEF Justified, Undone, Invariant, OwnerConsistent
  <2>3. QED  BY <1>1, <2>2, JustifiedLasts, NetIssue, KnownNet DEF Callers
<1>4. QED  BY <1>1, <1>2, <1>3

\* The GCS asks for a dead owner only.
LEMMA GcsJustified == ASSUME Invariant, Grows, CallGcs PROVE NetStep
<1>1. "owner" \in dead
  BY DEF CallGcs, Work
<1>2. Undone
  BY <1>1 DEF Undone
<1>3. CASE Issue("gcs", <<"Finalize">>)
  <2> DEFINE r == <<"Finalize">>
  <2>1. r \in Requests
    BY RequestsAre DEF NodeRequests
  <2>2. Justified(r)
    BY DEF Justified
  <2>3. Justified(r)'
    BY <2>1, <2>2, JustifiedLasts
  <2>4. QED  BY <1>3, <2>1, <2>3, NetIssue, KnownNet DEF Callers
<1>4. ASSUME NEW h \in Hold, Issue("gcs", <<"Release", h[1], h[2]>>) PROVE NetStep
  <2> DEFINE r == <<"Release", h[1], h[2]>>
  <2>1. r \in Requests /\ r \in Releases
    BY RequestsAre DEF Releases, Hold
  <2>2. Justified(r)
    BY <1>2 DEF Justified
  <2>3. Justified(r)'
    BY <2>1, <2>2, JustifiedLasts
  <2>4. QED  BY <1>4, <2>1, <2>3, NetIssue, KnownNet DEF Callers
<1>5. QED  BY <1>3, <1>4 DEF CallGcs

\* A request that is served has its effect.
LEMMA ServedEffective ==
    ASSUME Invariant, NEW r \in Requests, Serve(r) PROVE Effective(r)'
<1>1. Gcs!TypeOK /\ journal \in Journals /\ child \in [C -> Pins]
  BY DEF Invariant, TypeOK, RecordsTyped, Pins
<1>2. CASE ServeGcs(r)
  <2>1. GcsMove(r)
    BY <1>1, <1>2, ServeGcsMove
  <2>2. r[1] \notin {"Promote", "Release", "Finalize"}
    BY <1>2 DEF ServeGcs
  <2>3. QED  BY <2>1, <2>2 DEF Effective, GcsMove
<1>3. CASE ServeQuery(r) \/ ServeOwner(r)
  <2>1. r[1] \notin {"Promote", "Release", "Finalize", "Commit"}
    BY <1>3 DEF ServeQuery, ServeOwner
  <2>2. QED  BY <2>1 DEF Effective
<1>4. CASE ServeNode(r)
  <2>1. /\ r[1] \notin {"Promote", "Release", "Commit"}
        /\ r[1] = "Finalize" => adapter'.done
    BY <1>4 DEF ServeNode
  <2>2. QED  BY <2>1 DEF Effective
<1>5. CASE ServeChild(r)
  <2>1. ASSUME NEW c \in C, r = <<"Prepare", c>> PROVE Effective(r)'
    BY <2>1 DEF Effective
  <2>2. ASSUME NEW c \in C, r = <<"Promote", c>>, ServePromote(c) PROVE Effective(r)'
    BY <1>1, <2>2, PromoteGrows DEF Effective
  <2>3. ASSUME NEW c \in C, NEW kind \in {"provisional", "final"}, r = <<"Release", c, kind>>,
               ServeRelease(c, kind)
        PROVE  Effective(r)'
    <3>1. kind \in child'[c].released
      BY <1>1, <2>3, ReleaseGrows
    <3>2. QED  BY <2>3, <3>1 DEF Effective, Gone
  <2>4. QED  BY <1>5, <2>1, <2>2, <2>3 DEF ServeChild
<1>6. QED  BY <1>2, <1>3, <1>4, <1>5 DEF Serve

\* The callee accepts what a caller waits for.
LEMMA DeliverNet ==
    ASSUME Invariant, Grows, NEW x \in Callers, Deliver(x) PROVE NetStep
<1>1. PICK r \in Requests : r = call[x]
  BY KnownNet DEF Deliver, Waiting, NetKnown
<1>2. Serve(r) /\ answer' = [answer EXCEPT ![x] = TRUE] /\ UNCHANGED <<call, late, faults>>
  BY <1>1 DEF Deliver
<1>3. Effective(r)'
  BY <1>2, ServedEffective
<1>4. Effective(call[x])'
  <2>1. call'[x] = r
    BY <1>1, <1>2
  <2>2. QED  BY <1>3, <2>1 DEF Effective, Gone
<1>5. \A y \in Callers : answer'[y] => answer[y] \/ y = x
  BY <1>2, KnownNet DEF NetKnown
<1>6. answer' \in [Callers -> BOOLEAN]
  BY <1>2, KnownNet DEF NetKnown
<1>7. \A q \in Requests : Sent(q)' <=> Sent(q)
  BY <1>2 DEF Sent
<1>8. \A y \in Callers : answer'[y] =>
          /\ call'[y] = call[y] /\ call[y] # None
          /\ answer[y] \/ Effective(call[y])'
  <2>1. SUFFICES ASSUME NEW y \in Callers, answer'[y]
                 PROVE  /\ call'[y] = call[y] /\ call[y] # None
                        /\ answer[y] \/ Effective(call[y])'
    OBVIOUS
  <2>2. CASE y = x
    BY <1>1, <1>2, <1>4, <2>2, NoneIsNot
  <2>3. CASE y # x
    BY <1>2, <1>5, <2>1, <2>3, KnownNet DEF NetKnown
  <2>4. QED  BY <2>2, <2>3
<1> HIDE DEF Effective
<1>9. QED  BY <1>2, <1>6, <1>7, <1>8, KnownNet DEF NetKnown, NetStep

\* The callee accepts what its caller has given up.
LEMMA ArriveNet ==
    ASSUME Invariant, NEW r \in late, Arrive(r) PROVE NetStep
<1>1. late' = late \ {r} /\ UNCHANGED <<call, answer, faults>>
  BY DEF Arrive
<1>2. \A q \in Requests : Sent(q)' => Sent(q)
  BY <1>1 DEF Sent
<1>3. QED  BY <1>1, <1>2, KnownNet DEF NetKnown, NetStep

\* A caller gives its request up.
LEMMA TimeOutNet ==
    ASSUME Invariant, NEW x \in Callers, TimeOut(x) PROVE NetStep
<1>1. /\ call[x] \in Requests /\ call' = [call EXCEPT ![x] = None]
      /\ answer' = [answer EXCEPT ![x] = FALSE]
      /\ late' \subseteq late \cup {call[x]}
      /\ faults < MaxFaults /\ faults' = faults + 1
  BY KnownNet DEF TimeOut, Waiting, NetKnown
<1>2. \A r \in Requests : Sent(r)' => Sent(r)
  BY <1>1, KnownNet, NoneIsNot DEF Sent, NetKnown
<1>3. \A y \in Callers : answer'[y] => answer[y] /\ call'[y] = call[y]
  BY <1>1, KnownNet DEF NetKnown
<1>4. /\ call' \in [Callers -> Requests \cup {None}] /\ answer' \in [Callers -> BOOLEAN]
      /\ \A y \in Callers : call'[y] \in {call[y], None}
  BY <1>1, KnownNet DEF NetKnown
<1>5. late' \subseteq Requests
  BY <1>1, KnownNet DEF NetKnown
<1>6. faults' \in 0..MaxFaults
  BY <1>1, KnownNet, OutputPublicationAssumption DEF NetKnown
<1>7. QED  BY <1>2, <1>3, <1>4, <1>5, <1>6, KnownNet DEF NetKnown, NetStep, Callers

\* A process exits: what it waited for may still arrive.
LEMMA ExitNet ==
    ASSUME Invariant, NEW p \in Processes, Exit(p) PROVE NetStep
<1> DEFINE lost == {x \in Callers : \/ x = "owner" /\ p = "owner"
                                    \/ x \in {"node", "report"} /\ p = "node"}
<1>1. /\ call' = [x \in Callers |-> IF x \in lost THEN None ELSE call[x]]
      /\ answer' = [x \in Callers |-> answer[x] /\ x \notin lost]
      /\ late' = late \cup {call[x] : x \in {y \in lost : Waiting(y) /\ ~answer[y]}}
      /\ faults < MaxFaults /\ faults' = faults + 1
  BY DEF Exit
<1>2. \A r \in Requests : Sent(r)' => Sent(r)
  <2>1. \A r \in late' : r \in late \/ \E x \in Callers : call[x] = r
    BY <1>1
  <2>2. \A x \in Callers : call'[x] \in {call[x], None}
    BY <1>1
  <2> HIDE DEF lost
  <2>3. QED  BY <2>1, <2>2, NoneIsNot DEF Sent
<1>3. \A x \in Callers : answer'[x] => answer[x] /\ call'[x] = call[x]
  BY <1>1
<1>4. /\ call' \in [Callers -> Requests \cup {None}] /\ answer' \in [Callers -> BOOLEAN]
      /\ \A x \in Callers : call'[x] \in {call[x], None}
  BY <1>1, KnownNet DEF NetKnown
<1>5. late' \subseteq Requests
  BY <1>1, KnownNet DEF NetKnown, Waiting
<1>6. faults' \in 0..MaxFaults
  BY <1>1, KnownNet, OutputPublicationAssumption DEF NetKnown
<1> HIDE DEF lost
<1>7. QED  BY <1>2, <1>3, <1>4, <1>5, <1>6, KnownNet DEF NetKnown, NetStep, Callers

\* Every step sends what is justified and answers what has its effect.
LEMMA NextNet == ASSUME Invariant, Grows, [Next]_vars PROVE NetStep
<1>1. NetKnown
  BY KnownNet
<1>2. ASSUME UNCHANGED netVars PROVE NetStep
  BY <1>1, <1>2, NetAlone
<1>3. ASSUME NEW x \in Callers, Clear(x) PROVE NetStep
  BY <1>1, <1>3, NetClear
<1>4. CASE NodeActs
  <2>1. CASE StartPrepare \/ Materialize \/ EndPrepare \/ CompleteSucceeded \/ CompleteFailed
             \/ StartRollback \/ DropSlot \/ StartCleanup \/ FinishCleanup \/ WorkerLost
             \/ InstallOwnerFence \/ \E verdict \in {"SUCCEEDED", "FAILED"} : Decide(verdict)
    BY <1>2, <2>1 DEF StartPrepare, Materialize, EndPrepare, CompleteSucceeded, CompleteFailed,
       StartRollback, DropSlot, StartCleanup, FinishCleanup, WorkerLost, InstallOwnerFence, Decide,
       nodeRest
  <2>2. CASE ReturnPrepare \/ AbandonPrepare \/ ReturnRollback \/ ReturnCleanup
    <3>1. Clear("node")
      BY <2>2 DEF ReturnPrepare, AbandonPrepare, ReturnRollback, ReturnCleanup
    <3>2. QED  BY <1>3, <3>1 DEF Callers
  <2>3. CASE ReturnReport
    BY <1>3, <2>3 DEF ReturnReport, Callers
  <2>4. QED
    BY <1>4, <2>1, <2>2, <2>3, PrepareJustified, RollbackJustified, CleanupJustified,
       ReportJustified DEF NodeActs, NodeRound, ReportRound
<1>5. CASE OwnerActs
  <2>1. CASE StartAdoption \/ AdoptOutput \/ FinishAdoption \/ AbandonAdoption \/ StartLoss
             \/ DecideLoss \/ AbortUnregistered \/ LossRoundFails \/ ResolveLoss \/ DropAttempt
             \/ ReceiveEnvelope \/ SeeNodeDeath \/ CopyReplica
    BY <1>2, <2>1 DEF StartAdoption, AdoptOutput, FinishAdoption, AbandonAdoption, StartLoss,
       DecideLoss, AbortUnregistered, LossRoundFails, ResolveLoss, DropAttempt, ReceiveEnvelope,
       SeeNodeDeath, CopyReplica
  <2>2. CASE ReturnOwner
    BY <1>3, <2>2 DEF ReturnOwner, Callers
  <2>3. QED  BY <1>5, <2>1, <2>2, OwnerJustified DEF OwnerActs, OwnerRound
<1>6. CASE CallGcs
  BY <1>6, GcsJustified
<1>7. CASE ReturnGcs
  BY <1>3, <1>7 DEF ReturnGcs, Callers
<1>8. CASE RetireDead
  BY <1>2, <1>8 DEF RetireDead
<1>9. ASSUME NEW x \in Callers, Deliver(x) \/ Refuse(x) \/ TimeOut(x) PROVE NetStep
  <2>1. CASE Refuse(x)
    BY <1>3, <2>1 DEF Refuse
  <2>2. QED  BY <1>9, <2>1, DeliverNet, TimeOutNet
<1>10. ASSUME NEW r \in late, Arrive(r) PROVE NetStep
  BY <1>10, ArriveNet
<1>11. ASSUME NEW p \in Processes, Exit(p) \/ RecordExit(p) PROVE NetStep
  <2>1. CASE RecordExit(p)
    BY <1>2, <2>1 DEF RecordExit
  <2>2. QED  BY <1>11, <2>1, ExitNet
<1>12. ASSUME NEW p \in Processes, NEW kind \in {"provisional", "final"}, InstallDeath(p, kind)
       PROVE  NetStep
  BY <1>2, <1>12 DEF InstallDeath
<1>13. CASE UNCHANGED vars
  BY <1>2, <1>13 DEF vars
<1>14. QED
  BY <1>4, <1>5, <1>6, <1>7, <1>8, <1>9, <1>10, <1>11, <1>12, <1>13, Parties

-----------------------------------------------------------------------------
(* What the Node and the owner remember of their effects *)

\* A step of the Node remembers a promotion that was made, and releases of pins
\* that are gone.
NodeMemory ==
    /\ \A c \in C : <<"Promote", c>> \in journal'.acks => Acked(<<"Promote", c>>) \/ child[c].promoted
    /\ \A h \in journal'.released : h \in journal.released \/ Gone(h)
    /\ \A h \in adapter'.cleaned : h \in adapter.cleaned \/ Gone(h)

\* A step that remembers no promotion and no release.
LEMMA MemoryKept ==
    ASSUME journal'.acks \subseteq journal.acks \cup
               {<<"Materialize">>, <<"Drop">>, <<"Fence">>, <<"AbortOwner">>,
                <<"RetireRolledBack">>, <<"RecordTerminal">>},
           journal'.released \subseteq journal.released, adapter'.cleaned \subseteq adapter.cleaned
    PROVE  NodeMemory
  BY DEF NodeMemory, Acked

\* What an answer, or the child owner's death, proves of a pin.
LEMMA ReleaseProved ==
    ASSUME Invariant, NEW x \in Callers, call[x] # None, answer[x] \/ ProvenGone(call[x]),
           call[x][1] = "Release"
    PROVE  <<call[x][2], call[x][3]>> \in Hold /\ Gone(<<call[x][2], call[x][3]>>)
<1>1. PICK r \in Requests : r = call[x]
  BY KnownNet DEF NetKnown
<1>2. <<r[2], r[3]>> \in Hold
  BY <1>1, RequestKinds
<1>3. CASE answer[x]
  <2>1. Effective(r)
    BY <1>1, <1>3 DEF Invariant, AnswersEffective
  <2>2. QED  BY <1>1, <1>2, <2>1 DEF Effective
<1>4. CASE ProvenGone(call[x])
  BY <1>1, <1>2, <1>4 DEF ProvenGone, Gone, Invariant, TypeOK
<1>5. QED  BY <1>3, <1>4

\* An acknowledged promotion was made.
LEMMA ReturnPrepareMemory == ASSUME Invariant, ReturnPrepare PROVE NodeMemory
<1>1. PICK r \in Requests : r = call["node"]
  BY KnownNet DEF NetKnown, ReturnPrepare, Callers
<1>2. /\ journal' = [journal EXCEPT !.acks = @ \cup {r}] /\ adapter' = adapter /\ Effective(r)
  BY <1>1 DEF ReturnPrepare, Invariant, AnswersEffective, Callers
<1>3. journal'.acks = journal.acks \cup {r} /\ journal'.released = journal.released
  BY <1>2 DEF Invariant, RecordsTyped, Journals
<1>4. ASSUME NEW c \in C, r = <<"Promote", c>> PROVE child[c].promoted
  BY <1>2, <1>4 DEF Effective
<1>5. QED  BY <1>2, <1>3, <1>4 DEF NodeMemory, Acked

\* A compensation that is acknowledged released its pin.
LEMMA ReturnRollbackMemory == ASSUME Invariant, ReturnRollback PROVE NodeMemory
<1> DEFINE r == call["node"]
<1>1. /\ call["node"] # None /\ (answer["node"] \/ ProvenGone(r))
      /\ journal \in Journals /\ adapter \in Adapters
  BY DEF ReturnRollback, Waiting, Invariant, RecordsTyped
<1>2. r[1] = "Release" => <<r[2], r[3]>> \in Hold /\ Gone(<<r[2], r[3]>>)
  BY <1>1, ReleaseProved DEF Callers
<1>3. r[1] \in {"AbortOwner", "RetireRolledBack"} => r \in {<<"AbortOwner">>, <<"RetireRolledBack">>}
  <2>1. r \in Requests
    BY <1>1, KnownNet DEF NetKnown, Callers
  <2> HIDE DEF r
  <2>2. QED  BY <2>1, RequestKinds
<1> HIDE DEF r
<1>4. CASE r[1] \in {"AbortOwner", "RetireRolledBack"}
           /\ journal' = [journal EXCEPT !.acks = @ \cup {r}] /\ UNCHANGED adapter
  <2>1. journal'.acks = journal.acks \cup {r} /\ journal'.released = journal.released
    BY <1>1, <1>4 DEF Journals
  <2>2. QED  BY <1>3, <1>4, <2>1, MemoryKept
<1>5. CASE journal' = [journal EXCEPT !.acks = @ \cup {<<"Fence">>}] /\ UNCHANGED adapter
  <2>1. journal'.acks = journal.acks \cup {<<"Fence">>} /\ journal'.released = journal.released
    BY <1>1, <1>5 DEF Journals
  <2>2. QED  BY <1>5, <2>1, MemoryKept
<1>6. CASE /\ r[1] = "Release"
           /\ journal' = Compensate([journal EXCEPT !.released = @ \cup {<<r[2], r[3]>>}])
           /\ adapter' = [adapter EXCEPT !.ticket = IF Compensated(journal') THEN @ ELSE None]
  <2> DEFINE j == [journal EXCEPT !.released = @ \cup {<<r[2], r[3]>>}]
  <2>1. j \in Journals /\ j.acks = journal.acks /\ j.released = journal.released \cup {<<r[2], r[3]>>}
    BY <1>1, <1>2, <1>6 DEF Journals
  <2>2. adapter'.cleaned = adapter.cleaned
    BY <1>1, <1>6 DEF Adapters
  <2>3. journal' = Compensate(j)
    BY <1>6
  <2> HIDE DEF j
  <2>4. journal'.acks = journal.acks /\ journal'.released = journal.released \cup {<<r[2], r[3]>>}
    BY <2>1, <2>3, CompensateIs
  <2>5. QED  BY <1>2, <1>6, <2>2, <2>4 DEF NodeMemory, Acked
<1>7. CASE /\ journal' = EndRound(journal)
           /\ adapter' = [adapter EXCEPT !.reported = TRUE, !.ticket = None]
  <2>1. adapter'.cleaned = adapter.cleaned
    BY <1>1, <1>7 DEF Adapters
  <2>2. QED  BY <1>1, <1>7, <2>1, EndRoundIs, MemoryKept
<1>8. QED  BY <1>4, <1>5, <1>6, <1>7 DEF ReturnRollback, r

\* So did a release of a clean-up.
LEMMA ReturnCleanupMemory == ASSUME Invariant, ReturnCleanup PROVE NodeMemory
<1> DEFINE r == call["node"]
<1>1. /\ call["node"] # None /\ (answer["node"] \/ ProvenGone(r))
      /\ journal \in Journals /\ adapter \in Adapters
  BY DEF ReturnCleanup, Waiting, Invariant, RecordsTyped
<1>2. r[1] = "Release" => <<r[2], r[3]>> \in Hold /\ Gone(<<r[2], r[3]>>)
  BY <1>1, ReleaseProved DEF Callers
<1>3. r[1] = "RecordTerminal" => r = <<"RecordTerminal">>
  <2>1. r \in Requests
    BY <1>1, KnownNet DEF NetKnown, Callers
  <2> HIDE DEF r
  <2>2. QED  BY <2>1, RequestKinds
<1> HIDE DEF r
<1>4. CASE journal' = [journal EXCEPT !.acks = @ \cup {<<"Fence">>}] /\ UNCHANGED adapter
  <2>1. journal'.acks = journal.acks \cup {<<"Fence">>} /\ journal'.released = journal.released
    BY <1>1, <1>4 DEF Journals
  <2>2. QED  BY <1>4, <2>1, MemoryKept
<1>5. CASE r[1] = "RecordTerminal" /\ journal' = [journal EXCEPT !.acks = @ \cup {r}] /\ UNCHANGED adapter
  <2>1. journal'.acks = journal.acks \cup {r} /\ journal'.released = journal.released
    BY <1>1, <1>5 DEF Journals
  <2>2. QED  BY <1>3, <1>5, <2>1, MemoryKept
<1>6. CASE /\ r[1] = "Release" /\ journal' = journal
           /\ adapter' = [adapter EXCEPT !.cleaned = @ \cup {<<r[2], r[3]>>}]
  <2>1. adapter'.cleaned = adapter.cleaned \cup {<<r[2], r[3]>>}
    BY <1>1, <1>6 DEF Adapters
  <2>2. QED  BY <1>2, <1>6, <2>1 DEF NodeMemory, Acked
<1>7. QED  BY <1>4, <1>5, <1>6 DEF ReturnCleanup, r

\* The other steps of the Node remember neither.
LEMMA OtherMemory ==
    ASSUME Invariant,
           \/ StartPrepare \/ Materialize \/ EndPrepare \/ AbandonPrepare \/ CompleteSucceeded
           \/ CompleteFailed \/ StartRollback \/ DropSlot \/ StartCleanup \/ FinishCleanup
           \/ \E r \in Requests : CallPrepare(r)
    PROVE  NodeMemory
<1>1. journal \in Journals /\ adapter \in Adapters
  BY DEF Invariant, RecordsTyped
<1>2. CASE StartPrepare
  <2>1. journal'.acks = journal.acks /\ journal'.released = journal.released
        /\ adapter'.cleaned = adapter.cleaned
    BY <1>1, <1>2 DEF StartPrepare, Journals, Adapters
  <2>2. QED  BY <2>1, MemoryKept
<1>3. CASE Materialize
  <2>1. CASE /\ journal' = [journal EXCEPT !.intents = @ \cup {<<"Materialize">>},
                                !.acks = @ \cup {<<"Materialize">>}, !.held = TRUE]
             /\ UNCHANGED adapter
    <3>1. journal'.acks = journal.acks \cup {<<"Materialize">>} /\ journal'.released = journal.released
      BY <1>1, <2>1 DEF Journals
    <3>2. QED  BY <2>1, <3>1, MemoryKept
  <2>2. CASE /\ journal' = EndRound([journal EXCEPT !.intents = @ \cup {<<"Materialize">>}])
             /\ adapter' = [adapter EXCEPT !.ticket = None]
    <3> DEFINE j == [journal EXCEPT !.intents = @ \cup {<<"Materialize">>}]
    <3>1. j \in Journals /\ j.acks = journal.acks /\ j.released = journal.released
      BY <1>1 DEF Journals, Effects
    <3>2. adapter'.cleaned = adapter.cleaned /\ journal' = EndRound(j)
      BY <1>1, <2>2 DEF Adapters
    <3> HIDE DEF j
    <3>3. QED  BY <3>1, <3>2, EndRoundIs, MemoryKept
  <2>3. QED  BY <1>3, <2>1, <2>2 DEF Materialize
<1>4. CASE EndPrepare \/ AbandonPrepare \/ StartCleanup
  <2>1. journal' = journal /\ adapter'.cleaned = adapter.cleaned
    BY <1>1, <1>4 DEF EndPrepare, AbandonPrepare, StartCleanup, Adapters
  <2>2. QED  BY <2>1, MemoryKept
<1>5. CASE CompleteSucceeded
  <2>1. journal'.acks = journal.acks /\ journal'.released = journal.released
        /\ adapter'.cleaned = adapter.cleaned
    BY <1>1, <1>5 DEF CompleteSucceeded, Journals, Adapters
  <2>2. QED  BY <2>1, MemoryKept
<1>6. CASE CompleteFailed \/ StartRollback
  <2>1. journal' \in {journal, RolledBack(journal)} /\ adapter'.cleaned = adapter.cleaned
    BY <1>1, <1>6 DEF CompleteFailed, StartRollback, Adapters
  <2>2. QED  BY <1>1, <2>1, RolledBackIs, MemoryKept
<1>7. CASE DropSlot
  <2> DEFINE j == [journal EXCEPT !.acks = @ \cup {<<"Drop">>}, !.held = FALSE]
  <2>1. j \in Journals /\ j.acks = journal.acks \cup {<<"Drop">>} /\ j.released = journal.released
    BY <1>1 DEF Journals, Effects
  <2>2. adapter'.cleaned = adapter.cleaned /\ journal' = Compensate(j)
    BY <1>1, <1>7 DEF DropSlot, Adapters
  <2> HIDE DEF j
  <2>3. QED  BY <2>1, <2>2, CompensateIs, MemoryKept
<1>8. CASE FinishCleanup
  <2> DEFINE j == [journal EXCEPT !.state = "RETIRED", !.held = FALSE]
  <2>1. j \in Journals /\ j.acks = journal.acks /\ j.released = journal.released
    BY <1>1 DEF Journals
  <2>2. adapter'.cleaned = adapter.cleaned /\ journal' = EndRound(j)
    BY <1>1, <1>8 DEF FinishCleanup, Adapters
  <2> HIDE DEF j
  <2>3. QED  BY <2>1, <2>2, EndRoundIs, MemoryKept
<1>9. ASSUME NEW r \in Requests, CallPrepare(r) PROVE NodeMemory
  <2>1. journal'.acks = journal.acks /\ journal'.released = journal.released /\ adapter' = adapter
    BY <1>1, <1>9 DEF CallPrepare, Journals
  <2>2. QED  BY <2>1, MemoryKept
<1>10. QED  BY <1>2, <1>3, <1>4, <1>5, <1>6, <1>7, <1>8, <1>9

\* The owner remembers releases of pins that are gone, and so does the GCS, which
\* calls a publication closed when the Node has released every pin of it.
OtherReleases ==
    /\ \A h \in object'.released : h \in object.released \/ Gone(h)
    /\ cleanup' \in [released : SUBSET Hold, closed : BOOLEAN]
    /\ \A h \in cleanup'.released : h \in cleanup.released \/ Gone(h)
    /\ cleanup'.closed => cleanup.closed \/ AllGone

\* The owner's steps: only an answer to a release is remembered as one.
LEMMA OwnerReleases ==
    ASSUME Invariant, OwnerActs
    PROVE  \A h \in object'.released : h \in object.released \/ Gone(h)
<1>1. object \in Outputs
  BY DEF Invariant, RecordsTyped
<1>2. ASSUME object'.released = object.released
      PROVE  \A h \in object'.released : h \in object.released \/ Gone(h)
  BY <1>2
<1>3. CASE ReturnOwner
  <2> DEFINE r == call["owner"]
  <2>1. /\ object' = IF r[1] = "Release"
                     THEN [object EXCEPT !.released = @ \cup {<<r[2], r[3]>>}]
                     ELSE [object EXCEPT !.round = @ \cup {r}]
        /\ call["owner"] # None /\ (answer["owner"] \/ ProvenGone(r))
    BY <1>3 DEF ReturnOwner, Waiting
  <2>2. r[1] = "Release" => Gone(<<r[2], r[3]>>)
    BY <2>1, ReleaseProved DEF Callers
  <2> HIDE DEF r
  <2>3. object'.released = IF r[1] = "Release" THEN object.released \cup {<<r[2], r[3]>>}
                           ELSE object.released
    BY <1>1, <2>1 DEF Outputs
  <2>4. QED  BY <2>2, <2>3
<1>4. CASE StartAdoption \/ AbandonAdoption \/ LossRoundFails \/ StartLoss
  BY <1>1, <1>2, <1>4 DEF StartAdoption, AbandonAdoption, LossRoundFails, StartLoss, Outputs
<1>5. CASE AdoptOutput
  BY <1>1, <1>2, <1>5 DEF AdoptOutput, Outputs
<1>6. CASE FinishAdoption
  BY <1>1, <1>2, <1>6 DEF FinishAdoption, Outputs
<1>7. CASE DecideLoss
  <2>1. object'.released = object.released
    BY <1>1, <1>7 DEF DecideLoss, Outputs
  <2>2. QED  BY <1>2, <2>1
<1>8. CASE AbortUnregistered \/ DropAttempt
  BY <1>1, <1>2, <1>8 DEF AbortUnregistered, DropAttempt, Outputs
<1>9. CASE ResolveLoss
  <2>1. object'.released = object.released
    BY <1>1, <1>9 DEF ResolveLoss, Outputs
  <2>2. QED  BY <1>2, <2>1
<1>10. CASE ReceiveEnvelope \/ CopyReplica \/ SeeNodeDeath
  BY <1>1, <1>2, <1>10 DEF ReceiveEnvelope, CopyReplica, SeeNodeDeath, Outputs
<1>11. ASSUME NEW r \in Requests, CallOwner(r)
       PROVE  \A h \in object'.released : h \in object.released \/ Gone(h)
  BY <1>2, <1>11 DEF CallOwner, ownerVars
<1>12. QED
  BY <1>3, <1>4, <1>5, <1>6, <1>7, <1>8, <1>9, <1>10, <1>11 DEF OwnerActs, OwnerRound

\* The answer to the GCS's clean-up.
LEMMA ReturnGcsReleases ==
    ASSUME Invariant, ReturnGcs
    PROVE  OtherReleases
<1> DEFINE r == call["gcs"]
<1>1. /\ cleanup' = IF r[1] = "Release" THEN [cleanup EXCEPT !.released = @ \cup {<<r[2], r[3]>>}]
                                        ELSE [cleanup EXCEPT !.closed = TRUE]
      /\ call["gcs"] # None /\ (answer["gcs"] \/ ProvenGone(r))
      /\ object' = object
  BY DEF ReturnGcs, Waiting, ownerVars
<1>2. cleanup \in [released : SUBSET Hold, closed : BOOLEAN]
  BY DEF Invariant, RecordsTyped
<1>3. r[1] = "Release" => <<r[2], r[3]>> \in Hold /\ Gone(<<r[2], r[3]>>)
  BY <1>1, ReleaseProved DEF Callers
<1>4. r[1] # "Release" => AllGone
  <2>1. SUFFICES ASSUME r[1] # "Release" PROVE AllGone
    OBVIOUS
  <2>2. r = <<"Finalize">>
    BY <1>1, <2>1 DEF Invariant, CallsTyped, Releases
  <2>3. answer["gcs"]
    BY <1>1, <2>1 DEF ProvenGone
  <2>4. adapter.done
    BY <2>2, <2>3 DEF Invariant, AnswersEffective, Effective, Callers
  <2>5. adapter.cleaned = Hold
    BY <2>4 DEF Invariant, NodeConsistent
  <2>6. QED  BY <2>5 DEF Invariant, ReleasesGone, AllGone
<1> HIDE DEF r
<1>5. CASE r[1] = "Release"
  <2>1. /\ cleanup' \in [released : SUBSET Hold, closed : BOOLEAN]
        /\ cleanup'.released = cleanup.released \cup {<<r[2], r[3]>>}
        /\ cleanup'.closed = cleanup.closed
    BY <1>1, <1>2, <1>3, <1>5
  <2>2. QED  BY <1>1, <1>3, <1>5, <2>1 DEF OtherReleases
<1>6. CASE r[1] # "Release"
  <2>1. /\ cleanup' \in [released : SUBSET Hold, closed : BOOLEAN]
        /\ cleanup'.released = cleanup.released
    BY <1>1, <1>2, <1>6
  <2>2. QED  BY <1>1, <1>4, <1>6, <2>1 DEF OtherReleases
<1>7. QED  BY <1>5, <1>6

\* Every step remembers what has happened, and nothing else.
LEMMA NextMemory == ASSUME Invariant, [Next]_vars PROVE NodeMemory /\ OtherReleases
<1> DEFINE Both == NodeMemory /\ OtherReleases
<1>1. ASSUME UNCHANGED <<journal, adapter>> PROVE NodeMemory
  BY <1>1, MemoryKept
<1>2. cleanup \in [released : SUBSET Hold, closed : BOOLEAN]
  BY DEF Invariant, RecordsTyped
<1>3. ASSUME UNCHANGED cleanup, object'.released = object.released PROVE OtherReleases
  BY <1>2, <1>3 DEF OtherReleases
<1>4. ASSUME UNCHANGED <<nodeVars, ownerVars, cleanup>> PROVE Both
  BY <1>1, <1>3, <1>4 DEF nodeVars, ownerVars
<1>5. CASE NodeActs
  <2>1. OtherReleases
    BY <1>3, <1>5, NodeActsFrame DEF ownerVars
  <2>2. ASSUME NEW r \in Requests, CallRollback(r) \/ CallCleanup(r) PROVE NodeMemory
    BY <1>1, <2>2 DEF CallRollback, CallCleanup, CallRound, nodeVars
  <2>3. CASE CallReport \/ WorkerLost \/ \E verdict \in {"SUCCEEDED", "FAILED"} : Decide(verdict)
    <3>1. UNCHANGED <<journal, adapter>>
      BY <2>3 DEF CallReport, WorkerLost, Decide, nodeVars
    <3>2. QED  BY <1>1, <2>1, <3>1
  <2>4. CASE ReturnReport \/ InstallOwnerFence
    <3>1. /\ journal'.acks = journal.acks /\ journal'.released = journal.released
          /\ adapter'.cleaned = adapter.cleaned
      BY <2>4 DEF ReturnReport, InstallOwnerFence, Invariant, RecordsTyped, Adapters
    <3>2. QED  BY <2>1, <3>1, MemoryKept
  <2>5. NodeMemory
    BY <1>5, <2>2, <2>3, <2>4, ReturnPrepareMemory, ReturnRollbackMemory, ReturnCleanupMemory,
       OtherMemory DEF NodeActs, NodeRound, ReportRound
  <2>6. QED  BY <2>1, <2>5
<1>6. CASE OwnerActs
  <2>1. UNCHANGED <<nodeVars, cleanup>>
    BY <1>6, OwnerActsFrame
  <2>2. OtherReleases
    BY <1>2, <1>6, <2>1, OwnerReleases DEF OtherReleases
  <2>3. QED  BY <1>1, <2>1, <2>2 DEF nodeVars
<1>7. CASE CallGcs \/ RetireDead
  BY <1>4, <1>7 DEF CallGcs, RetireDead
<1>8. CASE ReturnGcs
  BY <1>1, <1>8, ReturnGcsReleases DEF ReturnGcs, nodeVars
<1>9. ASSUME NEW r, Serve(r) PROVE Both
  <2>1. UNCHANGED cleanup
    BY <1>9, ServeFrame
  <2>2. object'.released = object.released
    <3>1. CASE ServeQuery(r)
      BY <3>1 DEF ServeQuery, Invariant, RecordsTyped, Outputs
    <3>2. CASE ServeOwner(r)
      BY <3>2 DEF ServeOwner
    <3>3. CASE UNCHANGED ownerVars
      BY <3>3 DEF ownerVars
    <3>4. QED  BY <1>9, <3>1, <3>2, <3>3, ServeFrame
  <2>3. NodeMemory
    <3>1. CASE ServeNode(r)
      <4>1. journal'.acks = journal.acks /\ journal'.released = journal.released /\ adapter' = adapter
        BY <3>1 DEF ServeNode, Invariant, RecordsTyped, Journals
      <4>2. QED  BY <4>1, MemoryKept
    <3>2. CASE UNCHANGED nodeVars
      BY <1>1, <3>2 DEF nodeVars
    <3>3. QED  BY <1>9, <3>1, <3>2, ServeFrame DEF ServeQuery
  <2>4. QED  BY <1>3, <2>1, <2>2, <2>3
<1>10. ASSUME NEW x \in Callers, Deliver(x) \/ Refuse(x) \/ TimeOut(x) PROVE Both
  <2>1. CASE Deliver(x)
    BY <1>9, <2>1 DEF Deliver
  <2>2. CASE Refuse(x) \/ TimeOut(x)
    <3>1. UNCHANGED cleanup /\ FailRound(x)
      BY <2>2, FailFrame
    <3>2. object'.released = object.released
      BY <3>1 DEF FailRound, Callers, Invariant, RecordsTyped, Outputs
    <3>3. /\ journal' \in {journal, EndRound(journal)}
          /\ adapter'.cleaned = adapter.cleaned
      BY <3>1 DEF FailRound, Callers, Invariant, RecordsTyped, Adapters
    <3>4. journal \in Journals
      BY DEF Invariant, RecordsTyped
    <3>5. NodeMemory
      BY <3>3, <3>4, EndRoundIs, MemoryKept
    <3>6. QED  BY <1>3, <3>1, <3>2, <3>5
  <2>3. QED  BY <1>10, <2>1, <2>2
<1>11. ASSUME NEW r \in late, Arrive(r) PROVE Both
  BY <1>9, <1>11 DEF Arrive
<1>12. ASSUME NEW p \in Processes, Exit(p) \/ RecordExit(p) PROVE Both
  BY <1>4, <1>12 DEF Exit, RecordExit
<1>13. ASSUME NEW p \in Processes, NEW kind \in {"provisional", "final"}, InstallDeath(p, kind)
       PROVE  Both
  BY <1>4, <1>13 DEF InstallDeath
<1>14. CASE UNCHANGED vars
  BY <1>4, <1>14 DEF vars
<1>15. QED
  BY <1>5, <1>6, <1>7, <1>8, <1>10, <1>11, <1>12, <1>13, <1>14, Parties

-----------------------------------------------------------------------------
(* The invariant is kept *)

\* What a step leaves true around the pins of a child.
Around ==
    /\ journal.intents \subseteq journal'.intents
    /\ Undone => Undone'
    /\ \A c \in C : Acked(<<"Promote", c>>)' => Acked(<<"Promote", c>>) \/ child[c].promoted
    /\ \A c \in C : child[c].promoted => child'[c].promoted

\* Intents, promotions and what was given up last; an acknowledged promotion was made.
LEMMA StepAround == ASSUME Invariant, Grows, NodeMemory PROVE Around
<1>1. Undone => Undone'
  BY Lasting
<1>2. \A c \in C : Acked(<<"Promote", c>>)' => Acked(<<"Promote", c>>) \/ child[c].promoted
  BY DEF NodeMemory, Acked
<1>3. QED  BY <1>1, <1>2 DEF Around, Grows, NodeStep, JournalGrows, ChildGrows

\* The pins of a child that the step does not touch.
LEMMA PinsKept ==
    ASSUME Around, NEW c \in C, PinsConsistent(c), child'[c] = child[c] PROVE PinsConsistent(c)'
  BY DEF Around, PinsConsistent, Pin

\* Requests to the owners of the children keep their pins consistent.
LEMMA ServeChildPins ==
    ASSUME Invariant, Around, NEW r \in Requests, Sent(r), ServeChild(r) PROVE ChildConsistent'
<1>1. child \in [C -> Pins] /\ Justified(r)
  BY DEF Invariant, TypeOK, Pins, SentJustified
<1>2. \A d \in C : PinsConsistent(d)
  BY DEF Invariant, ChildConsistent
<1>3. ASSUME NEW c \in C, \A d \in C : d # c => child'[d] = child[d], PinsConsistent(c)'
      PROVE  ChildConsistent'
  BY <1>2, <1>3, PinsKept DEF ChildConsistent
<1>4. ASSUME UNCHANGED child PROVE ChildConsistent'
  BY <1>2, <1>4, PinsKept DEF ChildConsistent
<1>5. ASSUME NEW c \in C, r = <<"Prepare", c>>, ServePrepare(c) PROVE ChildConsistent'
  <2>1. <<"Prepare", c>> \in journal.intents
    BY <1>1, <1>5 DEF Justified
  <2>2. CASE /\ "provisional" \notin child[c].released
             /\ \A d \in C : d # c => child'[d] = child[d]
             /\ child'[c].prepared /\ child'[c].promoted = child[c].promoted
             /\ child'[c].held = child[c].held \cup {"provisional"}
             /\ child'[c].released = child[c].released
    <3>1. PinsConsistent(c)'
      BY <1>2, <2>1, <2>2 DEF PinsConsistent, Pin, Around
    <3>2. QED  BY <1>3, <2>2, <3>1
  <2>3. QED  BY <1>1, <1>4, <1>5, <2>2, PrepareGrows
<1>6. ASSUME NEW c \in C, r = <<"Promote", c>>, ServePromote(c) PROVE ChildConsistent'
  <2>1. <<"Promote", c>> \in journal.intents
    BY <1>1, <1>6 DEF Justified
  <2>2. child'[c].promoted
    BY <1>1, <1>6, PromoteGrows
  <2>3. CASE /\ "final" \notin child[c].released
             /\ \A d \in C : d # c => child'[d] = child[d]
             /\ child'[c].prepared = child[c].prepared
             /\ child'[c].held = (child[c].held \ {"provisional"}) \cup {"final"}
             /\ child'[c].released = child[c].released \cup {"provisional"}
    <3>1. PinsConsistent(c)'
      BY <1>2, <2>1, <2>2, <2>3 DEF PinsConsistent, Pin, Around
    <3>2. QED  BY <1>3, <2>3, <3>1
  <2>4. QED  BY <1>1, <1>4, <1>6, <2>3, PromoteGrows
<1>7. ASSUME NEW c \in C, NEW kind \in {"provisional", "final"}, r = <<"Release", c, kind>>,
             ServeRelease(c, kind)
      PROVE  ChildConsistent'
  <2>1. Undone'
    BY <1>1, <1>7 DEF Justified, Around
  <2>2. /\ \A d \in C : d # c => child'[d] = child[d]
        /\ child'[c].prepared = child[c].prepared /\ child'[c].promoted = child[c].promoted
        /\ child'[c].held = child[c].held \ {kind}
        /\ child'[c].released = child[c].released \cup {kind}
    BY <1>1, <1>7, ReleaseGrows
  <2>3. PinsConsistent(c)'
    BY <1>2, <2>1, <2>2 DEF PinsConsistent, Pin, Around
  <2>4. QED  BY <1>3, <2>2, <2>3
<1>8. QED  BY <1>5, <1>6, <1>7 DEF ServeChild

\* Every step keeps the pins of the children consistent.
LEMMA NextPins == ASSUME Invariant, Around, [Next]_vars PROVE ChildConsistent'
<1>1. \A d \in C : PinsConsistent(d)
  BY DEF Invariant, ChildConsistent
<1>2. ASSUME UNCHANGED child PROVE ChildConsistent'
  BY <1>1, <1>2, PinsKept DEF ChildConsistent
<1>3. CASE NodeActs
  BY <1>2, <1>3, NodeActsFrame DEF childVars
<1>4. CASE OwnerActs
  BY <1>2, <1>4, OwnerActsFrame DEF childVars
<1>5. CASE CallGcs \/ ReturnGcs \/ RetireDead
  BY <1>2, <1>5 DEF CallGcs, ReturnGcs, RetireDead, childVars
<1>6. ASSUME NEW r \in Requests, Sent(r), Serve(r) PROVE ChildConsistent'
  <2>1. CASE ServeChild(r)
    BY <1>6, <2>1, ServeChildPins
  <2>2. CASE UNCHANGED childVars
    BY <1>2, <2>2 DEF childVars
  <2>3. QED  BY <1>6, <2>1, <2>2, ServeFrame DEF ServeQuery
<1>7. ASSUME NEW x \in Callers, Deliver(x) \/ Refuse(x) \/ TimeOut(x) PROVE ChildConsistent'
  <2>1. CASE Deliver(x)
    BY <1>6, <2>1, ServedSent DEF Invariant
  <2>2. CASE Refuse(x) \/ TimeOut(x)
    BY <1>2, <2>2, FailFrame DEF childVars
  <2>3. QED  BY <1>7, <2>1, <2>2
<1>8. ASSUME NEW r \in late, Arrive(r) PROVE ChildConsistent'
  BY <1>6, <1>8, ServedSent DEF Invariant
<1>9. ASSUME NEW p \in Processes, Exit(p) \/ RecordExit(p) PROVE ChildConsistent'
  BY <1>2, <1>9 DEF Exit, RecordExit, childVars
<1>10. ASSUME NEW p \in Processes, NEW kind \in {"provisional", "final"}, InstallDeath(p, kind)
       PROVE  ChildConsistent'
  <2>1. child \in [C -> Pins]
    BY DEF Invariant, TypeOK, Pins
  <2>2. kind = "final" => Undone
    BY <1>10, <2>1, DeathGrows DEF Undone
  <2>3. SUFFICES ASSUME NEW c \in C PROVE PinsConsistent(c)'
    BY DEF ChildConsistent
  <2>4. CASE child'[c] = child[c]
    BY <1>1, <2>4, PinsKept
  <2>5. CASE /\ kind \in child[c].held
             /\ child'[c].prepared = child[c].prepared /\ child'[c].promoted = child[c].promoted
             /\ child'[c].held = child[c].held \ {kind}
             /\ child'[c].released = child[c].released \cup {kind}
    BY <1>1, <2>2, <2>5 DEF PinsConsistent, Pin, Around
  <2>6. QED  BY <1>10, <2>1, <2>4, <2>5, DeathGrows
<1>11. CASE UNCHANGED vars
  BY <1>2, <1>11 DEF vars, childVars
<1>12. QED
  BY <1>3, <1>4, <1>5, <1>7, <1>8, <1>9, <1>10, <1>11, Parties


-----------------------------------------------------------------------------
(* The Node's copy *)

Replicas == {"absent", "claimed", "sealed", "dropped"}

\* The Node's copy of a stored value is claimed, sealed and dropped.
LEMMA NextReplica == ASSUME replica \in Replicas, [Next]_vars PROVE replica' \in Replicas
<1>1. ASSUME UNCHANGED replica PROVE replica' \in Replicas
  BY <1>1
<1>2. CASE NodeActs
  <2>1. CASE Materialize \/ DropSlot \/ FinishCleanup
    BY <2>1 DEF Materialize, DropSlot, FinishCleanup, Replicas
  <2>2. ASSUME NEW r \in Requests, CallPrepare(r) \/ CallRollback(r) \/ CallCleanup(r)
        PROVE  replica' \in Replicas
    BY <1>1, <2>2 DEF CallPrepare, CallRollback, CallCleanup, CallRound, nodeVars
  <2>3. CASE \/ StartPrepare \/ ReturnPrepare \/ EndPrepare \/ AbandonPrepare \/ CompleteSucceeded
             \/ CompleteFailed \/ StartRollback \/ ReturnRollback \/ StartCleanup \/ ReturnCleanup
    BY <1>1, <2>3 DEF StartPrepare, ReturnPrepare, EndPrepare, AbandonPrepare, CompleteSucceeded,
                      CompleteFailed, StartRollback, ReturnRollback, StartCleanup, ReturnCleanup
  <2>4. CASE CallReport \/ ReturnReport \/ WorkerLost \/ InstallOwnerFence
             \/ \E verdict \in {"SUCCEEDED", "FAILED"} : Decide(verdict)
    BY <1>1, <2>4 DEF CallReport, ReturnReport, WorkerLost, InstallOwnerFence, Decide, nodeVars
  <2>5. QED  BY <1>2, <2>1, <2>2, <2>3, <2>4 DEF NodeActs, NodeRound, ReportRound
<1>3. CASE OwnerActs
  BY <1>1, <1>3, OwnerActsFrame DEF nodeVars
<1>4. CASE CallGcs \/ ReturnGcs \/ RetireDead
  BY <1>1, <1>4 DEF CallGcs, ReturnGcs, RetireDead, nodeVars
<1>5. ASSUME NEW r, Serve(r) PROVE replica' \in Replicas
  BY <1>1, <1>5, ServeFrame DEF ServeQuery, ServeNode, nodeVars
<1>6. ASSUME NEW x \in Callers, Deliver(x) \/ Refuse(x) \/ TimeOut(x) PROVE replica' \in Replicas
  <2>1. CASE Deliver(x)
    BY <1>5, <2>1 DEF Deliver
  <2>2. CASE Refuse(x) \/ TimeOut(x)
    BY <1>1, <2>2, FailFrame
  <2>3. QED  BY <1>6, <2>1, <2>2
<1>7. ASSUME NEW r \in late, Arrive(r) PROVE replica' \in Replicas
  BY <1>5, <1>7 DEF Arrive
<1>8. ASSUME NEW p \in Processes, Exit(p) \/ RecordExit(p) PROVE replica' \in Replicas
  BY <1>1, <1>8 DEF Exit, RecordExit, nodeVars
<1>9. ASSUME NEW p \in Processes, NEW kind \in {"provisional", "final"}, InstallDeath(p, kind)
      PROVE  replica' \in Replicas
  BY <1>1, <1>9 DEF InstallDeath, nodeVars
<1>10. CASE UNCHANGED vars
  BY <1>1, <1>10 DEF vars, nodeVars
<1>11. QED  BY <1>2, <1>3, <1>4, <1>6, <1>7, <1>8, <1>9, <1>10, Parties

-----------------------------------------------------------------------------
(* The invariant holds *)

\* The fields TypeOK names are those of the records.
LEMMA FieldsTyped ==
    ASSUME journal \in Journals, adapter \in Adapters, lease \in Leases,
           handoff \in Handoffs, object \in Outputs,
           cleanup \in [released : SUBSET Hold, closed : BOOLEAN]
    PROVE  /\ journal.state \in {None, "ACTIVE", "COMPLETED", "ROLLING_BACK", "RETIRED"}
           /\ adapter.ticket \in {None, "prepare", "rollback", "cleanup"}
           /\ adapter.terminal \in {None, "pending", "recorded", "reported"}
           /\ adapter.cleaned \subseteq Hold /\ journal.released \subseteq Hold
           /\ lease.state \in {"RUNNING", "COMPLETED", "WORKER_LOST", "ABANDONED"}
           /\ lease.verdict \in {None, "SUCCEEDED", "FAILED"}
           /\ handoff.phase \in {None, "PENDING", "ADOPTED", "ABORTED"}
           /\ object.state \in {"PENDING", "READY", "LOST"}
           /\ object.driver \in {None, "adopt", "loss"}
           /\ object.choice \in {None, "keep", "discard"}
           /\ cleanup.released \subseteq Hold
  BY DEF Journals, Adapters, Leases, Handoffs, Outputs

\* The same after a step.
LEMMA FieldsTypedNext ==
    ASSUME journal' \in Journals, adapter' \in Adapters, lease' \in Leases,
           handoff' \in Handoffs, object' \in Outputs,
           cleanup' \in [released : SUBSET Hold, closed : BOOLEAN]
    PROVE  /\ journal'.state \in {None, "ACTIVE", "COMPLETED", "ROLLING_BACK", "RETIRED"}
           /\ adapter'.ticket \in {None, "prepare", "rollback", "cleanup"}
           /\ adapter'.terminal \in {None, "pending", "recorded", "reported"}
           /\ adapter'.cleaned \subseteq Hold /\ journal'.released \subseteq Hold
           /\ lease'.state \in {"RUNNING", "COMPLETED", "WORKER_LOST", "ABANDONED"}
           /\ lease'.verdict \in {None, "SUCCEEDED", "FAILED"}
           /\ handoff'.phase \in {None, "PENDING", "ADOPTED", "ABORTED"}
           /\ object'.state \in {"PENDING", "READY", "LOST"}
           /\ object'.driver \in {None, "adopt", "loss"}
           /\ object'.choice \in {None, "keep", "discard"}
           /\ cleanup'.released \subseteq Hold
  BY DEF Journals, Adapters, Leases, Handoffs, Outputs

\* A step keeps the types.
LEMMA NextTypes ==
    ASSUME Invariant, Grows, NetStep, OtherReleases, [Next]_vars
    PROVE  TypeOK' /\ RecordsTyped' /\ CallsTyped'
<1>1. /\ journal' \in Journals /\ adapter' \in Adapters /\ lease' \in Leases
      /\ handoff' \in Handoffs /\ object' \in Outputs
      /\ cleanup' \in [released : SUBSET Hold, closed : BOOLEAN]
  BY DEF Grows, NodeStep, OwnerStep, OtherReleases
<1>2. RecordsTyped'
  BY <1>1 DEF RecordsTyped
<1>3. CallsTyped'
  BY DEF CallsTyped, NetStep, Grows, FaultStep
<1>4. Gcs!TypeOK' /\ child' \in [C -> Pins]
  BY DEF Grows, GcsStep, ChildGrows
<1>5. cycle' \in BOOLEAN /\ stored' \in Tiers
  BY DEF Grows, FaultStep, fixedVars, Invariant, TypeOK
<1>6. replica' \in Replicas
  BY NextReplica DEF Invariant, TypeOK, Replicas
<1>7. TypeOK'
  BY <1>1, <1>4, <1>5, <1>6, FieldsTypedNext
     DEF TypeOK, NetStep, Grows, FaultStep, Replicas, Pins
<1>8. QED  BY <1>2, <1>3, <1>7

\* What is under way is justified, and what is answered has its effect.
LEMMA NextCalls ==
    ASSUME Invariant, Grows, NetStep PROVE SentJustified' /\ AnswersEffective'
<1>1. SentJustified'
  <2>1. SUFFICES ASSUME NEW r \in Requests, Sent(r)' PROVE Justified(r)'
    BY DEF SentJustified
  <2>2. CASE Sent(r)
    BY <2>2, JustifiedLasts DEF Invariant, SentJustified
  <2>3. QED  BY <2>1, <2>2 DEF NetStep
<1>2. AnswersEffective'
  <2>1. SUFFICES ASSUME NEW x \in Callers, answer'[x]
                 PROVE  call'[x] # None /\ Effective(call[x])'
    BY DEF AnswersEffective
  <2>2. call'[x] = call[x] /\ call[x] # None
    BY <2>1 DEF NetStep
  <2>3. CASE answer[x]
    <3>1. PICK r \in Requests : r = call[x]
      BY <2>2 DEF Invariant, TypeOK
    <3>2. Effective(r)
      BY <2>3, <3>1 DEF Invariant, AnswersEffective
    <3>3. Effective(r)'
      BY <3>2, EffectiveLasts
    <3>4. call'[x] = r
      BY <2>2, <3>1
    <3>5. QED  BY <2>2, <3>3, <3>4 DEF Effective, Gone
  <2>4. CASE ~answer[x]
    BY <2>1, <2>2, <2>4 DEF NetStep
  <2>5. QED  BY <2>3, <2>4
<1>3. QED  BY <1>1, <1>2

\* What anybody remembers as released is gone.
LEMMA NextReleases ==
    ASSUME Invariant, Grows, NodeMemory, OtherReleases PROVE ReleasesGone'
<1>1. \A h \in Hold : Gone(h) => Gone(h)'
  BY Lasting
<1>2. AllGone => AllGone'
  BY Lasting
<1>3. \A h \in journal.released \cup adapter.cleaned \cup object.released \cup cleanup.released : Gone(h)
  BY DEF Invariant, ReleasesGone
<1>4. /\ \A h \in journal'.released \cup adapter'.cleaned \cup object'.released : h \in Hold
      /\ \A h \in cleanup'.released : h \in Hold
  BY DEF Grows, NodeStep, OwnerStep, OtherReleases, Journals, Adapters, Outputs
<1>5. \A h \in journal'.released \cup adapter'.cleaned \cup object'.released
                \cup cleanup'.released : Gone(h)
  BY <1>3 DEF NodeMemory, OtherReleases
<1>6. \A h \in journal'.released \cup adapter'.cleaned \cup object'.released
                \cup cleanup'.released : Gone(h)'
  BY <1>1, <1>4, <1>5
<1>7. cleanup'.closed => AllGone'
  BY <1>2 DEF OtherReleases, Invariant, ReleasesGone
<1>8. QED  BY <1>6, <1>7 DEF ReleasesGone

\* The GCS's record follows the Node's and the children's.
LEMMA NextRecord == ASSUME Invariant, Grows PROVE GcsConsistent'
<1>1. /\ journal.complete => journal'.complete
      /\ journal.rollback => journal'.rollback
      /\ \A c \in C : child[c].promoted => child'[c].promoted
  BY DEF Grows, NodeStep, JournalGrows, ChildGrows
<1>2. AllGone \/ PlanDone => AllGone' \/ PlanDone'
  BY Lasting
<1>3. \A s : Issued(s) => Issued(s)'
  BY DEF Grows, GcsStep, Issued, Gcs!Has
<1>4. GcsStep /\ GcsConsistent
  BY DEF Grows, Invariant
<1>5. Issued("COMMITTED")' => Issued("TERMINAL")'
  BY <1>3, <1>4 DEF GcsStep, GcsConsistent
<1>6. Issued("TERMINAL")' => Issued("ARMED")' /\ journal'.complete
  BY <1>1, <1>3, <1>4 DEF GcsStep, GcsConsistent
<1>7. complete'[Pub] # None => journal'.complete
  BY <1>1, <1>4 DEF GcsStep, GcsConsistent
<1>8. Issued("ARMED")' => \A c \in C : child'[c].promoted
  BY <1>1, <1>4 DEF GcsStep, GcsConsistent
<1>9. closed'[Pub].rollback => journal'.rollback
  BY <1>1, <1>4 DEF GcsStep, GcsConsistent
<1>10. Issued("RETIRED")' => AllGone' \/ PlanDone'
  BY <1>2, <1>4 DEF GcsStep, GcsConsistent
<1>11. QED  BY <1>5, <1>6, <1>7, <1>8, <1>9, <1>10 DEF GcsConsistent

\* The invariant is inductive: every step keeps it.
LEMMA InvariantKept == Invariant /\ [Next]_vars => Invariant'
<1> SUFFICES ASSUME Invariant, [Next]_vars PROVE Invariant'
  OBVIOUS
<1>1. Grows
  BY NextGrows
<1>2. NetStep
  BY <1>1, NextNet
<1>3. NodeMemory /\ OtherReleases
  BY NextMemory
<1>4. TypeOK' /\ RecordsTyped' /\ CallsTyped'
  BY <1>1, <1>2, <1>3, NextTypes
<1>5. SentJustified' /\ AnswersEffective'
  BY <1>1, <1>2, NextCalls
<1>6. NodeConsistent' /\ OwnerConsistent'
  BY <1>1 DEF Grows, NodeStep, OwnerStep
<1>7. ReleasesGone'
  BY <1>1, <1>3, NextReleases
<1>8. GcsConsistent'
  BY <1>1, NextRecord
<1>9. ChildConsistent'
  BY <1>1, <1>3, StepAround, NextPins
<1>10. QED  BY <1>4, <1>5, <1>6, <1>7, <1>8, <1>9 DEF Invariant

\* What the initial record of the GCS says.
LEMMA InitRecord ==
    ASSUME Gcs!Init
    PROVE  Gcs!TypeOK /\ stages[Pub] = {} /\ complete[Pub] = None /\ ~closed[Pub].rollback
<1>1. closed[Pub] = Gcs!NotClosed /\ ~Gcs!NotClosed.rollback
  BY DEF Gcs!Init, Gcs!NotClosed
<1>2. closed \in [{Pub} -> Gcs!Settlement]
  <2>1. Gcs!NotClosed \in Gcs!Settlement
    BY DEF Gcs!NotClosed, Gcs!Settlement
  <2> HIDE DEF Gcs!Settlement, Gcs!NotClosed
  <2>2. QED  BY <2>1 DEF Gcs!Init
<1>3. QED  BY <1>1, <1>2 DEF Gcs!Init, Gcs!TypeOK

\* The initial records.
LEMMA InitRecords == Init => RecordsTyped /\ NodeConsistent /\ ChildConsistent
<1> SUFFICES ASSUME Init PROVE RecordsTyped /\ NodeConsistent /\ ChildConsistent
  OBVIOUS
<1>1. journal \in Journals /\ adapter \in Adapters /\ lease \in Leases
  BY DEF Init, Journals, Adapters, Leases
<1>2. handoff \in Handoffs /\ object \in Outputs
  BY DEF Init, Handoffs, Outputs
<1>3. cleanup \in [released : SUBSET Hold, closed : BOOLEAN]
  BY DEF Init
<1>4. NodeConsistent
  BY NoneIsNot DEF Init, NodeConsistent
<1>5. ChildConsistent
  BY DEF Init, ChildConsistent, PinsConsistent, Pin, Acked
<1>6. QED  BY <1>1, <1>2, <1>3, <1>4, <1>5 DEF RecordsTyped

\* The invariant holds initially.
LEMMA InvariantInit == Init => Invariant
<1> SUFFICES ASSUME Init PROVE Invariant
  OBVIOUS
<1>1. Gcs!TypeOK /\ stages[Pub] = {} /\ complete[Pub] = None /\ ~closed[Pub].rollback
  BY InitRecord DEF Init
<1>2. RecordsTyped /\ NodeConsistent /\ ChildConsistent
  BY InitRecords
<1>3. /\ call \in [Callers -> {None}] /\ answer \in [Callers -> {FALSE}] /\ late = {}
      /\ faults \in 0..MaxFaults /\ down = {} /\ dead = {} /\ told = {}
  BY OutputPublicationAssumption DEF Init
<1>4. child \in [C -> Pins]
  BY DEF Init, Pins
<1>5. TypeOK
  <2>1. cycle \in BOOLEAN /\ stored \in Tiers /\ replica \in {"absent", "claimed", "sealed", "dropped"}
    BY DEF Init
  <2>2. QED
    BY <1>1, <1>2, <1>3, <1>4, <2>1, FieldsTyped DEF TypeOK, RecordsTyped, Pins
<1>6. CallsTyped
  BY <1>3 DEF CallsTyped, Callers
<1>7. SentJustified
  BY <1>3, NoneIsNot DEF SentJustified, Sent
<1>8. AnswersEffective
  BY <1>3 DEF AnswersEffective
<1>9. ReleasesGone
  BY DEF Init, ReleasesGone
<1>10. OwnerConsistent
  BY NoneIsNot, NoneAssumption DEF Init, OwnerConsistent, Round
<1>11. GcsConsistent
  BY <1>1 DEF GcsConsistent, Issued, Gcs!Has
<1>12. QED
  BY <1>2, <1>5, <1>6, <1>7, <1>8, <1>9, <1>10, <1>11 DEF Invariant

\* The invariant holds in every state: what is under way is justified, what is
\* answered has its effect, and the records of the four parties agree.
THEOREM PublicationInvariant == Spec => []Invariant
<1>1. QED  BY InvariantInit, InvariantKept, PTL DEF Spec

\* The records of the publication, its requests and its faults keep their types.
THEOREM PublicationTypes == Spec => []TypeOK
<1>1. Invariant => TypeOK
  BY DEF Invariant
<1>2. QED  BY <1>1, PublicationInvariant, PTL

-----------------------------------------------------------------------------
(* What the invariant says *)

\* A committed publication keeps its children pinned for as long as it is not
\* given up.
LEMMA CommittedPinned ==
    ASSUME Invariant, Issued("COMMITTED"), ~Undone, NEW c \in C PROVE Pin(c, "final")
<1>1. child[c].promoted
  BY DEF Invariant, GcsConsistent
<1>2. PinsConsistent(c)
  BY DEF Invariant, ChildConsistent
<1>3. QED  BY <1>1, <1>2 DEF PinsConsistent, Pin

\* What a live owner shows READY is a committed publication whose children are
\* pinned (_drive_output_publication_adoption commits the graph before the
\* owner CAS; promote_stored_contained_reference exchanges the pin in one step).
THEOREM ReadyStaysBacked == Spec => []ReadyIsBacked
<1>1. Invariant => ReadyIsBacked
  <2>1. SUFFICES ASSUME Invariant, object.state = "READY", Up("owner")
                 PROVE  Issued("COMMITTED") /\ \A c \in C : Pin(c, "final")
    BY DEF ReadyIsBacked
  <2>2. Issued("COMMITTED") /\ journal.complete /\ object.choice # "discard"
    BY <2>1 DEF Invariant, OwnerConsistent
  <2>3. ~journal.rollback
    BY <2>1, <2>2 DEF Invariant, NodeConsistent
  <2>4. "owner" \notin dead
    BY <2>1 DEF Invariant, TypeOK, Up
  <2>5. ~Undone
    BY <2>2, <2>3, <2>4 DEF Undone
  <2>6. QED  BY <2>1, <2>2, <2>5, CommittedPinned
<1>2. QED  BY <1>1, PublicationInvariant, PTL

\* A child whose pins the rollback's plan has released holds none.
LEMMA PlanHoldsNothing ==
    ASSUME Invariant, PlanDone, Up("child"), NEW c \in C PROVE child[c].held = {}
<1>1. /\ PinsConsistent(c) /\ child \in [C -> Pins]
      /\ journal.plan = Planned(journal)
      /\ \A h \in journal.released : Gone(h)
  BY DEF Invariant, ChildConsistent, TypeOK, Pins, PlanDone, NodeConsistent, ReleasesGone
<1>2. SUFFICES ASSUME NEW kind \in child[c].held PROVE FALSE
  OBVIOUS
<1>3. kind \in {"provisional", "final"}
  BY <1>1 DEF Pins
<1>4. <<c, kind>> \in Planned(journal)
  <2>1. CASE kind = "provisional"
    BY <1>1, <1>2, <2>1 DEF PinsConsistent, Pin, Planned, Intended
  <2>2. CASE kind = "final"
    BY <1>1, <1>2, <2>2 DEF PinsConsistent, Pin, Planned, Intended
  <2>3. QED  BY <1>3, <2>1, <2>2
<1>5. Gone(<<c, kind>>)
  BY <1>1, <1>4 DEF PlanDone
<1>6. kind \in child[c].released
  BY <1>5 DEF Gone, Up
<1>7. QED  BY <1>1, <1>2, <1>6 DEF PinsConsistent

\* Once a publication's edges are retired, no pin of it is left at a live child
\* owner, and none comes back with a request that was sent before
\* (release_contained_reference leaves a tombstone; begin_rollback compensates
\* every effect that was intended).
THEOREM RetiredKeepsNothing == Spec => []RetiredHoldsNothing
<1>1. Invariant => RetiredHoldsNothing
  <2>1. SUFFICES ASSUME Invariant, Issued("RETIRED"), Up("child"), NEW c \in C
                 PROVE  child[c].held = {}
    BY DEF RetiredHoldsNothing
  <2>2. CASE PlanDone
    BY <2>1, <2>2, PlanHoldsNothing
  <2>3. CASE AllGone
    <3>1. ASSUME NEW kind \in {"provisional", "final"} PROVE kind \in child[c].released
      <4>1. <<c, kind>> \in Hold
        BY DEF Hold
      <4>2. Gone(<<c, kind>>)
        BY <2>3, <4>1 DEF AllGone
      <4>3. QED  BY <2>1, <4>2 DEF Gone, Up
    <3>2. PinsConsistent(c) /\ child[c].held \subseteq {"provisional", "final"}
      BY <2>1 DEF Invariant, ChildConsistent, TypeOK
    <3>3. QED  BY <3>1, <3>2 DEF PinsConsistent
  <2>4. QED  BY <2>1, <2>2, <2>3 DEF Invariant, GcsConsistent
<1>2. QED  BY <1>1, PublicationInvariant, PTL

\* A Complete and a rollback exclude each other at the Node, at the owner and at
\* the GCS (OutputPublicationJournal.complete and begin_rollback,
\* abort_owner_publication, closed_rollback_holds).
THEOREM OneOutcomeOnly == Spec => []OneOutcome
<1>1. Invariant => OneOutcome
  <2>1. SUFFICES ASSUME Invariant,
                        journal.rollback \/ handoff.reason = "rollback" \/ closed[Pub].rollback
                 PROVE  /\ ~journal.complete /\ complete[Pub] = None
                        /\ object.state = "PENDING" /\ ~handoff.complete
    BY DEF OneOutcome, Invariant
  <2>2. journal.rollback
    BY <2>1 DEF Invariant, OwnerConsistent, GcsConsistent
  <2>3. ~journal.complete
    BY <2>1, <2>2 DEF Invariant, NodeConsistent
  <2>4. QED  BY <2>1, <2>3 DEF Invariant, OwnerConsistent, GcsConsistent
<1>2. QED  BY <1>1, PublicationInvariant, PTL

=============================================================================

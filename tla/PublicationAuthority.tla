------------------------ MODULE PublicationAuthority ------------------------
(***************************************************************************)
(* The GCS publication authority of mini-ray (enhanced_publication.py,     *)
(* class PublicationAuthority): one record per publication, holding the    *)
(* receipts the authority has issued and the facts that came with them.    *)
(*                                                                         *)
(* A publication is one attempt to make an object's value visible.  Its    *)
(* manifest names the object, the owner that will account for it, the      *)
(* attempt that produced it and the objects its value contains.  The       *)
(* reducer linearizes every request under one lock, so each accepted       *)
(* request is one action here; a rejected request and the replay of an     *)
(* accepted one leave the record as it is and are stuttering steps.        *)
(*                                                                         *)
(* Receipts are numbered by a global counter in the code, but are only     *)
(* ever compared within one publication, where a stage is never withdrawn: *)
(* the set of issued stages carries the same information.                  *)
(***************************************************************************)
EXTENDS Naturals, ContainmentGraph

CONSTANTS
    Objects,        \* ObjectIDs
    Owners,         \* WorkerIDs that own objects
    Keys,           \* PublicationIDs (OutputPublicationID, PutPublicationID)
    Publications,   \* complete manifests with their owner route
    Key,            \* the key a manifest is filed under
    Object,         \* the object it publishes
    Owner,          \* the object's owner
    Route,          \* the owner address it names
    Attempt,        \* the attempt number of its key
    Kind,           \* "task" (TaskPublication) or "put" (PutPublication)
    Children,       \* the <<object, owner>> credentials of its transfers
    Completes,      \* Complete witnesses a Node may report
    None            \* absence of a fact

FenceProofs == {"OwnerAbort", "OwnerRetirement", "OwnerDeath"}

ASSUME PublicationsAssumption ==
    /\ Key \in [Publications -> Keys]
    /\ Object \in [Publications -> Objects]
    /\ Owner \in [Publications -> Owners]
    /\ Attempt \in [Publications -> Nat]
    /\ Kind \in [Publications -> {"task", "put"}]
    /\ Children \in [Publications -> SUBSET (Objects \X Owners)]
    /\ None \notin Completes \cup FenceProofs

Stages == {"INTENT", "PREPARED", "ARMED", "TERMINAL", "COMMITTED", "ADOPTED",
           "FENCED", "RETIRED"}

\* The two holds a transfer may leave on its child: while the value is being
\* prepared, and once the child has been promoted.
Holds(p) == Children[p] \X {"provisional", "final"}

\* ClosedContainedHolds: which holds are settled (released by the child owner,
\* or its owner is dead) and, for a Task rolled back before Complete, which
\* children it may have touched.
Settlement == [rollback : BOOLEAN,
               prepares : SUBSET (Objects \X Owners),
               promotes : SUBSET (Objects \X Owners),
               started  : BOOLEAN,
               settled  : SUBSET ((Objects \X Owners) \X {"provisional", "final"})]

ClosedHolds(p) ==
    {s \in [rollback : BOOLEAN, prepares : SUBSET Children[p],
            promotes : SUBSET Children[p], started : BOOLEAN,
            settled : SUBSET Holds(p)] :
        /\ s.promotes \subseteq s.prepares
        /\ ~s.rollback => s.promotes = Children[p] /\ s.started}

NotClosed == [rollback |-> FALSE, prepares |-> {}, promotes |-> {},
              started |-> FALSE, settled |-> {}]

VARIABLES
    stages,     \* receipts issued to each publication
    fence,      \* its first forward fence
    prepared,   \* children prepared and promoted, value materialized
    complete,   \* the Task's Complete witness
    adoption,   \* the Complete witness its owner adopted
    closed      \* the settlement of child holds given with its retirement

authorityVars == <<stages, fence, prepared, complete, adoption, closed>>

-----------------------------------------------------------------------------
Has(p, stage) == stage \in stages[p]

Registered(p) == stages[p] # {}

\* Mutant of ForwardOpen: only retirement stops progress.
ForwardOpenWhileFenced(p) == ~Has(p, "RETIRED")

ForwardOpen(p) == fence[p] = None /\ ~Has(p, "RETIRED")

GraphActive(p) == Has(p, "PREPARED") /\ ~Has(p, "RETIRED")

ActivePublications == {p \in Publications : GraphActive(p)}

\* The containment edges the values of the publications in P create.
Edges(P) == UNION {{Object[p]} \X {child[1] : child \in Children[p]} : p \in P}

\* Mutant of WouldCycle: the candidate's own edges are forgotten.
WouldCycleWithoutOwn(p) == ~Acyclic(Objects, Edges(ActivePublications))

\* The search for a cycle that the code makes here is module CycleSearch.
WouldCycle(p) == ~Acyclic(Objects, Edges(ActivePublications \cup {p}))

\* Object/owner credentials a manifest asserts.
Credentials(p) == Children[p] \cup {<<Object[p], Owner[p]>>}

\* Mutant of BindingOK: an epoch need not be retired, only older.
BindingUnretired(p, admitting) ==
    \A q \in {r \in Publications : Registered(r)} :
        admitting /\ Object[q] = Object[p] /\ Has(q, "INTENT") => Attempt[p] > Attempt[q]

\* Mutant of BindingOK: a retired epoch may be followed by an older one.
BindingUnordered(p, admitting) ==
    \A q \in {r \in Publications : Registered(r)} :
        admitting /\ Object[q] = Object[p] /\ Has(q, "INTENT") => Has(q, "RETIRED")

\* Registration of a publication the authority has no record of.  Only an
\* execution (admitting) has to wait for the object's earlier epochs: an exact
\* fence may be recorded beside a live successor.
BindingOK(p, admitting) ==
    LET known == {q \in Publications : Registered(q)} IN
    /\ \A q \in known :
          /\ Key[q] # Key[p]
          /\ Owner[q] = Owner[p] => Route[q] = Route[p]
          /\ Object[q] = Object[p] => Owner[q] = Owner[p]
          /\ admitting /\ Object[q] = Object[p] /\ Has(q, "INTENT") =>
                Has(q, "RETIRED") /\ Attempt[p] > Attempt[q]
    /\ \A q \in known \cup {p}, r \in known \cup {p} :
          \A c \in Credentials(q), d \in Credentials(r) : c[1] = d[1] => c = d

\* A receipt is issued once; the same request again returns the first receipt.
Accept(p, stage) ==
    /\ ~Has(p, stage)
    /\ stages' = [stages EXCEPT ![p] = @ \cup {stage}]

-----------------------------------------------------------------------------
Init ==
    /\ stages   = [p \in Publications |-> {}]
    /\ fence    = [p \in Publications |-> None]
    /\ prepared = [p \in Publications |-> FALSE]
    /\ complete = [p \in Publications |-> None]
    /\ adoption = [p \in Publications |-> None]
    /\ closed   = [p \in Publications |-> NotClosed]

\* BeginPublication: admit the epoch.
Begin(p) ==
    /\ ~Registered(p) => BindingOK(p, TRUE)
    /\ ForwardOpen(p)
    /\ Accept(p, "INTENT")
    /\ UNCHANGED <<fence, prepared, complete, adoption, closed>>

\* PrepareGraph: reserve the containment edges.
Prepare(p) ==
    /\ ForwardOpen(p)
    /\ Has(p, "INTENT")
    /\ ~WouldCycle(p)
    /\ Accept(p, "PREPARED")
    /\ UNCHANGED <<fence, prepared, complete, adoption, closed>>

\* ArmTask: the Node has the value and every child hold; Complete may follow.
Arm(p) ==
    /\ Kind[p] = "task"
    /\ ForwardOpen(p)
    /\ Has(p, "PREPARED")
    /\ Accept(p, "ARMED")
    /\ prepared' = [prepared EXCEPT ![p] = TRUE]
    /\ UNCHANGED <<fence, complete, adoption, closed>>

\* Mutant of RecordTerminal: a settled rollback is not looked at.
RecordTerminalAnyway(p, c) ==
    /\ Kind[p] = "task"
    /\ Has(p, "ARMED")
    /\ complete[p] \in {None, c}
    /\ Accept(p, "TERMINAL")
    /\ complete' = [complete EXCEPT ![p] = c]
    /\ UNCHANGED <<fence, prepared, adoption, closed>>

\* RecordTerminal: the Node completed the lease.  An accurate success is
\* recorded even behind a fence, but never after a rollback was settled.
RecordTerminal(p, c) ==
    /\ Kind[p] = "task"
    /\ Has(p, "ARMED")
    /\ complete[p] \in {None, c}
    /\ ~closed[p].rollback
    /\ Accept(p, "TERMINAL")
    /\ complete' = [complete EXCEPT ![p] = c]
    /\ UNCHANGED <<fence, prepared, adoption, closed>>

\* CommitGraph of a Task.
CommitTask(p) ==
    /\ Kind[p] = "task"
    /\ Has(p, "TERMINAL")
    /\ Has(p, "PREPARED")
    /\ ForwardOpen(p)
    /\ Accept(p, "COMMITTED")
    /\ UNCHANGED <<fence, prepared, complete, adoption, closed>>

\* CommitGraph of a put, which carries its preparation.
CommitPut(p) ==
    /\ Kind[p] = "put"
    /\ Has(p, "PREPARED")
    /\ ForwardOpen(p)
    /\ Accept(p, "COMMITTED")
    /\ prepared' = [prepared EXCEPT ![p] = TRUE]
    /\ UNCHANGED <<fence, complete, adoption, closed>>

\* Mutant of Adopt: the owner's abort is not looked at.
AdoptAborted(p, c) ==
    /\ Has(p, "COMMITTED")
    /\ complete[p] = c
    /\ Accept(p, "ADOPTED")
    /\ adoption' = [adoption EXCEPT ![p] = c]
    /\ UNCHANGED <<fence, prepared, complete, closed>>

\* RecordAdoption: the owner made the committed output READY.
Adopt(p, c) ==
    /\ Has(p, "COMMITTED")
    /\ complete[p] = c
    /\ adoption[p] \in {None, c}
    /\ fence[p] # "OwnerAbort"
    /\ Accept(p, "ADOPTED")
    /\ adoption' = [adoption EXCEPT ![p] = c]
    /\ UNCHANGED <<fence, prepared, complete, closed>>

\* FencePublication: the owner gave up, retired the value, or died.  A fence may
\* arrive before the publication it fences.
Fence(p, proof) ==
    /\ ~Registered(p) => BindingOK(p, FALSE)
    /\ fence[p] \in {None, proof}
    /\ proof = "OwnerAbort" => adoption[p] = None
    /\ Accept(p, "FENCED")
    /\ fence' = [fence EXCEPT ![p] = proof]
    /\ UNCHANGED <<prepared, complete, adoption, closed>>

\* The rules a settlement must meet (_validate_closed).
ScopeOK(p, s) ==
    s.rollback =>
        /\ Kind[p] = "task"
        /\ complete[p] = None
        /\ adoption[p] = None
        /\ prepared[p] => s.promotes = Children[p] /\ s.started

\* Holds that may exist at the child owners; a recorded promotion has already
\* consumed the provisional one.
PossibleHolds(p, s) ==
    (IF prepared[p] THEN {} ELSE s.prepares \X {"provisional"})
        \cup (s.promotes \X {"final"})

\* RetireGraph: drop the edges once no child hold can be left behind.
Retire(p, s) ==
    /\ fence[p] # None
    /\ ScopeOK(p, s)
    /\ PossibleHolds(p, s) \subseteq s.settled
    /\ Accept(p, "RETIRED")
    /\ closed' = [closed EXCEPT ![p] = s]
    /\ UNCHANGED <<fence, prepared, complete, adoption>>

Next ==
    \E p \in Publications :
        \/ Begin(p)
        \/ Prepare(p)
        \/ Arm(p)
        \/ \E c \in Completes : RecordTerminal(p, c)
        \/ CommitTask(p)
        \/ CommitPut(p)
        \/ \E c \in Completes : Adopt(p, c)
        \/ \E proof \in FenceProofs : Fence(p, proof)
        \/ \E s \in ClosedHolds(p) : Retire(p, s)

Spec == Init /\ [][Next]_authorityVars

-----------------------------------------------------------------------------
TypeOK ==
    /\ stages   \in [Publications -> SUBSET Stages]
    /\ fence    \in [Publications -> FenceProofs \cup {None}]
    /\ prepared \in [Publications -> BOOLEAN]
    /\ complete \in [Publications -> Completes \cup {None}]
    /\ adoption \in [Publications -> Completes \cup {None}]
    /\ closed   \in [Publications -> Settlement]

RecordValid(p) ==
    /\ (fence[p] # None) <=> Has(p, "FENCED")
    /\ (complete[p] # None) <=> Has(p, "TERMINAL")
    /\ (adoption[p] # None) <=> Has(p, "ADOPTED")
    /\ prepared[p] <=> Has(p, IF Kind[p] = "task" THEN "ARMED" ELSE "COMMITTED")
    /\ Has(p, "PREPARED") => Has(p, "INTENT")
    /\ Has(p, "ARMED") => Has(p, "PREPARED") /\ Kind[p] = "task"
    /\ Has(p, "TERMINAL") => Has(p, "ARMED")
    /\ Has(p, "COMMITTED") => Has(p, "PREPARED")
    /\ Has(p, "COMMITTED") /\ Kind[p] = "task" => Has(p, "TERMINAL")
    /\ Has(p, "ADOPTED") => Has(p, "COMMITTED") /\ adoption[p] = complete[p]
    /\ Has(p, "RETIRED") =>
          /\ Has(p, "FENCED")
          /\ ScopeOK(p, closed[p])
          /\ PossibleHolds(p, closed[p]) \subseteq closed[p].settled

\* Every record the authority builds passes the consistency check it runs on a
\* snapshot (_validate_snapshot), which would raise out of apply() after the
\* request had been accepted: each fact agrees with its receipt, each stage has
\* its prerequisites, and a settlement given at retirement still holds for the
\* facts that were recorded behind it.
SnapshotValid == \A p \in Publications : RecordValid(p)

\* The values that are reserved or visible never contain each other in a cycle,
\* so reference counting can reclaim all of them (PrepareGraph, _would_cycle).
ActiveGraphAcyclic == Acyclic(Objects, Edges(ActivePublications))

\* Two executions of the same object are different attempts, and the older one
\* was retired before the newer one began (_validate_binding): no two of them
\* reserve edges or commit at the same time.
EpochsSerialized ==
    \A p, q \in Publications :
        p # q /\ Object[p] = Object[q] /\ Has(p, "INTENT") /\ Has(q, "INTENT") =>
            \/ Attempt[p] < Attempt[q] /\ Has(p, "RETIRED")
            \/ Attempt[q] < Attempt[p] /\ Has(q, "RETIRED")

\* The owner's decision is one of adopting and aborting, whichever of the two
\* reports reaches the authority first (RecordAdoption, FencePublication).
AdoptedOrAborted ==
    \A p \in Publications : ~(adoption[p] # None /\ fence[p] = "OwnerAbort")

\* Once a later attempt of an object has begun, no request can admit an earlier
\* attempt, reserve its edges, arm it or commit it, even one that is in flight.
NoStaleProgress ==
    \A p, q \in Publications :
        Object[p] = Object[q] /\ Has(q, "INTENT") /\ Attempt[p] < Attempt[q] =>
            {"INTENT", "PREPARED", "ARMED", "COMMITTED"} \cap (stages'[p] \ stages[p]) = {}

StaleEpochStopped == [][NoStaleProgress]_authorityVars

-----------------------------------------------------------------------------
\* Seen from outside, a publication's receipts are an object's epochs.
Promise == INSTANCE ObjectEpochs WITH
    Epochs   <- Publications,
    opened   <- {p \in Publications : Has(p, "INTENT")},
    visible  <- {p \in Publications : Has(p, "COMMITTED")},
    revoked  <- {p \in Publications : fence[p] # None},
    finished <- {p \in Publications : Has(p, "RETIRED")}

\* The authority implements the serialization of object epochs.
ImplementsObjectEpochs == Promise!Spec
=============================================================================

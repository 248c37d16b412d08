--------------------- MODULE PublicationAuthorityProofs ---------------------
(***************************************************************************)
(* Safety of the publication authority for every set of objects, owners    *)
(* and publications, and its refinement of ObjectEpochs; and the answer of *)
(* its search for a cycle, PublicationAuthority._would_cycle, for every    *)
(* finite graph, every order in which vertices and children are visited,   *)
(* and every number of duplicate stack entries.                            *)
(***************************************************************************)
EXTENDS PublicationAuthority, CycleSearch, FiniteSetTheorems, SequenceTheorems, WellFoundedInduction,
        TLAPS

\* What accepting a receipt changes: one stage of one publication.
LEMMA AcceptFacts ==
    ASSUME TypeOK, NEW p \in Publications, NEW s \in Stages, Accept(p, s)
    PROVE  /\ stages' \in [Publications -> SUBSET Stages]
           /\ ~Has(p, s)
           /\ \A q \in Publications, t \in Stages :
                 Has(q, t)' <=> Has(q, t) \/ (q = p /\ t = s)
           /\ \A q \in Publications : q # p => stages'[q] = stages[q]
           /\ stages'[p] = stages[p] \cup {s}
  BY DEF TypeOK, Accept, Has

\* The stages that the actions name.
LEMMA StagesAre ==
    /\ "INTENT" \in Stages /\ "PREPARED" \in Stages /\ "ARMED" \in Stages
    /\ "TERMINAL" \in Stages /\ "COMMITTED" \in Stages /\ "ADOPTED" \in Stages
    /\ "FENCED" \in Stages /\ "RETIRED" \in Stages
  BY DEF Stages

\* The settlements a retirement may carry, and the absence of one, are settlements.
LEMMA SettlementType ==
    /\ NotClosed \in Settlement
    /\ \A p \in Publications : ClosedHolds(p) \subseteq Settlement
<1>1. NotClosed \in Settlement
  BY DEF NotClosed, Settlement
<1>2. ASSUME NEW p \in Publications, NEW s \in ClosedHolds(p) PROVE s \in Settlement
  <2>1. Children[p] \in SUBSET (Objects \X Owners)
    BY PublicationsAssumption
  <2>2. Holds(p) \subseteq ((Objects \X Owners) \X {"provisional", "final"})
    BY <2>1 DEF Holds
  <2>3. QED  BY <2>1, <2>2 DEF ClosedHolds, Settlement
<1>3. QED  BY <1>1, <1>2

\* The empty authority is well typed.
LEMMA InitType == Init => TypeOK
  BY SettlementType DEF Init, TypeOK

\* Each accepted request keeps the types.
LEMMA NextType == TypeOK /\ [Next]_authorityVars => TypeOK'
<1> SUFFICES ASSUME TypeOK, [Next]_authorityVars PROVE TypeOK'
  OBVIOUS
<1>1. ASSUME NEW p \in Publications, Begin(p) PROVE TypeOK'
  BY <1>1, AcceptFacts, StagesAre DEF Begin, TypeOK
<1>2. ASSUME NEW p \in Publications, Prepare(p) PROVE TypeOK'
  BY <1>2, AcceptFacts, StagesAre DEF Prepare, TypeOK
<1>3. ASSUME NEW p \in Publications, Arm(p) PROVE TypeOK'
  BY <1>3, AcceptFacts, StagesAre DEF Arm, TypeOK
<1>4. ASSUME NEW p \in Publications, NEW c \in Completes, RecordTerminal(p, c) PROVE TypeOK'
  BY <1>4, AcceptFacts, StagesAre DEF RecordTerminal, TypeOK
<1>5. ASSUME NEW p \in Publications, CommitTask(p) PROVE TypeOK'
  BY <1>5, AcceptFacts, StagesAre DEF CommitTask, TypeOK
<1>6. ASSUME NEW p \in Publications, CommitPut(p) PROVE TypeOK'
  BY <1>6, AcceptFacts, StagesAre DEF CommitPut, TypeOK
<1>7. ASSUME NEW p \in Publications, NEW c \in Completes, Adopt(p, c) PROVE TypeOK'
  BY <1>7, AcceptFacts, StagesAre DEF Adopt, TypeOK
<1>8. ASSUME NEW p \in Publications, NEW f \in FenceProofs, Fence(p, f) PROVE TypeOK'
  BY <1>8, AcceptFacts, StagesAre DEF Fence, TypeOK
<1>9. ASSUME NEW p \in Publications, NEW s \in ClosedHolds(p), Retire(p, s) PROVE TypeOK'
  <2>1. s \in Settlement
    BY SettlementType
  <2> HIDE DEF Settlement
  <2>2. QED  BY <1>9, <2>1, AcceptFacts, StagesAre DEF Retire, TypeOK
<1>10. CASE UNCHANGED authorityVars
  BY <1>10 DEF authorityVars, TypeOK
<1>11. QED
  BY <1>1, <1>2, <1>3, <1>4, <1>5, <1>6, <1>7, <1>8, <1>9, <1>10 DEF Next

\* The record of every publication keeps its types.
THEOREM TypeCorrect == Spec => []TypeOK
<1>1. QED  BY InitType, NextType, PTL DEF Spec

-----------------------------------------------------------------------------
\* A settlement is recorded only with retirement.
ClosedOnlyIfRetired == \A p \in Publications : ~Has(p, "RETIRED") => closed[p] = NotClosed

AuthorityInvariant ==
    /\ TypeOK
    /\ SnapshotValid
    /\ ClosedOnlyIfRetired
    /\ EpochsSerialized
    /\ ActiveGraphAcyclic
    /\ AdoptedOrAborted

\* The record of a publication that a step does not touch.
Untouched(q) ==
    /\ stages'[q] = stages[q]
    /\ fence'[q] = fence[q]
    /\ prepared'[q] = prepared[q]
    /\ complete'[q] = complete[q]
    /\ adoption'[q] = adoption[q]
    /\ closed'[q] = closed[q]

\* A record that no request touched is as consistent as it was.
LEMMA UntouchedValid ==
    ASSUME NEW q \in Publications, Untouched(q), RecordValid(q)
    PROVE  RecordValid(q)'
<1>1. ScopeOK(q, closed[q])' <=> ScopeOK(q, closed[q])
  BY DEF Untouched, ScopeOK
<1>2. PossibleHolds(q, closed[q])' = PossibleHolds(q, closed[q])
  BY DEF Untouched, PossibleHolds
<1>3. QED  BY <1>1, <1>2 DEF Untouched, RecordValid, Has

\* Any step is a step of one publication, or changes nothing.
ActionOf(p) ==
    \/ Begin(p) \/ Prepare(p) \/ Arm(p) \/ CommitTask(p) \/ CommitPut(p)
    \/ \E c \in Completes : RecordTerminal(p, c) \/ Adopt(p, c)
    \/ \E f \in FenceProofs : Fence(p, f)
    \/ \E s \in ClosedHolds(p) : Retire(p, s)

\* A step of the authority is a request about one publication.
LEMMA NextIsAction == Next => \E p \in Publications : ActionOf(p)
  BY DEF Next, ActionOf

\* Each action touches one record.
LEMMA OneRecord ==
    ASSUME TypeOK, NEW p \in Publications, NEW q \in Publications, q # p,
           ActionOf(p)
    PROVE  Untouched(q)
<1> USE DEF TypeOK, Untouched, Accept
<1>1. CASE Begin(p)       BY <1>1 DEF Begin
<1>2. CASE Prepare(p)     BY <1>2 DEF Prepare
<1>3. CASE Arm(p)         BY <1>3 DEF Arm
<1>4. CASE CommitTask(p)  BY <1>4 DEF CommitTask
<1>5. CASE CommitPut(p)   BY <1>5 DEF CommitPut
<1>6. CASE \E c \in Completes : RecordTerminal(p, c) \/ Adopt(p, c)
  <2>1. ASSUME NEW c \in Completes, RecordTerminal(p, c) PROVE Untouched(q)
    BY <2>1 DEF RecordTerminal
  <2>2. ASSUME NEW c \in Completes, Adopt(p, c) PROVE Untouched(q)
    BY <2>2 DEF Adopt
  <2>3. QED  BY <1>6, <2>1, <2>2
<1>7. CASE \E f \in FenceProofs : Fence(p, f)
  BY <1>7 DEF Fence
<1>8. CASE \E s \in ClosedHolds(p) : Retire(p, s)
  BY <1>8 DEF Retire
<1>9. QED  BY <1>1, <1>2, <1>3, <1>4, <1>5, <1>6, <1>7, <1>8 DEF ActionOf

\* An accepted receipt whose facts are not the subject of an earlier settlement.
LEMMA SettlementKept ==
    ASSUME NEW p \in Publications, UNCHANGED <<prepared[p], complete[p], adoption[p], closed[p]>>
    PROVE  /\ ScopeOK(p, closed[p])' <=> ScopeOK(p, closed[p])
           /\ PossibleHolds(p, closed[p])' = PossibleHolds(p, closed[p])
  BY DEF ScopeOK, PossibleHolds

\* No fact is the absence of a fact.
LEMMA NoneIsAbsent == None \notin Completes /\ None \notin FenceProofs
  BY PublicationsAssumption

\* Each accepted request leaves every record consistent.
LEMMA ValidStep ==
    ASSUME TypeOK, SnapshotValid, ClosedOnlyIfRetired, NEW p \in Publications,
           ActionOf(p)
    PROVE  RecordValid(p)'
<1>1. RecordValid(p)
  BY DEF SnapshotValid
<1> USE StagesAre, NoneIsAbsent
<1>2. CASE Begin(p)
  <2>1. stages'[p] = stages[p] \cup {"INTENT"} /\ UNCHANGED <<fence, prepared, complete, adoption, closed>>
    BY <1>2, AcceptFacts DEF Begin
  <2>2. QED  BY <1>1, <2>1, SettlementKept DEF RecordValid, Has
<1>3. CASE Prepare(p)
  <2>1. stages'[p] = stages[p] \cup {"PREPARED"} /\ UNCHANGED <<fence, prepared, complete, adoption, closed>>
        /\ Has(p, "INTENT")
    BY <1>3, AcceptFacts DEF Prepare
  <2>2. QED  BY <1>1, <2>1, SettlementKept DEF RecordValid, Has
<1>4. CASE Arm(p)
  <2>1. stages'[p] = stages[p] \cup {"ARMED"} /\ UNCHANGED <<fence, complete, adoption, closed>>
        /\ Has(p, "PREPARED") /\ Kind[p] = "task" /\ ~Has(p, "RETIRED")
    BY <1>4, AcceptFacts DEF Arm, ForwardOpen
  <2>2. prepared'[p] = TRUE
    BY <1>4 DEF Arm, TypeOK
  <2>3. QED  BY <1>1, <2>1, <2>2 DEF RecordValid, Has
<1>5. CASE CommitTask(p)
  <2>1. stages'[p] = stages[p] \cup {"COMMITTED"} /\ UNCHANGED <<fence, prepared, complete, adoption, closed>>
        /\ Has(p, "PREPARED") /\ Has(p, "TERMINAL") /\ Kind[p] = "task" /\ ~Has(p, "RETIRED")
    BY <1>5, AcceptFacts DEF CommitTask, ForwardOpen
  <2>2. QED  BY <1>1, <2>1 DEF RecordValid, Has
<1>6. CASE CommitPut(p)
  <2>1. stages'[p] = stages[p] \cup {"COMMITTED"} /\ UNCHANGED <<fence, complete, adoption, closed>>
        /\ Has(p, "PREPARED") /\ Kind[p] = "put" /\ ~Has(p, "RETIRED")
    BY <1>6, AcceptFacts DEF CommitPut, ForwardOpen
  <2>2. prepared'[p] = TRUE
    BY <1>6 DEF CommitPut, TypeOK
  <2>3. QED  BY <1>1, <2>1, <2>2 DEF RecordValid, Has
<1>7. ASSUME NEW c \in Completes, RecordTerminal(p, c) PROVE RecordValid(p)'
  <2>1. stages'[p] = stages[p] \cup {"TERMINAL"} /\ UNCHANGED <<fence, prepared, adoption, closed>>
        /\ Has(p, "ARMED") /\ Kind[p] = "task" /\ ~closed[p].rollback
    BY <1>7, AcceptFacts DEF RecordTerminal
  <2>2. complete'[p] = c /\ complete[p] \in {None, c}
    BY <1>7 DEF RecordTerminal, TypeOK
  <2>3. ScopeOK(p, closed[p])'
    BY <2>1 DEF ScopeOK
  <2>4. PossibleHolds(p, closed[p])' = PossibleHolds(p, closed[p])
    BY <2>1 DEF PossibleHolds
  <2>5. ~Has(p, "TERMINAL")
    BY <1>7, AcceptFacts DEF RecordTerminal
  <2>6. ~Has(p, "ADOPTED")
    BY <1>1, <2>1, <2>5 DEF RecordValid
  <2>7. QED  BY <1>1, <2>1, <2>2, <2>3, <2>4, <2>6 DEF RecordValid, Has
<1>8. ASSUME NEW c \in Completes, Adopt(p, c) PROVE RecordValid(p)'
  <2>1. stages'[p] = stages[p] \cup {"ADOPTED"} /\ UNCHANGED <<fence, prepared, complete, closed>>
        /\ Has(p, "COMMITTED") /\ complete[p] = c
    BY <1>8, AcceptFacts DEF Adopt
  <2>2. adoption'[p] = c
    BY <1>8 DEF Adopt, TypeOK
  <2>3. Has(p, "RETIRED") => ScopeOK(p, closed[p])'
    BY <1>1, <2>1 DEF RecordValid, ScopeOK
  <2>4. PossibleHolds(p, closed[p])' = PossibleHolds(p, closed[p])
    BY <2>1 DEF PossibleHolds
  <2>5. QED  BY <1>1, <2>1, <2>2, <2>3, <2>4 DEF RecordValid, Has
<1>9. ASSUME NEW f \in FenceProofs, Fence(p, f) PROVE RecordValid(p)'
  <2>1. stages'[p] = stages[p] \cup {"FENCED"} /\ UNCHANGED <<prepared, complete, adoption, closed>>
    BY <1>9, AcceptFacts DEF Fence
  <2>2. fence'[p] = f
    BY <1>9 DEF Fence, TypeOK
  <2>3. QED  BY <1>1, <2>1, <2>2, SettlementKept DEF RecordValid, Has
<1>10. ASSUME NEW s \in ClosedHolds(p), Retire(p, s) PROVE RecordValid(p)'
  <2>1. stages'[p] = stages[p] \cup {"RETIRED"} /\ UNCHANGED <<fence, prepared, complete, adoption>>
        /\ fence[p] # None /\ ScopeOK(p, s) /\ PossibleHolds(p, s) \subseteq s.settled
    BY <1>10, AcceptFacts DEF Retire
  <2>2. closed'[p] = s
    BY <1>10 DEF Retire, TypeOK
  <2>3. ScopeOK(p, closed[p])'
    BY <2>1, <2>2 DEF ScopeOK
  <2>4. PossibleHolds(p, closed[p])' = PossibleHolds(p, s)
    BY <2>1, <2>2 DEF PossibleHolds
  <2>5. QED  BY <1>1, <2>1, <2>2, <2>3, <2>4 DEF RecordValid, Has
<1>11. QED
  BY <1>2, <1>3, <1>4, <1>5, <1>6, <1>7, <1>8, <1>9, <1>10 DEF ActionOf

\* The empty authority satisfies the invariant.
LEMMA InitAuthority == Init => AuthorityInvariant
<1> SUFFICES ASSUME Init PROVE AuthorityInvariant
  OBVIOUS
<1>1. TypeOK
  BY InitType
<1>2. \A p \in Publications : stages[p] = {} /\ fence[p] = None /\ ~prepared[p]
         /\ complete[p] = None /\ adoption[p] = None /\ closed[p] = NotClosed
  BY DEF Init
<1>3. SnapshotValid
  BY <1>2 DEF SnapshotValid, RecordValid, Has
<1>4. ClosedOnlyIfRetired /\ EpochsSerialized /\ AdoptedOrAborted
  BY <1>2 DEF ClosedOnlyIfRetired, EpochsSerialized, AdoptedOrAborted, Has
<1>5. ActivePublications = {}
  BY <1>2 DEF ActivePublications, GraphActive, Has
<1>6. ActiveGraphAcyclic
  BY <1>5 DEF ActiveGraphAcyclic, Acyclic, Edges
<1>7. QED  BY <1>1, <1>3, <1>4, <1>6 DEF AuthorityInvariant

\* Only a retirement records a settlement.
LEMMA ClosedStep ==
    ASSUME TypeOK, ClosedOnlyIfRetired, NEW p \in Publications, ActionOf(p)
    PROVE  ClosedOnlyIfRetired'
<1>1. ASSUME NEW q \in Publications, ~Has(q, "RETIRED")' PROVE closed'[q] = NotClosed
  <2>1. CASE q # p
    BY <1>1, <2>1, OneRecord DEF Untouched, ClosedOnlyIfRetired, Has
  <2>2. CASE q = p
    <3>1. ASSUME NEW s \in ClosedHolds(p), Retire(p, s) PROVE FALSE
      BY <1>1, <2>2, <3>1, AcceptFacts, StagesAre DEF Retire
    <3>2. UNCHANGED closed /\ \E t \in Stages : Accept(p, t)
      BY <3>1, StagesAre DEF ActionOf, Begin, Prepare, Arm, CommitTask, CommitPut,
                             RecordTerminal, Adopt, Fence
    <3>3. ~Has(p, "RETIRED")
      BY <1>1, <2>2, <3>2, AcceptFacts, StagesAre
    <3>4. QED  BY <2>2, <3>2, <3>3 DEF ClosedOnlyIfRetired
  <2>3. QED  BY <2>1, <2>2
<1>2. QED  BY <1>1 DEF ClosedOnlyIfRetired

\* A publication that is known but has not begun is fenced.
LEMMA KnownNotBegun ==
    ASSUME SnapshotValid, TypeOK, NEW p \in Publications, Registered(p), ~Has(p, "INTENT")
    PROVE  fence[p] # None
<1>1. RecordValid(p)
  BY DEF SnapshotValid
<1>2. PICK s \in Stages : Has(p, s)
  BY DEF Registered, Has, TypeOK
<1>3. QED  BY <1>1, <1>2 DEF RecordValid, Stages

\* A begun publication was either begun before, or was admitted by this step
\* behind every earlier epoch of its object.
LEMMA BegunStep ==
    ASSUME TypeOK, SnapshotValid, NEW p \in Publications, ActionOf(p),
           NEW q \in Publications, Has(q, "INTENT")'
    PROVE  \/ Has(q, "INTENT")
           \/ q = p /\ Begin(p) /\ BindingOK(p, TRUE)
<1>1. CASE q # p
  BY <1>1, OneRecord DEF Untouched, Has
<1>2. CASE q = p
  <2>1. CASE Begin(p)
    <3>1. ~Has(p, "INTENT") /\ fence[p] = None
      BY <2>1, AcceptFacts, StagesAre DEF Begin, ForwardOpen
    <3>2. BindingOK(p, TRUE)
      BY <2>1, <3>1, KnownNotBegun DEF Begin
    <3>3. QED  BY <1>2, <2>1, <3>2
  <2>2. CASE ~Begin(p)
    <3>1. \E t \in Stages \ {"INTENT"} : Accept(p, t)
      BY <2>2 DEF ActionOf, Prepare, Arm, CommitTask, CommitPut, RecordTerminal, Adopt,
                  Fence, Retire, Stages
    <3>2. QED  BY <1>2, <3>1, AcceptFacts, StagesAre
  <2>3. QED  BY <2>1, <2>2
<1>3. QED  BY <1>1, <1>2

\* A receipt is never withdrawn.
LEMMA HasKept ==
    ASSUME TypeOK, NEW p \in Publications, ActionOf(p), NEW q \in Publications, NEW t \in Stages,
           Has(q, t)
    PROVE  Has(q, t)'
<1>1. \E s \in Stages : Accept(p, s)
  BY StagesAre DEF ActionOf, Begin, Prepare, Arm, CommitTask, CommitPut, RecordTerminal,
                   Adopt, Fence, Retire
<1>2. QED  BY <1>1, AcceptFacts

\* Each accepted request keeps the epochs of an object serialized.
LEMMA EpochsStep ==
    ASSUME TypeOK, SnapshotValid, EpochsSerialized, NEW p \in Publications, ActionOf(p)
    PROVE  EpochsSerialized'
<1>1. ASSUME NEW q \in Publications, NEW r \in Publications, q # r, Object[q] = Object[r],
             Has(q, "INTENT")', Has(r, "INTENT")'
      PROVE  \/ Attempt[q] < Attempt[r] /\ Has(q, "RETIRED")'
             \/ Attempt[r] < Attempt[q] /\ Has(r, "RETIRED")'
  <2>1. CASE Has(q, "INTENT") /\ Has(r, "INTENT")
    BY <1>1, <2>1, HasKept, StagesAre DEF EpochsSerialized
  <2>2. CASE ~Has(q, "INTENT")
    <3>1. q = p /\ BindingOK(p, TRUE)
      BY <1>1, <2>2, BegunStep
    <3>2. Has(r, "INTENT")
      BY <1>1, <3>1, BegunStep
    <3>3. Registered(r)
      BY <3>2 DEF Registered, Has
    <3>4. Has(r, "RETIRED") /\ Attempt[p] > Attempt[r]
      BY <1>1, <3>1, <3>2, <3>3 DEF BindingOK
    <3>5. QED
      BY <3>1, <3>4, HasKept, StagesAre, PublicationsAssumption
  <2>3. CASE ~Has(r, "INTENT")
    <3>1. r = p /\ BindingOK(p, TRUE)
      BY <1>1, <2>3, BegunStep
    <3>2. Has(q, "INTENT")
      BY <1>1, <3>1, BegunStep
    <3>3. Registered(q)
      BY <3>2 DEF Registered, Has
    <3>4. Has(q, "RETIRED") /\ Attempt[p] > Attempt[q]
      BY <1>1, <3>1, <3>2, <3>3 DEF BindingOK
    <3>5. QED
      BY <3>1, <3>4, HasKept, StagesAre, PublicationsAssumption
  <2>4. QED  BY <2>1, <2>2, <2>3
<1>2. QED  BY <1>1 DEF EpochsSerialized

\* Fewer edges have no more cycles.
LEMMA AcyclicSubset ==
    ASSUME NEW V, NEW E, NEW F, F \subseteq E, Acyclic(V, E)
    PROVE  Acyclic(V, F)
  BY DEF Acyclic

\* Each accepted request keeps the active containment graph free of cycles.
LEMMA AcyclicStep ==
    ASSUME TypeOK, ActiveGraphAcyclic, NEW p \in Publications, ActionOf(p)
    PROVE  ActiveGraphAcyclic'
<1>1. CASE Prepare(p)
  <2>1. ~WouldCycle(p)
    BY <1>1 DEF Prepare
  <2>2. ActivePublications' \subseteq ActivePublications \cup {p}
    BY OneRecord DEF ActivePublications, GraphActive, Untouched, Has
  <2>3. Edges(ActivePublications') \subseteq Edges(ActivePublications \cup {p})
    BY <2>2 DEF Edges
  <2>4. Acyclic(Objects, Edges(ActivePublications'))
    BY <2>1, <2>3, AcyclicSubset DEF WouldCycle
  <2>5. QED  BY <2>4 DEF ActiveGraphAcyclic, Edges
<1>2. CASE ~Prepare(p)
  <2>1. \E t \in Stages \ {"PREPARED"} : Accept(p, t)
    BY <1>2 DEF ActionOf, Begin, Arm, CommitTask, CommitPut, RecordTerminal, Adopt,
                Fence, Retire, Stages
  <2>2. \A q \in Publications : GraphActive(q)' => GraphActive(q)
    BY <2>1, AcceptFacts, StagesAre DEF GraphActive
  <2>3. ActivePublications' \subseteq ActivePublications
    BY <2>2 DEF ActivePublications
  <2>4. Edges(ActivePublications') \subseteq Edges(ActivePublications)
    BY <2>3 DEF Edges
  <2>5. Acyclic(Objects, Edges(ActivePublications'))
    BY <2>4, AcyclicSubset DEF ActiveGraphAcyclic
  <2>6. QED  BY <2>5 DEF ActiveGraphAcyclic, Edges
<1>3. QED  BY <1>1, <1>2

\* Each accepted request keeps adoption and abort exclusive.
LEMMA DecisionStep ==
    ASSUME TypeOK, AdoptedOrAborted, NEW p \in Publications, ActionOf(p)
    PROVE  AdoptedOrAborted'
<1>1. ASSUME NEW q \in Publications PROVE ~(adoption'[q] # None /\ fence'[q] = "OwnerAbort")
  <2>1. CASE q # p
    BY <2>1, OneRecord DEF Untouched, AdoptedOrAborted
  <2>2. CASE q = p
    <3>1. ASSUME NEW c \in Completes, Adopt(p, c) PROVE fence'[p] # "OwnerAbort"
      BY <3>1 DEF Adopt
    <3>2. ASSUME NEW f \in FenceProofs, Fence(p, f)
          PROVE  fence'[p] = f /\ UNCHANGED adoption /\ (f = "OwnerAbort" => adoption[p] = None)
      BY <3>2 DEF Fence, TypeOK
    <3>3. CASE ~(\E c \in Completes : Adopt(p, c)) /\ ~(\E f \in FenceProofs : Fence(p, f))
      <4>1. UNCHANGED <<adoption, fence>>
        BY <3>3 DEF ActionOf, Begin, Prepare, Arm, CommitTask, CommitPut, RecordTerminal, Retire
      <4>2. QED  BY <4>1, <2>2 DEF AdoptedOrAborted
    <3>4. QED  BY <2>2, <3>1, <3>2, <3>3
  <2>3. QED  BY <2>1, <2>2
<1>2. QED  BY <1>1 DEF AdoptedOrAborted

\* The authority's invariant is inductive.
LEMMA AuthorityStep == AuthorityInvariant /\ [Next]_authorityVars => AuthorityInvariant'
<1> SUFFICES ASSUME AuthorityInvariant, [Next]_authorityVars PROVE AuthorityInvariant'
  OBVIOUS
<1>1. TypeOK'
  BY NextType DEF AuthorityInvariant
<1>2. ASSUME NEW p \in Publications, ActionOf(p) PROVE AuthorityInvariant'
  <2>1. ASSUME NEW q \in Publications PROVE RecordValid(q)'
    <3>1. CASE q = p
      BY <1>2, <3>1, ValidStep DEF AuthorityInvariant
    <3>2. CASE q # p
      <4>1. Untouched(q)
        BY <1>2, <3>2, OneRecord DEF AuthorityInvariant
      <4>2. SnapshotValid
        BY DEF AuthorityInvariant
      <4>3. RecordValid(q)
        BY <4>2 DEF SnapshotValid
      <4>4. QED  BY <4>1, <4>3, UntouchedValid
    <3>3. QED  BY <3>1, <3>2
  <2>2. SnapshotValid'
    BY <2>1 DEF SnapshotValid
  <2>3. ClosedOnlyIfRetired' /\ EpochsSerialized' /\ ActiveGraphAcyclic' /\ AdoptedOrAborted'
    BY <1>2, ClosedStep, EpochsStep, AcyclicStep, DecisionStep DEF AuthorityInvariant
  <2>4. QED  BY <1>1, <2>2, <2>3 DEF AuthorityInvariant
<1>3. CASE UNCHANGED authorityVars
  <2>1. \A q \in Publications : Untouched(q)
    BY <1>3 DEF authorityVars, Untouched
  <2>2. SnapshotValid'
    BY <2>1, UntouchedValid DEF AuthorityInvariant, SnapshotValid
  <2>3. ClosedOnlyIfRetired' /\ EpochsSerialized' /\ AdoptedOrAborted'
    BY <1>3 DEF AuthorityInvariant, authorityVars, ClosedOnlyIfRetired, EpochsSerialized,
                AdoptedOrAborted, Has
  <2>4. ActivePublications' = ActivePublications
    BY <1>3 DEF authorityVars, ActivePublications, GraphActive, Has
  <2>5. ActiveGraphAcyclic'
    BY <2>4 DEF AuthorityInvariant, ActiveGraphAcyclic, Edges
  <2>6. QED  BY <1>1, <2>2, <2>3, <2>5 DEF AuthorityInvariant
<1>4. QED  BY <1>2, <1>3, NextIsAction

\* The inductive invariant that every result below is read from.
THEOREM InvariantHolds == Spec => []AuthorityInvariant
  BY InitAuthority, AuthorityStep, PTL DEF Spec

-----------------------------------------------------------------------------
\* No accepted request, in any order, leaves a record that the authority's own
\* consistency check (_validate_snapshot) would reject.
THEOREM SnapshotsAlwaysValid == Spec => []SnapshotValid
<1>1. AuthorityInvariant => SnapshotValid
  BY DEF AuthorityInvariant
<1>2. QED  BY <1>1, InvariantHolds, PTL

\* Whatever is prepared, committed and retired concurrently, the values that
\* are live never contain each other in a cycle.
THEOREM GraphAlwaysAcyclic == Spec => []ActiveGraphAcyclic
<1>1. AuthorityInvariant => ActiveGraphAcyclic
  BY DEF AuthorityInvariant
<1>2. QED  BY <1>1, InvariantHolds, PTL

\* The executions of an object are admitted one after the other, in attempt
\* order, the earlier one retired first.
THEOREM EpochsAlwaysSerialized == Spec => []EpochsSerialized
<1>1. AuthorityInvariant => EpochsSerialized
  BY DEF AuthorityInvariant
<1>2. QED  BY <1>1, InvariantHolds, PTL

\* The owner's adoption of an output and its abort exclude each other.
THEOREM AdoptionExcludesAbort == Spec => []AdoptedOrAborted
<1>1. AuthorityInvariant => AdoptedOrAborted
  BY DEF AuthorityInvariant
<1>2. QED  BY <1>1, InvariantHolds, PTL

\* Requests of an earlier attempt, however late, are refused once a later
\* attempt has begun.
THEOREM StaleEpochAlwaysStopped == Spec => StaleEpochStopped
<1>1. ASSUME AuthorityInvariant, [Next]_authorityVars, NEW p \in Publications, NEW q \in Publications
      PROVE  Object[p] = Object[q] /\ Has(q, "INTENT") /\ Attempt[p] < Attempt[q] =>
                 {"INTENT", "PREPARED", "ARMED", "COMMITTED"} \cap (stages'[p] \ stages[p]) = {}
  <2> SUFFICES ASSUME Object[p] = Object[q], Has(q, "INTENT"), Attempt[p] < Attempt[q],
                      NEW t \in {"INTENT", "PREPARED", "ARMED", "COMMITTED"},
                      t \in stages'[p], t \notin stages[p]
               PROVE  FALSE
    OBVIOUS
  <2>1. TypeOK /\ SnapshotValid /\ EpochsSerialized
    BY <1>1 DEF AuthorityInvariant
  <2>2. PICK r \in Publications : ActionOf(r)
    BY <1>1, NextIsAction DEF authorityVars
  <2>3. r = p
    BY <2>1, <2>2, OneRecord DEF Untouched
  <2>4. p # q /\ ~(Attempt[q] < Attempt[p])
    BY PublicationsAssumption
  <2>5. CASE Begin(p)
    <3>1. t = "INTENT"
      BY <2>1, <2>5, AcceptFacts, StagesAre DEF Begin, Has
    <3>2. BindingOK(p, TRUE)
      BY <2>1, <2>2, <2>3, <3>1, BegunStep DEF Has
    <3>3. Attempt[p] > Attempt[q]
      BY <3>2 DEF BindingOK, Registered, Has
    <3>4. QED  BY <3>3, PublicationsAssumption
  <2>6. CASE ~Begin(p)
    <3>1. PICK u \in Stages : Accept(p, u) /\ (u \in {"PREPARED", "ARMED", "COMMITTED"} => ForwardOpen(p))
                              /\ u # "INTENT"
      BY <2>2, <2>3, <2>6 DEF ActionOf, Prepare, Arm, CommitTask, CommitPut, RecordTerminal, Adopt,
                          Fence, Retire, Stages
    <3>2. t = u
      BY <2>1, <3>1, AcceptFacts
    <3>3. ForwardOpen(p) /\ t # "INTENT"
      BY <3>1, <3>2
    <3>4. Has(p, "INTENT")
      <4>1. Has(p, "PREPARED") \/ Prepare(p)
        BY <2>2, <2>3, <2>6, <3>3, <3>2, <3>1, <2>1, AcceptFacts, StagesAre
           DEF ActionOf, Arm, CommitTask, CommitPut, RecordTerminal, Adopt, Fence, Retire, Has
      <4>2. RecordValid(p)
        BY <2>1 DEF SnapshotValid
      <4>3. QED  BY <4>1, <4>2 DEF Prepare, RecordValid
    <3>5. Has(p, "RETIRED")
      BY <2>1, <2>4, <3>4 DEF EpochsSerialized
    <3>6. QED  BY <3>3, <3>5 DEF ForwardOpen
  <2>7. QED  BY <2>5, <2>6
<1>2. AuthorityInvariant /\ [Next]_authorityVars =>
        [NoStaleProgress]_authorityVars
  BY <1>1 DEF NoStaleProgress
<1>3. QED  BY <1>2, InvariantHolds, PTL DEF Spec, StaleEpochStopped

-----------------------------------------------------------------------------
\* The steps of the abstract epochs that an action of the authority stands for.
LEMMA PromiseStep ==
    ASSUME AuthorityInvariant, NEW p \in Publications, ActionOf(p)
    PROVE  [Promise!Next]_(Promise!epochVars)
<1> DEFINE opened   == {q \in Publications : Has(q, "INTENT")}
           visible  == {q \in Publications : Has(q, "COMMITTED")}
           revoked  == {q \in Publications : fence[q] # None}
           finished == {q \in Publications : Has(q, "RETIRED")}
<1>1. TypeOK /\ SnapshotValid /\ RecordValid(p)
  BY DEF AuthorityInvariant, SnapshotValid
<1>2. ASSUME NEW t \in Stages, Accept(p, t)
      PROVE  /\ t = "INTENT" => opened' = opened \cup {p} /\ p \notin opened
             /\ t # "INTENT" => opened' = opened
             /\ t = "COMMITTED" => visible' = visible \cup {p} /\ p \notin visible
             /\ t # "COMMITTED" => visible' = visible
             /\ t = "RETIRED" => finished' = finished \cup {p} /\ p \notin finished
             /\ t # "RETIRED" => finished' = finished
  BY <1>1, <1>2, AcceptFacts, StagesAre
<1>3. UNCHANGED fence => revoked' = revoked
  OBVIOUS
<1>4. CASE Begin(p)
  <2>1. Accept(p, "INTENT") /\ UNCHANGED fence /\ fence[p] = None
    BY <1>4 DEF Begin, ForwardOpen
  <2>2. BindingOK(p, TRUE)
    BY <1>1, <1>4, <2>1, KnownNotBegun DEF Begin, Accept
  <2>3. \A d \in opened : Object[d] = Object[p] => d \in finished /\ Attempt[d] < Attempt[p]
    BY <2>2, PublicationsAssumption DEF BindingOK, Registered, Has
  <2>4. Promise!Open(p)
    BY <1>2, <1>3, <2>1, <2>3, StagesAre DEF Promise!Open
  <2>5. QED  BY <2>4 DEF Promise!Next
<1>5. CASE CommitTask(p) \/ CommitPut(p)
  <2>1. Accept(p, "COMMITTED") /\ UNCHANGED fence /\ fence[p] = None /\ Has(p, "PREPARED")
    BY <1>5 DEF CommitTask, CommitPut, ForwardOpen
  <2>2. Has(p, "INTENT")
    BY <1>1, <2>1 DEF RecordValid
  <2>3. Promise!MakeVisible(p)
    BY <1>2, <1>3, <2>1, <2>2, StagesAre DEF Promise!MakeVisible
  <2>4. QED  BY <2>3 DEF Promise!Next
<1>6. ASSUME NEW f \in FenceProofs, Fence(p, f) PROVE Promise!Next
  <2>1. Accept(p, "FENCED") /\ fence' = [fence EXCEPT ![p] = f] /\ f # None
    BY <1>6, NoneIsAbsent DEF Fence
  <2>2. fence[p] = None
    BY <1>1, <2>1 DEF RecordValid, Accept
  <2>3. revoked' = revoked \cup {p} /\ p \notin revoked
    BY <1>1, <2>1, <2>2 DEF TypeOK
  <2>4. Promise!Revoke(p)
    BY <1>2, <2>1, <2>3, StagesAre DEF Promise!Revoke
  <2>5. QED  BY <2>4 DEF Promise!Next
<1>7. ASSUME NEW s \in ClosedHolds(p), Retire(p, s) PROVE Promise!Next
  <2>1. Accept(p, "RETIRED") /\ UNCHANGED fence /\ fence[p] # None
    BY <1>7 DEF Retire
  <2>2. Promise!Finish(p)
    BY <1>2, <1>3, <2>1, StagesAre DEF Promise!Finish
  <2>3. QED  BY <2>2 DEF Promise!Next
<1>8. CASE Prepare(p) \/ Arm(p) \/ \E c \in Completes : RecordTerminal(p, c) \/ Adopt(p, c)
  <2>1. UNCHANGED fence /\ \E t \in {"PREPARED", "ARMED", "TERMINAL", "ADOPTED"} : Accept(p, t)
    BY <1>8 DEF Prepare, Arm, RecordTerminal, Adopt
  <2>2. UNCHANGED <<opened, visible, revoked, finished>>
    BY <1>2, <1>3, <2>1, StagesAre
  <2>3. QED  BY <2>2 DEF Promise!epochVars
<1>9. QED  BY <1>4, <1>5, <1>6, <1>7, <1>8 DEF ActionOf

\* The authority, its receipts hidden, is the serialization of object epochs
\* that the rest of the system relies on.
THEOREM Refinement == Spec => ImplementsObjectEpochs
<1>1. Init => Promise!Init
  <2>1. Init => \A p \in Publications : stages[p] = {} /\ fence[p] = None
    BY DEF Init
  <2>2. QED  BY <2>1 DEF Promise!Init, Has
<1>2. AuthorityInvariant /\ [Next]_authorityVars => [Promise!Next]_(Promise!epochVars)
  <2> SUFFICES ASSUME AuthorityInvariant, [Next]_authorityVars
               PROVE  [Promise!Next]_(Promise!epochVars)
    OBVIOUS
  <2>1. CASE UNCHANGED authorityVars
    BY <2>1 DEF authorityVars, Promise!epochVars, Has
  <2>2. ASSUME NEW p \in Publications, ActionOf(p) PROVE [Promise!Next]_(Promise!epochVars)
    BY <2>2, PromiseStep
  <2>3. QED  BY <2>1, <2>2, NextIsAction
<1>3. QED  BY <1>1, <1>2, InvariantHolds, PTL DEF Spec, ImplementsObjectEpochs, Promise!Spec
-----------------------------------------------------------------------------
(* The search for a cycle in the graph of contained references *)

\* Every non-empty set of naturals has a least member.
LEMMA LeastNatural ==
    ASSUME NEW T \in SUBSET Nat, T # {}
    PROVE  \E m \in T : \A k \in T : m <= k
<1> DEFINE Less == {p \in Nat \X Nat : p[1] < p[2]}
<1>1. OpToRel(<, Nat) = Less
  BY DEF OpToRel
<1>2. IsWellFoundedOn(Less, Nat)
  BY <1>1, NatLessThanWellFounded
<1>3. \A x, y \in Nat : <<y, x>> \in Less <=> y < x
  OBVIOUS
<1> HIDE DEF Less
<1>4. PICK m \in T : \A k \in T : ~(<<k, m>> \in Less)
  BY <1>2, WFMin
<1>5. ASSUME NEW k \in T PROVE m <= k
  <2>1. m \in Nat /\ k \in Nat
    OBVIOUS
  <2>2. ~(k < m)
    BY <2>1, <1>3, <1>4
  <2>3. QED  BY <2>1, <2>2
<1>6. QED  BY <1>5

\* Intervals of naturals from 1 are equal only if their ends are.
LEMMA SameInterval ==
    ASSUME NEW a \in Nat, NEW b \in Nat, 1 .. a = 1 .. b
    PROVE  a = b
<1>1. ~(a < b)
  <2>1. a < b => b \in 1 .. b /\ b \notin 1 .. a
    OBVIOUS
  <2>2. QED  BY <2>1
<1>2. ~(b < a)
  <2>1. b < a => a \in 1 .. a /\ a \notin 1 .. b
    OBVIOUS
  <2>2. QED  BY <2>1
<1>3. QED  BY <1>1, <1>2

\* Popping the stack drops its last entry and nothing else.
LEMMA PopFacts ==
    ASSUME stack \in Seq(Entries), stack # <<>>
    PROVE  /\ Len(stack) \in Nat \ {0}
           /\ Top \in Entries
           /\ Pop \in Seq(Entries)
           /\ Len(Pop) = Len(stack) - 1
           /\ \A i \in 1 .. Len(stack) - 1 : Pop[i] = stack[i]
<1>1. Len(stack) \in Nat \ {0}
  BY EmptySeq
<1>2. \A i \in 1 .. Len(stack) : stack[i] \in Entries
  BY ElementOfSeq
<1>3. Len(stack) - 1 \in Int /\ 1 \in Int
  BY <1>1
<1>4. \A i \in 1 .. Len(stack) - 1 : stack[i] \in Entries
  BY <1>1, <1>2
<1>5. /\ Pop \in Seq(Entries)
      /\ Len(Pop) = IF 1 <= Len(stack) - 1 THEN Len(stack) - 1 - 1 + 1 ELSE 0
      /\ \A i \in 1 .. Len(stack) - 1 - 1 + 1 : Pop[i] = stack[1 + i - 1]
  <2> HIDE DEF Entries
  <2>1. QED  BY <1>3, <1>4, SubSeqProperties DEF Pop
<1>6. Top \in Entries
  BY <1>1, <1>2 DEF Top
<1>7. \A i \in 1 .. Len(stack) - 1 : Pop[i] = stack[i]
  BY <1>1, <1>5
<1>8. Len(Pop) = Len(stack) - 1
  <2>1. Len(Pop) = IF 1 <= Len(stack) - 1 THEN Len(stack) - 1 - 1 + 1 ELSE 0
    BY <1>5
  <2>2. \A n \in Nat \ {0} : (IF 1 <= n - 1 THEN n - 1 - 1 + 1 ELSE 0) = n - 1
    OBVIOUS
  <2>3. QED  BY <2>1, <2>2, <1>1
<1>9. QED  BY <1>1, <1>5, <1>6, <1>7, <1>8

\* Entering a vertex turns its entry into a path entry and puts one entry for
\* each child above it.
LEMMA EnterFacts ==
    ASSUME stack \in Seq(Entries), stack # <<>>, edges \in SUBSET (Vertices \X Vertices),
           NEW order \in Orders(Successors(edges, Top[1])),
           NEW new, new = Expanded(order)
    PROVE  /\ new \in Seq(Entries)
           /\ Len(new) \in Nat
           /\ Len(stack) <= Len(new)
           /\ \A i \in 1 .. Len(stack) - 1 : new[i] = stack[i]
           /\ new[Len(stack)] = <<Top[1], "leave">>
           /\ \A i \in Len(stack) + 1 .. Len(new) :
                 /\ new[i][2] = "enter"
                 /\ <<Top[1], new[i][1]>> \in edges
           /\ \A w \in Vertices : <<Top[1], w>> \in edges =>
                 \E i \in Len(stack) + 1 .. Len(new) : new[i][1] = w
<1> DEFINE kids == Successors(edges, Top[1])
           n    == Cardinality(kids)
           L    == Len(stack)
           path == Append(Pop, <<Top[1], "leave">>)
           tail == Entering(order)
<1>1. \A w \in Vertices : w \in kids <=> <<Top[1], w>> \in edges
  <2>1. \A d \in edges : d = <<d[1], d[2]>>
    OBVIOUS
  <2>2. QED  BY <2>1 DEF Successors
<1>2. kids \in SUBSET Vertices
  BY DEF Successors
<1>3. IsFiniteSet(kids) /\ n \in Nat
  <2> HIDE DEF kids
  <2>1. IsFiniteSet(kids)
    BY <1>2, VerticesAssumption, FS_Subset
  <2>2. QED  BY <2>1, FS_CardinalityType
<1>4. /\ order \in [1 .. n -> kids]
      /\ \A v \in kids : \E i \in 1 .. n : order[i] = v
  <2>1. DOMAIN order = 1 .. n
    BY DEF Orders
  <2>2. QED  BY <2>1 DEF Orders
<1>5. L \in Nat \ {0} /\ Top \in Entries /\ Pop \in Seq(Entries) /\ Len(Pop) = L - 1
      /\ \A i \in 1 .. L - 1 : Pop[i] = stack[i]
  BY PopFacts
<1>6. <<Top[1], "leave">> \in Entries
  BY <1>5 DEF Entries
<1> HIDE DEF kids, n
<1>7. tail \in [1 .. n -> Entries] /\ \A i \in 1 .. n : tail[i] = <<order[i], "enter">>
  BY <1>2, <1>4 DEF Entering, Entries
<1>8. tail \in Seq(Entries)
  <2> HIDE DEF tail, Entries
  <2>1. QED  BY <1>3, <1>7, SeqDef
<1>9. Len(tail) = n
  <2> HIDE DEF tail, Entries
  <2>1. Len(tail) \in Nat /\ DOMAIN tail = 1 .. Len(tail)
    BY <1>8, LenProperties
  <2>2. DOMAIN tail = 1 .. n
    BY <1>7
  <2>3. QED  BY <2>1, <2>2, <1>3, SameInterval
<1>10. /\ path \in Seq(Entries)
       /\ Len(path) = Len(Pop) + 1
       /\ \A i \in 1 .. Len(Pop) : path[i] = Pop[i]
       /\ path[Len(Pop) + 1] = <<Top[1], "leave">>
  <2> HIDE DEF Entries
  <2>1. ASSUME NEW e \in Entries
        PROVE  /\ Append(Pop, e) \in Seq(Entries)
               /\ Len(Append(Pop, e)) = Len(Pop) + 1
               /\ \A i \in 1 .. Len(Pop) : Append(Pop, e)[i] = Pop[i]
               /\ Append(Pop, e)[Len(Pop) + 1] = e
    BY <1>5, AppendProperties
  <2>2. QED  BY <2>1, <1>6
<1>11. Len(path) = L /\ path[L] = <<Top[1], "leave">> /\ \A i \in 1 .. L - 1 : path[i] = stack[i]
  <2> HIDE DEF path
  <2>1. Len(Pop) + 1 = L
    BY <1>5
  <2>2. QED  BY <2>1, <1>5, <1>10
<1> HIDE DEF path, tail, Entries
<1>12. /\ path \o tail \in Seq(Entries)
       /\ Len(path \o tail) = Len(path) + Len(tail)
       /\ \A i \in 1 .. Len(path) + Len(tail) : (path \o tail)[i] =
             IF i <= Len(path) THEN path[i] ELSE tail[i - Len(path)]
  BY <1>8, <1>10, ConcatProperties
<1>13. new = path \o tail
  BY DEF path, tail, Expanded
<1>14. /\ new \in Seq(Entries)
       /\ Len(new) = L + n
       /\ \A i \in 1 .. L + n : new[i] = IF i <= L THEN path[i] ELSE tail[i - L]
  BY <1>9, <1>11, <1>12, <1>13
<1>15. ASSUME NEW i \in 1 .. L PROVE new[i] = path[i]
  <2>1. i \in 1 .. L + n /\ i <= L
    BY <1>3, <1>5
  <2>2. QED  BY <2>1, <1>14
<1>16. new[L] = <<Top[1], "leave">> /\ \A i \in 1 .. L - 1 : new[i] = stack[i]
  BY <1>5, <1>11, <1>15
<1>17. ASSUME NEW i \in L + 1 .. Len(new)
       PROVE  new[i][2] = "enter" /\ <<Top[1], new[i][1]>> \in edges
  <2>1. i - L \in 1 .. n /\ i \in 1 .. L + n /\ ~(i <= L)
    BY <1>3, <1>5, <1>14
  <2>2. new[i] = <<order[i - L], "enter">>
    BY <2>1, <1>7, <1>14
  <2>3. order[i - L] \in kids /\ order[i - L] \in Vertices
    BY <2>1, <1>2, <1>4
  <2>4. QED  BY <2>2, <2>3, <1>1
<1>18. ASSUME NEW w \in Vertices, <<Top[1], w>> \in edges
       PROVE  \E i \in L + 1 .. Len(new) : new[i][1] = w
  <2>1. PICK j \in 1 .. n : order[j] = w
    BY <1>1, <1>4, <1>18
  <2>2. j + L \in L + 1 .. Len(new) /\ j + L \in 1 .. L + n /\ ~(j + L <= L) /\ (j + L) - L = j
    BY <1>3, <1>5, <1>14
  <2>3. new[j + L] = <<order[j], "enter">>
    BY <2>2, <1>7, <1>14
  <2>4. new[j + L] = <<w, "enter">>
    BY <2>1, <2>3
  <2>5. <<w, "enter">>[1] = w
    OBVIOUS
  <2>6. new[j + L][1] = w
    BY <2>4, <2>5
  <2>7. QED  BY <2>2, <2>6
<1>19. Len(new) \in Nat /\ L <= Len(new)
  BY <1>3, <1>5, <1>14
<1>20. QED
  BY <1>14, <1>16, <1>17, <1>18, <1>19

-----------------------------------------------------------------------------
\* A vertex whose children are all in an acyclic, closed set extends it.
LEMMA AcyclicAdd ==
    ASSUME NEW V, NEW E, NEW t, t \notin V, Acyclic(V, E),
           \A v \in V \cup {t} : \A w \in V \cup {t} : <<v, w>> \in E => w \in V
    PROVE  Acyclic(V \cup {t}, E)
<1> SUFFICES ASSUME NEW S \in SUBSET (V \cup {t}), S # {}
             PROVE  \E v \in S : \A w \in S : <<v, w>> \notin E
  BY DEF Acyclic
<1>1. CASE S \ {t} = {}
  <2>1. S = {t}
    BY <1>1
  <2>2. QED  BY <2>1
<1>2. CASE S \ {t} # {}
  <2>1. PICK v \in S \ {t} : \A w \in S \ {t} : <<v, w>> \notin E
    BY <1>2 DEF Acyclic
  <2>2. <<v, t>> \notin E
    OBVIOUS
  <2>3. QED  BY <2>1, <2>2
<1>3. QED  BY <1>1, <1>2

\* Before the first vertex is visited nothing is on the path or done.
LEMMA InitSearch == SearchInit => SearchInvariant
<1> SUFFICES ASSUME SearchInit PROVE SearchInvariant
  OBVIOUS
<1> USE DEF SearchInit
<1>1. SearchTypeOK
  BY EmptySeq DEF SearchTypeOK
<1>2. Len(stack) = 0 /\ 1 .. 0 = {}
  OBVIOUS
<1>3. PathOnStack /\ ChildOfPath /\ ChildrenPending /\ RootsCovered /\ DoneClosed
  BY <1>2 DEF PathOnStack, ChildOfPath, ChildrenPending, RootsCovered, DoneClosed
<1>4. Acyclic(done, edges)
  BY DEF Acyclic
<1>5. QED  BY <1>1, <1>3, <1>4 DEF SearchInvariant, Correct

\* The last path entry is left: its children were all searched, so it is done.
LEMMA LeaveSearch ==
    ASSUME SearchInvariant, result = "searching", stack # <<>>, Leave
    PROVE  SearchInvariant'
<1> DEFINE L == Len(stack)
           t == Top[1]
<1>1. /\ L \in Nat \ {0} /\ Top \in Entries /\ Pop \in Seq(Entries) /\ Len(Pop) = L - 1
      /\ \A i \in 1 .. L - 1 : Pop[i] = stack[i]
  BY PopFacts DEF SearchInvariant, SearchTypeOK
<1>2. t \in Vertices
  BY <1>1 DEF Entries
<1>3. stack[L] = <<t, "leave">>
  BY <1>1 DEF Leave, Top, Entries
<1>4. OnPath(L) /\ stack[L][1] = t /\ L \in 1 .. L
  BY <1>1, <1>3 DEF OnPath
<1>5. stack' = Pop /\ active' = active \ {t} /\ done' = done \cup {t}
      /\ UNCHANGED <<edges, roots, todo, result>>
  BY DEF Leave
<1>6. /\ SearchTypeOK /\ PathOnStack /\ ChildOfPath /\ ChildrenPending /\ RootsCovered
      /\ DoneClosed /\ Acyclic(done, edges) /\ active \cap done = {}
      /\ \A e \in edges : e[1] \in roots
  BY DEF SearchInvariant
<1> HIDE DEF L, t
<1>7. Len(stack') = L - 1 /\ \A i \in 1 .. L - 1 : stack'[i] = stack[i]
  BY <1>1, <1>5
<1>8. \A i \in 1 .. L - 1 : (OnPath(i)' <=> OnPath(i)) /\ i \in 1 .. L /\ i < L
  BY <1>1, <1>7 DEF OnPath
<1>9. SearchTypeOK'
  BY <1>1, <1>2, <1>5, <1>6 DEF SearchTypeOK
<1>10. t \in active
  BY <1>4, <1>6 DEF PathOnStack, L
<1>11. t \notin done
  BY <1>6, <1>10
<1>12. active' \cap done' = {}
  BY <1>5, <1>6
<1>13. PathOnStack'
  <2>1. ASSUME NEW i \in 1 .. L - 1, OnPath(i)' PROVE stack'[i][1] \in active'
    <3>1. OnPath(i) /\ i \in 1 .. L /\ i < L
      BY <2>1, <1>8
    <3>2. stack[i][1] \in active /\ stack[i][1] # t
      BY <3>1, <1>4, <1>6 DEF PathOnStack, L
    <3>. QED BY <2>1, <3>2, <1>5, <1>7
  <2>2. ASSUME NEW v \in active' PROVE \E i \in 1 .. L - 1 : stack'[i] = <<v, "leave">>
    <3>1. PICK i \in 1 .. L : stack[i] = <<v, "leave">>
      BY <1>5, <1>6 DEF PathOnStack, L
    <3>2. i # L
      BY <3>1, <1>3, <1>5
    <3>3. i \in 1 .. L - 1
      BY <3>2, <1>1
    <3>4. QED  BY <3>1, <3>3, <1>7
  <2>3. ASSUME NEW i \in 1 .. L - 1, NEW j \in 1 .. L - 1, i < j, OnPath(i)', OnPath(j)'
        PROVE  stack'[i][1] # stack'[j][1]
    BY <2>3, <1>6, <1>7, <1>8 DEF PathOnStack, L
  <2>4. QED  BY <2>1, <2>2, <2>3, <1>7 DEF PathOnStack
<1>14. ChildOfPath'
  <2>1. ASSUME NEW i \in 1 .. L - 1, NEW j \in 1 .. L - 1, i < j, OnPath(i)',
               \A k \in 1 .. L - 1 : i < k /\ k < j => ~OnPath(k)'
        PROVE  <<stack'[i][1], stack'[j][1]>> \in edges'
    <3>1. \A k \in 1 .. L : i < k /\ k < j => k \in 1 .. L - 1
      BY <1>1
    <3>2. \A k \in 1 .. L : i < k /\ k < j => ~OnPath(k)
      BY <3>1, <2>1, <1>8
    <3>3. <<stack[i][1], stack[j][1]>> \in edges
      BY <3>2, <2>1, <1>6, <1>8 DEF ChildOfPath, L
    <3>4. QED  BY <3>3, <1>5, <1>7
  <2>2. QED  BY <2>1, <1>7 DEF ChildOfPath
<1>15. ChildrenPending'
  <2>1. ASSUME NEW i \in 1 .. L - 1, OnPath(i)', NEW w \in Vertices, <<stack'[i][1], w>> \in edges'
        PROVE  w \in done' \/ \E j \in 1 .. L - 1 : i < j /\ stack'[j][1] = w
    <3>1. w \in done \/ \E j \in 1 .. L : i < j /\ stack[j][1] = w
      BY <2>1, <1>5, <1>6, <1>7, <1>8 DEF ChildrenPending, L
    <3>2. \A j \in 1 .. L : j # L => j \in 1 .. L - 1
      BY <1>1
    <3>3. QED  BY <3>1, <3>2, <1>4, <1>5, <1>7
  <2>2. QED  BY <2>1, <1>7 DEF ChildrenPending
<1>16. \A w \in Vertices : <<t, w>> \in edges => w \in done
  <2>1. \A j \in 1 .. L : ~(L < j)
    BY <1>1
  <2>2. QED  BY <2>1, <1>4, <1>6 DEF ChildrenPending, L
<1>17. DoneClosed'
  BY <1>5, <1>6, <1>16 DEF DoneClosed
<1>18. Acyclic(done', edges')
  <2>1. \A v \in done \cup {t} : \A w \in done \cup {t} : <<v, w>> \in edges => w \in done
    BY <1>2, <1>6, <1>16 DEF DoneClosed, SearchTypeOK
  <2>2. Acyclic(done \cup {t}, edges)
    BY <2>1, <1>6, <1>11, AcyclicAdd
  <2>3. QED  BY <2>2, <1>5
<1>19. RootsCovered'
  <2>1. ASSUME NEW v \in roots' \ todo'
        PROVE  v \in done' \/ \E i \in 1 .. L - 1 : stack'[i][1] = v
    <3>1. v \in done \/ \E i \in 1 .. L : stack[i][1] = v
      BY <1>5, <1>6 DEF RootsCovered, L
    <3>2. \A i \in 1 .. L : i # L => i \in 1 .. L - 1
      BY <1>1
    <3>3. QED  BY <3>1, <3>2, <1>4, <1>5, <1>7
  <2>2. QED  BY <2>1, <1>7 DEF RootsCovered
<1>20. Correct' /\ \A e \in edges' : e[1] \in roots'
  BY <1>5, <1>6 DEF Correct
<1>21. QED
  BY <1>9, <1>12, <1>13, <1>14, <1>15, <1>17, <1>18, <1>19, <1>20 DEF SearchInvariant

\* A vertex that was searched since its entry was pushed: nothing to do.
LEMMA SkipSearch ==
    ASSUME SearchInvariant, result = "searching", stack # <<>>, Skip
    PROVE  SearchInvariant'
<1> DEFINE L == Len(stack)
           t == Top[1]
<1>1. /\ L \in Nat \ {0} /\ Top \in Entries /\ Pop \in Seq(Entries) /\ Len(Pop) = L - 1
      /\ \A i \in 1 .. L - 1 : Pop[i] = stack[i]
  BY PopFacts DEF SearchInvariant, SearchTypeOK
<1>2. stack[L] = <<t, "enter">> /\ t \in done
  BY <1>1 DEF Skip, Top, Entries
<1>3. stack[L][1] = t /\ stack[L][2] # "leave" /\ L \in 1 .. L
  BY <1>1, <1>2
<1>4. stack' = Pop /\ UNCHANGED <<edges, roots, todo, done, active, result>>
  BY DEF Skip
<1>5. /\ SearchTypeOK /\ PathOnStack /\ ChildOfPath /\ ChildrenPending /\ RootsCovered
      /\ DoneClosed /\ Acyclic(done, edges) /\ active \cap done = {}
      /\ \A e \in edges : e[1] \in roots
  BY DEF SearchInvariant
<1> HIDE DEF L, t
<1>6. Len(stack') = L - 1 /\ \A i \in 1 .. L - 1 : stack'[i] = stack[i]
  BY <1>1, <1>4
<1>7. \A i \in 1 .. L - 1 : (OnPath(i)' <=> OnPath(i)) /\ i \in 1 .. L
  BY <1>1, <1>6 DEF OnPath
<1>8. \A i \in 1 .. L : i # L => i \in 1 .. L - 1
  BY <1>1
<1>9. SearchTypeOK'
  BY <1>1, <1>4, <1>5 DEF SearchTypeOK
<1>10. PathOnStack'
  <2>1. ASSUME NEW i \in 1 .. L - 1, OnPath(i)' PROVE stack'[i][1] \in active'
    BY <2>1, <1>4, <1>5, <1>6, <1>7 DEF PathOnStack, L
  <2>2. ASSUME NEW v \in active' PROVE \E i \in 1 .. L - 1 : stack'[i] = <<v, "leave">>
    <3>1. PICK i \in 1 .. L : stack[i] = <<v, "leave">>
      BY <1>4, <1>5 DEF PathOnStack, L
    <3>2. i # L
      BY <3>1, <1>2
    <3>3. QED  BY <3>1, <3>2, <1>6, <1>8
  <2>3. ASSUME NEW i \in 1 .. L - 1, NEW j \in 1 .. L - 1, i < j, OnPath(i)', OnPath(j)'
        PROVE  stack'[i][1] # stack'[j][1]
    BY <2>3, <1>5, <1>6, <1>7 DEF PathOnStack, L
  <2>4. QED  BY <2>1, <2>2, <2>3, <1>6 DEF PathOnStack
<1>11. ChildOfPath'
  <2>1. ASSUME NEW i \in 1 .. L - 1, NEW j \in 1 .. L - 1, i < j, OnPath(i)',
               \A k \in 1 .. L - 1 : i < k /\ k < j => ~OnPath(k)'
        PROVE  <<stack'[i][1], stack'[j][1]>> \in edges'
    <3>1. \A k \in 1 .. L : i < k /\ k < j => k \in 1 .. L - 1
      BY <1>1
    <3>2. \A k \in 1 .. L : i < k /\ k < j => ~OnPath(k)
      BY <3>1, <2>1, <1>7
    <3>3. <<stack[i][1], stack[j][1]>> \in edges
      BY <3>2, <2>1, <1>5, <1>7 DEF ChildOfPath, L
    <3>4. QED  BY <3>3, <1>4, <1>6
  <2>2. QED  BY <2>1, <1>6 DEF ChildOfPath
<1>12. ChildrenPending'
  <2>1. ASSUME NEW i \in 1 .. L - 1, OnPath(i)', NEW w \in Vertices, <<stack'[i][1], w>> \in edges'
        PROVE  w \in done' \/ \E j \in 1 .. L - 1 : i < j /\ stack'[j][1] = w
    <3>1. w \in done \/ \E j \in 1 .. L : i < j /\ stack[j][1] = w
      BY <2>1, <1>4, <1>5, <1>6, <1>7 DEF ChildrenPending, L
    <3>2. QED  BY <3>1, <1>2, <1>3, <1>4, <1>6, <1>8
  <2>2. QED  BY <2>1, <1>6 DEF ChildrenPending
<1>13. RootsCovered'
  <2>1. ASSUME NEW v \in roots' \ todo'
        PROVE  v \in done' \/ \E i \in 1 .. L - 1 : stack'[i][1] = v
    <3>1. v \in done \/ \E i \in 1 .. L : stack[i][1] = v
      BY <1>4, <1>5 DEF RootsCovered, L
    <3>2. QED  BY <3>1, <1>2, <1>3, <1>4, <1>6, <1>8
  <2>2. QED  BY <2>1, <1>6 DEF RootsCovered
<1>14. DoneClosed' /\ Acyclic(done', edges') /\ active' \cap done' = {}
  BY <1>4, <1>5 DEF DoneClosed
<1>15. Correct' /\ \A e \in edges' : e[1] \in roots'
  BY <1>4, <1>5 DEF Correct
<1>16. QED
  BY <1>9, <1>10, <1>11, <1>12, <1>13, <1>14, <1>15 DEF SearchInvariant

\* An unvisited vertex joins the path and its children wait above it.
LEMMA EnterSearch ==
    ASSUME SearchInvariant, result = "searching", stack # <<>>, Enter
    PROVE  SearchInvariant'
<1>0. PICK L, M, t : L = Len(stack) /\ M = Len(stack') /\ t = Top[1]
  OBVIOUS
<1>1. /\ SearchTypeOK /\ PathOnStack /\ ChildOfPath /\ ChildrenPending /\ RootsCovered
      /\ DoneClosed /\ Acyclic(done, edges) /\ active \cap done = {}
      /\ \A e \in edges : e[1] \in roots
  BY DEF SearchInvariant
<1>2. stack \in Seq(Entries) /\ edges \in SUBSET (Vertices \X Vertices)
  BY <1>1 DEF SearchTypeOK
<1>3. L \in Nat \ {0} /\ Top \in Entries
  BY <1>0, <1>2, PopFacts
<1>4. PICK order \in Orders(Successors(edges, Top[1])) :
         stack' = Expanded(order)
  BY DEF Enter
<1>5. /\ stack' \in Seq(Entries) /\ M \in Nat /\ L <= M
      /\ \A i \in 1 .. L - 1 : stack'[i] = stack[i]
      /\ stack'[L] = <<t, "leave">>
      /\ \A i \in L + 1 .. M : stack'[i][2] = "enter" /\ <<t, stack'[i][1]>> \in edges
      /\ \A w \in Vertices : <<t, w>> \in edges => \E i \in L + 1 .. M : stack'[i][1] = w
  <2>1. stack' = Expanded(order)
    BY <1>4
  <2>2. PICK new : new = stack'
    OBVIOUS
  <2>3. new = Expanded(order)
    BY <2>1, <2>2
  <2>4. /\ new \in Seq(Entries)
        /\ Len(new) \in Nat
        /\ Len(stack) <= Len(new)
        /\ \A i \in 1 .. Len(stack) - 1 : new[i] = stack[i]
        /\ new[Len(stack)] = <<Top[1], "leave">>
        /\ \A i \in Len(stack) + 1 .. Len(new) :
              /\ new[i][2] = "enter"
              /\ <<Top[1], new[i][1]>> \in edges
        /\ \A w \in Vertices : <<Top[1], w>> \in edges =>
              \E i \in Len(stack) + 1 .. Len(new) : new[i][1] = w
    BY <1>2, <2>3, EnterFacts
  <2>5. QED  BY <1>0, <2>2, <2>4
<1>6. stack[L] = <<t, "enter">> /\ t \in Vertices /\ t \notin done \cup active
  BY <1>0, <1>3 DEF Enter, Top, Entries
<1>7. active' = active \cup {t} /\ UNCHANGED <<edges, roots, todo, done, result>>
  BY <1>0 DEF Enter
<1>8. stack[L][1] = t /\ stack'[L][1] = t /\ stack'[L][2] = "leave" /\ stack[L][2] # "leave"
  BY <1>5, <1>6
<1>9. L \in 1 .. L /\ L \in 1 .. M /\ \A i \in 1 .. L - 1 : i \in 1 .. L /\ i \in 1 .. M
  BY <1>3, <1>5
<1>10. \A i \in 1 .. M : i \in 1 .. L - 1 \/ i = L \/ i \in L + 1 .. M
  BY <1>3, <1>5
<1>11. \A i \in 1 .. L : i = L \/ i \in 1 .. L - 1
  BY <1>3
<1>12. /\ \A i \in 1 .. L - 1 : OnPath(i)' <=> OnPath(i)
       /\ OnPath(L)' /\ ~OnPath(L)
       /\ \A i \in L + 1 .. M : ~OnPath(i)'
  <2>1. \A i \in 1 .. L - 1 : OnPath(i)' <=> OnPath(i)
    BY <1>5 DEF OnPath
  <2>2. OnPath(L)' /\ ~OnPath(L)
    BY <1>8 DEF OnPath
  <2>3. ASSUME NEW i \in L + 1 .. M PROVE ~OnPath(i)'
    BY <1>5 DEF OnPath
  <2>4. QED  BY <2>1, <2>2, <2>3
<1>13. SearchTypeOK'
  BY <1>1, <1>5, <1>6, <1>7 DEF SearchTypeOK
<1>14. active' \cap done' = {}
  BY <1>1, <1>6, <1>7
<1>15. PathOnStack'
  <2>1. ASSUME NEW i \in 1 .. M, OnPath(i)' PROVE stack'[i][1] \in active'
    <3>1. CASE i \in 1 .. L - 1
      <4>1. OnPath(i) /\ i \in 1 .. Len(stack)
        BY <2>1, <3>1, <1>9, <1>12, <1>0
      <4>2. stack[i][1] \in active
        BY <4>1, <1>1 DEF PathOnStack
      <4>3. QED  BY <4>2, <3>1, <1>5, <1>7
    <3>2. CASE i = L
      BY <3>2, <1>7, <1>8
    <3>3. QED  BY <2>1, <3>1, <3>2, <1>10, <1>12
  <2>2. ASSUME NEW v \in active' PROVE \E i \in 1 .. M : stack'[i] = <<v, "leave">>
    <3>1. CASE v = t
      BY <3>1, <1>5, <1>9
    <3>2. CASE v \in active
      <4>1. PICK i \in 1 .. L : stack[i] = <<v, "leave">>
        BY <3>2, <1>1, <1>0 DEF PathOnStack
      <4>2. i # L
        BY <4>1, <1>6
      <4>3. QED  BY <4>1, <4>2, <1>5, <1>9, <1>11
    <3>3. QED  BY <3>1, <3>2, <1>7
  <2>3. ASSUME NEW i \in 1 .. M, NEW j \in 1 .. M, i < j, OnPath(i)', OnPath(j)'
        PROVE  stack'[i][1] # stack'[j][1]
    <3>1. i \in 1 .. L - 1 /\ (j \in 1 .. L - 1 \/ j = L)
      <4>1. j \in 1 .. L - 1 \/ j = L
        BY <2>3, <1>10, <1>12
      <4>2. QED  BY <4>1, <2>3, <1>3
    <3>2. CASE j \in 1 .. L - 1
      <4>1. OnPath(i) /\ OnPath(j)
        BY <2>3, <3>1, <3>2, <1>12
      <4>2. i \in 1 .. Len(stack) /\ j \in 1 .. Len(stack)
        BY <3>1, <3>2, <1>9, <1>0
      <4>3. stack[i][1] # stack[j][1]
        BY <2>3, <4>1, <4>2, <1>1 DEF PathOnStack
      <4>4. QED  BY <4>3, <3>1, <3>2, <1>5
    <3>3. CASE j = L
      <4>1. stack'[i][1] \in active
        <5>1. OnPath(i) /\ i \in 1 .. Len(stack)
          BY <2>3, <3>1, <1>9, <1>12, <1>0
        <5>2. stack[i][1] \in active
          BY <5>1, <1>1 DEF PathOnStack
        <5>3. QED  BY <5>2, <3>1, <1>5
      <4>2. QED  BY <4>1, <3>3, <1>6, <1>8
    <3>4. QED  BY <3>1, <3>2, <3>3
  <2>4. QED  BY <2>1, <2>2, <2>3, <1>0 DEF PathOnStack
<1>16. ChildOfPath'
  <2>1. ASSUME NEW i \in 1 .. M, NEW j \in 1 .. M, i < j, OnPath(i)',
               \A k \in 1 .. M : i < k /\ k < j => ~OnPath(k)'
        PROVE  <<stack'[i][1], stack'[j][1]>> \in edges'
    <3>1. i \in 1 .. L - 1 \/ i = L
      BY <2>1, <1>10, <1>12
    <3>2. CASE i = L
      <4>1. j \in L + 1 .. M
        BY <2>1, <3>2, <1>3, <1>5
      <4>2. QED  BY <4>1, <3>2, <1>5, <1>7, <1>8
    <3>3. CASE i \in 1 .. L - 1
      <4>1. ~(L < j)
        <5>1. i < L
          BY <3>3, <1>3
        <5>2. L \in 1 .. M /\ OnPath(L)'
          BY <1>9, <1>12
        <5>3. QED  BY <5>1, <5>2, <2>1
      <4>2. j \in 1 .. L
        BY <4>1, <1>3, <1>5
      <4>3. \A k \in 1 .. L : i < k /\ k < j => k \in 1 .. L - 1
        BY <4>2, <1>3
      <4>4. \A k \in 1 .. L : i < k /\ k < j => ~OnPath(k)
        BY <4>3, <2>1, <1>9, <1>12
      <4>5. <<stack[i][1], stack[j][1]>> \in edges
        BY <4>2, <4>4, <2>1, <3>3, <1>1, <1>9, <1>12, <1>0 DEF ChildOfPath
      <4>6. stack'[j][1] = stack[j][1]
        BY <4>2, <1>5, <1>8, <1>11
      <4>7. QED  BY <4>5, <4>6, <3>3, <1>5, <1>7
    <3>4. QED  BY <3>1, <3>2, <3>3
  <2>2. QED  BY <2>1, <1>0 DEF ChildOfPath
<1>17. ChildrenPending'
  <2>1. ASSUME NEW i \in 1 .. M, OnPath(i)', NEW w \in Vertices, <<stack'[i][1], w>> \in edges'
        PROVE  w \in done' \/ \E j \in 1 .. M : i < j /\ stack'[j][1] = w
    <3>1. i \in 1 .. L - 1 \/ i = L
      BY <2>1, <1>10, <1>12
    <3>2. CASE i = L
      <4>1. PICK j \in L + 1 .. M : stack'[j][1] = w
        BY <2>1, <3>2, <1>5, <1>7, <1>8
      <4>2. j \in 1 .. M /\ L < j
        BY <1>3, <1>5
      <4>3. QED  BY <4>1, <4>2, <3>2
    <3>3. CASE i \in 1 .. L - 1
      <4>1. w \in done \/ \E j \in 1 .. L : i < j /\ stack[j][1] = w
        <5>1. OnPath(i) /\ i \in 1 .. Len(stack)
          BY <2>1, <3>3, <1>9, <1>12, <1>0
        <5>2. <<stack[i][1], w>> \in edges
          BY <2>1, <3>3, <1>5, <1>7
        <5>3. QED  BY <5>1, <5>2, <1>1, <1>0 DEF ChildrenPending
      <4>2. \A j \in 1 .. L : stack'[j][1] = stack[j][1] /\ j \in 1 .. M
        BY <1>5, <1>8, <1>9, <1>11
      <4>3. QED  BY <4>1, <4>2, <1>7
    <3>4. QED  BY <3>1, <3>2, <3>3
  <2>2. QED  BY <2>1, <1>0 DEF ChildrenPending
<1>18. RootsCovered'
  <2>1. ASSUME NEW v \in roots' \ todo'
        PROVE  v \in done' \/ \E i \in 1 .. M : stack'[i][1] = v
    <3>1. v \in done \/ \E i \in 1 .. L : stack[i][1] = v
      BY <1>1, <1>7, <1>0 DEF RootsCovered
    <3>2. \A j \in 1 .. L : stack'[j][1] = stack[j][1] /\ j \in 1 .. M
      BY <1>5, <1>8, <1>9, <1>11
    <3>3. QED  BY <3>1, <3>2, <1>7
  <2>2. QED  BY <2>1, <1>0 DEF RootsCovered
<1>19. DoneClosed' /\ Acyclic(done', edges')
  BY <1>1, <1>7 DEF DoneClosed
<1>20. Correct' /\ \A e \in edges' : e[1] \in roots'
  BY <1>1, <1>7 DEF Correct
<1>21. QED
  BY <1>13, <1>14, <1>15, <1>16, <1>17, <1>18, <1>19, <1>20 DEF SearchInvariant

\* A vertex of the path is reached again: the path entries from its own entry
\* upward are a cycle, since each has an edge to the next one.
LEMMA FoundSearch ==
    ASSUME SearchInvariant, result = "searching", stack # <<>>, Found
    PROVE  SearchInvariant'
<1>0. PICK L, t : L = Len(stack) /\ t = Top[1]
  OBVIOUS
<1>1. SearchTypeOK /\ PathOnStack /\ ChildOfPath /\ \A e \in edges : e[1] \in roots
  BY DEF SearchInvariant
<1>2. stack \in Seq(Entries)
  BY <1>1 DEF SearchTypeOK
<1>3. L \in Nat \ {0} /\ Top \in Entries /\ Pop \in Seq(Entries)
  BY <1>0, <1>2, PopFacts
<1>4. stack[L] = <<t, "enter">> /\ t \in active
  BY <1>0, <1>3 DEF Found, Top, Entries
<1>5. /\ stack' = Pop /\ result' = "cycle"
      /\ UNCHANGED <<edges, roots, todo, done, active>>
  BY DEF Found
<1>6. \A k \in 1 .. L : stack[k] \in Entries /\ stack[k][1] \in Vertices
  <2>1. \A k \in 1 .. L : stack[k] \in Entries
    BY <1>0, <1>2, ElementOfSeq
  <2>2. QED  BY <2>1 DEF Entries
<1>7. PICK i \in 1 .. L : stack[i] = <<t, "leave">>
  BY <1>0, <1>1, <1>4 DEF PathOnStack
<1>8. i # L
  BY <1>4, <1>7
<1>9. i \in 1 .. L - 1 /\ stack[i][1] = t /\ OnPath(i) /\ stack[L][1] = t
  BY <1>3, <1>4, <1>7, <1>8 DEF OnPath
<1> DEFINE K == {k \in i .. L - 1 : OnPath(k)}
           S == {stack[k][1] : k \in K}
<1>10. i \in K /\ t \in S
  BY <1>9
<1>11. S \in SUBSET Vertices /\ S # {}
  <2>1. \A k \in K : k \in 1 .. L
    BY <1>3, <1>9
  <2>2. QED  BY <2>1, <1>6, <1>10
<1>12. ASSUME NEW k \in K PROVE \E w \in S : <<stack[k][1], w>> \in edges
  <2>1. k \in 1 .. L - 1 /\ OnPath(k) /\ k \in 1 .. L /\ L \in k + 1 .. L
    BY <1>3, <1>9
  <2> DEFINE T == {j \in k + 1 .. L : j = L \/ OnPath(j)}
  <2>2. T \in SUBSET Nat /\ L \in T
    BY <2>1, <1>3
  <2> HIDE DEF T
  <2>3. PICK m \in T : \A j \in T : m <= j
    BY <2>2, LeastNatural
  <2> USE DEF T
  <2>4. m \in k + 1 .. L /\ (m = L \/ OnPath(m))
    OBVIOUS
  <2>5. m \in 1 .. L /\ k < m
    BY <2>1, <2>4, <1>3
  <2>6. ASSUME NEW j \in 1 .. L, k < j, j < m PROVE ~OnPath(j)
    <3>1. j \in k + 1 .. L
      BY <2>1, <2>6, <1>3
    <3>2. ~(m <= j)
      BY <2>4, <2>1, <2>6, <1>3
    <3>3. QED  BY <3>1, <3>2, <2>3
  <2>7. <<stack[k][1], stack[m][1]>> \in edges
    BY <2>1, <2>5, <2>6, <1>0, <1>1 DEF ChildOfPath
  <2>8. stack[m][1] \in S
    <3>1. CASE m = L
      BY <3>1, <1>9, <1>10
    <3>2. CASE m # L
      <4>1. m \in i .. L - 1 /\ OnPath(m)
        BY <3>2, <2>1, <2>4, <1>3, <1>9
      <4>2. QED  BY <4>1
    <3>3. QED  BY <3>1, <3>2
  <2>9. QED  BY <2>7, <2>8
<1>13. ~Acyclic(Vertices, edges)
  <2>1. \A v \in S : \E w \in S : <<v, w>> \in edges
    BY <1>12
  <2> HIDE DEF S
  <2>2. QED  BY <2>1, <1>11 DEF Acyclic
<1>14. SearchTypeOK'
  BY <1>1, <1>3, <1>5 DEF SearchTypeOK
<1>15. QED
  BY <1>1, <1>5, <1>13, <1>14 DEF SearchInvariant, Correct

\* The next root starts a path of its own.
LEMMA NextVertexSearch ==
    ASSUME SearchInvariant, result = "searching", NEW v \in todo, NextVertex(v)
    PROVE  SearchInvariant'
<1>1. /\ SearchTypeOK /\ PathOnStack /\ ChildOfPath /\ ChildrenPending /\ RootsCovered
      /\ DoneClosed /\ Acyclic(done, edges) /\ \A e \in edges : e[1] \in roots
  BY DEF SearchInvariant
<1>2. stack = <<>> /\ todo' = todo \ {v} /\ UNCHANGED <<edges, roots, done, active, result>>
      /\ stack' = IF v \in done THEN <<>> ELSE << <<v, "enter">> >>
  BY DEF NextVertex
<1>3. Len(stack) = 0 /\ 1 .. 0 = {}
  BY <1>2
<1>4. active = {}
  BY <1>1, <1>3 DEF PathOnStack
<1>5. v \in Vertices
  BY <1>1 DEF SearchTypeOK
<1>6. CASE v \in done
  <2>1. stack' = <<>> /\ Len(stack') = 0
    BY <1>2, <1>6
  <2>2. SearchTypeOK'
    BY <1>1, <1>2, <2>1, EmptySeq DEF SearchTypeOK
  <2>3. PathOnStack' /\ ChildOfPath' /\ ChildrenPending' /\ active' \cap done' = {}
    BY <1>2, <1>3, <1>4, <2>1 DEF PathOnStack, ChildOfPath, ChildrenPending
  <2>4. RootsCovered'
    BY <1>1, <1>2, <1>3, <1>6, <2>1 DEF RootsCovered
  <2>5. DoneClosed' /\ Acyclic(done', edges') /\ Correct'
    BY <1>1, <1>2 DEF DoneClosed, Correct
  <2>6. QED  BY <1>1, <1>2, <2>2, <2>3, <2>4, <2>5 DEF SearchInvariant
<1>7. CASE v \notin done
  <2>1. stack' = << <<v, "enter">> >> /\ Len(stack') = 1 /\ stack'[1] = <<v, "enter">>
    BY <1>2, <1>7
  <2>2. stack'[1][1] = v /\ stack'[1][2] # "leave"
    BY <2>1
  <2>3. <<v, "enter">> \in Entries
    BY <1>5 DEF Entries
  <2>4. stack' \in Seq(Entries)
    <3> HIDE DEF Entries
    <3>1. <<>> \in Seq(Entries) /\ Append(<<>>, <<v, "enter">>) \in Seq(Entries)
      BY <2>3, EmptySeq, AppendProperties
    <3>2. QED  BY <2>1, <3>1
  <2>5. SearchTypeOK'
    BY <1>1, <1>2, <2>4 DEF SearchTypeOK
  <2>6. \A i \in 1 .. 1 : i = 1
    OBVIOUS
  <2>7. \A i \in 1 .. Len(stack') : ~OnPath(i)'
    BY <2>1, <2>2, <2>6 DEF OnPath
  <2>8. PathOnStack' /\ ChildOfPath' /\ ChildrenPending' /\ active' \cap done' = {}
    BY <1>2, <1>4, <2>7 DEF PathOnStack, ChildOfPath, ChildrenPending
  <2>9. RootsCovered'
    <3>1. ASSUME NEW w \in roots' \ todo'
          PROVE  w \in done' \/ \E i \in 1 .. Len(stack') : stack'[i][1] = w
      <4>1. CASE w = v
        BY <4>1, <2>1, <2>2
      <4>2. CASE w # v
        BY <4>2, <1>1, <1>2, <1>3 DEF RootsCovered
      <4>3. QED  BY <4>1, <4>2
    <3>2. QED  BY <3>1 DEF RootsCovered
  <2>10. DoneClosed' /\ Acyclic(done', edges') /\ Correct'
    BY <1>1, <1>2 DEF DoneClosed, Correct
  <2>11. QED  BY <1>1, <1>2, <2>5, <2>8, <2>9, <2>10 DEF SearchInvariant
<1>8. QED  BY <1>6, <1>7

\* Every root was searched, and a vertex that is no root has no edges.
LEMMA ExhaustedSearch ==
    ASSUME SearchInvariant, result = "searching", Exhausted
    PROVE  SearchInvariant'
<1>1. /\ SearchTypeOK /\ PathOnStack /\ ChildOfPath /\ ChildrenPending /\ RootsCovered
      /\ DoneClosed /\ Acyclic(done, edges) /\ active \cap done = {}
      /\ \A e \in edges : e[1] \in roots
  BY DEF SearchInvariant
<1>2. stack = <<>> /\ todo = {} /\ result' = "acyclic"
      /\ UNCHANGED <<edges, roots, todo, stack, done, active>>
  BY DEF Exhausted
<1>3. \A v \in roots : v \in done
  <2>1. Len(stack) = 0 /\ 1 .. 0 = {}
    BY <1>2
  <2>2. QED  BY <2>1, <1>1, <1>2 DEF RootsCovered
<1>4. ASSUME NEW S \in SUBSET Vertices, S # {}
      PROVE  \E v \in S : \A w \in S : <<v, w>> \notin edges
  <2>1. CASE S \cap done = {}
    <3>1. PICK v \in S : TRUE
      BY <1>4
    <3>2. v \notin roots
      BY <3>1, <2>1, <1>3
    <3>3. \A w : <<v, w>>[1] = v
      OBVIOUS
    <3>4. \A w \in S : <<v, w>> \notin edges
      BY <3>2, <3>3, <1>1
    <3>5. QED  BY <3>4
  <2>2. CASE S \cap done # {}
    <3>1. PICK v \in S \cap done : \A w \in S \cap done : <<v, w>> \notin edges
      BY <2>2, <1>1 DEF Acyclic
    <3>2. \A w \in S : w \notin done => <<v, w>> \notin edges
      BY <3>1, <1>1 DEF DoneClosed
    <3>3. QED  BY <3>1, <3>2
  <2>3. QED  BY <2>1, <2>2
<1>5. Acyclic(Vertices, edges)
  BY <1>4 DEF Acyclic
<1>6. /\ SearchTypeOK' /\ (PathOnStack /\ ChildOfPath /\ ChildrenPending /\ RootsCovered)'
      /\ (DoneClosed /\ Acyclic(done, edges) /\ active \cap done = {})'
  BY <1>1, <1>2 DEF SearchTypeOK, PathOnStack, ChildOfPath, ChildrenPending, RootsCovered,
                    DoneClosed, OnPath
<1>7. QED  BY <1>1, <1>2, <1>5, <1>6 DEF SearchInvariant, Correct

\* Each step of the search keeps the invariant.
LEMMA NextSearch == SearchInvariant /\ [SearchNext]_searchVars => SearchInvariant'
<1> SUFFICES ASSUME SearchInvariant, [SearchNext]_searchVars PROVE SearchInvariant'
  OBVIOUS
<1>1. CASE SearchNext
  <2>1. result = "searching"
    BY <1>1 DEF SearchNext
  <2>2. ASSUME NEW v \in todo, NextVertex(v) PROVE SearchInvariant'
    BY <2>1, <2>2, NextVertexSearch
  <2>3. CASE stack # <<>> /\ Leave
    BY <2>1, <2>3, LeaveSearch
  <2>4. CASE stack # <<>> /\ Found
    BY <2>1, <2>4, FoundSearch
  <2>5. CASE stack # <<>> /\ Skip
    BY <2>1, <2>5, SkipSearch
  <2>6. CASE stack # <<>> /\ Enter
    BY <2>1, <2>6, EnterSearch
  <2>7. CASE Exhausted
    BY <2>1, <2>7, ExhaustedSearch
  <2>8. QED  BY <1>1, <2>2, <2>3, <2>4, <2>5, <2>6, <2>7 DEF SearchNext
<1>2. CASE UNCHANGED searchVars
  <2>1. UNCHANGED <<edges, roots, todo, stack, done, active, result>>
    BY <1>2 DEF searchVars
  <2>2. SearchTypeOK' <=> SearchTypeOK
    BY <2>1 DEF SearchTypeOK
  <2>3. (PathOnStack' <=> PathOnStack) /\ (ChildOfPath' <=> ChildOfPath)
    BY <2>1 DEF PathOnStack, ChildOfPath, OnPath
  <2>4. (ChildrenPending' <=> ChildrenPending) /\ (RootsCovered' <=> RootsCovered)
    BY <2>1 DEF ChildrenPending, RootsCovered, OnPath
  <2>5. (DoneClosed' <=> DoneClosed) /\ (Correct' <=> Correct)
    BY <2>1 DEF DoneClosed, Correct
  <2>6. QED  BY <2>1, <2>2, <2>3, <2>4, <2>5 DEF SearchInvariant
<1>3. QED  BY <1>1, <1>2

\* The invariant that explains the search holds in every reachable state.
THEOREM SearchInvariantHolds == SearchSpec => []SearchInvariant
<1>1. QED  BY InitSearch, NextSearch, PTL DEF SearchSpec

\* Whatever the graph, _would_cycle reports a cycle only where there is one and
\* passes a graph only if it has none.
THEOREM SearchCorrect == SearchSpec => []Correct
<1>1. SearchInvariant => Correct
  BY DEF SearchInvariant
<1>2. QED  BY <1>1, SearchInvariantHolds, PTL
=============================================================================

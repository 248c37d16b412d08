--------------------------- MODULE ObjectOwnerProofs ---------------------------
(***************************************************************************)
(* The safety of an object's references and of its collection, for any     *)
(* number of references, holders and Nodes, and any number of faults.      *)
(*                                                                         *)
(* The invariant has three parts.  References: a token that was ever in    *)
(* the owner's table is not idle, and leaves the table only because its    *)
(* holder gave it back, died, or lost the Task hold it came from.          *)
(* Collection: the drivers are past a step only if the work record says    *)
(* so, and the claim is for ever.  Copies: every copy is a location, part  *)
(* of the frozen plan, queued for deletion, or still to be reported, and   *)
(* a Node that deleted the object does not store it again.                 *)
(***************************************************************************)
EXTENDS ObjectOwner, TLAPS

Late == {"pending", "calling"}
Claimed == {"fence", "child", "graph", "drops", "finish"}

\* What the owner's table and a holder's belief have to do with each other.
References ==
    /\ active \subseteq bound
    /\ \A t \in bound \cup released \cup late : phase[t] # "idle"
    /\ active \cap released = {}
    /\ \A t \in active : Holder[t] \notin installed
    /\ coll # "ACTIVE" => active = {}
    /\ serving = "closed" => \A t \in active : Kind[t] \notin Remote
    /\ \A t \in bound \ active :
          Kind[t] = "contained" => phase[t] \in {"closing", "gone"} \/ ~Up(Holder[t])
    /\ \A t \in Token :
          phase[t] \in {"granted", "bound"} /\ Up(Holder[t]) => t \in active \/ Orphan(t)

\* What the drivers of a collection have done, and the work record.
Collection ==
    /\ \A d \in Drivers : gc[d] \in Claimed => coll # "ACTIVE"
    /\ \A d \in Drivers : gc[d] \in Claimed \ {"fence"} => ~todo.fence
    /\ coll # "ACTIVE" => state # "PENDING"
    /\ FencedFirst

\* Who knows of a Node's copy.
Known(n) ==
    \/ \E h \in Token : <<n, h>> \in reports
    \/ cleanup[n] \in Late
    \/ coll = "ACTIVE" /\ n \in locations
    \/ coll = "COLLECTING" /\ n \in todo.drops

\* Where the copies are, and who will delete them.
CopiesKnown ==
    /\ state = "PENDING" => bytes = {} /\ dropped = {}
    /\ \A n \in Nodes : cleanup[n] # "none" => coll # "ACTIVE"
    /\ bytes \cap (down \cup dropped) = {}
    /\ \A n \in Nodes : cleanup[n] = "done" => n \in down \cup dropped
    /\ \A n \in bytes : Known(n)

OwnerInv == TypeOK /\ References /\ Collection /\ CopiesKnown

-----------------------------------------------------------------------------
LEMMA TypeOKKept ==
    ASSUME OwnerInv, [Next]_vars
    PROVE  TypeOK'
<1> USE DEF OwnerInv, TypeOK, tokenVars, tableVars, faultVars, replicaVars,
      gcVars, fixedVars
<1> MaxFaults \in Nat /\ Producers \subseteq Nodes /\ published \in BOOLEAN
  BY ObjectOwnerAssumption
<1>1. ASSUME NEW t \in Token, Make(t) \/ ReleaseLocal(t) \/ ServeRelease(t)
      PROVE  TypeOK'
  <2>1. CASE Make(t)
    BY <2>1 DEF Make, Grant, Phases
  <2>2. CASE ReleaseLocal(t)
    BY <2>2 DEF ReleaseLocal, Release, Removed, Derived, Phases
  <2>3. CASE ServeRelease(t)
    BY <2>3 DEF ServeRelease, Release, Removed, Derived, DriveDirect, Drivers, Phases
  <2> QED
    BY <1>1, <2>1, <2>2, <2>3
<1>2. ASSUME NEW t \in Token, Close(t) \/ Ask(t) \/ Bind(t) \/ GiveUp(t) \/ OwnerGone(t)
      PROVE  TypeOK'
  BY <1>2 DEF Close, Ask, Bind, GiveUp, OwnerGone, Phases
<1>3. ASSUME NEW t \in Token, Serve(t) \/ ServeLate(t)
      PROVE  TypeOK'
  BY <1>3 DEF Serve, ServeLate, ServeAsk, Grant, Phases
<1>4. ASSUME NEW n \in Nodes, ProducerEnds(n)
      PROVE  TypeOK'
  BY <1>4 DEF ProducerEnds, Publish, CopiesKnown
<1>5. ASSUME NEW n \in Nodes, NEW h \in Token, Localize(n, h) \/ Unpin(n, h) \/ Report(n, h)
      PROVE  TypeOK'
  <2>1. CASE Localize(n, h)
    BY <2>1 DEF Localize
  <2>2. CASE Unpin(n, h)
    BY <2>2 DEF Unpin
  <2>3. CASE Report(n, h)
    <3>1. cleanup' \in [Nodes -> {"none", "pending", "calling", "done"}]
      BY <2>3 DEF Report, Enqueued
    <3>2. faults' \in 0..MaxFaults
      BY <2>3 DEF Report
    <3>3. due' \in BOOLEAN
      BY <2>3, Zenon DEF Report
    <3> QED
      BY <2>3, <3>1, <3>2, <3>3 DEF Report
  <2> QED
    BY <1>5, <2>1, <2>2, <2>3
<1>6. ASSUME NEW n \in Nodes, DropOwned(n) \/ Clean(n) \/ Settle(n)
      PROVE  TypeOK'
  <2>1. CASE DropOwned(n)
    BY <2>1 DEF DropOwned, Droppable, DropAt
  <2>2. CASE Clean(n)
    BY <2>2 DEF Clean
  <2>3. CASE Settle(n)
    <3>1. CASE cleanup' = [cleanup EXCEPT ![n] = "pending"]
      BY <2>3, <3>1 DEF Settle, Droppable, DropAt
    <3>2. CASE Droppable(n) /\ DropAt(n) /\ cleanup' = [cleanup EXCEPT ![n] = "done"] /\ due' = TRUE
      BY <2>3, <3>2 DEF Settle, Droppable, DropAt
    <3> QED
      BY <2>3, <3>1, <3>2 DEF Settle
  <2> QED
    BY <1>6, <2>1, <2>2, <2>3
<1>7. ASSUME NEW n \in Nodes, NodeDeath(n)
      PROVE  TypeOK'
  BY <1>7 DEF NodeDeath
<1>8. CASE TakeCheck
  BY <1>8 DEF TakeCheck, Drivers
<1>9. ASSUME NEW d \in Drivers, DriverStep(d)
      PROVE  TypeOK'
  <2> DEFINE Work == [fence : BOOLEAN, child : BOOLEAN, graph : BOOLEAN, drops : SUBSET Nodes]
             Steps == {"idle", "begin", "fence", "child", "graph", "drops", "finish"}
  <2> USE DEF Goto
  <2>1. CASE Begin(d)
    <3>1. gc' \in [Drivers -> Steps]
      BY <2>1 DEF Begin
    <3>2. todo' \in Work
      BY <2>1 DEF Begin
    <3> QED
      BY <2>1, <3>1, <3>2 DEF Begin
  <2>2. CASE Fence(d) \/ Graph(d)
    <3>1. gc' \in [Drivers -> Steps]
      BY <2>2 DEF Fence, Graph, GcsFails
    <3>2. todo' \in Work
      BY <2>2 DEF Fence, Graph, GcsFails
    <3>3. due' \in BOOLEAN /\ faults' \in 0..MaxFaults
      BY <2>2 DEF Fence, Graph, GcsFails
    <3> QED
      BY <2>2, <3>1, <3>2, <3>3 DEF Fence, Graph
  <2>3. CASE Child(d)
    <3>1. gc' \in [Drivers -> Steps]
      BY <2>3 DEF Child
    <3>2. todo' \in Work
      BY <2>3 DEF Child
    <3>3. faults' \in 0..MaxFaults
      BY <2>3 DEF Child
    <3> QED
      BY <2>3, <3>1, <3>2, <3>3 DEF Child
  <2>4. CASE DropsDone(d)
    BY <2>4 DEF DropsDone
  <2>5. CASE Finish(d)
    <3>1. gc' \in [Drivers -> Steps]
      BY <2>5 DEF Finish
    <3>2. CASE todo' = NoWork
      BY <2>5, <3>1, <3>2 DEF Finish, NoWork
    <3>4. todo' = todo \/ todo' = NoWork
      BY <2>5 DEF Finish
    <3>3. due' \in BOOLEAN
      BY <2>5 DEF Finish
    <3> QED
      BY <2>5, <3>1, <3>2, <3>3, <3>4 DEF Finish
  <2>6. ASSUME NEW n \in Nodes, Drop(d, n)
        PROVE  TypeOK'
    BY <2>6 DEF Drop, Droppable, DropAt
  <2> QED
    BY <1>9, <2>1, <2>2, <2>3, <2>4, <2>5, <2>6 DEF DriverStep
<1>10. ASSUME NEW p \in Crashes, Exit(p)
       PROVE  TypeOK'
  BY <1>10 DEF Exit
<1>11. ASSUME NEW p \in down, ProcessDeath(p)
       PROVE  TypeOK'
  <2>1. gc' \in [Drivers -> {"idle", "begin", "fence", "child", "graph", "drops", "finish"}]
    BY <1>11 DEF ProcessDeath, DriveDirect, Drivers
  <2>2. todo' \in [fence : BOOLEAN, child : BOOLEAN, graph : BOOLEAN, drops : SUBSET Nodes]
    BY <1>11 DEF ProcessDeath
  <2> QED
    BY <1>11, <2>1, <2>2 DEF ProcessDeath, DeadTokens
<1>12. CASE Drain \/ CloseProtocol
  BY <1>12 DEF Drain, CloseProtocol
<1>13. CASE UNCHANGED vars
  BY <1>13 DEF vars
<1> QED
  BY <1>1, <1>2, <1>3, <1>4, <1>5, <1>6, <1>7, <1>8, <1>9, <1>10, <1>11, <1>12, <1>13
     DEF Next, Tokens, Replicas

\* The owner's table and what the holders believe.
LEMMA ReferencesKept ==
    ASSUME OwnerInv, [Next]_vars
    PROVE  References'
<1> USE DEF OwnerInv, TypeOK, References, Orphan, Up, Remote, Holds, tokenVars, tableVars, faultVars,
      replicaVars, gcVars, fixedVars
<1>1. ASSUME NEW t \in Token, Make(t)
      PROVE  References'
  BY <1>1, ObjectOwnerAssumption DEF Make, CanMake, Grant
<1>2. ASSUME NEW t \in Token, ReleaseLocal(t)
      PROVE  References'
  BY <1>2 DEF ReleaseLocal, Release, Removed, Derived
<1>3. ASSUME NEW t \in Token, ServeRelease(t)
      PROVE  References'
  BY <1>3 DEF ServeRelease, Release, Removed, Derived
<1>4. ASSUME NEW t \in Token, Close(t) \/ Ask(t) \/ Bind(t) \/ GiveUp(t) \/ OwnerGone(t)
      PROVE  References'
  BY <1>4 DEF Close, Ask, CanMake, Bind, GiveUp, OwnerGone
<1>5. ASSUME NEW t \in Token, NEW answer, ServeAsk(t, answer), phase[t] # "idle",
             answer => phase[t] = "asking", late' \subseteq late
      PROVE  References'
  BY <1>5 DEF ServeAsk, Admitted, Replayed, Grantable, Grant
<1>6. ASSUME NEW t \in Token, Serve(t) \/ ServeLate(t)
      PROVE  References'
  BY <1>5, <1>6 DEF Serve, ServeLate
<1>7. ASSUME NEW n \in Nodes, ProducerEnds(n)
      PROVE  References'
  BY <1>7 DEF ProducerEnds, Publish
<1>8. ASSUME NEW n \in Nodes, NEW h \in Token, Localize(n, h) \/ Unpin(n, h) \/ Report(n, h)
      PROVE  References'
  BY <1>8 DEF Localize, Unpin, Report
<1>9. ASSUME NEW n \in Nodes, DropOwned(n) \/ Clean(n) \/ Settle(n) \/ NodeDeath(n)
      PROVE  References'
  BY <1>9, ObjectOwnerAssumption DEF DropOwned, Clean, Settle, NodeDeath
<1>10. CASE TakeCheck
  BY <1>10 DEF TakeCheck
<1>11. ASSUME NEW d \in Drivers, DriverStep(d)
       PROVE  References'
  BY <1>11 DEF DriverStep, Begin, Fence, Child, Graph, DropsDone, Finish, Drop, Collectable
<1>12. ASSUME NEW p \in Crashes, Exit(p)
       PROVE  References'
  BY <1>12 DEF Exit
<1>13. ASSUME NEW p \in down, ProcessDeath(p)
       PROVE  References'
  BY <1>13 DEF ProcessDeath, DeadTokens
<1>14. CASE Drain \/ CloseProtocol
  BY <1>14 DEF Drain, CloseProtocol, Finalizable
<1>15. CASE UNCHANGED vars
  BY <1>15 DEF vars
<1> QED
  BY <1>1, <1>2, <1>3, <1>4, <1>6, <1>7, <1>8, <1>9, <1>10, <1>11, <1>12, <1>13, <1>14, <1>15
     DEF Next, Tokens, Replicas

\* What the drivers know, and the fence before the rest of a collection.
LEMMA CollectionKept ==
    ASSUME OwnerInv, [Next]_vars
    PROVE  Collection'
<1> USE DEF OwnerInv, TypeOK, Collection, FencedFirst, Claimed, tokenVars, tableVars, faultVars,
      replicaVars, gcVars, fixedVars
<1>1. ASSUME NEW t \in Token,
             \/ Make(t) \/ Close(t) \/ ReleaseLocal(t) \/ Ask(t) \/ Serve(t) \/ ServeLate(t)
             \/ Bind(t) \/ GiveUp(t) \/ OwnerGone(t)
      PROVE  Collection'
  BY <1>1 DEF Make, Close, ReleaseLocal, Ask, Serve, ServeLate, ServeAsk, Bind, GiveUp, OwnerGone
<1>2. ASSUME NEW t \in Token, ServeRelease(t)
      PROVE  Collection'
  BY <1>2 DEF ServeRelease, DriveDirect, Drivers
<1>3. ASSUME NEW n \in Nodes, ProducerEnds(n)
      PROVE  Collection'
  BY <1>3 DEF ProducerEnds, Publish
<1>4. ASSUME NEW n \in Nodes, NEW h \in Token, Localize(n, h) \/ Unpin(n, h) \/ Report(n, h)
      PROVE  Collection'
  BY <1>4 DEF Localize, Unpin, Report
<1>5. ASSUME NEW n \in Nodes, DropOwned(n) \/ Clean(n) \/ Settle(n)
      PROVE  Collection'
  BY <1>5 DEF DropOwned, Clean, Settle
<1>6. ASSUME NEW n \in Nodes, NodeDeath(n)
      PROVE  Collection'
  BY <1>6 DEF NodeDeath
<1>7. CASE TakeCheck
  BY <1>7 DEF TakeCheck
<1>8. ASSUME NEW d \in Drivers, DriverStep(d)
      PROVE  Collection'
  <2> USE DEF At, Goto
  <2>1. CASE Begin(d)
    BY <2>1 DEF Begin, Collectable
  <2>2. CASE Fence(d)
    BY <2>2 DEF Fence, GcsFails
  <2>3. CASE Child(d)
    BY <2>3 DEF Child
  <2>4. CASE Graph(d)
    BY <2>4 DEF Graph, GcsFails
  <2>5. CASE DropsDone(d)
    BY <2>5 DEF DropsDone
  <2>6. CASE Finish(d)
    BY <2>6 DEF Finish, NoWork
  <2>7. ASSUME NEW n \in Nodes, Drop(d, n)
        PROVE  Collection'
    BY <2>7 DEF Drop
  <2> QED
    BY <1>8, <2>1, <2>2, <2>3, <2>4, <2>5, <2>6, <2>7 DEF DriverStep
<1>9. ASSUME NEW p \in Crashes, Exit(p)
      PROVE  Collection'
  BY <1>9 DEF Exit
<1>10. ASSUME NEW p \in down, ProcessDeath(p)
       PROVE  Collection'
  BY <1>10 DEF ProcessDeath, DriveDirect, Drivers
<1>11. CASE Drain \/ CloseProtocol
  BY <1>11 DEF Drain, CloseProtocol
<1>12. CASE UNCHANGED vars
  BY <1>12 DEF vars
<1> QED
  BY <1>1, <1>2, <1>3, <1>4, <1>5, <1>6, <1>7, <1>8, <1>9, <1>10, <1>11, <1>12
     DEF Next, Tokens, Replicas

\* Where the copies are.
LEMMA CopiesKept ==
    ASSUME OwnerInv, [Next]_vars
    PROVE  CopiesKnown'
<1> USE DEF OwnerInv, TypeOK, CopiesKnown, Known, Late, Up, tokenVars, tableVars, faultVars, replicaVars,
      gcVars, fixedVars
<1>1. ASSUME NEW t \in Token,
             \/ Make(t) \/ Close(t) \/ ReleaseLocal(t) \/ Ask(t) \/ Serve(t) \/ ServeLate(t)
             \/ Bind(t) \/ GiveUp(t) \/ ServeRelease(t) \/ OwnerGone(t)
      PROVE  CopiesKnown'
  BY <1>1 DEF Make, Close, ReleaseLocal, Ask, Serve, ServeLate, ServeAsk, Bind, GiveUp,
     ServeRelease, OwnerGone
<1>2. ASSUME NEW n \in Nodes, ProducerEnds(n)
      PROVE  CopiesKnown'
  BY <1>2 DEF ProducerEnds, Publish, Collection
<1>3. ASSUME NEW n \in Nodes, NEW h \in Token, Localize(n, h) \/ Unpin(n, h)
      PROVE  CopiesKnown'
  <2>1. \A m \in bytes' : Known(m)'
    BY <1>3, ZenonT(60) DEF Localize, Unpin
  <2>2. state = "PENDING" => bytes' = {}
    BY <1>3 DEF Localize, Unpin
  <2>3. bytes' \cap (down \cup dropped) = {}
    BY <1>3 DEF Localize, Localizable, Unpin
  <2> QED
    BY <1>3, <2>1, <2>2, <2>3 DEF Localize, Unpin
<1>4. ASSUME NEW n \in Nodes, NEW h \in Token, Report(n, h)
      PROVE  CopiesKnown'
  <2>1. \A m \in Nodes : m # n => /\ cleanup'[m] = cleanup[m]
                                 /\ \A k \in Token : <<m, k>> \in reports => <<m, k>> \in reports'
    BY <1>4 DEF Report, Enqueued
  <2>2. CASE coll = "ACTIVE" /\ n \notin installed
    <3>1. cleanup' = cleanup /\ locations' = locations \cup {n} /\ state' = "STORED"
      BY <1>4, <2>2 DEF Report
    <3>2. \A m \in bytes : Known(m)'
      BY <1>4, <2>1, <2>2, <3>1 DEF Report
    <3> QED
      BY <1>4, <3>1, <3>2 DEF Report
  <2>3. CASE coll = "ACTIVE" /\ n \in installed
    <3>1. UNCHANGED <<cleanup, locations, state>>
      BY <1>4, <2>3 DEF Report
    <3>2. n \notin bytes /\ coll' = coll /\ todo' = todo /\ bytes' = bytes
      BY <1>4, <2>3 DEF Report
    <3>3. \A m \in bytes : Known(m)'
      BY <2>1, <3>1, <3>2
    <3> QED
      BY <1>4, <3>1, <3>3 DEF Report
  <2>4. CASE coll # "ACTIVE"
    <3>1. cleanup' = Enqueued(n) /\ UNCHANGED <<locations, state>>
      BY <1>4, <2>4 DEF Report
    <3>2. n \in bytes => cleanup'[n] \in Late
      BY <3>1 DEF Enqueued
    <3>3. \A m \in Nodes : cleanup'[m] = "done" => m \in down \cup dropped
      BY <3>1 DEF Enqueued
    <3>4. \A m \in bytes : Known(m)'
      BY <1>4, <2>1, <2>4, <3>1, <3>2 DEF Report
    <3> QED
      BY <1>4, <2>4, <3>1, <3>3, <3>4 DEF Report
  <2> QED
    BY <2>2, <2>3, <2>4
<1>5. ASSUME NEW n \in Nodes, DropOwned(n)
      PROVE  CopiesKnown'
  BY <1>5 DEF DropOwned, DropAt
<1>6. ASSUME NEW n \in Nodes, Clean(n)
      PROVE  CopiesKnown'
  BY <1>6 DEF Clean
<1>7. ASSUME NEW n \in Nodes, Settle(n)
      PROVE  CopiesKnown'
  BY <1>7, ZenonT(60) DEF Settle, DropAt, Collection
<1>8. ASSUME NEW n \in Nodes, NodeDeath(n)
      PROVE  CopiesKnown'
  BY <1>8, ZenonT(40) DEF NodeDeath
<1>9. CASE TakeCheck
  BY <1>9 DEF TakeCheck
<1>10. ASSUME NEW d \in Drivers, DriverStep(d)
       PROVE  CopiesKnown'
  <2> USE DEF At, Goto
  <2>1. CASE Begin(d)
    <3>1. CASE ~LatePending /\ Collectable /\ coll' = "COLLECTING" /\ todo'.drops = locations
      BY <2>1, <3>1 DEF Begin, Collectable
    <3>2. CASE UNCHANGED <<coll, todo>>
      BY <2>1, <3>2 DEF Begin
    <3>3. \/ ~LatePending /\ Collectable /\ coll' = "COLLECTING" /\ todo'.drops = locations
          \/ UNCHANGED <<coll, todo>>
      BY <2>1 DEF Begin
    <3> QED
      BY <3>1, <3>2, <3>3
  <2>2. CASE Fence(d) \/ Child(d) \/ Graph(d) \/ DropsDone(d)
    BY <2>2 DEF Fence, Child, Graph, DropsDone, GcsFails
  <2>3. CASE Finish(d)
    BY <2>3 DEF Finish, Done, LatePending
  <2>4. ASSUME NEW n \in Nodes, Drop(d, n)
        PROVE  CopiesKnown'
    <3>1. CASE DropAt(n) /\ todo' = [todo EXCEPT !.drops = @ \ {n}]
      <4>1. state # "PENDING"
        BY <2>4 DEF Drop, Collection, Claimed
      <4> QED
        BY <2>4, <3>1, <4>1 DEF Drop, DropAt
    <3>2. CASE UNCHANGED <<todo, bytes, dropped>>
      BY <2>4, <3>2 DEF Drop
    <3> QED
      BY <2>4, <3>1, <3>2 DEF Drop
  <2> QED
    BY <1>10, <2>1, <2>2, <2>3, <2>4 DEF DriverStep
<1>11. ASSUME NEW p \in Crashes, Exit(p)
       PROVE  CopiesKnown'
  <2>1. bytes' \subseteq bytes /\ bytes' \cap (down' \cup dropped') = {}
    BY <1>11 DEF Exit
  <2>2. \A n \in bytes', h \in Token : <<n, h>> \in reports => <<n, h>> \in reports'
    BY <1>11, <2>1 DEF Exit
  <2>3. \A n \in Nodes : cleanup[n] = "done" => n \in down' \cup dropped'
    BY <1>11 DEF Exit
  <2>4. state = "PENDING" => dropped' = {}
    BY <1>11 DEF Exit
  <2> QED
    BY <1>11, <2>1, <2>2, <2>3, <2>4 DEF Exit
<1>12. ASSUME NEW p \in down, ProcessDeath(p)
       PROVE  CopiesKnown'
  BY <1>12 DEF ProcessDeath
<1>13. CASE Drain \/ CloseProtocol
  BY <1>13 DEF Drain, CloseProtocol
<1>14. CASE UNCHANGED vars
  BY <1>14 DEF vars
<1> QED
  BY <1>1, <1>2, <1>3, <1>4, <1>5, <1>6, <1>7, <1>8, <1>9, <1>10, <1>11, <1>12, <1>13, <1>14
     DEF Next, Tokens, Replicas

-----------------------------------------------------------------------------
\* The invariant the theorems below rest on.
THEOREM OwnerInvariant == Spec => []OwnerInv
<1>1. Init => OwnerInv
  <2> SUFFICES ASSUME Init
               PROVE  OwnerInv
    OBVIOUS
  <2>1. TypeOK
    <3>1. PICK use \in Uses : used = use.tokens /\ published = use.published
      BY DEF Init
    <3>2. use = [tokens |-> used, published |-> published] /\ used \subseteq Token
      BY <3>1, ObjectOwnerAssumption
    <3>3. [tokens |-> used, published |-> published] \in Uses
      BY <3>2
    <3>4. todo \in [fence : BOOLEAN, child : BOOLEAN, graph : BOOLEAN, drops : SUBSET Nodes]
      BY DEF Init, NoWork
    <3>5. active \subseteq Token /\ faults \in 0..MaxFaults
      BY <3>2, ObjectOwnerAssumption DEF Init
    <3>6. /\ phase \in [Token -> Phases]
          /\ cleanup \in [Nodes -> {"none", "pending", "calling", "done"}]
          /\ gc \in [Drivers -> {"idle", "begin", "fence", "child", "graph", "drops", "finish"}]
      BY DEF Init, Phases
    <3> QED
      BY <3>3, <3>4, <3>5, <3>6 DEF Init, TypeOK
  <2>2. References
    BY ObjectOwnerAssumption DEF Init, References
  <2>3. Collection
    BY DEF Init, Collection, FencedFirst, Claimed
  <2>4. CopiesKnown
    BY DEF Init, CopiesKnown
  <2> QED
    BY <2>1, <2>2, <2>3, <2>4 DEF OwnerInv
<1>2. OwnerInv /\ [Next]_vars => OwnerInv'
  BY TypeOKKept, ReferencesKept, CollectionKept, CopiesKept DEF OwnerInv
<1> QED
  BY <1>1, <1>2, PTL DEF Spec

\* A reference a live process holds is in the owner's table and the object is there for it
\* (acquire_exported_reference, release_*, begin_collection, _shutdown_finalizable_locked).
THEOREM HeldReferenceKept == Spec => []HeldIsKept
<1>1. OwnerInv => HeldIsKept
  BY DEF OwnerInv, References, HeldIsKept
<1> QED
  BY <1>1, OwnerInvariant, PTL

\* A token that was given back, or whose holder is known dead, is not in the owner's table
\* again, and the claim of a collection excludes every token.
THEOREM NothingReturns == Spec => []NothingComesBack
<1>1. OwnerInv => NothingComesBack
  BY DEF OwnerInv, References, NothingComesBack
<1> QED
  BY <1>1, OwnerInvariant, PTL

\* No copy is forgotten when the metadata goes (ReplicaCleanupQueue).
THEOREM NoCopyForgotten == Spec => []CopiesAccountedFor
<1>1. OwnerInv => CopiesAccountedFor
  BY DEF OwnerInv, TypeOK, CopiesKnown, Known, CopiesAccountedFor, Late
<1> QED
  BY <1>1, OwnerInvariant, PTL

\* The GCS closes the publication before children are released and bytes deleted.
THEOREM FenceFirstKept == Spec => []FencedFirst
<1>1. OwnerInv => FencedFirst
  BY DEF OwnerInv, Collection
<1> QED
  BY <1>1, OwnerInvariant, PTL
=============================================================================

------------------------- MODULE ClusterControlProofs -------------------------
(***************************************************************************)
(* Proofs about the control plane (module ClusterControl): what holds of   *)
(* the membership, of the placement groups and of the Actors whatever the  *)
(* numbers of Nodes, Workers, groups, Actors and calls.  Each part has its *)
(* inductive invariant, the lemmas about its operators, one lemma for each *)
(* action, and its theorems.                                               *)
(***************************************************************************)
EXTENDS ClusterControl, FiniteSums, WellFoundedInduction, TLAPS

-----------------------------------------------------------------------------
(* The inductive invariant of the membership *)

\* The registry of the GCS: memberships only lose Nodes, and a Node that left did so
\* at some epoch.
Registry ==
    /\ use \in Uses /\ Epoch >= 1 /\ history[1] = use.nodes
    /\ \A i, j \in 1..Epoch : i <= j => history[j] \subseteq history[i]
    /\ \A n \in Dead : \E e \in 2..Epoch : n \in history[e - 1] \ history[e]

\* What is observed has exited; what the handler is on, or has answered, has left.
Observed ==
    /\ \A n \in Nodes : obs[n] # "idle" => n \in use.nodes \ up
    /\ \A n \in Nodes : handler[n] # "idle" => n \in Dead /\ n \notin up
    /\ \A n \in recorded : n \notin up /\ DeathEpoch(n) <= latest

\* The transaction goes through the survivors one by one before it names a death.
Transaction ==
    /\ tx.step = "none" => tx = NoTx
    /\ tx.step # "none" =>
          /\ tx.by \in use.nodes \ up
          /\ tx.epoch \in 1..latest
    /\ tx.step = "install" =>
          /\ tx.deaths = {}
          /\ \A m \in history[tx.epoch] \ tx.todo : installed[m] >= tx.epoch

\* A death that anybody was told of, or is about to be.
Told == notified \cup tx.deaths \cup UNION {view[m].deaths \cup seen[m] : m \in Nodes}

ToldLast ==
    \A n \in Told : n \in recorded /\ \A m \in live : installed[m] >= DeathEpoch(n)

\* What is owed to a dead owner: the fence of a live Node is pending, or it is
\* installed and the copies behind it are deleted.
Fences ==
    /\ sweep # NoSweep => sweep \in fences
    /\ \A w \in gone, m \in live : <<w, m>> \in effects \/ <<w, m>> \in fences \ copies

DeathInv == DeathTypeOK /\ Registry /\ Observed /\ Transaction /\ ToldLast /\ Fences

-----------------------------------------------------------------------------
(* The registry *)

\* The epoch of a death is one at which the Node left, and the only one.
LEMMA DeathEpochIs ==
    ASSUME Registry, history \in Seq(SUBSET Nodes), NEW n \in Dead
    PROVE  /\ DeathEpoch(n) \in 2..Epoch /\ n \in history[DeathEpoch(n) - 1] \ history[DeathEpoch(n)]
           /\ \A e \in 2..Epoch : n \in history[e - 1] \ history[e] => e = DeathEpoch(n)
<1>1. DeathEpoch(n) \in 2..Epoch /\ n \in history[DeathEpoch(n) - 1] \ history[DeathEpoch(n)]
  BY DEF Registry, DeathEpoch
<1>2. ASSUME NEW e \in 2..Epoch, n \in history[e - 1] \ history[e] PROVE e = DeathEpoch(n)
  <2>. DEFINE d == DeathEpoch(n)
  <2>0. Epoch \in Nat
    BY DEF Epoch
  <2>1. d \in 2..Epoch /\ n \in history[d - 1] \ history[d]
    BY <1>1
  <2>. HIDE DEF d
  <2>2. ~(e < d)
    <3>. SUFFICES ASSUME e < d PROVE FALSE
      OBVIOUS
    <3>1. e \in 1..Epoch /\ d - 1 \in 1..Epoch /\ e <= d - 1
      BY <2>0, <2>1
    <3>. QED BY <3>1, <2>1, <1>2 DEF Registry
  <2>3. ~(d < e)
    <3>. SUFFICES ASSUME d < e PROVE FALSE
      OBVIOUS
    <3>1. d \in 1..Epoch /\ e - 1 \in 1..Epoch /\ d <= e - 1
      BY <2>0, <2>1
    <3>. QED BY <3>1, <2>1, <1>2 DEF Registry
  <2>4. e = d
    BY <2>0, <2>1, <2>2, <2>3
  <2>. QED BY <2>4 DEF d
<1>. QED BY <1>1, <1>2

\* What the registry does in a step, as far as the rest is concerned: it stays, or one
\* Node more leaves it and the epochs of the older deaths stay what they were.
Grows ==
    /\ Registry' /\ use' = use /\ Epoch' \in Nat /\ Epoch <= Epoch'
    /\ live' \subseteq live /\ Dead \subseteq Dead'
    /\ \A i \in 1..Epoch : history'[i] = history[i]
    /\ \A n \in Dead : DeathEpoch(n)' = DeathEpoch(n)

\* What is not touched of the GCS's registry stays as it was.
LEMMA RegistryStays ==
    ASSUME Registry, history \in Seq(SUBSET Nodes), history' = history, use' = use
    PROVE  Grows
BY DEF Registry, Grows, Epoch, live, Dead, DeathEpoch

\* The registry only grows: a death is committed once and its epoch is never given again.
LEMMA RegistryGrows ==
    ASSUME Registry, history \in Seq(SUBSET Nodes), NEW k \in live,
           history' = Append(history, live \ {k}), use' = use
    PROVE  Grows /\ live' = live \ {k} /\ k \in Dead'
<1>1. Epoch' = Epoch + 1 /\ Epoch \in Nat \ {0}
  BY DEF Epoch, Registry
<1>2. \A i \in 1..Epoch : history'[i] = history[i]
  BY DEF Epoch
<1>3. live' = live \ {k} /\ history'[Epoch'] = live \ {k}
  BY DEF Epoch, live
<1>4. \A e \in 1..Epoch : live \subseteq history[e]
  BY <1>1 DEF Registry, live
<1>5. k \in use.nodes
  BY <1>1, <1>4 DEF Registry
<1>6. Dead' = Dead \cup {k}
  BY <1>3, <1>5 DEF Dead
<1>7. Registry'
  <2>1. use' \in Uses /\ Epoch' >= 1 /\ history'[1] = use'.nodes
    <3>1. 1 \in 1..Epoch /\ Epoch' >= 1
      BY <1>1
    <3>2. history'[1] = history[1]
      BY <1>2, <3>1
    <3>. QED BY <3>1, <3>2 DEF Registry
  <2>2. ASSUME NEW i \in 1..Epoch', NEW j \in 1..Epoch', i <= j PROVE history'[j] \subseteq history'[i]
    <3>1. CASE j = Epoch + 1
      <4>1. CASE i = Epoch + 1
        BY <3>1, <4>1
      <4>2. CASE i \in 1..Epoch
        BY <1>1, <1>2, <1>3, <1>4, <3>1, <4>2
      <4>3. i = Epoch + 1 \/ i \in 1..Epoch
        BY <1>1
      <4>. QED BY <4>1, <4>2, <4>3
    <3>2. CASE j \in 1..Epoch
      <4>1. i \in 1..Epoch
        BY <1>1, <2>2, <3>2
      <4>2. history[j] \subseteq history[i]
        BY <2>2, <3>2, <4>1 DEF Registry
      <4>. QED BY <1>2, <3>2, <4>1, <4>2
    <3>3. j = Epoch + 1 \/ j \in 1..Epoch
      BY <1>1
    <3>. QED BY <3>1, <3>2, <3>3
  <2>3. ASSUME NEW n \in Dead' PROVE \E e \in 2..Epoch' : n \in history'[e - 1] \ history'[e]
    <3>1. CASE n = k
      <4>1. Epoch' \in 2..Epoch' /\ Epoch' - 1 = Epoch /\ Epoch \in 1..Epoch
        BY <1>1
      <4>2. history'[Epoch' - 1] = live
        BY <1>2, <4>1 DEF live
      <4>. QED BY <4>1, <4>2, <1>3, <3>1
    <3>2. CASE n \in Dead
      <4>1. PICK e \in 2..Epoch : n \in history[e - 1] \ history[e]
        BY <3>2 DEF Registry
      <4>2. e \in 2..Epoch' /\ e \in 1..Epoch /\ e - 1 \in 1..Epoch
        BY <1>1
      <4>. QED BY <1>2, <4>1, <4>2
    <3>. QED BY <1>6, <3>1, <3>2
  <2>. QED BY <2>1, <2>2, <2>3 DEF Registry
<1>8. ASSUME NEW n \in Dead PROVE DeathEpoch(n)' = DeathEpoch(n)
  <2>. DEFINE d == DeathEpoch(n)
  <2>1. d \in 2..Epoch /\ n \in history[d - 1] \ history[d]
    BY DeathEpochIs
  <2>2. d \in 2..Epoch' /\ n \in history'[d - 1] \ history'[d]
    <3>. HIDE DEF d
    <3>1. d \in 1..Epoch /\ d - 1 \in 1..Epoch /\ d \in 2..Epoch'
      BY <1>1, <2>1
    <3>. QED BY <1>2, <2>1, <3>1
  <2>3. DeathEpoch(n)' \in 2..Epoch' /\ n \in history'[DeathEpoch(n)' - 1] \ history'[DeathEpoch(n)']
    BY <2>2 DEF DeathEpoch
  <2>. DEFINE c == DeathEpoch(n)'
  <2>4. c \in 2..Epoch
    <3>1. c # Epoch'
      <4>. SUFFICES ASSUME c = Epoch' PROVE FALSE
        OBVIOUS
      <4>1. Epoch' - 1 = Epoch /\ Epoch \in 1..Epoch
        BY <1>1
      <4>2. history'[Epoch' - 1] = live
        BY <1>2, <4>1 DEF live
      <4>. QED BY <2>3, <4>2 DEF Dead
    <3>2. c \in 2..Epoch'
      BY <2>3
    <3>. HIDE DEF c
    <3>. QED BY <1>1, <3>1, <3>2
  <2>5. n \in history[c - 1] \ history[c]
    <3>1. n \in history'[c - 1] \ history'[c]
      BY <2>3
    <3>. HIDE DEF c
    <3>2. c \in 1..Epoch /\ c - 1 \in 1..Epoch
      BY <1>1, <2>4
    <3>. QED BY <1>2, <3>1, <3>2
  <2>. QED BY <2>4, <2>5, DeathEpochIs
<1>9. Epoch' \in Nat /\ Epoch <= Epoch' /\ use' = use
  BY <1>1
<1>. QED BY <1>2, <1>3, <1>6, <1>7, <1>8, <1>9 DEF Grows

-----------------------------------------------------------------------------
(* The membership's invariant, step by step *)

\* What the parts of the invariant say of primed and unprimed state when the registry stays.
LEMMA SameRegistry ==
    ASSUME DeathTypeOK, Registry, UNCHANGED <<use, history>>
    PROVE  Registry' /\ Epoch' = Epoch /\ live' = live /\ Dead' = Dead /\ \A n : DeathEpoch(n)' = DeathEpoch(n)
BY DEF Registry, Epoch, live, Dead, DeathEpoch

\* A process that exits, or an Actor's Worker.
LEMMA ExitKeeps ==
    ASSUME DeathInv, up' \subseteq up, exits' \in 0..use.exits,
           UNCHANGED <<use, history, handler, driverVars, nodeVars, fenceVars>>
    PROVE  DeathInv'
<1>. USE DEF driverVars, nodeVars, fenceVars
<1>1. Registry' /\ Epoch' = Epoch /\ live' = live /\ Dead' = Dead /\ \A n : DeathEpoch(n)' = DeathEpoch(n)
  BY SameRegistry DEF DeathInv
<1>2. DeathTypeOK'
  BY <1>1 DEF DeathInv, DeathTypeOK
<1>3. Observed' /\ Transaction'
  BY <1>1 DEF DeathInv, Observed, Transaction
<1>4. ToldLast'
  BY <1>1 DEF DeathInv, ToldLast, Told
<1>5. Fences'
  BY <1>1 DEF DeathInv, Fences
<1>. QED BY <1>1, <1>2, <1>3, <1>4, <1>5 DEF DeathInv

\* The handler of a Node death goes on to the Actors.
LEMMA HandlerKeeps ==
    ASSUME DeathInv, NEW n \in Nodes, handler[n] # "idle",
           handler' \in {handler, [handler EXCEPT ![n] = "actors"]},
           UNCHANGED <<processVars, history, driverVars, nodeVars, fenceVars>>
    PROVE  DeathInv'
<1>. USE DEF processVars, driverVars, nodeVars, fenceVars
<1>1. Registry' /\ Epoch' = Epoch /\ live' = live /\ Dead' = Dead /\ \A k : DeathEpoch(k)' = DeathEpoch(k)
  BY SameRegistry DEF DeathInv
<1>2. DeathTypeOK'
  BY <1>1 DEF DeathInv, DeathTypeOK
<1>3. Observed'
  BY <1>1 DEF DeathInv, DeathTypeOK, Observed
<1>4. ToldLast' /\ Transaction'
  BY <1>1 DEF DeathInv, ToldLast, Told, Transaction
<1>5. Fences'
  BY <1>1 DEF DeathInv, Fences
<1>. QED BY <1>1, <1>2, <1>3, <1>4, <1>5 DEF DeathInv

\* A step on the fences alone.
LEMMA FencesKeep ==
    ASSUME DeathInv, Fences',
           UNCHANGED <<processVars, history, handler, driverVars, nodeVars>>,
           gone' \subseteq Workers, effects' \subseteq Workers \X Nodes, fences' \subseteq Workers \X Nodes,
           copies' \subseteq Workers \X Nodes, pins' \subseteq Workers \X Nodes,
           sweep' \in (Workers \X Nodes) \cup {NoSweep}
    PROVE  DeathInv'
<1>. USE DEF processVars, driverVars, nodeVars
<1>1. Registry' /\ Epoch' = Epoch /\ live' = live /\ Dead' = Dead /\ \A k : DeathEpoch(k)' = DeathEpoch(k)
  BY SameRegistry DEF DeathInv
<1>2. DeathTypeOK'
  <2>1. \A s \in {effects', fences', copies', pins'} : s \subseteq Workers \X Nodes
    OBVIOUS
  <2>2. /\ gone' \subseteq Workers /\ sweep' \in (Workers \X Nodes) \cup {NoSweep}
        /\ up' \subseteq use'.nodes \cup use'.workers /\ exits' \in 0..use'.exits
    BY DEF DeathInv, DeathTypeOK
  <2>3. QED  BY <1>1, <2>1, <2>2 DEF DeathInv, DeathTypeOK
<1>3. Observed' /\ Transaction'
  BY <1>1 DEF DeathInv, Observed, Transaction
<1>4. ToldLast'
  BY <1>1 DEF DeathInv, ToldLast, Told
<1>. QED BY <1>1, <1>2, <1>3, <1>4 DEF DeathInv

\* A step of the Driver or of an owner on what they keep.
LEMMA DriverKeeps ==
    ASSUME DeathInv, UNCHANGED <<processVars, history, handler, latest, recorded, fenceVars>>,
           obs' \in [Nodes -> {"idle", "report", "wait", "done"}],
           \A n \in Nodes : obs'[n] # "idle" => n \in use.nodes \ up,
           tx' \in [by : Nodes \cup {0}, step : {"none", "install", "publish", "handle"},
                    epoch : 0..Epoch, todo : SUBSET Nodes, deaths : SUBSET Dead],
           installed' \in [Nodes -> 1..Epoch],
           view' \in [Nodes -> [epoch : 0..Epoch, deaths : SUBSET Dead]],
           seen' \in [Nodes -> SUBSET Dead], notified' \subseteq recorded,
           Transaction', ToldLast'
    PROVE  DeathInv'
<1>. USE DEF processVars, fenceVars
<1>1. Registry' /\ Epoch' = Epoch /\ live' = live /\ Dead' = Dead /\ \A k : DeathEpoch(k)' = DeathEpoch(k)
  BY SameRegistry DEF DeathInv
<1>2. DeathTypeOK'
  BY <1>1 DEF DeathInv, DeathTypeOK
<1>3. Observed'
  BY <1>1 DEF DeathInv, Observed
<1>5. Fences'
  BY <1>1 DEF DeathInv, Fences
<1>. QED BY <1>1, <1>2, <1>3, <1>5 DEF DeathInv

\* The commitment of dead owners fences the live Nodes that stay.
LEMMA CommitKeepsFences ==
    ASSUME DeathInv, NEW ws \in SUBSET Workers, NEW ns, ns \subseteq live, live' \subseteq ns,
           CommitOwners(ws, ns), UNCHANGED <<fences, copies, pins, sweep>>
    PROVE  /\ Fences'
           /\ gone' \subseteq Workers /\ effects' \subseteq Workers \X Nodes
<1>1. live \subseteq Nodes
  BY DEF DeathInv, DeathTypeOK, live, Epoch, Registry
<1>2. gone' \subseteq Workers /\ effects' \subseteq Workers \X Nodes
  BY <1>1 DEF CommitOwners, DeathInv, DeathTypeOK
<1>3. ASSUME NEW w \in gone', NEW m \in live' PROVE <<w, m>> \in effects' \/ <<w, m>> \in fences' \ copies'
  <2>1. m \in ns /\ m \in live
    OBVIOUS
  <2>2. CASE w \in gone
    BY <2>1, <2>2 DEF CommitOwners, DeathInv, Fences
  <2>3. CASE w \in ws \ gone
    <3>1. <<w, m>> \in (ws \ gone) \X ns
      BY <2>1, <2>3
    <3>. QED BY <2>1, <3>1 DEF CommitOwners
  <2>. QED BY <2>2, <2>3 DEF CommitOwners
<1>4. sweep' # NoSweep => sweep' \in fences'
  BY DEF DeathInv, Fences
<1>. QED BY <1>2, <1>3, <1>4 DEF Fences

\* report_worker_death
LEMMA ReportWorkerDeathSound ==
    ASSUME DeathInv, NEW w \in Workers, ReportWorkerDeath(w)
    PROVE  DeathInv'
<1>. USE DEF ReportWorkerDeath
<1>1. live' = live
  BY DEF live, Epoch
<1>2. /\ Fences'
      /\ gone' \subseteq Workers /\ effects' \subseteq Workers \X Nodes
  BY <1>1, CommitKeepsFences
<1>. QED BY <1>2, FencesKeep DEF DeathInv, DeathTypeOK

\* A copy is stored, pinned, released.
LEMMA CopySound ==
    ASSUME DeathInv, NEW w \in use.workers, NEW m \in Nodes, Seal(w, m) \/ Pin(w, m) \/ Unpin(w, m)
    PROVE  DeathInv'
<1>1. w \in Workers
  BY NodeDeathsAssumption DEF DeathInv, Registry
<1>2. live' = live
  BY DEF Seal, Pin, Unpin, fenceRest, live, Epoch
<1>3. Fences'
  BY <1>2 DEF Seal, Pin, Unpin, fenceRest, DeathInv, Fences
<1>4. <<w, m>> \in Workers \X Nodes
  BY <1>1
<1>5. copies' \subseteq Workers \X Nodes /\ pins' \subseteq Workers \X Nodes
  BY <1>4 DEF Seal, Pin, Unpin, DeathInv, DeathTypeOK
<1>6. /\ UNCHANGED <<processVars, history, handler, driverVars, nodeVars, gone, effects, fences, sweep>>
      /\ gone \subseteq Workers /\ effects \subseteq Workers \X Nodes /\ fences \subseteq Workers \X Nodes
      /\ sweep \in (Workers \X Nodes) \cup {NoSweep}
  BY DEF Seal, Pin, Unpin, fenceRest, DeathInv, DeathTypeOK
<1>. QED BY <1>3, <1>5, <1>6, FencesKeep

\* The fence first, then the sweep.
LEMMA FenceFirstSound ==
    ASSUME DeathInv, NEW w \in use.workers, NEW m \in Nodes, FenceFirst(w, m)
    PROVE  DeathInv'
<1>1. w \in Workers
  BY NodeDeathsAssumption DEF DeathInv, Registry
<1>2. live' = live
  BY DEF FenceFirst, fenceRest, live, Epoch
<1>3. Fences'
  BY <1>2 DEF FenceFirst, fenceRest, DeathInv, Fences
<1>. QED BY <1>1, <1>3, FencesKeep DEF FenceFirst, fenceRest, DeathInv, DeathTypeOK

\* The second critical section of a fence: what no lease pins is deleted.
LEMMA SweepSound ==
    ASSUME DeathInv, Sweep
    PROVE  DeathInv'
<1>1. live' = live
  BY DEF Sweep, fenceRest, live, Epoch
<1>2. sweep \in fences
  BY DEF Sweep, DeathInv, Fences
<1>3. Fences'
  <2>1. ASSUME NEW w \in gone, NEW m \in live, <<w, m>> \notin effects' PROVE <<w, m>> \in fences \ copies'
    <3>1. CASE <<w, m>> = sweep
      BY <1>2, <2>1, <3>1 DEF Sweep, DeathInv, Fences
    <3>2. CASE <<w, m>> # sweep
      BY <2>1, <3>2 DEF Sweep, DeathInv, Fences
    <3>. QED BY <3>1, <3>2
  <2>. QED BY <1>1, <2>1 DEF Sweep, fenceRest, Fences
<1>. QED BY <1>3, FencesKeep DEF Sweep, fenceRest, DeathInv, DeathTypeOK

-----------------------------------------------------------------------------
(* The report of a Node death *)

\* The critical section: the registry and the fences together.
LEMMA ReportNodeDeathSound ==
    ASSUME DeathInv, NEW n \in Nodes, ReportNodeDeath(n)
    PROVE  DeathInv' /\ Grows /\ live' = live \ {n}
<1>. USE DEF ReportNodeDeath, processVars, driverVars, nodeVars
<1>0. history \in Seq(SUBSET Nodes) /\ Registry /\ n \in use.nodes \ up /\ Epoch \in Nat
  BY DEF DeathInv, DeathTypeOK, Observed, Epoch
<1>1. Grows /\ live' = live \ {n} /\ n \in Dead'
  <2>1. CASE n \in live
    BY <1>0, <2>1, RegistryGrows
  <2>2. CASE n \notin live
    BY <1>0, <2>2, RegistryStays DEF Dead, live, Epoch
  <2>. QED BY <2>1, <2>2
<1>2. history' \in Seq(SUBSET Nodes)
  <2>1. live \in SUBSET Nodes
    BY <1>0 DEF live, Epoch, Registry
  <2>. QED BY <1>0, <2>1
<1>3. /\ Fences'
      /\ gone' \subseteq Workers /\ effects' \subseteq Workers \X Nodes
  <2>1. {w \in use.workers : Home[w] = n} \in SUBSET Workers
    BY <1>0, NodeDeathsAssumption DEF Registry
  <2>. QED BY <1>1, <2>1, CommitKeepsFences
<1>4. DeathTypeOK'
  <2>. USE <1>0, <1>1, <1>2, <1>3 DEF Grows, DeathInv
  <2>1. latest' \in 1..Epoch' /\ installed' \in [Nodes -> 1..Epoch']
    BY DEF DeathTypeOK
  <2>2. recorded' \subseteq Dead' /\ notified' \subseteq recorded' /\ seen' \in [Nodes -> SUBSET Dead']
    BY DEF DeathTypeOK
  <2>3. tx' \in [by : Nodes \cup {0}, step : {"none", "install", "publish", "handle"},
                 epoch : 0..Epoch', todo : SUBSET Nodes, deaths : SUBSET Dead']
    BY DEF DeathTypeOK
  <2>4. view' \in [Nodes -> [epoch : 0..Epoch', deaths : SUBSET Dead']]
    BY DEF DeathTypeOK
  <2>5. handler' \in [Nodes -> {"idle", "groups", "actors"}]
    BY DEF DeathTypeOK
  <2>6. up' \subseteq use'.nodes \cup use'.workers /\ exits' \in 0..use'.exits
        /\ obs' \in [Nodes -> {"idle", "report", "wait", "done"}]
    BY DEF DeathTypeOK
  <2>7. /\ \A s \in {effects', fences', copies', pins'} : s \subseteq Workers \X Nodes
        /\ sweep' \in (Workers \X Nodes) \cup {NoSweep}
    BY DEF DeathTypeOK
  <2>. QED BY <1>2, <1>3, <2>1, <2>2, <2>3, <2>4, <2>5, <2>6, <2>7 DEF DeathTypeOK
<1>5. Observed'
  BY <1>0, <1>1 DEF Grows, DeathInv, DeathTypeOK, Observed
<1>6. Transaction'
  <2>1. latest \in 1..Epoch /\ (tx.step # "none" => tx.epoch \in 1..latest)
    BY DEF DeathInv, DeathTypeOK, Transaction
  <2>2. tx.step # "none" => tx.epoch \in 1..Epoch
    BY <1>0, <2>1
  <2>3. tx.step # "none" => history'[tx.epoch] = history[tx.epoch]
    BY <1>1, <2>2 DEF Grows
  <2>. QED BY <1>1, <2>3 DEF Grows, DeathInv, Transaction
<1>7. ToldLast'
  <2>1. Told' = Told
    BY DEF Told
  <2>2. ASSUME NEW k \in Told PROVE k \in recorded /\ \A m \in live' : installed[m] >= DeathEpoch(k)'
    <3>1. k \in recorded /\ \A m \in live : installed[m] >= DeathEpoch(k)
      BY DEF DeathInv, ToldLast
    <3>2. DeathEpoch(k)' = DeathEpoch(k) /\ live' \subseteq live
      BY <1>1, <3>1 DEF Grows, DeathInv, DeathTypeOK
    <3>. QED BY <3>1, <3>2
  <2>. QED BY <2>1, <2>2 DEF ToldLast
<1>. QED BY <1>1, <1>3, <1>4, <1>5, <1>6, <1>7 DEF Grows, DeathInv

\* The answer to the Driver.
LEMMA AnswerSound ==
    ASSUME DeathInv, NEW n \in Nodes, NEW c \in BOOLEAN, Answer(n, c)
    PROVE  DeathInv'
<1>. USE DEF Answer, processVars, driverVars, nodeVars, fenceVars
<1>0. history \in Seq(SUBSET Nodes) /\ Registry /\ n \in Dead /\ n \notin up /\ Epoch \in Nat /\ latest \in 1..Epoch
  BY DEF DeathInv, DeathTypeOK, Observed, Epoch
<1>1. Registry' /\ Epoch' = Epoch /\ live' = live /\ Dead' = Dead /\ \A k : DeathEpoch(k)' = DeathEpoch(k)
  BY SameRegistry DEF DeathInv
<1>2. DeathEpoch(n) \in 2..Epoch
  BY <1>0, DeathEpochIs
<1>3. latest' \in latest..Epoch /\ (n \in recorded' => DeathEpoch(n) <= latest' \/ n \in recorded)
  BY <1>0, <1>2 DEF DeathInv, DeathTypeOK
<1>4. DeathTypeOK'
  <2>. USE DEF DeathInv
  <2>1. latest' \in 1..Epoch'
    BY <1>0, <1>1, <1>3
  <2>2. recorded' \subseteq Dead' /\ notified' \subseteq recorded'
    BY <1>0, <1>1 DEF DeathTypeOK
  <2>3. obs' \in [Nodes -> {"idle", "report", "wait", "done"}] /\ handler' \in [Nodes -> {"idle", "groups", "actors"}]
    BY DEF DeathTypeOK
  <2>. QED BY <1>1, <2>1, <2>2, <2>3 DEF DeathTypeOK
<1>5. Observed'
  <2>1. ASSUME NEW k \in recorded' PROVE k \notin up' /\ DeathEpoch(k)' <= latest'
    <3>1. CASE k \in recorded
      <4>1. k \in Dead /\ DeathEpoch(k) \in 2..Epoch
        BY <1>0, <3>1, DeathEpochIs DEF DeathInv, DeathTypeOK
      <4>. QED BY <1>0, <1>1, <1>3, <3>1, <4>1 DEF DeathInv, Observed
    <3>2. CASE k = n /\ k \notin recorded
      BY <1>0, <1>1, <1>3, <2>1, <3>2
    <3>. QED BY <2>1, <3>1, <3>2
  <2>2. ASSUME NEW k \in Nodes PROVE /\ obs'[k] # "idle" => k \in use'.nodes \ up'
                                     /\ handler'[k] # "idle" => k \in Dead' /\ k \notin up'
    BY <1>1 DEF DeathInv, DeathTypeOK, Observed
  <2>. QED BY <2>1, <2>2 DEF Observed
<1>6. Transaction'
  BY <1>0, <1>3 DEF DeathInv, Transaction
<1>7. ToldLast'
  BY <1>1 DEF DeathInv, ToldLast, Told
<1>8. Fences'
  BY <1>1 DEF DeathInv, Fences
<1>. QED BY <1>1, <1>4, <1>5, <1>6, <1>7, <1>8 DEF DeathInv

-----------------------------------------------------------------------------
(* The Driver's death transaction *)

\* What a step of the Driver finds.
LEMMA DriverFinds ==
    ASSUME DeathInv
    PROVE  /\ Epoch \in Nat /\ latest \in 1..Epoch /\ tx.epoch \in 0..Epoch
           /\ \A e \in 1..Epoch : history[e] \subseteq Nodes /\ live \subseteq history[e]
           /\ \A n \in recorded : DeathEpoch(n) \in 2..latest
           /\ Nodes \subseteq Nat
<1>1. Epoch \in Nat /\ latest \in 1..Epoch /\ tx.epoch \in 0..Epoch /\ history \in Seq(SUBSET Nodes)
  BY DEF DeathInv, DeathTypeOK, Epoch
<1>2. ASSUME NEW e \in 1..Epoch PROVE history[e] \subseteq Nodes /\ live \subseteq history[e]
  <2>1. e <= Epoch /\ Epoch \in 1..Epoch
    BY <1>1
  <2>. QED BY <1>1, <2>1 DEF Epoch, live, DeathInv, Registry
<1>3. ASSUME NEW n \in recorded PROVE DeathEpoch(n) \in 2..latest
  <2>1. n \in Dead /\ DeathEpoch(n) <= latest
    BY DEF DeathInv, DeathTypeOK, Observed
  <2>2. DeathEpoch(n) \in 2..Epoch
    BY <1>1, <2>1, DeathEpochIs DEF DeathInv
  <2>. QED BY <1>1, <2>1, <2>2
<1>. QED BY <1>1, <1>2, <1>3, NodeDeathsAssumption

\* Nothing that anybody was told of is undone when no membership is taken back.
LEMMA ToldStays ==
    ASSUME DeathInv, UNCHANGED <<use, history, recorded>>,
           Told' \subseteq Told \cup {n \in recorded : \A m \in live : installed[m] >= DeathEpoch(n)},
           installed' \in [Nodes -> 1..Epoch], \A m \in Nodes : installed'[m] >= installed[m]
    PROVE  ToldLast'
<1>1. Registry' /\ Epoch' = Epoch /\ live' = live /\ Dead' = Dead /\ \A k : DeathEpoch(k)' = DeathEpoch(k)
  BY SameRegistry DEF DeathInv
<1>2. ASSUME NEW n \in Told' PROVE n \in recorded /\ \A m \in live : installed'[m] >= DeathEpoch(n)
  <2>1. n \in recorded /\ \A m \in live : installed[m] >= DeathEpoch(n)
    BY <1>2 DEF DeathInv, ToldLast
  <2>2. DeathEpoch(n) \in Nat /\ live \subseteq Nodes
    BY <2>1, DriverFinds DEF live, Epoch, DeathInv, Registry
  <2>3. installed \in [Nodes -> Nat] /\ installed' \in [Nodes -> Nat]
    BY DriverFinds DEF DeathInv, DeathTypeOK
  <2>. QED BY <2>1, <2>2, <2>3
<1>. QED BY <1>1, <1>2 DEF ToldLast

\* An exit is observed.
LEMMA ObserveSound ==
    ASSUME DeathInv, NEW n \in Nodes, Observe(n)
    PROVE  DeathInv'
<1>. USE DEF Observe, nodeVars
<1>1. Transaction'
  BY DEF DeathInv, Transaction, processVars
<1>2. ToldLast'
  <2>1. UNCHANGED <<use, history, recorded, installed>> /\ Told' = Told
    BY DEF Told, processVars
  <2>2. ToldLast /\ installed \in [Nodes -> 1..Epoch]
    BY DEF DeathInv, DeathTypeOK
  <2>3. Told \subseteq Told \cup {k \in recorded : \A m \in live : installed[m] >= DeathEpoch(k)}
    OBVIOUS
  <2>4. \A m \in Nodes : installed[m] \in Nat /\ installed[m] >= installed[m]
    BY <2>2 DEF Epoch
  <2>. HIDE DEF Observe, nodeVars
  <2>. QED BY <2>1, <2>2, <2>3, <2>4, ToldStays
<1>. QED BY <1>1, <1>2, DriverKeeps DEF DeathInv, DeathTypeOK, Observed

\* A transaction that ends without telling: it abandons, or its observation starts again.
LEMMA NoTxSound ==
    ASSUME DeathInv, tx.step # "none", tx' = NoTx, UNCHANGED <<txRest, notified, nodeVars>>,
           \/ UNCHANGED obs
           \/ obs' = [obs EXCEPT ![tx.by] = "report"]
           \/ obs' = [obs EXCEPT ![tx.by] = "done"]
    PROVE  DeathInv'
<1>. USE DEF txRest, nodeVars
<1>1. Transaction'
  BY DEF Transaction, NoTx
<1>2. ToldLast'
  BY ToldStays, SMTT(30) DEF DeathInv, DeathTypeOK, Told, processVars, NoTx
<1>3. obs' \in [Nodes -> {"idle", "report", "wait", "done"}] /\ \A n \in Nodes : obs'[n] # "idle" => n \in use.nodes \ up
  BY DEF DeathInv, DeathTypeOK, Observed, Transaction
<1>4. tx' \in [by : Nodes \cup {0}, step : {"none", "install", "publish", "handle"},
               epoch : 0..Epoch, todo : SUBSET Nodes, deaths : SUBSET Dead]
  BY DriverFinds DEF NoTx
<1>. QED BY <1>1, <1>2, <1>3, <1>4, DriverKeeps DEF DeathInv, DeathTypeOK

\* A transaction begins, on the latest membership that the Driver was answered.
LEMMA BeginTxSound ==
    ASSUME DeathInv, NEW n \in Nodes, BeginTx(n)
    PROVE  DeathInv'
<1>. USE DEF BeginTx, txRest, nodeVars
<1>0. latest \in 1..Epoch /\ history[latest] \subseteq Nodes /\ Epoch \in Nat
  BY DriverFinds
<1>1. Transaction'
  BY <1>0 DEF DeathInv, Transaction, Observed, processVars
<1>2. ToldLast'
  BY ToldStays, SMTT(30) DEF DeathInv, DeathTypeOK, Told, processVars
<1>3. tx' \in [by : Nodes \cup {0}, step : {"none", "install", "publish", "handle"},
               epoch : 0..Epoch, todo : SUBSET Nodes, deaths : SUBSET Dead]
  BY <1>0
<1>. QED BY <1>1, <1>2, <1>3, DriverKeeps DEF DeathInv, DeathTypeOK, Observed

\* A survivor installs the membership, or the transaction is given up.
LEMMA InstallSnapshotSound ==
    ASSUME DeathInv, InstallSnapshot
    PROVE  DeathInv'
<1>. DEFINE m == Lowest(tx.todo)
<1>0. tx.step = "install" /\ UNCHANGED txRest
  BY DEF InstallSnapshot
<1>1. CASE Abandon \/ Fail
  BY <1>0, <1>1, NoTxSound DEF Abandon, Fail, nodeVars
<1>2. CASE /\ Installs(m, tx.epoch) /\ installed' = [installed EXCEPT ![m] = tx.epoch]
           /\ tx' \in {tx, [tx EXCEPT !.todo = @ \ {m}]} /\ UNCHANGED <<obs, notified, view, seen>>
  <2>. HIDE DEF m
  <2>. USE <1>0, <1>2 DEF txRest
  <2>0. tx.epoch \in 1..latest /\ tx.epoch \in 1..Epoch /\ history[tx.epoch] \subseteq Nodes /\ tx.deaths = {}
    BY DriverFinds DEF DeathInv, Transaction
  <2>1. installed' \in [Nodes -> 1..Epoch] /\ \A k \in Nodes : installed'[k] >= installed[k]
    <3>1. installed \in [Nodes -> 1..Epoch] /\ Epoch \in Nat
      BY DriverFinds DEF DeathInv, DeathTypeOK
    <3>. QED BY <2>0, <3>1 DEF Installs
  <2>2. /\ tx' \in [by : Nodes \cup {0}, step : {"none", "install", "publish", "handle"},
                    epoch : 0..Epoch, todo : SUBSET Nodes, deaths : SUBSET Dead]
        /\ tx'.by = tx.by /\ tx'.step = tx.step /\ tx'.epoch = tx.epoch /\ tx'.deaths = tx.deaths
        /\ tx.todo \ {m} \subseteq tx'.todo
    BY ZenonT(100) DEF DeathInv, DeathTypeOK
  <2>3. Transaction'
    <3>1. ASSUME NEW k \in history[tx.epoch] \ tx'.todo PROVE installed'[k] >= tx.epoch
      <4>1. CASE k = m
        BY <2>0, <2>1, <4>1 DEF DeathInv, DeathTypeOK
      <4>2. CASE k # m
        <5>1. k \notin tx.todo /\ k \in Nodes
          BY <2>0, <2>2, <4>2
        <5>. QED BY <4>2, <5>1 DEF DeathInv, Transaction
      <4>. QED BY <4>1, <4>2
    <3>. QED BY <2>0, <2>2, <3>1 DEF DeathInv, Transaction, processVars
  <2>4. Told' = Told
    BY <2>2 DEF Told
  <2>5. ToldLast'
    BY <2>1, <2>4, ToldStays DEF processVars
  <2>. QED BY <2>1, <2>2, <2>3, <2>5, DriverKeeps DEF DeathInv, DeathTypeOK, Observed
<1>. QED BY <1>1, <1>2 DEF InstallSnapshot

\* All have the membership, so all know of the deaths up to it.
LEMMA CertifySound ==
    ASSUME DeathInv, Certify
    PROVE  DeathInv'
<1>0. tx.step = "install" /\ tx.todo = {} /\ UNCHANGED txRest
  BY DEF Certify
<1>1. CASE Abandon
  BY <1>0, <1>1, NoTxSound DEF Abandon
<1>2. CASE /\ latest = tx.epoch
           /\ tx' = [tx EXCEPT !.step = "publish", !.todo = history[tx.epoch], !.deaths = recorded]
           /\ UNCHANGED <<obs, notified, nodeVars>>
  <2>. USE <1>0, <1>2 DEF txRest, nodeVars
  <2>0. tx.epoch \in 1..Epoch /\ history[tx.epoch] \subseteq Nodes /\ live \subseteq history[tx.epoch]
    BY DriverFinds
  <2>1. /\ tx' \in [by : Nodes \cup {0}, step : {"none", "install", "publish", "handle"},
                    epoch : 0..Epoch, todo : SUBSET Nodes, deaths : SUBSET Dead]
        /\ tx'.by = tx.by /\ tx'.step = "publish" /\ tx'.epoch = tx.epoch /\ tx'.deaths = recorded
    BY <2>0 DEF DeathInv, DeathTypeOK
  <2>2. Transaction'
    BY <2>1 DEF DeathInv, Transaction, processVars
  <2>3. ASSUME NEW n \in recorded, NEW m \in live PROVE installed[m] >= DeathEpoch(n)
    <3>1. DeathEpoch(n) \in 2..latest /\ latest \in Nat
      BY DriverFinds
    <3>2. m \in Nodes /\ installed[m] \in Nat /\ installed[m] >= tx.epoch
      BY <2>0, DriverFinds DEF DeathInv, DeathTypeOK, Transaction
    <3>. QED BY <3>1, <3>2
  <2>4. Told' \subseteq Told \cup recorded
    BY <2>1 DEF Told
  <2>5. ToldLast'
    BY <2>3, <2>4, ToldStays DEF DeathInv, DeathTypeOK, processVars
  <2>. QED BY <2>1, <2>2, <2>5, DriverKeeps DEF DeathInv, DeathTypeOK, Observed
<1>. QED BY <1>1, <1>2 DEF Certify

\* A survivor retains the certificate.
LEMMA PublishViewSound ==
    ASSUME DeathInv, PublishView
    PROVE  DeathInv'
<1>. DEFINE m == Lowest(tx.todo)
<1>. DEFINE v == [epoch |-> tx.epoch, deaths |-> tx.deaths]
<1>0. tx.step = "publish" /\ UNCHANGED txRest
  BY DEF PublishView
<1>1. CASE Abandon \/ Fail
  BY <1>0, <1>1, NoTxSound DEF Abandon, Fail
<1>2. CASE /\ view' = [view EXCEPT ![m] = v]
           /\ tx' \in {tx, [tx EXCEPT !.todo = @ \ {m}]} /\ UNCHANGED <<obs, notified, installed, seen>>
  <2>. HIDE DEF m
  <2>. USE <1>0, <1>2 DEF txRest
  <2>1. /\ tx' \in [by : Nodes \cup {0}, step : {"none", "install", "publish", "handle"},
                    epoch : 0..Epoch, todo : SUBSET Nodes, deaths : SUBSET Dead]
        /\ tx'.by = tx.by /\ tx'.step = tx.step /\ tx'.epoch = tx.epoch /\ tx'.deaths = tx.deaths
    BY ZenonT(100) DEF DeathInv, DeathTypeOK
  <2>2. Transaction'
    BY <2>1 DEF DeathInv, Transaction, processVars
  <2>3. view' \in [Nodes -> [epoch : 0..Epoch, deaths : SUBSET Dead]]
    BY DEF DeathInv, DeathTypeOK
  <2>4. \A k \in Nodes : view'[k].deaths \subseteq view[k].deaths \cup tx.deaths
    BY DEF DeathInv, DeathTypeOK
  <2>5. Told' \subseteq Told
    BY <2>1, <2>4 DEF Told
  <2>6. ToldLast'
    BY <2>5, ToldStays, SMTT(30) DEF DeathInv, DeathTypeOK, processVars
  <2>. QED BY <2>1, <2>2, <2>3, <2>6, DriverKeeps DEF DeathInv, DeathTypeOK, Observed
<1>. QED BY <1>1, <1>2 DEF PublishView

\* The Driver's own Core is told.
LEMMA HandleDeathSound ==
    ASSUME DeathInv, NEW n \in Nodes, HandleDeath(n)
    PROVE  DeathInv'
<1>. USE DEF HandleDeath, txRest, nodeVars
<1>1. /\ tx' \in [by : Nodes \cup {0}, step : {"none", "install", "publish", "handle"},
                  epoch : 0..Epoch, todo : SUBSET Nodes, deaths : SUBSET Dead]
      /\ tx'.by = tx.by /\ tx'.step = "handle" /\ tx'.epoch = tx.epoch /\ tx'.deaths = tx.deaths
  BY DEF DeathInv, DeathTypeOK
<1>2. Transaction'
  BY <1>1 DEF DeathInv, Transaction, processVars
<1>3. Told' \subseteq Told
  BY <1>1 DEF Told
<1>4. ToldLast'
  BY <1>3, ToldStays, SMTT(30) DEF DeathInv, DeathTypeOK, processVars
<1>5. notified' \subseteq recorded
  <2>1. n \in recorded
    BY DEF DeathInv, ToldLast, Told
  <2>. QED BY <2>1 DEF DeathInv, DeathTypeOK
<1>. QED BY <1>1, <1>2, <1>4, <1>5, DriverKeeps DEF DeathInv, DeathTypeOK, Observed

\* The transaction ends, its deaths all handled.
LEMMA EndTxSound ==
    ASSUME DeathInv, EndTx
    PROVE  DeathInv'
BY NoTxSound DEF EndTx

\* An owner embedded in a Worker polls.
LEMMA PollSound ==
    ASSUME DeathInv, NEW m \in Nodes, Poll(m)
    PROVE  DeathInv'
<1>. USE DEF Poll, driverVars
<1>1. Transaction'
  BY DEF DeathInv, Transaction, processVars
<1>2. seen' \in [Nodes -> SUBSET Dead] /\ \A k \in Nodes : seen'[k] \subseteq seen[k] \cup view[k].deaths
  BY DEF DeathInv, DeathTypeOK
<1>3. Told' \subseteq Told
  <2>1. \A k \in Nodes : seen'[k] \cup view'[k].deaths \subseteq seen[k] \cup view[k].deaths
    BY <1>2
  <2>2. notified' = notified /\ tx' = tx
    OBVIOUS
  <2>. QED BY <2>1, <2>2 DEF Told
<1>4. ToldLast'
  BY <1>3, ToldStays, SMTT(30) DEF DeathInv, DeathTypeOK, processVars
<1>. QED BY <1>1, <1>2, <1>4, DriverKeeps DEF DeathInv, DeathTypeOK, Observed

-----------------------------------------------------------------------------
(* Every step of the control plane, on the membership *)

\* A cluster starts with nobody dead.
LEMMA DeathInitSound ==
    ASSUME DeathInit
    PROVE  DeathInv
<1>. USE DEF DeathInit, NoTx, NoView, NoSweep
<1>0. use.nodes \subseteq Nodes /\ use.workers \subseteq Workers /\ use.exits \in Nat
  BY NodeDeathsAssumption
<1>1. Epoch = 1 /\ live = use.nodes /\ Dead = {} /\ history \in Seq(SUBSET Nodes)
  BY <1>0 DEF Epoch, live, Dead
<1>2. DeathTypeOK
  BY <1>0, <1>1 DEF DeathTypeOK
<1>3. Registry
  BY <1>1 DEF Registry
<1>4. Observed /\ Transaction
  BY <1>1 DEF Observed, Transaction
<1>5. ToldLast
  BY <1>1 DEF ToldLast, Told
<1>6. Fences
  BY <1>1 DEF Fences
<1>. QED BY <1>2, <1>3, <1>4, <1>5, <1>6 DEF DeathInv

\* The exits; the bound on them is a number.
LEMMA ExitStepSound ==
    ASSUME DeathInv, ExitStep
    PROVE  DeathInv'
<1>1. use.exits \in Nat /\ exits \in 0..use.exits
  BY NodeDeathsAssumption DEF DeathInv, DeathTypeOK, Registry
<1>2. ASSUME NEW n \in Nodes, NodeExit(n) PROVE DeathInv'
  BY <1>1, <1>2, ExitKeeps DEF NodeExit
<1>3. ASSUME NEW w \in Workers, WorkerExit(w) PROVE DeathInv'
  BY <1>1, <1>3, ExitKeeps DEF WorkerExit
<1>. QED BY <1>2, <1>3 DEF ExitStep

\* A step of the groups leaves the membership alone, but for the handler of a death.
LEMMA GroupStepsAlone ==
    ASSUME GroupNext
    PROVE  UNCHANGED deathVars \/ \E n \in Nodes : GroupDeath(n)
<1>1. ASSUME NEW g \in Groups, GroupGcs(g) \/ GroupOwner(g) PROVE UNCHANGED deathVars
  <2>1. CASE \/ CreateEnter(g) \/ TakeSnapshot(g) \/ Plan(g) \/ RemoveEnter(g) \/ Finish(g)
             \/ CleanGroup(g) \/ EndClean(g)
    BY <2>1 DEF CreateEnter, TakeSnapshot, Plan, RemoveEnter, Finish, CleanGroup, EndClean, rest
  <2>2. CASE \E n \in Nodes : Drive(g, n) \/ DriveFails(g, n)
    BY <2>2 DEF Drive, DriveFails, rest
  <2>3. CASE GroupOwner(g)
    BY <2>3 DEF GroupOwner, CallCreate, CallRemove, Replay, TakeCreate, TakeRemove, TakeOver, ownRest
  <2>. QED BY <1>1, <2>1, <2>2, <2>3 DEF GroupGcs
<1>2. ASSUME NEW n \in Nodes, ReportResources(n) PROVE UNCHANGED deathVars
  BY <1>2 DEF ReportResources
<1>3. ASSUME NEW n \in Nodes, NEW g \in Groups, StartChild(n, g) \/ EndChild(n, g) PROVE UNCHANGED deathVars
  BY <1>3 DEF StartChild, EndChild
<1>4. ASSUME NEW m \in late, ServeLate(m) PROVE UNCHANGED deathVars
  BY <1>4 DEF ServeLate
<1>5. CASE BeginRound
  BY <1>5 DEF BeginRound
<1>. QED BY <1>1, <1>2, <1>3, <1>4, <1>5 DEF GroupNext

\* What that handler does with them.
LEMMA GroupDeathMoves ==
    ASSUME DeathInv, NEW n \in Nodes, GroupDeath(n)
    PROVE  /\ handler[n] # "idle" /\ handler' \in {handler, [handler EXCEPT ![n] = "actors"]}
           /\ UNCHANGED <<processVars, history, driverVars, nodeVars, fenceVars>>
<1>1. handler[n] = "groups" => handler = [handler EXCEPT ![n] = handler[n]]
  BY DEF DeathInv, DeathTypeOK
<1>. QED BY <1>1 DEF GroupDeath, ListGroups, LockGroup, EndGroups, failRest

\* So every step of the groups keeps the invariant of the membership.
LEMMA GroupStepKeeps ==
    ASSUME DeathInv, GroupNext
    PROVE  DeathInv'
<1>1. CASE UNCHANGED deathVars
  <2>1. UNCHANGED <<processVars, history, handler, driverVars, nodeVars, fenceVars>>
    BY <1>1 DEF deathVars
  <2>2. exits \in 0..use.exits
    BY DEF DeathInv, DeathTypeOK
  <2>. QED BY <2>1, <2>2, ExitKeeps DEF processVars
<1>2. ASSUME NEW n \in Nodes, GroupDeath(n) PROVE DeathInv'
  BY <1>2, GroupDeathMoves, HandlerKeeps
<1>. QED BY <1>1, <1>2, GroupStepsAlone

\* A step of the Actors, but for the exit of a Worker of theirs and the answer of a death.
ActorsAlone ==
    \/ \E a \in Actors :
          \/ CreateActor(a) \/ TakeReply(a) \/ BeginCreate(a) \/ Choose(a) \/ Reserve(a) \/ TellOwner(a) \/ Respawn(a)
          \/ \E g \in Gens(a) : Execute(a, g)
          \/ \E g \in Gens(a), n \in Nodes : ReportExit(n, a, g) \/ PublishOutcome(n, a, g)
    \/ \E c \in Calls : CallStep(c)
    \/ \E m \in installs : ReceiveLate(m[1], m[2])
    \/ \E n \in Nodes : ListActors(n) \/ \E a \in Actors : FailActor(n, a) \/ TellDead(n, a)

\* A step that leaves the variables of the membership alone keeps its invariant.
LEMMA ActorsAloneKeep ==
    ASSUME ActorsAlone
    PROVE  UNCHANGED deathVars
<1>1. ASSUME NEW a \in Actors,
             CreateActor(a) \/ TakeReply(a) \/ BeginCreate(a) \/ Choose(a) \/ Reserve(a) \/ TellOwner(a) \/ Respawn(a)
      PROVE  UNCHANGED deathVars
  BY <1>1 DEF CreateActor, TakeReply, BeginCreate, Choose, Reserve, TellOwner, Respawn, gcsRest
<1>2. ASSUME NEW a \in Actors, NEW g \in Gens(a), Execute(a, g) PROVE UNCHANGED deathVars
  BY <1>2 DEF Execute, workRest
<1>3. ASSUME NEW a \in Actors, NEW g \in Gens(a), NEW n \in Nodes, ReportExit(n, a, g) \/ PublishOutcome(n, a, g)
      PROVE UNCHANGED deathVars
  BY <1>3 DEF ReportExit, PublishOutcome, exitRest
<1>4. ASSUME NEW c \in Calls, CallStep(c) PROVE UNCHANGED deathVars
  BY <1>4 DEF CallStep, Submit, Publish, QueryState, GiveUpCall, Deliver, workRest
<1>5. ASSUME NEW n \in Nodes, ListActors(n) \/ \E a \in Actors : FailActor(n, a) \/ TellDead(n, a)
      PROVE UNCHANGED deathVars
  BY <1>5 DEF ListActors, FailActor, TellDead, deathRest, deathVars
<1>6. ASSUME NEW m \in installs, ReceiveLate(m[1], m[2]) PROVE UNCHANGED deathVars
  BY <1>6 DEF ReceiveLate
<1>. QED BY <1>1, <1>2, <1>3, <1>4, <1>5, <1>6 DEF ActorsAlone

\* The Actors' steps, but for the exit of a Worker and the answer of a death, leave the membership alone.
LEMMA ActorSteps ==
    ASSUME ActorNext
    PROVE  \/ ActorsAlone
           \/ \E a \in Actors : \E g \in Gens(a) : ActorExit(a, g)
           \/ \E n \in Nodes : AnswerDeath(n)
BY DEF ActorNext, ActorStep, ActorDeath, ActorsAlone

\* So every step of an Actor keeps the invariant of the membership.
LEMMA ActorStepKeeps ==
    ASSUME DeathInv, ActorNext
    PROVE  DeathInv'
<1>0. use.exits \in Nat /\ exits \in 0..use.exits
  BY NodeDeathsAssumption DEF DeathInv, DeathTypeOK, Registry
<1>1. CASE ActorsAlone
  <2>1. UNCHANGED <<processVars, history, handler, driverVars, nodeVars, fenceVars>>
    BY <1>1, ActorsAloneKeep DEF deathVars
  <2>. QED BY <1>0, <2>1, ExitKeeps DEF processVars
<1>2. ASSUME NEW a \in Actors, NEW g \in Gens(a), ActorExit(a, g) PROVE DeathInv'
  BY <1>0, <1>2, ExitKeeps DEF ActorExit
<1>3. ASSUME NEW n \in Nodes, AnswerDeath(n) PROVE DeathInv'
  <2>1. Answer(n, pubs = {}) /\ (pubs = {}) \in BOOLEAN
    BY <1>3 DEF AnswerDeath
  <2>. QED BY <2>1, AnswerSound
<1>. QED BY <1>1, <1>2, <1>3, ActorSteps

\* Every step of the control plane keeps it.
LEMMA DeathInvKept ==
    ASSUME DeathInv, [Next]_vars
    PROVE  DeathInv'
<1>1. CASE Exits
  BY <1>1, ExitStepSound DEF Exits
<1>2. CASE FenceStep
  BY <1>2, ReportWorkerDeathSound, CopySound, FenceFirstSound, SweepSound DEF FenceStep
<1>3. CASE InstallSnapshot \/ Certify \/ PublishView \/ EndTx
  BY <1>3, InstallSnapshotSound, CertifySound, PublishViewSound, EndTxSound
<1>4. ASSUME NEW n \in Nodes, Observe(n) \/ ReportNodeDeath(n) \/ BeginTx(n) \/ Poll(n) \/ OwnerHandles(n)
      PROVE  DeathInv'
  BY <1>4, ObserveSound, ReportNodeDeathSound, BeginTxSound, PollSound, HandleDeathSound DEF OwnerHandles
<1>5. CASE GroupNext
  BY <1>5, GroupStepKeeps
<1>6. CASE ActorNext
  BY <1>6, ActorStepKeeps
<1>7. CASE UNCHANGED vars
  <2>1. UNCHANGED <<processVars, history, handler, driverVars, nodeVars, fenceVars>>
    BY <1>7 DEF vars, deathVars
  <2>2. exits \in 0..use.exits
    BY DEF DeathInv, DeathTypeOK
  <2>. QED BY <2>1, <2>2, ExitKeeps DEF processVars
<1>. QED BY <1>1, <1>2, <1>3, <1>4, <1>5, <1>6, <1>7 DEF Next, Membership

\* The membership's invariant: what the registry, the handler, the Driver's transaction
\* and the fences rely on of one another (control.py, api.py, node_death_view.py).
THEOREM MembershipInvariant == Spec => []DeathInv
<1>1. Init => DeathInv
  BY DeathInitSound DEF Init
<1>2. DeathInv /\ [Next]_vars => DeathInv'
  BY DeathInvKept
<1>. QED BY <1>1, <1>2, PTL DEF Spec

\* No owner acts on the death of a Node that a surviving Node still counts as a member,
\* whatever exits while the Driver goes through the survivors (api.py
\* _observe_managed_node_exit, core.py handle_node_death).
THEOREM SurvivorsDoKnowFirst == Spec => []SurvivorsKnowFirst
<1>1. DeathInv => SurvivorsKnowFirst
  <2>. SUFFICES ASSUME DeathInv, NEW n \in notified \cup UNION {seen[m] : m \in Nodes}, NEW m \in live
                PROVE  installed[m] >= DeathEpoch(n)
    BY DEF DeathInv, SurvivorsKnowFirst
  <2>1. n \in Told
    BY DEF Told
  <2>. QED BY <2>1 DEF DeathInv, ToldLast
<1>. QED BY <1>1, MembershipInvariant, PTL

\* A Node that the GCS schedules on holds no copy of an object whose owner is dead
\* (owner_death_fence_registry.py, node.py _handle_install_owner_death_fence).
THEOREM NoOrphansAreScheduledOn == Spec => []NoOrphansWhereScheduled
<1>1. DeathInv => NoOrphansWhereScheduled
  BY DEF DeathInv, DeathTypeOK, NoOrphansWhereScheduled, Fences, Visible
<1>. QED BY <1>1, MembershipInvariant, PTL

-----------------------------------------------------------------------------
(* The inductive invariant of the placement groups *)

Forming == {"PREPARING", "COMMITTING", "CREATED"}
Unplanned == {"none", "PENDING", "INFEASIBLE"}

\* What the record of a group says of itself: nothing before it is planned; progress
\* up to the phase; and the operations of a round are those of its phase.
Records ==
    \A g \in Groups :
        /\ phase[g] \in Unplanned => plan[g] = {} /\ late \cap ({"prepare", "commit", "abort"} \X {g} \X Nodes) = {}
        /\ phase[g] = "PREPARING" => committed[g] = {}
        /\ phase[g] \in {"COMMITTING", "CREATED"} => prepared[g] = plan[g]
        /\ phase[g] = "CREATED" => committed[g] = plan[g]
        /\ phase[g] = "REMOVED" => aborted[g] = plan[g]
        /\ todo[g] \subseteq plan[g]
        /\ phase[g] = "CREATED" => todo[g] = {}

\* The lock: no round is under way without it, and who plans has nothing planned yet.
Locks ==
    /\ \A g \in Groups :
          /\ by[g] = "free" => todo[g] = {}
          /\ by[g] \in {"plan", "snapshot"} => phase[g] \in {"none", "PENDING"} /\ g \in known
          /\ by[g] # "snapshot" => offer[g] = NoOffer
          /\ phase[g] # "none" => g \in known
    /\ \A n \in Nodes, g \in Groups : g \in held[n] =>
          /\ by[g] = "death"
          /\ listed[n] # {} => todo[g] = {}
    /\ \A n \in Nodes : listed[n] \cup held[n] # {} => handler[n] = "groups"
    /\ \A n, k \in Nodes : n # k => held[n] \cap held[k] = {}

\* The Nodes: what the record counts on is there, and no request that is given up
\* can take it away.
Reservations ==
    /\ \A g \in Groups, n \in Nodes :
          /\ phase[g] \in Forming \cup Unplanned =>
                <<"abort", g, n>> \notin late /\ reserved[n][g] # "REMOVING"
          /\ n \in up /\ phase[g] \in Forming /\ n \in prepared[g] =>
                reserved[n][g] \in {"PREPARED", "COMMITTED"}
          /\ n \in up /\ phase[g] \in Forming /\ n \in committed[g] => reserved[n][g] = "COMMITTED"
          /\ n \in up /\ n \in aborted[g] => reserved[n][g] = "ABORTED"
    /\ \A c \in child : reserved[c[1]][c[2]] \in {"COMMITTED", "REMOVING"}

\* A death that has gone through the groups: none that is being formed, or planned,
\* counts on the Node.
Cleared(n) ==
    \A g \in Groups : n \notin offer[g].fit /\ (n \in plan[g] => phase[g] \notin Forming)

\* Where a death is on its way through them: before the groups are listed anything
\* goes; then the ones that count on the Node are listed, or held and about to fail.
DeathPasses ==
    /\ \A n \in recorded : Cleared(n)
    /\ \A n \in Nodes : handler[n] = "actors" \/ (listed[n] = {} /\ held[n] # {}) => Cleared(n)
    /\ \A n \in Nodes : listed[n] # {} =>
          \A g \in Groups : n \in offer[g].fit \/ (n \in plan[g] /\ phase[g] \in Forming) =>
              g \in listed[n] \cup held[n]

GroupInv == GroupTypeOK /\ Records /\ Locks /\ Reservations /\ DeathPasses
-----------------------------------------------------------------------------
(* The helpers *)

\* What is taken in order is taken from what there is.
LEMMA LowestIsIn ==
    ASSUME NEW S \in SUBSET Nat, S # {}
    PROVE  Lowest(S) \in S /\ \A k \in S : Lowest(S) <= k
<1>. DEFINE R == {ss \in Nat \X Nat : ss[1] < ss[2]}
<1>1. IsWellFoundedOn(R, Nat)
  BY NatLessThanWellFounded DEF OpToRel
<1>. HIDE DEF R
<1>2. PICK x \in S : \A y \in S : ~ (<<y, x>> \in R)
  BY <1>1, WFMin
<1>3. ASSUME NEW y \in S PROVE x <= y
  <2>1. x \in Nat /\ y \in Nat /\ ~ (<<y, x>> \in R)
    BY <1>2
  <2>2. y < x => <<y, x>> \in R
    BY <2>1 DEF R
  <2>. QED BY <2>1, <2>2
<1>. QED BY <1>2, <1>3 DEF Lowest

\* What a Node has reserved is a number, and no more the less it holds.
LEMMA FreeIsCounted ==
    ASSUME NEW S \in SUBSET Groups, NEW R \in SUBSET S
    PROVE  /\ SumFunctionOnSet(Depth, S) \in Nat /\ SumFunctionOnSet(Depth, R) \in Nat
           /\ SumFunctionOnSet(Depth, R) <= SumFunctionOnSet(Depth, S)
           /\ \A g \in Groups \ S : SumFunctionOnSet(Depth, S \cup {g}) = Depth[g] + SumFunctionOnSet(Depth, S)
<1>1. IsFiniteSet(S) /\ IsFiniteSet(R) /\ \A x \in Groups : Depth[x] \in Nat /\ Depth[x] \in Int
  <2>1. IsFiniteSet(Groups) /\ \A x \in Groups : Depth[x] \in Nat \ {0}
    BY PlacementGroupsAssumption
  <2>2. IsFiniteSet(S) /\ IsFiniteSet(R)
    BY <2>1, FS_Subset
  <2>. QED BY <2>1, <2>2
<1>2. SumFunctionOnSet(Depth, S) \in Nat /\ SumFunctionOnSet(Depth, R) \in Nat
  BY <1>1, SumIsNat
<1>3. SumFunctionOnSet(Depth, R) <= SumFunctionOnSet(Depth, S)
  <2>1. \A x \in R : Depth[x] \in Int /\ Depth[x] <= Depth[x]
    BY <1>1
  <2>2. \A x \in S : Depth[x] \in Nat
    BY <1>1
  <2>. QED BY <1>1, <2>1, <2>2, SumIsMonotone
<1>4. ASSUME NEW g \in Groups \ S PROVE SumFunctionOnSet(Depth, S \cup {g}) = Depth[g] + SumFunctionOnSet(Depth, S)
  BY <1>1, SumOfAdded
<1>. QED BY <1>2, <1>3, <1>4

Kinds == {"prepare", "commit", "abort"}

\* What a request makes of a reservation, and what is an answer to it: an aborted one
\* stays so, and nothing but an abort undoes what is prepared or committed.
LEMMA AfterIs ==
    ASSUME GroupTypeOK, NEW kind \in Kinds, NEW g \in Groups, NEW n \in Nodes
    PROVE  LET r == reserved[n][g]
               s == After(kind, g, n)
           IN  /\ s \in {"none", "PREPARED", "COMMITTED", "REMOVING", "ABORTED"}
               /\ r = "ABORTED" => s = "ABORTED"
               /\ kind # "abort" => /\ r = "COMMITTED" => s = "COMMITTED"
                                    /\ r = "PREPARED" => s \in {"PREPARED", "COMMITTED"}
                                    /\ r # "REMOVING" => s # "REMOVING"
               /\ <<n, g>> \in child /\ r \in {"COMMITTED", "REMOVING"} => s \in {"COMMITTED", "REMOVING"}
               /\ kind = "prepare" /\ Applied(kind, s) => s \in {"PREPARED", "COMMITTED", "REMOVING"}
               /\ kind = "commit" /\ Applied(kind, s) => s = "COMMITTED"
               /\ kind = "abort" /\ Applied(kind, s) => s = "ABORTED"
               /\ s \in Holding => r \in Holding \/ Free(n) >= Depth[g]
<1>. DEFINE r == reserved[n][g]
<1>1. r \in {"none", "PREPARED", "COMMITTED", "REMOVING", "ABORTED"}
  BY DEF GroupTypeOK
<1>2. CASE kind = "prepare"
  BY <1>1, <1>2 DEF After, Applied, Holding
<1>3. CASE kind = "commit"
  BY <1>1, <1>3 DEF After, Applied, Holding
<1>4. CASE kind = "abort"
  BY <1>1, <1>4 DEF After, Applied, Holding
<1>. QED BY <1>2, <1>3, <1>4 DEF Kinds

\* Reservations that are no more, cell by cell, leave no less free.
LEMMA FreeGrows ==
    ASSUME NEW n \in Nodes, Free(n) \in 0..Capacity,
           \A g \in Groups : reserved'[n][g] \in Holding => reserved[n][g] \in Holding
    PROVE  Free(n)' \in 0..Capacity
<1>. DEFINE S == {g \in Groups : reserved[n][g] \in Holding}
            R == {g \in Groups : reserved'[n][g] \in Holding}
<1>1. S \in SUBSET Groups /\ R \in SUBSET S
  OBVIOUS
<1>2. Free(n) = Capacity - SumFunctionOnSet(Depth, S) /\ Free(n)' = Capacity - SumFunctionOnSet(Depth, R)
  BY DEF Free, Holding
<1>. HIDE DEF S, R
<1>3. /\ SumFunctionOnSet(Depth, S) \in Nat /\ SumFunctionOnSet(Depth, R) \in Nat
      /\ SumFunctionOnSet(Depth, R) <= SumFunctionOnSet(Depth, S)
  BY <1>1, FreeIsCounted
<1>. QED BY <1>2, <1>3, PlacementGroupsAssumption

\* A Node never reserves more than it has.
LEMMA ServeFits ==
    ASSUME GroupTypeOK, NEW kind \in Kinds, NEW g \in Groups, NEW n \in Nodes, Serve(kind, g, n)
    PROVE  /\ reserved' \in [Nodes -> [Groups -> {"none", "PREPARED", "COMMITTED", "REMOVING", "ABORTED"}]]
           /\ \A k \in Nodes : Free(k)' \in 0..Capacity
           /\ \A k \in Nodes, h \in Groups :
                 reserved'[k][h] = IF k = n /\ h = g THEN After(kind, g, n) ELSE reserved[k][h]
<1>. DEFINE s == After(kind, g, n)
<1>1. s \in {"none", "PREPARED", "COMMITTED", "REMOVING", "ABORTED"}
      /\ (s \in Holding => reserved[n][g] \in Holding \/ Free(n) >= Depth[g])
  BY AfterIs
<1>. HIDE DEF s
<1>2. reserved' = [reserved EXCEPT ![n][g] = s]
      /\ reserved \in [Nodes -> [Groups -> {"none", "PREPARED", "COMMITTED", "REMOVING", "ABORTED"}]]
  BY DEF Serve, GroupTypeOK, s
<1>3. \A k \in Nodes, h \in Groups : reserved'[k][h] = IF k = n /\ h = g THEN s ELSE reserved[k][h]
  BY <1>2
<1>4. ASSUME NEW k \in Nodes PROVE Free(k)' \in 0..Capacity
  <2>0. Free(k) \in 0..Capacity
    BY DEF GroupTypeOK
  <2>1. CASE k # n \/ reserved[n][g] \in Holding \/ s \notin Holding
    <3>1. \A h \in Groups : reserved'[k][h] \in Holding => reserved[k][h] \in Holding
      BY <1>3, <2>1
    <3>. QED BY <2>0, <3>1, FreeGrows
  <2>2. CASE k = n /\ reserved[n][g] \notin Holding /\ s \in Holding
    <3>. DEFINE S == {h \in Groups : reserved[n][h] \in Holding}
    <3>1. S \in SUBSET Groups /\ g \in Groups \ S /\ {h \in Groups : reserved'[n][h] \in Holding} = S \cup {g}
      BY <1>3, <2>2
    <3>2. Free(k)' = Capacity - SumFunctionOnSet(Depth, {h \in Groups : reserved'[n][h] \in Holding})
      BY <2>2 DEF Free, Holding
    <3>3. Free(n) = Capacity - SumFunctionOnSet(Depth, S)
      BY DEF Free
    <3>4. Free(n) >= Depth[g]
      BY <1>1, <2>2
    <3>. HIDE DEF S
    <3>5. SumFunctionOnSet(Depth, S \cup {g}) = Depth[g] + SumFunctionOnSet(Depth, S) /\ SumFunctionOnSet(Depth, S) \in Nat
      BY <3>1, FreeIsCounted
    <3>6. Depth[g] \in Nat /\ Capacity \in Nat
      BY PlacementGroupsAssumption
    <3>7. Free(k)' = Capacity - (Depth[g] + SumFunctionOnSet(Depth, S))
      BY <3>1, <3>2, <3>5
    <3>8. Capacity - SumFunctionOnSet(Depth, S) >= Depth[g]
      BY <3>3, <3>4
    <3>. QED BY <3>5, <3>6, <3>7, <3>8
  <2>. QED BY <2>1, <2>2
<1>. QED BY <1>2, <1>1, <1>3, <1>4 DEF s

-----------------------------------------------------------------------------
(* The groups' invariant, step by step *)

\* What is free on a Node depends on the ledger alone.
LEMMA FreeSame ==
    ASSUME reserved' = reserved
    PROVE  \A n : Free(n)' = Free(n)
BY DEF Free, Holding

\* A step of the membership, of the Actors or of an owner on what it keeps: no group
\* moves, and a handler only begins or ends.
LEMMA OthersKeepGroups ==
    ASSUME GroupInv,
           UNCHANGED <<use, recordVars, lockVars, ledgerVars, faultVars, controlVars, reported>>,
           up' \subseteq up,
           \A n \in Nodes : handler'[n] = handler[n] \/ (handler[n] # "groups" /\ handler'[n] # "actors"),
           \A n \in recorded' : n \in recorded \/ (n \in Nodes /\ handler[n] = "actors")
    PROVE  GroupInv'
<1>. USE DEF recordVars, lockVars, ledgerVars, faultVars, controlVars
<1>1. GroupTypeOK'
  <2>1. \A n : Free(n)' = Free(n)
    BY FreeSame
  <2>. QED BY <2>1 DEF GroupInv, GroupTypeOK, Active, Terminal
<1>2. Records' /\ Reservations'
  BY DEF GroupInv, Records, Reservations, Forming, Unplanned
<1>3. Locks'
  BY DEF GroupInv, Locks, NoOffer
<1>4. \A n : Cleared(n)' = Cleared(n)
  BY DEF Cleared, Forming
<1>5. DeathPasses'
  <2>1. \A n \in recorded' : Cleared(n)'
    BY <1>4 DEF GroupInv, DeathPasses
  <2>2. \A n \in Nodes : handler'[n] = "actors" \/ (listed'[n] = {} /\ held'[n] # {}) => Cleared(n)'
    BY <1>4 DEF GroupInv, DeathPasses
  <2>3. \A n \in Nodes : listed'[n] # {} =>
           \A g \in Groups : n \in offer'[g].fit \/ (n \in plan'[g] /\ phase'[g] \in Forming) =>
              g \in listed'[n] \cup held'[n]
    BY DEF GroupInv, DeathPasses, Forming
  <2>. QED BY <2>1, <2>2, <2>3 DEF DeathPasses, Forming
<1>. QED BY <1>1, <1>2, <1>3, <1>5 DEF GroupInv

\* What a step on the groups leaves of the membership.
Steady == UNCHANGED <<use, up, handler, recorded>>

\* The records and the reservations stay: what changes is who drives what.
LEMMA LockStepKeeps ==
    ASSUME GroupInv, Steady, GroupTypeOK', Locks',
           UNCHANGED <<recordVars, ledgerVars, late, listed, held>>,
           \A g \in Groups : todo'[g] \subseteq plan[g] /\ (phase[g] = "CREATED" => todo'[g] = {}),
           \A g \in Groups : offer'[g].fit \subseteq offer[g].fit
    PROVE  GroupInv'
<1>. USE DEF recordVars, ledgerVars, Steady
<1>1. Records'
  BY DEF GroupInv, Records, Unplanned
<1>2. Reservations'
  BY DEF GroupInv, Reservations, Forming, Unplanned
<1>3. DeathPasses'
  BY DEF GroupInv, DeathPasses, Cleared, Forming
<1>. QED BY <1>1, <1>2, <1>3 DEF GroupInv

\* The operations of a round are among the participants, and none when there is nothing to do.
LEMMA OpsAre ==
    ASSUME NEW g, NEW ph
    PROVE  /\ Ops(g, ph) \subseteq plan[g]
           /\ ph \notin {"PREPARING", "COMMITTING"} \cup Cleanup => Ops(g, ph) = {}
BY DEF Ops, Cleanup

\* create enters the group's lock.
LEMMA CreateEnterSound ==
    ASSUME DeathInv, GroupInv, NEW g \in Groups, CreateEnter(g)
    PROVE  GroupInv'
<1>. USE DEF CreateEnter
<1>0. Steady /\ by[g] = "free" /\ \A n : Free(n)' = Free(n)
  BY FreeSame DEF Steady, deathVars, processVars, driverVars, ledgerVars
<1>1. CASE g \notin known /\ closed
  BY <1>0, <1>1, OthersKeepGroups DEF Steady, lockVars, controlVars
<1>2. CASE ~(g \notin known /\ closed)
  <2>0. UNCHANGED <<recordVars, ledgerVars, faultVars, closed, listed, held, round, reported, offer>>
    BY <1>2
  <2>1. /\ known' = known \cup {g}
        /\ by' = [by EXCEPT ![g] = IF phase[g] = "none" \/ (phase[g] = "PENDING" /\ ~closed) THEN "plan" ELSE "create"]
        /\ todo' = [todo EXCEPT ![g] = Ops(g, phase[g])]
    BY <1>2
  <2>. HIDE DEF CreateEnter
  <2>2. Ops(g, phase[g]) \subseteq plan[g] /\ (phase[g] \in {"none", "PENDING", "CREATED"} => Ops(g, phase[g]) = {})
    BY OpsAre DEF Cleanup
  <2>3. GroupTypeOK'
    BY <1>0, <2>0, <2>1, <2>2 DEF GroupInv, GroupTypeOK, recordVars, ledgerVars, faultVars, Active, Terminal, Steady
  <2>4. Locks'
    BY <1>0, <2>0, <2>1, <2>2, ZenonT(100) DEF GroupInv, GroupTypeOK, Locks, recordVars, Steady, NoOffer
  <2>. QED BY <1>0, <2>0, <2>1, <2>2, <2>3, <2>4, LockStepKeeps DEF GroupInv, GroupTypeOK, Records, faultVars
<1>. QED BY <1>1, <1>2

\* A snapshot offers live Nodes, so none whose death is on its way or through.
LEMMA TakeSnapshotSound ==
    ASSUME DeathInv, GroupInv, NEW g \in Groups, TakeSnapshot(g)
    PROVE  GroupInv'
<1>. USE DEF TakeSnapshot
<1>0. /\ Steady /\ by[g] = "plan" /\ \A n : Free(n)' = Free(n)
      /\ UNCHANGED <<recordVars, ledgerVars, faultVars, controlVars, reported, todo>>
  BY FreeSame DEF Steady, deathVars, processVars, driverVars, ledgerVars, rest
<1>1. by' = [by EXCEPT ![g] = "snapshot"] /\ \E S \in SUBSET live, T \in SUBSET live :
          offer' = [offer EXCEPT ![g] = [fit |-> S, could |-> T]]
  BY DEF Visible
<1>. HIDE DEF TakeSnapshot
<1>2. PICK S \in SUBSET live, T \in SUBSET live : offer' = [offer EXCEPT ![g] = [fit |-> S, could |-> T]]
  BY <1>1
<1>3. live \subseteq Nodes
  BY DriverFinds DEF live, Epoch, DeathInv, Registry
<1>. USE DEF GroupInv, recordVars, ledgerVars, faultVars, controlVars, Steady
<1>4. GroupTypeOK'
  BY <1>0, <1>1, <1>2, <1>3 DEF GroupTypeOK, Active, Terminal
<1>5. Locks'
  <2>1. ASSUME NEW h \in Groups
        PROVE  /\ by'[h] = "free" => todo'[h] = {}
               /\ by'[h] \in {"plan", "snapshot"} => phase'[h] \in {"none", "PENDING"} /\ h \in known'
               /\ by'[h] # "snapshot" => offer'[h] = NoOffer
               /\ phase'[h] # "none" => h \in known'
    <3>1. CASE h = g
      BY <1>0, <1>1, <3>1 DEF GroupTypeOK, Locks
    <3>2. CASE h # g
      BY <1>0, <1>1, <1>2, <3>2 DEF GroupTypeOK, Locks
    <3>. QED BY <3>1, <3>2
  <2>2. \A n \in Nodes, h \in Groups : h \in held[n] => h # g
    BY <1>0 DEF Locks
  <2>3. \A n \in Nodes, h \in Groups : h \in held'[n] =>
           by'[h] = "death" /\ (listed'[n] # {} => todo'[h] = {})
    BY <1>0, <1>1, <2>2, ZenonT(100) DEF GroupTypeOK, Locks
  <2>. QED BY <1>0, <2>1, <2>3 DEF Locks
<1>6. Records' /\ Reservations'
  BY <1>0 DEF Records, Reservations, Unplanned, Forming
<1>7. DeathPasses'
  <2>1. \A n \in Nodes : n \in recorded \/ handler[n] # "idle" => n \notin live
    BY DEF DeathInv, DeathTypeOK, Observed, Dead
  <2>2. \A n \in recorded : n \notin live
    BY DEF DeathInv, DeathTypeOK, Dead
  <2>3. \A n \in Nodes, h \in Groups : n \in offer'[h].fit => n \in offer[h].fit \/ n \in live
    BY <1>2 DEF GroupTypeOK
  <2>4. \A n \in Nodes : listed[n] \cup held[n] # {} => handler[n] = "groups"
    BY DEF Locks
  <2>. USE <1>0, <2>1, <2>2, <2>3, <2>4
  <2>5. \A n \in recorded' : Cleared(n)'
    <3>1. recorded \subseteq Nodes
      BY NodeDeathsAssumption DEF DeathInv, DeathTypeOK, Dead, Registry
    <3>. QED BY <3>1 DEF DeathPasses, Cleared, Forming
  <2>6. \A n \in Nodes : handler'[n] = "actors" \/ (listed'[n] = {} /\ held'[n] # {}) => Cleared(n)'
    BY DEF DeathPasses, Cleared, Forming
  <2>7. ASSUME NEW n \in Nodes, listed'[n] # {}, NEW h \in Groups,
               n \in offer'[h].fit \/ (n \in plan'[h] /\ phase'[h] \in Forming)
        PROVE  h \in listed'[n] \cup held'[n]
    BY <2>7 DEF DeathPasses, Forming
  <2>. QED BY <2>5, <2>6, <2>7 DEF DeathPasses, Forming
<1>. QED BY <1>4, <1>5, <1>6, <1>7

\* A plan counts on Nodes that were offered, so the death of one still finds it.
LEMMA PlanSound ==
    ASSUME DeathInv, GroupInv, NEW g \in Groups, Plan(g)
    PROVE  GroupInv'
<1>. USE DEF Plan
<1>0. /\ Steady /\ by[g] = "snapshot" /\ by' = [by EXCEPT ![g] = "create"] /\ \A n : Free(n)' = Free(n)
      /\ offer' = [offer EXCEPT ![g] = NoOffer]
      /\ UNCHANGED <<prepared, committed, aborted, ledgerVars, faultVars, controlVars, reported>>
  BY FreeSame DEF Steady, deathVars, processVars, driverVars, ledgerVars, rest
<1>1. \/ \E S \in SUBSET offer[g].fit :
            /\ phase' = [phase EXCEPT ![g] = "PREPARING"]
            /\ plan' = [plan EXCEPT ![g] = S] /\ todo' = [todo EXCEPT ![g] = S]
      \/ \E ph \in {"INFEASIBLE", "PENDING"} : phase' = [phase EXCEPT ![g] = ph] /\ UNCHANGED <<plan, todo>>
  BY DEF Plans
<1>. HIDE DEF Plan
<1>. USE DEF GroupInv, recordVars, ledgerVars, faultVars, controlVars, Steady
<1>2. /\ phase[g] \in {"none", "PENDING"} /\ g \in known /\ plan[g] = {}
      /\ prepared[g] = {} /\ committed[g] = {} /\ aborted[g] = {} /\ todo[g] = {}
      /\ \A k \in Kinds, n \in Nodes : <<k, g, n>> \notin late
  BY <1>0 DEF GroupTypeOK, Locks, Records, Unplanned, Kinds
<1>3. CASE \E ph \in {"INFEASIBLE", "PENDING"} : phase' = [phase EXCEPT ![g] = ph] /\ UNCHANGED <<plan, todo>>
  <2>1. PICK ph \in {"INFEASIBLE", "PENDING"} : phase' = [phase EXCEPT ![g] = ph] /\ UNCHANGED <<plan, todo>>
    BY <1>3
  <2>2. GroupTypeOK'
    BY <1>0, <2>1 DEF GroupTypeOK, Active, Terminal, NoOffer
  <2>3. Locks'
    BY <1>0, <1>2, <2>1, SMTT(30) DEF GroupTypeOK, Locks, NoOffer
  <2>4. Records'
    BY <1>0, <1>2, <2>1 DEF GroupTypeOK, Records, Unplanned
  <2>5. Reservations'
    BY <1>0, <1>2, <2>1 DEF GroupTypeOK, Reservations, Forming, Unplanned
  <2>6. DeathPasses'
    BY <1>0, <1>2, <2>1, ZenonT(100) DEF GroupTypeOK, DeathPasses, Cleared, Forming, NoOffer
  <2>. QED BY <2>2, <2>3, <2>4, <2>5, <2>6
<1>4. CASE \E S \in SUBSET offer[g].fit :
            /\ phase' = [phase EXCEPT ![g] = "PREPARING"]
            /\ plan' = [plan EXCEPT ![g] = S] /\ todo' = [todo EXCEPT ![g] = S]
  <2>1. PICK S \in SUBSET offer[g].fit :
            /\ phase' = [phase EXCEPT ![g] = "PREPARING"]
            /\ plan' = [plan EXCEPT ![g] = S] /\ todo' = [todo EXCEPT ![g] = S]
    BY <1>4
  <2>0. S \subseteq Nodes
    BY DEF GroupTypeOK
  <2>2. GroupTypeOK'
    BY <1>0, <1>2, <2>0, <2>1 DEF GroupTypeOK, Active, Terminal, NoOffer
  <2>3. Locks'
    <3>1. \A n \in Nodes : g \notin held[n]
      BY <1>0 DEF Locks
    <3>. QED BY <1>0, <1>2, <2>1, <3>1, ZenonT(100) DEF GroupTypeOK, Locks, NoOffer
  <2>4. Records'
    BY <1>0, <1>2, <2>1 DEF GroupTypeOK, Records, Unplanned
  <2>5. Reservations'
    <3>1. \A n \in Nodes : reserved[n][g] # "REMOVING"
      BY <1>2 DEF Reservations, Unplanned
    <3>. QED BY <1>0, <1>2, <2>1, <3>1 DEF GroupTypeOK, Reservations, Forming, Unplanned, Kinds
  <2>6. DeathPasses'
    BY <1>0, <1>2, <2>1, ZenonT(100) DEF GroupTypeOK, DeathPasses, Cleared, Forming, NoOffer
  <2>. QED BY <2>2, <2>3, <2>4, <2>5, <2>6
<1>. QED BY <1>1, <1>3, <1>4

\* A phase that moves on to cleaning up, under the lock of the group.
LEMMA PhaseKeeps ==
    ASSUME GroupInv, Steady, NEW g \in Groups, by[g] = "free",
           NEW who \in {"remove", "shutdown"}, by' = [by EXCEPT ![g] = who],
           NEW ph \in {phase[g], "REMOVED", "ABORTING", "REMOVING"}, phase' = [phase EXCEPT ![g] = ph],
           phase[g] = "none" => ph = "none", ph = "REMOVED" => phase[g] \in {"PENDING", "REMOVED"},
           todo' = [todo EXCEPT ![g] = Ops(g, ph)],
           UNCHANGED <<plan, prepared, committed, aborted, offer, ledgerVars, faultVars, controlVars, reported>>
    PROVE  GroupInv'
<1>. USE DEF GroupInv, ledgerVars, faultVars, controlVars, Steady
<1>0. /\ Ops(g, ph) \subseteq plan[g] /\ (ph \in {"none", "PENDING", "CREATED"} => Ops(g, ph) = {})
      /\ \A n : Free(n)' = Free(n)
      /\ phase[g] = "PENDING" => plan[g] = {}
  BY OpsAre, FreeSame DEF Cleanup, Records, Unplanned
<1>1. GroupTypeOK'
  <2>1. phase' \in [Groups -> Active \cup Terminal \cup {"none", "PENDING", "CREATED"}]
    BY DEF GroupTypeOK, Active, Terminal
  <2>2. todo' \in [Groups -> SUBSET Nodes]
    BY <1>0 DEF GroupTypeOK
  <2>3. by' \in [Groups -> {"free", "plan", "snapshot", "create", "remove", "shutdown", "death"}]
    BY DEF GroupTypeOK
  <2>. QED BY <1>0, <2>1, <2>2, <2>3 DEF GroupTypeOK, Active, Terminal
<1>2. Locks'
  <2>1. \A n \in Nodes : g \notin held[n]
    BY DEF Locks
  <2>. QED BY <1>0, <2>1, SMTT(30) DEF GroupTypeOK, Locks, NoOffer
<1>3. Records'
  BY <1>0, ZenonT(100) DEF GroupTypeOK, Records, Unplanned
<1>4. Reservations'
  BY DEF GroupTypeOK, Reservations, Forming, Unplanned
<1>5. DeathPasses'
  BY ZenonT(120) DEF GroupTypeOK, DeathPasses, Cleared, Forming
<1>. QED BY <1>1, <1>2, <1>3, <1>4, <1>5

\* remove enters the group's lock.
LEMMA RemoveEnterSound ==
    ASSUME DeathInv, GroupInv, NEW g \in Groups, RemoveEnter(g)
    PROVE  GroupInv'
<1>. USE DEF RemoveEnter
<1>0. Steady /\ UNCHANGED <<plan, prepared, committed, aborted, ledgerVars, faultVars, controlVars, reported>>
  BY DEF Steady, deathVars, processVars, driverVars, rest
<1>1. CASE phase[g] \in {"CREATED", "REMOVING"}
  <2>1. UNCHANGED offer /\ by[g] = "free" /\ by' = [by EXCEPT ![g] = "remove"]
        /\ phase' = [phase EXCEPT ![g] = "REMOVING"] /\ todo' = [todo EXCEPT ![g] = Ops(g, "REMOVING")]
    BY <1>1
  <2>. HIDE DEF RemoveEnter
  <2>. QED BY <1>0, <1>1, <2>1, PhaseKeeps
<1>2. CASE phase[g] \notin {"CREATED", "REMOVING"}
  BY <1>0, <1>2, OthersKeepGroups DEF Steady, recordVars
<1>. QED BY <1>1, <1>2

\* A handler leaves the lock.
LEMMA FinishSound ==
    ASSUME DeathInv, GroupInv, NEW g \in Groups, Finish(g) \/ EndClean(g)
    PROVE  GroupInv'
<1>0. /\ Steady /\ by[g] # "death" /\ by[g] # "snapshot" /\ todo[g] = {} /\ by' = [by EXCEPT ![g] = "free"]
      /\ round' \subseteq round /\ \A n : Free(n)' = Free(n)
      /\ UNCHANGED <<recordVars, offer, todo, ledgerVars, faultVars, known, closed, listed, held, reported>>
  BY FreeSame DEF Finish, EndClean, Steady, deathVars, processVars, driverVars, ledgerVars, controlVars, rest
<1>. USE DEF GroupInv, recordVars, ledgerVars, faultVars, Steady
<1>1. GroupTypeOK'
  BY <1>0 DEF GroupTypeOK, Active, Terminal
<1>2. Locks'
  <2>1. \A n \in Nodes : g \notin held[n]
    BY <1>0 DEF Locks
  <2>2. ASSUME NEW h \in Groups
        PROVE  /\ by'[h] = "free" => todo'[h] = {}
               /\ by'[h] \in {"plan", "snapshot"} => phase'[h] \in {"none", "PENDING"} /\ h \in known'
               /\ by'[h] # "snapshot" => offer'[h] = NoOffer
               /\ phase'[h] # "none" => h \in known'
    BY <1>0 DEF GroupTypeOK, Locks
  <2>3. \A n \in Nodes, h \in Groups : h \in held'[n] =>
           by'[h] = "death" /\ (listed'[n] # {} => todo'[h] = {})
    BY <1>0, <2>1 DEF GroupTypeOK, Locks
  <2>. QED BY <1>0, <2>2, <2>3 DEF Locks
<1>. QED BY <1>0, <1>1, <1>2, LockStepKeeps DEF Records

\* The round of a shutdown enters the lock of each group.
LEMMA CleanGroupSound ==
    ASSUME DeathInv, GroupInv, NEW g \in Groups, CleanGroup(g)
    PROVE  GroupInv'
<1>. DEFINE ph == CASE phase[g] = "PENDING" -> "REMOVED"
                    [] phase[g] \in {"PREPARING", "COMMITTING"} -> "ABORTING"
                    [] phase[g] = "CREATED" -> "REMOVING"
                    [] OTHER -> phase[g]
<1>0. phase \in [Groups -> Active \cup Terminal \cup {"none", "PENDING", "CREATED"}]
  BY DEF GroupInv, GroupTypeOK
<1>1. /\ Steady /\ by[g] = "free" /\ by' = [by EXCEPT ![g] = "shutdown"]
      /\ UNCHANGED <<plan, prepared, committed, aborted, offer, ledgerVars, faultVars, controlVars, reported>>
  BY DEF CleanGroup, Steady, deathVars, processVars, driverVars, rest
<1>2. phase' = [phase EXCEPT ![g] = ph]
  BY DEF CleanGroup
<1>3. todo' = [todo EXCEPT ![g] = Ops(g, phase'[g])] /\ phase'[g] = ph
  BY <1>0, <1>2 DEF CleanGroup
<1>4. Ops(g, phase'[g]) = Ops(g, ph)
  BY <1>3
<1>5. /\ ph \in {phase[g], "REMOVED", "ABORTING", "REMOVING"}
      /\ phase[g] = "none" => ph = "none"
      /\ ph = "REMOVED" => phase[g] \in {"PENDING", "REMOVED"}
  BY <1>0 DEF Active, Terminal
<1>. HIDE DEF ph
<1>. QED BY <1>1, <1>2, <1>3, <1>4, <1>5, PhaseKeeps

\* A Node reports what it has free.
LEMMA ResourcesSound ==
    ASSUME DeathInv, GroupInv, NEW n \in Nodes, ReportResources(n)
    PROVE  GroupInv'
<1>. USE DEF ReportResources
<1>0. Steady /\ UNCHANGED <<recordVars, lockVars, ledgerVars, faultVars, controlVars>> /\ \A k : Free(k)' = Free(k)
  BY FreeSame DEF Steady, deathVars, processVars, driverVars, ledgerVars
<1>1. GroupTypeOK'
  BY <1>0 DEF GroupInv, GroupTypeOK, Active, Terminal, Steady, recordVars, lockVars, ledgerVars, faultVars, controlVars
<1>2. Locks'
  BY <1>0 DEF GroupInv, Locks, NoOffer, Steady, recordVars, lockVars, controlVars
<1>. QED BY <1>0, <1>1, <1>2, LockStepKeeps DEF GroupInv, Records, faultVars, controlVars, lockVars

\* The round of a shutdown begins.
LEMMA BeginRoundSound ==
    ASSUME DeathInv, GroupInv, BeginRound
    PROVE  GroupInv'
<1>. USE DEF BeginRound
<1>0. Steady /\ UNCHANGED <<recordVars, lockVars, ledgerVars, faultVars, known, listed, held, reported>> /\ \A k : Free(k)' = Free(k)
  BY FreeSame DEF Steady, deathVars, processVars, driverVars, ledgerVars
<1>1. GroupTypeOK'
  BY <1>0 DEF GroupInv, GroupTypeOK, Active, Terminal, Steady, recordVars, lockVars, ledgerVars, faultVars
<1>2. Locks'
  BY <1>0 DEF GroupInv, Locks, NoOffer, Steady, recordVars, lockVars
<1>. QED BY <1>0, <1>1, <1>2, LockStepKeeps DEF GroupInv, Records, faultVars, lockVars

-----------------------------------------------------------------------------
(* The Nodes' side *)

\* What changes at the Nodes alone keeps the records and the locks.
LEMMA LedgerStepKeeps ==
    ASSUME GroupInv, Steady, UNCHANGED <<recordVars, lockVars, controlVars, reported, lostRpc>>,
           reserved' \in [Nodes -> [Groups -> {"none", "PREPARED", "COMMITTED", "REMOVING", "ABORTED"}]],
           \A k \in Nodes : Free(k)' \in 0..Capacity,
           child' \subseteq Nodes \X Groups, late' \subseteq late, Reservations'
    PROVE  GroupInv'
<1>. USE DEF GroupInv, Steady, recordVars, lockVars, controlVars
<1>1. GroupTypeOK'
  BY DEF GroupTypeOK, Active, Terminal
<1>2. Locks'
  BY DEF Locks, NoOffer
<1>3. Records'
  BY DEF Records, Unplanned
<1>4. DeathPasses'
  BY DEF DeathPasses, Cleared, Forming
<1>. QED BY <1>1, <1>2, <1>3, <1>4

\* A Task of a group starts in its reservation.
LEMMA StartChildSound ==
    ASSUME DeathInv, GroupInv, NEW n \in Nodes, NEW g \in Groups, StartChild(n, g)
    PROVE  GroupInv'
<1>. USE DEF StartChild
<1>0. Steady /\ UNCHANGED <<recordVars, lockVars, faultVars, controlVars, reported, reserved>> /\ \A k : Free(k)' = Free(k)
  BY FreeSame DEF Steady, deathVars, processVars, driverVars
<1>1. Reservations'
  BY <1>0 DEF GroupInv, Reservations, Forming, Unplanned, Steady, recordVars, faultVars
<1>2. child' \subseteq Nodes \X Groups
  BY DEF GroupInv, GroupTypeOK
<1>. QED BY <1>0, <1>1, <1>2, LedgerStepKeeps DEF GroupInv, GroupTypeOK, faultVars

\* A Task of a group ends.
LEMMA EndChildSound ==
    ASSUME DeathInv, GroupInv, NEW n \in Nodes, NEW g \in Groups, EndChild(n, g)
    PROVE  GroupInv'
<1>. USE DEF EndChild
<1>0. /\ Steady /\ UNCHANGED <<recordVars, lockVars, faultVars, controlVars, reported>>
      /\ child' = child \ {<<n, g>>}
      /\ reserved' = [reserved EXCEPT ![n][g] = IF @ = "REMOVING" THEN "ABORTED" ELSE @]
  BY DEF Steady, deathVars, processVars, driverVars
<1>. HIDE DEF EndChild
<1>1. reserved \in [Nodes -> [Groups -> {"none", "PREPARED", "COMMITTED", "REMOVING", "ABORTED"}]]
      /\ child \subseteq Nodes \X Groups
  BY DEF GroupInv, GroupTypeOK
<1>2. /\ reserved' \in [Nodes -> [Groups -> {"none", "PREPARED", "COMMITTED", "REMOVING", "ABORTED"}]]
      /\ \A k \in Nodes, h \in Groups : reserved'[k][h] =
            IF k = n /\ h = g /\ reserved[n][g] = "REMOVING" THEN "ABORTED" ELSE reserved[k][h]
  BY <1>0, <1>1
<1>3. ASSUME NEW k \in Nodes PROVE Free(k)' \in 0..Capacity
  <2>1. Free(k) \in 0..Capacity /\ \A h \in Groups : reserved'[k][h] \in Holding => reserved[k][h] \in Holding
    BY <1>2 DEF GroupInv, GroupTypeOK, Holding
  <2>. QED BY <2>1, FreeGrows
<1>4. Reservations'
  <2>1. ASSUME NEW c \in child' PROVE reserved'[c[1]][c[2]] \in {"COMMITTED", "REMOVING"}
    <3>1. c \in child /\ c[1] \in Nodes /\ c[2] \in Groups /\ ~(c[1] = n /\ c[2] = g)
      BY <1>0, <1>1
    <3>. QED BY <1>2, <3>1 DEF GroupInv, Reservations
  <2>. QED BY <1>0, <1>2, <2>1 DEF GroupInv, Reservations, Forming, Unplanned, Steady, recordVars, faultVars
<1>. QED BY <1>0, <1>1, <1>2, <1>3, <1>4, LedgerStepKeeps DEF faultVars

\* A request that arrives at last finds what the records still count on out of its reach.
LEMMA ServeKeepsReservations ==
    ASSUME GroupInv, Steady, NEW kind \in Kinds, NEW g \in Groups, NEW n \in Nodes, Serve(kind, g, n),
           kind = "abort" => phase[g] \notin Forming \cup Unplanned,
           UNCHANGED <<recordVars, child>>, late' \subseteq late
    PROVE  Reservations'
<1>. DEFINE s == After(kind, g, n)
<1>1. \A k \in Nodes, h \in Groups : reserved'[k][h] = IF k = n /\ h = g THEN s ELSE reserved[k][h]
  BY ServeFits DEF GroupInv
<1>2. /\ reserved[n][g] = "ABORTED" => s = "ABORTED"
      /\ kind # "abort" => /\ reserved[n][g] = "COMMITTED" => s = "COMMITTED"
                           /\ reserved[n][g] = "PREPARED" => s \in {"PREPARED", "COMMITTED"}
                           /\ reserved[n][g] # "REMOVING" => s # "REMOVING"
      /\ <<n, g>> \in child /\ reserved[n][g] \in {"COMMITTED", "REMOVING"} => s \in {"COMMITTED", "REMOVING"}
  BY AfterIs DEF GroupInv
<1>. HIDE DEF s
<1>3. ASSUME NEW c \in child' PROVE reserved'[c[1]][c[2]] \in {"COMMITTED", "REMOVING"}
  <2>1. c \in child /\ c[1] \in Nodes /\ c[2] \in Groups /\ c = <<c[1], c[2]>>
    BY DEF GroupInv, GroupTypeOK
  <2>2. reserved[c[1]][c[2]] \in {"COMMITTED", "REMOVING"}
    BY <2>1 DEF GroupInv, Reservations
  <2>3. CASE c[1] = n /\ c[2] = g
    BY <1>1, <1>2, <2>1, <2>2, <2>3
  <2>4. CASE ~(c[1] = n /\ c[2] = g)
    BY <1>1, <2>1, <2>2, <2>4
  <2>. QED BY <2>3, <2>4
<1>4. ASSUME NEW h \in Groups, NEW k \in Nodes
      PROVE  /\ phase[h] \in Forming \cup Unplanned => <<"abort", h, k>> \notin late' /\ reserved'[k][h] # "REMOVING"
             /\ k \in up /\ phase[h] \in Forming /\ k \in prepared[h] => reserved'[k][h] \in {"PREPARED", "COMMITTED"}
             /\ k \in up /\ phase[h] \in Forming /\ k \in committed[h] => reserved'[k][h] = "COMMITTED"
             /\ k \in up /\ k \in aborted[h] => reserved'[k][h] = "ABORTED"
  <2>1. CASE k = n /\ h = g
    BY <1>1, <1>2, <2>1 DEF GroupInv, Reservations
  <2>2. CASE ~(k = n /\ h = g)
    BY <1>1, <2>2 DEF GroupInv, Reservations
  <2>. QED BY <2>1, <2>2
<1>. QED BY <1>3, <1>4 DEF Reservations, Forming, Unplanned, Steady, recordVars

\* A request that its caller gave up on is served late.
LEMMA ServeLateSound ==
    ASSUME DeathInv, GroupInv, NEW m \in late, ServeLate(m)
    PROVE  GroupInv'
<1>. USE DEF ServeLate
<1>0. /\ Steady /\ UNCHANGED <<recordVars, lockVars, controlVars, reported, lostRpc, child>>
      /\ Serve(m[1], m[2], m[3]) /\ late' \subseteq late
  BY DEF Steady, deathVars, processVars, driverVars
<1>1. m[1] \in Kinds /\ m[2] \in Groups /\ m[3] \in Nodes /\ m = <<m[1], m[2], m[3]>>
  BY DEF GroupInv, GroupTypeOK, Kinds
<1>2. m[1] = "abort" => phase[m[2]] \notin Forming \cup Unplanned
  BY <1>1 DEF GroupInv, Reservations
<1>. HIDE DEF ServeLate
<1>3. Reservations'
  BY <1>0, <1>1, <1>2, ServeKeepsReservations
<1>4. /\ reserved' \in [Nodes -> [Groups -> {"none", "PREPARED", "COMMITTED", "REMOVING", "ABORTED"}]]
      /\ \A k \in Nodes : Free(k)' \in 0..Capacity
  BY <1>0, <1>1, ServeFits DEF GroupInv
<1>. QED BY <1>0, <1>3, <1>4, LedgerStepKeeps DEF GroupInv, GroupTypeOK

-----------------------------------------------------------------------------
(* The drive *)

\* What an operation of a round finds.
LEMMA TurnFinds ==
    ASSUME DeathInv, GroupInv, NEW g \in Groups, Turn(g), NEW n \in Nodes, n = Lowest(todo[g])
    PROVE  /\ n \in todo[g] /\ n \in plan[g] /\ plan[g] # {}
           /\ phase[g] \in Active \cup {"REMOVED"}
           /\ Kind(phase[g]) \in Kinds
           /\ Kind(phase[g]) = "prepare" <=> phase[g] = "PREPARING"
           /\ Kind(phase[g]) = "commit" <=> phase[g] = "COMMITTING"
           /\ Kind(phase[g]) = "abort" <=> phase[g] \notin Forming \cup Unplanned
           /\ by[g] # "free"
<1>1. todo[g] \in SUBSET Nat /\ todo[g] # {}
  BY NodeDeathsAssumption DEF GroupInv, GroupTypeOK, Turn
<1>2. n \in todo[g]
  BY <1>1, LowestIsIn
<1>3. n \in plan[g] /\ phase[g] \notin Unplanned \cup {"CREATED"} /\ by[g] # "free"
  BY <1>2 DEF GroupInv, Records, Locks
<1>4. phase[g] \in Active \cup Terminal \cup {"none", "PENDING", "CREATED"}
  BY DEF GroupInv, GroupTypeOK
<1>. QED BY <1>2, <1>3, <1>4 DEF Active, Terminal, Unplanned, Forming, Kind, Kinds

\* An RPC of the drive that fails, wherever it was lost.
LEMMA DriveFailsSound ==
    ASSUME DeathInv, GroupInv, NEW g \in Groups, NEW n \in Nodes, DriveFails(g, n)
    PROVE  GroupInv'
<1>. DEFINE kind == Kind(phase[g])
<1>0. /\ Turn(g) /\ n = Lowest(todo[g])
      /\ Steady /\ UNCHANGED <<recordVars, controlVars, reported, by, offer, child>>
  BY DEF DriveFails, Unresolved, Steady, deathVars, processVars, driverVars, rest
<1>1. \E S \in SUBSET todo[g] : todo' = [todo EXCEPT ![g] = S]
  BY DEF DriveFails, Unresolved
<1>2. \/ UNCHANGED <<reserved, faultVars>>
      \/ /\ lostRpc < use.lost /\ lostRpc' = lostRpc + 1
         /\ \/ Serve(kind, g, n) /\ UNCHANGED late
            \/ late' = late \cup {<<kind, g, n>>} /\ UNCHANGED reserved
  BY DEF DriveFails
<1>3. /\ n \in todo[g] /\ n \in plan[g] /\ kind \in Kinds /\ by[g] # "free" /\ phase[g] \notin Unplanned
      /\ kind = "abort" <=> phase[g] \notin Forming \cup Unplanned
  BY <1>0, TurnFinds DEF Active, Unplanned
<1>. HIDE DEF kind
<1>4. /\ lostRpc' \in 0..use.lost
      /\ reserved' \in [Nodes -> [Groups -> {"none", "PREPARED", "COMMITTED", "REMOVING", "ABORTED"}]]
      /\ \A k \in Nodes : Free(k)' \in 0..Capacity
  <2>1. lostRpc \in 0..use.lost /\ use.lost \in Nat
    BY NodeDeathsAssumption DEF GroupInv, GroupTypeOK, DeathInv, Registry
  <2>2. CASE UNCHANGED reserved
    BY <1>2, <2>1, <2>2, FreeSame DEF GroupInv, GroupTypeOK, faultVars
  <2>3. CASE Serve(kind, g, n) /\ lostRpc < use.lost /\ lostRpc' = lostRpc + 1
    BY <1>3, <2>1, <2>3, ServeFits DEF GroupInv
  <2>. QED BY <1>2, <2>2, <2>3
<1>5. Reservations'
  <2>1. CASE UNCHANGED <<reserved, late>>
    BY <1>0, <2>1 DEF GroupInv, Reservations, Forming, Unplanned, Steady, recordVars
  <2>2. CASE Serve(kind, g, n) /\ UNCHANGED late
    BY <1>0, <1>3, <2>2, ServeKeepsReservations
  <2>3. CASE late' = late \cup {<<kind, g, n>>} /\ UNCHANGED reserved
    <3>1. \A h \in Groups, k \in Nodes : phase[h] \in Forming \cup Unplanned => <<"abort", h, k>> \notin late'
      BY <1>3, <2>3 DEF GroupInv, Reservations
    <3>. QED BY <1>0, <2>3, <3>1 DEF GroupInv, Reservations, Forming, Unplanned, Steady, recordVars
  <2>. QED BY <1>2, <2>1, <2>2, <2>3 DEF faultVars
<1>6. late' \subseteq Kinds \X Groups \X Nodes /\ \A x \in late' : x \in late \/ x[2] = g
  BY <1>2, <1>3 DEF GroupInv, GroupTypeOK, faultVars, Kinds
<1>7. PICK S \in SUBSET todo[g] : todo' = [todo EXCEPT ![g] = S]
  BY <1>1
<1>. USE DEF GroupInv, recordVars, controlVars, Steady
<1>8. GroupTypeOK'
  BY <1>0, <1>4, <1>6, <1>7 DEF GroupTypeOK, Active, Terminal, Kinds
<1>9. Locks'
  BY <1>0, <1>3, <1>7 DEF GroupTypeOK, Locks, NoOffer
<1>10. Records'
  <2>1. ASSUME NEW h \in Groups, phase[h] \in Unplanned
        PROVE  late' \cap ({"prepare", "commit", "abort"} \X {h} \X Nodes) = {}
    <3>1. h # g
      BY <1>3, <2>1
    <3>. QED BY <1>6, <2>1, <3>1 DEF Records
  <2>. QED BY <1>0, <1>7, <2>1 DEF GroupTypeOK, Records, Unplanned
<1>11. DeathPasses'
  BY <1>0 DEF DeathPasses, Cleared, Forming
<1>. QED BY <1>5, <1>8, <1>9, <1>10, <1>11

\* What the GCS makes of an answer s to the operation of Node n: the progress and the
\* phase it records, and the rest of the round.
Outcome(g, n, s, P, C, A, T, ph) ==
    /\ P \in {prepared[g], prepared[g] \cup {n}} /\ C \in {committed[g], committed[g] \cup {n}}
    /\ A \in {aborted[g], aborted[g] \cup {n}} /\ T \subseteq plan[g]
    /\ ph \in Active \cup {"CREATED", "REMOVED"}
    /\ prepared' = [prepared EXCEPT ![g] = P] /\ committed' = [committed EXCEPT ![g] = C]
    /\ aborted' = [aborted EXCEPT ![g] = A] /\ plan' = plan
    /\ phase' = [phase EXCEPT ![g] = ph] /\ todo' = [todo EXCEPT ![g] = T]
    /\ ph \in Forming => phase[g] \in {"PREPARING", "COMMITTING"} /\ s # "ABORTED"
    /\ n \in P => n \in prepared[g] \/ s \in {"PREPARED", "COMMITTED", "REMOVING"}
    /\ n \in C => n \in committed[g] \/ s = "COMMITTED"
    /\ n \in A => n \in aborted[g] \/ s = "ABORTED"
    /\ ph = "PREPARING" => C = committed[g] /\ phase[g] = "PREPARING"
    /\ ph = "COMMITTING" => P = plan[g]
    /\ ph = "CREATED" => P = plan[g] /\ C = plan[g] /\ T = {}
    /\ ph = "REMOVED" => A = plan[g]

\* What one operation of a driver makes of the records.
LEMMA DriveRecords ==
    ASSUME DeathInv, GroupInv, NEW g \in Groups, NEW n \in Nodes, Drive(g, n)
    PROVE  /\ Serve(Kind(phase[g]), g, n) /\ n \in up /\ Turn(g) /\ n = Lowest(todo[g])
           /\ \E P, C, A, T, ph : Outcome(g, n, After(Kind(phase[g]), g, n), P, C, A, T, ph)
<1>. DEFINE kind == Kind(phase[g])
            s == After(kind, g, n)
<1>0. /\ Turn(g) /\ n = Lowest(todo[g]) /\ n \in up /\ Serve(kind, g, n)
      /\ IF Applied(kind, s) THEN Reduce(g, n) /\ Continue(g, n)
         ELSE IF kind = "abort" THEN Unresolved(g, n)
         ELSE /\ phase' = [phase EXCEPT ![g] = "ABORTING"] /\ Continue(g, n)
              /\ UNCHANGED <<plan, prepared, committed, aborted>>
  BY DEF Drive
<1>1. /\ n \in todo[g] /\ n \in plan[g] /\ plan[g] # {} /\ phase[g] \in Active \cup {"REMOVED"} /\ kind \in Kinds
      /\ kind = "prepare" <=> phase[g] = "PREPARING"
      /\ kind = "commit" <=> phase[g] = "COMMITTING"
      /\ kind = "abort" <=> phase[g] \notin Forming \cup Unplanned
  BY <1>0, TurnFinds
<1>2. /\ kind = "prepare" /\ Applied(kind, s) => s \in {"PREPARED", "COMMITTED", "REMOVING"}
      /\ kind = "commit" /\ Applied(kind, s) => s = "COMMITTED"
      /\ kind = "abort" /\ Applied(kind, s) => s = "ABORTED"
  BY <1>1, AfterIs DEF GroupInv
<1>. HIDE DEF kind, s
<1>3. /\ phase \in [Groups -> Active \cup Terminal \cup {"none", "PENDING", "CREATED"}]
      /\ plan \in [Groups -> SUBSET Nodes] /\ prepared \in [Groups -> SUBSET Nodes]
      /\ committed \in [Groups -> SUBSET Nodes] /\ aborted \in [Groups -> SUBSET Nodes]
      /\ todo \in [Groups -> SUBSET Nodes] /\ todo[g] \subseteq plan[g]
  BY DEF GroupInv, GroupTypeOK, Records
<1>4. /\ phase[g] = "COMMITTING" => prepared[g] = plan[g]
      /\ phase[g] = "REMOVED" => aborted[g] = plan[g]
  BY DEF GroupInv, Records
<1>. DEFINE P0 == prepared[g]
            C0 == committed[g]
            A0 == aborted[g]
            rest0 == todo[g] \ {n}
<1>5. prepared = [prepared EXCEPT ![g] = P0] /\ committed = [committed EXCEPT ![g] = C0]
      /\ aborted = [aborted EXCEPT ![g] = A0] /\ phase = [phase EXCEPT ![g] = phase[g]]
  BY <1>3
<1>6. ASSUME phase[g] = "PREPARING", Applied(kind, s)
      PROVE  \E P, C, A, T, ph : Outcome(g, n, s, P, C, A, T, ph)
  <2>. DEFINE P1 == P0 \cup {n}
  <2>1. prepared' = [prepared EXCEPT ![g] = P1] /\ UNCHANGED <<committed, aborted, plan>>
        /\ phase' = [phase EXCEPT ![g] = IF prepared'[g] = plan[g] THEN "COMMITTING" ELSE @]
    BY <1>0, <1>6 DEF Reduce
  <2>2. prepared'[g] = P1
    BY <1>3, <2>1
  <2>3. CASE P1 = plan[g]
    <3>1. phase' = [phase EXCEPT ![g] = "COMMITTING"] /\ phase'[g] = "COMMITTING"
      BY <1>3, <2>1, <2>2, <2>3
    <3>2. todo' = [todo EXCEPT ![g] = plan[g] \ C0]
      BY <1>0, <1>6, <3>1 DEF Continue
    <3>3. Outcome(g, n, s, P1, C0, A0, plan[g] \ C0, "COMMITTING")
      BY <1>1, <1>2, <1>5, <1>6, <2>1, <2>3, <3>1, <3>2 DEF Outcome, Active, Forming
    <3>. QED BY <3>3
  <2>4. CASE P1 # plan[g]
    <3>1. phase' = [phase EXCEPT ![g] = "PREPARING"] /\ phase'[g] = "PREPARING"
      BY <1>3, <1>6, <2>1, <2>2, <2>4
    <3>2. todo' = [todo EXCEPT ![g] = rest0]
      BY <1>0, <1>6, <3>1 DEF Continue
    <3>3. Outcome(g, n, s, P1, C0, A0, rest0, "PREPARING")
      BY <1>1, <1>2, <1>3, <1>5, <1>6, <2>1, <3>1, <3>2 DEF Outcome, Active, Forming
    <3>. QED BY <3>3
  <2>. QED BY <2>3, <2>4
<1>7. ASSUME phase[g] = "COMMITTING", Applied(kind, s)
      PROVE  \E P, C, A, T, ph : Outcome(g, n, s, P, C, A, T, ph)
  <2>. DEFINE C1 == C0 \cup {n}
  <2>1. committed' = [committed EXCEPT ![g] = C1] /\ UNCHANGED <<prepared, aborted, plan>>
        /\ phase' = [phase EXCEPT ![g] = IF committed'[g] = plan[g] THEN "CREATED" ELSE @]
    BY <1>0, <1>7 DEF Reduce
  <2>2. committed'[g] = C1
    BY <1>3, <2>1
  <2>3. CASE C1 = plan[g]
    <3>1. phase' = [phase EXCEPT ![g] = "CREATED"] /\ phase'[g] = "CREATED"
      BY <1>3, <2>1, <2>2, <2>3
    <3>2. todo' = [todo EXCEPT ![g] = {}]
      BY <1>0, <1>7, <3>1 DEF Continue
    <3>3. Outcome(g, n, s, P0, C1, A0, {}, "CREATED")
      BY <1>1, <1>2, <1>4, <1>5, <1>7, <2>1, <2>3, <3>1, <3>2 DEF Outcome, Active, Forming
    <3>. QED BY <3>3
  <2>4. CASE C1 # plan[g]
    <3>1. phase' = [phase EXCEPT ![g] = "COMMITTING"] /\ phase'[g] = "COMMITTING"
      BY <1>3, <1>7, <2>1, <2>2, <2>4
    <3>2. todo' = [todo EXCEPT ![g] = rest0]
      BY <1>0, <1>7, <3>1 DEF Continue
    <3>3. Outcome(g, n, s, P0, C1, A0, rest0, "COMMITTING")
      BY <1>1, <1>2, <1>3, <1>4, <1>5, <1>7, <2>1, <3>1, <3>2 DEF Outcome, Active, Forming
    <3>. QED BY <3>3
  <2>. QED BY <2>3, <2>4
<1>8. ASSUME kind = "abort", Applied(kind, s)
      PROVE  \E P, C, A, T, ph : Outcome(g, n, s, P, C, A, T, ph)
  <2>. DEFINE A1 == A0 \cup {n}
  <2>0. phase[g] \in Cleanup \cup {"REMOVED"}
    BY <1>1, <1>8 DEF Active, Cleanup, Forming
  <2>1. aborted' = [aborted EXCEPT ![g] = A1] /\ UNCHANGED <<prepared, committed, plan>>
        /\ phase' = [phase EXCEPT ![g] = IF @ # "LOST" /\ aborted'[g] = plan[g] THEN "REMOVED" ELSE @]
    BY <1>0, <1>8, <2>0 DEF Reduce, Cleanup
  <2>2. aborted'[g] = A1
    BY <1>3, <2>1
  <2>3. \E T \in SUBSET plan[g] : todo' = [todo EXCEPT ![g] = T]
    BY <1>0, <1>3, <1>8 DEF Continue
  <2>4. PICK T \in SUBSET plan[g] : todo' = [todo EXCEPT ![g] = T]
    BY <2>3
  <2>5. CASE phase[g] # "LOST" /\ A1 = plan[g]
    <3>1. phase' = [phase EXCEPT ![g] = "REMOVED"]
      BY <1>3, <2>1, <2>2, <2>5
    <3>2. Outcome(g, n, s, P0, C0, A1, T, "REMOVED")
      BY <1>1, <1>2, <1>5, <1>8, <2>1, <2>4, <2>5, <3>1 DEF Outcome, Active, Forming
    <3>. QED BY <3>2
  <2>6. CASE ~(phase[g] # "LOST" /\ A1 = plan[g])
    <3>1. phase' = [phase EXCEPT ![g] = phase[g]]
      BY <1>3, <2>1, <2>2, <2>6
    <3>2. phase[g] = "REMOVED" => A1 = plan[g]
      BY <1>1, <1>4
    <3>3. Outcome(g, n, s, P0, C0, A1, T, phase[g])
      BY <1>1, <1>2, <1>5, <1>8, <2>0, <2>1, <2>4, <3>1, <3>2 DEF Outcome, Active, Forming, Cleanup
    <3>. QED BY <3>3
  <2>. QED BY <2>5, <2>6
<1>9. ASSUME kind = "abort", ~Applied(kind, s)
      PROVE  \E P, C, A, T, ph : Outcome(g, n, s, P, C, A, T, ph)
  <2>0. phase[g] \in Cleanup \cup {"REMOVED"}
    BY <1>1, <1>9 DEF Active, Cleanup, Forming
  <2>1. UNCHANGED <<phase, plan, prepared, committed, aborted>> /\ \E T \in SUBSET plan[g] : todo' = [todo EXCEPT ![g] = T]
    BY <1>0, <1>3, <1>9 DEF Unresolved, recordVars
  <2>2. PICK T \in SUBSET plan[g] : todo' = [todo EXCEPT ![g] = T]
    BY <2>1
  <2>3. Outcome(g, n, s, P0, C0, A0, T, phase[g])
    BY <1>1, <1>4, <1>5, <2>0, <2>1, <2>2 DEF Outcome, Active, Forming, Cleanup
  <2>. QED BY <2>3
<1>10. ASSUME kind # "abort", ~Applied(kind, s)
       PROVE  \E P, C, A, T, ph : Outcome(g, n, s, P, C, A, T, ph)
  <2>1. phase' = [phase EXCEPT ![g] = "ABORTING"] /\ phase'[g] = "ABORTING"
        /\ UNCHANGED <<plan, prepared, committed, aborted>>
    BY <1>0, <1>3, <1>10
  <2>2. phase[g] # "ABORTING"
    BY <1>1, <1>10 DEF Forming, Unplanned
  <2>3. todo' = [todo EXCEPT ![g] = plan[g] \ A0]
    BY <1>0, <1>10, <2>1, <2>2 DEF Continue
  <2>4. Outcome(g, n, s, P0, C0, A0, plan[g] \ A0, "ABORTING")
    BY <1>5, <2>1, <2>3 DEF Outcome, Active, Forming
  <2>. QED BY <2>4
<1>11. \E P, C, A, T, ph : Outcome(g, n, s, P, C, A, T, ph)
  BY <1>1, <1>6, <1>7, <1>8, <1>9, <1>10 DEF Kinds
<1>. QED BY <1>0, <1>11 DEF kind, s

\* A driver's operation that is answered.
LEMMA DriveSound ==
    ASSUME DeathInv, GroupInv, NEW g \in Groups, NEW n \in Nodes, Drive(g, n)
    PROVE  GroupInv'
<1>. DEFINE kind == Kind(phase[g])
            s == After(kind, g, n)
<1>0. /\ Serve(kind, g, n) /\ n \in up /\ Turn(g) /\ n = Lowest(todo[g])
      /\ Steady /\ UNCHANGED <<controlVars, reported, by, offer, child, faultVars>>
  BY DriveRecords DEF Drive, Steady, deathVars, processVars, driverVars, rest
<1>1. PICK P, C, A, T, ph : Outcome(g, n, s, P, C, A, T, ph)
  BY DriveRecords
<1>2. /\ n \in todo[g] /\ n \in plan[g] /\ kind \in Kinds /\ by[g] # "free"
      /\ phase[g] \notin Unplanned \cup {"CREATED"} /\ todo[g] # {}
  BY <1>0, TurnFinds DEF Active, Unplanned
<1>3. /\ reserved' \in [Nodes -> [Groups -> {"none", "PREPARED", "COMMITTED", "REMOVING", "ABORTED"}]]
      /\ \A k \in Nodes : Free(k)' \in 0..Capacity
      /\ \A k \in Nodes, h \in Groups : reserved'[k][h] = IF k = n /\ h = g THEN s ELSE reserved[k][h]
  BY <1>0, <1>2, ServeFits DEF GroupInv
<1>4. /\ s \in {"none", "PREPARED", "COMMITTED", "REMOVING", "ABORTED"}
      /\ reserved[n][g] = "ABORTED" => s = "ABORTED"
      /\ kind # "abort" => /\ reserved[n][g] = "COMMITTED" => s = "COMMITTED"
                           /\ reserved[n][g] = "PREPARED" => s \in {"PREPARED", "COMMITTED"}
                           /\ reserved[n][g] # "REMOVING" => s # "REMOVING"
      /\ <<n, g>> \in child /\ reserved[n][g] \in {"COMMITTED", "REMOVING"} => s \in {"COMMITTED", "REMOVING"}
  BY <1>2, AfterIs DEF GroupInv
<1>5. phase[g] \in {"PREPARING", "COMMITTING"} => kind # "abort"
  BY DEF Kind
<1>. HIDE DEF kind, s
<1>6. /\ P \in {prepared[g], prepared[g] \cup {n}} /\ C \in {committed[g], committed[g] \cup {n}}
      /\ A \in {aborted[g], aborted[g] \cup {n}} /\ T \subseteq plan[g]
      /\ ph \in Active \cup {"CREATED", "REMOVED"}
      /\ prepared' = [prepared EXCEPT ![g] = P] /\ committed' = [committed EXCEPT ![g] = C]
      /\ aborted' = [aborted EXCEPT ![g] = A] /\ plan' = plan
      /\ phase' = [phase EXCEPT ![g] = ph] /\ todo' = [todo EXCEPT ![g] = T]
  BY <1>1 DEF Outcome
<1>. USE DEF GroupInv, recordVars, controlVars, faultVars, Steady
<1>7. GroupTypeOK'
  <2>1. phase' \in [Groups -> Active \cup Terminal \cup {"none", "PENDING", "CREATED"}]
    BY <1>6 DEF GroupTypeOK, Active, Terminal
  <2>2. P \cup C \cup A \subseteq plan[g] /\ P \in SUBSET Nodes /\ C \in SUBSET Nodes /\ A \in SUBSET Nodes /\ T \in SUBSET Nodes
    BY <1>2, <1>6 DEF GroupTypeOK
  <2>3. \A p \in {plan', prepared', committed', aborted', todo'} : p \in [Groups -> SUBSET Nodes]
    <3>1. /\ plan \in [Groups -> SUBSET Nodes] /\ prepared \in [Groups -> SUBSET Nodes]
          /\ committed \in [Groups -> SUBSET Nodes] /\ aborted \in [Groups -> SUBSET Nodes]
          /\ todo \in [Groups -> SUBSET Nodes]
      BY DEF GroupTypeOK
    <3>. QED BY <1>6, <2>2, <3>1
  <2>4. ASSUME NEW h \in Groups PROVE prepared'[h] \cup committed'[h] \cup aborted'[h] \subseteq plan'[h]
    <3>1. CASE h = g
      <4>1. prepared'[h] = P /\ committed'[h] = C /\ aborted'[h] = A /\ plan'[h] = plan[g]
        BY <1>6, <3>1 DEF GroupTypeOK
      <4>. QED BY <2>2, <4>1
    <3>2. CASE h # g
      <4>1. prepared'[h] = prepared[h] /\ committed'[h] = committed[h] /\ aborted'[h] = aborted[h] /\ plan'[h] = plan[h]
        BY <1>6, <3>2 DEF GroupTypeOK
      <4>. QED BY <4>1 DEF GroupTypeOK
    <3>. QED BY <3>1, <3>2
  <2>. QED BY <1>0, <1>3, <2>1, <2>3, <2>4 DEF GroupTypeOK, Active, Terminal
<1>8. /\ \A h \in Groups : h # g => /\ phase'[h] = phase[h] /\ todo'[h] = todo[h] /\ prepared'[h] = prepared[h]
                                    /\ committed'[h] = committed[h] /\ aborted'[h] = aborted[h]
      /\ phase'[g] = ph /\ todo'[g] = T /\ prepared'[g] = P /\ committed'[g] = C /\ aborted'[g] = A
  BY <1>6 DEF GroupTypeOK
<1>9. Locks'
  <2>1. ph \notin {"none", "PENDING"} /\ phase[g] # "none"
    BY <1>2, <1>6 DEF Active, Unplanned
  <2>2. \A k \in Nodes : g \in held[k] => listed[k] = {}
    BY <1>2 DEF Locks
  <2>3. by[g] \notin {"plan", "snapshot", "free"}
    BY <1>0, <1>2 DEF Turn
  <2>. QED BY <1>0, <1>8, <2>1, <2>2, <2>3 DEF Locks
<1>10. Records'
  <2>1. ASSUME NEW h \in Groups, h # g
        PROVE  /\ phase'[h] \in Unplanned => plan'[h] = {} /\ late' \cap ({"prepare", "commit", "abort"} \X {h} \X Nodes) = {}
               /\ phase'[h] = "PREPARING" => committed'[h] = {}
               /\ phase'[h] \in {"COMMITTING", "CREATED"} => prepared'[h] = plan'[h]
               /\ phase'[h] = "CREATED" => committed'[h] = plan'[h]
               /\ phase'[h] = "REMOVED" => aborted'[h] = plan'[h]
               /\ todo'[h] \subseteq plan'[h]
               /\ phase'[h] = "CREATED" => todo'[h] = {}
    BY <1>0, <1>6, <1>8, <2>1 DEF Records
  <2>2. /\ ph \notin Unplanned
        /\ ph = "PREPARING" => C = {}
        /\ ph \in {"COMMITTING", "CREATED"} => P = plan[g]
        /\ ph = "CREATED" => C = plan[g]
        /\ ph = "REMOVED" => A = plan[g]
        /\ T \subseteq plan[g]
        /\ ph = "CREATED" => T = {}
    BY <1>1 DEF Outcome, Records, Unplanned, Active
  <2>. QED BY <1>6, <1>8, <2>1, <2>2 DEF Records, Unplanned
<1>11. Reservations'
  <2>1. ASSUME NEW c \in child' PROVE reserved'[c[1]][c[2]] \in {"COMMITTED", "REMOVING"}
    <3>1. c \in child /\ c[1] \in Nodes /\ c[2] \in Groups /\ c = <<c[1], c[2]>>
      BY <1>0 DEF GroupTypeOK
    <3>2. reserved[c[1]][c[2]] \in {"COMMITTED", "REMOVING"}
      BY <3>1 DEF Reservations
    <3>. QED BY <1>3, <1>4, <3>1, <3>2
  <2>2. ASSUME NEW h \in Groups, NEW k \in Nodes
        PROVE  /\ phase'[h] \in Forming \cup Unplanned => <<"abort", h, k>> \notin late' /\ reserved'[k][h] # "REMOVING"
               /\ k \in up' /\ phase'[h] \in Forming /\ k \in prepared'[h] => reserved'[k][h] \in {"PREPARED", "COMMITTED"}
               /\ k \in up' /\ phase'[h] \in Forming /\ k \in committed'[h] => reserved'[k][h] = "COMMITTED"
               /\ k \in up' /\ k \in aborted'[h] => reserved'[k][h] = "ABORTED"
    <3>1. CASE h # g
      BY <1>0, <1>3, <1>8, <3>1 DEF Reservations
    <3>2. CASE h = g
      <4>1. ph \in Forming => phase[g] \in {"PREPARING", "COMMITTING"} /\ kind # "abort" /\ ph \in Forming /\ phase[g] \in Forming
        BY <1>1, <1>5 DEF Outcome, Forming
      <4>2. ph \notin Unplanned
        BY <1>6 DEF Unplanned, Active
      <4>3. ASSUME ph \in Forming PROVE <<"abort", g, k>> \notin late /\ reserved'[k][g] # "REMOVING"
        BY <1>3, <1>4, <4>1, <4>3 DEF Reservations
      <4>4. ASSUME ph \in Forming, k \in up, k \in P PROVE reserved'[k][g] \in {"PREPARED", "COMMITTED"}
        <5>1. CASE k \in prepared[g]
          BY <1>3, <1>4, <4>1, <4>4, <5>1 DEF Reservations
        <5>2. CASE k \notin prepared[g]
          <6>1. k = n /\ s \in {"PREPARED", "COMMITTED", "REMOVING"}
            BY <1>1, <4>4, <5>2 DEF Outcome
          <6>. QED BY <1>3, <4>3, <4>4, <6>1
        <5>. QED BY <5>1, <5>2
      <4>5. ASSUME ph \in Forming, k \in up, k \in C PROVE reserved'[k][g] = "COMMITTED"
        <5>1. CASE k \in committed[g]
          BY <1>3, <1>4, <4>1, <4>5, <5>1, ZenonT(100) DEF Reservations
        <5>2. CASE k \notin committed[g]
          <6>1. k = n /\ s = "COMMITTED"
            BY <1>1, <4>5, <5>2 DEF Outcome
          <6>. QED BY <1>3, <6>1
        <5>. QED BY <5>1, <5>2
      <4>6. ASSUME k \in up, k \in A PROVE reserved'[k][g] = "ABORTED"
        <5>1. CASE k \in aborted[g]
          BY <1>3, <1>4, <4>6, <5>1, ZenonT(100) DEF Reservations
        <5>2. CASE k \notin aborted[g]
          <6>1. k = n /\ s = "ABORTED"
            BY <1>1, <4>6, <5>2 DEF Outcome
          <6>. QED BY <1>3, <6>1
        <5>. QED BY <5>1, <5>2
      <4>. QED BY <1>0, <1>8, <3>2, <4>2, <4>3, <4>4, <4>5, <4>6
    <3>. QED BY <3>1, <3>2
  <2>. QED BY <2>1, <2>2 DEF Reservations, Forming, Unplanned
<1>12. DeathPasses'
  <2>1. \A h \in Groups : phase'[h] \in Forming => phase[h] \in Forming
    BY <1>1, <1>8 DEF Outcome, Forming
  <2>2. \A k : Cleared(k) => Cleared(k)'
    BY <1>0, <1>6, <2>1 DEF Cleared, Forming
  <2>3. ASSUME NEW k \in Nodes, listed'[k] # {}, NEW h \in Groups,
               k \in offer'[h].fit \/ (k \in plan'[h] /\ phase'[h] \in Forming)
        PROVE  h \in listed'[k] \cup held'[k]
    BY <1>0, <1>6, <2>1, <2>3 DEF DeathPasses
  <2>. QED BY <1>0, <2>2, <2>3 DEF DeathPasses, Forming
<1>. QED BY <1>7, <1>9, <1>10, <1>11, <1>12

-----------------------------------------------------------------------------
(* A Node death goes through the groups *)

\* A death lists the groups it has to go through.
LEMMA ListGroupsSound ==
    ASSUME DeathInv, GroupInv, NEW n \in Nodes, ListGroups(n)
    PROVE  GroupInv'
<1>. USE DEF ListGroups
<1>0. /\ handler[n] = "groups" /\ listed[n] = {} /\ held[n] = {}
      /\ listed' = [listed EXCEPT ![n] = known]
      /\ handler' = [handler EXCEPT ![n] = IF known = {} THEN "actors" ELSE @]
      /\ UNCHANGED <<use, up, recorded, recordVars, lockVars, ledgerVars, faultVars, known, closed, held, round, reported>>
      /\ \A k : Free(k)' = Free(k)
  BY FreeSame DEF failRest, processVars, driverVars, ledgerVars
<1>. HIDE DEF ListGroups
<1>1. /\ listed \in [Nodes -> SUBSET Groups] /\ held \in [Nodes -> SUBSET Groups] /\ known \subseteq Groups
      /\ handler \in [Nodes -> {"idle", "groups", "actors"}]
  BY DEF GroupInv, GroupTypeOK, DeathInv, DeathTypeOK
<1>2. /\ \A k \in Nodes : listed'[k] = IF k = n THEN known ELSE listed[k]
      /\ \A k \in Nodes : handler'[k] = IF k = n /\ known = {} THEN "actors" ELSE handler[k]
  BY <1>0, <1>1
<1>. USE DEF GroupInv, recordVars, lockVars, ledgerVars, faultVars
<1>3. GroupTypeOK'
  BY <1>0, <1>1 DEF GroupTypeOK, Active, Terminal
<1>4. Records' /\ Reservations'
  BY <1>0 DEF Records, Reservations, Forming, Unplanned
<1>5. Locks'
  BY <1>0, <1>2 DEF Locks, NoOffer
<1>6. \A h \in Groups : h \notin known => offer[h].fit = {} /\ plan[h] = {}
  BY DEF Locks, Records, Unplanned, NoOffer
<1>7. \A k : Cleared(k)' = Cleared(k)
  BY <1>0 DEF Cleared, Forming
<1>8. DeathPasses'
  <2>1. \A k \in recorded' : Cleared(k)'
    BY <1>0, <1>7 DEF DeathPasses
  <2>2. ASSUME NEW k \in Nodes, handler'[k] = "actors" \/ (listed'[k] = {} /\ held'[k] # {}) PROVE Cleared(k)'
    <3>1. CASE k = n
      <4>1. known = {}
        BY <1>0, <1>2, <2>2, <3>1
      <4>. QED BY <1>6, <1>7, <4>1 DEF Cleared
    <3>2. CASE k # n
      BY <1>0, <1>2, <1>7, <2>2, <3>2 DEF DeathPasses
    <3>. QED BY <3>1, <3>2
  <2>3. ASSUME NEW k \in Nodes, listed'[k] # {}, NEW h \in Groups,
               k \in offer'[h].fit \/ (k \in plan'[h] /\ phase'[h] \in Forming)
        PROVE  h \in listed'[k] \cup held'[k]
    BY <1>0, <1>2, <1>6, <2>3 DEF DeathPasses, Forming
  <2>. QED BY <2>1, <2>2, <2>3 DEF DeathPasses, Forming
<1>. QED BY <1>3, <1>4, <1>5, <1>8

\* A death has gone through the groups, and goes on to the Actors.
LEMMA EndGroupsSound ==
    ASSUME DeathInv, GroupInv, NEW n \in Nodes, EndGroups(n)
    PROVE  GroupInv'
<1>. USE DEF EndGroups
<1>0. /\ handler[n] = "groups" /\ listed[n] = {} /\ held[n] # {} /\ \A g \in held[n] : todo[g] = {}
      /\ by' = [g \in Groups |-> IF g \in held[n] THEN "free" ELSE by[g]]
      /\ held' = [held EXCEPT ![n] = {}]
      /\ handler' = [handler EXCEPT ![n] = "actors"]
      /\ UNCHANGED <<use, up, recorded, recordVars, offer, todo, ledgerVars, faultVars, known, closed, listed, round, reported>>
      /\ \A k : Free(k)' = Free(k)
  BY FreeSame DEF failRest, processVars, driverVars, ledgerVars
<1>. HIDE DEF EndGroups
<1>1. /\ listed \in [Nodes -> SUBSET Groups] /\ held \in [Nodes -> SUBSET Groups]
      /\ handler \in [Nodes -> {"idle", "groups", "actors"}]
  BY DEF GroupInv, GroupTypeOK, DeathInv, DeathTypeOK
<1>2. /\ \A k \in Nodes : held'[k] = IF k = n THEN {} ELSE held[k]
      /\ \A k \in Nodes : handler'[k] = IF k = n THEN "actors" ELSE handler[k]
      /\ \A h \in Groups : by'[h] = IF h \in held[n] THEN "free" ELSE by[h]
  BY <1>0, <1>1
<1>. USE DEF GroupInv, recordVars, ledgerVars, faultVars
<1>3. GroupTypeOK'
  BY <1>0, <1>1 DEF GroupTypeOK, Active, Terminal
<1>4. Records' /\ Reservations'
  BY <1>0 DEF Records, Reservations, Forming, Unplanned
<1>5. Locks'
  <2>1. ASSUME NEW k \in Nodes, NEW h \in Groups, h \in held'[k]
        PROVE  by'[h] = "death" /\ (listed'[k] # {} => todo'[h] = {})
    <3>1. k # n /\ h \in held[k] /\ h \notin held[n]
      BY <1>2, <2>1 DEF Locks
    <3>. QED BY <1>0, <1>2, <3>1 DEF Locks
  <2>2. ASSUME NEW h \in Groups
        PROVE  /\ by'[h] = "free" => todo'[h] = {}
               /\ by'[h] \in {"plan", "snapshot"} => phase'[h] \in {"none", "PENDING"} /\ h \in known'
               /\ by'[h] # "snapshot" => offer'[h] = NoOffer
               /\ phase'[h] # "none" => h \in known'
    <3>1. CASE h \in held[n]
      BY <1>0, <1>2, <3>1 DEF Locks
    <3>2. CASE h \notin held[n]
      BY <1>0, <1>2, <3>2 DEF Locks
    <3>. QED BY <3>1, <3>2
  <2>. QED BY <1>0, <1>2, <2>1, <2>2 DEF Locks
<1>7. \A k : Cleared(k)' = Cleared(k)
  BY <1>0 DEF Cleared, Forming
<1>8. DeathPasses'
  BY <1>0, <1>2, <1>7 DEF DeathPasses, Forming
<1>. QED BY <1>3, <1>4, <1>5, <1>8

\* The last lock is taken, and the death is reduced over all the groups at once: those
\* that count on the Node are lost, and none that was offered it is left.
LEMMA LockGroupSound ==
    ASSUME DeathInv, GroupInv, NEW n \in Nodes, LockGroup(n)
    PROVE  GroupInv'
<1>. DEFINE g == Lowest(listed[n])
<1>0. /\ handler[n] = "groups" /\ listed[n] # {} /\ by[g] = "free"
      /\ by' = [by EXCEPT ![g] = "death"]
      /\ held' = [held EXCEPT ![n] = @ \cup {g}]
      /\ listed' = [listed EXCEPT ![n] = @ \ {g}]
      /\ Steady /\ UNCHANGED <<offer, ledgerVars, faultVars, known, closed, round, reported>>
      /\ \A k : Free(k)' = Free(k)
  BY FreeSame DEF LockGroup, failRest, processVars, driverVars, ledgerVars, Steady
<1>1. IF listed'[n] # {} THEN UNCHANGED <<recordVars, todo>>
      ELSE /\ aborted' = [h \in Groups |-> IF Affected(h, n) THEN aborted[h] \cup {n} ELSE aborted[h]]
           /\ phase' = [h \in Groups |->
                IF ~Affected(h, n) THEN phase[h]
                ELSE IF phase[h] \in {"PREPARING", "COMMITTING", "CREATED"} THEN "LOST"
                ELSE IF phase[h] # "LOST" /\ aborted'[h] = plan[h] THEN "REMOVED" ELSE phase[h]]
           /\ todo' = [h \in Groups |->
                IF h \in held'[n] /\ Affected(h, n) /\ phase'[h] \in Cleanup
                THEN plan[h] \ aborted'[h] ELSE todo[h]]
           /\ UNCHANGED <<plan, prepared, committed>>
  BY DEF LockGroup
<1>2. g \in listed[n] /\ g \in Groups
  <2>1. listed[n] \in SUBSET Groups /\ Groups \subseteq Nat
    BY PlacementGroupsAssumption DEF GroupInv, GroupTypeOK
  <2>. QED BY <1>0, <2>1, LowestIsIn
<1>. HIDE DEF g
<1>3. /\ listed \in [Nodes -> SUBSET Groups] /\ held \in [Nodes -> SUBSET Groups]
      /\ by \in [Groups -> {"free", "plan", "snapshot", "create", "remove", "shutdown", "death"}]
      /\ n \notin up
  BY <1>0 DEF GroupInv, GroupTypeOK, DeathInv, Observed
<1>4. /\ \A k \in Nodes : held'[k] = IF k = n THEN held[k] \cup {g} ELSE held[k]
      /\ \A k \in Nodes : listed'[k] = IF k = n THEN listed[k] \ {g} ELSE listed[k]
      /\ \A h \in Groups : by'[h] = IF h = g THEN "death" ELSE by[h]
  BY <1>0, <1>2, <1>3
<1>. USE DEF GroupInv, ledgerVars, faultVars, Steady
<1>5. \A k \in Nodes : g \notin held[k]
  BY <1>0, <1>2 DEF Locks
<1>6. /\ \A k, m \in Nodes, h \in Groups : k # m /\ h \in held[k] => h \notin held[m]
      /\ \A k \in Nodes, h \in Groups : h \in held[k] => by[h] = "death" /\ (listed[k] # {} => todo[h] = {})
  BY DEF Locks
<1>7. todo[g] = {} /\ offer[g] = NoOffer
  BY <1>0, <1>2 DEF Locks
\* What the reduction, if this is the last lock, makes of one group.
<1>8. ASSUME NEW h \in Groups
      PROVE  /\ plan'[h] = plan[h] /\ prepared'[h] = prepared[h] /\ committed'[h] = committed[h]
             /\ aborted'[h] \in {aborted[h], aborted[h] \cup {n}} /\ aborted'[h] \subseteq plan[h]
             /\ phase'[h] = phase[h] \/ (phase[h] \in Active \cup {"CREATED"} /\ phase'[h] \in {"LOST", "REMOVED"})
             /\ phase'[h] = "REMOVED" => aborted'[h] = plan[h]
             /\ todo'[h] = todo[h] \/ (todo'[h] \subseteq plan[h] /\ h \in held'[n] /\ listed'[n] = {} /\ phase'[h] # "CREATED")
             /\ listed'[n] = {} => ~(n \in plan[h] /\ phase'[h] \in Forming)
  <2>0. aborted[h] \subseteq plan[h] /\ (phase[h] = "REMOVED" => aborted[h] = plan[h])
    BY DEF GroupTypeOK, Records
  <2>1. CASE listed'[n] # {}
    BY <1>1, <2>0, <2>1 DEF recordVars
  <2>2. CASE listed'[n] = {}
    <3>1. /\ aborted'[h] = IF Affected(h, n) THEN aborted[h] \cup {n} ELSE aborted[h]
          /\ phase'[h] = IF ~Affected(h, n) THEN phase[h]
                ELSE IF phase[h] \in {"PREPARING", "COMMITTING", "CREATED"} THEN "LOST"
                ELSE IF phase[h] # "LOST" /\ aborted'[h] = plan[h] THEN "REMOVED" ELSE phase[h]
          /\ todo'[h] = IF h \in held'[n] /\ Affected(h, n) /\ phase'[h] \in Cleanup
                THEN plan[h] \ aborted'[h] ELSE todo[h]
          /\ plan'[h] = plan[h] /\ prepared'[h] = prepared[h] /\ committed'[h] = committed[h]
      BY <1>1, <2>2
    <3>2. Affected(h, n) <=> (n \in plan[h] /\ phase[h] \in Active \cup {"CREATED"})
      BY DEF Affected
    <3>3. CASE Affected(h, n)
      BY <2>0, <2>2, <3>1, <3>2, <3>3 DEF Active, Cleanup, Forming
    <3>4. CASE ~Affected(h, n)
      BY <2>0, <2>2, <3>1, <3>2, <3>4 DEF Active, Forming
    <3>. QED BY <3>3, <3>4
  <2>. QED BY <2>1, <2>2
<1>9. /\ phase' \in [Groups -> Active \cup Terminal \cup {"none", "PENDING", "CREATED"}]
      /\ \A p \in {plan', prepared', committed', aborted', todo'} : p \in [Groups -> SUBSET Nodes]
  <2>1. /\ phase \in [Groups -> Active \cup Terminal \cup {"none", "PENDING", "CREATED"}]
        /\ \A p \in {plan, prepared, committed, aborted, todo} : p \in [Groups -> SUBSET Nodes]
    BY DEF GroupTypeOK
  <2>2. CASE listed'[n] # {}
    BY <1>1, <2>1, <2>2 DEF recordVars
  <2>3. CASE listed'[n] = {}
    <3>1. \A h \in Groups : phase'[h] \in Active \cup Terminal \cup {"none", "PENDING", "CREATED"}
      BY <1>8, <2>1 DEF Active, Terminal
    <3>2. phase' \in [Groups -> Active \cup Terminal \cup {"none", "PENDING", "CREATED"}]
      <4>. DEFINE X == Active \cup Terminal \cup {"none", "PENDING", "CREATED"}
      <4>1. phase' = [h \in Groups |-> phase'[h]]
        BY <1>1, <2>3
      <4>2. \A h \in Groups : phase'[h] \in X
        BY <3>1
      <4>. HIDE DEF X
      <4>3. phase' \in [Groups -> X]
        BY <4>1, <4>2
      <4>. QED BY <4>3 DEF X
    <3>3. \A h \in Groups : aborted'[h] \in SUBSET Nodes /\ todo'[h] \in SUBSET Nodes
      BY <1>8, <2>1
    <3>4. aborted' = [h \in Groups |-> aborted'[h]] /\ todo' = [h \in Groups |-> todo'[h]]
      BY <1>1, <2>3
    <3>5. aborted' \in [Groups -> SUBSET Nodes] /\ todo' \in [Groups -> SUBSET Nodes]
      BY <3>3, <3>4
    <3>. QED BY <1>1, <2>1, <2>3, <3>2, <3>5
  <2>. QED BY <2>2, <2>3
<1>10. GroupTypeOK'
  <2>1. \A h \in Groups : prepared'[h] \cup committed'[h] \cup aborted'[h] \subseteq plan'[h]
    BY <1>8 DEF GroupTypeOK
  <2>2. /\ listed' \in [Nodes -> SUBSET Groups] /\ held' \in [Nodes -> SUBSET Groups]
        /\ by' \in [Groups -> {"free", "plan", "snapshot", "create", "remove", "shutdown", "death"}]
    BY <1>0, <1>2, <1>3
  <2>. QED BY <1>0, <1>9, <2>1, <2>2 DEF GroupTypeOK, Active, Terminal
<1>11. Locks'
  <2>1. ASSUME NEW k \in Nodes, NEW h \in Groups, h \in held'[k]
        PROVE  by'[h] = "death" /\ (listed'[k] # {} => todo'[h] = {})
    <3>1. CASE h = g
      <4>1. k = n
        BY <1>4, <1>5, <2>1, <3>1
      <4>. QED BY <1>4, <1>7, <1>8, <3>1, <4>1
    <3>2. CASE h # g
      <4>1. h \in held[k] /\ by'[h] = "death"
        <5>1. h \in held[k]
          BY <1>4, <2>1, <3>2
        <5>2. by[h] = "death" /\ by'[h] = by[h]
          BY <1>4, <1>6, <3>2, <5>1
        <5>. QED BY <5>1, <5>2
      <4>2. ASSUME listed'[k] # {} PROVE todo'[h] = {}
        <5>1. listed[k] # {} /\ todo[h] = {}
          BY <1>4, <4>1, <4>2 DEF Locks
        <5>2. ~(h \in held'[n] /\ listed'[n] = {})
          <6>1. CASE k = n
            BY <4>2, <6>1
          <6>2. CASE k # n
            BY <1>4, <1>6, <3>2, <4>1, <6>2
          <6>. QED BY <6>1, <6>2
        <5>. QED BY <1>8, <5>1, <5>2
      <4>. QED BY <4>1, <4>2
    <3>. QED BY <3>1, <3>2
  <2>2. ASSUME NEW h \in Groups
        PROVE  /\ by'[h] = "free" => todo'[h] = {}
               /\ by'[h] \in {"plan", "snapshot"} => phase'[h] \in {"none", "PENDING"} /\ h \in known'
               /\ by'[h] # "snapshot" => offer'[h] = NoOffer
               /\ phase'[h] # "none" => h \in known'
    <3>1. CASE h = g
      <4>1. by'[h] = "death" /\ offer'[h] = NoOffer /\ known' = known
        BY <1>0, <1>4, <1>7, <3>1
      <4>2. phase'[h] # "none" => h \in known
        BY <1>8 DEF Locks, Active
      <4>. QED BY <4>1, <4>2
    <3>2. CASE h # g
      <4>1. by'[h] = by[h] /\ offer'[h] = offer[h] /\ known' = known
        BY <1>0, <1>4, <3>2
      <4>2. phase[h] \in {"none", "PENDING"} => phase'[h] = phase[h]
        BY <1>8 DEF Active
      <4>3. phase'[h] # "none" => phase[h] # "none"
        BY <4>2
      <4>4. by[h] = "free" => todo'[h] = todo[h]
        BY <1>8, <2>1, <4>1
      <4>. QED BY <4>1, <4>2, <4>3, <4>4 DEF Locks
    <3>. QED BY <3>1, <3>2
  <2>3. \A k \in Nodes : listed'[k] \cup held'[k] # {} => handler'[k] = "groups"
    BY <1>0, <1>4 DEF Locks
  <2>4. \A k, m \in Nodes : k # m => held'[k] \cap held'[m] = {}
    <3>. SUFFICES ASSUME NEW k \in Nodes, NEW m \in Nodes, k # m, NEW h \in held'[k], h \in held'[m] PROVE FALSE
      OBVIOUS
    <3>1. h \in Groups
      BY <1>2, <1>3, <1>4
    <3>. QED BY <1>4, <1>5, <1>6, <3>1, ZenonT(100)
  <2>. QED BY <2>1, <2>2, <2>3, <2>4 DEF Locks
<1>12. Records'
  <2>1. ASSUME NEW h \in Groups
        PROVE  /\ phase'[h] \in Unplanned => plan'[h] = {} /\ late' \cap ({"prepare", "commit", "abort"} \X {h} \X Nodes) = {}
               /\ phase'[h] = "PREPARING" => committed'[h] = {}
               /\ phase'[h] \in {"COMMITTING", "CREATED"} => prepared'[h] = plan'[h]
               /\ phase'[h] = "CREATED" => committed'[h] = plan'[h]
               /\ phase'[h] = "REMOVED" => aborted'[h] = plan'[h]
               /\ todo'[h] \subseteq plan'[h]
               /\ phase'[h] = "CREATED" => todo'[h] = {}
    <3>1. phase'[h] \in Unplanned \cup {"PREPARING", "COMMITTING", "CREATED"} => phase'[h] = phase[h]
      BY <1>8 DEF Unplanned
    <3>. QED BY <1>0, <1>8, <3>1 DEF Records, Unplanned
  <2>. QED BY <2>1 DEF Records, Unplanned
<1>13. Reservations'
  <2>1. \A h \in Groups : phase'[h] \in Forming \cup Unplanned => phase'[h] = phase[h]
    BY <1>8 DEF Forming, Unplanned
  <2>2. ASSUME NEW h \in Groups, NEW k \in Nodes
        PROVE  /\ phase'[h] \in Forming \cup Unplanned => <<"abort", h, k>> \notin late' /\ reserved'[k][h] # "REMOVING"
               /\ k \in up' /\ phase'[h] \in Forming /\ k \in prepared'[h] => reserved'[k][h] \in {"PREPARED", "COMMITTED"}
               /\ k \in up' /\ phase'[h] \in Forming /\ k \in committed'[h] => reserved'[k][h] = "COMMITTED"
               /\ k \in up' /\ k \in aborted'[h] => reserved'[k][h] = "ABORTED"
    <3>1. k \in up' /\ k \in aborted'[h] => k \in aborted[h]
      BY <1>0, <1>3, <1>8
    <3>. QED BY <1>0, <1>8, <2>1, <3>1 DEF Reservations
  <2>3. \A c \in child' : reserved'[c[1]][c[2]] \in {"COMMITTED", "REMOVING"}
    BY <1>0 DEF Reservations
  <2>. QED BY <2>2, <2>3 DEF Reservations, Forming, Unplanned
<1>14. DeathPasses'
  <2>1. \A h \in Groups : phase'[h] \in Forming => phase[h] \in Forming
    BY <1>8 DEF Forming
  <2>2. \A k : Cleared(k) => Cleared(k)'
    BY <1>0, <1>8, <2>1 DEF Cleared, Forming
  <2>3. ASSUME NEW k \in Nodes, listed'[k] # {}, NEW h \in Groups,
               k \in offer'[h].fit \/ (k \in plan'[h] /\ phase'[h] \in Forming)
        PROVE  h \in listed'[k] \cup held'[k]
    <3>1. h \in listed[k] \cup held[k]
      BY <1>0, <1>4, <1>8, <2>1, <2>3 DEF DeathPasses
    <3>. QED BY <1>4, <3>1
  <2>4. ASSUME NEW k \in Nodes, handler'[k] = "actors" \/ (listed'[k] = {} /\ held'[k] # {}) PROVE Cleared(k)'
    <3>1. CASE k # n
      BY <1>0, <1>4, <2>2, <2>4, <3>1 DEF DeathPasses
    <3>2. CASE k = n
      <4>1. listed'[n] = {}
        BY <1>0, <2>4, <3>2
      <4>2. listed[n] = {g}
        BY <1>2, <1>4, <4>1
      <4>3. ASSUME NEW h \in Groups PROVE n \notin offer[h].fit
        <5>. SUFFICES ASSUME n \in offer[h].fit PROVE FALSE
          OBVIOUS
        <5>1. h \in {g} \cup held[n] /\ offer[h] # NoOffer
          BY <1>0, <4>2 DEF DeathPasses, NoOffer
        <5>2. by[h] = "snapshot"
          BY <5>1 DEF Locks
        <5>. QED BY <1>0, <5>1, <5>2 DEF Locks
      <4>. QED BY <1>0, <1>8, <3>2, <4>1, <4>3 DEF Cleared, Forming
    <3>. QED BY <3>1, <3>2
  <2>. QED BY <1>0, <2>2, <2>3, <2>4 DEF DeathPasses, Forming
<1>. QED BY <1>10, <1>11, <1>12, <1>13, <1>14

-----------------------------------------------------------------------------
(* Every step of the control plane, on the groups *)

\* The control plane starts with no group, and every Node free.
LEMMA GroupInitSound ==
    ASSUME Init
    PROVE  GroupInv
<1>. USE DEF Init, DeathInit, GroupInit, NoOffer
<1>0. use.lost \in Nat /\ Capacity \in Nat
  BY NodeDeathsAssumption, PlacementGroupsAssumption
<1>1. ASSUME NEW n \in Nodes PROVE Free(n) \in 0..Capacity
  <2>1. {g \in Groups : reserved[n][g] \in Holding} = {}
    BY DEF Holding
  <2>2. SumFunctionOnSet(Depth, {g \in Groups : reserved[n][g] \in Holding}) = 0
    BY <2>1, SumOfNothing
  <2>. QED BY <1>0, <2>2 DEF Free
<1>2. GroupTypeOK
  <2>1. plan \in [Groups -> SUBSET Nodes] /\ phase \in [Groups -> Active \cup Terminal \cup {"none", "PENDING", "CREATED"}]
    OBVIOUS
  <2>2. /\ by \in [Groups -> {"free", "plan", "snapshot", "create", "remove", "shutdown", "death"}]
        /\ offer \in [Groups -> [fit : SUBSET Nodes, could : SUBSET Nodes]]
    OBVIOUS
  <2>3. /\ listed \in [Nodes -> SUBSET Groups] /\ held \in [Nodes -> SUBSET Groups]
        /\ reported \in [Nodes -> 0..Capacity]
        /\ reserved \in [Nodes -> [Groups -> {"none", "PREPARED", "COMMITTED", "REMOVING", "ABORTED"}]]
    BY <1>0
  <2>4. \A p \in {plan, prepared, committed, aborted, todo} : p \in [Groups -> SUBSET Nodes]
    BY <2>1
  <2>5. \A g \in Groups : prepared[g] \cup committed[g] \cup aborted[g] \subseteq plan[g]
    OBVIOUS
  <2>6. known \subseteq Groups /\ round \subseteq Groups /\ closed \in BOOLEAN
    OBVIOUS
  <2>7. child = {} /\ late = {} /\ lostRpc = 0
    OBVIOUS
  <2>8. 0 \in 0..use.lost
    BY <1>0
  <2>. HIDE DEF DeathInit, GroupInit
  <2>. QED BY <1>1, <2>1, <2>2, <2>3, <2>4, <2>5, <2>6, <2>7, <2>8 DEF GroupTypeOK
<1>3. Records /\ Locks
  BY DEF Records, Locks, Unplanned
<1>4. Reservations /\ DeathPasses
  BY DEF Reservations, DeathPasses, Cleared, Forming, Unplanned
<1>. QED BY <1>2, <1>3, <1>4 DEF GroupInv

\* Every step of the groups keeps their invariant.
LEMMA GroupStepSound ==
    ASSUME DeathInv, GroupInv, GroupNext
    PROVE  GroupInv'
<1>1. ASSUME NEW g \in Groups, GroupGcs(g) PROVE GroupInv'
  BY <1>1, CreateEnterSound, TakeSnapshotSound, PlanSound, RemoveEnterSound, FinishSound, CleanGroupSound,
     DriveSound, DriveFailsSound DEF GroupGcs
<1>2. ASSUME NEW g \in Groups, GroupOwner(g) PROVE GroupInv'
  <2>1. /\ UNCHANGED <<use, up, handler, recorded>>
        /\ UNCHANGED <<recordVars, lockVars, ledgerVars, faultVars, controlVars, reported>>
    BY <1>2 DEF GroupOwner, CallCreate, CallRemove, Replay, TakeCreate, TakeRemove, TakeOver, ownRest,
                deathVars, processVars, driverVars
  <2>. QED BY <2>1, OthersKeepGroups
<1>3. ASSUME NEW n \in Nodes, GroupDeath(n) PROVE GroupInv'
  BY <1>3, ListGroupsSound, LockGroupSound, EndGroupsSound DEF GroupDeath
<1>4. ASSUME NEW n \in Nodes, NEW g \in Groups, StartChild(n, g) \/ EndChild(n, g) PROVE GroupInv'
  BY <1>4, StartChildSound, EndChildSound
<1>. QED BY <1>1, <1>2, <1>3, <1>4, ResourcesSound, ServeLateSound, BeginRoundSound DEF GroupNext

\* A step of the membership or of the Actors.
LEMMA OtherStepSound ==
    ASSUME DeathInv, GroupInv, UNCHANGED <<recordVars, lockVars, ledgerVars, faultVars, controlVars, reported>>,
           Exits \/ Membership \/ (\E n \in Nodes : OwnerHandles(n)) \/ ActorNext \/ UNCHANGED vars
    PROVE  GroupInv'
<1>1. CASE UNCHANGED <<use, up, handler, recorded>>
  BY <1>1, OthersKeepGroups
<1>2. CASE Exits
  <2>1. use' = use /\ up' \subseteq up /\ handler' = handler /\ recorded' = recorded
    BY <1>2 DEF Exits, ExitStep, NodeExit, WorkerExit, driverVars
  <2>. QED BY <2>1, OthersKeepGroups
<1>3. ASSUME NEW n \in Nodes, ReportNodeDeath(n) PROVE GroupInv'
  <2>1. use' = use /\ up' = up /\ recorded' = recorded /\ handler[n] = "idle"
        /\ handler' = [handler EXCEPT ![n] = "groups"]
    BY <1>3 DEF ReportNodeDeath, processVars, driverVars
  <2>2. \A k \in Nodes : handler'[k] = IF k = n THEN "groups" ELSE handler[k]
    BY <2>1 DEF DeathInv, DeathTypeOK
  <2>. QED BY <2>1, <2>2, OthersKeepGroups
<1>4. ASSUME NEW n \in Nodes, AnswerDeath(n) PROVE GroupInv'
  <2>1. use' = use /\ up' = up /\ handler[n] = "actors" /\ handler' = [handler EXCEPT ![n] = "idle"]
        /\ recorded' \subseteq recorded \cup {n}
    BY <1>4 DEF AnswerDeath, Answer, processVars
  <2>2. \A k \in Nodes : handler'[k] = IF k = n THEN "idle" ELSE handler[k]
    BY <2>1 DEF DeathInv, DeathTypeOK
  <2>. QED BY <2>1, <2>2, OthersKeepGroups
<1>5. CASE ActorNext
  <2>1. CASE ActorsAlone
    BY <1>1, <2>1, ActorsAloneKeep DEF deathVars, processVars, driverVars
  <2>2. CASE \E a \in Actors : \E g \in Gens(a) : ActorExit(a, g)
    BY <1>1, <2>2 DEF ActorExit, driverVars
  <2>. QED BY <1>4, <1>5, <2>1, <2>2, ActorSteps
<1>6. CASE FenceStep
  BY <1>1, <1>6 DEF FenceStep, ReportWorkerDeath, Seal, Pin, Unpin, FenceFirst, Sweep, fenceRest, processVars, driverVars
<1>7. CASE InstallSnapshot \/ Certify \/ PublishView \/ EndTx
  BY <1>1, <1>7 DEF InstallSnapshot, Certify, PublishView, EndTx, txRest, processVars
<1>8. ASSUME NEW n \in Nodes, Observe(n) \/ BeginTx(n) \/ Poll(n) \/ OwnerHandles(n) PROVE GroupInv'
  BY <1>1, <1>8 DEF Observe, BeginTx, Poll, OwnerHandles, HandleDeath, txRest, processVars, driverVars
<1>9. CASE UNCHANGED vars
  BY <1>1, <1>9 DEF vars, deathVars, processVars, driverVars
<1>. QED BY <1>2, <1>3, <1>5, <1>6, <1>7, <1>8, <1>9 DEF Membership

\* And so does every step of the control plane.
LEMMA GroupInvKept ==
    ASSUME DeathInv, GroupInv, [Next]_vars
    PROVE  GroupInv'
<1>1. CASE GroupNext
  BY <1>1, GroupStepSound
<1>2. CASE Exits \/ Membership \/ (\E n \in Nodes : OwnerHandles(n)) \/ (ActorNext /\ UNCHANGED groupVars) \/ UNCHANGED vars
  <2>1. UNCHANGED <<recordVars, lockVars, ledgerVars, faultVars, controlVars, reported>>
    BY <1>2 DEF Exits, Membership, OwnerHandles, MarkLost, groupVars, vars
  <2>. QED BY <1>2, <2>1, OtherStepSound
<1>. QED BY <1>1, <1>2 DEF Next

\* The groups' invariant: what the records, the locks, the Nodes' reservations and the
\* deaths on their way through rely on of one another (control.py, placement.py).
THEOREM GroupsInvariant == Spec => []GroupInv
<1>1. Init => GroupInv
  BY GroupInitSound
<1>2. DeathInv /\ GroupInv /\ [Next]_vars => GroupInv'
  BY GroupInvKept
<1>. QED BY <1>1, <1>2, MembershipInvariant, PTL DEF Spec

\* What the GCS records of a group is what its Nodes hold, and no created group counts on
\* a Node the death of which the Driver was told is through, whatever requests of the
\* drive are lost or arrive late (control.py apply_reply, fail_node, placement.py prepare).
THEOREM RecordsDoMatchReservations == Spec => []RecordMatchesReservations
<1>1. DeathInv /\ GroupInv => RecordMatchesReservations
  <2>. SUFFICES ASSUME DeathInv, GroupInv PROVE RecordMatchesReservations
    OBVIOUS
  <2>. USE DEF GroupInv
  <2>1. DeathReachesGroups
    BY DEF DeathReachesGroups, DeathPasses, Cleared, Forming
  <2>2. ASSUME NEW g \in Groups, NEW n \in plan[g] \cap up
        PROVE  /\ phase[g] = "CREATED" => reserved[n][g] = "COMMITTED"
               /\ phase[g] = "REMOVED" => reserved[n][g] = "ABORTED"
    <3>1. n \in Nodes
      BY DEF GroupTypeOK
    <3>. QED BY <3>1 DEF Records, Reservations, Forming
  <2>3. \A c \in child : reserved[c[1]][c[2]] \in {"COMMITTED", "REMOVING"}
    BY DEF Reservations
  <2>. QED BY <2>1, <2>2, <2>3 DEF RecordMatchesReservations
<1>. QED BY <1>1, GroupsInvariant, MembershipInvariant, PTL

-----------------------------------------------------------------------------
(* The inductive invariant of the Actors *)

Early == {"none", "CREATING"}
Going == {"CREATING", "ALIVE", "RESTARTING"}
Holders == {"choose", "reserve"}

\* The record of an Actor in the GCS, and who holds its lock: the route of the next
\* publication is known, and is new, before anything is published under it; a generation
\* has its own two epochs, one when it is to be started and one when it is.
RecordFits(r, lock) ==
    /\ r.state \in Early <=> r.route = 0
    /\ r.state \in Early => r.gen = 0
    /\ r.state = "none" => r.target = 0
    /\ r.state = "CREATING" /\ r.target # 0 => r.next = 1
    /\ r.state = "ALIVE" => r.next = r.route /\ r.node = r.target /\ r.route = 2 * r.gen + 1
    /\ r.state = "RESTARTING" => r.next = r.route + 1 /\ r.route = 2 * r.gen
    /\ r.state # "ALIVE" => r.node = 0
    /\ lock \in Holders => r.state = "CREATING"
    /\ lock = "choose" => r.target = 0
    /\ lock = "reserve" => r.target # 0
    /\ lock \in {"tell", "respawn"} => r.state = "RESTARTING"

ActorRecords == \A a \in Actors : RecordFits(actor[a], alock[a])

\* A route the GCS gave out, or none: an older one than the one on record, or the same; and
\* its epoch tells which, except that the last one is what the record ended as.
RouteFits(a, s, r) ==
    /\ s.gen \in Gens(a)
    /\ s.state \in Early <=> s.route = 0
    /\ s.route <= r.route
    /\ s.state = "ALIVE" => s.route = 2 * s.gen + 1
    /\ s.state = "RESTARTING" => s.route = 2 * s.gen
    /\ s.state = "DEAD" => s.route = r.route
    /\ s.route = r.route /\ s.route # 0 => s.state = r.state /\ s.gen = r.gen

\* What the GCS has acknowledged the owner has.
Knows(a) ==
    /\ alock[a] = "respawn" => OwnerKnows(a)
    /\ a \notin pubs /\ ~Owed(a) /\ exited[a] # {} => OwnerKnows(a)
    /\ a \notin pubs /\ actor[a].state = "DEAD" /\ actor[a].next = 0 /\ actor[a].target # 0 => OwnerKnows(a)

ActorRoutes ==
    \A a \in Actors :
        /\ RouteFits(a, client[a], actor[a]) /\ RouteFits(a, reply[a], actor[a])
        /\ \A m \in installs : m[1] = a => RouteFits(a, m[2], actor[a])
        /\ Knows(a)

\* Exit reports: while one is handled it is owed to the Node.
Handled == {"tell", "respawn", "publish"}
Reports ==
    /\ queue \in [Nodes -> Seq(Actors \X Nat)]
    /\ \A a \in Actors : /\ exited[a] # {} => actor[a].state \notin Early
                         /\ alock[a] \in Handled => Owed(a)

\* A death on its way through the Actors: one that is still routed to the Node has yet
\* to be examined, and when all are examined none is.
ActorDeaths ==
    /\ fails \in [Nodes -> [see : SUBSET Actors, tell : SUBSET Actors, on : BOOLEAN]]
    /\ \A n \in Nodes : fails[n].on => handler[n] = "actors"
    /\ \A n \in Nodes, a \in Actors : fails[n].on /\ actor[a].state \in Going /\ actor[a].target = n =>
          a \in fails[n].see
    /\ \A a \in Actors : actor[a].state \in Going => actor[a].target \notin recorded

PerGeneration(f) == DOMAIN f = Actors /\ \A a \in Actors : DOMAIN f[a] = Gens(a)

\* What a sequence of calls is: each has its place as its number, and is known.
Numbered(s, cs) == s \in Seq(Calls) /\ \A i \in DOMAIN s : s[i] \in cs /\ call[s[i]].seq = i - 1

\* The calls: what a mailbox has admitted or run is numbered from zero.
Mailboxes ==
    /\ sequence \in [Actors -> Nat]
    /\ PerGeneration(records) /\ PerGeneration(ready) /\ PerGeneration(ran)
    /\ \A a \in Actors : \A g \in Gens(a) :
          /\ records[a][g] \subseteq {c \in Calls : call[c] # <<>>}
          /\ Numbered(ready[a][g], records[a][g])
          /\ Numbered(ran[a][g], records[a][g])

\* And their outcomes: only what is in flight is settled.
CallRecords ==
    /\ DOMAIN call = Calls
    /\ \A c \in Calls :
          /\ call[c] # <<>> => call[c] \in [gen : Gens(CallOf[c]), route : Nat, seq : Nat]
          /\ c \in inflight => call[c] # <<>>
          /\ c \in inflight \/ call[c] = <<>> => outcome[c] = {}
          /\ outcome[c] \in {{}, {"value"}, {"died"}, {"unavailable"}}

ActorInv == ActorTypeOK /\ ActorRecords /\ ActorRoutes /\ Reports /\ ActorDeaths /\ Mailboxes /\ CallRecords
-----------------------------------------------------------------------------
(* The order of the calls *)

\* Some number up to the number of calls is not that of any, and all before it are.
LEMMA FirstGap ==
    ASSUME NEW S, IsFiniteSet(S), NEW num \in [S -> Nat]
    PROVE  \E n \in 0..Cardinality(S) :
              (\A i \in 0..(n - 1) : \E c \in S : num[c] = i) /\ ~\E c \in S : num[c] = n
<1>. DEFINE N == Cardinality(S)
            Gap == {i \in Nat : ~\E c \in S : num[c] = i}
<1>0. N \in Nat
  BY FS_CardinalityType
<1>1. Gap \cap (0..N) # {}
  <2>. SUFFICES ASSUME \A i \in 0..N : \E c \in S : num[c] = i PROVE FALSE
    BY <1>0
  <2>. DEFINE f == [i \in 0..N |-> CHOOSE c \in S : num[c] = i]
  <2>1. \A i \in 0..N : f[i] \in S /\ num[f[i]] = i
    OBVIOUS
  <2>2. f \in Injection(0..N, S)
    <3>1. f \in [0..N -> S]
      BY <2>1
    <3>2. \A i, j \in 0..N : f[i] = f[j] => i = j
      <4>. SUFFICES ASSUME NEW i \in 0..N, NEW j \in 0..N, f[i] = f[j] PROVE i = j
        OBVIOUS
      <4>. HIDE DEF f
      <4>. QED BY <2>1
    <3>. HIDE DEF f
    <3>. QED BY <3>1, <3>2 DEF Injection, IsInjective
  <2>. HIDE DEF f
  <2>3. Cardinality(0..N) <= N
    BY <2>2, FS_Injection
  <2>4. Cardinality(0..N) = N + 1
    <3>1. 0 \in Int /\ N \in Int /\ ~(0 > N)
      BY <1>0
    <3>2. Cardinality(0..N) = IF 0 > N THEN 0 ELSE N - 0 + 1
      BY <3>1, FS_Interval
    <3>. QED BY <1>0, <3>1, <3>2
  <2>. QED BY <1>0, <2>3, <2>4
<1>. DEFINE n == Lowest(Gap)
<1>2. n \in Gap /\ \A k \in Gap : n <= k
  BY <1>1, LowestIsIn
<1>3. n \in 0..N
  <2>1. PICK k \in 0..N : k \in Gap
    BY <1>1
  <2>2. n \in Nat /\ n <= k
    BY <1>2, <2>1
  <2>. HIDE DEF n
  <2>. QED BY <1>0, <2>1, <2>2
<1>4. ASSUME NEW i \in 0..(n - 1) PROVE \E c \in S : num[c] = i
  <2>1. n \in Nat
    BY <1>2
  <2>. HIDE DEF n
  <2>2. i \in Nat /\ ~(n <= i)
    BY <2>1, <1>4
  <2>. QED BY <1>2, <2>2
<1>. QED BY <1>2, <1>3, <1>4

\* What a mailbox admits is numbered from zero, whatever it knows.
LEMMA AdmittedIsNumbered ==
    ASSUME NEW S \in SUBSET Calls, \A c \in S : call[c].seq \in Nat, NEW a, NEW g
    PROVE  Numbered(Admitted(a, g, S), S)
<1>. DEFINE num == [c \in S |-> call[c].seq]
            Before(n) == (\A i \in 0..(n - 1) : \E c \in S : call[c].seq = i) /\ ~\E c \in S : call[c].seq = n
            m == CHOOSE n \in 0..Cardinality(S) : Before(n)
<1>1. IsFiniteSet(S)
  BY ActorsAssumption, FS_Subset
<1>2. \E n \in 0..Cardinality(S) : Before(n)
  <2>1. num \in [S -> Nat]
    OBVIOUS
  <2>. HIDE DEF num
  <2>2. PICK n \in 0..Cardinality(S) :
           (\A i \in 0..(n - 1) : \E c \in S : num[c] = i) /\ ~\E c \in S : num[c] = n
    BY <1>1, <2>1, FirstGap
  <2>3. Before(n)
    BY <2>2 DEF num
  <2>. QED BY <2>3
<1>3. m \in 0..Cardinality(S) /\ Before(m)
  BY <1>2
<1>4. m \in Nat
  BY <1>1, <1>3, FS_CardinalityType
<1>5. Admitted(a, g, S) = [i \in 1..m |-> CHOOSE c \in S : call[c].seq = i - 1]
  BY DEF Admitted
<1>6. \A i \in 0..(m - 1) : \E c \in S : call[c].seq = i
  BY <1>3
<1>. HIDE DEF m, Before
<1>7. ASSUME NEW i \in 1..m PROVE Admitted(a, g, S)[i] \in S /\ call[Admitted(a, g, S)[i]].seq = i - 1
  <2>1. i - 1 \in 0..(m - 1)
    BY <1>4
  <2>2. \E c \in S : call[c].seq = i - 1
    BY <1>6, <2>1
  <2>3. Admitted(a, g, S)[i] = CHOOSE c \in S : call[c].seq = i - 1
    BY <1>5
  <2>. QED BY <2>2, <2>3
<1>8. Admitted(a, g, S) \in Seq(Calls) /\ DOMAIN Admitted(a, g, S) = 1..m
  <2>1. Admitted(a, g, S) \in [1..m -> Calls]
    BY <1>5, <1>7
  <2>. QED BY <1>4, <2>1
<1>. QED BY <1>7, <1>8 DEF Numbered

-----------------------------------------------------------------------------
(* The record of an Actor *)

RecordType == [state : States, gen : Nat, route : Nat, node : Nodes \cup {0}, target : Nodes \cup {0}, next : Nat]
LockType == {"free", "choose", "reserve", "tell", "respawn", "publish"}

\* A record that is told apart from the one before it by its route; DEAD is the last.
Follows(r, old) ==
    \/ r.route > old.route /\ old.state # "DEAD"
    \/ r.route = old.route /\ (r.state \in Early \/ (r.state = old.state /\ r.gen = old.gen))

\* A Node's death has yet to examine what is routed to it; nothing new is routed to it.
StaysAway(r, old) ==
    r.state \in Going => (old.state \in Going /\ r.target = old.target) \/ r.target \in live \cup {0}

\* A step on the record of which the GCS owes the owner the news, or the Node the answer.
Due(a, r, e) ==
    \/ r = actor[a] /\ e = exited[a]
    \/ a \in pubs'
    \/ (e = {} \/ Owed(a)') /\ (r.state = "DEAD" => r.next # 0 \/ r.target = 0)

\* What is not touched of the calls.
LEMMA CallsStay ==
    ASSUME ActorInv, UNCHANGED <<call, mailVars>>
    PROVE  /\ sequence' \in [Actors -> Nat] => Mailboxes'
           /\ UNCHANGED <<inflight, outcome>> => CallRecords'
<1>. USE DEF ActorInv, mailVars
<1>1. ASSUME NEW a \in Actors, NEW g \in Gens(a)
      PROVE  /\ records'[a][g] \subseteq {c \in Calls : call'[c] # <<>>}
             /\ Numbered(ready[a][g], records[a][g])'
             /\ Numbered(ran[a][g], records[a][g])'
  BY DEF Mailboxes, Numbered
<1>2. PerGeneration(records') /\ PerGeneration(ready') /\ PerGeneration(ran')
  BY DEF Mailboxes
<1>3. ASSUME sequence' \in [Actors -> Nat] PROVE Mailboxes'
  BY <1>1, <1>2, <1>3 DEF Mailboxes, Gens, PerGeneration
<1>4. ASSUME UNCHANGED <<inflight, outcome>> PROVE CallRecords'
  BY <1>4 DEF CallRecords, Gens
<1>. QED BY <1>3, <1>4

\* What fits the record fits the one that follows it.
LEMMA FitsOn ==
    ASSUME NEW a \in Actors, NEW s \in Routes, NEW r \in RecordType, NEW old \in RecordType, NEW lock,
           RouteFits(a, s, old), old.state \in Early <=> old.route = 0, RecordFits(r, lock), Follows(r, old)
    PROVE  RouteFits(a, s, r)
<1>1. s.route \in Nat /\ r.route \in Nat /\ old.route \in Nat
  BY DEF Routes, RecordType
<1>2. s.gen \in Gens(a) /\ (s.state \in Early <=> s.route = 0)
      /\ (s.state = "ALIVE" => s.route = 2 * s.gen + 1) /\ (s.state = "RESTARTING" => s.route = 2 * s.gen)
  BY DEF RouteFits
<1>3. CASE r.route > old.route /\ old.state # "DEAD"
  <2>1. s.state # "DEAD"
    <3>1. ASSUME s.state = "DEAD" PROVE FALSE
      <4>1. s.route = old.route /\ s.route # 0
        BY <1>2, <3>1 DEF RouteFits, Early
      <4>2. old.state = "DEAD"
        BY <3>1, <4>1 DEF RouteFits
      <4>. QED BY <1>3, <4>2
    <3>. QED BY <3>1
  <2>2. s.route <= old.route
    BY DEF RouteFits
  <2>3. s.route < r.route
    BY <1>1, <1>3, <2>2
  <2>. QED BY <1>1, <1>2, <2>1, <2>3 DEF RouteFits
<1>4. CASE r.route = old.route /\ (r.state \in Early \/ (r.state = old.state /\ r.gen = old.gen))
  <2>1. s.route <= r.route /\ (s.state = "DEAD" => s.route = r.route)
    BY <1>4 DEF RouteFits
  <2>2. ASSUME s.route = r.route, s.route # 0 PROVE s.state = r.state /\ s.gen = r.gen
    <3>1. r.state \notin Early
      BY <2>2 DEF RecordFits
    <3>2. r.state = old.state /\ r.gen = old.gen
      BY <1>4, <3>1
    <3>. QED BY <1>4, <2>2, <3>2 DEF RouteFits
  <2>. HIDE DEF RouteFits
  <2>. QED BY <1>2, <2>1, <2>2 DEF RouteFits
<1>. QED BY <1>3, <1>4 DEF Follows

\* The route on record, and none.
LEMMA OnRecordFits ==
    ASSUME ActorInv, NEW a \in Actors
    PROVE  /\ Snapshot(a) \in Routes /\ RouteFits(a, Snapshot(a), actor[a])
           /\ NoRoute \in Routes /\ RouteFits(a, NoRoute, actor[a])
           /\ actor[a] \in RecordType
<1>1. actor[a] \in RecordType /\ actor[a].gen \in Gens(a) /\ RecordFits(actor[a], alock[a])
  BY DEF ActorInv, ActorTypeOK, ActorRecords, RecordType
<1>2. actor[a].route \in Nat /\ 0 \in Gens(a) /\ 0 <= actor[a].route
  BY <1>1, ActorsAssumption DEF RecordType, Gens
<1>3. /\ Snapshot(a).state = actor[a].state /\ Snapshot(a).gen = actor[a].gen /\ Snapshot(a).route = actor[a].route
      /\ Snapshot(a) \in Routes
  BY <1>1 DEF Snapshot, Routes, RecordType
<1>4. RouteFits(a, Snapshot(a), actor[a])
  <2>. HIDE DEF Snapshot
  <2>. QED BY <1>1, <1>2, <1>3 DEF RouteFits, RecordFits
<1>5. NoRoute \in Routes
  BY DEF NoRoute, Routes, States
<1>6. RouteFits(a, NoRoute, actor[a])
  BY <1>1, <1>2 DEF NoRoute, RouteFits, RecordFits, Early
<1>. QED BY <1>1, <1>3, <1>4, <1>5, <1>6

\* What a step of the GCS on one record has to be for the invariant to last.
LEMMA RecordMoves ==
    ASSUME ActorInv, NEW a \in Actors, NEW r \in RecordType, NEW lock \in LockType, NEW e \in SUBSET Gens(a),
           actor' = [actor EXCEPT ![a] = r], alock' = [alock EXCEPT ![a] = lock], r.gen \in Gens(a),
           exited' = [exited EXCEPT ![a] = e], exited[a] \subseteq e,
           RecordFits(r, lock), Follows(r, actor[a]), lock # "respawn",
           Due(a, r, e), e # {} => r.state \notin Early, lock \in Handled => Owed(a)',
           pubs \subseteq pubs', pubs' \subseteq Actors,
           lostCalls' \in 0..use.lost, UNCHANGED <<use, up, queue, clientVars, callVars, mailVars>>
    PROVE  ActorTypeOK' /\ ActorRecords' /\ ActorRoutes' /\ Reports' /\ Mailboxes' /\ CallRecords'
<1>. USE DEF ActorInv, clientVars, callVars, mailVars
<1>0. /\ actor \in [Actors -> RecordType] /\ alock \in [Actors -> LockType]
      /\ client \in [Actors -> Routes] /\ reply \in [Actors -> Routes] /\ installs \subseteq Actors \X Routes
      /\ exited \in [Actors -> SUBSET Nat]
  BY DEF ActorTypeOK, RecordType, LockType
<1>1. /\ \A b \in Actors : actor'[b] = IF b = a THEN r ELSE actor[b]
      /\ \A b \in Actors : alock'[b] = IF b = a THEN lock ELSE alock[b]
      /\ \A b \in Actors : exited'[b] = IF b = a THEN e ELSE exited[b]
      /\ actor' \in [Actors -> RecordType] /\ alock' \in [Actors -> LockType]
  BY <1>0
<1>2. ActorTypeOK'
  <2>1. \A b \in Actors : exited'[b] \subseteq Gens(b) /\ actor'[b].gen \in Gens(b)
    BY <1>1 DEF ActorTypeOK
  <2>2. exited' \in [Actors -> SUBSET Nat]
    BY <1>0 DEF Gens
  <2>. QED BY <1>1, <2>1, <2>2 DEF ActorTypeOK, RecordType, LockType, Gens
<1>3. ActorRecords'
  <2>1. \A b \in Actors : RecordFits(actor'[b], alock'[b])
    BY <1>1 DEF ActorRecords
  <2>. QED BY <2>1 DEF ActorRecords, RecordFits
<1>4. \A b \in Actors : Owed(b) => Owed(b)'
  <2>. SUFFICES ASSUME NEW b \in Actors, NEW n \in Nodes, NEW i \in DOMAIN queue[n],
                       queue[n][i][1] = b, queue[n][i][2] \in exited[b]
                PROVE  Owed(b)'
    BY DEF Owed
  <2>1. queue[n][i][2] \in exited'[b]
    BY <1>1
  <2>. QED BY <2>1 DEF Owed
<1>5. ASSUME NEW b \in Actors, NEW s \in Routes, RouteFits(b, s, actor[b]) PROVE RouteFits(b, s, actor'[b])
  <2>1. CASE b = a
    <3>1. actor[a].state \in Early <=> actor[a].route = 0
      BY DEF ActorRecords, RecordFits
    <3>2. actor[a] \in RecordType /\ actor'[b] = r
      BY <1>0, <1>1, <2>1
    <3>. QED BY <1>5, <2>1, <3>1, <3>2, FitsOn
  <2>2. CASE b # a
    BY <1>1, <1>5, <2>2
  <2>. QED BY <2>1, <2>2
<1>6. ASSUME NEW b \in Actors PROVE Knows(b)'
  <2>1. CASE actor'[b] = actor[b] /\ exited'[b] = exited[b]
    <3>1. Snapshot(b)' = Snapshot(b) /\ OwnerUp(b)' = OwnerUp(b) /\ client' = client
      BY <2>1 DEF Snapshot, OwnerUp
    <3>2. OwnerKnows(b) => OwnerKnows(b)'
      BY <3>1 DEF OwnerKnows
    <3>3. (alock'[b] = "respawn" => alock[b] = "respawn") /\ (b \notin pubs' => b \notin pubs)
      BY <1>1
    <3>4. Knows(b)
      BY DEF ActorRoutes
    <3>. HIDE DEF Owed, OwnerKnows
    <3>. QED BY <1>4, <2>1, <3>2, <3>3, <3>4 DEF Knows
  <2>2. CASE ~(actor'[b] = actor[b] /\ exited'[b] = exited[b])
    <3>1. b = a /\ ~(r = actor[a] /\ e = exited[a]) /\ actor'[b] = r /\ exited'[b] = e /\ alock'[b] = lock
      BY <1>1, <2>2
    <3>. HIDE DEF Owed, OwnerKnows
    <3>. QED BY <3>1 DEF Due, Knows
  <2>. QED BY <2>1, <2>2
<1>7. ActorRoutes'
  <2>1. \A b \in Actors : RouteFits(b, client[b], actor'[b]) /\ RouteFits(b, reply[b], actor'[b])
    BY <1>0, <1>5 DEF ActorRoutes
  <2>2. ASSUME NEW b \in Actors, NEW m \in installs, m[1] = b PROVE RouteFits(b, m[2], actor'[b])
    <3>1. m[2] \in Routes /\ RouteFits(b, m[2], actor[b])
      BY <1>0, <2>2 DEF ActorRoutes
    <3>. QED BY <1>5, <3>1
  <2>. HIDE DEF Knows
  <2>. QED BY <1>6, <2>1, <2>2 DEF ActorRoutes, RouteFits, Gens
<1>8. Reports'
  <2>1. ASSUME NEW b \in Actors
        PROVE  /\ exited'[b] # {} => actor'[b].state \notin Early
               /\ alock'[b] \in Handled => Owed(b)'
    <3>. HIDE DEF Owed
    <3>. QED BY <1>1, <1>4 DEF Reports
  <2>. HIDE DEF Owed
  <2>. QED BY <2>1 DEF Reports
<1>9. Mailboxes' /\ CallRecords'
  BY CallsStay DEF Mailboxes
<1>. QED BY <1>2, <1>3, <1>7, <1>8, <1>9

\* What the handler of a death has examined stays so.
LEMMA DeathsKeep ==
    ASSUME DeathInv, ActorInv, UNCHANGED <<recorded, handler, fails>>,
           \A b \in Actors : StaysAway(actor'[b], actor[b])
    PROVE  ActorDeaths'
<1>. USE DEF ActorInv
<1>1. \A n \in Nodes : handler[n] # "idle" => n \notin live \cup {0}
  BY ActorsAssumption DEF DeathInv, Observed, Dead
<1>2. \A n \in recorded : n \notin live \cup {0} /\ n \in Nodes
  <2>1. use.nodes \subseteq Nodes
    BY NodeDeathsAssumption DEF DeathInv, Registry
  <2>. QED BY <2>1, ActorsAssumption DEF DeathInv, DeathTypeOK, Dead
<1>3. ASSUME NEW n \in Nodes, NEW a \in Actors, fails[n].on, actor'[a].state \in Going, actor'[a].target = n
      PROVE  a \in fails[n].see
  <2>1. handler[n] = "actors"
    BY <1>3 DEF ActorDeaths
  <2>. QED BY <1>1, <1>3, <2>1 DEF StaysAway, ActorDeaths
<1>4. ASSUME NEW a \in Actors, actor'[a].state \in Going PROVE actor'[a].target \notin recorded
  BY <1>2, <1>4 DEF StaysAway, ActorDeaths
<1>. QED BY <1>3, <1>4 DEF ActorDeaths

\* The owner is given a route that the GCS gave out: what it has fits afterwards, what it
\* knew it knows, and the one on record it then has.
LEMMA InstallKeeps ==
    ASSUME ActorInv, NEW a \in Actors, NEW s \in Routes, RouteFits(a, s, actor[a]), InstallRoute(a, s),
           UNCHANGED <<actor, call, mailVars>>
    PROVE  /\ client' \in [Actors -> Routes] /\ inflight' \subseteq Calls
           /\ outcome' \in [Calls -> SUBSET {"value", "died", "unavailable"}]
           /\ \A b \in Actors : RouteFits(b, client'[b], actor[b])
           /\ \A b \in Actors : client[b] = Snapshot(b) => client'[b] = Snapshot(b)
           /\ s = Snapshot(a) /\ actor[a].route # 0 => client'[a] = Snapshot(a)
           /\ Mailboxes' /\ CallRecords'
<1>. USE DEF ActorInv, mailVars
<1>0. /\ client \in [Actors -> Routes] /\ client[a] \in Routes /\ actor[a] \in RecordType
      /\ s.route \in Nat /\ client[a].route \in Nat /\ actor[a].route \in Nat
      /\ \A b \in Actors : RouteFits(b, client[b], actor[b])
      /\ inflight \subseteq Calls /\ outcome \in [Calls -> SUBSET {"value", "died", "unavailable"}]
  BY DEF ActorTypeOK, Routes, RecordType, ActorRoutes
<1>1. s.route <= actor[a].route /\ client[a].route <= actor[a].route
  BY <1>0 DEF RouteFits
<1>2. CASE s.route <= client[a].route
  <2>1. UNCHANGED <<client, sequence, inflight, outcome>>
    BY <1>2 DEF InstallRoute, routeVars
  <2>2. ASSUME s = Snapshot(a), actor[a].route # 0 PROVE client[a] = Snapshot(a)
    <3>1. s.route = actor[a].route
      BY <2>2 DEF Snapshot
    <3>2. client[a].route = actor[a].route
      BY <1>0, <1>1, <1>2, <3>1
    <3>3. client[a].state = actor[a].state /\ client[a].gen = actor[a].gen
      BY <1>0, <2>2, <3>2 DEF RouteFits
    <3>. QED BY <1>0, <3>2, <3>3 DEF Snapshot, Routes
  <2>3. Mailboxes' /\ CallRecords'
    BY <2>1, CallsStay DEF Mailboxes
  <2>. HIDE DEF ActorInv
  <2>. QED BY <1>0, <2>1, <2>2, <2>3
<1>3. CASE ~(s.route <= client[a].route)
  <2>. DEFINE fenced == {c \in inflight : CallOf[c] = a /\ call[c].route < s.route}
  <2>1. /\ client' = [client EXCEPT ![a] = s]
        /\ sequence' = IF s.gen = client[a].gen THEN sequence ELSE [sequence EXCEPT ![a] = 0]
        /\ inflight' = inflight \ fenced
        /\ outcome' = [c \in Calls |-> outcome[c] \cup (IF c \in fenced THEN {"died"} ELSE {})]
    BY <1>3 DEF InstallRoute
  <2>2. client' \in [Actors -> Routes] /\ \A b \in Actors : client'[b] = IF b = a THEN s ELSE client[b]
    BY <1>0, <2>1
  <2>3. inflight' \subseteq Calls /\ outcome' \in [Calls -> SUBSET {"value", "died", "unavailable"}]
    BY <1>0, <2>1
  <2>4. client[a] # Snapshot(a)
    <3>1. Snapshot(a).route = actor[a].route
      BY DEF Snapshot
    <3>. QED BY <1>0, <1>1, <1>3, <3>1
  <2>5. sequence' \in [Actors -> Nat]
    BY <2>1 DEF Mailboxes
  <2>6. CallRecords'
    <3>. SUFFICES ASSUME NEW c \in Calls
                  PROVE  /\ c \in inflight' => c \in inflight
                         /\ outcome'[c] = outcome[c] \/ (c \in inflight /\ c \notin inflight' /\ outcome'[c] = {"died"})
      BY DEF CallRecords, Gens
    <3>1. outcome'[c] = outcome[c] \cup (IF c \in fenced THEN {"died"} ELSE {})
      BY <2>1
    <3>2. c \in fenced => c \in inflight /\ c \notin inflight' /\ outcome[c] = {}
      BY <2>1 DEF CallRecords
    <3>. HIDE DEF fenced
    <3>. QED BY <2>1, <3>1, <3>2
  <2>7. Mailboxes'
    BY <2>5, CallsStay
  <2>. HIDE DEF ActorInv, fenced
  <2>. QED BY <1>0, <2>2, <2>3, <2>4, <2>6, <2>7
<1>. QED BY <1>2, <1>3

\* A step that brings the owner a route, or does not.
Brings(a) == UNCHANGED routeVars \/ \E s \in Routes : RouteFits(a, s, actor[a]) /\ InstallRoute(a, s)

\* What the owner is told, sooner or later, leaves it with a route that fits; what the GCS
\* takes as acknowledged it knows.
LEMMA TellsKeep ==
    ASSUME ActorInv, NEW a \in Actors, Brings(a),
           UNCHANGED <<use, up, actor, exited, call, mailVars>>, pubs' \subseteq pubs,
           creating' \in [Actors -> {"no", "asking", "retry", "returned"}],
           alock' \in [Actors -> LockType], \A b \in Actors : RecordFits(actor[b], alock'[b]),
           reply' \in [Actors -> Routes], \A b \in Actors : RouteFits(b, reply'[b], actor[b]),
           installs' \subseteq Actors \X Routes, \A m \in installs' : RouteFits(m[1], m[2], actor[m[1]]),
           \A b \in Actors :
               \/ client'[b] = Snapshot(b)
               \/ actor[b].state \in Early
               \/ (alock'[b] = "respawn" => alock[b] = "respawn") /\ (b \in pubs => b \in pubs') /\ (Owed(b) => Owed(b)'),
           Reports', lostCalls' \in 0..use.lost
    PROVE  ActorTypeOK' /\ ActorRecords' /\ ActorRoutes' /\ Mailboxes' /\ CallRecords'
<1>. USE DEF ActorInv
<1>1. /\ client' \in [Actors -> Routes] /\ inflight' \subseteq Calls
      /\ outcome' \in [Calls -> SUBSET {"value", "died", "unavailable"}]
      /\ \A b \in Actors : RouteFits(b, client'[b], actor[b])
      /\ \A b \in Actors : client[b] = Snapshot(b) => client'[b] = Snapshot(b)
      /\ Mailboxes' /\ CallRecords'
  <2>1. CASE UNCHANGED routeVars
    <3>1. UNCHANGED <<client, sequence, inflight, outcome>>
      BY <2>1 DEF routeVars
    <3>2. Mailboxes' /\ CallRecords'
      BY <3>1, CallsStay DEF Mailboxes
    <3>. QED BY <3>1, <3>2 DEF ActorTypeOK, ActorRoutes
  <2>2. CASE \E s \in Routes : RouteFits(a, s, actor[a]) /\ InstallRoute(a, s)
    <3>. HIDE DEF ActorInv
    <3>. QED BY <2>2, InstallKeeps
  <2>. QED BY <2>1, <2>2 DEF Brings
<1>2. ActorTypeOK'
  BY <1>1 DEF ActorTypeOK, LockType, Gens
<1>3. ActorRecords'
  BY DEF ActorRecords, RecordFits
<1>4. ASSUME NEW b \in Actors PROVE Knows(b)'
  <2>1. Snapshot(b)' = Snapshot(b) /\ OwnerUp(b)' = OwnerUp(b)
    BY DEF Snapshot, OwnerUp
  <2>2. OwnerKnows(b) => OwnerKnows(b)'
    BY <1>1, <2>1 DEF OwnerKnows
  <2>3. client'[b] = Snapshot(b) => OwnerKnows(b)'
    BY <2>1 DEF OwnerKnows
  <2>4. Knows(b)
    BY DEF ActorRoutes
  <2>5. actor[b].state \in Early => exited'[b] = {} /\ alock'[b] # "respawn" /\ actor'[b].state # "DEAD"
    BY DEF Reports, RecordFits, Early
  <2>. HIDE DEF Owed, OwnerKnows
  <2>. QED BY <2>2, <2>3, <2>4, <2>5 DEF Knows
<1>5. ActorRoutes'
  <2>1. ASSUME NEW m \in installs' PROVE RouteFits(m[1], m[2], actor[m[1]])
    OBVIOUS
  <2>. HIDE DEF Knows
  <2>. QED BY <1>1, <1>4, <2>1 DEF ActorRoutes, RouteFits, Gens
<1>. QED BY <1>1, <1>2, <1>3, <1>5

\* A step that touches nothing of what the invariant says of records, routes and reports,
\* except that processes may exit.
LEMMA StandStill ==
    ASSUME ActorInv, UNCHANGED <<use, actor, exited, alock, pubs, queue, lostCalls, client, creating, reply, installs,
                                inflight, outcome>>, up' \subseteq up
    PROVE  ActorTypeOK' /\ ActorRecords' /\ ActorRoutes' /\ Reports'
<1>. USE DEF ActorInv
<1>1. ActorTypeOK' /\ ActorRecords'
  BY DEF ActorTypeOK, ActorRecords, RecordFits, Gens
<1>2. \A a \in Actors : Owed(a)' = Owed(a)
  BY DEF Owed
<1>3. Reports'
  <2>. HIDE DEF Owed
  <2>. QED BY <1>2 DEF Reports
<1>4. ASSUME NEW a \in Actors PROVE Knows(a)'
  <2>1. OwnerKnows(a) => OwnerKnows(a)'
    BY DEF OwnerKnows, Snapshot, OwnerUp
  <2>. HIDE DEF Owed, OwnerKnows
  <2>. QED BY <1>2, <2>1 DEF ActorRoutes, Knows
<1>5. ActorRoutes'
  <2>. HIDE DEF Knows
  <2>. QED BY <1>4 DEF ActorRoutes, RouteFits, Gens
<1>. QED BY <1>1, <1>3, <1>5

\* What the invariant says of one Actor, for the steps on it.
LEMMA OfOneActor ==
    ASSUME DeathInv, ActorInv, NEW a \in Actors
    PROVE  /\ actor[a] \in RecordType /\ alock[a] \in LockType /\ actor[a].gen \in Gens(a)
           /\ RecordFits(actor[a], alock[a])
           /\ actor = [actor EXCEPT ![a] = actor[a]] /\ alock = [alock EXCEPT ![a] = alock[a]]
           /\ exited[a] \in SUBSET Gens(a) /\ exited = [exited EXCEPT ![a] = exited[a]]
           /\ actor[a].state \in Early => exited[a] = {}
           /\ alock[a] \in Handled => Owed(a)
           /\ live \subseteq Nodes /\ lostCalls \in 0..use.lost /\ use.lost \in Nat
           /\ (Lose \/ NoLoss => lostCalls' \in 0..use.lost)
           /\ pubs \subseteq Actors
<1>1. use.nodes \subseteq Nodes /\ use.lost \in Nat
  BY NodeDeathsAssumption DEF DeathInv, Registry
<1>2. live \subseteq Nodes
  BY DEF DeathInv, Registry, DeathTypeOK, live, Epoch
<1>3. lostCalls \in 0..use.lost
  BY DEF ActorInv, ActorTypeOK
<1>4. Lose \/ NoLoss => lostCalls' \in 0..use.lost
  BY <1>1, <1>3 DEF Lose, NoLoss
<1>5. (actor[a].state \in Early => exited[a] = {}) /\ (alock[a] \in Handled => Owed(a))
  BY DEF ActorInv, Reports
<1>6. exited[a] \in SUBSET Gens(a) /\ exited = [exited EXCEPT ![a] = exited[a]] /\ pubs \subseteq Actors
  BY DEF ActorInv, ActorTypeOK
<1>7. /\ actor[a] \in RecordType /\ alock[a] \in LockType /\ actor[a].gen \in Gens(a)
      /\ actor = [actor EXCEPT ![a] = actor[a]] /\ alock = [alock EXCEPT ![a] = alock[a]]
      /\ RecordFits(actor[a], alock[a])
  BY DEF ActorInv, ActorTypeOK, ActorRecords, RecordType, LockType
<1>. QED BY <1>1, <1>2, <1>3, <1>4, <1>5, <1>6, <1>7

\* A step on the record that moves nothing towards a Node that left.
LEMMA RecordStep ==
    ASSUME DeathInv, ActorInv, NEW a \in Actors, NEW r \in RecordType, NEW lock \in LockType, NEW e \in SUBSET Gens(a),
           actor' = [actor EXCEPT ![a] = r], alock' = [alock EXCEPT ![a] = lock], r.gen \in Gens(a),
           exited' = [exited EXCEPT ![a] = e], exited[a] \subseteq e,
           RecordFits(r, lock), Follows(r, actor[a]), StaysAway(r, actor[a]), lock # "respawn",
           Due(a, r, e), e # {} => r.state \notin Early, lock \in Handled => Owed(a)',
           Lose \/ NoLoss, UNCHANGED <<deathVars, pubs, fails, queue, clientVars, callVars, mailVars>>
    PROVE  ActorInv'
<1>1. ActorTypeOK' /\ ActorRecords' /\ ActorRoutes' /\ Reports' /\ Mailboxes' /\ CallRecords'
  <2>1. lostCalls' \in 0..use.lost /\ pubs' \subseteq Actors /\ pubs \subseteq pubs' /\ UNCHANGED <<use, up>>
    BY OfOneActor DEF deathVars, processVars
  <2>. QED BY <2>1, RecordMoves
<1>2. \A b \in Actors : StaysAway(actor'[b], actor[b])
  <2>1. \A b \in Actors : actor'[b] = IF b = a THEN r ELSE actor[b]
    BY DEF ActorInv, ActorTypeOK
  <2>. QED BY <2>1 DEF StaysAway
<1>3. ActorDeaths'
  BY <1>2, DeathsKeep DEF deathVars, driverVars
<1>. QED BY <1>1, <1>3 DEF ActorInv

\* A step that leaves the record: something is sent to the owner, or reaches it.
LEMMA TellStep ==
    ASSUME DeathInv, ActorInv, NEW a \in Actors, NEW lock \in LockType, Brings(a),
           NEW asked \in {"no", "asking", "retry", "returned"},
           creating' = [creating EXCEPT ![a] = asked], alock' = [alock EXCEPT ![a] = lock],
           RecordFits(actor[a], lock), Lose \/ NoLoss,
           reply' \in [Actors -> Routes], \A b \in Actors : RouteFits(b, reply'[b], actor[b]),
           installs' \subseteq Actors \X Routes, \A m \in installs' : RouteFits(m[1], m[2], actor[m[1]]),
           client'[a] = Snapshot(a) \/ ((lock = "respawn" => alock[a] = "respawn") /\ (Owed(a) => Owed(a)')),
           \A b \in Actors : b # a => (Owed(b) => Owed(b)'), Reports',
           UNCHANGED <<deathVars, actor, exited, pubs, fails, call, mailVars>>
    PROVE  ActorInv'
<1>1. creating \in [Actors -> {"no", "asking", "retry", "returned"}] /\ alock \in [Actors -> LockType]
  BY DEF ActorInv, ActorTypeOK, LockType
<1>2. /\ creating' \in [Actors -> {"no", "asking", "retry", "returned"}] /\ alock' \in [Actors -> LockType]
      /\ \A b \in Actors : alock'[b] = IF b = a THEN lock ELSE alock[b]
  BY <1>1
<1>3. \A b \in Actors : RecordFits(actor[b], alock'[b])
  BY <1>2 DEF ActorInv, ActorRecords
<1>4. \A b \in Actors :
          \/ client'[b] = Snapshot(b)
          \/ (alock'[b] = "respawn" => alock[b] = "respawn") /\ (b \in pubs => b \in pubs') /\ (Owed(b) => Owed(b)')
  <2>. HIDE DEF Owed
  <2>. QED BY <1>2
<1>5. lostCalls' \in 0..use.lost /\ pubs' \subseteq pubs /\ UNCHANGED <<use, up>>
  BY OfOneActor DEF deathVars, processVars
<1>6. ActorTypeOK' /\ ActorRecords' /\ ActorRoutes' /\ Mailboxes' /\ CallRecords'
  BY <1>2, <1>3, <1>4, <1>5, TellsKeep
<1>7. ActorDeaths'
  BY DeathsKeep DEF deathVars, driverVars, StaysAway
<1>. QED BY <1>6, <1>7 DEF ActorInv

\* Reports when no lock is taken by a handler of one.
LEMMA ReportsStay ==
    ASSUME ActorInv, NEW a \in Actors, NEW lock, alock' = [alock EXCEPT ![a] = lock], lock \in Handled => alock[a] \in Handled,
           UNCHANGED <<actor, exited, queue>>
    PROVE  Reports' /\ \A b \in Actors : Owed(b)' = Owed(b)
<1>1. \A b \in Actors : Owed(b)' = Owed(b)
  BY DEF Owed
<1>2. \A b \in Actors : alock'[b] \in Handled => alock[b] \in Handled
  BY DEF ActorInv, ActorTypeOK
<1>. HIDE DEF Owed
<1>. QED BY <1>1, <1>2 DEF ActorInv, Reports

\* Nothing new is on its way to an owner.
LEMMA NothingSent ==
    ASSUME ActorInv, UNCHANGED actor
    PROVE  /\ reply' = reply => reply' \in [Actors -> Routes] /\ \A b \in Actors : RouteFits(b, reply'[b], actor[b])
           /\ installs' \subseteq installs => installs' \subseteq Actors \X Routes
                /\ \A m \in installs' : RouteFits(m[1], m[2], actor[m[1]])
<1>1. /\ reply \in [Actors -> Routes] /\ installs \subseteq Actors \X Routes
      /\ \A b \in Actors : RouteFits(b, reply[b], actor[b])
  BY DEF ActorInv, ActorTypeOK, ActorRoutes
<1>2. ASSUME NEW m \in installs PROVE m[1] \in Actors /\ RouteFits(m[1], m[2], actor[m[1]])
  BY <1>1 DEF ActorInv, ActorRoutes
<1>. QED BY <1>1, <1>2

-----------------------------------------------------------------------------
(* The steps of the GCS on an Actor *)

\* create finds the Actor to be created, or answers what became of it.
LEMMA BeginCreateSound ==
    ASSUME DeathInv, ActorInv, NEW a \in Actors, BeginCreate(a)
    PROVE  ActorInv'
<1>. USE DEF BeginCreate, gcsRest
<1>0. /\ alock[a] = "free" /\ "free" \in LockType
      /\ actor[a] \in RecordType /\ RecordFits(actor[a], alock[a]) /\ actor[a].gen \in Gens(a)
      /\ actor \in [Actors -> RecordType] /\ alock \in [Actors -> LockType]
      /\ exited = [exited EXCEPT ![a] = exited[a]] /\ exited[a] \in SUBSET Gens(a)
      /\ (Lose \/ NoLoss) /\ UNCHANGED <<deathVars, exited, queue, pubs, fails, call, mailVars>>
  BY OfOneActor DEF ActorInv, ActorTypeOK, RecordType, LockType, NoLoss
<1>1. CASE actor[a].state \in {"none", "CREATING"} /\ UNCHANGED <<creating, reply>>
           /\ actor' = [actor EXCEPT ![a].state = "CREATING"]
           /\ alock' = [alock EXCEPT ![a] = IF actor[a].target = 0 THEN "choose" ELSE "reserve"]
  <2>. DEFINE r == [actor[a] EXCEPT !.state = "CREATING"]
              lock == IF actor[a].target = 0 THEN "choose" ELSE "reserve"
  <2>1. actor' = [actor EXCEPT ![a] = r] /\ alock' = [alock EXCEPT ![a] = lock]
    BY <1>0, <1>1
  <2>2. /\ r \in RecordType /\ lock \in LockType /\ r.gen \in Gens(a) /\ r.state = "CREATING" /\ r.route = actor[a].route
        /\ r.gen = actor[a].gen /\ r.target = actor[a].target /\ r.next = actor[a].next /\ r.node = actor[a].node
        /\ lock \in {"choose", "reserve"}
    BY <1>0 DEF RecordType, LockType, States
  <2>3. actor[a].state \in Early /\ exited[a] = {}
    BY <1>1, OfOneActor DEF Early
  <2>4. StaysAway(r, actor[a])
    BY <1>0, <1>1, <2>2 DEF StaysAway, Going, RecordFits
  <2>5. UNCHANGED <<clientVars, callVars>>
    BY <1>1 DEF clientVars, callVars
  <2>. DEFINE e == exited[a]
  <2>6. Follows(r, actor[a]) /\ Due(a, r, e) /\ (e # {} => r.state \notin Early) /\ (lock \in Handled => Owed(a)')
    BY <2>2, <2>3 DEF Follows, Early, Due, Handled
  <2>7. lock = "choose" <=> actor[a].target = 0
    OBVIOUS
  <2>. HIDE DEF r, lock
  <2>8. RecordFits(r, lock)
    BY <1>0, <1>1, <2>2, <2>3, <2>7 DEF RecordFits, Early, Holders
  <2>. QED BY <1>0, <2>1, <2>2, <2>4, <2>5, <2>6, <2>8, RecordStep
<1>2. CASE actor[a].state \notin {"none", "CREATING"} /\ UNCHANGED <<actor, alock>>
           /\ reply' \in {reply, [reply EXCEPT ![a] = Snapshot(a)]}
           /\ creating' \in {creating, [creating EXCEPT ![a] = "retry"]}
  <2>1. PICK asked \in {"no", "asking", "retry", "returned"} : creating' = [creating EXCEPT ![a] = asked]
    BY <1>2 DEF ActorInv, ActorTypeOK
  <2>2. reply' \in [Actors -> Routes] /\ \A b \in Actors : RouteFits(b, reply'[b], actor[b])
    <3>1. reply \in [Actors -> Routes] /\ \A b \in Actors : RouteFits(b, reply[b], actor[b])
      BY DEF ActorInv, ActorTypeOK, ActorRoutes
    <3>2. Snapshot(a) \in Routes /\ RouteFits(a, Snapshot(a), actor[a])
      BY OnRecordFits
    <3>. HIDE DEF Snapshot
    <3>. QED BY <1>2, <3>1, <3>2
  <2>3. UNCHANGED installs /\ Brings(a) /\ alock' = [alock EXCEPT ![a] = "free"]
    BY <1>0, <1>2 DEF Brings, routeVars
  <2>4. installs' \subseteq Actors \X Routes /\ \A m \in installs' : RouteFits(m[1], m[2], actor[m[1]])
    BY <1>2, <2>3, NothingSent
  <2>5. Reports' /\ \A b \in Actors : Owed(b)' = Owed(b)
    BY <1>0, <1>2, <2>3, ReportsStay DEF Handled
  <2>6. RecordFits(actor[a], "free")
    BY <1>0
  <2>. HIDE DEF BeginCreate
  <2>. QED BY <1>0, <1>2, <2>1, <2>2, <2>3, <2>4, <2>5, <2>6, TellStep
<1>. QED BY <1>1, <1>2

\* A live Node is chosen, or there is no room now, or none is feasible.
LEMMA ChooseSound ==
    ASSUME DeathInv, ActorInv, NEW a \in Actors, Choose(a)
    PROVE  ActorInv'
<1>. USE DEF Choose, gcsRest
<1>. DEFINE e == exited[a]
<1>0. /\ alock[a] = "choose" /\ actor[a] \in RecordType /\ RecordFits(actor[a], alock[a])
      /\ actor[a].gen \in Gens(a) /\ live \subseteq Nodes
      /\ actor \in [Actors -> RecordType] /\ alock \in [Actors -> LockType] /\ "free" \in LockType
      /\ exited = [exited EXCEPT ![a] = e] /\ e \in SUBSET Gens(a)
  BY OfOneActor DEF ActorInv, ActorTypeOK, RecordType, LockType
<1>1. /\ actor[a].state = "CREATING" /\ actor[a].route = 0 /\ actor[a].gen = 0 /\ actor[a].node = 0
      /\ actor[a].target = 0 /\ e = {}
  BY <1>0, OfOneActor DEF RecordFits, Holders, Early
<1>2. UNCHANGED <<deathVars, exited, pubs, fails, queue, clientVars, callVars, mailVars>> /\ (Lose \/ NoLoss)
  BY DEF clientVars, callVars, NoLoss
<1>6. exited' = [exited EXCEPT ![a] = e] /\ exited[a] \subseteq e /\ "free" \notin Handled /\ "reserve" \notin Handled
  BY <1>0, <1>2 DEF Handled
<1>7. \/ \E n \in live : actor' = [actor EXCEPT ![a].target = n, ![a].next = 1] /\ alock' = [alock EXCEPT ![a] = "reserve"]
      \/ UNCHANGED actor /\ alock' = [alock EXCEPT ![a] = "free"]
      \/ actor' = [actor EXCEPT ![a].state = "DEAD", ![a].route = @ + 1] /\ alock' = [alock EXCEPT ![a] = "free"]
  OBVIOUS
<1>. HIDE DEF Choose, e
<1>3. ASSUME NEW n \in live, actor' = [actor EXCEPT ![a].target = n, ![a].next = 1],
             alock' = [alock EXCEPT ![a] = "reserve"]
      PROVE  ActorInv'
  <2>. DEFINE r == [actor[a] EXCEPT !.target = n, !.next = 1]
  <2>1. actor' = [actor EXCEPT ![a] = r]
    BY <1>0, <1>3
  <2>2. /\ r \in RecordType /\ r.gen = 0 /\ r.route = 0 /\ r.node = 0 /\ r.target = n /\ r.next = 1
        /\ r.state = "CREATING" /\ r.gen \in Gens(a) /\ "reserve" \in LockType /\ n # 0
    BY <1>0, <1>1, ActorsAssumption DEF RecordType, LockType
  <2>. HIDE DEF r
  <2>3. RecordFits(r, "reserve") /\ Follows(r, actor[a]) /\ StaysAway(r, actor[a]) /\ Due(a, r, e)
    BY <1>0, <1>1, <2>2 DEF RecordFits, Follows, StaysAway, Due, Early, Holders, Going
  <2>. QED BY <1>0, <1>1, <1>2, <1>3, <1>6, <2>1, <2>2, <2>3, RecordStep
<1>4. ASSUME actor' = [actor EXCEPT ![a].state = "DEAD", ![a].route = @ + 1], alock' = [alock EXCEPT ![a] = "free"]
      PROVE  ActorInv'
  <2>. DEFINE r == [actor[a] EXCEPT !.state = "DEAD", !.route = @ + 1]
  <2>1. actor' = [actor EXCEPT ![a] = r]
    BY <1>0, <1>4
  <2>2. /\ r \in RecordType /\ r.gen = 0 /\ r.route = 1 /\ r.node = 0 /\ r.target = 0 /\ r.state = "DEAD" /\ r.gen \in Gens(a)
    <3>1. actor[a].route + 1 = 1 /\ actor[a].route + 1 \in Nat /\ "DEAD" \in States
      BY <1>1 DEF States
    <3>2. r \in RecordType
      BY <1>0, <3>1 DEF RecordType
    <3>. QED BY <1>0, <1>1, <3>1, <3>2 DEF RecordType
  <2>. HIDE DEF r
  <2>3. RecordFits(r, "free") /\ Follows(r, actor[a]) /\ StaysAway(r, actor[a]) /\ Due(a, r, e)
    BY <1>0, <1>1, <2>2 DEF RecordFits, Follows, StaysAway, Due, Early, Holders, Going
  <2>. QED BY <1>0, <1>1, <1>2, <1>4, <1>6, <2>1, <2>2, <2>3, RecordStep
<1>5. ASSUME UNCHANGED actor, alock' = [alock EXCEPT ![a] = "free"]
      PROVE  ActorInv'
  <2>1. /\ RecordFits(actor[a], "free") /\ Follows(actor[a], actor[a]) /\ StaysAway(actor[a], actor[a])
        /\ Due(a, actor[a], e) /\ actor' = [actor EXCEPT ![a] = actor[a]]
    BY <1>0, <1>1, <1>5 DEF RecordFits, Follows, StaysAway, Due, Holders, Early
  <2>. QED BY <1>0, <1>1, <1>2, <1>5, <1>6, <2>1, RecordStep
<1>. QED BY <1>3, <1>4, <1>5, <1>7

\* The Worker is reserved and accepted, or cannot start, or the answer is lost.
LEMMA ReserveSound ==
    ASSUME DeathInv, ActorInv, NEW a \in Actors, Reserve(a)
    PROVE  ActorInv'
<1>. USE DEF Reserve, gcsRest
<1>. DEFINE n == actor[a].target
            ok == [actor[a] EXCEPT !.state = "ALIVE", !.route = actor[a].next, !.node = n]
            bad == [actor[a] EXCEPT !.state = "DEAD", !.route = actor[a].route + 1]
            e == exited[a]
<1>0. /\ alock[a] = "reserve" /\ actor[a] \in RecordType /\ RecordFits(actor[a], alock[a])
      /\ actor[a].gen \in Gens(a) /\ "free" \in LockType
      /\ actor \in [Actors -> RecordType] /\ alock \in [Actors -> LockType]
      /\ actor[a].route \in Nat /\ actor[a].route + 1 \in Nat
      /\ exited = [exited EXCEPT ![a] = e] /\ e \in SUBSET Gens(a)
  BY OfOneActor DEF ActorInv, ActorTypeOK, RecordType, LockType
<1>1. /\ actor[a].state = "CREATING" /\ actor[a].route = 0 /\ actor[a].gen = 0 /\ actor[a].node = 0
      /\ actor[a].next = 1 /\ n # 0 /\ e = {}
  BY <1>0, OfOneActor DEF RecordFits, Holders, Early
<1>2. /\ alock' = [alock EXCEPT ![a] = "free"] /\ (Lose \/ NoLoss)
      /\ UNCHANGED <<deathVars, exited, pubs, fails, queue, clientVars, callVars, mailVars>>
  BY DEF clientVars, callVars
<1>3. actor' = [actor EXCEPT ![a] = ok] \/ actor' = [actor EXCEPT ![a] = bad] \/ actor' = actor
  BY <1>0 DEF RecordType
<1>4. ok \in RecordType /\ ok.gen \in Gens(a) /\ RecordFits(ok, "free") /\ Follows(ok, actor[a]) /\ StaysAway(ok, actor[a])
      /\ Due(a, ok, e)
  <2>1. /\ ok \in RecordType /\ ok.gen = 0 /\ ok.gen \in Gens(a) /\ ok.state = "ALIVE" /\ ok.route = 1 /\ ok.next = 1
        /\ ok.node = n /\ ok.target = n
    BY <1>0, <1>1 DEF RecordType, States
  <2>. HIDE DEF ok
  <2>. QED BY <1>0, <1>1, <2>1 DEF RecordFits, Follows, StaysAway, Due, Early, Holders, Going
<1>5. bad \in RecordType /\ bad.gen \in Gens(a) /\ RecordFits(bad, "free") /\ Follows(bad, actor[a]) /\ StaysAway(bad, actor[a])
      /\ Due(a, bad, e)
  <2>1. /\ bad \in RecordType /\ bad.gen = 0 /\ bad.gen \in Gens(a) /\ bad.state = "DEAD" /\ bad.route = 1 /\ bad.next = 1
        /\ bad.node = 0 /\ bad.target = n
    <3>1. actor[a].route + 1 = 1 /\ "DEAD" \in States
      BY <1>1 DEF States
    <3>. QED BY <1>0, <1>1, <3>1 DEF RecordType
  <2>. HIDE DEF bad
  <2>. QED BY <1>0, <1>1, <2>1 DEF RecordFits, Follows, StaysAway, Due, Early, Holders, Going
<1>6. /\ RecordFits(actor[a], "free") /\ Follows(actor[a], actor[a]) /\ StaysAway(actor[a], actor[a])
      /\ Due(a, actor[a], e) /\ actor = [actor EXCEPT ![a] = actor[a]]
  BY <1>0 DEF RecordFits, Follows, StaysAway, Due, Holders
<1>7. "free" \notin Handled /\ "free" # "respawn" /\ exited' = [exited EXCEPT ![a] = e] /\ exited[a] \subseteq e
  BY <1>0, <1>2 DEF Handled
<1>. HIDE DEF ok, bad, Reserve
<1>. QED BY <1>0, <1>1, <1>2, <1>3, <1>4, <1>5, <1>6, <1>7, RecordStep

\* An exit is accepted once, from the live generation, and is owed until it is acknowledged.
LEMMA ReportExitSound ==
    ASSUME DeathInv, ActorInv, NEW a \in Actors, NEW g \in Gens(a), NEW n \in Nodes, ReportExit(n, a, g)
    PROVE  ActorInv'
<1>. USE DEF ReportExit, exitRest
<1>. DEFINE r == actor[a]
            next == [r EXCEPT !.node = 0, !.route = r.route + 1]
            again == [next EXCEPT !.state = "RESTARTING", !.gen = g + 1, !.next = r.route + 2]
            dead == [next EXCEPT !.state = "DEAD"]
<1>0. /\ alock[a] = "free" /\ r \in RecordType /\ RecordFits(r, alock[a])
      /\ r.gen \in Gens(a) /\ {"tell", "publish"} \subseteq LockType
      /\ actor \in [Actors -> RecordType] /\ alock \in [Actors -> LockType]
      /\ r.route \in Nat /\ r.route + 1 \in Nat /\ r.route + 2 \in Nat /\ g \in Nat /\ g + 1 \in Nat
  <2>1. Restarts[a] \in Nat /\ g \in Nat
    BY ActorsAssumption DEF Gens
  <2>2. alock[a] = "free" /\ {"tell", "publish"} \subseteq LockType
    BY DEF Reporting, LockType
  <2>3. r \in RecordType /\ r.route \in Nat /\ RecordFits(r, alock[a]) /\ r.gen \in Gens(a)
    BY OfOneActor DEF RecordType
  <2>4. actor \in [Actors -> RecordType] /\ alock \in [Actors -> LockType]
    BY DEF ActorInv, ActorTypeOK, RecordType, LockType
  <2>. QED BY <2>1, <2>2, <2>3, <2>4
<1>1. (Lose \/ NoLoss) /\ UNCHANGED <<deathVars, pubs, fails, queue, clientVars, callVars, mailVars>>
  BY DEF NoLoss
<1>. DEFINE e == exited[a] \cup {g}
<1>2. /\ exited' = [exited EXCEPT ![a] = e] /\ e \in SUBSET Gens(a) /\ exited[a] \subseteq e
      /\ exited'[a] = e /\ e # {}
  <2>1. exited \in [Actors -> SUBSET Nat] /\ exited[a] \in SUBSET Gens(a)
    BY OfOneActor DEF ActorInv, ActorTypeOK
  <2>2. exited' = [exited EXCEPT ![a] = e]
    <3>1. CASE g \in exited[a] /\ exited' = exited
      <4>1. e = exited[a]
        BY <3>1
      <4>. QED BY <2>1, <3>1, <4>1
    <3>2. CASE exited' = [exited EXCEPT ![a] = @ \cup {g}]
      BY <3>2
    <3>. QED BY <3>1, <3>2
  <2>. QED BY <2>1, <2>2
<1>3. Owed(a)'
  <2>1. queue[n] \in Seq(Actors \X Nat) /\ queue[n] # <<>> /\ Head(queue[n]) = <<a, g>>
    BY DEF Reporting, ActorInv, Reports
  <2>2. 1 \in DOMAIN queue[n] /\ queue[n][1] = <<a, g>>
    BY <2>1
  <2>3. queue' = queue /\ <<a, g>>[1] = a /\ <<a, g>>[2] = g /\ g \in exited'[a]
    BY <1>2
  <2>. HIDE DEF ReportExit, e
  <2>. QED BY <2>2, <2>3 DEF Owed
<1>. HIDE DEF e
<1>4. CASE g \in exited[a] /\ actor' = actor
  <2>1. actor' = [actor EXCEPT ![a] = r] /\ Follows(r, actor[a]) /\ StaysAway(r, actor[a])
    BY <1>0, <1>4 DEF Follows, StaysAway
  <2>2. PICK lock \in {"tell", "publish"} :
           alock' = [alock EXCEPT ![a] = lock] /\ (lock = "tell" => r.state = "RESTARTING")
    BY <1>4
  <2>3. RecordFits(r, lock)
    BY <1>0, <2>2 DEF RecordFits, Holders
  <2>4. e = exited[a] /\ r.state \notin Early
    BY <1>4, OfOneActor DEF e
  <2>5. Due(a, r, e)
    BY <2>4 DEF Due
  <2>. HIDE DEF ReportExit
  <2>. QED BY <1>0, <1>1, <1>2, <1>3, <2>1, <2>2, <2>3, <2>4, <2>5, RecordStep
<1>5. CASE g \notin exited[a] /\ r.state = "ALIVE" /\ r.gen = g
  <2>1. r.next = r.route /\ r.route # 0 /\ r.route = 2 * g + 1 /\ r.route \in Nat
    BY <1>0, <1>5 DEF RecordFits, Early
  <2>2. CASE g < Restarts[a] /\ actor' = [actor EXCEPT ![a] = again] /\ alock' = [alock EXCEPT ![a] = "tell"]
    <3>1. again \in RecordType /\ again.gen = g + 1 /\ again.route = r.route + 1 /\ again.next = r.route + 2
          /\ again.state = "RESTARTING" /\ again.node = 0 /\ again.target = r.target
      BY <1>0 DEF RecordType, States
    <3>2. g + 1 \in Gens(a)
      <4>1. Restarts[a] \in Nat
        BY ActorsAssumption
      <4>. QED BY <1>0, <2>2, <4>1 DEF Gens
    <3>. HIDE DEF again
    <3>3. again.route = 2 * again.gen /\ again.next = again.route + 1 /\ again.route > r.route /\ again.route # 0
      BY <1>0, <2>1, <3>1
    <3>4. RecordFits(again, "tell")
      BY <3>1, <3>3 DEF RecordFits, Early, Holders
    <3>5. Follows(again, r) /\ StaysAway(again, r) /\ Due(a, again, e) /\ again.state \notin Early
      BY <1>3, <1>5, <3>1, <3>3 DEF Follows, StaysAway, Due, Early, Going
    <3>. HIDE DEF ReportExit
    <3>. QED BY <1>0, <1>1, <1>2, <1>3, <2>2, <3>1, <3>2, <3>4, <3>5, RecordStep
  <2>3. CASE actor' = [actor EXCEPT ![a] = dead] /\ alock' = [alock EXCEPT ![a] = "publish"]
    <3>1. dead \in RecordType /\ dead.gen = r.gen /\ dead.route = r.route + 1 /\ dead.next = r.next
          /\ dead.state = "DEAD" /\ dead.node = 0 /\ dead.target = r.target
      BY <1>0 DEF RecordType, States
    <3>. HIDE DEF dead
    <3>2. dead.route # 0 /\ dead.route > r.route /\ dead.next # 0
      BY <1>0, <2>1, <3>1
    <3>3. RecordFits(dead, "publish") /\ Follows(dead, r) /\ StaysAway(dead, r) /\ Due(a, dead, e) /\ dead.state \notin Early
      BY <1>3, <1>5, <3>1, <3>2 DEF RecordFits, Follows, StaysAway, Due, Early, Holders, Going
    <3>. HIDE DEF ReportExit
    <3>. QED BY <1>0, <1>1, <1>2, <1>3, <2>3, <3>1, <3>3, RecordStep
  <2>. QED BY <1>5, <2>2, <2>3
<1>. QED BY <1>4, <1>5

\* The next generation is published, or fails, under an epoch of its own.
LEMMA RespawnSound ==
    ASSUME DeathInv, ActorInv, NEW a \in Actors, Respawn(a)
    PROVE  ActorInv'
<1>. USE DEF Respawn, gcsRest
<1>. DEFINE r == actor[a]
            ok == [r EXCEPT !.state = "ALIVE", !.route = r.next, !.node = r.target]
            bad == [r EXCEPT !.state = "DEAD", !.route = r.next]
            e == exited[a]
<1>0. /\ alock[a] = "respawn" /\ r \in RecordType /\ RecordFits(r, alock[a])
      /\ r.gen \in Gens(a) /\ r.gen \in Nat /\ {"free", "publish"} \subseteq LockType
      /\ actor \in [Actors -> RecordType] /\ alock \in [Actors -> LockType] /\ r.route \in Nat
      /\ e \in SUBSET Gens(a) /\ exited = [exited EXCEPT ![a] = e] /\ Owed(a)
  BY OfOneActor DEF ActorInv, ActorTypeOK, RecordType, LockType, Handled
<1>1. r.state = "RESTARTING" /\ r.next = r.route + 1 /\ r.route = 2 * r.gen /\ r.node = 0
  BY <1>0 DEF RecordFits
<1>2. (Lose \/ NoLoss) /\ UNCHANGED <<deathVars, exited, pubs, fails, queue, clientVars, callVars, mailVars>>
  BY DEF clientVars, callVars
<1>3. Owed(a)' /\ exited' = [exited EXCEPT ![a] = e]
  BY <1>0, <1>2 DEF Owed
<1>4. \/ actor' = [actor EXCEPT ![a] = ok] /\ alock' = [alock EXCEPT ![a] = "publish"]
      \/ actor' = [actor EXCEPT ![a] = bad] /\ alock' = [alock EXCEPT ![a] = "publish"]
      \/ actor' = actor /\ alock' = [alock EXCEPT ![a] = "free"]
  OBVIOUS
<1>5. /\ ok \in RecordType /\ ok.gen = r.gen /\ RecordFits(ok, "publish")
      /\ Follows(ok, r) /\ StaysAway(ok, r) /\ Due(a, ok, e) /\ ok.state \notin Early
  <2>1. /\ ok \in RecordType /\ ok.gen = r.gen /\ ok.state = "ALIVE" /\ ok.route = r.next /\ ok.next = r.next
        /\ ok.node = r.target /\ ok.target = r.target
    BY <1>0 DEF RecordType, States
  <2>. HIDE DEF ok
  <2>2. ok.route = 2 * ok.gen + 1 /\ ok.route > r.route /\ ok.route # 0
    BY <1>0, <1>1, <2>1
  <2>. HIDE DEF Owed
  <2>. QED BY <1>1, <1>3, <2>1, <2>2 DEF RecordFits, Follows, StaysAway, Due, Early, Holders, Going
<1>6. /\ bad \in RecordType /\ bad.gen = r.gen /\ RecordFits(bad, "publish")
      /\ Follows(bad, r) /\ StaysAway(bad, r) /\ Due(a, bad, e) /\ bad.state \notin Early
  <2>1. /\ bad \in RecordType /\ bad.gen = r.gen /\ bad.state = "DEAD" /\ bad.route = r.next /\ bad.next = r.next
        /\ bad.node = r.node /\ bad.target = r.target
    BY <1>0 DEF RecordType, States
  <2>. HIDE DEF bad
  <2>2. bad.next # 0 /\ bad.route > r.route /\ bad.route # 0
    BY <1>0, <1>1, <2>1
  <2>. HIDE DEF Owed
  <2>. QED BY <1>1, <1>3, <2>1, <2>2 DEF RecordFits, Follows, StaysAway, Due, Early, Holders, Going
<1>7. /\ RecordFits(r, "free") /\ Follows(r, r) /\ StaysAway(r, r) /\ Due(a, r, e) /\ r.state \notin Early
      /\ actor = [actor EXCEPT ![a] = r]
  BY <1>0, <1>1 DEF RecordFits, Follows, StaysAway, Due, Holders, Early
<1>. HIDE DEF ok, bad, Respawn, Owed
<1>. QED BY <1>0, <1>2, <1>3, <1>4, <1>5, <1>6, <1>7, RecordStep

\* The first report of a Node is acknowledged: what it owes of other Actors it still owes.
LEMMA PopKeeps ==
    ASSUME ActorInv, NEW a \in Actors, NEW g \in Gens(a), NEW n \in Nodes, queue[n] # <<>>, Head(queue[n]) = <<a, g>>,
           queue' \in {queue, [queue EXCEPT ![n] = Tail(@)]}, exited' = exited
    PROVE  /\ queue' \in [Nodes -> Seq(Actors \X Nat)]
           /\ \A b \in Actors : b # a => (Owed(b) => Owed(b)')
<1>0. queue \in [Nodes -> Seq(Actors \X Nat)]
  BY DEF ActorInv, Reports
<1>1. CASE queue' = queue
  BY <1>0, <1>1 DEF Owed
<1>2. CASE queue' = [queue EXCEPT ![n] = Tail(@)]
  <2>1. /\ queue[n] \in Seq(Actors \X Nat) /\ Tail(queue[n]) \in Seq(Actors \X Nat)
        /\ queue'[n] = Tail(queue[n]) /\ \A m \in Nodes : m # n => queue'[m] = queue[m]
        /\ queue' \in [Nodes -> Seq(Actors \X Nat)]
    BY <1>0, <1>2
  <2>2. queue[n][1] = <<a, g>> /\ Len(queue[n]) \in Nat /\ DOMAIN queue[n] = 1..Len(queue[n])
    BY <2>1
  <2>3. Len(Tail(queue[n])) = Len(queue[n]) - 1 /\ \A i \in 1..(Len(queue[n]) - 1) : Tail(queue[n])[i] = queue[n][i + 1]
        /\ DOMAIN Tail(queue[n]) = 1..(Len(queue[n]) - 1)
    BY <2>1, <2>2
  <2>4. ASSUME NEW b \in Actors, b # a, NEW m \in Nodes, NEW i \in DOMAIN queue[m],
               queue[m][i][1] = b, queue[m][i][2] \in exited[b]
        PROVE  Owed(b)'
    <3>1. CASE m = n
      <4>1. i # 1 /\ i \in 1..Len(queue[n])
        BY <2>2, <2>4, <3>1
      <4>2. i - 1 \in 1..(Len(queue[n]) - 1) /\ (i - 1) + 1 = i
        BY <2>2, <4>1
      <4>3. queue'[n][i - 1] = queue[n][i] /\ i - 1 \in DOMAIN queue'[n]
        BY <2>1, <2>3, <4>2
      <4>. QED BY <2>4, <3>1, <4>3 DEF Owed
    <3>2. CASE m # n
      <4>1. queue'[m] = queue[m]
        BY <2>1, <3>2
      <4>. QED BY <2>4, <4>1 DEF Owed
    <3>. QED BY <3>1, <3>2
  <2>5. ASSUME NEW b \in Actors, b # a, Owed(b) PROVE Owed(b)'
    <3>1. PICK m \in Nodes : \E i \in DOMAIN queue[m] : queue[m][i][1] = b /\ queue[m][i][2] \in exited[b]
      BY <2>5 DEF Owed
    <3>2. PICK i \in DOMAIN queue[m] : queue[m][i][1] = b /\ queue[m][i][2] \in exited[b]
      BY <3>1
    <3>. QED BY <2>4, <2>5, <3>2
  <2>. QED BY <2>1, <2>5
<1>. QED BY <1>1, <1>2

\* The push of a route is acknowledged, and the owner has it, or it is given up.
LEMMA PushIs ==
    ASSUME DeathInv, ActorInv, NEW a \in Actors, Acked(a, Snapshot(a)) \/ NotAcked(a, Snapshot(a)), UNCHANGED <<actor, call, mailVars>>
    PROVE  /\ Brings(a) /\ (Lose \/ NoLoss)
           /\ installs' \subseteq Actors \X Routes /\ \A m \in installs' : RouteFits(m[1], m[2], actor[m[1]])
           /\ Acked(a, Snapshot(a)) /\ actor[a].state \notin Early => client'[a] = Snapshot(a)
<1>1. Snapshot(a) \in Routes /\ RouteFits(a, Snapshot(a), actor[a])
  BY OnRecordFits
<1>2. /\ installs \subseteq Actors \X Routes
      /\ \A m \in installs : RouteFits(m[1], m[2], actor[m[1]])
  BY NothingSent DEF ActorInv, ActorTypeOK, ActorRoutes
<1>. DEFINE s == Snapshot(a)
<1>. HIDE DEF s
<1>3. CASE Acked(a, Snapshot(a))
  <2>1. InstallRoute(a, Snapshot(a)) /\ NoLoss /\ installs' = installs
    BY <1>3 DEF Acked
  <2>2. actor[a].state \notin Early => actor[a].route # 0
    BY DEF ActorInv, ActorRecords, RecordFits
  <2>3. actor[a].state \notin Early => client'[a] = Snapshot(a)
    BY <1>1, <2>1, <2>2, InstallKeeps
  <2>4. Brings(a)
    BY <1>1, <2>1 DEF Brings
  <2>. QED BY <1>2, <2>1, <2>3, <2>4
<1>4. CASE NotAcked(a, Snapshot(a)) /\ ~Acked(a, Snapshot(a))
  <2>1. UNCHANGED routeVars /\ (Lose \/ NoLoss) /\ installs' \in {installs, installs \cup {<<a, Snapshot(a)>>}}
    BY <1>4 DEF NotAcked, Astray
  <2>2. Brings(a)
    BY <2>1 DEF Brings
  <2>3. ASSUME NEW m \in installs' PROVE m \in Actors \X Routes /\ RouteFits(m[1], m[2], actor[m[1]])
    <3>1. CASE m \in installs
      BY <1>2, <3>1
    <3>2. CASE m = <<a, Snapshot(a)>>
      <4>1. m[1] = a /\ m[2] = Snapshot(a)
        BY <3>2
      <4>. QED BY <1>1, <3>2, <4>1
    <3>. QED BY <2>1, <3>1, <3>2
  <2>. QED BY <1>4, <2>1, <2>2, <2>3
<1>. QED BY <1>3, <1>4

\* The owner is told of a restart.
LEMMA TellOwnerSound ==
    ASSUME DeathInv, ActorInv, NEW a \in Actors, TellOwner(a)
    PROVE  ActorInv'
<1>. USE DEF TellOwner, gcsRest
<1>0. /\ alock[a] = "tell" /\ RecordFits(actor[a], alock[a]) /\ {"free", "respawn"} \subseteq LockType
      /\ creating[a] \in {"no", "asking", "retry", "returned"} /\ creating = [creating EXCEPT ![a] = creating[a]]
      /\ alock \in [Actors -> LockType]
  BY OfOneActor DEF ActorInv, ActorTypeOK, LockType
<1>1. PICK lock \in {"free", "respawn"} :
         alock' = [alock EXCEPT ![a] = lock] /\ (lock = "respawn" => Acked(a, Snapshot(a)))
  OBVIOUS
<1>2. /\ UNCHANGED <<deathVars, actor, exited, queue, pubs, fails, creating, reply, call, mailVars>>
      /\ Acked(a, Snapshot(a)) \/ NotAcked(a, Snapshot(a))
  OBVIOUS
<1>. HIDE DEF TellOwner
<1>3. /\ Brings(a) /\ (Lose \/ NoLoss)
      /\ installs' \subseteq Actors \X Routes /\ \A m \in installs' : RouteFits(m[1], m[2], actor[m[1]])
      /\ Acked(a, Snapshot(a)) /\ actor[a].state \notin Early => client'[a] = Snapshot(a)
  BY <1>2, PushIs
<1>4. actor[a].state = "RESTARTING" /\ RecordFits(actor[a], lock)
  BY <1>0, <1>1 DEF RecordFits, Holders
<1>5. Reports' /\ \A b \in Actors : Owed(b)' = Owed(b)
  BY <1>0, <1>1, <1>2, ReportsStay DEF Handled
<1>6. client'[a] = Snapshot(a) \/ lock # "respawn"
  BY <1>1, <1>3, <1>4 DEF Early
<1>7. reply' \in [Actors -> Routes] /\ \A b \in Actors : RouteFits(b, reply'[b], actor[b])
  BY <1>2, NothingSent
<1>. QED BY <1>0, <1>1, <1>2, <1>3, <1>4, <1>5, <1>6, <1>7, TellStep

\* Or of how it ended; then the Node's report is acknowledged.
LEMMA PublishOutcomeSound ==
    ASSUME DeathInv, ActorInv, NEW a \in Actors, NEW n \in Nodes, NEW g \in Gens(a), PublishOutcome(n, a, g)
    PROVE  ActorInv'
<1>. USE DEF PublishOutcome
<1>0. /\ alock[a] = "publish" /\ RecordFits(actor[a], alock[a]) /\ "free" \in LockType
      /\ creating[a] \in {"no", "asking", "retry", "returned"} /\ creating = [creating EXCEPT ![a] = creating[a]]
      /\ alock \in [Actors -> LockType] /\ alock' = [alock EXCEPT ![a] = "free"]
  BY OfOneActor DEF ActorInv, ActorTypeOK, LockType
<1>1. /\ UNCHANGED <<deathVars, actor, exited, pubs, fails, creating, reply, call, mailVars>>
      /\ \/ Acked(a, Snapshot(a)) /\ queue' \in {queue, [queue EXCEPT ![n] = Tail(@)]}
         \/ NotAcked(a, Snapshot(a)) /\ queue' = queue
  OBVIOUS
<1>2. queue[n] # <<>> /\ Head(queue[n]) = <<a, g>> /\ queue' \in {queue, [queue EXCEPT ![n] = Tail(@)]} /\ exited' = exited
  OBVIOUS
<1>. HIDE DEF PublishOutcome
<1>3. /\ Brings(a) /\ (Lose \/ NoLoss)
      /\ installs' \subseteq Actors \X Routes /\ \A m \in installs' : RouteFits(m[1], m[2], actor[m[1]])
      /\ Acked(a, Snapshot(a)) /\ actor[a].state \notin Early => client'[a] = Snapshot(a)
  BY <1>1, PushIs
<1>4. queue' \in [Nodes -> Seq(Actors \X Nat)] /\ \A b \in Actors : b # a => (Owed(b) => Owed(b)')
  BY <1>2, PopKeeps
<1>5. Owed(a)
  BY <1>0, OfOneActor DEF Handled
<1>6. actor[a].state \notin Early
  <2>1. exited[a] # {}
    BY <1>5 DEF Owed
  <2>. QED BY <2>1 DEF ActorInv, Reports
<1>7. client'[a] = Snapshot(a) \/ (Owed(a) => Owed(a)')
  <2>1. CASE Acked(a, Snapshot(a))
    BY <1>3, <1>6, <2>1
  <2>2. CASE queue' = queue
    BY <1>1, <2>2 DEF Owed
  <2>. QED BY <1>1, <2>1, <2>2
<1>8. Reports'
  <2>1. ASSUME NEW b \in Actors
        PROVE  (exited'[b] # {} => actor'[b].state \notin Early) /\ (alock'[b] \in Handled => Owed(b)')
    <3>1. alock'[b] \in Handled => b # a /\ alock[b] \in Handled
      BY <1>0 DEF Handled
    <3>. HIDE DEF Owed
    <3>. QED BY <1>1, <1>4, <3>1 DEF ActorInv, Reports
  <2>. HIDE DEF Owed
  <2>. QED BY <1>4, <2>1 DEF Reports
<1>9. RecordFits(actor[a], "free") /\ reply' \in [Actors -> Routes] /\ \A b \in Actors : RouteFits(b, reply'[b], actor[b])
  <2>1. RecordFits(actor[a], "free")
    BY <1>0 DEF RecordFits, Holders
  <2>. QED BY <1>1, <2>1, NothingSent
<1>. QED BY <1>0, <1>1, <1>3, <1>4, <1>7, <1>8, <1>9, TellStep

-----------------------------------------------------------------------------
(* A Node's death, at the Actors *)

\* The Actors on record are listed: those routed to the Node are among them.
LEMMA ListActorsSound ==
    ASSUME DeathInv, ActorInv, NEW n \in Nodes, ListActors(n)
    PROVE  ActorInv'
<1>. USE DEF ListActors, deathRest, ActorInv
<1>1. UNCHANGED <<use, up, actor, exited, alock, pubs, queue, lostCalls, client, creating, reply, installs, sequence,
                  inflight, outcome, call, mailVars>>
  BY DEF processVars, workerVars, routeVars
<1>2. ActorTypeOK' /\ ActorRecords' /\ ActorRoutes' /\ Reports'
  BY <1>1, StandStill
<1>4. Mailboxes' /\ CallRecords'
  BY <1>1, CallsStay DEF Mailboxes
<1>5. ActorDeaths'
  <2>1. fails' \in [Nodes -> [see : SUBSET Actors, tell : SUBSET Actors, on : BOOLEAN]]
    BY DEF ActorDeaths
  <2>2. /\ \A m \in Nodes : m # n => fails'[m] = fails[m]
        /\ fails'[n].see = {a \in Actors : actor[a].state # "none"} /\ handler[n] = "actors"
    BY DEF ActorDeaths
  <2>3. UNCHANGED <<handler, recorded, actor>>
    BY DEF driverVars
  <2>. QED BY <2>1, <2>2, <2>3 DEF ActorDeaths, Going
<1>. QED BY <1>2, <1>4, <1>5

\* One that is routed to the Node fails, under a new route, and is to be published.
LEMMA FailActorSound ==
    ASSUME DeathInv, ActorInv, NEW n \in Nodes, NEW a \in Actors, FailActor(n, a)
    PROVE  ActorInv'
<1>. USE DEF FailActor, deathRest
<1>. DEFINE dead == [actor[a] EXCEPT !.state = "DEAD", !.node = 0, !.next = 0, !.route = actor[a].route + 1]
            hit == actor[a].state \in Going /\ actor[a].target = n
            r == IF hit THEN dead ELSE actor[a]
            e == exited[a]
<1>0. /\ alock[a] = "free" /\ "free" \in LockType /\ RecordFits(actor[a], alock[a])
      /\ actor[a] \in RecordType /\ actor[a].gen \in Gens(a)
      /\ actor \in [Actors -> RecordType] /\ alock \in [Actors -> LockType] /\ pubs \subseteq Actors
      /\ e \in SUBSET Gens(a) /\ exited = [exited EXCEPT ![a] = e] /\ (actor[a].state \in Early => e = {})
  BY OfOneActor DEF ActorInv, ActorTypeOK, RecordType, LockType
<1>1. actor' = [actor EXCEPT ![a] = r] /\ pubs' = IF hit THEN pubs \cup {a} ELSE pubs
  <2>1. CASE hit
    <3>1. actor[a].state \in {"CREATING", "ALIVE", "RESTARTING"} /\ actor[a].target = n
      BY <2>1 DEF Going
    <3>2. /\ actor' = [actor EXCEPT ![a].state = "DEAD", ![a].node = 0, ![a].next = 0, ![a].route = @ + 1]
          /\ pubs' = pubs \cup {a}
      BY <3>1
    <3>. HIDE DEF FailActor
    <3>3. /\ actor' \in [Actors -> RecordType]
          /\ actor'[a] = dead
          /\ \A b \in Actors : b # a => actor'[b] = actor[b]
      BY <1>0, <3>2 DEF RecordType, States
    <3>. HIDE DEF dead
    <3>4. actor' = [actor EXCEPT ![a] = dead]
      BY <1>0, <3>3
    <3>. QED BY <2>1, <3>2, <3>4
  <2>2. CASE ~hit
    <3>1. UNCHANGED <<actor, pubs>> /\ actor = [actor EXCEPT ![a] = actor[a]]
      BY <1>0, <2>2 DEF Going
    <3>. QED BY <2>2, <3>1
  <2>. QED BY <2>1, <2>2
<1>2. /\ dead \in RecordType /\ dead.gen = actor[a].gen /\ dead.state = "DEAD" /\ dead.next = 0 /\ dead.node = 0
      /\ dead.route = actor[a].route + 1 /\ actor[a].route \in Nat
  <2>1. actor[a].route \in Nat /\ actor[a].route + 1 \in Nat
    BY <1>0 DEF RecordType
  <2>. QED BY <1>0, <2>1 DEF RecordType, States
<1>. HIDE DEF dead
<1>3. /\ r \in RecordType /\ r.gen \in Gens(a) /\ RecordFits(r, "free") /\ Follows(r, actor[a])
      /\ r = actor[a] \/ (a \in pubs' /\ r.state \notin Going)
  <2>1. CASE hit
    <3>1. RecordFits(dead, "free") /\ Follows(dead, actor[a]) /\ dead.state \notin Going /\ dead.state \notin Early
      BY <1>2, <2>1 DEF RecordFits, Follows, Early, Holders, Going
    <3>. QED BY <1>0, <1>1, <1>2, <2>1, <3>1
  <2>2. CASE ~hit
    BY <1>0, <2>2 DEF Follows
  <2>. QED BY <2>1, <2>2
<1>4. r.state \in Going => ~hit
  BY <1>2 DEF Going
<1>9. e # {} => r.state \notin Early
  BY <1>0, <1>2 DEF Early
<1>. HIDE DEF r
<1>5. /\ alock' = [alock EXCEPT ![a] = "free"] /\ exited' = [exited EXCEPT ![a] = e] /\ exited[a] \subseteq e
      /\ lostCalls' \in 0..use.lost /\ "free" # "respawn" /\ "free" \notin Handled
  BY <1>0, OfOneActor DEF Handled
<1>6. UNCHANGED <<use, up, queue, clientVars, callVars, mailVars>>
  BY DEF processVars, clientVars, callVars, routeVars, workerVars
<1>10. Due(a, r, e) /\ pubs \subseteq pubs' /\ pubs' \subseteq Actors
  BY <1>0, <1>1, <1>3 DEF Due
<1>7. ActorTypeOK' /\ ActorRecords' /\ ActorRoutes' /\ Reports' /\ Mailboxes' /\ CallRecords'
  <2>. HIDE DEF FailActor, e, hit
  <2>. QED BY <1>0, <1>1, <1>3, <1>5, <1>6, <1>9, <1>10, RecordMoves
<1>8. ActorDeaths'
  <2>1. /\ \A b \in Actors : b # a => actor'[b] = actor[b]
        /\ actor'[a] = r /\ UNCHANGED <<handler, recorded>>
    BY <1>0, <1>1 DEF driverVars
  <2>2. fails \in [Nodes -> [see : SUBSET Actors, tell : SUBSET Actors, on : BOOLEAN]]
    BY DEF ActorInv, ActorDeaths
  <2>3. /\ \A m \in Nodes : m # n => fails'[m] = fails[m]
        /\ fails'[n].see = fails[n].see \ {a} /\ fails'[n].on = fails[n].on
        /\ fails' \in [Nodes -> [see : SUBSET Actors, tell : SUBSET Actors, on : BOOLEAN]]
    <3>1. pubs' \subseteq Actors
      BY <1>0, <1>1
    <3>. DEFINE t == IF fails[n].see = {a} THEN pubs' ELSE fails[n].tell
    <3>2. fails' = [fails EXCEPT ![n].see = fails[n].see \ {a}, ![n].tell = t]
      BY <2>2
    <3>3. t \in SUBSET Actors
      BY <2>2, <3>1
    <3>. HIDE DEF t, FailActor
    <3>. QED BY <2>2, <3>2, <3>3
  <2>4. actor'[a].state \in Going => actor'[a].target # n /\ actor'[a] = actor[a]
    BY <1>1, <1>3, <1>4, <2>1
  <2>. HIDE DEF FailActor
  <2>5. ASSUME NEW m \in Nodes, NEW b \in Actors, fails'[m].on, actor'[b].state \in Going, actor'[b].target = m
        PROVE  b \in fails'[m].see
    <3>1. actor'[b] = actor[b] /\ (b = a => m # n)
      BY <2>1, <2>4, <2>5
    <3>2. fails[m].on
      BY <2>3, <2>5
    <3>3. b \in fails[m].see
      BY <2>5, <3>1, <3>2 DEF ActorInv, ActorDeaths
    <3>. QED BY <2>3, <3>1, <3>3
  <2>6. ASSUME NEW b \in Actors, actor'[b].state \in Going PROVE actor'[b].target \notin recorded
    <3>1. actor'[b] = actor[b]
      BY <2>1, <2>4, <2>6
    <3>. QED BY <2>6, <3>1 DEF ActorInv, ActorDeaths
  <2>7. \A m \in Nodes : fails'[m].on => handler[m] = "actors"
    BY <2>3 DEF ActorInv, ActorDeaths
  <2>. QED BY <2>1, <2>3, <2>5, <2>6, <2>7 DEF ActorDeaths
<1>. QED BY <1>7, <1>8 DEF ActorInv

\* Its owner is told, or may be told with the next death.
LEMMA TellDeadSound ==
    ASSUME DeathInv, ActorInv, NEW n \in Nodes, NEW a \in Actors, TellDead(n, a)
    PROVE  ActorInv'
<1>. USE DEF TellDead, deathRest
<1>1. /\ creating' \in [Actors -> {"no", "asking", "retry", "returned"}]
      /\ alock' = alock /\ alock' \in [Actors -> LockType] /\ \A b \in Actors : RecordFits(actor[b], alock'[b])
  BY DEF ActorInv, ActorTypeOK, LockType, ActorRecords
<1>2. UNCHANGED <<use, up, actor, exited, queue, reply, call, mailVars, handler, recorded>>
  BY DEF processVars, driverVars, workerVars
<1>3. /\ Acked(a, Snapshot(a)) \/ NotAcked(a, Snapshot(a))
      /\ pubs' \subseteq pubs /\ \A b \in Actors : (b # a \/ ~Acked(a, Snapshot(a))) => (b \in pubs => b \in pubs')
  BY DEF NotAcked
<1>6. ActorDeaths'
  <2>1. fails \in [Nodes -> [see : SUBSET Actors, tell : SUBSET Actors, on : BOOLEAN]]
    BY DEF ActorInv, ActorDeaths
  <2>2. /\ fails' \in [Nodes -> [see : SUBSET Actors, tell : SUBSET Actors, on : BOOLEAN]]
        /\ \A m \in Nodes : fails'[m].see = fails[m].see /\ fails'[m].on = fails[m].on
    BY <2>1
  <2>. QED BY <1>2, <2>2 DEF ActorInv, ActorDeaths
<1>. HIDE DEF TellDead
<1>4. /\ Brings(a) /\ (Lose \/ NoLoss)
      /\ installs' \subseteq Actors \X Routes /\ \A m \in installs' : RouteFits(m[1], m[2], actor[m[1]])
      /\ Acked(a, Snapshot(a)) /\ actor[a].state \notin Early => client'[a] = Snapshot(a)
  BY <1>2, <1>3, PushIs
<1>5. ActorTypeOK' /\ ActorRecords' /\ ActorRoutes' /\ Reports' /\ Mailboxes' /\ CallRecords'
  <2>1. \A b \in Actors : Owed(b)' = Owed(b)
    BY <1>2 DEF Owed
  <2>2. Reports'
    <3>. HIDE DEF Owed
    <3>. QED BY <1>1, <1>2, <2>1 DEF ActorInv, Reports
  <2>3. reply' \in [Actors -> Routes] /\ \A b \in Actors : RouteFits(b, reply'[b], actor[b])
    BY <1>2, NothingSent
  <2>4. \A b \in Actors :
            \/ client'[b] = Snapshot(b)
            \/ actor[b].state \in Early
            \/ (alock'[b] = "respawn" => alock[b] = "respawn") /\ (b \in pubs => b \in pubs') /\ (Owed(b) => Owed(b)')
    <3>. HIDE DEF Owed, Acked, NotAcked, Snapshot
    <3>. QED BY <1>1, <1>3, <1>4, <2>1
  <2>5. lostCalls' \in 0..use.lost
    BY <1>4, OfOneActor
  <2>. QED BY <1>1, <1>2, <1>3, <1>4, <2>2, <2>3, <2>4, <2>5, TellsKeep
<1>. QED BY <1>5, <1>6 DEF ActorInv

\* The death is answered when every Actor was examined: none is routed to the Node.
LEMMA AnswerDeathSound ==
    ASSUME DeathInv, ActorInv, NEW n \in Nodes, AnswerDeath(n)
    PROVE  ActorInv'
<1>. USE DEF AnswerDeath
<1>1. /\ UNCHANGED <<use, up, actor, exited, alock, pubs, queue, lostCalls, clientVars, callVars, mailVars>>
      /\ handler' = [handler EXCEPT ![n] = "idle"] /\ recorded' \in {recorded, recorded \cup {n}}
  BY DEF Answer, processVars, workerVars
<1>2. ActorTypeOK' /\ ActorRecords' /\ ActorRoutes' /\ Reports'
  BY <1>1, StandStill DEF clientVars, callVars
<1>4. Mailboxes' /\ CallRecords'
  BY <1>1, CallsStay DEF ActorInv, Mailboxes, clientVars, callVars
<1>5. ActorDeaths'
  <2>1. /\ fails \in [Nodes -> [see : SUBSET Actors, tell : SUBSET Actors, on : BOOLEAN]]
        /\ handler \in [Nodes -> {"idle", "groups", "actors"}]
    BY DEF ActorInv, ActorDeaths, DeathInv, DeathTypeOK
  <2>2. /\ fails' \in [Nodes -> [see : SUBSET Actors, tell : SUBSET Actors, on : BOOLEAN]]
        /\ \A m \in Nodes : m # n => fails'[m] = fails[m] /\ handler'[m] = handler[m]
        /\ fails'[n].on = FALSE
    BY <1>1, <2>1
  <2>3. \A a \in Actors : actor[a].state \in Going => actor[a].target # n
    BY DEF ActorInv, ActorDeaths
  <2>. QED BY <1>1, <2>2, <2>3 DEF ActorInv, ActorDeaths
<1>. QED BY <1>2, <1>4, <1>5 DEF ActorInv

-----------------------------------------------------------------------------
(* The owner and the Actor's Worker *)

\* The owner registers a route and asks.
LEMMA CreateActorSound ==
    ASSUME DeathInv, ActorInv, NEW a \in Actors, CreateActor(a)
    PROVE  ActorInv'
<1>. USE DEF CreateActor, ActorInv, deathVars, gcsVars, callVars, workerVars
<1>0. /\ client \in [Actors -> Routes]
      /\ creating \in [Actors -> {"no", "asking", "retry", "returned"}] /\ client[a].route \in Nat
  BY DEF ActorTypeOK, Routes
<1>1. /\ client' \in [Actors -> Routes]
      /\ \A b \in Actors : b # a => client'[b] = client[b] /\ creating'[b] = creating[b]
      /\ client'[a].gen = client[a].gen /\ client'[a].route = client[a].route
      /\ client'[a].state = IF client[a].state = "none" THEN "CREATING" ELSE client[a].state
      /\ creating'[a] = "asking" /\ creating' \in [Actors -> {"no", "asking", "retry", "returned"}]
      /\ client[a].state # "none" => client'[a] = client[a]
  BY <1>0 DEF States, Routes
<1>2. UNCHANGED <<use, up, actor, exited, alock, pubs, fails, queue, lostCalls, call, inflight, outcome, sequence,
                  reply, installs, mailVars>>
  BY DEF processVars
<1>3. ActorTypeOK'
  BY <1>1, <1>2 DEF ActorTypeOK, Gens
<1>4. ActorRecords'
  BY <1>2 DEF ActorRecords, RecordFits
<1>7. \A b \in Actors : Owed(b)' = Owed(b)
  BY <1>2 DEF Owed
<1>8. Reports'
  <2>. HIDE DEF Owed, CreateActor
  <2>. QED BY <1>2, <1>7 DEF Reports
<1>5. ActorRoutes'
  <2>1. ASSUME NEW b \in Actors
        PROVE  RouteFits(b, client'[b], actor[b])
    <3>1. RouteFits(b, client[b], actor[b])
      BY DEF ActorRoutes
    <3>2. CASE b = a
      BY <1>1, <3>1, <3>2 DEF RouteFits, Early
    <3>3. CASE b # a
      BY <1>1, <3>1, <3>3
    <3>. QED BY <3>2, <3>3
  <2>2. ASSUME NEW b \in Actors
        PROVE  Knows(b)'
    <3>1. Snapshot(b)' = Snapshot(b) /\ OwnerUp(b)' = OwnerUp(b) /\ Snapshot(b).state = actor[b].state
      BY <1>2 DEF Snapshot, OwnerUp
    <3>2. OwnerKnows(b) /\ actor[b].state \notin Early => OwnerKnows(b)'
      <4>1. client[b] = Snapshot(b) /\ actor[b].state \notin Early => client'[b] = client[b]
        BY <1>1, <3>1 DEF Early
      <4>. QED BY <3>1, <4>1 DEF OwnerKnows
    <3>3. actor[b].state \in Early => exited'[b] = {} /\ alock'[b] # "respawn" /\ actor'[b].state # "DEAD"
      BY <1>2 DEF Reports, ActorRecords, RecordFits, Early
    <3>4. Knows(b)
      BY DEF ActorRoutes
    <3>. HIDE DEF Owed, OwnerKnows, CreateActor
    <3>. QED BY <1>2, <1>7, <3>2, <3>3, <3>4 DEF Knows
  <2>. HIDE DEF Knows, CreateActor
  <2>. QED BY <1>2, <2>1, <2>2 DEF ActorRoutes, RouteFits, Gens
<1>6. Mailboxes' /\ CallRecords' /\ ActorDeaths'
  BY <1>2, CallsStay, DeathsKeep DEF Mailboxes, driverVars, StaysAway
<1>. QED BY <1>3, <1>4, <1>5, <1>6, <1>8

\* The answer arrives, and is installed unless it is an older route; or it is not taken.
LEMMA TakeReplySound ==
    ASSUME DeathInv, ActorInv, NEW a \in Actors, TakeReply(a)
    PROVE  ActorInv'
<1>. USE DEF TakeReply
<1>0. /\ reply \in [Actors -> Routes] /\ \A b \in Actors : RouteFits(b, reply[b], actor[b])
      /\ creating \in [Actors -> {"no", "asking", "retry", "returned"}]
      /\ alock \in [Actors -> LockType] /\ RecordFits(actor[a], alock[a]) /\ alock[a] \in LockType
      /\ NoRoute \in Routes /\ RouteFits(a, NoRoute, actor[a])
  BY OfOneActor, OnRecordFits DEF ActorInv, ActorTypeOK, ActorRoutes, LockType
<1>1. /\ UNCHANGED <<deathVars, gcsVars, queue, installs, call, mailVars>>
      /\ reply' = [reply EXCEPT ![a] = NoRoute]
  BY DEF workerVars
<1>2. Brings(a)
  <2>. HIDE DEF InstallRoute, routeVars
  <2>. QED BY <1>0 DEF Brings
<1>3. PICK asked \in {"no", "asking", "retry", "returned"} : creating' = [creating EXCEPT ![a] = asked]
  OBVIOUS
<1>4. Lose \/ NoLoss
  OBVIOUS
<1>. HIDE DEF TakeReply, NoRoute
<1>5. reply' \in [Actors -> Routes] /\ \A b \in Actors : RouteFits(b, reply'[b], actor[b])
  BY <1>0, <1>1
<1>6. /\ alock' = [alock EXCEPT ![a] = alock[a]]
      /\ UNCHANGED <<actor, exited, pubs, fails>>
  BY <1>0, <1>1 DEF gcsVars
<1>7. Reports' /\ \A b \in Actors : Owed(b)' = Owed(b)
  BY <1>1, <1>6, ReportsStay
<1>8. installs' \subseteq Actors \X Routes /\ \A m \in installs' : RouteFits(m[1], m[2], actor[m[1]])
  BY <1>1, <1>6, NothingSent
<1>. QED BY <1>0, <1>1, <1>2, <1>3, <1>4, <1>5, <1>6, <1>7, <1>8, TellStep

\* A push that was given up is applied late, or the answer to a query is.
LEMMA ReceiveLateSound ==
    ASSUME DeathInv, ActorInv, NEW m \in installs, ReceiveLate(m[1], m[2])
    PROVE  ActorInv'
<1>. DEFINE a == m[1]
<1>0. /\ a \in Actors /\ m[2] \in Routes /\ RouteFits(a, m[2], actor[a])
  BY DEF ActorInv, ActorTypeOK, ActorRoutes
<1>1. /\ UNCHANGED <<deathVars, gcsVars, queue, lostCalls, creating, reply, call, mailVars>>
      /\ InstallRoute(a, m[2]) /\ installs' \subseteq installs
  BY DEF ReceiveLate, workerVars
<1>2. Brings(a) /\ (Lose \/ NoLoss)
  BY <1>0, <1>1 DEF Brings, NoLoss
<1>. HIDE DEF a
<1>3. /\ creating \in [Actors -> {"no", "asking", "retry", "returned"}] /\ creating' = [creating EXCEPT ![a] = creating[a]]
      /\ creating[a] \in {"no", "asking", "retry", "returned"}
      /\ alock \in [Actors -> LockType] /\ RecordFits(actor[a], alock[a]) /\ alock[a] \in LockType
      /\ alock' = [alock EXCEPT ![a] = alock[a]] /\ UNCHANGED <<actor, exited, pubs, fails>>
  BY <1>0, <1>1, OfOneActor DEF ActorInv, ActorTypeOK, LockType, gcsVars
<1>5. /\ reply' \in [Actors -> Routes] /\ \A b \in Actors : RouteFits(b, reply'[b], actor[b])
      /\ installs' \subseteq Actors \X Routes /\ \A k \in installs' : RouteFits(k[1], k[2], actor[k[1]])
  BY <1>1, <1>3, NothingSent
<1>7. Reports' /\ \A b \in Actors : Owed(b)' = Owed(b)
  BY <1>0, <1>1, <1>3, ReportsStay
<1>. QED BY <1>0, <1>1, <1>2, <1>3, <1>5, <1>7, TellStep

\* The state on record is asked for, and is on its way.
LEMMA QueryStateSound ==
    ASSUME DeathInv, ActorInv, NEW c \in Calls, QueryState(c)
    PROVE  ActorInv'
<1>. DEFINE a == CallOf[c]
<1>0. /\ a \in Actors /\ Snapshot(a) \in Routes /\ RouteFits(a, Snapshot(a), actor[a])
      /\ installs \subseteq Actors \X Routes /\ \A m \in installs : m[1] \in Actors /\ RouteFits(m[1], m[2], actor[m[1]])
  <2>1. a \in Actors
    BY ActorsAssumption
  <2>2. installs \subseteq Actors \X Routes /\ \A m \in installs : m[1] \in Actors /\ RouteFits(m[1], m[2], actor[m[1]])
    BY DEF ActorInv, ActorTypeOK, ActorRoutes
  <2>. HIDE DEF a
  <2>. QED BY <2>1, <2>2, OnRecordFits
<1>1. /\ UNCHANGED <<deathVars, gcsVars, queue, routeVars, creating, reply, call, mailVars>>
      /\ Lose /\ installs' = installs \cup {<<a, Snapshot(a)>>}
  BY DEF QueryState, Astray, workerVars
<1>2. Brings(a) /\ (Lose \/ NoLoss)
  BY <1>1 DEF Brings
<1>. HIDE DEF a
<1>3. /\ creating \in [Actors -> {"no", "asking", "retry", "returned"}] /\ creating' = [creating EXCEPT ![a] = creating[a]]
      /\ creating[a] \in {"no", "asking", "retry", "returned"}
      /\ alock \in [Actors -> LockType] /\ RecordFits(actor[a], alock[a]) /\ alock[a] \in LockType
      /\ alock' = [alock EXCEPT ![a] = alock[a]] /\ UNCHANGED <<actor, exited, pubs, fails>>
  BY <1>0, <1>1, OfOneActor DEF ActorInv, ActorTypeOK, LockType, gcsVars
<1>4. reply' \in [Actors -> Routes] /\ \A b \in Actors : RouteFits(b, reply'[b], actor[b])
  BY <1>1, <1>3, NothingSent
<1>5. installs' \subseteq Actors \X Routes /\ \A m \in installs' : RouteFits(m[1], m[2], actor[m[1]])
  <2>1. ASSUME NEW m \in installs' PROVE m \in Actors \X Routes /\ RouteFits(m[1], m[2], actor[m[1]])
    <3>1. CASE m \in installs
      BY <1>0, <3>1
    <3>2. CASE m = <<a, Snapshot(a)>>
      <4>1. m[1] = a /\ m[2] = Snapshot(a)
        BY <3>2
      <4>. HIDE DEF Snapshot
      <4>. QED BY <1>0, <3>2, <4>1
    <3>. QED BY <1>1, <3>1, <3>2
  <2>. QED BY <2>1
<1>7. Reports' /\ \A b \in Actors : Owed(b)' = Owed(b)
  BY <1>0, <1>1, <1>3, ReportsStay
<1>. QED BY <1>0, <1>1, <1>2, <1>3, <1>4, <1>5, <1>7, TellStep

\* What a step on the calls alone leaves of the rest.
LEMMA CallStepKeeps ==
    ASSUME DeathInv, ActorInv,
           UNCHANGED <<deathVars, gcsVars, queue, client, creating, reply, installs>>, lostCalls' \in 0..use.lost,
           inflight' \subseteq Calls, outcome' \in [Calls -> SUBSET {"value", "died", "unavailable"}],
           Mailboxes', CallRecords'
    PROVE  ActorInv'
<1>. USE DEF ActorInv, deathVars, gcsVars
<1>1. ActorTypeOK' /\ ActorRecords'
  BY DEF ActorTypeOK, ActorRecords, RecordFits, Gens, processVars
<1>2. \A a \in Actors : Owed(a)' = Owed(a) /\ OwnerKnows(a)' = OwnerKnows(a)
  BY DEF Owed, OwnerKnows, Snapshot, OwnerUp, processVars
<1>3. ActorRoutes' /\ Reports'
  <2>. HIDE DEF Owed, OwnerKnows
  <2>. QED BY <1>2 DEF ActorRoutes, RouteFits, Knows, Reports, Gens
<1>4. ActorDeaths'
  BY DeathsKeep DEF driverVars, StaysAway
<1>. QED BY <1>1, <1>3, <1>4

\* A call takes the route and the next number.
LEMMA SubmitSound ==
    ASSUME DeathInv, ActorInv, NEW c \in Calls, Submit(c)
    PROVE  ActorInv'
<1>. USE DEF Submit, workerVars
<1>. DEFINE a == CallOf[c]
            new == [gen |-> client[a].gen, route |-> client[a].route, seq |-> sequence[a]]
<1>0. /\ a \in Actors /\ call[c] = <<>> /\ DOMAIN call = Calls /\ sequence \in [Actors -> Nat] /\ c \notin inflight
      /\ outcome[c] = {} /\ client[a].gen \in Gens(a) /\ client[a].route \in Nat
  <2>1. a \in Actors
    BY ActorsAssumption
  <2>2. client[a] \in Routes /\ RouteFits(a, client[a], actor[a])
    BY <2>1 DEF ActorInv, ActorTypeOK, ActorRoutes
  <2>3. client[a].gen \in Gens(a) /\ client[a].route \in Nat
    BY <2>2 DEF Routes, RouteFits
  <2>. QED BY <2>1, <2>3 DEF ActorInv, Mailboxes, CallRecords
<1>1. new \in [gen : Gens(a), route : Nat, seq : Nat] /\ new # <<>>
  <2>1. new \in [gen : Gens(a), route : Nat, seq : Nat]
    BY <1>0
  <2>2. new # <<>>
    <3>1. DOMAIN new = {"gen", "route", "seq"} /\ DOMAIN <<>> = 1..0
      OBVIOUS
    <3>. QED BY <3>1
  <2>. QED BY <2>1, <2>2
<1>2. /\ DOMAIN call' = Calls /\ call'[c] = new /\ \A d \in Calls : d # c => call'[d] = call[d]
      /\ inflight' = inflight \cup {c} /\ outcome' = outcome /\ sequence' \in [Actors -> Nat]
      /\ UNCHANGED <<mailVars, lostCalls, client, creating, reply, installs, queue, deathVars, gcsVars>>
  BY <1>0
<1>. HIDE DEF new, Submit
<1>3. CallRecords'
  <2>1. ASSUME NEW d \in Calls
        PROVE  /\ call'[d] # <<>> => call'[d] \in [gen : Gens(CallOf[d]), route : Nat, seq : Nat]
               /\ d \in inflight' => call'[d] # <<>>
               /\ d \in inflight' \/ call'[d] = <<>> => outcome'[d] = {}
               /\ outcome'[d] \in {{}, {"value"}, {"died"}, {"unavailable"}}
    <3>1. CASE d = c
      BY <1>0, <1>1, <1>2, <3>1
    <3>2. CASE d # c
      BY <1>2, <3>2 DEF ActorInv, CallRecords
    <3>. QED BY <3>1, <3>2
  <2>. QED BY <1>2, <2>1 DEF CallRecords, Gens
<1>4. Mailboxes'
  <2>1. ASSUME NEW b \in Actors, NEW g \in Gens(b)
        PROVE  /\ records[b][g] \subseteq {d \in Calls : call'[d] # <<>>}
               /\ ready[b][g] \in Seq(Calls) /\ \A i \in DOMAIN ready[b][g] :
                      ready[b][g][i] \in records[b][g] /\ call'[ready[b][g][i]].seq = i - 1
               /\ ran[b][g] \in Seq(Calls) /\ \A i \in DOMAIN ran[b][g] :
                      ran[b][g][i] \in records[b][g] /\ call'[ran[b][g][i]].seq = i - 1
    <3>1. \A d \in records[b][g] : d \in Calls /\ d # c /\ call'[d] = call[d] /\ call[d] # <<>>
      BY <1>0, <1>2 DEF ActorInv, Mailboxes
    <3>2. Numbered(ready[b][g], records[b][g]) /\ Numbered(ran[b][g], records[b][g])
      BY DEF ActorInv, Mailboxes
    <3>. QED BY <3>1, <3>2 DEF Numbered
  <2>2. PerGeneration(records) /\ PerGeneration(ready) /\ PerGeneration(ran)
    BY DEF ActorInv, Mailboxes
  <2>. QED BY <1>2, <2>1, <2>2 DEF Mailboxes, Numbered, PerGeneration, Gens, mailVars
<1>5. /\ lostCalls' \in 0..use.lost /\ inflight' \subseteq Calls
      /\ outcome' \in [Calls -> SUBSET {"value", "died", "unavailable"}]
  BY <1>2 DEF ActorInv, ActorTypeOK
<1>. QED BY <1>2, <1>3, <1>4, <1>5, CallStepKeeps

\* What is in flight is settled once.
LEMMA SettleSound ==
    ASSUME DeathInv, ActorInv, NEW c \in Calls, Publish(c) \/ GiveUpCall(c)
    PROVE  ActorInv'
<1>. USE DEF Publish, GiveUpCall, clientVars, workerVars
<1>0. /\ c \in inflight /\ outcome[c] = {} /\ call[c] # <<>>
      /\ outcome \in [Calls -> SUBSET {"value", "died", "unavailable"}]
  BY DEF ActorInv, ActorTypeOK, CallRecords
<1>1. PICK o \in {"value", "unavailable"} : outcome' = [outcome EXCEPT ![c] = @ \cup {o}]
  OBVIOUS
<1>2. /\ inflight' = inflight \ {c} /\ UNCHANGED <<deathVars, gcsVars, queue, client, creating, reply, installs, sequence, call, mailVars>>
      /\ Lose \/ NoLoss
  BY DEF NoLoss
<1>3. /\ outcome' \in [Calls -> SUBSET {"value", "died", "unavailable"}]
      /\ outcome'[c] = {o} /\ \A d \in Calls : d # c => outcome'[d] = outcome[d]
  BY <1>0, <1>1
<1>4. CallRecords'
  BY <1>0, <1>2, <1>3 DEF ActorInv, CallRecords, Gens
<1>5. Mailboxes' /\ lostCalls' \in 0..use.lost /\ inflight' \subseteq Calls
  BY <1>2, CallsStay, OfOneActor, ActorsAssumption DEF ActorInv, Mailboxes, ActorTypeOK
<1>. QED BY <1>2, <1>3, <1>4, <1>5, CallStepKeeps

\* A request arrives, and what follows without a gap is admitted.
LEMMA DeliverSound ==
    ASSUME DeathInv, ActorInv, NEW c \in Calls, Deliver(c)
    PROVE  ActorInv'
<1>. USE DEF Deliver, workRest
<1>. DEFINE a == CallOf[c]
            g == call[c].gen
            S == records[a][g] \cup {c}
<1>0. /\ call[c] # <<>> /\ a \in Actors /\ g \in Gens(a)
      /\ PerGeneration(records) /\ PerGeneration(ready) /\ PerGeneration(ran)
  BY ActorsAssumption DEF ActorInv, CallRecords, Mailboxes
<1>1. S \subseteq {d \in Calls : call[d] # <<>>}
  BY <1>0 DEF ActorInv, Mailboxes
<1>2. /\ PerGeneration(records') /\ records'[a][g] = S
      /\ \A b \in Actors : \A h \in Gens(b) : b # a \/ h # g => records'[b][h] = records[b][h]
  BY <1>0 DEF PerGeneration
<1>3. /\ PerGeneration(ready') /\ ready'[a][g] = Admitted(a, g, S)
      /\ \A b \in Actors : \A h \in Gens(b) : b # a \/ h # g => ready'[b][h] = ready[b][h]
  <2>1. ready' = [ready EXCEPT ![a][g] = Admitted(a, g, S)]
    BY <1>2
  <2>. HIDE DEF S, Deliver
  <2>. QED BY <1>0, <2>1 DEF PerGeneration
<1>4. Numbered(Admitted(a, g, S), S)
  <2>1. \A d \in S : call[d].seq \in Nat
    BY <1>1 DEF ActorInv, CallRecords
  <2>. HIDE DEF a, g, S
  <2>. QED BY <1>1, <2>1, AdmittedIsNumbered
<1>5. ran' = ran /\ UNCHANGED <<call, sequence, inflight, outcome, lostCalls, deathVars, gcsVars, queue, client, creating, reply, installs>>
  BY DEF callVars, clientVars, workerVars
<1>. HIDE DEF S, g, a
<1>6. ASSUME NEW b \in Actors, NEW h \in Gens(b)
      PROVE  /\ records'[b][h] \subseteq {d \in Calls : call[d] # <<>>}
             /\ Numbered(ready'[b][h], records'[b][h]) /\ Numbered(ran[b][h], records'[b][h])
  <2>1. CASE b = a /\ h = g
    <3>1. Numbered(ran[b][h], records[b][h]) /\ records[b][h] \subseteq S
      BY <1>0, <2>1 DEF ActorInv, Mailboxes, S, a, g
    <3>2. Numbered(ran[b][h], S)
      BY <3>1 DEF Numbered
    <3>3. records'[b][h] = S /\ ready'[b][h] = Admitted(a, g, S)
      BY <1>2, <1>3, <2>1
    <3>. QED BY <1>1, <1>4, <3>2, <3>3
  <2>2. CASE ~(b = a /\ h = g)
    BY <1>2, <1>3, <2>2, ZenonT(120) DEF ActorInv, Mailboxes
  <2>. QED BY <2>1, <2>2
<1>. HIDE DEF Deliver
<1>7. Mailboxes'
  <2>1. ASSUME NEW b \in Actors, NEW h \in Gens(b)
        PROVE  /\ records'[b][h] \subseteq {d \in Calls : call'[d] # <<>>}
               /\ Numbered(ready[b][h], records[b][h])' /\ Numbered(ran[b][h], records[b][h])'
    BY <1>5, <1>6 DEF Numbered
  <2>2. PerGeneration(records') /\ PerGeneration(ready') /\ PerGeneration(ran') /\ sequence' \in [Actors -> Nat]
    BY <1>0, <1>2, <1>3, <1>5 DEF ActorInv, Mailboxes
  <2>. QED BY <2>1, <2>2 DEF Mailboxes, PerGeneration, Gens
<1>8. CallRecords' /\ lostCalls' \in 0..use.lost /\ inflight' \subseteq Calls
      /\ outcome' \in [Calls -> SUBSET {"value", "died", "unavailable"}]
  BY <1>5 DEF ActorInv, CallRecords, ActorTypeOK, Gens
<1>. QED BY <1>5, <1>7, <1>8, CallStepKeeps

\* The calls admitted run one by one, each under the next number.
LEMMA ExecuteSound ==
    ASSUME DeathInv, ActorInv, NEW a \in Actors, NEW g \in Gens(a), Execute(a, g)
    PROVE  ActorInv'
<1>. USE DEF Execute, workRest
<1>. DEFINE e == ready[a][g][Len(ran[a][g]) + 1]
<1>0. /\ PerGeneration(records) /\ PerGeneration(ready) /\ PerGeneration(ran)
      /\ Numbered(ready[a][g], records[a][g]) /\ Numbered(ran[a][g], records[a][g])
      /\ Len(ran[a][g]) < Len(ready[a][g])
  BY DEF ActorInv, Mailboxes
<1>1. /\ PerGeneration(ran') /\ ran'[a][g] = Append(ran[a][g], e)
      /\ \A b \in Actors : \A h \in Gens(b) : b # a \/ h # g => ran'[b][h] = ran[b][h]
  BY <1>0 DEF PerGeneration
<1>2. e \in Calls /\ e \in records[a][g] /\ call[e].seq = Len(ran[a][g])
  <2>1. ran[a][g] \in Seq(Calls) /\ ready[a][g] \in Seq(Calls)
    BY <1>0 DEF Numbered
  <2>2. Len(ran[a][g]) + 1 \in DOMAIN ready[a][g] /\ Len(ran[a][g]) \in Nat
    BY <1>0, <2>1
  <2>. QED BY <1>0, <2>1, <2>2, SMTT(30) DEF Numbered
<1>. HIDE DEF e
<1>3. Numbered(ran'[a][g], records[a][g])
  <2>1. ran[a][g] \in Seq(Calls)
    BY <1>0 DEF Numbered
  <2>2. /\ Append(ran[a][g], e) \in Seq(Calls) /\ Len(Append(ran[a][g], e)) = Len(ran[a][g]) + 1
        /\ Append(ran[a][g], e)[Len(ran[a][g]) + 1] = e
        /\ \A i \in 1..Len(ran[a][g]) : Append(ran[a][g], e)[i] = ran[a][g][i]
    BY <1>2, <2>1
  <2>. QED BY <1>0, <1>1, <1>2, <2>1, <2>2, SMTT(40) DEF Numbered
<1>4. UNCHANGED <<records, ready, call, sequence, inflight, outcome, lostCalls, deathVars, gcsVars, queue, client, creating, reply, installs>>
  BY DEF callVars, clientVars, workerVars
<1>5. Mailboxes'
  <2>1. ASSUME NEW b \in Actors, NEW h \in Gens(b)
        PROVE  /\ records[b][h] \subseteq {d \in Calls : call[d] # <<>>}
               /\ Numbered(ready[b][h], records[b][h]) /\ Numbered(ran'[b][h], records[b][h])
    BY <1>1, <1>3 DEF ActorInv, Mailboxes
  <2>2. ASSUME NEW b \in Actors, NEW h \in Gens(b)
        PROVE  /\ records'[b][h] \subseteq {d \in Calls : call'[d] # <<>>}
               /\ Numbered(ready[b][h], records[b][h])' /\ Numbered(ran[b][h], records[b][h])'
    <3>. HIDE DEF Execute, workRest
    <3>1. records' = records /\ ready' = ready /\ call' = call
      BY <1>4
    <3>2. Numbered(ready[b][h], records[b][h])'
      BY <2>1, <3>1 DEF Numbered
    <3>3. Numbered(ran[b][h], records[b][h])'
      BY <2>1, <3>1 DEF Numbered
    <3>. QED BY <2>1, <3>1, <3>2, <3>3
  <2>3. PerGeneration(records') /\ PerGeneration(ready') /\ sequence' \in [Actors -> Nat]
    BY <1>0, <1>4 DEF ActorInv, Mailboxes
  <2>. HIDE DEF Execute, workRest
  <2>. QED BY <1>1, <2>2, <2>3 DEF Mailboxes, PerGeneration, Gens
<1>6. CallRecords' /\ lostCalls' \in 0..use.lost /\ inflight' \subseteq Calls
      /\ outcome' \in [Calls -> SUBSET {"value", "died", "unavailable"}]
  BY <1>4 DEF ActorInv, CallRecords, ActorTypeOK, Gens
<1>. QED BY <1>4, <1>5, <1>6, CallStepKeeps

-----------------------------------------------------------------------------
(* Together *)

\* A step that does not touch the Actors; processes only exit, and only the answer of a
\* death takes its handler back or records it.
LEMMA OthersKeepActors ==
    ASSUME ActorInv, UNCHANGED <<use, recorded, gcsVars, queue, lostCalls, clientVars, callVars, mailVars>>, up' \subseteq up,
           \A n \in Nodes : handler[n] = "actors" => handler'[n] = "actors"
    PROVE  ActorInv'
<1>. USE DEF ActorInv, gcsVars, clientVars, callVars
<1>1. ActorTypeOK' /\ ActorRecords' /\ ActorRoutes' /\ Reports'
  BY StandStill
<1>3. Mailboxes' /\ CallRecords'
  BY CallsStay DEF Mailboxes
<1>4. ActorDeaths'
  BY DEF ActorDeaths
<1>. QED BY <1>1, <1>3, <1>4

\* An Actor's Worker exits: the Node's queue of reports grows.
LEMMA ActorExitSound ==
    ASSUME DeathInv, ActorInv, NEW a \in Actors, NEW g \in Gens(a), ActorExit(a, g)
    PROVE  ActorInv'
<1>. USE DEF ActorExit
<1>. DEFINE n == actor[a].target
<1>0. /\ queue \in [Nodes -> Seq(Actors \X Nat)] /\ <<a, g>> \in Actors \X Nat
      /\ queue' = [queue EXCEPT ![n] = Append(@, <<a, g>>)]
      /\ UNCHANGED <<use, up, recorded, handler, actor, exited, alock, pubs, fails, lostCalls, client, creating, reply,
                     installs, sequence, inflight, outcome, call, mailVars>>
  <2>1. g \in Nat
    BY ActorsAssumption DEF Gens
  <2>. QED BY <2>1 DEF ActorInv, Reports, driverVars, gcsVars, clientVars, callVars
<1>. HIDE DEF ActorExit, n
<1>1. /\ queue' \in [Nodes -> Seq(Actors \X Nat)]
      /\ \A m \in Nodes : queue'[m] = IF m = n THEN Append(queue[m], <<a, g>>) ELSE queue[m]
  <2>1. ASSUME NEW q \in Seq(Actors \X Nat) PROVE Append(q, <<a, g>>) \in Seq(Actors \X Nat)
    BY <1>0
  <2>. QED BY <1>0, <2>1
<1>2. ASSUME NEW m \in Nodes, NEW i \in DOMAIN queue[m]
      PROVE  i \in DOMAIN queue'[m] /\ queue'[m][i] = queue[m][i]
  <2>1. queue[m] \in Seq(Actors \X Nat)
    BY <1>0
  <2>2. CASE m = n
    <3>1. queue'[m] = Append(queue[m], <<a, g>>)
      BY <1>1, <2>2
    <3>2. <<a, g>> \in Actors \X Nat
      BY <1>0
    <3>. DEFINE q == queue[m]  p == <<a, g>>
    <3>3. q \in Seq(Actors \X Nat) /\ p \in Actors \X Nat /\ i \in DOMAIN q
      BY <2>1, <3>2
    <3>. HIDE DEF q, p
    <3>4. i \in DOMAIN Append(q, p) /\ Append(q, p)[i] = q[i]
      BY <3>3
    <3>. QED BY <3>1, <3>4 DEF q, p
  <2>3. CASE m # n
    BY <1>1, <2>3
  <2>. QED BY <2>2, <2>3
<1>3. ASSUME NEW b \in Actors, Owed(b) PROVE Owed(b)'
  <2>0. PICK m \in Nodes : \E i \in DOMAIN queue[m] : queue[m][i][1] = b /\ queue[m][i][2] \in exited[b]
    BY <1>3 DEF Owed
  <2>1. PICK i \in DOMAIN queue[m] : queue[m][i][1] = b /\ queue[m][i][2] \in exited[b]
    BY <2>0
  <2>2. i \in DOMAIN queue'[m] /\ queue'[m][i] = queue[m][i]
    BY <1>2
  <2>. QED BY <1>0, <2>1, <2>2 DEF Owed
<1>4. Reports'
  <2>. HIDE DEF Owed
  <2>. QED BY <1>0, <1>1, <1>3 DEF ActorInv, Reports
<1>5. ActorTypeOK' /\ ActorRecords'
  BY <1>0 DEF ActorInv, ActorTypeOK, ActorRecords, RecordFits, Gens
<1>6. ActorRoutes'
  <2>1. ASSUME NEW b \in Actors PROVE Knows(b)'
    <3>1. OwnerKnows(b)' = OwnerKnows(b) /\ Knows(b)
      BY <1>0 DEF OwnerKnows, Snapshot, OwnerUp, ActorInv, ActorRoutes
    <3>. HIDE DEF Owed, OwnerKnows
    <3>. QED BY <1>0, <1>3, <3>1 DEF Knows
  <2>. HIDE DEF Knows
  <2>. QED BY <1>0, <2>1 DEF ActorInv, ActorRoutes, RouteFits, Gens
<1>7. Mailboxes' /\ CallRecords'
  BY <1>0, CallsStay DEF ActorInv, Mailboxes
<1>8. ActorDeaths'
  BY <1>0 DEF ActorInv, ActorDeaths
<1>. QED BY <1>4, <1>5, <1>6, <1>7, <1>8 DEF ActorInv

\* Every step of the Actors keeps their invariant.
LEMMA ActorNextSound ==
    ASSUME DeathInv, ActorInv, ActorNext
    PROVE  ActorInv'
<1>1. ASSUME NEW a \in Actors, ActorStep(a) PROVE ActorInv'
  BY <1>1, CreateActorSound, TakeReplySound, BeginCreateSound, ChooseSound, ReserveSound, TellOwnerSound,
     RespawnSound, ExecuteSound, ActorExitSound, ReportExitSound, PublishOutcomeSound DEF ActorStep
<1>2. ASSUME NEW c \in Calls, CallStep(c) PROVE ActorInv'
  BY <1>2, SubmitSound, SettleSound, QueryStateSound, DeliverSound DEF CallStep
<1>3. ASSUME NEW n \in Nodes, ActorDeath(n) PROVE ActorInv'
  BY <1>3, ListActorsSound, AnswerDeathSound, FailActorSound, TellDeadSound DEF ActorDeath
<1>4. ASSUME NEW m \in installs, ReceiveLate(m[1], m[2]) PROVE ActorInv'
  BY <1>4, ReceiveLateSound
<1>. QED BY <1>1, <1>2, <1>3, <1>4 DEF ActorNext

\* At the start there is no Actor and no call.
LEMMA ActorInitSound ==
    ASSUME Init
    PROVE  ActorInv
<1>. USE DEF Init, DeathInit, ActorInit, NoRecord
<1>1. \A a \in Actors : Restarts[a] \in Nat /\ 0 \in Gens(a)
  BY ActorsAssumption DEF Gens
<1>2. ActorTypeOK
  <2>1. use.lost \in Nat /\ 0 \in 0..use.lost
    BY NodeDeathsAssumption
  <2>2. /\ actor \in [Actors -> [state : States, gen : Nat, route : Nat, node : Nodes \cup {0},
                                 target : Nodes \cup {0}, next : Nat]]
        /\ client \in [Actors -> Routes] /\ reply \in [Actors -> Routes] /\ installs \subseteq Actors \X Routes
    BY DEF States, NoRoute, Routes
  <2>3. outcome \in [Calls -> SUBSET {"value", "died", "unavailable"}] /\ inflight = {} /\ pubs = {} /\ lostCalls = 0
    OBVIOUS
  <2>4. /\ alock \in [Actors -> {"free", "choose", "reserve", "tell", "respawn", "publish"}]
        /\ creating \in [Actors -> {"no", "asking", "retry", "returned"}]
    OBVIOUS
  <2>5. exited \in [Actors -> SUBSET Nat] /\ \A a \in Actors : exited[a] \subseteq Gens(a) /\ actor[a].gen \in Gens(a)
    BY <1>1
  <2>. HIDE DEF Init, ActorInit, DeathInit
  <2>. QED BY <2>1, <2>2, <2>3, <2>4, <2>5 DEF ActorTypeOK
<1>3. ActorRecords
  BY DEF ActorRecords, RecordFits, Early, Holders
<1>4. ActorRoutes
  <2>1. /\ \A a \in Actors : client[a] = NoRoute /\ reply[a] = NoRoute /\ actor[a] = NoRecord
        /\ installs = {} /\ \A a \in Actors : exited[a] = {} /\ alock[a] = "free"
    OBVIOUS
  <2>2. ASSUME NEW a \in Actors PROVE Knows(a)
    BY <2>1 DEF Knows
  <2>3. ASSUME NEW a \in Actors PROVE RouteFits(a, NoRoute, NoRecord)
    BY <1>1 DEF RouteFits, NoRoute, Early
  <2>. QED BY <2>1, <2>2, <2>3 DEF ActorRoutes
<1>8. Reports
  <2>1. <<>> \in Seq(Actors \X Nat)
    OBVIOUS
  <2>. QED BY <2>1 DEF Reports, Handled
<1>5. ActorDeaths
  BY DEF ActorDeaths, Going
<1>6. Mailboxes
  <2>1. sequence \in [Actors -> Nat] /\ PerGeneration(records) /\ PerGeneration(ready) /\ PerGeneration(ran)
    BY DEF PerGeneration
  <2>2. \A a \in Actors : \A g \in Gens(a) : records[a][g] = {} /\ ready[a][g] = <<>> /\ ran[a][g] = <<>>
    OBVIOUS
  <2>3. <<>> \in Seq(Calls) /\ DOMAIN <<>> = 1..0
    OBVIOUS
  <2>. HIDE DEF Init, ActorInit, DeathInit
  <2>4. \A S : Numbered(<<>>, S)
    BY <2>3 DEF Numbered
  <2>. QED BY <2>1, <2>2, <2>4 DEF Mailboxes
<1>7. CallRecords
  BY DEF CallRecords
<1>. QED BY <1>2, <1>3, <1>4, <1>5, <1>6, <1>7, <1>8 DEF ActorInv

\* Every step of the control plane keeps the Actors' invariant.
LEMMA ActorInvKept ==
    ASSUME DeathInv, ActorInv, [Next]_vars
    PROVE  ActorInv'
<1>0. handler \in [Nodes -> {"idle", "groups", "actors"}]
  BY DEF DeathInv, DeathTypeOK
<1>1. CASE ActorNext
  BY <1>1, ActorNextSound
<1>2. CASE Exits
  BY <1>2, OthersKeepActors DEF Exits, ExitStep, NodeExit, WorkerExit, driverVars, actorVars, workerVars
<1>3. CASE Membership
  <2>1. UNCHANGED <<use, up, recorded, actorVars>>
    BY <1>3 DEF Membership, FenceStep, ReportWorkerDeath, Seal, Pin, Unpin, FenceFirst, Sweep, InstallSnapshot, Certify,
                PublishView, EndTx, Observe, ReportNodeDeath, BeginTx, Poll, processVars, driverVars, fenceRest, txRest
  <2>2. handler' = handler \/ \E n \in Nodes : handler[n] = "idle" /\ handler' = [handler EXCEPT ![n] = "groups"]
    BY <1>3 DEF Membership, FenceStep, ReportWorkerDeath, Seal, Pin, Unpin, FenceFirst, Sweep, InstallSnapshot, Certify,
                PublishView, EndTx, Observe, ReportNodeDeath, BeginTx, Poll, fenceRest, txRest
  <2>. QED BY <1>0, <2>1, <2>2, OthersKeepActors DEF actorVars, workerVars
<1>4. ASSUME NEW n \in Nodes, OwnerHandles(n) PROVE ActorInv'
  BY <1>4, OthersKeepActors DEF OwnerHandles, HandleDeath, txRest, processVars, actorVars, workerVars
<1>5. CASE GroupNext /\ UNCHANGED actorVars
  <2>1. CASE UNCHANGED deathVars
    BY <1>5, <2>1, OthersKeepActors DEF deathVars, processVars, driverVars, actorVars, workerVars
  <2>2. CASE \E n \in Nodes : GroupDeath(n)
    <3>1. PICK n \in Nodes : GroupDeath(n)
      BY <2>2
    <3>2. UNCHANGED <<use, up, recorded>> /\ handler' \in {handler, [handler EXCEPT ![n] = "actors"]}
      BY <3>1, GroupDeathMoves DEF processVars, driverVars
    <3>. QED BY <1>0, <1>5, <3>2, OthersKeepActors DEF actorVars, workerVars
  <2>. QED BY <1>5, <2>1, <2>2, GroupStepsAlone
<1>6. CASE UNCHANGED vars
  BY <1>6, OthersKeepActors DEF vars, deathVars, processVars, driverVars, actorVars, workerVars
<1>. QED BY <1>1, <1>2, <1>3, <1>4, <1>5, <1>6 DEF Next

\* The Actors' invariant: what the record of the GCS, the route of the owner, the death
\* on its way through, the mailbox and the calls rely on of one another (control.py,
\* actor_client.py, actor_state.py).
THEOREM ActorsInvariant == Spec => []ActorInv
<1>1. Init => ActorInv
  BY ActorInitSound
<1>2. DeathInv /\ ActorInv /\ [Next]_vars => ActorInv'
  BY ActorInvKept
<1>. QED BY <1>1, <1>2, MembershipInvariant, PTL DEF Spec

\* An epoch tells the route: no two that fit one record have the same.
LEMMA EpochTells ==
    ASSUME NEW a \in Actors, NEW r \in RecordType, NEW s \in Routes, NEW t \in Routes,
           RouteFits(a, s, r), RouteFits(a, t, r), s.route = t.route, s.route # 0
    PROVE  s = t
<1>1. s.route \in Nat /\ t.route \in Nat /\ s.gen \in Nat /\ t.gen \in Nat
  BY DEF Routes
<1>2. s.state \notin Early /\ t.state \notin Early
  BY DEF RouteFits
<1>3. s.state = t.state /\ s.gen = t.gen
  <2>1. CASE s.route = r.route
    <3>1. s.state = r.state /\ s.gen = r.gen /\ t.state = r.state /\ t.gen = r.gen
      BY <2>1 DEF RouteFits
    <3>. QED BY <3>1
  <2>2. CASE s.route # r.route
    <3>1. s.state # "DEAD" /\ t.state # "DEAD"
      BY <2>2 DEF RouteFits
    <3>2. s.state \in {"ALIVE", "RESTARTING"} /\ t.state \in {"ALIVE", "RESTARTING"}
      BY <1>2, <3>1 DEF Routes, States, Early
    <3>3. /\ s.route = IF s.state = "ALIVE" THEN 2 * s.gen + 1 ELSE 2 * s.gen
          /\ t.route = IF t.state = "ALIVE" THEN 2 * t.gen + 1 ELSE 2 * t.gen
      BY <3>2 DEF RouteFits
    <3>4. s.state = t.state
      <4>1. \A g, h \in Nat : 2 * g + 1 # 2 * h
        OBVIOUS
      <4>. QED BY <1>1, <3>2, <3>3, <4>1
    <3>5. s.gen = t.gen
      <4>1. \A g, h \in Nat : 2 * g + 1 = 2 * h + 1 \/ 2 * g = 2 * h => g = h
        OBVIOUS
      <4>. QED BY <1>1, <3>3, <3>4, <4>1
    <3>. QED BY <3>4, <3>5
  <2>. QED BY <2>1, <2>2
<1>. QED BY <1>3 DEF Routes

\* Whatever was lost, and in whichever order the owner is told: what it has or may yet
\* receive is no newer than the record, and one route epoch never stands for two routes;
\* the owner knows of an exit before the next generation's Worker is reserved, and of the
\* outcome of an exit or of a Node's death when it is no longer owed to it; and no Actor is
\* routed to a Node the death of which the Driver was told is through (control.py
\* fail_restart, _report_worker_exit_locked, fail_node; core.py create_actor,
\* _actor_call_rpc; actor_client.py install).
THEOREM RoutesDoAgree == Spec => []RoutesAgree
<1>1. DeathInv /\ ActorInv => RoutesAgree
  <2>. SUFFICES ASSUME DeathInv, ActorInv PROVE RoutesAgree
    OBVIOUS
  <2>1. 0 \notin recorded
    <3>1. use.nodes \subseteq Nodes
      BY NodeDeathsAssumption DEF DeathInv, Registry
    <3>. QED BY <3>1, ActorsAssumption DEF DeathInv, DeathTypeOK, Dead
  <2>2. ASSUME NEW a \in Actors
        PROVE  /\ actor[a].state \in Going => actor[a].target \notin recorded
               /\ actor[a].node \notin recorded
    <3>1. RecordFits(actor[a], alock[a])
      BY DEF ActorInv, ActorRecords
    <3>2. actor[a].state \in Going => actor[a].target \notin recorded
      BY DEF ActorInv, ActorDeaths
    <3>. QED BY <2>1, <3>1, <3>2 DEF RecordFits, Going
  <2>3. DeathReachesActors
    BY <2>2 DEF DeathReachesActors, Going
  <2>4. ASSUME NEW a \in Actors
        PROVE  /\ \A s \in Given(a) \cup {Snapshot(a)} : s \in Routes /\ RouteFits(a, s, actor[a])
               /\ \A s \in Given(a) : s.route <= actor[a].route
               /\ \A s, t \in Given(a) \cup {Snapshot(a)} : s.route = t.route => s = t
    <3>1. ASSUME NEW s \in Given(a) \cup {Snapshot(a)} PROVE s \in Routes /\ RouteFits(a, s, actor[a])
      <4>1. Snapshot(a) \in Routes /\ RouteFits(a, Snapshot(a), actor[a])
        BY OnRecordFits
      <4>2. /\ client[a] \in Routes /\ RouteFits(a, client[a], actor[a])
            /\ reply[a] \in Routes /\ RouteFits(a, reply[a], actor[a])
        BY DEF ActorInv, ActorTypeOK, ActorRoutes
      <4>3. ASSUME NEW m \in installs, m[1] = a PROVE m[2] \in Routes /\ RouteFits(a, m[2], actor[a])
        BY <4>3 DEF ActorInv, ActorTypeOK, ActorRoutes
      <4>. QED BY <4>1, <4>2, <4>3 DEF Given
    <3>2. \A s \in Given(a) : s.route <= actor[a].route
      BY <3>1 DEF RouteFits
    <3>3. ASSUME NEW s \in Given(a) \cup {Snapshot(a)}, NEW t \in Given(a) \cup {Snapshot(a)}, s.route = t.route
          PROVE  s = t
      <4>1. CASE s.route # 0
        <5>1. actor[a] \in RecordType
          BY OnRecordFits
        <5>. HIDE DEF Given, Snapshot
        <5>. QED BY <3>1, <3>3, <4>1, <5>1, EpochTells
      <4>2. CASE s.route = 0
        <5>1. s = Snapshot(a) /\ t = Snapshot(a)
          BY <3>3, <4>2 DEF Given
        <5>. QED BY <5>1
      <4>. QED BY <4>1, <4>2
    <3>. QED BY <3>1, <3>2, <3>3
  <2>5. ASSUME NEW a \in Actors
        PROVE  /\ alock[a] = "respawn" => OwnerKnows(a)
               /\ a \notin pubs /\ ~Owed(a) /\ exited[a] # {} => OwnerKnows(a)
               /\ a \notin pubs /\ actor[a].state = "DEAD" /\ actor[a].next = 0 /\ actor[a].target # 0 => OwnerKnows(a)
    BY DEF ActorInv, ActorRoutes, Knows
  <2>. HIDE DEF Given, Owed, OwnerKnows, Snapshot
  <2>. QED BY <2>3, <2>4, <2>5 DEF RoutesAgree, ActorInv
<1>. QED BY <1>1, ActorsInvariant, MembershipInvariant, PTL

\* Each generation runs every call at most once, in the order in which its owner made
\* them, and a call has at most one outcome (actor_state.py ActorMailbox,
\* actor_client.py can_publish).
THEOREM CallsDoRunOnceInOrder == Spec => []CallsOnceInOrder
<1>1. ActorInv => CallsOnceInOrder
  <2>. SUFFICES ASSUME ActorInv PROVE CallsOnceInOrder
    OBVIOUS
  <2>1. ASSUME NEW a \in Actors, NEW g \in Gens(a), NEW i \in DOMAIN ran[a][g], NEW j \in DOMAIN ran[a][g], i < j
        PROVE  call[ran[a][g][i]].seq < call[ran[a][g][j]].seq
    <3>1. ran[a][g] \in Seq(Calls) /\ call[ran[a][g][i]].seq = i - 1 /\ call[ran[a][g][j]].seq = j - 1
      BY DEF ActorInv, Mailboxes, Numbered
    <3>2. i \in Int /\ j \in Int
      BY <3>1
    <3>. QED BY <2>1, <3>1, <3>2
  <2>2. ASSUME NEW c \in Calls PROVE Cardinality(outcome[c]) <= 1
    <3>1. outcome[c] \in {{}, {"value"}, {"died"}, {"unavailable"}}
      BY DEF ActorInv, CallRecords
    <3>2. Cardinality({}) = 0
      BY FS_EmptySet
    <3>3. /\ Cardinality({"value"}) = 1
          /\ Cardinality({"died"}) = 1
          /\ Cardinality({"unavailable"}) = 1
      BY FS_Singleton
    <3>4. Cardinality(outcome[c]) \in {0, 1}
      BY <3>1, <3>2, <3>3
    <3>. QED BY <3>4
  <2>. QED BY <2>1, <2>2 DEF CallsOnceInOrder
<1>. QED BY <1>1, ActorsInvariant, PTL
=============================================================================

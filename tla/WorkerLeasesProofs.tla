------------------------- MODULE WorkerLeasesProofs -------------------------
(***************************************************************************)
(* Theorems about WorkerLeases, for every set of leases, Workers, slots,   *)
(* resources and requests.                                                 *)
(*                                                                         *)
(* The invariant has two parts.  Custody says where each live lease is and *)
(* what it is charged for: LedgerSound, and what the blocking episode of a *)
(* lease says about its allocation.  Endings relates the end of an         *)
(* execution to the journal of its output.                                 *)
(***************************************************************************)
EXTENDS WorkerLeases, FiniteSums, WellFoundedInduction

\* A blocking episode is one of a running execution, and a CPU is given up
\* exactly while it is open.
Episodes ==
    \A l \in Leases :
        /\ record[l] \in {"NONE", "GRANTED"} => episode[l] = NoEpisode
        /\ episode[l].open => episode[l].sequence >= 0
        /\ episode[l].yielded <=> episode[l].open /\ Request[l][CPU] > 0

CustodyTypes ==
    /\ record  \in [Leases -> {"NONE"} \cup Live \cup Terminal]
    /\ grantee \in [Leases -> Workers \cup {None}]
    /\ slot    \in [Slots -> [worker : Workers, process : {"running", "exited", "vacant"},
                              active : Leases \cup {None}]]
    /\ episode \in [Leases -> [sequence : -1 .. MaxSequence, open : BOOLEAN, yielded : BOOLEAN]]
    /\ Ledger!TypeOK

Custody ==
    /\ CustodyTypes
    /\ LeasesOnWorkers
    /\ LedgerMatchesLeases
    /\ ResourcesConserved
    /\ DebtOnlyFromResumed
    /\ Episodes

\* An output is bound to an execution that was started, its publication is
\* completed together with the lease, and a rollback excludes the success.
Endings ==
    \A l \in Leases :
        /\ Bound(l) => record[l] \notin {"NONE", "GRANTED"}
        /\ completion[l] # None => record[l] = "COMPLETED"
        /\ journal[l] = "COMPLETED" => completion[l] = "SUCCEEDED"
        /\ completion[l] = "SUCCEEDED" => rollback[l] = None
        /\ journal[l] \in {"UNBOUND", "ACTIVE", "READY"} => rollback[l] = None

LeaseInv == TypeOK /\ Custody /\ Endings

-----------------------------------------------------------------------------
\* The least of a non-empty set of naturals is one of them.
LEMMA MinIsMember == ASSUME NEW S \in SUBSET Nat, S # {} PROVE Min(S) \in S
<1>1. PICK x \in S : \A y \in S : ~ (<<y, x>> \in OpToRel(<, Nat))
  BY NatLessThanWellFounded, WFMin, Zenon
<1>2. \A y \in S : x <= y
  <2>. TAKE y \in S
  <2>1. <<y, x>> \in Nat \X Nat
    OBVIOUS
  <2>2. ~(y < x)
    BY <1>1, <2>1 DEF OpToRel
  <2>. QED BY <2>2
<1>. QED BY <1>2 DEF Min

-----------------------------------------------------------------------------
(* The ledger.                                                             *)

\* What a token is charged for is no less than nothing and no more than it asked.
LEMMA HeldIsNat ==
    ASSUME LeasesAssumption, Ledger!TypeOK, NEW l \in Leases, NEW n \in Names
    PROVE  Ledger!Held(l, n) \in Nat
BY DEF LeasesAssumption, Ledger!TypeOK, Ledger!AllocationStates, Ledger!Held

\* The sum the ledger adds up is the one the lemmas are about.
LEMMA LedgerSum ==
    ASSUME NEW f, NEW S
    PROVE  Ledger!SumFunctionOnSet(f, S) = SumFunctionOnSet(f, S)
BY DEF Ledger!SumFunctionOnSet, Ledger!FoldFunctionOnSet, Ledger!MapThenFoldSet,
       SumFunctionOnSet, FoldFunctionOnSet, MapThenFoldSet

\* What l comes to hold is taken from what is left, what it ceases to hold is
\* returned, and nothing but the CPU is overdrawn.
Settled(l) ==
    /\ \A n \in Names :
          /\ available'[n] = available[n] + (Ledger!Held(l, n) - Ledger!Held(l, n)')
          /\ n # CPU => available'[n] >= 0
    /\ \A k \in Leases \ {l} : allocation'[k] = allocation[k]

\* What one token comes to hold, or ceases to hold, is taken from or returned
\* to what is left: nothing is lost, and only the CPU can be overdrawn.
LEMMA LedgerStep ==
    ASSUME LeasesAssumption, Ledger!TypeOK, ResourcesConserved, NEW l \in Leases,
           Ledger!TypeOK', Settled(l)
    PROVE  ResourcesConserved'
<1>. SUFFICES ASSUME NEW n \in Names
              PROVE  /\ available'[n] + SumFunctionOnSet(Ledger!Charges(n)', Leases) = Total[n]
                     /\ available'[n] <= Total[n]
  BY LedgerSum DEF Settled, ResourcesConserved, Ledger!Conserved, Ledger!AssertionsHold
<1>. DEFINE f == Ledger!Charges(n)
            g == Ledger!Charges(n)'
<1>1. /\ \A k \in Leases : f[k] \in Int
      /\ f[l] = Ledger!Held(l, n)
  BY HeldIsNat DEF Ledger!Charges
<1>2. /\ \A k \in Leases : g[k] \in Nat
      /\ g[l] = Ledger!Held(l, n)'
  <2>1. \A k \in Leases : Ledger!Held(k, n)' \in Nat
    BY DEF LeasesAssumption, Ledger!TypeOK, Ledger!AllocationStates, Ledger!Held
  <2>. QED BY <2>1 DEF Ledger!Charges
<1>3. \A k \in Leases \ {l} : g[k] = f[k]
  BY DEF Settled, Ledger!Charges, Ledger!Held
<1>4. IsFiniteSet(Leases)
  BY DEF LeasesAssumption
<1>5. available[n] + SumFunctionOnSet(f, Leases) = Total[n]
  BY LedgerSum DEF ResourcesConserved, Ledger!Conserved
<1>6. available[n] \in Int /\ available'[n] \in Int /\ Total[n] \in Int
  BY DEF Ledger!TypeOK, LeasesAssumption
<1>7. SumFunctionOnSet(f, Leases) \in Int /\ SumFunctionOnSet(g, Leases) \in Nat
  <2>. HIDE DEF f, g
  <2>. QED BY <1>1, <1>2, <1>4, SumIsInt, SumIsNat
<1>8. SumFunctionOnSet(g, Leases) = SumFunctionOnSet(f, Leases) + (g[l] - f[l])
  <2>1. g[l] \in Int
    BY <1>2
  <2>. HIDE DEF f, g
  <2>. QED BY <1>1, <1>3, <1>4, <2>1, SumOfOneChange
<1>9. available'[n] = available[n] + (f[l] - g[l])
  BY <1>1, <1>2 DEF Settled
<1>10. f[l] \in Int /\ g[l] \in Int
  BY <1>1, <1>2
<1>. HIDE DEF f, g
<1>11. available'[n] + SumFunctionOnSet(g, Leases) = Total[n]
  BY <1>5, <1>6, <1>7, <1>8, <1>9, <1>10
<1>12. available'[n] <= Total[n]
  BY <1>6, <1>7, <1>11
<1>. QED BY <1>11, <1>12 DEF g

\* The four operations of the ledger.
LEMMA LedgerKept ==
    ASSUME LeasesAssumption, Ledger!TypeOK, ResourcesConserved, NEW l \in Leases,
           \/ Ledger!Allocate(l)
           \/ Ledger!Release(l)
           \/ Ledger!YieldCpu(l)
           \/ Ledger!ReacquireCpu(l)
    PROVE  Ledger!TypeOK' /\ ResourcesConserved'
<1>. USE DEF Ledger!AllocationStates
<1>1. /\ available \in [Names -> Int] /\ allocation \in [Leases -> Ledger!AllocationStates]
      /\ Request[l] \in [Names -> Nat] /\ CPU \in Names
      /\ \A n \in Names : n # CPU => available[n] >= 0
  BY DEF LeasesAssumption, Ledger!TypeOK, ResourcesConserved, Ledger!AssertionsHold
<1>2. \A n \in Names : Ledger!Held(l, n) \in Nat
  BY HeldIsNat
<1>3. CASE Ledger!Allocate(l)
  <2>1. Ledger!TypeOK'
    BY <1>1, <1>3 DEF Ledger!TypeOK, Ledger!Allocate
  <2>2. \A n \in Names : Ledger!Held(l, n) = 0 /\ Ledger!Held(l, n)' = Request[l][n]
    BY <1>1, <1>3 DEF Ledger!Allocate, Ledger!Held
  <2>3. \A n \in Names : available'[n] = available[n] - Request[l][n]
                          /\ (Request[l][n] > 0 => Request[l][n] <= available[n])
    BY <1>3 DEF Ledger!Allocate, Ledger!CanAllocate
  <2>4. \A k \in Leases \ {l} : allocation'[k] = allocation[k]
    BY <1>1, <1>3 DEF Ledger!Allocate
  <2>5. Settled(l)
    BY <1>1, <2>2, <2>3, <2>4 DEF Settled
  <2>. QED BY <2>1, <2>5, LedgerStep
<1>4. CASE Ledger!Release(l)
  <2>1. Ledger!TypeOK'
    BY <1>1, <1>2, <1>4 DEF Ledger!TypeOK, Ledger!Release
  <2>2. \A n \in Names : Ledger!Held(l, n)' = 0
    BY <1>1, <1>4 DEF Ledger!Release, Ledger!Held
  <2>3. \A n \in Names : available'[n] = available[n] + Ledger!Held(l, n)
    BY <1>4 DEF Ledger!Release
  <2>4. \A k \in Leases \ {l} : allocation'[k] = allocation[k]
    BY <1>1, <1>4 DEF Ledger!Release
  <2>5. Settled(l)
    BY <1>1, <1>2, <2>2, <2>3, <2>4 DEF Settled
  <2>. QED BY <2>1, <2>5, LedgerStep
<1>5. CASE Ledger!YieldCpu(l)
  <2>1. Ledger!TypeOK'
    BY <1>1, <1>5 DEF Ledger!TypeOK, Ledger!YieldCpu
  <2>2. \A n \in Names : /\ Ledger!Held(l, n) = Request[l][n]
                          /\ Ledger!Held(l, n)' = (IF n = CPU THEN 0 ELSE Request[l][n])
    BY <1>1, <1>5 DEF Ledger!YieldCpu, Ledger!Held
  <2>3. \A n \in Names : available'[n] = IF n = CPU THEN available[n] + Request[l][n] ELSE available[n]
    BY <1>1, <1>5 DEF Ledger!YieldCpu
  <2>4. \A k \in Leases \ {l} : allocation'[k] = allocation[k]
    BY <1>1, <1>5 DEF Ledger!YieldCpu
  <2>5. Settled(l)
    BY <1>1, <2>2, <2>3, <2>4 DEF Settled
  <2>. QED BY <2>1, <2>5, LedgerStep
<1>6. CASE Ledger!ReacquireCpu(l)
  <2>1. Ledger!TypeOK'
    BY <1>1, <1>6 DEF Ledger!TypeOK, Ledger!ReacquireCpu
  <2>2. \A n \in Names : /\ Ledger!Held(l, n) = (IF n = CPU THEN 0 ELSE Request[l][n])
                          /\ Ledger!Held(l, n)' = Request[l][n]
    BY <1>1, <1>6 DEF Ledger!ReacquireCpu, Ledger!Held
  <2>3. \A n \in Names : available'[n] = IF n = CPU THEN available[n] - Request[l][n] ELSE available[n]
    BY <1>1, <1>6 DEF Ledger!ReacquireCpu
  <2>4. \A k \in Leases \ {l} : allocation'[k] = allocation[k]
    BY <1>1, <1>6 DEF Ledger!ReacquireCpu
  <2>5. Settled(l)
    BY <1>1, <2>2, <2>3, <2>4 DEF Settled
  <2>. QED BY <2>1, <2>5, LedgerStep
<1>. QED BY <1>3, <1>4, <1>5, <1>6

-----------------------------------------------------------------------------
(* Custody, step by step.                                                  *)

SlotType == [worker : Workers, process : {"running", "exited", "vacant"}, active : Leases \cup {None}]

EpisodeType == [sequence : -1 .. MaxSequence, open : BOOLEAN, yielded : BOOLEAN]

\* Fewer executions that never blocked ask for no more.
LEMMA DebtKept ==
    ASSUME LeasesAssumption, DebtOnlyFromResumed, NeverBlocked' \subseteq NeverBlocked
    PROVE  DebtOnlyFromResumed'
<1>. DEFINE ask == [l \in Leases |-> Request[l][CPU]]
<1>1. IsFiniteSet(NeverBlocked) /\ NeverBlocked \subseteq Leases
  BY FS_Subset DEF LeasesAssumption, NeverBlocked
<1>2. \A l \in Leases : ask[l] \in Nat
  BY DEF LeasesAssumption
<1>3. \A l \in NeverBlocked' : ask[l] \in Int /\ ask[l] <= ask[l]
  BY <1>1, <1>2
<1>4. \A l \in NeverBlocked : ask[l] \in Nat
  BY <1>1, <1>2
<1>5. IsFiniteSet(NeverBlocked')
  BY <1>1, FS_Subset
<1>6. SumFunctionOnSet(ask, NeverBlocked') <= SumFunctionOnSet(ask, NeverBlocked)
  <2>. HIDE DEF ask
  <2>. QED BY <1>1, <1>3, <1>4, SumIsMonotone
<1>7. SumFunctionOnSet(ask, NeverBlocked) <= Total[CPU]
  BY DEF DebtOnlyFromResumed
<1>8. SumFunctionOnSet(ask, NeverBlocked) \in Int /\ SumFunctionOnSet(ask, NeverBlocked') \in Int
  <2>1. \A l \in NeverBlocked : ask[l] \in Int
    BY <1>4
  <2>. HIDE DEF ask
  <2>. QED BY <1>1, <1>3, <1>5, <2>1, SumIsInt
<1>9. Total[CPU] \in Int
  BY DEF LeasesAssumption
<1>10. SumFunctionOnSet(ask, NeverBlocked') <= Total[CPU]
  <2>. HIDE DEF ask
  <2>. QED BY <1>6, <1>7, <1>8, <1>9
<1>. QED BY <1>10 DEF DebtOnlyFromResumed

\* Closing the episode of a lease.
LEMMA EpisodeClosed ==
    ASSUME NEW l \in Leases, episode \in [Leases -> EpisodeType],
           episode' = [episode EXCEPT ![l].open = FALSE, ![l].yielded = FALSE]
    PROVE  /\ episode'[l] = [sequence |-> episode[l].sequence, open |-> FALSE, yielded |-> FALSE]
           /\ \A k \in Leases \ {l} : episode'[k] = episode[k]
           /\ episode' \in [Leases -> EpisodeType]
<1>1. episode'[l] = [episode[l] EXCEPT !.open = FALSE, !.yielded = FALSE]
  OBVIOUS
<1>2. \A k \in Leases \ {l} : episode'[k] = episode[k]
  OBVIOUS
<1>3. episode[l] \in EpisodeType
  OBVIOUS
<1>4. episode'[l] = [sequence |-> episode[l].sequence, open |-> FALSE, yielded |-> FALSE]
  BY <1>1, <1>3 DEF EpisodeType
<1>5. episode'[l] \in EpisodeType
  BY <1>3, <1>4 DEF EpisodeType
<1>6. DOMAIN episode' = Leases /\ episode' = [k \in Leases |-> episode'[k]]
  OBVIOUS
<1>7. \A k \in Leases : episode'[k] \in EpisodeType
  BY <1>2, <1>5
<1>. QED BY <1>2, <1>4, <1>6, <1>7

\* What releasing the record of l does to the pool: no slot is bound to l any
\* more, and a slot becomes vacant only when it was bound to l.
Freed(l) ==
    /\ slot' \in [Slots -> SlotType]
    /\ \A s \in Slots :
          /\ slot'[s].worker = slot[s].worker
          /\ slot'[s].active = IF slot[s].active = l THEN None ELSE slot[s].active
          /\ slot'[s].process = "vacant" => slot[s].process = "vacant" \/ slot[s].active = l

\* A live lease is released: its Worker, its resources and its episode together.
LEMMA ReleaseKeepsCustody ==
    ASSUME LeasesAssumption, Custody, NEW l \in Leases, record[l] \in Live, NEW state \in Terminal,
           Freed(l), Ledger!Release(l), UNCHANGED grantee,
           record' = [record EXCEPT ![l] = state],
           episode' = [episode EXCEPT ![l].open = FALSE, ![l].yielded = FALSE]
    PROVE  Custody'
<1>. USE DEF Live, Terminal
<1>1. /\ record \in [Leases -> {"NONE"} \cup Live \cup Terminal]
      /\ episode \in [Leases -> EpisodeType] /\ grantee \in [Leases -> Workers \cup {None}]
      /\ slot \in [Slots -> SlotType] /\ None \notin Leases /\ Ledger!TypeOK
  BY DEF Custody, CustodyTypes, LeasesAssumption, EpisodeType, SlotType
<1>2. Ledger!TypeOK' /\ ResourcesConserved'
  BY LedgerKept DEF Custody, CustodyTypes
<1>3. /\ record'[l] = state /\ \A k \in Leases \ {l} : record'[k] = record[k]
      /\ record' \in [Leases -> {"NONE"} \cup Live \cup Terminal]
  BY <1>1
<1>4. /\ episode'[l] = [sequence |-> episode[l].sequence, open |-> FALSE, yielded |-> FALSE]
      /\ \A k \in Leases \ {l} : episode'[k] = episode[k]
      /\ episode' \in [Leases -> EpisodeType]
  BY <1>1, EpisodeClosed
<1>5. /\ allocation'[l] = "RELEASED"
      /\ \A k \in Leases \ {l} : allocation'[k] = allocation[k]
  BY <1>1 DEF Ledger!Release, Ledger!TypeOK
<1>6. CustodyTypes'
  BY <1>1, <1>2, <1>3, <1>4 DEF CustodyTypes, Freed, EpisodeType, SlotType
<1>7. LeasesOnWorkers'
  <2>1. ASSUME NEW k \in Leases, record'[k] \in Live
        PROVE  \E s \in Slots : slot'[s].worker = grantee'[k] /\ slot'[s].active = k
                                /\ slot'[s].process # "vacant"
    <3>1. k # l /\ record[k] \in Live
      BY <1>3, <2>1
    <3>2. PICK s \in Slots : slot[s].worker = grantee[k] /\ slot[s].active = k /\ slot[s].process # "vacant"
      BY <3>1 DEF Custody, LeasesOnWorkers
    <3>. QED BY <3>1, <3>2 DEF Freed
  <2>2. ASSUME NEW s \in Slots, slot'[s].active # None
        PROVE  record'[slot'[s].active] \in Live /\ grantee'[slot'[s].active] = slot'[s].worker
    <3>1. slot[s].active # l /\ slot'[s].active = slot[s].active /\ slot'[s].worker = slot[s].worker
      BY <2>2 DEF Freed
    <3>2. record[slot[s].active] \in Live /\ grantee[slot[s].active] = slot[s].worker
      BY <2>2, <3>1 DEF Custody, LeasesOnWorkers
    <3>3. slot[s].active \in Leases
      BY <1>1, <2>2, <3>1 DEF SlotType
    <3>. QED BY <1>3, <3>1, <3>2, <3>3
  <2>. QED BY <2>1, <2>2 DEF LeasesOnWorkers
<1>8. LedgerMatchesLeases'
  BY <1>1, <1>3, <1>4, <1>5 DEF Custody, LedgerMatchesLeases
<1>9. DebtOnlyFromResumed'
  <2>1. NeverBlocked' \subseteq NeverBlocked
    BY <1>1, <1>3, <1>4 DEF NeverBlocked
  <2>. QED BY <2>1, DebtKept DEF Custody
<1>10. Episodes'
  BY <1>1, <1>3, <1>4 DEF Custody, Episodes
<1>. QED BY <1>2, <1>6, <1>7, <1>8, <1>9, <1>10 DEF Custody

\* A step that leaves the leases, the pool and the ledger alone.
LEMMA CustodyFrame ==
    ASSUME Custody, UNCHANGED <<record, grantee, slot, episode, available, allocation>>
    PROVE  Custody'
<1>1. CustodyTypes'
  BY DEF Custody, CustodyTypes, Ledger!TypeOK
<1>2. LeasesOnWorkers'
  BY DEF Custody, LeasesOnWorkers
<1>3. LedgerMatchesLeases'
  BY DEF Custody, LedgerMatchesLeases
<1>4. ResourcesConserved'
  BY DEF Custody, ResourcesConserved, Ledger!Conserved, Ledger!AssertionsHold, Ledger!Charges, Ledger!Held
<1>5. DebtOnlyFromResumed'
  BY DEF Custody, DebtOnlyFromResumed, NeverBlocked
<1>6. Episodes'
  BY DEF Custody, Episodes
<1>. QED BY <1>1, <1>2, <1>3, <1>4, <1>5, <1>6 DEF Custody

\* A step that leaves the ledger alone conserves the resources.
LEMMA LedgerFrame ==
    ASSUME Ledger!TypeOK, ResourcesConserved, UNCHANGED <<available, allocation>>
    PROVE  Ledger!TypeOK' /\ ResourcesConserved'
BY DEF Ledger!TypeOK, ResourcesConserved, Ledger!Conserved, Ledger!AssertionsHold, Ledger!Charges, Ledger!Held

\* A live lease holds its allocation.
LEMMA LiveIsAllocated ==
    ASSUME LedgerMatchesLeases, NEW l \in Leases, record[l] \in Live
    PROVE  allocation[l] \in {"ACTIVE", "CPU_YIELDED"}
BY DEF LedgerMatchesLeases, Live, Terminal

\* _release_record_locked on the pool as it stands.
LEMMA RecordReleased ==
    ASSUME LeasesAssumption, Custody, NEW l \in Leases, record[l] \in Live, NEW state \in Terminal,
           ReleaseRecord(l, state, slot), UNCHANGED grantee
    PROVE  Custody'
<1>1. allocation[l] \in {"ACTIVE", "CPU_YIELDED"}
  BY LiveIsAllocated DEF Custody
<1>2. /\ Ledger!Release(l)
      /\ record' = [record EXCEPT ![l] = state]
      /\ episode' = [episode EXCEPT ![l].open = FALSE, ![l].yielded = FALSE]
  BY <1>1 DEF ReleaseRecord
<1>3. slot' = [s \in Slots |-> IF slot[s].worker = grantee[l] /\ slot[s].active = l
                                THEN [slot[s] EXCEPT !.active = None] ELSE slot[s]]
  BY DEF ReleaseRecord
<1>4. slot \in [Slots -> SlotType]
  BY DEF Custody, CustodyTypes, SlotType
<1>5. None \notin Leases
  BY DEF LeasesAssumption
<1>6. \A s \in Slots : slot[s].active = l => slot[s].worker = grantee[l]
  BY <1>5 DEF Custody, LeasesOnWorkers
<1>7. Freed(l)
  <2>1. ASSUME NEW s \in Slots
        PROVE  /\ slot'[s] \in SlotType
               /\ slot'[s].worker = slot[s].worker
               /\ slot'[s].active = IF slot[s].active = l THEN None ELSE slot[s].active
               /\ slot'[s].process = slot[s].process
    <3>1. slot[s] \in SlotType
      BY <1>4 DEF SlotType
    <3>2. CASE slot[s].active = l
      <4>1. slot'[s] = [slot[s] EXCEPT !.active = None]
        BY <1>3, <1>6, <3>2
      <4>. QED BY <3>1, <3>2, <4>1 DEF SlotType
    <3>3. CASE slot[s].active # l
      <4>1. slot'[s] = slot[s]
        BY <1>3, <3>3
      <4>. QED BY <3>1, <3>3, <4>1
    <3>. QED BY <3>2, <3>3
  <2>2. slot' \in [Slots -> SlotType]
    BY <1>3, <2>1
  <2>. QED BY <2>1, <2>2 DEF Freed
<1>. QED BY <1>2, <1>7, ReleaseKeepsCustody

\* _commit_output_lease_locked ends a running execution, or one that has ended.
LEMMA CommitKeepsCustody ==
    ASSUME LeasesAssumption, Custody, NEW l \in Leases, record[l] \in {"RUNNING"} \cup Terminal,
           NEW status, CommitOutputLease(l, status), UNCHANGED grantee
    PROVE  Custody'
<1>1. CASE record[l] = "RUNNING"
  BY <1>1, RecordReleased DEF CommitOutputLease, Live, Terminal
<1>2. CASE record[l] \in Terminal
  <2>. USE DEF Live, Terminal
  <2>1. /\ record' = [record EXCEPT ![l] = "COMPLETED"]
        /\ UNCHANGED <<slot, episode, available, allocation>>
    BY <1>2 DEF CommitOutputLease
  <2>2. record \in [Leases -> {"NONE"} \cup Live \cup Terminal]
    BY DEF Custody, CustodyTypes
  <2>3. /\ record'[l] = "COMPLETED" /\ \A k \in Leases \ {l} : record'[k] = record[k]
        /\ record' \in [Leases -> {"NONE"} \cup Live \cup Terminal]
    BY <2>1, <2>2
  <2>4. Ledger!TypeOK' /\ ResourcesConserved'
    BY <2>1, LedgerFrame DEF Custody, CustodyTypes
  <2>5. CustodyTypes'
    BY <2>1, <2>3, <2>4 DEF Custody, CustodyTypes
  <2>6. LeasesOnWorkers'
    BY <1>2, <2>1, <2>2, <2>3 DEF Custody, CustodyTypes, LeasesOnWorkers
  <2>7. LedgerMatchesLeases'
    BY <1>2, <2>1, <2>3 DEF Custody, LedgerMatchesLeases
  <2>8. NeverBlocked' \subseteq NeverBlocked
    BY <2>1, <2>3 DEF NeverBlocked
  <2>9. Episodes'
    BY <1>2, <2>1, <2>3 DEF Custody, Episodes
  <2>. QED BY <2>4, <2>5, <2>6, <2>7, <2>8, <2>9, DebtKept DEF Custody
<1>. QED BY <1>1, <1>2

\* The first idle Worker is bound to the lease.
LEMMA GrantKeepsCustody ==
    ASSUME LeasesAssumption, Custody, NEW l \in Leases, Grant(l)
    PROVE  Custody'
<1>. USE DEF Live, Terminal
<1>. DEFINE s == Min(IdleSlots)
<1>1. s \in Slots /\ slot[s].process = "running" /\ slot[s].active = None
  <2>1. IdleSlots \in SUBSET Nat /\ IdleSlots # {}
    BY DEF Grant, IdleSlots, LeasesAssumption
  <2>2. s \in IdleSlots
    BY <2>1, MinIsMember
  <2>. QED BY <2>2 DEF IdleSlots
<1>2. /\ slot' = [slot EXCEPT ![s].active = l]
      /\ grantee' = [grantee EXCEPT ![l] = slot[s].worker]
      /\ record' = [record EXCEPT ![l] = "GRANTED"]
      /\ Ledger!Allocate(l)
      /\ UNCHANGED episode
      /\ record[l] = "NONE"
  BY DEF Grant
<1>. HIDE DEF s
<1>3. /\ record \in [Leases -> {"NONE"} \cup Live \cup Terminal]
      /\ episode \in [Leases -> EpisodeType] /\ grantee \in [Leases -> Workers \cup {None}]
      /\ slot \in [Slots -> SlotType] /\ None \notin Leases /\ Ledger!TypeOK
  BY DEF Custody, CustodyTypes, LeasesAssumption, EpisodeType, SlotType
<1>4. Ledger!TypeOK' /\ ResourcesConserved'
  BY <1>2, <1>3, LedgerKept DEF Custody
<1>5. /\ slot'[s] = [worker |-> slot[s].worker, process |-> slot[s].process, active |-> l]
      /\ \A t \in Slots \ {s} : slot'[t] = slot[t]
      /\ slot' \in [Slots -> SlotType]
  BY <1>1, <1>2, <1>3 DEF SlotType
<1>6. /\ record'[l] = "GRANTED" /\ \A k \in Leases \ {l} : record'[k] = record[k]
      /\ record' \in [Leases -> {"NONE"} \cup Live \cup Terminal]
  BY <1>2, <1>3
<1>7. /\ grantee'[l] = slot[s].worker /\ \A k \in Leases \ {l} : grantee'[k] = grantee[k]
      /\ grantee' \in [Leases -> Workers \cup {None}]
  BY <1>1, <1>2, <1>3 DEF SlotType
<1>8. /\ allocation[l] = "UNKNOWN" /\ allocation'[l] = "ACTIVE"
      /\ \A k \in Leases \ {l} : allocation'[k] = allocation[k]
  BY <1>2, <1>3 DEF Ledger!Allocate, Ledger!TypeOK
<1>9. CustodyTypes'
  BY <1>2, <1>3, <1>4, <1>5, <1>6, <1>7 DEF CustodyTypes, EpisodeType, SlotType
<1>10. LeasesOnWorkers'
  <2>1. ASSUME NEW k \in Leases, record'[k] \in Live
        PROVE  \E t \in Slots : slot'[t].worker = grantee'[k] /\ slot'[t].active = k
                                /\ slot'[t].process # "vacant"
    <3>1. CASE k = l
      BY <1>1, <1>5, <1>7, <3>1
    <3>2. CASE k # l
      <4>1. record[k] \in Live
        BY <1>6, <2>1, <3>2
      <4>2. PICK t \in Slots : slot[t].worker = grantee[k] /\ slot[t].active = k /\ slot[t].process # "vacant"
        BY <4>1 DEF Custody, LeasesOnWorkers
      <4>3. t # s
        BY <1>1, <1>3, <4>2
      <4>. QED BY <1>5, <1>7, <3>2, <4>2, <4>3
    <3>. QED BY <3>1, <3>2
  <2>2. ASSUME NEW t \in Slots, slot'[t].active # None
        PROVE  record'[slot'[t].active] \in Live /\ grantee'[slot'[t].active] = slot'[t].worker
    <3>1. CASE t = s
      BY <1>5, <1>6, <1>7, <3>1
    <3>2. CASE t # s
      <4>1. slot'[t] = slot[t] /\ slot[t].active \in Leases
        BY <1>3, <1>5, <2>2, <3>2 DEF SlotType
      <4>2. record[slot[t].active] \in Live /\ grantee[slot[t].active] = slot[t].worker
        BY <2>2, <4>1 DEF Custody, LeasesOnWorkers
      <4>3. slot[t].active # l
        BY <1>2, <4>2
      <4>. QED BY <1>6, <1>7, <4>1, <4>2, <4>3
    <3>. QED BY <3>1, <3>2
  <2>. QED BY <2>1, <2>2 DEF LeasesOnWorkers
<1>11. Episodes'
  BY <1>2, <1>6 DEF Custody, Episodes
<1>12. LedgerMatchesLeases'
  <2>1. episode[l] = NoEpisode
    BY <1>2 DEF Custody, Episodes
  <2>. QED BY <1>2, <1>6, <1>8, <2>1 DEF Custody, LedgerMatchesLeases, NoEpisode
<1>13. DebtOnlyFromResumed'
  <2>. DEFINE ask == [k \in Leases |-> Request[k][CPU]]
              before == NeverBlocked
              after  == NeverBlocked'
              charges == Ledger!Charges(CPU)
  <2>1. after = before \cup {l} /\ l \notin before /\ before \subseteq Leases
    <3>1. episode[l].sequence = -1
      BY <1>2 DEF Custody, Episodes, NoEpisode
    <3>. QED BY <1>2, <1>6, <3>1 DEF NeverBlocked
  <2>2. IsFiniteSet(Leases) /\ IsFiniteSet(before) /\ IsFiniteSet(after)
    BY <2>1, FS_Subset, FS_AddElement DEF LeasesAssumption
  <2>3. \A k \in Leases : ask[k] \in Nat /\ ask[k] \in Int
    BY DEF LeasesAssumption
  <2>4. SumFunctionOnSet(ask, after) = ask[l] + SumFunctionOnSet(ask, before)
    <3>1. ask[l] \in Int /\ \A k \in before : ask[k] \in Int
      BY <2>1, <2>3
    <3>2. SumFunctionOnSet(ask, before \cup {l}) = ask[l] + SumFunctionOnSet(ask, before)
      <4>. HIDE DEF ask, before, after
      <4>. QED BY <2>1, <2>2, <3>1, SumOfAdded
    <3>. QED BY <2>1, <3>2, Zenon
  <2>5. SumFunctionOnSet(ask, before) <= SumFunctionOnSet(charges, Leases)
    <3>1. \A k \in Leases : charges[k] \in Nat
      BY <1>3, HeldIsNat DEF Ledger!Charges, LeasesAssumption
    <3>2. \A k \in before : ask[k] \in Int /\ ask[k] <= charges[k]
      <4>. TAKE k \in before
      <4>1. k \in Leases /\ record[k] \in Live /\ episode[k].sequence = -1
        BY DEF NeverBlocked
      <4>2. ~episode[k].open
        BY <4>1 DEF Custody, Episodes
      <4>3. allocation[k] = "ACTIVE"
        BY <4>1, <4>2 DEF Custody, LedgerMatchesLeases
      <4>4. charges[k] = ask[k]
        BY <4>1, <4>3 DEF Ledger!Charges, Ledger!Held
      <4>. QED BY <2>3, <4>1, <4>4
    <3>. HIDE DEF ask, before, charges
    <3>. QED BY <2>1, <2>2, <3>1, <3>2, SumIsMonotone
  <2>6. available[CPU] + SumFunctionOnSet(charges, Leases) = Total[CPU]
    BY LedgerSum DEF Custody, ResourcesConserved, Ledger!Conserved, LeasesAssumption
  <2>7. /\ SumFunctionOnSet(charges, Leases) \in Int /\ SumFunctionOnSet(ask, before) \in Int
        /\ available[CPU] \in Int /\ Total[CPU] \in Int /\ ask[l] \in Nat
    <3>1. \A k \in Leases : charges[k] \in Int
      BY <1>3, HeldIsNat DEF Ledger!Charges, LeasesAssumption
    <3>2. \A k \in before : ask[k] \in Int
      BY <2>1, <2>3
    <3>3. available[CPU] \in Int /\ Total[CPU] \in Int /\ ask[l] \in Nat
      BY <1>3, <2>3 DEF Ledger!TypeOK, LeasesAssumption
    <3>. HIDE DEF ask, before, charges
    <3>. QED BY <2>2, <3>1, <3>2, <3>3, SumIsInt
  <2>8. SumFunctionOnSet(ask, before) <= Total[CPU]
    BY DEF Custody, DebtOnlyFromResumed
  <2>9. ask[l] > 0 => ask[l] <= available[CPU]
    BY <1>2 DEF Ledger!Allocate, Ledger!CanAllocate, LeasesAssumption
  <2>10. SumFunctionOnSet(ask, after) <= Total[CPU]
    <3>. HIDE DEF ask, before, after, charges
    <3>. QED BY <2>4, <2>5, <2>6, <2>7, <2>8, <2>9
  <2>. QED BY <2>10 DEF DebtOnlyFromResumed
<1>. QED BY <1>4, <1>9, <1>10, <1>11, <1>12, <1>13 DEF Custody

\* A granted lease starts to run, or is given up because its submitter is dead.
LEMMA StartKeepsCustody ==
    ASSUME LeasesAssumption, Custody, NEW l \in Leases, Start(l)
    PROVE  Custody'
<1>. USE DEF Live, Terminal
<1>1. CASE SubmitterDead(l)
  BY <1>1, RecordReleased DEF Start, grantVars
<1>2. CASE ~SubmitterDead(l)
  <2>1. /\ record' = [record EXCEPT ![l] = "RUNNING"] /\ record[l] = "GRANTED"
        /\ UNCHANGED <<grantee, slot, episode, available, allocation>>
    BY <1>2 DEF Start, grantVars
  <2>2. record \in [Leases -> {"NONE"} \cup Live \cup Terminal]
    BY DEF Custody, CustodyTypes
  <2>3. /\ record'[l] = "RUNNING" /\ \A k \in Leases \ {l} : record'[k] = record[k]
        /\ record' \in [Leases -> {"NONE"} \cup Live \cup Terminal]
    BY <2>1, <2>2
  <2>4. Ledger!TypeOK' /\ ResourcesConserved'
    BY <2>1, LedgerFrame DEF Custody, CustodyTypes
  <2>5. CustodyTypes'
    BY <2>1, <2>3, <2>4 DEF Custody, CustodyTypes
  <2>6. LeasesOnWorkers'
    BY <2>1, <2>2, <2>3 DEF Custody, CustodyTypes, LeasesOnWorkers
  <2>7. LedgerMatchesLeases'
    BY <2>1, <2>3 DEF Custody, LedgerMatchesLeases
  <2>8. NeverBlocked' \subseteq NeverBlocked
    BY <2>1, <2>3 DEF NeverBlocked
  <2>9. Episodes'
    BY <2>1, <2>3 DEF Custody, Episodes
  <2>. QED BY <2>4, <2>5, <2>6, <2>7, <2>8, <2>9, DebtKept DEF Custody
<1>. QED BY <1>1, <1>2

\* A change of the blocking episode of a running execution, with the CPU it gives
\* up or takes back.
LEMMA EpisodeKeepsCustody ==
    ASSUME LeasesAssumption, Custody, NEW l \in Leases, record[l] = "RUNNING",
           UNCHANGED <<record, grantee, slot>>,
           episode' \in [Leases -> EpisodeType], \A k \in Leases \ {l} : episode'[k] = episode[k],
           episode'[l].sequence >= 0,
           episode'[l].yielded <=> episode'[l].open /\ Request[l][CPU] > 0,
           Ledger!TypeOK', ResourcesConserved', \A k \in Leases \ {l} : allocation'[k] = allocation[k],
           allocation'[l] = IF episode'[l].open /\ Request[l][CPU] > 0 THEN "CPU_YIELDED" ELSE "ACTIVE"
    PROVE  Custody'
<1>. USE DEF Live, Terminal
<1>1. CustodyTypes'
  BY DEF Custody, CustodyTypes, EpisodeType
<1>2. LeasesOnWorkers'
  BY DEF Custody, LeasesOnWorkers
<1>3. LedgerMatchesLeases'
  BY DEF Custody, LedgerMatchesLeases
<1>4. NeverBlocked' \subseteq NeverBlocked
  BY DEF NeverBlocked
<1>5. Episodes'
  BY DEF Custody, Episodes
<1>. QED BY <1>1, <1>2, <1>3, <1>4, <1>5, DebtKept DEF Custody

\* What is known of a running execution.
LEMMA RunningFacts ==
    ASSUME LeasesAssumption, Custody, NEW l \in Leases, record[l] = "RUNNING"
    PROVE  /\ episode \in [Leases -> EpisodeType] /\ episode[l] \in EpisodeType
           /\ Ledger!TypeOK /\ ResourcesConserved
           /\ Request[l][CPU] \in Nat
           /\ episode[l].open => episode[l].sequence >= 0
           /\ episode[l].yielded <=> episode[l].open /\ Request[l][CPU] > 0
           /\ allocation \in [Leases -> Ledger!AllocationStates]
           /\ allocation[l] = IF episode[l].open /\ Request[l][CPU] > 0 THEN "CPU_YIELDED" ELSE "ACTIVE"
<1>1. /\ episode \in [Leases -> EpisodeType] /\ Ledger!TypeOK /\ ResourcesConserved
      /\ allocation \in [Leases -> Ledger!AllocationStates]
  BY DEF Custody, CustodyTypes, EpisodeType, Ledger!TypeOK
<1>2. Request[l][CPU] \in Nat
  BY DEF LeasesAssumption
<1>3. /\ episode[l].open => episode[l].sequence >= 0
      /\ episode[l].yielded <=> episode[l].open /\ Request[l][CPU] > 0
  BY DEF Custody, Episodes
<1>4. allocation[l] = IF episode[l].open /\ Request[l][CPU] > 0 THEN "CPU_YIELDED" ELSE "ACTIVE"
  BY DEF Custody, LedgerMatchesLeases, Terminal
<1>. QED BY <1>1, <1>2, <1>3, <1>4

\* NotifyWorkerBlocked.
LEMMA BlockedKeepsCustody ==
    ASSUME LeasesAssumption, Custody, NEW l \in Leases, NEW sequence \in 0 .. MaxSequence,
           Blocked(l, sequence)
    PROVE  Custody'
<1>1. record[l] = "RUNNING" /\ ~episode[l].open /\ UNCHANGED <<record, grantee, slot>>
  BY DEF Blocked, grantVars
<1>2. /\ episode \in [Leases -> EpisodeType] /\ Ledger!TypeOK /\ ResourcesConserved
      /\ Request[l][CPU] \in Nat /\ allocation[l] = "ACTIVE"
      /\ allocation \in [Leases -> Ledger!AllocationStates]
  BY <1>1, RunningFacts
<1>3. /\ episode'[l] = [sequence |-> sequence, open |-> TRUE, yielded |-> Request[l][CPU] > 0]
      /\ \A k \in Leases \ {l} : episode'[k] = episode[k]
      /\ episode' \in [Leases -> EpisodeType]
  <2>1. episode' = [episode EXCEPT ![l] = [sequence |-> sequence, open |-> TRUE, yielded |-> Request[l][CPU] > 0]]
    BY <1>2 DEF Blocked
  <2>2. (Request[l][CPU] > 0) \in BOOLEAN
    OBVIOUS
  <2>3. [sequence |-> sequence, open |-> TRUE, yielded |-> Request[l][CPU] > 0] \in EpisodeType
    BY <2>2 DEF EpisodeType, LeasesAssumption
  <2>. QED BY <1>2, <2>1, <2>3
<1>6. /\ episode'[l].sequence >= 0 /\ episode'[l].open
      /\ episode'[l].yielded <=> Request[l][CPU] > 0
  <2>1. episode'[l].sequence >= 0 /\ episode'[l].open
    BY <1>3
  <2>2. episode'[l].yielded <=> Request[l][CPU] > 0
    <3>1. episode'[l] = [sequence |-> sequence, open |-> TRUE, yielded |-> Request[l][CPU] > 0]
      BY <1>3
    <3>2. episode'[l].yielded = (Request[l][CPU] > 0)
      BY <3>1
    <3>. QED BY <3>2, Zenon
  <2>. QED BY <2>1, <2>2
<1>4. CASE Request[l][CPU] > 0
  <2>1. Ledger!YieldCpu(l)
    BY <1>2, <1>4 DEF Blocked
  <2>2. /\ allocation'[l] = "CPU_YIELDED" /\ \A k \in Leases \ {l} : allocation'[k] = allocation[k]
    BY <1>2, <2>1 DEF Ledger!YieldCpu
  <2>3. Ledger!TypeOK' /\ ResourcesConserved'
    BY <1>2, <2>1, LedgerKept
  <2>. QED BY <1>1, <1>3, <1>4, <1>6, <2>2, <2>3, EpisodeKeepsCustody
<1>5. CASE ~(Request[l][CPU] > 0)
  <2>1. UNCHANGED <<available, allocation>>
    BY <1>5 DEF Blocked
  <2>2. Ledger!TypeOK' /\ ResourcesConserved'
    BY <1>2, <2>1, LedgerFrame
  <2>. QED BY <1>1, <1>2, <1>3, <1>5, <1>6, <2>1, <2>2, EpisodeKeepsCustody
<1>. QED BY <1>4, <1>5

\* NotifyWorkerUnblocked of the open episode.
LEMMA UnblockedKeepsCustody ==
    ASSUME LeasesAssumption, Custody, NEW l \in Leases, NEW sequence \in 0 .. MaxSequence,
           Unblocked(l, sequence)
    PROVE  Custody'
<1>1. /\ record[l] = "RUNNING" /\ episode[l].open /\ UNCHANGED <<record, grantee, slot>>
      /\ episode' = [episode EXCEPT ![l].open = FALSE, ![l].yielded = FALSE]
  BY DEF Unblocked, grantVars
<1>2. /\ episode \in [Leases -> EpisodeType] /\ Ledger!TypeOK /\ ResourcesConserved
      /\ Request[l][CPU] \in Nat /\ allocation \in [Leases -> Ledger!AllocationStates]
      /\ episode[l].yielded <=> Request[l][CPU] > 0
      /\ allocation[l] = IF Request[l][CPU] > 0 THEN "CPU_YIELDED" ELSE "ACTIVE"
      /\ episode[l].sequence >= 0
  BY <1>1, RunningFacts
<1>3. /\ episode'[l] = [sequence |-> episode[l].sequence, open |-> FALSE, yielded |-> FALSE]
      /\ \A k \in Leases \ {l} : episode'[k] = episode[k]
      /\ episode' \in [Leases -> EpisodeType]
  BY <1>1, <1>2, EpisodeClosed
<1>4. CASE Request[l][CPU] > 0
  <2>1. Ledger!ReacquireCpu(l)
    BY <1>2, <1>4 DEF Unblocked
  <2>2. /\ allocation'[l] = "ACTIVE" /\ \A k \in Leases \ {l} : allocation'[k] = allocation[k]
    BY <1>2, <2>1 DEF Ledger!ReacquireCpu
  <2>3. Ledger!TypeOK' /\ ResourcesConserved'
    BY <1>2, <2>1, LedgerKept
  <2>. QED BY <1>1, <1>2, <1>3, <2>2, <2>3, EpisodeKeepsCustody
<1>5. CASE ~(Request[l][CPU] > 0)
  <2>1. UNCHANGED <<available, allocation>>
    BY <1>2, <1>5 DEF Unblocked
  <2>2. Ledger!TypeOK' /\ ResourcesConserved'
    BY <1>2, <2>1, LedgerFrame
  <2>. QED BY <1>1, <1>2, <1>3, <1>5, <2>1, <2>2, EpisodeKeepsCustody
<1>. QED BY <1>4, <1>5

\* An Unblocked that came first.
LEMMA UnblockedFirstKeepsCustody ==
    ASSUME LeasesAssumption, Custody, NEW l \in Leases, NEW sequence \in 0 .. MaxSequence,
           UnblockedFirst(l, sequence)
    PROVE  Custody'
<1>1. /\ record[l] = "RUNNING" /\ ~episode[l].open /\ UNCHANGED <<record, grantee, slot>>
      /\ episode' = [episode EXCEPT ![l].sequence = sequence]
      /\ UNCHANGED <<available, allocation>>
  BY DEF UnblockedFirst, grantVars
<1>2. /\ episode \in [Leases -> EpisodeType] /\ episode[l] \in EpisodeType
      /\ Ledger!TypeOK /\ ResourcesConserved
      /\ ~episode[l].yielded /\ allocation[l] = "ACTIVE"
  BY <1>1, RunningFacts
<1>3. /\ episode'[l] = [sequence |-> sequence, open |-> FALSE, yielded |-> FALSE]
      /\ \A k \in Leases \ {l} : episode'[k] = episode[k]
      /\ episode' \in [Leases -> EpisodeType]
  <2>1. episode'[l] = [episode[l] EXCEPT !.sequence = sequence]
    BY <1>1, <1>2
  <2>2. episode'[l] = [sequence |-> sequence, open |-> FALSE, yielded |-> FALSE]
    BY <1>1, <1>2, <2>1 DEF EpisodeType
  <2>3. [sequence |-> sequence, open |-> FALSE, yielded |-> FALSE] \in EpisodeType
    BY DEF EpisodeType, LeasesAssumption
  <2>4. \A k \in Leases \ {l} : episode'[k] = episode[k]
    BY <1>1, <1>2
  <2>5. DOMAIN episode' = Leases /\ episode' = [k \in Leases |-> episode'[k]]
    BY <1>1, <1>2
  <2>6. \A k \in Leases : episode'[k] \in EpisodeType
    BY <1>2, <2>2, <2>3, <2>4
  <2>. QED BY <2>2, <2>4, <2>5, <2>6
<1>4. Ledger!TypeOK' /\ ResourcesConserved'
  BY <1>1, <1>2, LedgerFrame
<1>. QED BY <1>1, <1>2, <1>3, <1>4, EpisodeKeepsCustody

\* A step of the pool that keeps every lease on its Worker.
LEMMA PoolKeepsCustody ==
    ASSUME LeasesAssumption, Custody, UNCHANGED <<record, grantee, episode, available, allocation>>,
           slot' \in [Slots -> SlotType],
           \A s \in Slots :
              \/ slot'[s].active = None /\ (slot[s].process = "vacant" \/ slot[s].active = None)
              \/ /\ slot'[s].active = slot[s].active /\ slot'[s].worker = slot[s].worker
                 /\ slot'[s].process = "vacant" => slot[s].process = "vacant"
    PROVE  Custody'
<1>1. Ledger!TypeOK' /\ ResourcesConserved'
  BY LedgerFrame DEF Custody, CustodyTypes
<1>2. CustodyTypes'
  BY <1>1 DEF Custody, CustodyTypes, SlotType
<1>3. LeasesOnWorkers'
  <2>1. ASSUME NEW k \in Leases, record'[k] \in Live
        PROVE  \E s \in Slots : slot'[s].worker = grantee'[k] /\ slot'[s].active = k
                                /\ slot'[s].process # "vacant"
    <3>1. PICK s \in Slots : slot[s].worker = grantee[k] /\ slot[s].active = k /\ slot[s].process # "vacant"
      BY <2>1 DEF Custody, LeasesOnWorkers
    <3>. QED BY <3>1 DEF LeasesAssumption
  <2>2. ASSUME NEW s \in Slots, slot'[s].active # None
        PROVE  record'[slot'[s].active] \in Live /\ grantee'[slot'[s].active] = slot'[s].worker
    BY <2>2 DEF Custody, LeasesOnWorkers
  <2>. QED BY <2>1, <2>2 DEF LeasesOnWorkers
<1>4. LedgerMatchesLeases'
  BY DEF Custody, LedgerMatchesLeases
<1>5. DebtOnlyFromResumed'
  BY DEF Custody, DebtOnlyFromResumed, NeverBlocked
<1>6. Episodes'
  BY DEF Custody, Episodes
<1>. QED BY <1>1, <1>2, <1>3, <1>4, <1>5, <1>6 DEF Custody

LEMMA PoolFacts ==
    ASSUME LeasesAssumption, Custody, NEW s \in Slots
    PROVE  /\ slot \in [Slots -> SlotType] /\ slot[s] \in SlotType /\ None \notin Leases
           /\ record \in [Leases -> {"NONE"} \cup Live \cup Terminal]
BY DEF LeasesAssumption, Custody, CustodyTypes, SlotType

\* A process that ends takes nothing from its slot yet.
LEMMA ExitKeepsCustody ==
    ASSUME LeasesAssumption, Custody, NEW s \in Slots, ExitWorker(s)
    PROVE  Custody'
<1>1. slot \in [Slots -> SlotType] /\ slot[s].process = "running"
  BY PoolFacts DEF ExitWorker
<1>2. slot' = [slot EXCEPT ![s].process = "exited"]
  BY DEF ExitWorker
<1>3. UNCHANGED <<record, grantee, episode, available, allocation>>
  BY DEF ExitWorker, grantVars
<1>4. slot' \in [Slots -> SlotType]
  BY <1>1, <1>2 DEF SlotType
<1>5. /\ slot'[s] = [worker |-> slot[s].worker, process |-> "exited", active |-> slot[s].active]
      /\ \A t \in Slots \ {s} : slot'[t] = slot[t]
  BY <1>1, <1>2 DEF SlotType
<1>. QED BY <1>1, <1>3, <1>4, <1>5, PoolKeepsCustody

\* The supervisor reclaims the lease of a Worker whose process ended.
LEMMA NoticeKeepsCustody ==
    ASSUME LeasesAssumption, Custody, NEW s \in Slots, NoticeExit(s)
    PROVE  Custody'
<1>. DEFINE l == slot[s].active
            pool == [slot EXCEPT ![s].process = "vacant"]
<1>1. slot \in [Slots -> SlotType] /\ slot[s] \in SlotType /\ None \notin Leases
  BY PoolFacts
<1>2. UNCHANGED grantee
  BY DEF NoticeExit, grantVars
<1>3. /\ pool[s] = [worker |-> slot[s].worker, process |-> "vacant", active |-> l]
      /\ \A t \in Slots \ {s} : pool[t] = slot[t]
      /\ pool \in [Slots -> SlotType]
  BY <1>1 DEF SlotType
<1>4. CASE l # None /\ record[l] \in Live
  <2>1. ReleaseRecord(l, "WORKER_LOST", pool)
    BY <1>4 DEF NoticeExit
  <2>2. l \in Leases
    BY <1>1, <1>4 DEF SlotType
  <2>3. allocation[l] \in {"ACTIVE", "CPU_YIELDED"}
    BY <1>4, <2>2, LiveIsAllocated DEF Custody
  <2>. HIDE DEF pool, l
  <2>4. /\ Ledger!Release(l)
        /\ record' = [record EXCEPT ![l] = "WORKER_LOST"]
        /\ episode' = [episode EXCEPT ![l].open = FALSE, ![l].yielded = FALSE]
        /\ slot' = [t \in Slots |-> IF pool[t].worker = grantee[l] /\ pool[t].active = l
                                    THEN [pool[t] EXCEPT !.active = None] ELSE pool[t]]
    BY <2>1, <2>3 DEF ReleaseRecord
  <2>5. \A t \in Slots : slot[t].active = l => slot[t].worker = grantee[l]
    BY <1>4 DEF Custody, LeasesOnWorkers
  <2>6. \A t \in Slots : /\ pool[t].worker = slot[t].worker /\ pool[t].active = slot[t].active
                         /\ pool[t].process = "vacant" => slot[t].process = "vacant" \/ slot[t].active = l
    BY <1>3 DEF l
  <2>7. Freed(l)
    BY <1>1, <1>3, <2>4, <2>5, <2>6 DEF Freed, SlotType
  <2>. QED BY <1>2, <1>4, <2>2, <2>4, <2>7, ReleaseKeepsCustody DEF Terminal
<1>5. CASE ~(l # None /\ record[l] \in Live)
  <2>1. l = None
    BY <1>1, <1>5 DEF Custody, LeasesOnWorkers
  <2>2. slot' = [pool EXCEPT ![s].active = None] /\ UNCHANGED <<record, episode, available, allocation>>
    BY <1>5 DEF NoticeExit
  <2>3. /\ slot'[s] = [worker |-> slot[s].worker, process |-> "vacant", active |-> None]
        /\ \A t \in Slots \ {s} : slot'[t] = slot[t]
        /\ slot' \in [Slots -> SlotType]
    <3>. HIDE DEF pool
    <3>. QED BY <1>1, <1>3, <2>2 DEF SlotType
  <2>. QED BY <1>1, <1>2, <2>1, <2>2, <2>3, PoolKeepsCustody
<1>. QED BY <1>4, <1>5

\* A fresh Worker takes an empty slot.
LEMMA ReplaceKeepsCustody ==
    ASSUME LeasesAssumption, Custody, NEW s \in Slots, ReplaceWorker(s)
    PROVE  Custody'
<1>. DEFINE fresh == Min(Workers \ UsedWorkers)
<1>1. slot \in [Slots -> SlotType] /\ slot[s].process = "vacant" /\ Workers \ UsedWorkers # {}
  BY PoolFacts DEF ReplaceWorker
<1>2. fresh \in Workers
  <2>1. Workers \ UsedWorkers \in SUBSET Nat
    BY DEF LeasesAssumption
  <2>. QED BY <1>1, <2>1, MinIsMember
<1>3. slot' = [slot EXCEPT ![s] = [worker |-> fresh, process |-> "running", active |-> None]]
  BY DEF ReplaceWorker
<1>4. UNCHANGED <<record, grantee, episode, available, allocation>>
  BY DEF ReplaceWorker, grantVars
<1>. HIDE DEF fresh
<1>5. slot' \in [Slots -> SlotType]
  BY <1>1, <1>2, <1>3 DEF SlotType
<1>6. /\ slot'[s] = [worker |-> fresh, process |-> "running", active |-> None]
      /\ \A t \in Slots \ {s} : slot'[t] = slot[t]
  BY <1>1, <1>3
<1>. QED BY <1>1, <1>4, <1>5, <1>6, PoolKeepsCustody

-----------------------------------------------------------------------------
(* The end of an execution.                                                *)

\* An output that was completed belongs to a completed lease.
LEMMA FinalizeKeepsCustody ==
    ASSUME LeasesAssumption, Custody, Endings, NEW l \in Leases, FinalizeOwnerDeath(l)
    PROVE  Custody'
<1>1. UNCHANGED grantee
  BY DEF FinalizeOwnerDeath, grantVars
<1>2. CASE journal[l] = "COMPLETED" \/ completion[l] = "SUCCEEDED"
  <2>1. record[l] = "COMPLETED"
    BY <1>2 DEF Endings, LeasesAssumption
  <2>2. CommitOutputLease(l, "SUCCEEDED")
    BY <1>2 DEF FinalizeOwnerDeath
  <2>. QED BY <1>1, <2>1, <2>2, CommitKeepsCustody DEF Terminal
<1>3. CASE ~(journal[l] = "COMPLETED" \/ completion[l] = "SUCCEEDED") /\ record[l] \in Live
  <2>1. ReleaseRecord(l, "ABANDONED", slot)
    BY <1>3 DEF FinalizeOwnerDeath
  <2>. QED BY <1>1, <1>3, <2>1, RecordReleased DEF Terminal
<1>4. CASE ~(journal[l] = "COMPLETED" \/ completion[l] = "SUCCEEDED") /\ record[l] \notin Live
  <2>1. UNCHANGED <<record, slot, episode, available, allocation>>
    BY <1>4 DEF FinalizeOwnerDeath
  <2>. QED BY <1>1, <2>1, CustodyFrame
<1>. QED BY <1>2, <1>3, <1>4

\* Every step keeps custody.
LEMMA CustodyKept ==
    ASSUME LeasesAssumption, Custody, Endings, [Next]_leaseVars
    PROVE  Custody'
<1>. USE DEF grantVars, factVars, outputVars
<1>1. CASE UNCHANGED leaseVars
  BY <1>1, CustodyFrame DEF leaseVars
<1>2. CASE BeginDrain
  BY <1>2, CustodyFrame DEF BeginDrain
<1>3. ASSUME NEW w \in Submitters, LearnSubmitterDeath(w) \/ InstallOwnerFence(w) PROVE Custody'
  BY <1>3, CustodyFrame DEF LearnSubmitterDeath, InstallOwnerFence
<1>4. ASSUME NEW s \in Slots, ExitWorker(s) \/ NoticeExit(s) \/ ReplaceWorker(s) PROVE Custody'
  BY <1>4, ExitKeepsCustody, NoticeKeepsCustody, ReplaceKeepsCustody
<1>5. ASSUME NEW l \in Leases, LeaseNext(l) PROVE Custody'
  <2>1. CASE BeginRequest(l)
    BY <2>1, CustodyFrame DEF BeginRequest
  <2>2. ASSUME NEW reply \in {"REFUSED", "PENDING_CAPACITY"}, Refuse(l, reply) PROVE Custody'
    BY <2>2, CustodyFrame DEF Refuse
  <2>3. CASE Grant(l)
    BY <2>3, GrantKeepsCustody
  <2>4. CASE Cancel(l)
    <3>1. CASE record[l] = "GRANTED"
      BY <2>4, <3>1, RecordReleased DEF Cancel, Live, Terminal
    <3>2. CASE record[l] # "GRANTED"
      BY <2>4, <3>2, CustodyFrame DEF Cancel
    <3>. QED BY <3>1, <3>2
  <2>5. CASE ReleaseLease(l)
    BY <2>5, RecordReleased DEF ReleaseLease, Live, Terminal
  <2>6. CASE AbandonLease(l)
    BY <2>6, RecordReleased DEF AbandonLease, Live, Terminal
  <2>7. CASE Start(l)
    BY <2>7, StartKeepsCustody
  <2>8. ASSUME NEW sequence \in 0 .. MaxSequence,
               Blocked(l, sequence) \/ Unblocked(l, sequence) \/ UnblockedFirst(l, sequence)
        PROVE  Custody'
    BY <2>8, BlockedKeepsCustody, UnblockedKeepsCustody, UnblockedFirstKeepsCustody
  <2>9. CASE CompleteFailed(l)
    BY <2>9, RecordReleased DEF CompleteFailed, Live, Terminal
  <2>10. CASE PrepareOutput(l)
    BY <2>10, CustodyFrame DEF PrepareOutput
  <2>11. CASE OutputReady(l)
    BY <2>11, CustodyFrame DEF OutputReady
  <2>12. CASE CompleteOutput(l)
    BY <2>12, CommitKeepsCustody DEF CompleteOutput
  <2>13. CASE CompleteRolledBack(l)
    BY <2>13, CommitKeepsCustody DEF CompleteRolledBack
  <2>14. CASE CompleteConflicts(l)
    BY <2>14, CustodyFrame DEF CompleteConflicts
  <2>15. CASE RollbackLost(l)
    BY <2>15, CustodyFrame DEF RollbackLost
  <2>16. CASE RetireOutput(l)
    BY <2>16, CustodyFrame DEF RetireOutput
  <2>17. CASE FinalizeOwnerDeath(l)
    BY <2>17, FinalizeKeepsCustody
  <2>. QED BY <1>5, <2>1, <2>2, <2>3, <2>4, <2>5, <2>6, <2>7, <2>8, <2>9, <2>10, <2>11, <2>12,
              <2>13, <2>14, <2>15, <2>16, <2>17 DEF LeaseNext
<1>. QED BY <1>1, <1>2, <1>3, <1>4, <1>5 DEF Next

OtherTypes ==
    /\ outcome    \in [Leases -> {"NONE", "PENDING_CAPACITY", "REFUSED", "GRANT"}]
    /\ localizing \in SUBSET Leases
    /\ cancelled  \in SUBSET Leases
    /\ deadWorkers    \in SUBSET Workers
    /\ deadSubmitters \in SUBSET Submitters
    /\ fenced         \in SUBSET Submitters
    /\ draining       \in BOOLEAN
    /\ completion \in [Leases -> {None, "SUCCEEDED", "FAILED"}]
    /\ proposal   \in [Leases -> {None, "SUCCEEDED", "FAILED"}]
    /\ journal    \in [Leases -> {"UNBOUND", "ACTIVE", "READY", "COMPLETED", "ROLLING_BACK", "RETIRED"}]
    /\ rollback   \in [Leases -> {None, "failed", "lost"}]

LEMMA TypesSplit == TypeOK <=> OtherTypes /\ CustodyTypes
BY DEF TypeOK, OtherTypes, CustodyTypes

\* What a step that ends or keeps a record does to the record.
LEMMA RecordOfStep ==
    ASSUME CustodyTypes, NEW l \in Leases
    PROVE  /\ \A state, pool : ReleaseRecord(l, state, pool) => record' = [record EXCEPT ![l] = state]
           /\ \A status : CommitOutputLease(l, status) =>
                 record' = [record EXCEPT ![l] = "COMPLETED"]
BY DEF ReleaseRecord, CommitOutputLease

\* Every step keeps the types of what custody does not cover.
LEMMA OtherTypesKept ==
    ASSUME LeasesAssumption, TypeOK, [Next]_leaseVars
    PROVE  OtherTypes'
<1>. USE DEF grantVars, factVars, outputVars, OtherTypes
<1>. OtherTypes /\ CustodyTypes
  BY TypesSplit
<1>1. CASE UNCHANGED leaseVars
  BY <1>1 DEF leaseVars
<1>2. CASE BeginDrain
  BY <1>2 DEF BeginDrain
<1>3. ASSUME NEW w \in Submitters, LearnSubmitterDeath(w) \/ InstallOwnerFence(w) PROVE OtherTypes'
  BY <1>3 DEF LearnSubmitterDeath, InstallOwnerFence
<1>4. ASSUME NEW s \in Slots, ExitWorker(s) \/ NoticeExit(s) \/ ReplaceWorker(s) PROVE OtherTypes'
  BY <1>4 DEF ExitWorker, NoticeExit, ReplaceWorker, CustodyTypes
<1>5. ASSUME NEW l \in Leases, LeaseNext(l) PROVE OtherTypes'
  <2>1. CASE BeginRequest(l)
    BY <2>1 DEF BeginRequest
  <2>2. ASSUME NEW reply \in {"REFUSED", "PENDING_CAPACITY"}, Refuse(l, reply) PROVE OtherTypes'
    BY <2>2 DEF Refuse
  <2>3. CASE Grant(l)
    BY <2>3 DEF Grant
  <2>4. CASE Cancel(l) \/ ReleaseLease(l) \/ AbandonLease(l) \/ Start(l)
    BY <2>4 DEF Cancel, ReleaseLease, AbandonLease, Start
  <2>5. ASSUME NEW sequence \in 0 .. MaxSequence,
               Blocked(l, sequence) \/ Unblocked(l, sequence) \/ UnblockedFirst(l, sequence)
        PROVE  OtherTypes'
    BY <2>5 DEF Blocked, Unblocked, UnblockedFirst
  <2>6. CASE CompleteFailed(l)
    BY <2>6 DEF CompleteFailed
  <2>7. CASE PrepareOutput(l) \/ OutputReady(l)
    <3>1. CASE PrepareOutput(l)
      BY <3>1 DEF PrepareOutput
    <3>2. CASE OutputReady(l)
      BY <3>2 DEF OutputReady
    <3>. QED BY <2>7, <3>1, <3>2
  <2>8. CASE CompleteOutput(l)
    BY <2>8 DEF CompleteOutput, CommitOutputLease
  <2>9. CASE CompleteRolledBack(l)
    BY <2>9 DEF CompleteRolledBack, CommitOutputLease
  <2>10. CASE CompleteConflicts(l) \/ RollbackLost(l) \/ RetireOutput(l)
    <3>1. CASE CompleteConflicts(l)
      BY <3>1 DEF CompleteConflicts
    <3>2. CASE RollbackLost(l)
      BY <3>2 DEF RollbackLost
    <3>3. CASE RetireOutput(l)
      BY <3>3 DEF RetireOutput
    <3>. QED BY <2>10, <3>1, <3>2, <3>3
  <2>11. CASE FinalizeOwnerDeath(l)
    BY <2>11 DEF FinalizeOwnerDeath, CommitOutputLease
  <2>. QED BY <1>5, <2>1, <2>2, <2>3, <2>4, <2>5, <2>6, <2>7, <2>8, <2>9, <2>10, <2>11 DEF LeaseNext
<1>. QED BY <1>1, <1>2, <1>3, <1>4, <1>5 DEF Next

\* Every step keeps the ends of the executions and of their outputs in agreement.
LEMMA EndingsKept ==
    ASSUME LeasesAssumption, TypeOK, Endings, [Next]_leaseVars
    PROVE  Endings'
<1>. USE DEF grantVars, factVars, outputVars, Endings, Bound
<1>1. /\ record \in [Leases -> {"NONE"} \cup Live \cup Terminal]
      /\ completion \in [Leases -> {None, "SUCCEEDED", "FAILED"}]
      /\ proposal   \in [Leases -> {None, "SUCCEEDED", "FAILED"}]
      /\ journal \in [Leases -> {"UNBOUND", "ACTIVE", "READY", "COMPLETED", "ROLLING_BACK", "RETIRED"}]
      /\ rollback \in [Leases -> {None, "failed", "lost"}]
      /\ None \notin {"SUCCEEDED", "FAILED", "failed", "lost"} /\ None \notin Leases
      /\ CustodyTypes
  BY TypesSplit DEF TypeOK, LeasesAssumption
<1>2. CASE UNCHANGED leaseVars
  BY <1>2 DEF leaseVars
<1>3. CASE BeginDrain
  BY <1>3 DEF BeginDrain
<1>4. ASSUME NEW w \in Submitters, LearnSubmitterDeath(w) \/ InstallOwnerFence(w) PROVE Endings'
  BY <1>4 DEF LearnSubmitterDeath, InstallOwnerFence
<1>5. ASSUME NEW s \in Slots, ExitWorker(s) \/ ReplaceWorker(s) PROVE Endings'
  BY <1>5 DEF ExitWorker, ReplaceWorker
<1>6. ASSUME NEW s \in Slots, NoticeExit(s) PROVE Endings'
  <2>. DEFINE l == slot[s].active
  <2>1. UNCHANGED <<completion, journal, rollback>>
    BY <1>6 DEF NoticeExit
  <2>2. CASE l # None /\ record[l] \in Live
    <3>1. record' = [record EXCEPT ![l] = "WORKER_LOST"]
      BY <1>6, <2>2 DEF NoticeExit, ReleaseRecord
    <3>. HIDE DEF l
    <3>. QED BY <1>1, <2>1, <2>2, <3>1 DEF Live
  <2>3. CASE ~(l # None /\ record[l] \in Live)
    BY <1>6, <2>1, <2>3 DEF NoticeExit
  <2>. QED BY <2>2, <2>3
<1>7. ASSUME NEW l \in Leases, LeaseNext(l) PROVE Endings'
  <2>1. CASE BeginRequest(l)
    BY <2>1 DEF BeginRequest
  <2>2. ASSUME NEW reply \in {"REFUSED", "PENDING_CAPACITY"}, Refuse(l, reply) PROVE Endings'
    BY <2>2 DEF Refuse
  <2>3. CASE Grant(l)
    BY <1>1, <2>3 DEF Grant
  <2>4. CASE Cancel(l)
    BY <1>1, <2>4, RecordOfStep DEF Cancel
  <2>5. CASE ReleaseLease(l)
    BY <1>1, <2>5, RecordOfStep DEF ReleaseLease
  <2>6. CASE AbandonLease(l)
    BY <1>1, <2>6, RecordOfStep DEF AbandonLease
  <2>7. CASE Start(l)
    BY <1>1, <2>7, RecordOfStep DEF Start
  <2>8. ASSUME NEW sequence \in 0 .. MaxSequence,
               Blocked(l, sequence) \/ Unblocked(l, sequence) \/ UnblockedFirst(l, sequence)
        PROVE  Endings'
    BY <2>8 DEF Blocked, Unblocked, UnblockedFirst
  <2>9. CASE CompleteFailed(l)
    BY <1>1, <2>9, RecordOfStep DEF CompleteFailed
  <2>10. CASE PrepareOutput(l)
    BY <1>1, <2>10 DEF PrepareOutput
  <2>11. CASE OutputReady(l)
    BY <1>1, <2>11 DEF OutputReady
  <2>12. CASE CompleteOutput(l)
    <3>1. record' = [record EXCEPT ![l] = "COMPLETED"]
      BY <1>1, <2>12, RecordOfStep DEF CompleteOutput
    <3>. QED BY <1>1, <2>12, <3>1 DEF CompleteOutput, CommitOutputLease
  <2>13. CASE CompleteRolledBack(l)
    <3>1. record' = [record EXCEPT ![l] = "COMPLETED"]
      BY <1>1, <2>13, RecordOfStep DEF CompleteRolledBack
    <3>2. completion[l] # "SUCCEEDED"
      BY <1>1, <2>13 DEF CompleteRolledBack, Chosen
    <3>3. /\ completion' = [completion EXCEPT ![l] = "FAILED"]
          /\ rollback' = [rollback EXCEPT ![l] = "failed"]
          /\ journal' = [journal EXCEPT ![l] = IF journal[l] \in {"ACTIVE", "READY"} THEN "ROLLING_BACK" ELSE journal[l]]
          /\ journal[l] # "UNBOUND"
      BY <2>13 DEF CompleteRolledBack, CommitOutputLease
    <3>. QED BY <1>1, <3>1, <3>2, <3>3
  <2>14. CASE CompleteConflicts(l)
    BY <1>1, <2>14 DEF CompleteConflicts
  <2>15. CASE RollbackLost(l)
    BY <1>1, <2>15 DEF RollbackLost, Chosen
  <2>16. CASE RetireOutput(l)
    BY <1>1, <2>16 DEF RetireOutput
  <2>17. CASE FinalizeOwnerDeath(l)
    <3>1. journal' = [journal EXCEPT ![l] = "RETIRED"] /\ UNCHANGED rollback /\ journal[l] # "UNBOUND"
      BY <2>17 DEF FinalizeOwnerDeath
    <3>2. CASE journal[l] = "COMPLETED" \/ completion[l] = "SUCCEEDED"
      <4>1. CommitOutputLease(l, "SUCCEEDED")
        BY <2>17, <3>2 DEF FinalizeOwnerDeath
      <4>2. /\ record' = [record EXCEPT ![l] = "COMPLETED"]
            /\ completion' = [completion EXCEPT ![l] = "SUCCEEDED"]
        BY <1>1, <4>1, RecordOfStep DEF CommitOutputLease
      <4>. QED BY <1>1, <3>1, <3>2, <4>2
    <3>3. CASE ~(journal[l] = "COMPLETED" \/ completion[l] = "SUCCEEDED") /\ record[l] \in Live
      <4>1. /\ record' = [record EXCEPT ![l] = "ABANDONED"]
            /\ UNCHANGED completion
        BY <1>1, <2>17, <3>3, RecordOfStep DEF FinalizeOwnerDeath
      <4>. QED BY <1>1, <3>1, <3>3, <4>1 DEF Live
    <3>4. CASE ~(journal[l] = "COMPLETED" \/ completion[l] = "SUCCEEDED") /\ record[l] \notin Live
      <4>1. UNCHANGED <<record, completion>>
        BY <2>17, <3>4 DEF FinalizeOwnerDeath
      <4>. QED BY <1>1, <3>1, <3>4, <4>1
    <3>. QED BY <3>2, <3>3, <3>4
  <2>. QED BY <1>7, <2>1, <2>2, <2>3, <2>4, <2>5, <2>6, <2>7, <2>8, <2>9, <2>10, <2>11, <2>12,
              <2>13, <2>14, <2>15, <2>16, <2>17 DEF LeaseNext
<1>. QED BY <1>2, <1>3, <1>4, <1>5, <1>6, <1>7 DEF Next

-----------------------------------------------------------------------------
(* The theorems.                                                           *)

LEMMA InitiallySound == ASSUME LeasesAssumption, Init PROVE LeaseInv
<1>1. OtherTypes
  BY DEF Init, OtherTypes
<1>2. /\ record = [l \in Leases |-> "NONE"] /\ episode = [l \in Leases |-> NoEpisode]
      /\ slot = [s \in Slots |-> [worker |-> s, process |-> "running", active |-> None]]
      /\ available = Total /\ allocation = [l \in Leases |-> "UNKNOWN"]
  BY DEF Init, Ledger!Init
<1>3. CustodyTypes
  BY <1>2 DEF Init, CustodyTypes, NoEpisode, LeasesAssumption, Ledger!TypeOK, Ledger!AllocationStates
<1>4. LeasesOnWorkers /\ LedgerMatchesLeases
  <2>1. LeasesOnWorkers
    BY <1>2 DEF LeasesOnWorkers, Live
  <2>2. LedgerMatchesLeases
    <3>. SUFFICES ASSUME NEW l \in Leases
                  PROVE  allocation[l] = CASE record[l] = "NONE"     -> "UNKNOWN"
                                           [] record[l] \in Terminal -> "RELEASED"
                                           [] episode[l].open /\ Request[l][CPU] > 0 -> "CPU_YIELDED"
                                           [] OTHER -> "ACTIVE"
      BY DEF LedgerMatchesLeases
    <3>1. record[l] = "NONE" /\ allocation[l] = "UNKNOWN" /\ ~episode[l].open /\ Request[l][CPU] \in Nat
      BY <1>2 DEF NoEpisode, LeasesAssumption
    <3>. QED BY <3>1 DEF Terminal
  <2>. QED BY <2>1, <2>2
<1>5. ResourcesConserved
  <2>. SUFFICES ASSUME NEW n \in Names
                PROVE  available[n] + SumFunctionOnSet(Ledger!Charges(n), Leases) = Total[n]
                       /\ available[n] <= Total[n] /\ available[n] >= 0
    BY LedgerSum DEF ResourcesConserved, Ledger!Conserved, Ledger!AssertionsHold
  <2>1. \A l \in Leases : Ledger!Charges(n)[l] = 0
    BY <1>2 DEF Ledger!Charges, Ledger!Held
  <2>2. SumFunctionOnSet(Ledger!Charges(n), Leases) = 0
    BY <2>1, SumOfZeros DEF LeasesAssumption
  <2>. QED BY <1>2, <2>2 DEF LeasesAssumption
<1>6. DebtOnlyFromResumed
  <2>1. NeverBlocked = {}
    BY <1>2 DEF NeverBlocked, Live
  <2>. QED BY <2>1, SumOfNothing DEF DebtOnlyFromResumed, LeasesAssumption
<1>7. Episodes
  BY <1>2 DEF Episodes, NoEpisode
<1>8. Endings
  BY DEF Init, Endings, Bound, LeasesAssumption
<1>. QED BY <1>1, <1>3, <1>4, <1>5, <1>6, <1>7, <1>8, TypesSplit DEF LeaseInv, Custody

\* The inductive invariant: whatever calls arrive, and in whatever order, every
\* live lease keeps its Worker and its charge, and every end its output.
THEOREM LeaseInvariant == Spec => []LeaseInv
<1>. LeasesAssumption
  BY LeasesAssumption
<1>1. Init => LeaseInv
  BY InitiallySound
<1>2. LeaseInv /\ [Next]_leaseVars => LeaseInv'
  <2>. SUFFICES ASSUME LeaseInv, [Next]_leaseVars PROVE LeaseInv'
    OBVIOUS
  <2>1. Custody'
    BY CustodyKept DEF LeaseInv
  <2>2. Endings'
    BY EndingsKept DEF LeaseInv
  <2>3. OtherTypes'
    BY OtherTypesKept DEF LeaseInv
  <2>4. TypeOK'
    BY <2>1, <2>3 DEF TypeOK, OtherTypes, Custody, CustodyTypes
  <2>. QED BY <2>1, <2>2, <2>4 DEF LeaseInv
<1>. QED BY <1>1, <1>2, PTL DEF Spec

\* The Node's leases, its pool of Workers and its ledger tell one story at every
\* step, whatever the leases ask for and however many there are: no unit of a
\* resource is lost or granted twice, and the CPU is overdrawn only for executions
\* that were resumed (_release_record_locked, _handle_notify_worker_unblocked).
THEOREM LedgerStaysSound == Spec => []LedgerSound
<1>1. LeaseInv => LedgerSound
  BY DEF LeaseInv, Custody, LedgerSound
<1>. QED BY <1>1, LeaseInvariant, PTL

\* A success that the Node reports is one whose publication it completed, and it is
\* never rolled back (_handle_complete_worker_lease, _drive_output_publications).
THEOREM SuccessStaysPublished == Spec => []SuccessIsPublished
<1>. LeasesAssumption
  BY LeasesAssumption
<1>1. LeaseInv => SuccessIsPublished
  BY DEF LeaseInv, Endings, SuccessIsPublished, LeasesAssumption
<1>. QED BY <1>1, LeaseInvariant, PTL

\* What a step may do to an execution that has ended.
EndsOnce(l) ==
    /\ record[l] \in Terminal => record'[l] \in Terminal
    /\ record[l] = "RUNNING" => record'[l] # "GRANTED"
    /\ record[l] = "WORKER_LOST" => completion'[l] # "SUCCEEDED"
    /\ completion[l] # None => completion'[l] = completion[l]

LEMMA EndsOnceKept ==
    ASSUME LeasesAssumption, LeaseInv, [Next]_leaseVars, NEW k \in Leases
    PROVE  EndsOnce(k)
<1>. USE DEF grantVars, factVars, outputVars, EndsOnce
<1>1. /\ record \in [Leases -> {"NONE"} \cup Live \cup Terminal]
      /\ completion \in [Leases -> {None, "SUCCEEDED", "FAILED"}]
      /\ None \notin {"SUCCEEDED", "FAILED", "failed", "lost"} /\ None \notin Leases
      /\ CustodyTypes
  BY TypesSplit DEF LeaseInv, TypeOK, LeasesAssumption
<1>2. /\ \A l \in Leases : completion[l] # None => record[l] = "COMPLETED"
      /\ \A l \in Leases : journal[l] = "COMPLETED" => completion[l] = "SUCCEEDED"
  BY DEF LeaseInv, Endings
<1>3. ASSUME UNCHANGED <<record, completion>> PROVE EndsOnce(k)
  BY <1>1, <1>2, <1>3 DEF Terminal
<1>4. ASSUME NEW l \in Leases, record[l] \in {"NONE"} \cup Live, UNCHANGED completion,
             NEW state \in Live \cup Terminal, record[l] = "RUNNING" => state # "GRANTED",
             record' = [record EXCEPT ![l] = state]
      PROVE  EndsOnce(k)
  BY <1>1, <1>2, <1>4 DEF Live, Terminal
<1>5. ASSUME NEW l \in Leases, NEW status, CommitOutputLease(l, status),
             completion[l] \in {None, status}, record[l] = "WORKER_LOST" => status # "SUCCEEDED"
      PROVE  EndsOnce(k)
  <2>1. /\ record' = [record EXCEPT ![l] = "COMPLETED"]
        /\ completion' = [completion EXCEPT ![l] = status]
    BY <1>1, <1>5, RecordOfStep DEF CommitOutputLease
  <2>. QED BY <1>1, <1>2, <1>5, <2>1 DEF Terminal
<1>6. CASE UNCHANGED leaseVars
  BY <1>3, <1>6 DEF leaseVars
<1>7. CASE BeginDrain
  BY <1>3, <1>7 DEF BeginDrain
<1>8. ASSUME NEW w \in Submitters, LearnSubmitterDeath(w) \/ InstallOwnerFence(w) PROVE EndsOnce(k)
  BY <1>3, <1>8 DEF LearnSubmitterDeath, InstallOwnerFence
<1>9. ASSUME NEW s \in Slots, ExitWorker(s) \/ NoticeExit(s) \/ ReplaceWorker(s) PROVE EndsOnce(k)
  <2>1. CASE ExitWorker(s) \/ ReplaceWorker(s)
    BY <1>3, <2>1 DEF ExitWorker, ReplaceWorker
  <2>2. CASE NoticeExit(s)
    <3>. DEFINE l == slot[s].active
    <3>1. CASE l # None /\ record[l] \in Live
      <4>1. l \in Leases
        BY <1>1, <3>1 DEF CustodyTypes
      <4>2. record' = [record EXCEPT ![l] = "WORKER_LOST"] /\ UNCHANGED completion
        BY <2>2, <3>1 DEF NoticeExit, ReleaseRecord
      <4>. HIDE DEF l
      <4>. QED BY <1>4, <3>1, <4>1, <4>2 DEF Live, Terminal
    <3>2. CASE ~(l # None /\ record[l] \in Live)
      BY <1>3, <2>2, <3>2 DEF NoticeExit
    <3>. QED BY <3>1, <3>2
  <2>. QED BY <1>9, <2>1, <2>2
<1>10. ASSUME NEW l \in Leases, LeaseNext(l) PROVE EndsOnce(k)
  <2>1. CASE BeginRequest(l)
    BY <1>3, <2>1 DEF BeginRequest
  <2>2. ASSUME NEW reply \in {"REFUSED", "PENDING_CAPACITY"}, Refuse(l, reply) PROVE EndsOnce(k)
    BY <1>3, <2>2 DEF Refuse
  <2>3. CASE Grant(l)
    BY <1>4, <2>3 DEF Grant, Live
  <2>4. CASE Cancel(l)
    <3>1. CASE record[l] = "GRANTED"
      BY <1>1, <1>4, <2>4, <3>1, RecordOfStep DEF Cancel, Live, Terminal
    <3>2. CASE record[l] # "GRANTED"
      BY <1>3, <2>4, <3>2 DEF Cancel
    <3>. QED BY <3>1, <3>2
  <2>5. CASE ReleaseLease(l)
    BY <1>1, <1>4, <2>5, RecordOfStep DEF ReleaseLease, Live, Terminal
  <2>6. CASE AbandonLease(l)
    BY <1>1, <1>4, <2>6, RecordOfStep DEF AbandonLease, Live, Terminal
  <2>7. CASE Start(l)
    <3>1. \E state \in {"ABANDONED", "RUNNING"} : record' = [record EXCEPT ![l] = state]
      BY <1>1, <2>7, RecordOfStep DEF Start
    <3>2. record[l] = "GRANTED" /\ UNCHANGED completion
      BY <2>7 DEF Start
    <3>. QED BY <1>4, <3>1, <3>2 DEF Live, Terminal
  <2>8. ASSUME NEW sequence \in 0 .. MaxSequence,
               Blocked(l, sequence) \/ Unblocked(l, sequence) \/ UnblockedFirst(l, sequence)
        PROVE  EndsOnce(k)
    BY <1>3, <2>8 DEF Blocked, Unblocked, UnblockedFirst
  <2>9. CASE CompleteFailed(l)
    <3>1. /\ record' = [record EXCEPT ![l] = "COMPLETED"] /\ record[l] = "RUNNING"
          /\ completion' = [completion EXCEPT ![l] = "FAILED"]
      BY <1>1, <2>9, RecordOfStep DEF CompleteFailed
    <3>. QED BY <1>1, <1>2, <3>1 DEF Terminal
  <2>10. CASE PrepareOutput(l) \/ OutputReady(l)
    BY <1>3, <2>10 DEF PrepareOutput, OutputReady
  <2>11. CASE CompleteOutput(l)
    <3>1. CommitOutputLease(l, "SUCCEEDED") /\ record[l] = "RUNNING"
      BY <2>11 DEF CompleteOutput
    <3>2. completion[l] = None
      BY <1>1, <1>2, <3>1
    <3>. QED BY <1>5, <3>1, <3>2
  <2>12. CASE CompleteRolledBack(l)
    <3>1. CommitOutputLease(l, "FAILED") /\ completion[l] \in {None, "FAILED"}
      BY <1>1, <2>12 DEF CompleteRolledBack, Chosen
    <3>. QED BY <1>5, <3>1
  <2>13. CASE CompleteConflicts(l) \/ RollbackLost(l) \/ RetireOutput(l)
    BY <1>3, <2>13 DEF CompleteConflicts, RollbackLost, RetireOutput
  <2>14. CASE FinalizeOwnerDeath(l)
    <3>1. CASE journal[l] = "COMPLETED" \/ completion[l] = "SUCCEEDED"
      <4>1. CommitOutputLease(l, "SUCCEEDED")
        BY <2>14, <3>1 DEF FinalizeOwnerDeath
      <4>2. completion[l] = "SUCCEEDED" /\ record[l] = "COMPLETED"
        BY <1>1, <1>2, <3>1
      <4>. QED BY <1>5, <4>1, <4>2
    <3>2. CASE ~(journal[l] = "COMPLETED" \/ completion[l] = "SUCCEEDED") /\ record[l] \in Live
      <4>1. record' = [record EXCEPT ![l] = "ABANDONED"] /\ UNCHANGED completion
        BY <1>1, <2>14, <3>2, RecordOfStep DEF FinalizeOwnerDeath
      <4>. QED BY <1>4, <3>2, <4>1 DEF Live, Terminal
    <3>3. CASE ~(journal[l] = "COMPLETED" \/ completion[l] = "SUCCEEDED") /\ record[l] \notin Live
      BY <1>3, <2>14, <3>3 DEF FinalizeOwnerDeath
    <3>. QED BY <3>1, <3>2, <3>3
  <2>. QED BY <1>10, <2>1, <2>2, <2>3, <2>4, <2>5, <2>6, <2>7, <2>8, <2>9, <2>10, <2>11, <2>12,
              <2>13, <2>14 DEF LeaseNext
<1>. QED BY <1>6, <1>7, <1>8, <1>9, <1>10 DEF Next

\* Every execution ends once: a lease is never granted again, an end is final, and
\* the execution of a lost Worker, which its owner may have retried, is never made
\* a success by a late CompleteWorkerLease (_commit_output_lease_locked).
THEOREM ExecutionsDoEndOnce == Spec => ExecutionsEndOnce
<1>. LeasesAssumption
  BY LeasesAssumption
<1>1. LeaseInv /\ [Next]_leaseVars => [\A l \in Leases :
          /\ record[l] \in Terminal => record'[l] \in Terminal
          /\ record[l] = "RUNNING" => record'[l] # "GRANTED"
          /\ record[l] = "WORKER_LOST" => completion'[l] # "SUCCEEDED"
          /\ completion[l] # None => completion'[l] = completion[l]]_leaseVars
  BY EndsOnceKept DEF EndsOnce
<1>. QED BY <1>1, LeaseInvariant, PTL DEF Spec, ExecutionsEndOnce

\* A quiescent Node that drains grants nothing.
LEMMA QuiescenceKept ==
    ASSUME LeasesAssumption, LeaseInv, [Next]_leaseVars, draining, Quiescent
    PROVE  Quiescent'
<1>. USE DEF grantVars, factVars, outputVars
<1>1. /\ record \in [Leases -> {"NONE"} \cup Live \cup Terminal]
      /\ journal \in [Leases -> {"UNBOUND", "ACTIVE", "READY", "COMPLETED", "ROLLING_BACK", "RETIRED"}]
      /\ slot \in [Slots -> SlotType] /\ None \notin Leases
      /\ CustodyTypes
  BY TypesSplit DEF LeaseInv, TypeOK, LeasesAssumption, SlotType
<1>2. /\ localizing = {} /\ \A s \in Slots : slot[s].active = None
      /\ \A l \in Leases : allocation[l] \in {"UNKNOWN", "RELEASED"}
      /\ \A l \in Leases : journal[l] # "UNBOUND" => record[l] \in Terminal /\ journal[l] = "RETIRED"
  BY DEF Quiescent, Bound
<1>3. \A l \in Leases : record[l] \notin Live
  BY <1>2, LiveIsAllocated DEF LeaseInv, Custody
<1>4. ASSUME UNCHANGED <<localizing, slot, allocation, record, journal>> PROVE Quiescent'
  BY <1>4 DEF Quiescent, Bound
<1>5. CASE UNCHANGED leaseVars
  BY <1>4, <1>5 DEF leaseVars
<1>6. CASE BeginDrain
  BY <1>4, <1>6 DEF BeginDrain
<1>7. ASSUME NEW w \in Submitters, LearnSubmitterDeath(w) \/ InstallOwnerFence(w) PROVE Quiescent'
  BY <1>4, <1>7 DEF LearnSubmitterDeath, InstallOwnerFence
<1>8. ASSUME NEW s \in Slots, ExitWorker(s) \/ NoticeExit(s) \/ ReplaceWorker(s) PROVE Quiescent'
  <2>1. UNCHANGED <<localizing, allocation, record, journal>>
    BY <1>2, <1>8 DEF ExitWorker, NoticeExit, ReplaceWorker
  <2>2. \A t \in Slots : slot'[t].active = None
    <3>1. CASE ExitWorker(s)
      BY <1>1, <1>2, <3>1 DEF ExitWorker, SlotType
    <3>2. CASE NoticeExit(s)
      <4>. DEFINE pool == [slot EXCEPT ![s].process = "vacant"]
      <4>1. slot' = [pool EXCEPT ![s].active = None]
        BY <1>2, <3>2 DEF NoticeExit
      <4>2. pool \in [Slots -> SlotType] /\ \A t \in Slots : pool[t].active = None
        BY <1>1, <1>2 DEF SlotType
      <4>. HIDE DEF pool
      <4>. QED BY <4>1, <4>2 DEF SlotType
    <3>3. CASE ReplaceWorker(s)
      BY <3>3 DEF ReplaceWorker
    <3>. QED BY <1>8, <3>1, <3>2, <3>3
  <2>. QED BY <1>2, <2>1, <2>2 DEF Quiescent, Bound
<1>9. ASSUME NEW l \in Leases, LeaseNext(l) PROVE Quiescent'
  <2>1. CASE BeginRequest(l)
    BY <1>4, <2>1 DEF BeginRequest
  <2>2. ASSUME NEW reply \in {"REFUSED", "PENDING_CAPACITY"}, Refuse(l, reply) PROVE Quiescent'
    BY <1>2, <2>2 DEF Refuse
  <2>3. CASE Grant(l)
    BY <2>3 DEF Grant
  <2>4. CASE Cancel(l)
    BY <1>3, <1>4, <2>4 DEF Cancel, Live
  <2>5. CASE ReleaseLease(l) \/ AbandonLease(l) \/ Start(l)
    BY <1>3, <2>5 DEF ReleaseLease, AbandonLease, Start, Live
  <2>6. ASSUME NEW sequence \in 0 .. MaxSequence,
               Blocked(l, sequence) \/ Unblocked(l, sequence) \/ UnblockedFirst(l, sequence)
        PROVE  Quiescent'
    BY <1>3, <2>6 DEF Blocked, Unblocked, UnblockedFirst, Live
  <2>7. CASE CompleteFailed(l) \/ PrepareOutput(l) \/ CompleteOutput(l)
    BY <1>3, <2>7 DEF CompleteFailed, PrepareOutput, CompleteOutput, Live
  <2>8. CASE OutputReady(l) \/ RollbackLost(l)
    BY <1>2, <2>8 DEF OutputReady, RollbackLost
  <2>9. CASE CompleteConflicts(l)
    BY <1>4, <2>9 DEF CompleteConflicts
  <2>10. CASE RetireOutput(l)
    BY <1>2, <2>10 DEF RetireOutput
  <2>11. CASE CompleteRolledBack(l)
    <3>1. journal[l] = "RETIRED" /\ record[l] \in Terminal /\ record[l] # "RUNNING"
      BY <1>2, <2>11 DEF CompleteRolledBack, Bound, Terminal
    <3>2. /\ record' = [record EXCEPT ![l] = "COMPLETED"] /\ UNCHANGED <<localizing, slot, allocation>>
          /\ journal' = [journal EXCEPT ![l] = IF journal[l] \in {"ACTIVE", "READY"} THEN "ROLLING_BACK" ELSE journal[l]]
      BY <2>11, <3>1 DEF CompleteRolledBack, CommitOutputLease
    <3>3. \A k \in Leases : journal'[k] = journal[k]
      BY <1>1, <3>1, <3>2
    <3>. QED BY <1>1, <1>2, <3>2, <3>3 DEF Quiescent, Bound, Terminal
  <2>12. CASE FinalizeOwnerDeath(l)
    <3>1. journal[l] = "RETIRED" /\ record[l] \in Terminal /\ record[l] # "RUNNING" /\ record[l] \notin Live
      BY <1>2, <2>12 DEF FinalizeOwnerDeath, Bound, Terminal, Live
    <3>2. /\ journal' = [journal EXCEPT ![l] = "RETIRED"] /\ UNCHANGED <<localizing, slot, allocation>>
          /\ record' \in {record, [record EXCEPT ![l] = "COMPLETED"]}
      BY <2>12, <3>1 DEF FinalizeOwnerDeath, CommitOutputLease
    <3>. QED BY <1>1, <1>2, <3>1, <3>2 DEF Quiescent, Bound, Terminal
  <2>. QED BY <1>9, <2>1, <2>2, <2>3, <2>4, <2>5, <2>6, <2>7, <2>8, <2>9, <2>10, <2>11, <2>12 DEF LeaseNext
<1>. QED BY <1>5, <1>6, <1>7, <1>8, <1>9 DEF Next

\* Once a draining Node reports that it is idle, no delayed or repeated call gives it
\* work again (BeginDrain, _cleanup_plane_quiescent_locked).
THEOREM QuiescenceDoesLast == Spec => QuiescenceIsStable
<1>. LeasesAssumption
  BY LeasesAssumption
<1>1. LeaseInv /\ [Next]_leaseVars => [draining /\ Quiescent => Quiescent']_leaseVars
  BY QuiescenceKept
<1>. QED BY <1>1, LeaseInvariant, PTL DEF Spec, QuiescenceIsStable
=============================================================================

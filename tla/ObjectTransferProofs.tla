------------------------ MODULE ObjectTransferProofs ------------------------
(***************************************************************************)
(* Safety of the transfer of stored inputs, for every set of Nodes,        *)
(* objects and leases, every capacity of the stores, and any number of     *)
(* exits, attempts and lost calls: a pin keeps the replica it was given    *)
(* for, a place taken for a pull comes back, every copy is accounted for,  *)
(* and a Task that runs keeps its inputs.                                  *)
(***************************************************************************)
EXTENDS ObjectTransfer, FiniteSetTheorems, FunctionTheorems, TLAPS

-----------------------------------------------------------------------------
(* The inductive invariant *)

\* Attempt k of an object has produced a copy; attempt k of it is not wanted any more.
Made(o, k) ==
    \/ k < owner[o].attempt
    \/ k = owner[o].attempt /\ owner[o].state \in {"ready", "lost", "retired"}
Past(o, k) == k < owner[o].attempt \/ (k = owner[o].attempt /\ owner[o].state = "retired")

\* A lease request names an existing attempt of each of its inputs.
Requests ==
    /\ DOMAIN desc = Leases
    /\ \A l \in Leases :
          IF task[l] = "new"
          THEN /\ thread[l].pc = "idle" /\ outcome[l] = "none" /\ custody[l] = NoCustody
               /\ reported[l] = {} /\ l \notin doomed
          ELSE /\ desc[l] \in [InputSet(l) -> [source : Nodes, attempt : 1..Attempts]]
               /\ \A o \in InputSet(l) : Made(o, desc[l][o].attempt)

\* A transfer whose pin or its release is on its way is one of a lease that asked for it.
TransfersNamed ==
    \A t \in Transfers :
        session[t] # "none" \/ ticket[t] # "none" \/ t \in late =>
            task[t[1]] # "new" /\ t[2] \in InputSet(t[1])

\* Where a thread is, and the custody of the inputs behind it.
ThreadPlaced ==
    \A l \in Leases : thread[l].pc # "idle" =>
        /\ Target[l] \in up /\ thread[l].round >= 1
        /\ outcome[l] \in {"none", "refused"} /\ custody[l].handed = "no" /\ ~custody[l].abandoned
        /\ thread[l].pc # "localized" => thread[l].input \in 1..Len(Inputs[l])
        /\ \A j \in 1..Len(Inputs[l]) :
              \/ j < thread[l].input \/ thread[l].pc = "localized"
              \/ j = thread[l].input /\ thread[l].pc = "release" /\ ~thread[l].failed
              => Inputs[l][j] \in custody[l].held \ custody[l].pending

\* One thread at most is inside an object's lock.
LocksExclude ==
    \A l, m \in Leases :
        /\ Target[l] = Target[m] /\ thread[l].pc \in Locking /\ thread[m].pc \in Locking
        /\ Input(l) = Input(m)
        => l = m

\* Between taking a place and sealing or giving it up, a thread's place and pull record are there.
Pulling == {"pin", "read", "finish", "failed"}
PullsOwnTheirPlace ==
    \A l \in Leases : thread[l].pc \in Pulling =>
        /\ store[Target[l]][Input(l)].state = "partial"
        /\ pulls[Target[l]][Input(l)].state = "PULLING"

\* The custody of a lease holds inputs of its own; each is stored, or its deletion was received.
CustodyKept ==
    \A l \in Leases :
        /\ custody[l].pending \cup custody[l].held \subseteq InputSet(l)
        /\ custody[l].given \cup reported[l] \subseteq custody[l].held
        /\ Target[l] \in up =>
              \A o \in custody[l].held :
                  \/ Holds(Target[l], o, desc[l][o].attempt)
                  \/ <<Target[l], o, desc[l][o].attempt>> \in receipts

\* What the Node's answer, the submitter's phase and the hand-off of custody say of each other.
Phases ==
    \A l \in Leases :
        /\ outcome[l] = "granted" => InputSet(l) \subseteq custody[l].held /\ custody[l].pending = {}
        /\ task[l] \in {"granted", "running"} => outcome[l] = "granted"
        /\ task[l] = "cancelled" => outcome[l] = "cancelled" /\ custody[l].pending = {}
        /\ task[l] \in {"cancelling", "cancelled"} => l \in doomed
        /\ task[l] = "running" => custody[l].handed = "acked" /\ l \notin doomed
        /\ custody[l].handed = "acked" =>
              /\ outcome[l] \in {"granted", "cancelled"}
              /\ custody[l].held \subseteq reported[l] /\ custody[l].pending = {}
        /\ custody[l].handed = "abandoned" => custody[l].abandoned

\* Locations hold the bytes; what is stored was made; what is deleted is past, or was never
\* published because its attempt failed.
OwnersRecord ==
    /\ \A o \in Objects : owner[o].locs # {} => owner[o].state = "ready"
    /\ \A n \in up, o \in Objects : n \in owner[o].locs => Holds(n, o, owner[o].attempt)
    /\ \A n \in Nodes, o \in Objects : store[n][o].state = "sealed" => Made(o, store[n][o].attempt)
    /\ \A c \in owed : Past(c[2], c[3])
    /\ \A c \in receipts : Past(c[2], c[3]) \/ (c[3] = owner[c[2]].attempt /\ owner[c[2]].state = "failed")

\* The owner knows of a copy: as a location, or as one to delete.
Known(n, o, k) == (n \in owner[o].locs /\ owner[o].attempt = k) \/ <<n, o, k>> \in owed

\* A lease has the copy and has not handed it over.
InCustody(n, o, k) ==
    \E l \in Leases : /\ Target[l] = n /\ o \in custody[l].pending \cup custody[l].held
                      /\ desc[l][o].attempt = k /\ custody[l].handed = "no"

\* No copy is forgotten.
Accounted ==
    \A n \in up, o \in Objects, k \in 1..Attempts :
        Holds(n, o, k) => Known(n, o, k) \/ InCustody(n, o, k)

\* A copy that was handed over, or reported by the submitter, is one that the owner knows.
ReportsKnown ==
    \A l \in Leases : Target[l] \in up =>
        \A o \in custody[l].given \cup reported[l] :
            Holds(Target[l], o, desc[l][o].attempt) => Known(Target[l], o, desc[l][o].attempt)

\* What a Task reported that has not been cancelled is a location: its hold keeps the object.
RunsKnown ==
    \A l \in Leases :
        l \notin doomed /\ task[l] \in {"asking", "granted", "running"} /\ Target[l] \in up =>
            \A o \in reported[l] : Target[l] \in owner[o].locs /\ owner[o].attempt = desc[l][o].attempt

\* The inductive invariant.
TransferInvariant ==
    /\ TypeOK /\ Requests /\ TransfersNamed /\ ThreadPlaced /\ LocksExclude /\ PullsOwnTheirPlace
    /\ RoomComesBack /\ NothingReturns /\ PinKeepsReplica /\ CustodyKept /\ Phases /\ OwnersRecord
    /\ Accounted /\ ReportsKnown /\ RunsKnown

-----------------------------------------------------------------------------
(* The inputs of a lease *)

\* A lease's inputs are objects, and each of them is at one place of the request.
LEMMA InputsTyped ==
    ASSUME NEW l \in Leases
    PROVE  /\ Target[l] \in Nodes /\ Len(Inputs[l]) \in Nat /\ InputSet(l) \subseteq Objects
           /\ \A i \in 1..Len(Inputs[l]) : Inputs[l][i] \in InputSet(l)
<1>1. Target[l] \in Nodes /\ Inputs[l] \in Seq(Objects)
  BY ObjectTransferAssumption
<1>2. QED  BY <1>1 DEF InputSet

LEMMA InputsDistinct ==
    ASSUME NEW l \in Leases, NEW i \in 1..Len(Inputs[l]), NEW j \in 1..Len(Inputs[l]),
           Inputs[l][i] = Inputs[l][j]
    PROVE  i = j
<1> DEFINE n == Len(Inputs[l])
           f == [k \in 1..n |-> Inputs[l][k]]
<1>1. n \in Nat /\ n = Cardinality(InputSet(l))
  BY InputsTyped, ObjectTransferAssumption
<1>2. IsFiniteSet(1..n) /\ Cardinality(1..n) = n
  BY <1>1, FS_Interval
<1>3. f \in Surjection(1..n, InputSet(l))
  BY DEF Surjection, InputSet
<1>4. f \in Injection(1..n, InputSet(l))
  BY <1>1, <1>2, <1>3, FS_SurjSameCardinalityImpliesInj, Zenon
<1>5. f[i] = f[j]
  OBVIOUS
<1>6. \A a, b \in 1..n : f[a] = f[b] => a = b
  <2> HIDE DEF f
  <2>1. QED  BY <1>4, Fun_InjectionProperties
<1>7. QED  BY <1>5, <1>6

-----------------------------------------------------------------------------
(* Which actions change what *)

\* The steps that end a Node, or record its end.
LEMMA ClusterChanges ==
    ASSUME Next
    PROVE  \/ UNCHANGED <<up, dead>>
           \/ \E n \in Nodes : NodeExit(n) \/ HandleDeath(n)
<1> USE DEF clusterVars, replicaVars, leaseVars, pinVars, taskVars, ownerVars
<1>1. CASE \E l \in Leases : LeaseNext(l)
  BY <1>1 DEF LeaseNext, Enter, Check, Request, Pin, Read, Finish, Abort, Release, Leave,
          Grant, Refuse, Submit, Learn, GiveUp, Cancel, Ack, Proceed, End, TargetLost,
          SubmitterExit, Abandon, HandedOver, Report, HandOver
<1>2. CASE \E t \in Transfers : LatePin(t) \/ CloseTicket(t) \/ CloseSession(t)
  BY <1>2 DEF LatePin, CloseTicket, CloseSession
<1>3. CASE \E o \in Objects : Reconstruct(o) \/ Collect(o)
  BY <1>3 DEF Reconstruct, Collect
<1>4. CASE \E n \in Nodes, o \in Objects : Produce(n, o)
  BY <1>4 DEF Produce
<1>5. CASE \E n \in Nodes, o \in Objects, k \in 1..Attempts : Drop(n, o, k)
  BY <1>5 DEF Drop
<1>6. CASE \E n \in Nodes : NodeExit(n) \/ HandleDeath(n)
  BY <1>6
<1> QED  BY <1>1, <1>2, <1>3, <1>4, <1>5, <1>6 DEF Next

\* The steps that change a store.
LEMMA StoreChanges ==
    ASSUME Next
    PROVE  \/ UNCHANGED store
           \/ \E l \in Leases :
                 Request(l) \/ Read(l) \/ Finish(l) \/ Abort(l)
           \/ \E n \in Nodes, o \in Objects : Produce(n, o)
           \/ \E n \in Nodes, o \in Objects, k \in 1..Attempts : Drop(n, o, k)
           \/ \E n \in Nodes : NodeExit(n)
<1> USE DEF clusterVars, replicaVars, leaseVars, pinVars, taskVars, ownerVars
<1>1. CASE \E l \in Leases : LeaseNext(l)
  BY <1>1 DEF LeaseNext, Enter, Check, Pin, Release, Leave, Grant, Refuse, Submit, Learn,
          GiveUp, Cancel, Ack, Proceed, End, TargetLost, SubmitterExit, Abandon,
          HandedOver, Report, HandOver
<1>2. CASE \E t \in Transfers : LatePin(t) \/ CloseTicket(t) \/ CloseSession(t)
  BY <1>2 DEF LatePin, CloseTicket, CloseSession
<1>3. CASE \E o \in Objects : Reconstruct(o) \/ Collect(o)
  BY <1>3 DEF Reconstruct, Collect
<1>4. CASE \E n \in Nodes, o \in Objects : Produce(n, o)
  BY <1>4
<1>5. CASE \E n \in Nodes, o \in Objects, k \in 1..Attempts : Drop(n, o, k)
  BY <1>5
<1>6. CASE \E n \in Nodes : NodeExit(n) \/ HandleDeath(n)
  BY <1>6 DEF HandleDeath
<1> QED  BY <1>1, <1>2, <1>3, <1>4, <1>5, <1>6 DEF Next

\* The steps that change a pull record.
LEMMA PullChanges ==
    ASSUME Next
    PROVE  \/ UNCHANGED pulls
           \/ \E l \in Leases :
                 Check(l) \/ Request(l) \/ Finish(l) \/ Abort(l)
           \/ \E n \in Nodes, o \in Objects, k \in 1..Attempts : Drop(n, o, k)
           \/ \E n \in Nodes : NodeExit(n)
<1> USE DEF clusterVars, replicaVars, leaseVars, pinVars, taskVars, ownerVars
<1>1. CASE \E l \in Leases : LeaseNext(l)
  BY <1>1 DEF LeaseNext, Enter, Pin, Read, Release, Leave, Grant, Refuse, Submit, Learn,
          GiveUp, Cancel, Ack, Proceed, End, TargetLost, SubmitterExit, Abandon,
          HandedOver, Report, HandOver
<1>2. CASE \E t \in Transfers : LatePin(t) \/ CloseTicket(t) \/ CloseSession(t)
  BY <1>2 DEF LatePin, CloseTicket, CloseSession
<1>3. CASE \E o \in Objects : Reconstruct(o) \/ Collect(o)
  BY <1>3 DEF Reconstruct, Collect
<1>4. CASE \E n \in Nodes, o \in Objects : Produce(n, o)
  BY <1>4 DEF Produce
<1>5. CASE \E n \in Nodes, o \in Objects, k \in 1..Attempts : Drop(n, o, k)
  BY <1>5
<1>6. CASE \E n \in Nodes : NodeExit(n) \/ HandleDeath(n)
  BY <1>6 DEF HandleDeath
<1> QED  BY <1>1, <1>2, <1>3, <1>4, <1>5, <1>6 DEF Next

\* The steps that change what is recorded of deletions.
LEMMA ReceiptChanges ==
    ASSUME Next
    PROVE  \/ UNCHANGED receipts
           \/ \E n \in Nodes, o \in Objects : Produce(n, o)
           \/ \E n \in Nodes, o \in Objects, k \in 1..Attempts : Drop(n, o, k)
           \/ \E n \in Nodes : NodeExit(n)
<1> USE DEF clusterVars, replicaVars, leaseVars, pinVars, taskVars, ownerVars
<1>1. CASE \E l \in Leases : LeaseNext(l)
  <2> SUFFICES ASSUME NEW l \in Leases, LeaseNext(l) PROVE UNCHANGED receipts
    BY <1>1
  <2>1. CASE \/ Enter(l) \/ Check(l) \/ Request(l) \/ Pin(l) \/ Read(l) \/ Finish(l) \/ Abort(l)
             \/ Release(l) \/ Leave(l) \/ Grant(l) \/ Refuse(l)
    BY <2>1 DEF Enter, Check, Request, Pin, Read, Finish, Abort, Release, Leave, Grant, Refuse
  <2>2. CASE \/ Submit(l) \/ Learn(l) \/ GiveUp(l) \/ Cancel(l) \/ Ack(l) \/ Proceed(l) \/ End(l)
             \/ TargetLost(l) \/ SubmitterExit(l) \/ Abandon(l) \/ HandedOver(l)
             \/ \E o \in InputSet(l) : Report(l, o) \/ HandOver(l, o)
    BY <2>2 DEF Submit, Learn, GiveUp, Cancel, Ack, Proceed, End, TargetLost, SubmitterExit, Abandon,
                HandedOver, Report, HandOver
  <2> QED  BY <2>1, <2>2 DEF LeaseNext
<1>2. CASE \E t \in Transfers : LatePin(t) \/ CloseTicket(t) \/ CloseSession(t)
  BY <1>2 DEF LatePin, CloseTicket, CloseSession
<1>3. CASE \E o \in Objects : Reconstruct(o) \/ Collect(o)
  BY <1>3 DEF Reconstruct, Collect
<1>4. CASE \E n \in Nodes, o \in Objects : Produce(n, o)
  BY <1>4
<1>5. CASE \E n \in Nodes, o \in Objects, k \in 1..Attempts : Drop(n, o, k)
  BY <1>5
<1>6. CASE \E n \in Nodes : NodeExit(n) \/ HandleDeath(n)
  BY <1>6 DEF HandleDeath
<1> QED  BY <1>1, <1>2, <1>3, <1>4, <1>5, <1>6 DEF Next

\* The steps that move a thread.
LEMMA ThreadChanges ==
    ASSUME Next
    PROVE  \/ UNCHANGED thread
           \/ \E l \in Leases :
                 Enter(l) \/ Check(l) \/ Request(l) \/ Pin(l) \/ Read(l) \/
                 Finish(l) \/ Abort(l) \/ Release(l) \/ Leave(l) \/ Grant(l) \/
                 Refuse(l)
           \/ \E n \in Nodes : NodeExit(n)
<1> USE DEF clusterVars, replicaVars, leaseVars, pinVars, taskVars, ownerVars
<1>1. CASE \E l \in Leases : LeaseNext(l)
  BY <1>1 DEF LeaseNext, Submit, Learn, GiveUp, Cancel, Ack, Proceed, End, TargetLost,
          SubmitterExit, Abandon, HandedOver, Report, HandOver
<1>2. CASE \E t \in Transfers : LatePin(t) \/ CloseTicket(t) \/ CloseSession(t)
  BY <1>2 DEF LatePin, CloseTicket, CloseSession
<1>3. CASE \E o \in Objects : Reconstruct(o) \/ Collect(o)
  BY <1>3 DEF Reconstruct, Collect
<1>4. CASE \E n \in Nodes, o \in Objects : Produce(n, o)
  BY <1>4 DEF Produce
<1>5. CASE \E n \in Nodes, o \in Objects, k \in 1..Attempts : Drop(n, o, k)
  BY <1>5 DEF Drop
<1>6. CASE \E n \in Nodes : NodeExit(n) \/ HandleDeath(n)
  BY <1>6 DEF HandleDeath
<1> QED  BY <1>1, <1>2, <1>3, <1>4, <1>5, <1>6 DEF Next

\* The steps that answer a lease request.
LEMMA OutcomeChanges ==
    ASSUME Next
    PROVE  \/ UNCHANGED outcome
           \/ \E l \in Leases :
                 Leave(l) \/ Grant(l) \/ Refuse(l) \/ Cancel(l) \/ Abandon(l)
<1> USE DEF clusterVars, replicaVars, leaseVars, pinVars, taskVars, ownerVars
<1>1. CASE \E l \in Leases : LeaseNext(l)
  BY <1>1 DEF LeaseNext, Enter, Check, Request, Pin, Read, Finish, Abort, Release, Submit,
          Learn, GiveUp, Ack, Proceed, End, TargetLost, SubmitterExit, HandedOver,
          Report, HandOver
<1>2. CASE \E t \in Transfers : LatePin(t) \/ CloseTicket(t) \/ CloseSession(t)
  BY <1>2 DEF LatePin, CloseTicket, CloseSession
<1>3. CASE \E o \in Objects : Reconstruct(o) \/ Collect(o)
  BY <1>3 DEF Reconstruct, Collect
<1>4. CASE \E n \in Nodes, o \in Objects : Produce(n, o)
  BY <1>4 DEF Produce
<1>5. CASE \E n \in Nodes, o \in Objects, k \in 1..Attempts : Drop(n, o, k)
  BY <1>5 DEF Drop
<1>6. CASE \E n \in Nodes : NodeExit(n) \/ HandleDeath(n)
  BY <1>6 DEF NodeExit, HandleDeath
<1> QED  BY <1>1, <1>2, <1>3, <1>4, <1>5, <1>6 DEF Next

\* The steps that change the custody of a lease.
LEMMA CustodyChanges ==
    ASSUME Next
    PROVE  \/ UNCHANGED custody
           \/ \E l \in Leases :
                 Check(l) \/ Finish(l) \/ Leave(l) \/ Cancel(l) \/ Ack(l) \/
                 Abandon(l) \/ HandedOver(l)
           \/ \E l \in Leases, o \in Objects :
                 o \in InputSet(l) /\ HandOver(l, o)
<1> USE DEF clusterVars, replicaVars, leaseVars, pinVars, taskVars, ownerVars
<1>1. CASE \E l \in Leases : LeaseNext(l)
  BY <1>1, InputsTyped DEF LeaseNext, Enter, Request, Pin, Read, Abort, Release, Grant, Refuse, Submit,
          Learn, GiveUp, Proceed, End, TargetLost, SubmitterExit, Report
<1>2. CASE \E t \in Transfers : LatePin(t) \/ CloseTicket(t) \/ CloseSession(t)
  BY <1>2 DEF LatePin, CloseTicket, CloseSession
<1>3. CASE \E o \in Objects : Reconstruct(o) \/ Collect(o)
  BY <1>3 DEF Reconstruct, Collect
<1>4. CASE \E n \in Nodes, o \in Objects : Produce(n, o)
  BY <1>4 DEF Produce
<1>5. CASE \E n \in Nodes, o \in Objects, k \in 1..Attempts : Drop(n, o, k)
  BY <1>5 DEF Drop
<1>6. CASE \E n \in Nodes : NodeExit(n) \/ HandleDeath(n)
  BY <1>6 DEF NodeExit, HandleDeath
<1> QED  BY <1>1, <1>2, <1>3, <1>4, <1>5, <1>6 DEF Next

\* The steps of a source pin and of its release.
LEMMA PinChanges ==
    ASSUME Next
    PROVE  \/ UNCHANGED <<ticket, session, late>>
           \/ \E l \in Leases :
                 Request(l) \/ Pin(l) \/ Release(l)
           \/ \E t \in Transfers : LatePin(t) \/ CloseTicket(t) \/ CloseSession(t)
           \/ \E n \in Nodes : NodeExit(n)
<1> USE DEF clusterVars, replicaVars, leaseVars, pinVars, taskVars, ownerVars
<1>1. CASE \E l \in Leases : LeaseNext(l)
  BY <1>1 DEF LeaseNext, Enter, Check, Read, Finish, Abort, Leave, Grant, Refuse, Submit,
          Learn, GiveUp, Cancel, Ack, Proceed, End, TargetLost, SubmitterExit, Abandon,
          HandedOver, Report, HandOver
<1>2. CASE \E t \in Transfers : LatePin(t) \/ CloseTicket(t) \/ CloseSession(t)
  BY <1>2
<1>3. CASE \E o \in Objects : Reconstruct(o) \/ Collect(o)
  BY <1>3 DEF Reconstruct, Collect
<1>4. CASE \E n \in Nodes, o \in Objects : Produce(n, o)
  BY <1>4 DEF Produce
<1>5. CASE \E n \in Nodes, o \in Objects, k \in 1..Attempts : Drop(n, o, k)
  BY <1>5 DEF Drop
<1>6. CASE \E n \in Nodes : NodeExit(n) \/ HandleDeath(n)
  BY <1>6 DEF HandleDeath
<1> QED  BY <1>1, <1>2, <1>3, <1>4, <1>5, <1>6 DEF Next

\* The steps of a submitter.
LEMMA TaskChanges ==
    ASSUME Next
    PROVE  \/ UNCHANGED <<task, desc>>
           \/ \E l \in Leases :
                 Submit(l) \/ Learn(l) \/ GiveUp(l) \/ Cancel(l) \/ Proceed(l) \/
                 End(l) \/ TargetLost(l) \/ SubmitterExit(l)
<1> USE DEF clusterVars, replicaVars, leaseVars, pinVars, taskVars, ownerVars
<1>1. CASE \E l \in Leases : LeaseNext(l)
  BY <1>1 DEF LeaseNext, Enter, Check, Request, Pin, Read, Finish, Abort, Release, Leave,
          Grant, Refuse, Ack, Abandon, HandedOver, Report, HandOver
<1>2. CASE \E t \in Transfers : LatePin(t) \/ CloseTicket(t) \/ CloseSession(t)
  BY <1>2 DEF LatePin, CloseTicket, CloseSession
<1>3. CASE \E o \in Objects : Reconstruct(o) \/ Collect(o)
  BY <1>3 DEF Reconstruct, Collect
<1>4. CASE \E n \in Nodes, o \in Objects : Produce(n, o)
  BY <1>4 DEF Produce
<1>5. CASE \E n \in Nodes, o \in Objects, k \in 1..Attempts : Drop(n, o, k)
  BY <1>5 DEF Drop
<1>6. CASE \E n \in Nodes : NodeExit(n) \/ HandleDeath(n)
  BY <1>6 DEF NodeExit, HandleDeath
<1> QED  BY <1>1, <1>2, <1>3, <1>4, <1>5, <1>6 DEF Next

\* The steps that report a copy, or doom a Task.
LEMMA ReportChanges ==
    ASSUME Next
    PROVE  \/ UNCHANGED <<reported, doomed>>
           \/ \E l \in Leases :
                 Learn(l) \/ GiveUp(l)
           \/ \E l \in Leases, o \in Objects :
                 o \in InputSet(l) /\ Report(l, o)
<1> USE DEF clusterVars, replicaVars, leaseVars, pinVars, taskVars, ownerVars
<1>1. CASE \E l \in Leases : LeaseNext(l)
  BY <1>1, InputsTyped DEF LeaseNext, Enter, Check, Request, Pin, Read, Finish, Abort, Release, Leave,
          Grant, Refuse, Submit, Cancel, Ack, Proceed, End, TargetLost, SubmitterExit,
          Abandon, HandedOver, HandOver
<1>2. CASE \E t \in Transfers : LatePin(t) \/ CloseTicket(t) \/ CloseSession(t)
  BY <1>2 DEF LatePin, CloseTicket, CloseSession
<1>3. CASE \E o \in Objects : Reconstruct(o) \/ Collect(o)
  BY <1>3 DEF Reconstruct, Collect
<1>4. CASE \E n \in Nodes, o \in Objects : Produce(n, o)
  BY <1>4 DEF Produce
<1>5. CASE \E n \in Nodes, o \in Objects, k \in 1..Attempts : Drop(n, o, k)
  BY <1>5 DEF Drop
<1>6. CASE \E n \in Nodes : NodeExit(n) \/ HandleDeath(n)
  BY <1>6 DEF NodeExit, HandleDeath
<1> QED  BY <1>1, <1>2, <1>3, <1>4, <1>5, <1>6 DEF Next

\* The steps that change an owner's record.
LEMMA OwnerChanges ==
    ASSUME Next
    PROVE  \/ UNCHANGED <<owner, owed>>
           \/ \E l \in Leases, o \in Objects :
                 o \in InputSet(l) /\ (Report(l, o) \/ HandOver(l, o))
           \/ \E o \in Objects : Reconstruct(o) \/ Collect(o)
           \/ \E n \in Nodes, o \in Objects : Produce(n, o)
           \/ \E n \in Nodes, o \in Objects, k \in 1..Attempts : Drop(n, o, k)
           \/ \E n \in Nodes : HandleDeath(n)
<1> USE DEF clusterVars, replicaVars, leaseVars, pinVars, taskVars, ownerVars
<1>1. CASE \E l \in Leases : LeaseNext(l)
  BY <1>1, InputsTyped DEF LeaseNext, Enter, Check, Request, Pin, Read, Finish, Abort, Release, Leave,
          Grant, Refuse, Submit, Learn, GiveUp, Cancel, Ack, Proceed, End, TargetLost,
          SubmitterExit, Abandon, HandedOver
<1>2. CASE \E t \in Transfers : LatePin(t) \/ CloseTicket(t) \/ CloseSession(t)
  BY <1>2 DEF LatePin, CloseTicket, CloseSession
<1>3. CASE \E o \in Objects : Reconstruct(o) \/ Collect(o)
  BY <1>3
<1>4. CASE \E n \in Nodes, o \in Objects : Produce(n, o)
  BY <1>4
<1>5. CASE \E n \in Nodes, o \in Objects, k \in 1..Attempts : Drop(n, o, k)
  BY <1>5
<1>6. CASE \E n \in Nodes : NodeExit(n) \/ HandleDeath(n)
  BY <1>6 DEF NodeExit
<1> QED  BY <1>1, <1>2, <1>3, <1>4, <1>5, <1>6 DEF Next

-----------------------------------------------------------------------------
(* The types, one group of variables at a time *)

Entries == [state : {"absent", "partial", "sealed"}, attempt : 0..Attempts]
Pulls == [state : {"none", "PULLING", "READY", "FAILED"}, attempt : 0..Attempts]
Threads == [pc : ThreadStates, input : Nat, round : 0..Rounds, failed : BOOLEAN, before : BOOLEAN]
Custodies == [pending : SUBSET Objects, held : SUBSET Objects, given : SUBSET Objects,
              handed : {"no", "acked", "abandoned"}, abandoned : BOOLEAN]
Owners == [state : {"pending", "ready", "lost", "retired", "failed"},
           attempt : 1..Attempts, locs : SUBSET Nodes]
Named == [source : Nodes, attempt : 1..Attempts]

ClusterTyped == up \subseteq Nodes /\ dead \subseteq Nodes \ up
StoreTyped == store \in [Nodes -> [Objects -> Entries]]
PullsTyped == pulls \in [Nodes -> [Objects -> Pulls]]
ThreadTyped == thread \in [Leases -> Threads]
OutcomeTyped == outcome \in [Leases -> {"none", "granted", "refused", "rejected", "cancelled"}]
CustodyTyped == custody \in [Leases -> Custodies]
PinsTyped ==
    /\ ticket \in [Transfers -> {"none", "active", "closing", "settled"}]
    /\ session \in [Transfers -> {"none", "open", "closed"}]
    /\ late \subseteq Transfers
TaskTyped == task \in [Leases -> Holding \cup {"new", "ended", "exited"}]
ReportsTyped == doomed \subseteq Leases /\ reported \in [Leases -> SUBSET Objects]
OwnerTyped == owner \in [Objects -> Owners] /\ owed \subseteq Copies

LEMMA Typed ==
    TypeOK <=> /\ ClusterTyped /\ faults \in 0..MaxFaults /\ StoreTyped /\ receipts \subseteq Copies
               /\ PullsTyped /\ ThreadTyped /\ OutcomeTyped /\ CustodyTyped /\ PinsTyped
               /\ TaskTyped /\ ReportsTyped /\ OwnerTyped
<1> USE DEF ClusterTyped, StoreTyped, PullsTyped, ThreadTyped, OutcomeTyped, CustodyTyped,
            PinsTyped, TaskTyped, ReportsTyped, OwnerTyped, Entries, Pulls, Threads,
            Custodies, Owners
<1>1. QED  BY DEF TypeOK

\* What an active thread works at is named by its request, and its Node runs.
LEMMA AtInput ==
    ASSUME TypeOK, Requests, ThreadPlaced, NEW l \in Leases,
           thread[l].pc \notin {"idle", "localized"}
    PROVE  /\ Target[l] \in up /\ Target[l] \in Nodes /\ task[l] # "new"
           /\ thread[l].input \in 1..Len(Inputs[l]) /\ Input(l) = Inputs[l][thread[l].input]
           /\ Input(l) \in InputSet(l) /\ Input(l) \in Objects
           /\ desc[l][Input(l)] \in Named /\ Wanted(l) \in 1..Attempts
           /\ Transfer(l) \in Transfers /\ Transfer(l)[1] = l /\ Transfer(l)[2] = Input(l)
           /\ Source(Transfer(l)) = desc[l][Input(l)].source /\ Source(Transfer(l)) \in Nodes
           /\ Attempt(Transfer(l)) = Wanted(l)
<1>1. Target[l] \in up /\ Target[l] \in Nodes /\ task[l] # "new"
  BY InputsTyped DEF ThreadPlaced, Requests
<1>2. thread[l].input \in 1..Len(Inputs[l]) /\ thread[l].round \in 1..Rounds
  <2>1. thread[l].round \in 0..Rounds
    BY Typed DEF ThreadTyped, Threads
  <2>2. thread[l].input \in 1..Len(Inputs[l]) /\ thread[l].round >= 1
    BY DEF ThreadPlaced
  <2>3. QED  BY <2>1, <2>2, ObjectTransferAssumption
<1>3. Input(l) = Inputs[l][thread[l].input] /\ Input(l) \in InputSet(l) /\ Input(l) \in Objects
  BY <1>2, InputsTyped DEF Input
<1>4. desc[l][Input(l)] \in Named
  BY <1>1, <1>3 DEF Requests, Named
<1>5. Wanted(l) \in 1..Attempts /\ desc[l][Input(l)].source \in Nodes
  BY <1>4 DEF Named, Wanted
<1>6. Transfer(l) \in Transfers /\ Transfer(l)[1] = l /\ Transfer(l)[2] = Input(l)
  BY <1>2, <1>3 DEF Transfer, Transfers
<1>7. QED  BY <1>1, <1>2, <1>3, <1>4, <1>5, <1>6 DEF Source, Attempt, Wanted

\* A step of a thread is one of an active thread.
LEMMA AtActive ==
    ASSUME NEW l \in Leases, NEW pc, At(l, pc), pc \in ThreadStates \ {"idle", "localized"}
    PROVE  thread[l].pc = pc /\ thread[l].pc \notin {"idle", "localized"} /\ Target[l] \in up
BY DEF At

-----------------------------------------------------------------------------
(* The steps of a store *)

Places(n, o, l) == l \in Leases /\ Target[l] = n /\ Input(l) = o

\* What a step may do to the entry of an object.
Takes(n, o) ==
    /\ \E l \in Leases : Request(l) /\ Places(n, o, l) /\ At(l, "request") /\ thread'[l].pc = "pin"
    /\ store[n][o].state = "absent" /\ store'[n][o].state = "partial"
Fills(n, o) ==
    /\ \E l \in Leases : Read(l) /\ Places(n, o, l) /\ At(l, "read")
    /\ store[n][o].state = "partial" /\ store'[n][o].state = "partial"
GivesBack(n, o) ==
    /\ \E l \in Leases : Abort(l) /\ Places(n, o, l) /\ At(l, "failed")
    /\ store[n][o].state = "partial" /\ store'[n][o] = Absent
Arrives(n, o) ==
    \E l \in Leases :
        /\ Finish(l) /\ Places(n, o, l) /\ At(l, "finish") /\ ~Deleted(n, o, Wanted(l))
        /\ store[n][o].state = "partial" /\ store'[n][o] = Sealed(Wanted(l))
IsMade(n, o) ==
    /\ Produce(n, o) /\ ~Deleted(n, o, owner[o].attempt)
    /\ store[n][o].state = "absent" /\ store'[n][o] = Sealed(owner[o].attempt)
IsDropped(n, o) ==
    \E k \in 1..Attempts :
        /\ Drop(n, o, k) /\ <<n, o, k>> \in owed /\ Droppable(n, o, k) /\ ~Locked(n, o)
        /\ store[n][o] = Sealed(k) /\ store'[n][o] = Absent
        /\ receipts' = receipts \cup {<<n, o, k>>}

Moves(n, o) ==
    \/ Takes(n, o) \/ Fills(n, o) \/ GivesBack(n, o) \/ Arrives(n, o) \/ IsMade(n, o)
    \/ IsDropped(n, o)

Base == TypeOK /\ Requests /\ ThreadPlaced

\* Every entry of a Node that runs on is left alone or takes one of these steps.
LEMMA StoreStep ==
    ASSUME Base, PullsOwnTheirPlace, Next
    PROVE  /\ StoreTyped'
           /\ \A n \in Nodes, o \in Objects :
                 store'[n][o] = store[n][o] \/ Moves(n, o) \/ (n \notin up' /\ store'[n][o] = Absent)
<1>1. StoreTyped /\ PullsTyped
  BY Typed DEF Base
<1>2. Absent \in Entries /\ \A k \in 0..Attempts : Partial(k) \in Entries /\ Sealed(k) \in Entries
  BY ObjectTransferAssumption DEF Absent, Partial, Sealed, Entries
<1>3. CASE UNCHANGED store
  BY <1>1, <1>3 DEF StoreTyped
<1>4. ASSUME NEW l \in Leases, Request(l) PROVE
           /\ StoreTyped'
           /\ \A n \in Nodes, o \in Objects : store'[n][o] = store[n][o] \/ Takes(n, o)
  <2>1. At(l, "request") /\ Input(l) \in Objects /\ Target[l] \in Nodes
    BY <1>4, AtInput, AtActive DEF Request, Base, ThreadStates, Locking
  <2>2. CASE UNCHANGED store
    BY <1>1, <2>2 DEF StoreTyped
  <2>3. CASE store' # store
    <3>1. /\ store' = [store EXCEPT ![Target[l]][Input(l)] = Partial(0)]
          /\ ~Present(Target[l], Input(l)) /\ Goto(l, "pin")
      BY <1>4, <2>3 DEF Request
    <3>2. thread'[l].pc = "pin"
      BY <3>1, Typed DEF Goto, ThreadTyped, Threads, Base
    <3>3. /\ StoreTyped' /\ store'[Target[l]][Input(l)] = Partial(0)
          /\ \A m \in Nodes, p \in Objects :
                m # Target[l] \/ p # Input(l) => store'[m][p] = store[m][p]
      BY <1>1, <1>2, <2>1, <3>1, ObjectTransferAssumption DEF StoreTyped
    <3>4. Takes(Target[l], Input(l))
      BY <1>4, <2>1, <3>1, <3>2, <3>3 DEF Takes, Places, Present, Partial
    <3>5. QED  BY <3>3, <3>4
  <2>4. QED  BY <2>2, <2>3
<1>5. ASSUME NEW l \in Leases, Read(l) PROVE
           /\ StoreTyped'
           /\ \A n \in Nodes, o \in Objects : store'[n][o] = store[n][o] \/ Fills(n, o)
  <2>1. At(l, "read") /\ Input(l) \in Objects /\ Target[l] \in Nodes /\ thread[l].pc = "read"
    BY <1>5, AtInput, AtActive DEF Read, Base, ThreadStates, Locking
  <2>2. CASE UNCHANGED store
    BY <1>1, <2>2 DEF StoreTyped
  <2>3. CASE store' # store
    <3>1. store' = [store EXCEPT ![Target[l]][Input(l)] =
                       Partial(store[Source(Transfer(l))][Input(l)].attempt)]
      BY <1>5, <2>3 DEF Read
    <3>2. store[Source(Transfer(l))][Input(l)].attempt \in 0..Attempts
      <4>1. Source(Transfer(l)) \in Nodes
        BY <2>1, AtInput DEF Base
      <4>2. QED  BY <1>1, <2>1, <4>1 DEF StoreTyped, Entries
    <3>3. /\ StoreTyped'
          /\ store'[Target[l]][Input(l)] = Partial(store[Source(Transfer(l))][Input(l)].attempt)
          /\ \A m \in Nodes, p \in Objects :
                m # Target[l] \/ p # Input(l) => store'[m][p] = store[m][p]
      BY <1>1, <1>2, <2>1, <3>1, <3>2 DEF StoreTyped
    <3>4. store[Target[l]][Input(l)].state = "partial"
      BY <2>1 DEF PullsOwnTheirPlace, Pulling
    <3>5. Fills(Target[l], Input(l))
      BY <1>5, <2>1, <3>3, <3>4 DEF Fills, Places, Partial
    <3>6. QED  BY <3>3, <3>5
  <2>4. QED  BY <2>2, <2>3
<1>6. ASSUME NEW l \in Leases, Finish(l) PROVE
           /\ StoreTyped'
           /\ \A n \in Nodes, o \in Objects : store'[n][o] = store[n][o] \/ Arrives(n, o)
  <2>1. /\ At(l, "finish") /\ Input(l) \in Objects /\ Target[l] \in Nodes
        /\ Wanted(l) \in 1..Attempts
    BY <1>6, AtInput, AtActive DEF Finish, Base, ThreadStates, Locking
  <2>2. CASE UNCHANGED store
    BY <1>1, <2>2 DEF StoreTyped
  <2>3. CASE store' # store
    <3>1. /\ store' = [store EXCEPT ![Target[l]][Input(l)] = Sealed(Wanted(l))]
          /\ ~Deleted(Target[l], Input(l), Wanted(l))
          /\ store[Target[l]][Input(l)] = Partial(Wanted(l))
      BY <1>6, <2>3 DEF Finish
    <3>2. /\ StoreTyped' /\ store'[Target[l]][Input(l)] = Sealed(Wanted(l))
          /\ \A m \in Nodes, p \in Objects :
                m # Target[l] \/ p # Input(l) => store'[m][p] = store[m][p]
      BY <1>1, <1>2, <2>1, <3>1, ObjectTransferAssumption DEF StoreTyped
    <3>3. Arrives(Target[l], Input(l))
      BY <1>6, <2>1, <3>1, <3>2 DEF Arrives, Places, Partial
    <3>4. QED  BY <3>2, <3>3
  <2>4. QED  BY <2>2, <2>3
<1>7. ASSUME NEW l \in Leases, Abort(l) PROVE
           /\ StoreTyped'
           /\ \A n \in Nodes, o \in Objects : store'[n][o] = store[n][o] \/ GivesBack(n, o)
  <2>1. At(l, "failed") /\ Input(l) \in Objects /\ Target[l] \in Nodes /\ thread[l].pc = "failed"
    BY <1>7, AtInput, AtActive DEF Abort, Base, ThreadStates, Locking
  <2>2. /\ StoreTyped' /\ store'[Target[l]][Input(l)] = Absent
        /\ \A m \in Nodes, p \in Objects :
              m # Target[l] \/ p # Input(l) => store'[m][p] = store[m][p]
    BY <1>1, <1>2, <1>7, <2>1 DEF StoreTyped, Abort
  <2>3. store[Target[l]][Input(l)].state = "partial"
    BY <2>1 DEF PullsOwnTheirPlace, Pulling
  <2>4. GivesBack(Target[l], Input(l))
    BY <1>7, <2>1, <2>2, <2>3 DEF GivesBack, Places
  <2>5. QED  BY <2>2, <2>4
<1>8. ASSUME NEW n \in Nodes, NEW o \in Objects, Produce(n, o) PROVE
           /\ StoreTyped'
           /\ \A m \in Nodes, p \in Objects : store'[m][p] = store[m][p] \/ IsMade(m, p)
  <2>1. CASE UNCHANGED store
    BY <1>1, <2>1 DEF StoreTyped
  <2>2. CASE store' # store
    <3>1. /\ store' = [store EXCEPT ![n][o] = Sealed(owner[o].attempt)]
          /\ ~Deleted(n, o, owner[o].attempt) /\ ~Present(n, o)
      BY <1>8, <2>2 DEF Produce
    <3>2. owner[o].attempt \in 0..Attempts
      BY Typed, ObjectTransferAssumption DEF Base, OwnerTyped, Owners
    <3>3. /\ StoreTyped' /\ store'[n][o] = Sealed(owner[o].attempt)
          /\ \A m \in Nodes, p \in Objects : m # n \/ p # o => store'[m][p] = store[m][p]
      BY <1>1, <1>2, <3>1, <3>2 DEF StoreTyped
    <3>4. IsMade(n, o)
      BY <1>8, <3>1, <3>3 DEF IsMade, Present
    <3>5. QED  BY <3>3, <3>4
  <2>3. QED  BY <2>1, <2>2
<1>9. ASSUME NEW n \in Nodes, NEW o \in Objects, NEW k \in 1..Attempts, Drop(n, o, k) PROVE
           /\ StoreTyped'
           /\ \A m \in Nodes, p \in Objects : store'[m][p] = store[m][p] \/ IsDropped(m, p)
  <2>1. CASE UNCHANGED store
    BY <1>1, <2>1 DEF StoreTyped
  <2>2. CASE store' # store
    <3>1. /\ store' = [store EXCEPT ![n][o] = Absent] /\ receipts' = receipts \cup {<<n, o, k>>}
          /\ Droppable(n, o, k) /\ <<n, o, k>> \in owed /\ ~Locked(n, o)
      BY <1>9, <2>2 DEF Drop, replicaVars
    <3>2. /\ StoreTyped' /\ store'[n][o] = Absent
          /\ \A m \in Nodes, p \in Objects : m # n \/ p # o => store'[m][p] = store[m][p]
      BY <1>1, <1>2, <3>1 DEF StoreTyped
    <3>3. IsDropped(n, o)
      BY <1>9, <3>1, <3>2 DEF IsDropped, Droppable, Holds
    <3>4. QED  BY <3>2, <3>3
  <2>3. QED  BY <2>1, <2>2
<1>10. ASSUME NEW n \in Nodes, NodeExit(n) PROVE
           /\ StoreTyped'
           /\ \A m \in Nodes, p \in Objects :
                 store'[m][p] = store[m][p] \/ (m \notin up' /\ store'[m][p] = Absent)
  <2>1. n \notin up' /\ store' = [store EXCEPT ![n] = [o \in Objects |-> Absent]]
    BY <1>10 DEF NodeExit
  <2>2. QED  BY <1>1, <1>2, <2>1 DEF StoreTyped
<1>11. QED
  BY <1>3, <1>4, <1>5, <1>6, <1>7, <1>8, <1>9, <1>10, StoreChanges DEF Moves

-----------------------------------------------------------------------------
(* The steps of the other variables *)

\* A thread that moves, and one that fails.
LEMMA GotoEffect ==
    ASSUME ThreadTyped, NEW l \in Leases, NEW pc \in ThreadStates, NEW failed \in BOOLEAN,
           thread' = [thread EXCEPT ![l].pc = pc, ![l].failed = failed]
    PROVE  /\ ThreadTyped'
           /\ thread'[l].pc = pc /\ thread'[l].failed = failed
           /\ thread'[l].input = thread[l].input /\ thread'[l].round = thread[l].round
           /\ \A m \in Leases : m # l => thread'[m] = thread[m]
<1>1. thread[l] \in Threads
  BY DEF ThreadTyped
<1>2. thread' = [thread EXCEPT ![l] = [thread[l] EXCEPT !.pc = pc, !.failed = failed]]
  BY DEF ThreadTyped
<1>3. [thread[l] EXCEPT !.pc = pc, !.failed = failed] \in Threads
  BY <1>1 DEF Threads
<1>4. thread'[l] = [thread[l] EXCEPT !.pc = pc, !.failed = failed]
  BY <1>2 DEF ThreadTyped
<1>5. ThreadTyped' /\ \A m \in Leases : m # l => thread'[m] = thread[m]
  BY <1>2, <1>3 DEF ThreadTyped
<1>6. /\ thread'[l].pc = pc /\ thread'[l].failed = failed
      /\ thread'[l].input = thread[l].input /\ thread'[l].round = thread[l].round
  <2>1. DOMAIN thread[l] = {"pc", "input", "round", "failed", "before"}
    BY <1>1 DEF Threads
  <2>2. QED  BY <1>4, <2>1
<1>7. QED  BY <1>5, <1>6

LEMMA GoesTo ==
    ASSUME ThreadTyped, NEW l \in Leases, NEW pc \in ThreadStates, Goto(l, pc)
    PROVE  /\ ThreadTyped'
           /\ thread'[l].pc = pc /\ thread'[l].failed = thread[l].failed
           /\ thread'[l].input = thread[l].input /\ thread'[l].round = thread[l].round
           /\ \A m \in Leases : m # l => thread'[m] = thread[m]
<1>1. thread[l] \in Threads /\ thread[l].failed \in BOOLEAN
  BY DEF ThreadTyped, Threads
<1>2. thread' = [thread EXCEPT ![l].pc = pc, ![l].failed = thread[l].failed]
  BY <1>1 DEF Goto, ThreadTyped, Threads
<1>3. QED  BY <1>1, <1>2, GotoEffect

LEMMA Advances ==
    ASSUME ThreadTyped, NEW l \in Leases, Advance(l)
    PROVE  /\ ThreadTyped'
           /\ IF thread[l].input < Len(Inputs[l])
              THEN thread'[l].pc = "check" /\ thread'[l].input = thread[l].input + 1
              ELSE thread'[l].pc = "localized"
           /\ thread'[l].round = thread[l].round
           /\ \A m \in Leases : m # l => thread'[m] = thread[m]
<1> DEFINE after == IF thread[l].input < Len(Inputs[l])
                    THEN [thread[l] EXCEPT !.pc = "check", !.input = thread[l].input + 1]
                    ELSE [thread[l] EXCEPT !.pc = "localized"]
<1>1. thread[l] \in Threads /\ thread[l].input \in Nat
  BY DEF ThreadTyped, Threads
<1>2. thread' = [thread EXCEPT ![l] = after]
  <2>1. CASE thread[l].input < Len(Inputs[l])
    BY <2>1 DEF Advance, ThreadTyped
  <2>2. CASE ~(thread[l].input < Len(Inputs[l]))
    BY <2>2 DEF Advance, ThreadTyped
  <2>3. QED  BY <2>1, <2>2
<1>3. /\ after \in Threads
      /\ after.round = thread[l].round
      /\ IF thread[l].input < Len(Inputs[l])
         THEN after.pc = "check" /\ after.input = thread[l].input + 1
         ELSE after.pc = "localized"
  <2>1. CASE thread[l].input < Len(Inputs[l])
    <3>1. thread[l].input + 1 \in Nat /\ "check" \in ThreadStates
      BY <1>1 DEF ThreadStates
    <3>2. QED  BY <1>1, <2>1, <3>1 DEF Threads
  <2>2. CASE ~(thread[l].input < Len(Inputs[l]))
    <3>1. "localized" \in ThreadStates
      BY DEF ThreadStates
    <3>2. QED  BY <1>1, <2>2, <3>1 DEF Threads
  <2>3. QED  BY <2>1, <2>2
<1> HIDE DEF after
<1>4. thread'[l] = after
  BY <1>2 DEF ThreadTyped
<1>5. ThreadTyped' /\ \A m \in Leases : m # l => thread'[m] = thread[m]
  BY <1>2, <1>3 DEF ThreadTyped
<1>6. QED  BY <1>3, <1>4, <1>5

\* What one thread may do: begin, go on within the lock of its input, leave the lock, or end.
Begins(l) ==
    /\ Enter(l) /\ thread[l].pc = "idle" /\ thread'[l].round >= 1 /\ thread'[l].input = 1
    /\ IF Inputs[l] = <<>> THEN thread'[l].pc = "localized" ELSE thread'[l].pc = "check"
Locks(l) ==
    /\ Check(l) /\ thread[l].pc = "check" /\ thread'[l].pc \in {"exit", "request"}
    /\ ~Locked(Target[l], Input(l))
Walks(l) ==
    \/ Request(l) /\ thread[l].pc = "request" /\ thread'[l].pc \in {"exit", "pin"}
    \/ Pin(l) /\ thread[l].pc = "pin" /\ thread'[l].pc \in {"read", "failed"}
    \/ Read(l) /\ thread[l].pc = "read" /\ thread'[l].pc \in {"finish", "failed"}
    \/ Finish(l) /\ thread[l].pc = "finish" /\ thread'[l].pc \in {"release", "failed"}
    \/ Abort(l) /\ thread[l].pc = "failed" /\ thread'[l].pc = "release" /\ thread'[l].failed
    \/ Release(l) /\ thread[l].pc = "release" /\ thread'[l].pc = "exit"
Passes(l) ==
    /\ \/ Check(l) /\ thread[l].pc = "check"
       \/ Release(l) /\ thread[l].pc = "release" /\ ~thread[l].failed
    /\ IF thread[l].input < Len(Inputs[l])
       THEN thread'[l].pc = "check" /\ thread'[l].input = thread[l].input + 1
       ELSE thread'[l].pc = "localized"
Ends(l) ==
    /\ thread'[l].pc = "idle"
    /\ \/ Leave(l) /\ thread[l].pc = "exit"
       \/ (Grant(l) \/ Refuse(l)) /\ thread[l].pc = "localized"

ThreadMoves(l) ==
    /\ Target[l] \in up
    /\ \/ Begins(l)
       \/ /\ thread'[l].round = thread[l].round
          /\ \/ (Locks(l) \/ Walks(l)) /\ thread'[l].input = thread[l].input
             \/ Passes(l) \/ Ends(l)

\* Only its own step moves a thread, or the exit of its Node, which ends it.
LEMMA ThreadStep ==
    ASSUME ThreadTyped, Next
    PROVE  /\ ThreadTyped'
           /\ \A l \in Leases :
                 \/ thread'[l] = thread[l] \/ ThreadMoves(l)
                 \/ thread'[l].pc = "idle" /\ Target[l] \notin up'
<1> USE DEF ThreadStates, Locking
<1>1. CASE UNCHANGED thread
  BY <1>1 DEF ThreadTyped
<1>2. ASSUME NEW l \in Leases, Enter(l)
      PROVE  ThreadTyped' /\ \A m \in Leases : thread'[m] = thread[m] \/ (m = l /\ ThreadMoves(l))
  <2> DEFINE new == [pc |-> IF Inputs[l] = <<>> THEN "localized" ELSE "check", input |-> 1,
                     round |-> thread[l].round + 1, failed |-> FALSE, before |-> FALSE]
  <2>1. thread[l].round \in 0..Rounds /\ thread[l].round < Rounds
    BY <1>2 DEF ThreadTyped, Threads, Enter
  <2>2. new \in Threads /\ new.round >= 1
    BY <2>1, ObjectTransferAssumption DEF Threads
  <2>3. thread' = [thread EXCEPT ![l] = new]
    BY <1>2 DEF Enter, ThreadTyped
  <2>4. thread'[l] = new
    BY <2>3 DEF ThreadTyped
  <2>5. Begins(l) /\ Target[l] \in up
    BY <1>2, <2>2, <2>4 DEF Begins, Enter, At
  <2> HIDE DEF new
  <2>6. ThreadTyped' /\ \A m \in Leases : m # l => thread'[m] = thread[m]
    BY <2>2, <2>3 DEF ThreadTyped
  <2>7. QED  BY <2>5, <2>6 DEF ThreadMoves
<1>3. ASSUME NEW l \in Leases, Check(l)
      PROVE  ThreadTyped' /\ \A m \in Leases : thread'[m] = thread[m] \/ (m = l /\ ThreadMoves(l))
  <2>1. thread[l].pc = "check" /\ Target[l] \in up /\ ~Locked(Target[l], Input(l))
    BY <1>3 DEF Check, At
  <2>2. CASE Advance(l)
    BY <1>3, <2>1, <2>2, Advances DEF ThreadMoves, Passes
  <2>3. CASE ~Advance(l)
    <3>1. PICK b \in BOOLEAN, pc \in {"exit", "request"} :
              thread' = [thread EXCEPT ![l].before = b, ![l].pc = pc]
      BY <1>3, <2>3 DEF Check, Present
    <3>2. thread[l] \in Threads
      BY DEF ThreadTyped
    <3>3. [thread[l] EXCEPT !.before = b, !.pc = pc] \in Threads
      BY <3>2 DEF Threads
    <3>4. thread' = [thread EXCEPT ![l] = [thread[l] EXCEPT !.before = b, !.pc = pc]]
      BY <3>1 DEF ThreadTyped
    <3>5. thread'[l] = [thread[l] EXCEPT !.before = b, !.pc = pc]
      BY <3>4 DEF ThreadTyped
    <3>6. /\ thread'[l].pc = pc /\ thread'[l].round = thread[l].round
          /\ thread'[l].input = thread[l].input
      BY <3>2, <3>5 DEF Threads
    <3>7. ThreadTyped' /\ \A m \in Leases : m # l => thread'[m] = thread[m]
      BY <3>3, <3>4 DEF ThreadTyped
    <3>8. QED  BY <1>3, <2>1, <3>6, <3>7 DEF ThreadMoves, Locks
  <2>4. QED  BY <2>2, <2>3
<1>4. ASSUME NEW l \in Leases, Request(l) \/ Pin(l) \/ Read(l) \/ Finish(l)
      PROVE  ThreadTyped' /\ \A m \in Leases : thread'[m] = thread[m] \/ (m = l /\ ThreadMoves(l))
  <2>1. Target[l] \in up
    BY <1>4 DEF Request, Pin, Read, Finish, At
  <2>2. CASE Request(l)
    <3>1. PICK pc \in {"exit", "pin"} : Goto(l, pc)
      BY <2>2 DEF Request
    <3>2. QED  BY <2>1, <2>2, <3>1, GoesTo DEF ThreadMoves, Walks, Request, At
  <2>3. CASE Pin(l)
    <3>1. PICK pc \in {"read", "failed"} : Goto(l, pc)
      BY <2>3 DEF Pin
    <3>2. QED  BY <2>1, <2>3, <3>1, GoesTo DEF ThreadMoves, Walks, Pin, At
  <2>4. CASE Read(l)
    <3>1. PICK pc \in {"finish", "failed"} : Goto(l, pc)
      BY <2>4 DEF Read
    <3>2. QED  BY <2>1, <2>4, <3>1, GoesTo DEF ThreadMoves, Walks, Read, At
  <2>5. CASE Finish(l)
    <3>1. PICK pc \in {"release", "failed"} : Goto(l, pc)
      BY <2>5 DEF Finish
    <3>2. QED  BY <2>1, <2>5, <3>1, GoesTo DEF ThreadMoves, Walks, Finish, At
  <2>6. QED  BY <1>4, <2>2, <2>3, <2>4, <2>5
<1>5. ASSUME NEW l \in Leases, Abort(l)
      PROVE  ThreadTyped' /\ \A m \in Leases : thread'[m] = thread[m] \/ (m = l /\ ThreadMoves(l))
  <2>1. /\ Target[l] \in up /\ thread[l].pc = "failed"
        /\ thread' = [thread EXCEPT ![l].pc = "release", ![l].failed = TRUE]
    BY <1>5 DEF Abort, At, Fails
  <2>2. QED  BY <1>5, <2>1, GotoEffect DEF ThreadMoves, Walks
<1>6. ASSUME NEW l \in Leases, Release(l)
      PROVE  ThreadTyped' /\ \A m \in Leases : thread'[m] = thread[m] \/ (m = l /\ ThreadMoves(l))
  <2>1. Target[l] \in up /\ thread[l].pc = "release"
    BY <1>6 DEF Release, At
  <2>2. CASE Goto(l, "exit")
    BY <1>6, <2>1, <2>2, GoesTo DEF ThreadMoves, Walks
  <2>3. CASE ~Goto(l, "exit")
    <3>1. ~thread[l].failed /\ Advance(l)
      BY <1>6, <2>3 DEF Release
    <3>2. QED  BY <1>6, <2>1, <3>1, Advances DEF ThreadMoves, Passes
  <2>4. QED  BY <2>2, <2>3
<1>7. ASSUME NEW l \in Leases, Leave(l) \/ Grant(l) \/ Refuse(l)
      PROVE  ThreadTyped' /\ \A m \in Leases : thread'[m] = thread[m] \/ (m = l /\ ThreadMoves(l))
  <2>1. /\ Target[l] \in up /\ Goto(l, "idle")
        /\ \/ Leave(l) /\ thread[l].pc = "exit"
           \/ (Grant(l) \/ Refuse(l)) /\ thread[l].pc = "localized"
    BY <1>7 DEF Leave, Grant, Refuse, At
  <2>2. QED  BY <2>1, GoesTo DEF ThreadMoves, Ends
<1>8. ASSUME NEW n \in Nodes, NodeExit(n)
      PROVE  /\ ThreadTyped'
             /\ \A m \in Leases : thread'[m] = thread[m]
                                  \/ (thread'[m].pc = "idle" /\ Target[m] \notin up')
  <2>1. /\ n \notin up'
        /\ thread' = [l \in Leases |-> IF Target[l] = n THEN [Idle EXCEPT !.round = thread[l].round]
                                                       ELSE thread[l]]
    BY <1>8 DEF NodeExit
  <2>2. \A l \in Leases : /\ [Idle EXCEPT !.round = thread[l].round] \in Threads
                          /\ [Idle EXCEPT !.round = thread[l].round].pc = "idle"
    BY DEF ThreadTyped, Threads, Idle
  <2>3. QED  BY <2>1, <2>2 DEF ThreadTyped
<1>9. QED
  BY <1>1, <1>2, <1>3, <1>4, <1>5, <1>6, <1>7, <1>8, ThreadChanges

\* What a step may do to the custody of a lease: record the copy of an input, begin with one,
\* discard it, resolve what is pending, or hand over.
Rest(l) ==
    /\ custody'[l].given = custody[l].given /\ custody'[l].handed = custody[l].handed
    /\ custody'[l].abandoned = custody[l].abandoned
Records(l) ==
    /\ \/ Check(l) /\ thread[l].pc = "check"
       \/ Finish(l) /\ thread[l].pc = "finish"
       \/ Leave(l) /\ thread[l].pc = "exit"
    /\ custody'[l].pending = custody[l].pending \ {Input(l)}
    /\ custody'[l].held = custody[l].held \cup {Input(l)} /\ Rest(l)
    /\ store'[Target[l]][Input(l)] = Sealed(Wanted(l))
Starts(l) ==
    /\ Check(l) /\ thread[l].pc = "check"
    /\ custody'[l].pending = custody[l].pending \cup {Input(l)}
    /\ custody'[l].held = custody[l].held /\ Rest(l)
Discards(l) ==
    /\ Leave(l) /\ thread[l].pc = "exit" /\ UNCHANGED store
    /\ ~Holds(Target[l], Input(l), Wanted(l))
    /\ custody'[l].pending = custody[l].pending \ {Input(l)}
    /\ custody'[l].held = custody[l].held /\ Rest(l)
Resolves(l) ==
    /\ thread[l].pc = "idle" /\ UNCHANGED store
    /\ custody'[l].pending \subseteq custody[l].pending
    /\ \A o \in custody[l].pending : Holds(Target[l], o, desc[l][o].attempt) => o \in custody'[l].held
    /\ custody[l].held \subseteq custody'[l].held
    /\ \A o \in custody'[l].held \ custody[l].held :
          o \in custody[l].pending /\ Holds(Target[l], o, desc[l][o].attempt)
    /\ custody'[l].given = custody[l].given /\ custody'[l].handed = custody[l].handed
    /\ \/ Cancel(l) /\ custody'[l].abandoned = custody[l].abandoned
       \/ Abandon(l) /\ custody'[l].abandoned
Hands(l) ==
    /\ custody'[l].pending = custody[l].pending /\ custody'[l].held = custody[l].held
    /\ custody'[l].given = custody[l].given /\ custody'[l].abandoned = custody[l].abandoned
    /\ \/ Ack(l) /\ custody'[l].handed = "acked"
       \/ HandedOver(l) /\ custody'[l].handed = "abandoned"
Gives(l) ==
    /\ custody'[l].pending = custody[l].pending /\ custody'[l].held = custody[l].held
    /\ custody'[l].handed = custody[l].handed /\ custody'[l].abandoned = custody[l].abandoned
    /\ \E o \in InputSet(l) : HandOver(l, o) /\ custody'[l].given = custody[l].given \cup {o}

CustodyMoves(l) ==
    Target[l] \in up /\ (Records(l) \/ Starts(l) \/ Discards(l) \/ Resolves(l) \/ Hands(l) \/ Gives(l))

LEMMA CustodyUpdated ==
    ASSUME CustodyTyped, NEW l \in Leases, NEW c \in Custodies, custody' = [custody EXCEPT ![l] = c]
    PROVE  CustodyTyped' /\ custody'[l] = c /\ \A m \in Leases : m # l => custody'[m] = custody[m]
BY DEF CustodyTyped

\* The four ways to write one lease's custody down.
LEMMA CustodyForms ==
    ASSUME NEW c \in Custodies, NEW o \in Objects
    PROVE  /\ Recorded(c, o) \in Custodies /\ Begun(c, o) \in Custodies /\ Discarded(c, o) \in Custodies
           /\ Recorded(c, o).pending = c.pending \ {o} /\ Recorded(c, o).held = c.held \cup {o}
           /\ Begun(c, o).pending = c.pending \cup {o} /\ Begun(c, o).held = c.held
           /\ Discarded(c, o).pending = c.pending \ {o} /\ Discarded(c, o).held = c.held
           /\ \A d \in {Recorded(c, o), Begun(c, o), Discarded(c, o)} :
                 d.given = c.given /\ d.handed = c.handed /\ d.abandoned = c.abandoned
<1>1. /\ c.pending \in SUBSET Objects /\ c.held \in SUBSET Objects
      /\ c.handed \in {"no", "acked", "abandoned"} /\ c.abandoned \in BOOLEAN
  BY DEF Custodies
<1>2. /\ Recorded(c, o) \in Custodies /\ Begun(c, o) \in Custodies /\ Discarded(c, o) \in Custodies
  BY <1>1 DEF Custodies, Recorded, Begun, Discarded
<1>3. QED  BY <1>1, <1>2 DEF Custodies, Recorded, Begun, Discarded

LEMMA RecordedEffect ==
    ASSUME CustodyTyped, NEW l \in Leases, NEW o \in Objects,
           custody' = [custody EXCEPT ![l] = Recorded(custody[l], o)]
    PROVE  /\ CustodyTyped' /\ \A m \in Leases : m # l => custody'[m] = custody[m]
           /\ custody'[l].pending = custody[l].pending \ {o} /\ custody'[l].held = custody[l].held \cup {o}
           /\ Rest(l)
<1> DEFINE c == Recorded(custody[l], o)
<1>1. custody[l] \in Custodies
  BY DEF CustodyTyped
<1>2. /\ c \in Custodies /\ c.pending = custody[l].pending \ {o} /\ c.held = custody[l].held \cup {o}
      /\ c.given = custody[l].given /\ c.handed = custody[l].handed
      /\ c.abandoned = custody[l].abandoned
  BY <1>1, CustodyForms
<1>3. custody' = [custody EXCEPT ![l] = c]
  OBVIOUS
<1> HIDE DEF c
<1>4. CustodyTyped' /\ custody'[l] = c /\ \A m \in Leases : m # l => custody'[m] = custody[m]
  BY <1>2, <1>3, CustodyUpdated
<1>5. QED  BY <1>2, <1>4 DEF Rest

LEMMA BegunEffect ==
    ASSUME CustodyTyped, NEW l \in Leases, NEW o \in Objects,
           custody' = [custody EXCEPT ![l] = Begun(custody[l], o)]
    PROVE  /\ CustodyTyped' /\ \A m \in Leases : m # l => custody'[m] = custody[m]
           /\ custody'[l].pending = custody[l].pending \cup {o} /\ custody'[l].held = custody[l].held
           /\ Rest(l)
<1> DEFINE c == Begun(custody[l], o)
<1>1. custody[l] \in Custodies
  BY DEF CustodyTyped
<1>2. /\ c \in Custodies /\ c.pending = custody[l].pending \cup {o} /\ c.held = custody[l].held
      /\ c.given = custody[l].given /\ c.handed = custody[l].handed
      /\ c.abandoned = custody[l].abandoned
  BY <1>1, CustodyForms
<1>3. custody' = [custody EXCEPT ![l] = c]
  OBVIOUS
<1> HIDE DEF c
<1>4. CustodyTyped' /\ custody'[l] = c /\ \A m \in Leases : m # l => custody'[m] = custody[m]
  BY <1>2, <1>3, CustodyUpdated
<1>5. QED  BY <1>2, <1>4 DEF Rest

LEMMA DiscardedEffect ==
    ASSUME CustodyTyped, NEW l \in Leases, NEW o \in Objects,
           custody' = [custody EXCEPT ![l] = Discarded(custody[l], o)]
    PROVE  /\ CustodyTyped' /\ \A m \in Leases : m # l => custody'[m] = custody[m]
           /\ custody'[l].pending = custody[l].pending \ {o} /\ custody'[l].held = custody[l].held
           /\ Rest(l)
<1> DEFINE c == Discarded(custody[l], o)
<1>1. custody[l] \in Custodies
  BY DEF CustodyTyped
<1>2. /\ c \in Custodies /\ c.pending = custody[l].pending \ {o} /\ c.held = custody[l].held
      /\ c.given = custody[l].given /\ c.handed = custody[l].handed
      /\ c.abandoned = custody[l].abandoned
  BY <1>1, CustodyForms
<1>3. custody' = [custody EXCEPT ![l] = c]
  OBVIOUS
<1> HIDE DEF c
<1>4. CustodyTyped' /\ custody'[l] = c /\ \A m \in Leases : m # l => custody'[m] = custody[m]
  BY <1>2, <1>3, CustodyUpdated
<1>5. QED  BY <1>2, <1>4 DEF Rest

\* Only its own step changes the custody of a lease.
LEMMA CustodyStep ==
    ASSUME Base, Next
    PROVE  CustodyTyped' /\ \A l \in Leases : custody'[l] = custody[l] \/ CustodyMoves(l)
<1>1. CustodyTyped /\ StoreTyped /\ \A l \in Leases : custody[l] \in Custodies
  BY Typed DEF Base, CustodyTyped
<1>2. CASE UNCHANGED custody
  BY <1>1, <1>2 DEF CustodyTyped
<1>3. ASSUME NEW l \in Leases, Check(l)
      PROVE  CustodyTyped' /\ \A m \in Leases : custody'[m] = custody[m] \/ (m = l /\ CustodyMoves(l))
  <2>1. thread[l].pc = "check" /\ Target[l] \in up /\ Input(l) \in Objects
    BY <1>3, AtInput DEF Check, At, Base
  <2>2. CASE custody' = [custody EXCEPT ![l] = Recorded(custody[l], Input(l))] /\ UNCHANGED store
                /\ Holds(Target[l], Input(l), Wanted(l))
    BY <1>1, <1>3, <2>1, <2>2, RecordedEffect DEF CustodyMoves, Records, Holds
  <2>3. CASE custody' = [custody EXCEPT ![l] = Begun(custody[l], Input(l))]
    BY <1>1, <1>3, <2>1, <2>3, BegunEffect DEF CustodyMoves, Starts
  <2>4. \/ custody' = [custody EXCEPT ![l] = Recorded(custody[l], Input(l))] /\ UNCHANGED store
           /\ Holds(Target[l], Input(l), Wanted(l))
        \/ custody' = [custody EXCEPT ![l] = Begun(custody[l], Input(l))]
    BY <1>3 DEF Check
  <2>5. QED  BY <2>2, <2>3, <2>4
<1>4. ASSUME NEW l \in Leases, Finish(l)
      PROVE  CustodyTyped' /\ \A m \in Leases : custody'[m] = custody[m] \/ (m = l /\ CustodyMoves(l))
  <2>1. thread[l].pc = "finish" /\ Target[l] \in up /\ Target[l] \in Nodes /\ Input(l) \in Objects
    BY <1>4, AtInput DEF Finish, At, Base
  <2>2. CASE UNCHANGED custody
    BY <1>1, <2>2 DEF CustodyTyped
  <2>3. CASE custody' # custody
    <3>1. /\ custody' = [custody EXCEPT ![l] = Recorded(custody[l], Input(l))]
          /\ store' = [store EXCEPT ![Target[l]][Input(l)] = Sealed(Wanted(l))]
      BY <1>4, <2>3 DEF Finish
    <3>2. store'[Target[l]][Input(l)] = Sealed(Wanted(l))
      BY <1>1, <2>1, <3>1 DEF StoreTyped
    <3>3. QED
      BY <1>1, <1>4, <2>1, <3>1, <3>2, RecordedEffect DEF CustodyMoves, Records
  <2>4. QED  BY <2>2, <2>3
<1>5. ASSUME NEW l \in Leases, Leave(l)
      PROVE  CustodyTyped' /\ \A m \in Leases : custody'[m] = custody[m] \/ (m = l /\ CustodyMoves(l))
  <2>1. /\ thread[l].pc = "exit" /\ Target[l] \in up /\ Input(l) \in Objects /\ UNCHANGED store
    BY <1>5, AtInput DEF Leave, At, Base, replicaVars
  <2>2. CASE /\ Holds(Target[l], Input(l), Wanted(l))
             /\ custody' = [custody EXCEPT ![l] = Recorded(custody[l], Input(l))]
    BY <1>1, <1>5, <2>1, <2>2, RecordedEffect DEF CustodyMoves, Records, Holds
  <2>3. CASE /\ ~Holds(Target[l], Input(l), Wanted(l))
             /\ custody' = [custody EXCEPT ![l] = Discarded(custody[l], Input(l))]
    BY <1>1, <1>5, <2>1, <2>3, DiscardedEffect DEF CustodyMoves, Discards
  <2>4. CASE custody' = [custody EXCEPT ![l] = custody[l]]
    BY <1>1, <2>4 DEF CustodyTyped
  <2>5. \/ /\ Holds(Target[l], Input(l), Wanted(l))
           /\ custody' = [custody EXCEPT ![l] = Recorded(custody[l], Input(l))]
        \/ /\ ~Holds(Target[l], Input(l), Wanted(l))
           /\ custody' = [custody EXCEPT ![l] = Discarded(custody[l], Input(l))]
        \/ custody' = [custody EXCEPT ![l] = custody[l]]
    <3>1. CASE Holds(Target[l], Input(l), Wanted(l))
      BY <1>5, <3>1 DEF Leave
    <3> DEFINE empty == store[Target[l]][Input(l)].state # "sealed" \/ thread[l].before
    <3>2. CASE ~Holds(Target[l], Input(l), Wanted(l)) /\ empty
      BY <1>5, <3>2 DEF Leave
    <3>3. CASE ~Holds(Target[l], Input(l), Wanted(l)) /\ ~empty
      BY <1>5, <3>3 DEF Leave
    <3>4. QED  BY <3>1, <3>2, <3>3
  <2>6. QED  BY <2>2, <2>3, <2>4, <2>5
<1>6. ASSUME NEW l \in Leases, Cancel(l) \/ Abandon(l)
      PROVE  CustodyTyped' /\ \A m \in Leases : custody'[m] = custody[m] \/ (m = l /\ CustodyMoves(l))
  <2>1. thread[l].pc = "idle" /\ Target[l] \in up /\ UNCHANGED store
    BY <1>6 DEF Cancel, Abandon, At, replicaVars
  <2> DEFINE r == Reconciled(l)
             a == [r EXCEPT !.abandoned = TRUE]
             holding(o) == Holds(Target[l], o, desc[l][o].attempt)
  <2>2. /\ r \in Custodies /\ r.given = custody[l].given /\ r.handed = custody[l].handed
        /\ r.abandoned = custody[l].abandoned
        /\ r.pending = {o \in custody[l].pending : store[Target[l]][o].state = "sealed" /\ ~holding(o)}
        /\ r.held = custody[l].held \cup {o \in custody[l].pending : holding(o)}
    BY <1>1 DEF Reconciled, Custodies
  <2>3. /\ a \in Custodies /\ a.given = custody[l].given /\ a.handed = custody[l].handed
        /\ a.abandoned /\ a.pending = r.pending /\ a.held = r.held
    <3> HIDE DEF r
    <3>1. QED  BY <2>2 DEF Custodies
  <2>4. \/ Cancel(l) /\ custody' = [custody EXCEPT ![l] = r]
        \/ Abandon(l) /\ custody' = [custody EXCEPT ![l] = a]
    BY <1>6 DEF Cancel, Abandon
  <2> HIDE DEF r, a
  <2>5. /\ CustodyTyped' /\ \A m \in Leases : m # l => custody'[m] = custody[m]
        /\ \/ Cancel(l) /\ custody'[l] = r
           \/ Abandon(l) /\ custody'[l] = a
    BY <1>1, <2>2, <2>3, <2>4, CustodyUpdated
  <2>6. Resolves(l)
    <3>1. custody'[l].pending = r.pending /\ custody'[l].held = r.held
      BY <2>3, <2>5
    <3>2. QED  BY <2>1, <2>2, <2>3, <2>5, <3>1 DEF Resolves
  <2>7. QED  BY <2>1, <2>5, <2>6 DEF CustodyMoves
<1>7. ASSUME NEW l \in Leases, Ack(l) \/ HandedOver(l)
      PROVE  CustodyTyped' /\ \A m \in Leases : custody'[m] = custody[m] \/ (m = l /\ CustodyMoves(l))
  <2>1. Target[l] \in up
    BY <1>7 DEF Ack, HandedOver
  <2>2. PICK way \in {"acked", "abandoned"} :
            /\ custody' = [custody EXCEPT ![l] = [custody[l] EXCEPT !.handed = way]]
            /\ IF way = "acked" THEN Ack(l) ELSE HandedOver(l)
    BY <1>1, <1>7 DEF Ack, HandedOver, CustodyTyped, Custodies
  <2> DEFINE c == [custody[l] EXCEPT !.handed = way]
  <2>3. /\ c \in Custodies /\ c.handed = way /\ c.pending = custody[l].pending
        /\ c.held = custody[l].held /\ c.given = custody[l].given /\ c.abandoned = custody[l].abandoned
    BY <1>1 DEF Custodies
  <2> HIDE DEF c
  <2>4. CustodyTyped' /\ custody'[l] = c /\ \A m \in Leases : m # l => custody'[m] = custody[m]
    BY <1>1, <2>2, <2>3, CustodyUpdated DEF c
  <2>5. QED  BY <2>1, <2>2, <2>3, <2>4 DEF CustodyMoves, Hands
<1>8. ASSUME NEW l \in Leases, NEW o \in Objects, o \in InputSet(l), HandOver(l, o)
      PROVE  CustodyTyped' /\ \A m \in Leases : custody'[m] = custody[m] \/ (m = l /\ CustodyMoves(l))
  <2>1. Target[l] \in up
    BY <1>8 DEF HandOver
  <2>2. CASE UNCHANGED custody
    BY <1>1, <2>2 DEF CustodyTyped
  <2>3. CASE custody' # custody
    <3> DEFINE c == [custody[l] EXCEPT !.given = custody[l].given \cup {o}]
    <3>1. custody' = [custody EXCEPT ![l] = c]
      BY <1>1, <1>8, <2>3 DEF HandOver, CustodyTyped, Custodies
    <3>2. /\ c \in Custodies /\ c.handed = custody[l].handed /\ c.pending = custody[l].pending
          /\ c.held = custody[l].held /\ c.given = custody[l].given \cup {o}
          /\ c.abandoned = custody[l].abandoned
      BY <1>1 DEF Custodies
    <3> HIDE DEF c
    <3>3. CustodyTyped' /\ custody'[l] = c /\ \A m \in Leases : m # l => custody'[m] = custody[m]
      BY <1>1, <3>1, <3>2, CustodyUpdated
    <3>4. QED  BY <1>8, <2>1, <3>2, <3>3 DEF CustodyMoves, Gives
  <2>4. QED  BY <2>2, <2>3
<1>9. QED
  BY <1>2, <1>3, <1>4, <1>5, <1>6, <1>7, <1>8, CustodyChanges

\* How a lease request is answered.
OutcomeMoves(l) ==
    /\ Target[l] \in up
    /\ \/ Leave(l) /\ thread[l].pc = "exit" /\ outcome'[l] = "rejected"
       \/ /\ Grant(l) /\ thread[l].pc = "localized"
          /\ outcome'[l] \in {"granted", "rejected"}
       \/ Refuse(l) /\ thread[l].pc = "localized" /\ outcome'[l] = "refused"
       \/ Cancel(l) /\ thread[l].pc = "idle" /\ outcome'[l] = "cancelled"
       \/ Abandon(l) /\ thread[l].pc = "idle" /\ outcome[l] = "granted" /\ outcome'[l] = "cancelled"

LEMMA OutcomeStep ==
    ASSUME OutcomeTyped, Next
    PROVE  OutcomeTyped' /\ \A l \in Leases : outcome'[l] = outcome[l] \/ OutcomeMoves(l)
<1>1. CASE UNCHANGED outcome
  BY <1>1 DEF OutcomeTyped
<1>2. ASSUME NEW l \in Leases, Leave(l) \/ Grant(l) \/ Refuse(l) \/ Cancel(l) \/ Abandon(l)
      PROVE  OutcomeTyped' /\ \A m \in Leases : outcome'[m] = outcome[m] \/ (m = l /\ OutcomeMoves(l))
  <2>1. CASE Leave(l)
    BY <2>1 DEF Leave, At, OutcomeTyped, OutcomeMoves
  <2>2. CASE Grant(l)
    BY <2>2 DEF Grant, At, OutcomeTyped, OutcomeMoves
  <2>3. CASE Refuse(l)
    BY <2>3 DEF Refuse, At, OutcomeTyped, OutcomeMoves
  <2>4. CASE Cancel(l)
    BY <2>4 DEF Cancel, At, OutcomeTyped, OutcomeMoves
  <2>5. CASE Abandon(l)
    BY <2>5 DEF Abandon, At, OutcomeTyped, OutcomeMoves
  <2>6. QED  BY <1>2, <2>1, <2>2, <2>3, <2>4, <2>5
<1>3. QED  BY <1>1, <1>2, OutcomeChanges

\* How a submitter goes on.
TaskMoves(l) ==
    \/ Submit(l) /\ task[l] = "new" /\ task'[l] = "asking"
    \/ Learn(l) /\ task[l] = "asking" /\ task'[l] \in {"granted", "cancelling"}
    \/ GiveUp(l) /\ task[l] = "asking" /\ task'[l] = "cancelling"
    \/ Cancel(l) /\ task[l] \in {"cancelling", "granted"} /\ task'[l] = "cancelled"
    \/ Proceed(l) /\ task[l] \in {"granted", "cancelled"} /\ task'[l] \in {"running", "ended"}
    \/ task[l] \in Holding /\ task'[l] \in {"ended", "exited"}

LEMMA TaskStep ==
    ASSUME TaskTyped, Next
    PROVE  /\ TaskTyped'
           /\ \A l \in Leases : /\ task'[l] = task[l] \/ TaskMoves(l)
                                /\ task[l] # "new" => desc'[l] = desc[l]
                                /\ task[l] = "new" /\ task'[l] # "new" => Submit(l)
<1> USE DEF Holding
<1>1. CASE UNCHANGED <<task, desc>>
  BY <1>1 DEF TaskTyped
<1>2. ASSUME NEW l \in Leases, Submit(l)
      PROVE  /\ TaskTyped' /\ TaskMoves(l) /\ task[l] = "new"
             /\ \A m \in Leases : m # l => task'[m] = task[m] /\ desc'[m] = desc[m]
  <2>1. /\ task[l] = "new" /\ task' = [task EXCEPT ![l] = "asking"]
        /\ \E d : desc' = [desc EXCEPT ![l] = d]
    BY <1>2 DEF Submit
  <2>2. QED  BY <1>2, <2>1 DEF TaskTyped, TaskMoves
<1>3. ASSUME NEW l \in Leases,
             Learn(l) \/ GiveUp(l) \/ Cancel(l) \/ Proceed(l) \/ End(l) \/ TargetLost(l) \/ SubmitterExit(l)
      PROVE  /\ TaskTyped' /\ UNCHANGED desc
             /\ \A m \in Leases : task'[m] = task[m] \/ (m = l /\ TaskMoves(l) /\ task[l] # "new")
  <2> USE DEF TaskTyped, TaskMoves, taskVars
  <2>1. CASE Learn(l)
    BY <2>1 DEF Learn
  <2>2. CASE GiveUp(l)
    BY <2>2 DEF GiveUp
  <2>3. CASE Cancel(l)
    BY <2>3 DEF Cancel
  <2>4. CASE Proceed(l)
    BY <2>4 DEF Proceed
  <2>5. CASE End(l)
    BY <2>5 DEF End
  <2>6. CASE TargetLost(l)
    BY <2>6 DEF TargetLost
  <2>7. CASE SubmitterExit(l)
    BY <2>7 DEF SubmitterExit
  <2>8. QED  BY <1>3, <2>1, <2>2, <2>3, <2>4, <2>5, <2>6, <2>7
<1>4. QED  BY <1>1, <1>2, <1>3, TaskChanges

\* What is reported, and which Tasks are doomed, only grows.
ReportsMove(l) ==
    \/ /\ l \in doomed /\ l \in doomed'
       /\ reported'[l] = reported[l]
    \/ (Learn(l) \/ GiveUp(l)) /\ l \in doomed' /\ reported'[l] = reported[l] /\ task[l] = "asking"
    \/ \E o \in InputSet(l) :
          /\ Report(l, o) /\ reported'[l] = reported[l] \cup {o}
          /\ l \in doomed' <=> l \in doomed \/ Retired(o, desc[l][o].attempt)

LEMMA ReportsStep ==
    ASSUME ReportsTyped, Next
    PROVE  /\ ReportsTyped'
           /\ \A l \in Leases :
                 \/ reported'[l] = reported[l] /\ (l \in doomed' <=> l \in doomed)
                 \/ ReportsMove(l)
<1>1. CASE UNCHANGED <<reported, doomed>>
  BY <1>1 DEF ReportsTyped
<1>2. ASSUME NEW l \in Leases, Learn(l) \/ GiveUp(l)
      PROVE  /\ ReportsTyped'
             /\ \A m \in Leases : \/ reported'[m] = reported[m] /\ (m \in doomed' <=> m \in doomed)
                                  \/ m = l /\ ReportsMove(l)
  <2>1. /\ UNCHANGED reported /\ task[l] = "asking"
        /\ doomed' = doomed \/ doomed' = doomed \cup {l}
    BY <1>2 DEF Learn, GiveUp
  <2>2. QED  BY <1>2, <2>1 DEF ReportsTyped, ReportsMove
<1>3. ASSUME NEW l \in Leases, NEW o \in Objects, o \in InputSet(l), Report(l, o)
      PROVE  /\ ReportsTyped'
             /\ \A m \in Leases : \/ reported'[m] = reported[m] /\ (m \in doomed' <=> m \in doomed)
                                  \/ m = l /\ ReportsMove(l)
  <2>1. \/ UNCHANGED <<reported, doomed>>
        \/ /\ reported' = [reported EXCEPT ![l] = reported[l] \cup {o}]
           /\ doomed' = IF Retired(o, desc[l][o].attempt) THEN doomed \cup {l} ELSE doomed
    BY <1>3 DEF Report
  <2>2. QED  BY <1>3, <2>1 DEF ReportsTyped, ReportsMove
<1>4. QED  BY <1>1, <1>2, <1>3, ReportChanges

\* A transfer's pin or the obligation to release it, and the ways to come by one.
Used(t) == session[t] # "none" \/ ticket[t] # "none" \/ t \in late
Opens(t) == Pinnable(t) /\ session'[t] = "open"

LEMMA PinsStep ==
    ASSUME Base, Next
    PROVE  /\ PinsTyped'
           /\ \A t \in Transfers :
                 /\ Used(t)' => Used(t) \/ \E l \in Leases : t = Transfer(l) /\ thread[l].pc \in Locking
                 /\ session'[t] = "open" => session[t] = "open" \/ Opens(t)
<1> USE DEF Used
<1>1. PinsTyped
  BY Typed DEF Base
<1>2. CASE UNCHANGED <<ticket, session, late>>
  BY <1>1, <1>2 DEF PinsTyped
<1>3. ASSUME NEW l \in Leases, Request(l) \/ Pin(l) \/ Release(l)
      PROVE  /\ PinsTyped' /\ thread[l].pc \in Locking
             /\ \A t \in Transfers :
                   /\ Used(t)' => Used(t) \/ t = Transfer(l)
                   /\ session'[t] = "open" => session[t] = "open" \/ Opens(t)
  <2>1. thread[l].pc \in {"request", "pin", "release"} /\ Transfer(l) \in Transfers
    BY <1>3, AtInput DEF Base, Request, Pin, Release, At
  <2>2. CASE Request(l)
    BY <1>1, <2>1, <2>2 DEF Request, PinsTyped, Locking
  <2>3. CASE Pin(l)
    BY <1>1, <2>1, <2>3 DEF Pin, ServePin, PinsTyped, Opens, Locking
  <2>4. CASE Release(l)
    BY <1>1, <2>1, <2>4 DEF Release, ServeRelease, PinsTyped, Locking
  <2>5. QED  BY <1>3, <2>2, <2>3, <2>4
<1>4. ASSUME NEW t \in Transfers, LatePin(t) \/ CloseTicket(t) \/ CloseSession(t)
      PROVE  /\ PinsTyped'
             /\ \A u \in Transfers :
                   /\ Used(u)' => Used(u)
                   /\ session'[u] = "open" => session[u] = "open" \/ Opens(u)
  <2>1. CASE LatePin(t)
    BY <1>1, <2>1 DEF LatePin, ServePin, PinsTyped, Opens
  <2>2. CASE CloseTicket(t)
    BY <1>1, <2>2 DEF CloseTicket, ServeRelease, PinsTyped
  <2>3. CASE CloseSession(t)
    BY <1>1, <2>3 DEF CloseSession, ServeRelease, PinsTyped
  <2>4. QED  BY <1>4, <2>1, <2>2, <2>3
<1>5. ASSUME NEW n \in Nodes, NodeExit(n)
      PROVE  /\ PinsTyped'
             /\ \A t \in Transfers :
                   /\ Used(t)' => Used(t)
                   /\ session'[t] = "open" => session[t] = "open"
  BY <1>1, <1>5 DEF NodeExit, PinsTyped
<1>6. QED
  BY <1>2, <1>3, <1>4, <1>5, PinChanges

\* What may become of an owner's record: a copy is accepted as a location, the object is
\* produced again, retired, made or not made, or loses the locations on a dead Node.
Accepting(o) ==
    /\ owner'[o].state = "ready" /\ owner'[o].attempt = owner[o].attempt
    /\ \E l \in Leases :
          /\ o \in InputSet(l) /\ (Report(l, o) \/ HandOver(l, o))
          /\ ~Retired(o, desc[l][o].attempt) /\ owner'[o].locs = owner[o].locs \cup {Target[l]}
Renewing(o) ==
    /\ owner[o].state = "lost" /\ owner'[o].state = "pending"
    /\ owner'[o].attempt = owner[o].attempt + 1 /\ owner'[o].locs = owner[o].locs
Retiring(o) ==
    /\ Collect(o) /\ owner[o].state \in {"ready", "lost"} /\ ~Held(o)
    /\ owner'[o].state = "retired" /\ owner'[o].locs = {} /\ owner'[o].attempt = owner[o].attempt
    /\ \A n \in owner[o].locs : <<n, o, owner[o].attempt>> \in owed'
Making(o) ==
    /\ owner[o].state = "pending"
    /\ \E n \in Nodes :
          /\ Produce(n, o)
          /\ \/ /\ owner'[o].state = "ready" /\ owner'[o].attempt = owner[o].attempt
                /\ owner'[o].locs = {n} /\ store' = [store EXCEPT ![n][o] = Sealed(owner[o].attempt)]
             \/ /\ owner'[o].state = "pending" /\ owner'[o].attempt = owner[o].attempt + 1
                /\ owner'[o].locs = owner[o].locs
             \/ /\ owner'[o].state = "failed" /\ owner'[o].attempt = owner[o].attempt
                /\ owner'[o].locs = owner[o].locs
Bereaved(o) ==
    \E n \in Nodes \ up :
        /\ owner'[o].locs = owner[o].locs \ {n} /\ owner'[o].attempt = owner[o].attempt
        /\ owner'[o].state = (IF owner[o].state = "ready" /\ owner[o].locs = {n} THEN "lost" ELSE owner[o].state)

OwnerMoves(o) == Accepting(o) \/ Renewing(o) \/ Retiring(o) \/ Making(o) \/ Bereaved(o)

\* How a copy comes to be owed, and how it ceases to be.
Owes(n, o, k) ==
    \/ /\ Collect(o) /\ n \in owner[o].locs /\ k = owner[o].attempt
       /\ owner'[o].state = "retired" /\ owner'[o].attempt = k
    \/ \E l \in Leases :
          /\ o \in InputSet(l) /\ (Report(l, o) \/ HandOver(l, o))
          /\ desc[l][o].attempt = k /\ Retired(o, k) /\ owner'[o] = owner[o]

\* One record updated.
LEMMA OwnerUpdated ==
    ASSUME owner \in [Objects -> Owners], NEW o \in Objects, NEW e \in Owners,
           owner' = [owner EXCEPT ![o] = e]
    PROVE  /\ (owner \in [Objects -> Owners])' /\ owner'[o] = e
           /\ \A p \in Objects : p # o => owner'[p] = owner[p]
OBVIOUS

\* The answer of an owner to a copy that is handed over to it.
LEMMA AcceptStep ==
    ASSUME Base, NEW l \in Leases, NEW o \in InputSet(l), task[l] # "new",
           Accepts(Target[l], o, desc[l][o].attempt), Report(l, o) \/ HandOver(l, o)
    PROVE  /\ OwnerTyped' /\ owed \subseteq owed'
           /\ \A p \in Objects : owner'[p] = owner[p] \/ (p = o /\ Accepting(p))
           /\ \A n \in Nodes, p \in Objects, k \in 1..Attempts :
                 <<n, p, k>> \in owed' => <<n, p, k>> \in owed \/ Owes(n, p, k)
           /\ Target[l] \notin dead => Known(Target[l], o, desc[l][o].attempt)'
           /\ ~Retired(o, desc[l][o].attempt) =>
                 Target[l] \in owner'[o].locs /\ owner'[o].attempt = desc[l][o].attempt
<1> DEFINE k == desc[l][o].attempt
<1>1. OwnerTyped /\ o \in Objects /\ owner[o] \in Owners /\ Target[l] \in Nodes /\ k \in 1..Attempts
  <2>1. OwnerTyped /\ o \in Objects /\ Target[l] \in Nodes
    BY Typed, InputsTyped DEF Base
  <2>2. desc[l][o] \in Named
    BY DEF Base, Requests, Named
  <2>3. QED  BY <2>1, <2>2 DEF OwnerTyped, Named
<1>2. UNCHANGED desc
  BY DEF Report, HandOver, taskVars
<1>3. CASE Retired(o, k)
  <2>1. /\ UNCHANGED owner
        /\ owed' = (IF Target[l] \in dead THEN owed ELSE owed \cup {<<Target[l], o, k>>})
    BY <1>3 DEF Accepts
  <2>2. OwnerTyped' /\ owed \subseteq owed'
    BY <1>1, <2>1 DEF OwnerTyped, Copies
  <2>3. ASSUME NEW n \in Nodes, NEW p \in Objects, NEW j \in 1..Attempts,
               <<n, p, j>> \in owed', <<n, p, j>> \notin owed
        PROVE  Owes(n, p, j)
    BY <1>1, <1>3, <2>1, <2>3 DEF Owes
  <2>4. Target[l] \notin dead => Known(Target[l], o, k)'
    BY <1>2, <2>1 DEF Known
  <2>5. QED  BY <1>3, <2>1, <2>2, <2>3, <2>4
<1>4. CASE ~Retired(o, k)
  <2> DEFINE e == [owner[o] EXCEPT !.state = "ready", !.locs = owner[o].locs \cup {Target[l]}]
  <2>1. /\ owner' = [owner EXCEPT ![o] = e] /\ owed' = owed
    BY <1>1, <1>4 DEF Accepts, OwnerTyped, Owners
  <2>2. /\ e \in Owners /\ e.state = "ready" /\ e.attempt = owner[o].attempt
        /\ e.locs = owner[o].locs \cup {Target[l]}
    BY <1>1 DEF Owners
  <2> HIDE DEF e
  <2>3. /\ OwnerTyped' /\ owner'[o] = e /\ \A p \in Objects : p # o => owner'[p] = owner[p]
    BY <1>1, <2>1, <2>2, OwnerUpdated DEF OwnerTyped
  <2>4. owner[o].attempt = k
    BY <1>4 DEF Retired
  <2>5. Accepting(o)
    BY <1>4, <2>2, <2>3 DEF Accepting
  <2>6. Target[l] \in owner'[o].locs /\ owner'[o].attempt = k
    BY <2>2, <2>3, <2>4
  <2>7. Known(Target[l], o, k)'
    BY <1>2, <2>6 DEF Known
  <2>8. QED  BY <2>1, <2>3, <2>5, <2>6, <2>7
<1>5. QED  BY <1>3, <1>4

\* A lease that hands a copy over is one that has been asked for.
LEMMA HandsAfterAsking ==
    ASSUME Base, NEW l \in Leases, NEW o \in Objects, Report(l, o) \/ HandOver(l, o)
    PROVE  /\ task[l] # "new" /\ Accepts(Target[l], o, desc[l][o].attempt)
           /\ Target[l] \notin dead
  BY DEF Report, HandOver, Base, Requests, NoCustody

LEMMA OwnerStep ==
    ASSUME Base, Next
    PROVE  /\ OwnerTyped'
           /\ \A o \in Objects : owner'[o] = owner[o] \/ OwnerMoves(o)
           /\ \A n \in Nodes, o \in Objects, k \in 1..Attempts :
                 /\ <<n, o, k>> \in owed' => <<n, o, k>> \in owed \/ Owes(n, o, k)
                 /\ <<n, o, k>> \in owed => <<n, o, k>> \in owed' \/ n \notin up \/ Drop(n, o, k)
<1>1. OwnerTyped /\ ClusterTyped /\ \A o \in Objects : owner[o] \in Owners
  BY Typed DEF Base, OwnerTyped
<1>2. CASE UNCHANGED <<owner, owed>>
  BY <1>1, <1>2 DEF OwnerTyped
<1>3. ASSUME NEW l \in Leases, NEW p \in Objects, p \in InputSet(l), Report(l, p) \/ HandOver(l, p)
      PROVE  /\ OwnerTyped' /\ owed \subseteq owed'
             /\ \A o \in Objects : owner'[o] = owner[o] \/ OwnerMoves(o)
             /\ \A n \in Nodes, o \in Objects, k \in 1..Attempts :
                   <<n, o, k>> \in owed' => <<n, o, k>> \in owed \/ Owes(n, o, k)
  <2>1. task[l] # "new" /\ Accepts(Target[l], p, desc[l][p].attempt)
    BY <1>3, HandsAfterAsking
  <2>2. QED  BY <1>3, <2>1, AcceptStep DEF OwnerMoves
<1>4. ASSUME NEW o \in Objects, Reconstruct(o)
      PROVE  /\ OwnerTyped' /\ owed' = owed
             /\ \A p \in Objects : owner'[p] = owner[p] \/ OwnerMoves(p)
  <2> DEFINE e == [owner[o] EXCEPT !.state = "pending", !.attempt = owner[o].attempt + 1]
  <2>1. /\ owner[o].state = "lost" /\ owner[o].attempt < Attempts /\ owed' = owed
        /\ owner' = [owner EXCEPT ![o] = e]
    BY <1>1, <1>4 DEF Reconstruct, OwnerTyped, Owners
  <2>2. /\ e \in Owners /\ e.state = "pending" /\ e.attempt = owner[o].attempt + 1
        /\ e.locs = owner[o].locs
    <3>1. owner[o].attempt \in 1..Attempts /\ owner[o] \in Owners
      BY <1>1 DEF Owners
    <3>2. owner[o].attempt + 1 \in 1..Attempts
      BY <2>1, <3>1, ObjectTransferAssumption
    <3>3. QED  BY <3>1, <3>2 DEF Owners
  <2> HIDE DEF e
  <2>3. OwnerTyped' /\ owner'[o] = e /\ \A p \in Objects : p # o => owner'[p] = owner[p]
    BY <1>1, <2>1, <2>2, OwnerUpdated DEF OwnerTyped
  <2>4. QED  BY <2>1, <2>2, <2>3 DEF OwnerMoves, Renewing
<1>5. ASSUME NEW o \in Objects, Collect(o)
      PROVE  /\ OwnerTyped' /\ owed \subseteq owed'
             /\ \A p \in Objects : owner'[p] = owner[p] \/ OwnerMoves(p)
             /\ \A n \in Nodes, p \in Objects, k \in 1..Attempts :
                   <<n, p, k>> \in owed' => <<n, p, k>> \in owed \/ Owes(n, p, k)
  <2> DEFINE e == [owner[o] EXCEPT !.state = "retired", !.locs = {}]
  <2>1. /\ owner[o].state \in {"ready", "lost"} /\ ~Held(o) /\ owner' = [owner EXCEPT ![o] = e]
        /\ owed' = owed \cup (owner[o].locs \X {o} \X {owner[o].attempt})
    BY <1>1, <1>5 DEF Collect, OwnerTyped, Owners
  <2>2. /\ e \in Owners /\ e.state = "retired" /\ e.attempt = owner[o].attempt /\ e.locs = {}
        /\ owner[o].locs \subseteq Nodes /\ owner[o].attempt \in 1..Attempts
    BY <1>1 DEF Owners
  <2> HIDE DEF e
  <2>3. /\ (owner \in [Objects -> Owners])' /\ owner'[o] = e
        /\ \A p \in Objects : p # o => owner'[p] = owner[p]
    BY <1>1, <2>1, <2>2, OwnerUpdated DEF OwnerTyped
  <2>4. (owed \subseteq Copies)' /\ owed \subseteq owed'
    BY <1>1, <2>1, <2>2 DEF OwnerTyped, Copies
  <2>5. Retiring(o)
    BY <1>5, <2>1, <2>2, <2>3 DEF Retiring
  <2>6. ASSUME NEW n \in Nodes, NEW p \in Objects, NEW k \in 1..Attempts,
               <<n, p, k>> \in owed', <<n, p, k>> \notin owed
        PROVE  Owes(n, p, k)
    BY <1>5, <2>1, <2>2, <2>3, <2>6 DEF Owes
  <2>7. QED  BY <2>3, <2>4, <2>5, <2>6 DEF OwnerTyped, OwnerMoves
<1>6. ASSUME NEW n \in Nodes, NEW o \in Objects, Produce(n, o)
      PROVE  /\ OwnerTyped' /\ owed' = owed
             /\ \A p \in Objects : owner'[p] = owner[p] \/ OwnerMoves(p)
  <2> DEFINE k == owner[o].attempt
             made == [owner[o] EXCEPT !.state = "ready", !.locs = {n}]
             next == [owner[o] EXCEPT !.attempt = k + 1]
             over == [owner[o] EXCEPT !.state = "failed"]
  <2>1. /\ owner[o].state = "pending" /\ owed' = owed
        /\ \/ /\ owner' = [owner EXCEPT ![o] = made]
              /\ store' = [store EXCEPT ![n][o] = Sealed(k)]
           \/ owner' = [owner EXCEPT ![o] = next] /\ k < Attempts
           \/ owner' = [owner EXCEPT ![o] = over]
    <3>1. owner[o].state = "pending" /\ owed' = owed
      BY <1>6 DEF Produce
    <3>2. CASE ~Deleted(n, o, k) /\ ~Present(n, o) /\ ~Full(n)
      BY <1>1, <1>6, <3>1, <3>2 DEF Produce, OwnerTyped, Owners
    <3>3. CASE ~(~Deleted(n, o, k) /\ ~Present(n, o) /\ ~Full(n)) /\ k < Attempts
      BY <1>1, <1>6, <3>1, <3>3 DEF Produce, OwnerTyped, Owners
    <3>4. CASE ~(~Deleted(n, o, k) /\ ~Present(n, o) /\ ~Full(n)) /\ ~(k < Attempts)
      BY <1>1, <1>6, <3>1, <3>4 DEF Produce, OwnerTyped, Owners
    <3>5. QED  BY <3>2, <3>3, <3>4
  <2>2. /\ made \in Owners /\ made.state = "ready" /\ made.attempt = k /\ made.locs = {n}
    BY <1>1 DEF Owners
  <2>3. k < Attempts => /\ next \in Owners /\ next.state = owner[o].state
                        /\ next.attempt = k + 1 /\ next.locs = owner[o].locs
    <3>1. k \in 1..Attempts /\ owner[o] \in Owners
      BY <1>1 DEF Owners
    <3>2. k < Attempts => k + 1 \in 1..Attempts
      BY <3>1, ObjectTransferAssumption
    <3>3. QED  BY <3>1, <3>2 DEF Owners
  <2>4. over \in Owners /\ over.state = "failed" /\ over.attempt = k /\ over.locs = owner[o].locs
    BY <1>1 DEF Owners
  <2> HIDE DEF made, next, over
  <2>5. CASE owner' = [owner EXCEPT ![o] = made] /\ store' = [store EXCEPT ![n][o] = Sealed(k)]
    <3>1. OwnerTyped' /\ owner'[o] = made /\ \A p \in Objects : p # o => owner'[p] = owner[p]
      BY <1>1, <2>1, <2>2, <2>5, OwnerUpdated DEF OwnerTyped
    <3>2. QED  BY <1>6, <2>1, <2>2, <2>5, <3>1 DEF OwnerMoves, Making
  <2>6. CASE owner' = [owner EXCEPT ![o] = next] /\ k < Attempts
    <3>1. OwnerTyped' /\ owner'[o] = next /\ \A p \in Objects : p # o => owner'[p] = owner[p]
      BY <1>1, <2>1, <2>3, <2>6, OwnerUpdated DEF OwnerTyped
    <3>2. QED  BY <1>6, <2>1, <2>3, <2>6, <3>1 DEF OwnerMoves, Making
  <2>7. CASE owner' = [owner EXCEPT ![o] = over]
    <3>1. OwnerTyped' /\ owner'[o] = over /\ \A p \in Objects : p # o => owner'[p] = owner[p]
      BY <1>1, <2>1, <2>4, <2>7, OwnerUpdated DEF OwnerTyped
    <3>2. QED  BY <1>6, <2>1, <2>4, <3>1 DEF OwnerMoves, Making
  <2>8. QED  BY <2>1, <2>5, <2>6, <2>7
<1>7. ASSUME NEW n \in Nodes, NEW o \in Objects, NEW k \in 1..Attempts, Drop(n, o, k)
      PROVE  /\ OwnerTyped' /\ owner' = owner /\ owed' \subseteq owed
             /\ \A c \in owed : c \in owed' \/ c = <<n, o, k>>
  BY <1>1, <1>7 DEF Drop, OwnerTyped
<1>8. ASSUME NEW n \in Nodes, HandleDeath(n)
      PROVE  /\ OwnerTyped' /\ n \notin up /\ owed' = {c \in owed : c[1] # n}
             /\ \A o \in Objects : OwnerMoves(o)
  <2> DEFINE e(o) == [owner[o] EXCEPT
                         !.locs = @ \ {n},
                         !.state = IF @ = "ready" /\ owner[o].locs = {n} THEN "lost" ELSE @]
  <2>1. n \notin up /\ owed' = {c \in owed : c[1] # n} /\ owner' = [o \in Objects |-> e(o)]
    BY <1>8 DEF HandleDeath
  <2>2. ASSUME NEW o \in Objects
        PROVE  /\ e(o) \in Owners /\ e(o).locs = owner[o].locs \ {n} /\ e(o).attempt = owner[o].attempt
               /\ e(o).state = (IF owner[o].state = "ready" /\ owner[o].locs = {n}
                                THEN "lost" ELSE owner[o].state)
    BY <1>1 DEF Owners
  <2> HIDE DEF e
  <2>3. \A o \in Objects : owner'[o] = e(o)
    BY <2>1
  <2>4. OwnerTyped'
    BY <1>1, <2>1, <2>2 DEF OwnerTyped
  <2>5. QED  BY <2>1, <2>2, <2>3, <2>4 DEF OwnerMoves, Bereaved
<1>9. QED
  BY <1>2, <1>3, <1>4, <1>5, <1>6, <1>7, <1>8, OwnerChanges

-----------------------------------------------------------------------------
\* A fault is a lost call, and their number is bounded.
LEMMA FaultsStep ==
    ASSUME Next, faults \in 0..MaxFaults
    PROVE  (faults \in 0..MaxFaults)'
<1> USE DEF clusterVars, replicaVars, leaseVars, pinVars, taskVars, ownerVars
<1>1. SUFFICES UNCHANGED faults \/ Lost
  BY ObjectTransferAssumption DEF Lost
<1>2. CASE \E l \in Leases : LeaseNext(l)
  BY <1>2 DEF LeaseNext, Enter, Check, Request, Pin, Read, Finish, Abort, Release, Leave, Grant,
          Refuse, Submit, Learn, GiveUp, Cancel, Ack, Proceed, End, TargetLost,
          SubmitterExit, Abandon, HandedOver, Report, HandOver
<1>3. CASE \E t \in Transfers : LatePin(t) \/ CloseTicket(t) \/ CloseSession(t)
  BY <1>3 DEF LatePin, CloseTicket, CloseSession
<1>4. CASE \E o \in Objects : Reconstruct(o) \/ Collect(o)
  BY <1>4 DEF Reconstruct, Collect
<1>5. CASE \E n \in Nodes, o \in Objects : Produce(n, o)
  BY <1>5 DEF Produce
<1>6. CASE \E n \in Nodes, o \in Objects, k \in 1..Attempts : Drop(n, o, k)
  BY <1>6 DEF Drop
<1>7. CASE \E n \in Nodes : NodeExit(n) \/ HandleDeath(n)
  BY <1>7 DEF NodeExit, HandleDeath
<1> QED  BY <1>2, <1>3, <1>4, <1>5, <1>6, <1>7 DEF Next

\* Nodes only leave, and a leaving Node is the one that exits.
LEMMA ClusterStep ==
    ASSUME ClusterTyped, Next
    PROVE  /\ ClusterTyped' /\ up' \subseteq up /\ dead \subseteq dead'
           /\ \A n \in up : n \in up' \/ NodeExit(n)
           /\ \A n \in dead' : n \in dead \/ HandleDeath(n)
<1>1. CASE UNCHANGED <<up, dead>>
  BY <1>1 DEF ClusterTyped
<1>2. ASSUME NEW n \in Nodes, NodeExit(n)
      PROVE  /\ ClusterTyped' /\ up' = up \ {n} /\ dead' = dead
  BY <1>2 DEF NodeExit, ClusterTyped
<1>3. ASSUME NEW n \in Nodes, HandleDeath(n)
      PROVE  /\ ClusterTyped' /\ up' = up /\ dead' = dead \cup {n}
  BY <1>3 DEF HandleDeath, ClusterTyped
<1>4. QED  BY <1>1, <1>2, <1>3, ClusterChanges

\* How a copy comes to be recorded as deleted: the owner's own result that found no place, or
\* a copy that is dropped.
Refused(n, o, k) ==
    /\ Produce(n, o) /\ k = owner[o].attempt /\ ~Present(n, o)
    /\ \/ owner'[o].attempt = k + 1
       \/ owner'[o].attempt = k /\ owner'[o].state = "failed"
Dropped(n, o, k) == Drop(n, o, k) /\ <<n, o, k>> \in owed /\ store'[n][o] = Absent

LEMMA ReceiptsStep ==
    ASSUME Base, Next
    PROVE  /\ (receipts \subseteq Copies)'
           /\ \A n \in Nodes, o \in Objects, k \in 1..Attempts :
                 /\ <<n, o, k>> \in receipts' =>
                       <<n, o, k>> \in receipts \/ Refused(n, o, k) \/ Dropped(n, o, k)
                 /\ <<n, o, k>> \in receipts => <<n, o, k>> \in receipts' \/ n \notin up'
<1>1. receipts \subseteq Copies /\ OwnerTyped /\ StoreTyped
  BY Typed DEF Base
<1>2. CASE UNCHANGED receipts
  BY <1>1, <1>2
<1>3. ASSUME NEW n \in Nodes, NEW o \in Objects, Produce(n, o), receipts' # receipts
      PROVE  /\ receipts' = receipts \cup {<<n, o, owner[o].attempt>>}
             /\ Refused(n, o, owner[o].attempt) /\ owner[o].attempt \in 1..Attempts
  <2> DEFINE k == owner[o].attempt
  <2>1. k \in 1..Attempts
    BY <1>1 DEF OwnerTyped, Owners
  <2>2. ~(~Deleted(n, o, k) /\ ~Present(n, o) /\ ~Full(n)) /\ ~Present(n, o)
    BY <1>3 DEF Produce
  <2>3. receipts' = receipts \cup {<<n, o, k>>}
    BY <1>3, <2>2 DEF Produce
  <2>4. CASE k < Attempts
    <3>1. owner' = [owner EXCEPT ![o] = [owner[o] EXCEPT !.attempt = k + 1]]
      BY <1>1, <1>3, <2>2, <2>4 DEF Produce, OwnerTyped, Owners
    <3>2. owner'[o].attempt = k + 1
      BY <1>1, <3>1 DEF OwnerTyped, Owners
    <3>3. QED  BY <1>3, <2>1, <2>2, <2>3, <3>2 DEF Refused
  <2>5. CASE ~(k < Attempts)
    <3>1. owner' = [owner EXCEPT ![o] = [owner[o] EXCEPT !.state = "failed"]]
      BY <1>1, <1>3, <2>2, <2>5 DEF Produce, OwnerTyped, Owners
    <3>2. owner'[o].attempt = k /\ owner'[o].state = "failed"
      BY <1>1, <3>1 DEF OwnerTyped, Owners
    <3>3. QED  BY <1>3, <2>1, <2>2, <2>3, <3>2 DEF Refused
  <2>6. QED  BY <2>4, <2>5
<1>4. ASSUME NEW n \in Nodes, NEW o \in Objects, NEW k \in 1..Attempts, Drop(n, o, k),
             receipts' # receipts
      PROVE  /\ receipts' = receipts \cup {<<n, o, k>>} /\ Dropped(n, o, k)
  <2>1. /\ receipts' = receipts \cup {<<n, o, k>>} /\ <<n, o, k>> \in owed
        /\ store' = [store EXCEPT ![n][o] = Absent]
    BY <1>4 DEF Drop, replicaVars
  <2>2. QED  BY <1>1, <1>4, <2>1 DEF Dropped, StoreTyped
<1>5. ASSUME NEW n \in Nodes, NodeExit(n)
      PROVE  n \notin up' /\ receipts' = {c \in receipts : c[1] # n}
  BY <1>5 DEF NodeExit
<1>6. QED
  <2>1. CASE \E n \in Nodes, o \in Objects : Produce(n, o)
    BY <1>1, <1>2, <1>3, <2>1 DEF Copies
  <2>2. CASE \E n \in Nodes, o \in Objects, k \in 1..Attempts : Drop(n, o, k)
    BY <1>1, <1>2, <1>4, <2>2 DEF Copies
  <2>3. CASE \E n \in Nodes : NodeExit(n)
    BY <1>1, <1>5, <2>3
  <2>4. QED  BY <1>2, <2>1, <2>2, <2>3, ReceiptChanges

\* Whose step changes a pull record: a thread that finds the copy or has the lock, a
\* deletion outside any lock, or the exit of the Node.
PullMoves(n, o) ==
    \/ \E l \in Leases :
          /\ Places(n, o, l)
          /\ \/ Check(l) /\ thread[l].pc = "check" /\ store[n][o].state = "sealed" /\ UNCHANGED store
             \/ Request(l) /\ thread[l].pc = "request"
             \/ Finish(l) /\ thread[l].pc = "finish" /\ thread'[l].pc = "release"
             \/ Abort(l) /\ thread[l].pc = "failed"
    \/ ~Locked(n, o)
    \/ n \notin up'

LEMMA PullsStep ==
    ASSUME Base, Next
    PROVE  /\ PullsTyped'
           /\ \A n \in Nodes, o \in Objects : pulls'[n][o] = pulls[n][o] \/ PullMoves(n, o)
           /\ \A l \in Leases : Request(l) /\ thread'[l].pc = "pin" =>
                 pulls'[Target[l]][Input(l)].state = "PULLING"
<1>1. PullsTyped /\ ThreadTyped
  BY Typed DEF Base
<1>2. CASE UNCHANGED pulls /\ \A l \in Leases : ~Request(l)
  BY <1>1, <1>2 DEF PullsTyped
<1>3. /\ NoPull \in Pulls
      /\ \A s \in {"none", "PULLING", "READY", "FAILED"}, k \in 0..Attempts :
            Pull(s, k) \in Pulls /\ Pull(s, k).state = s
  BY ObjectTransferAssumption DEF Pulls, NoPull, Pull
<1>4. ASSUME NEW l \in Leases, Request(l)
      PROVE  /\ PullsTyped'
             /\ \A n \in Nodes, o \in Objects : pulls'[n][o] = pulls[n][o] \/ PullMoves(n, o)
             /\ \A m \in Leases : Request(m) /\ thread'[m].pc = "pin" =>
                   pulls'[Target[m]][Input(m)].state = "PULLING"
  <2>1. /\ thread[l].pc = "request" /\ Target[l] \in Nodes /\ Input(l) \in Objects
        /\ Wanted(l) \in 0..Attempts
    <3>1. thread[l].pc = "request"
      BY <1>4 DEF Request, At
    <3>2. Wanted(l) \in 1..Attempts => Wanted(l) \in 0..Attempts
      BY ObjectTransferAssumption
    <3>3. QED  BY <3>1, <3>2, AtInput DEF Base
  <2>2. \/ UNCHANGED pulls /\ Goto(l, "exit")
        \/ Goto(l, "exit") /\ \E s \in {"READY", "FAILED"} :
              pulls' = [pulls EXCEPT ![Target[l]][Input(l)] = Pull(s, Wanted(l))]
        \/ Goto(l, "pin") /\ pulls' = [pulls EXCEPT ![Target[l]][Input(l)] = Pull("PULLING", Wanted(l))]
    BY <1>4 DEF Request
  <2>3. /\ Goto(l, "exit") => thread'[l].pc = "exit" /\ \A m \in Leases \ {l} : thread'[m] = thread[m]
        /\ Goto(l, "pin") => thread'[l].pc = "pin" /\ \A m \in Leases \ {l} : thread'[m] = thread[m]
    <3>1. "exit" \in ThreadStates /\ "pin" \in ThreadStates
      BY DEF ThreadStates, Locking
    <3>2. QED  BY <1>1, <3>1, GoesTo
  <2>4. /\ PullsTyped'
        /\ \A n \in Nodes, o \in Objects :
              pulls'[n][o] = pulls[n][o] \/ (n = Target[l] /\ o = Input(l))
        /\ thread'[l].pc = "pin" => pulls'[Target[l]][Input(l)].state = "PULLING"
    BY <1>1, <1>3, <2>1, <2>2, <2>3 DEF PullsTyped
  <2>5. ASSUME NEW m \in Leases, Request(m), thread'[m].pc = "pin" PROVE m = l
    <3>1. thread[m].pc = "request"
      BY <2>5 DEF Request, At
    <3>2. QED  BY <2>2, <2>3, <2>5, <3>1
  <2>6. PullMoves(Target[l], Input(l))
    BY <1>4, <2>1 DEF PullMoves, Places
  <2>7. QED  BY <2>4, <2>5, <2>6
<1>5. ASSUME NEW l \in Leases, Check(l)
      PROVE  /\ PullsTyped'
             /\ \A n \in Nodes, o \in Objects : pulls'[n][o] = pulls[n][o] \/ PullMoves(n, o)
  <2>1. /\ thread[l].pc = "check" /\ Target[l] \in Nodes /\ Input(l) \in Objects
        /\ Wanted(l) \in 0..Attempts
    <3>1. thread[l].pc = "check"
      BY <1>5 DEF Check, At
    <3>2. Wanted(l) \in 1..Attempts => Wanted(l) \in 0..Attempts
      BY ObjectTransferAssumption
    <3>3. QED  BY <3>1, <3>2, AtInput DEF Base
  <2>2. CASE UNCHANGED pulls
    BY <1>1, <2>2 DEF PullsTyped
  <2>3. CASE pulls' # pulls
    <3>1. /\ pulls' = [pulls EXCEPT ![Target[l]][Input(l)] = Pull("READY", Wanted(l))]
          /\ store[Target[l]][Input(l)].state = "sealed" /\ UNCHANGED store
      BY <1>5, <2>3 DEF Check, Holds, Sealed
    <3>2. PullMoves(Target[l], Input(l))
      BY <1>5, <2>1, <3>1 DEF PullMoves, Places
    <3>3. QED  BY <1>1, <1>3, <2>1, <3>1, <3>2 DEF PullsTyped
  <2>4. QED  BY <2>2, <2>3
<1>6. ASSUME NEW l \in Leases, Finish(l)
      PROVE  /\ PullsTyped'
             /\ \A n \in Nodes, o \in Objects : pulls'[n][o] = pulls[n][o] \/ PullMoves(n, o)
  <2>1. /\ thread[l].pc = "finish" /\ Target[l] \in Nodes /\ Input(l) \in Objects
        /\ Wanted(l) \in 0..Attempts
    <3>1. thread[l].pc = "finish"
      BY <1>6 DEF Finish, At
    <3>2. Wanted(l) \in 1..Attempts => Wanted(l) \in 0..Attempts
      BY ObjectTransferAssumption
    <3>3. QED  BY <3>1, <3>2, AtInput DEF Base
  <2>2. CASE UNCHANGED pulls
    BY <1>1, <2>2 DEF PullsTyped
  <2>3. CASE pulls' # pulls
    <3>1. /\ pulls' = [pulls EXCEPT ![Target[l]][Input(l)] = Pull("READY", Wanted(l))]
          /\ Goto(l, "release")
      BY <1>6, <2>3 DEF Finish
    <3>2. thread'[l].pc = "release"
      BY <1>1, <3>1, GoesTo DEF ThreadStates, Locking
    <3>3. PullMoves(Target[l], Input(l))
      BY <1>6, <2>1, <3>2 DEF PullMoves, Places
    <3>4. QED  BY <1>1, <1>3, <2>1, <3>1, <3>3 DEF PullsTyped
  <2>4. QED  BY <2>2, <2>3
<1>7. ASSUME NEW l \in Leases, Abort(l)
      PROVE  /\ PullsTyped'
             /\ \A n \in Nodes, o \in Objects : pulls'[n][o] = pulls[n][o] \/ PullMoves(n, o)
  <2>1. thread[l].pc = "failed" /\ Target[l] \in Nodes /\ Input(l) \in Objects
    BY <1>7, AtInput DEF Base, Abort, At
  <2>2. pulls[Target[l]][Input(l)] \in Pulls
    BY <1>1, <2>1 DEF PullsTyped
  <2>3. [pulls[Target[l]][Input(l)] EXCEPT !.state = "FAILED"] \in Pulls
    BY <2>2 DEF Pulls
  <2>4. pulls' = [pulls EXCEPT ![Target[l]][Input(l)] =
                     [pulls[Target[l]][Input(l)] EXCEPT !.state = "FAILED"]]
    BY <1>1, <1>7, <2>1, <2>2 DEF Abort, PullsTyped, Pulls
  <2>5. PullMoves(Target[l], Input(l))
    BY <1>7, <2>1 DEF PullMoves, Places
  <2>6. QED  BY <1>1, <2>1, <2>3, <2>4, <2>5 DEF PullsTyped
<1>8. ASSUME NEW n \in Nodes, NEW o \in Objects, NEW k \in 1..Attempts, Drop(n, o, k)
      PROVE  /\ PullsTyped'
             /\ \A m \in Nodes, p \in Objects : pulls'[m][p] = pulls[m][p] \/ PullMoves(m, p)
  <2>1. CASE UNCHANGED pulls
    BY <1>1, <2>1 DEF PullsTyped
  <2>2. CASE pulls' # pulls
    <3>1. PICK e \in {pulls[n][o], NoPull} : pulls' = [pulls EXCEPT ![n][o] = e]
      <4>1. pulls' = [pulls EXCEPT ![n][o] = IF pulls[n][o].attempt = k THEN NoPull ELSE pulls[n][o]]
        BY <1>8, <2>2 DEF Drop, replicaVars
      <4>2. QED  BY <4>1
    <3>2. PullMoves(n, o)
      BY <1>8 DEF Drop, PullMoves
    <3>3. QED  BY <1>1, <1>3, <3>1, <3>2 DEF PullsTyped
  <2>3. QED  BY <2>1, <2>2
<1>9. ASSUME NEW n \in Nodes, NodeExit(n)
      PROVE  /\ PullsTyped'
             /\ \A m \in Nodes, p \in Objects : pulls'[m][p] = pulls[m][p] \/ PullMoves(m, p)
  <2>1. n \notin up' /\ pulls' = [pulls EXCEPT ![n] = [o \in Objects |-> NoPull]]
    BY <1>9 DEF NodeExit
  <2>2. PullsTyped' /\ \A m \in Nodes, p \in Objects : pulls'[m][p] = pulls[m][p] \/ m = n
    BY <1>1, <1>3, <2>1 DEF PullsTyped
  <2>3. QED  BY <2>1, <2>2 DEF PullMoves
<1>10. CASE \A l \in Leases : ~Request(l)
  BY <1>2, <1>5, <1>6, <1>7, <1>8, <1>9, <1>10, PullChanges
<1>11. QED  BY <1>4, <1>10

\* The types are kept.
LEMMA TypesKept ==
    ASSUME Base, PullsOwnTheirPlace, Next
    PROVE  TypeOK'
<1>1. /\ ClusterTyped /\ faults \in 0..MaxFaults /\ ThreadTyped /\ OutcomeTyped /\ TaskTyped
      /\ ReportsTyped
  BY Typed DEF Base
<1>2. ClusterTyped' /\ (faults \in 0..MaxFaults)' /\ StoreTyped' /\ (receipts \subseteq Copies)'
  BY <1>1, ClusterStep, FaultsStep, StoreStep, ReceiptsStep
<1>3. PullsTyped' /\ ThreadTyped' /\ OutcomeTyped' /\ CustodyTyped'
  BY <1>1, PullsStep, ThreadStep, OutcomeStep, CustodyStep
<1>4. PinsTyped' /\ TaskTyped' /\ ReportsTyped' /\ OwnerTyped'
  BY <1>1, PinsStep, TaskStep, ReportsStep, OwnerStep
<1>5. QED
  <2> USE DEF ClusterTyped, StoreTyped, PullsTyped, ThreadTyped, OutcomeTyped, CustodyTyped,
              PinsTyped, TaskTyped, ReportsTyped, OwnerTyped, Entries, Pulls, Threads,
              Custodies, Owners
  <2>1. QED  BY <1>2, <1>3, <1>4, Zenon DEF TypeOK

-----------------------------------------------------------------------------
(* Requests, transfers, and the places of threads *)

\* What an attempt has produced, and what is past, remains so.
LEMMA MadeKept ==
    ASSUME Base, Next, NEW o \in Objects
    PROVE  \A k \in 1..Attempts : Made(o, k) =>
              k < owner'[o].attempt
              \/ (k = owner'[o].attempt /\ owner'[o].state \in {"ready", "lost", "retired"})
<1>1. owner[o] \in Owners /\ owner[o].attempt \in Nat /\ 1..Attempts \subseteq Nat
  BY Typed, ObjectTransferAssumption DEF Base, OwnerTyped, Owners
<1>2. owner'[o] = owner[o] \/ OwnerMoves(o)
  BY OwnerStep
<1>3. CASE owner'[o] = owner[o]
  BY <1>3 DEF Made
<1>4. ASSUME OwnerMoves(o), NEW k \in 1..Attempts, Made(o, k)
      PROVE  k < owner'[o].attempt
             \/ (k = owner'[o].attempt /\ owner'[o].state \in {"ready", "lost", "retired"})
  BY <1>1, <1>4 DEF Made, OwnerMoves, Accepting, Renewing, Retiring, Making, Bereaved
<1>5. QED  BY <1>2, <1>3, <1>4

LEMMA PastKept ==
    ASSUME Base, Next, NEW o \in Objects
    PROVE  \A k \in 1..Attempts : Past(o, k) =>
              k < owner'[o].attempt \/ (k = owner'[o].attempt /\ owner'[o].state = "retired")
<1>1. owner[o] \in Owners /\ owner[o].attempt \in Nat /\ 1..Attempts \subseteq Nat
  BY Typed, ObjectTransferAssumption DEF Base, OwnerTyped, Owners
<1>2. owner'[o] = owner[o] \/ OwnerMoves(o)
  BY OwnerStep
<1>3. CASE owner'[o] = owner[o]
  BY <1>3 DEF Past
<1>4. ASSUME OwnerMoves(o), NEW k \in 1..Attempts, Past(o, k)
      PROVE  k < owner'[o].attempt \/ (k = owner'[o].attempt /\ owner'[o].state = "retired")
  BY <1>1, <1>4 DEF Past, OwnerMoves, Accepting, Renewing, Retiring, Making, Bereaved,
     Retired
<1>5. QED  BY <1>2, <1>3, <1>4

\* What a submitter asks for.
LEMMA SubmitEffect ==
    ASSUME Base, NEW l \in Leases, Submit(l)
    PROVE  /\ desc'[l] \in [InputSet(l) -> Named] /\ UNCHANGED owner
           /\ \A o \in InputSet(l) : desc'[l][o].attempt = owner[o].attempt /\ owner[o].state = "ready"
<1>1. OwnerTyped /\ InputSet(l) \subseteq Objects
  BY Typed, InputsTyped DEF Base
<1>2. PICK sources \in [InputSet(l) -> Nodes] :
          desc' = [desc EXCEPT ![l] = [o \in InputSet(l) |->
                                          [source |-> sources[o], attempt |-> owner[o].attempt]]]
  BY DEF Submit
<1>3. desc'[l] = [o \in InputSet(l) |-> [source |-> sources[o], attempt |-> owner[o].attempt]]
  BY <1>2 DEF Base, Requests
<1>4. \A o \in InputSet(l) : owner[o].attempt \in 1..Attempts /\ owner[o].state = "ready"
  BY <1>1 DEF OwnerTyped, Owners, Submit
<1>5. UNCHANGED owner
  BY DEF Submit, ownerVars
<1>6. QED  BY <1>3, <1>4, <1>5 DEF Named

LEMMA RequestsKept ==
    ASSUME Base, Next
    PROVE  Requests'
<1>1. /\ ThreadTyped /\ OutcomeTyped /\ CustodyTyped /\ TaskTyped /\ ReportsTyped
  BY Typed DEF Base
<1>2. (DOMAIN desc = Leases)'
  <2>1. CASE UNCHANGED desc
    BY <2>1 DEF Base, Requests
  <2>2. CASE \E l \in Leases : Submit(l)
    BY <2>2 DEF Base, Requests, Submit
  <2>3. UNCHANGED desc \/ \E l \in Leases : Submit(l)
    <3>1. ASSUME NEW l \in Leases, Learn(l) \/ GiveUp(l) \/ Cancel(l) \/ Proceed(l) \/ End(l)
                                    \/ TargetLost(l) \/ SubmitterExit(l)
          PROVE  UNCHANGED desc
      BY <3>1 DEF Learn, GiveUp, Cancel, Proceed, End, TargetLost, SubmitterExit
    <3>2. QED  BY <3>1, TaskChanges
  <2>4. QED  BY <2>1, <2>2, <2>3
<1>3. ASSUME NEW l \in Leases, task'[l] = "new"
      PROVE  /\ (thread[l].pc = "idle" /\ outcome[l] = "none" /\ custody[l] = NoCustody)'
             /\ reported'[l] = {} /\ l \notin doomed'
  <2>1. task[l] = "new"
    BY <1>1, <1>3, TaskStep DEF TaskMoves
  <2>2. /\ thread[l].pc = "idle" /\ outcome[l] = "none" /\ custody[l] = NoCustody
        /\ reported[l] = {} /\ l \notin doomed
        /\ ~custody[l].abandoned
    BY <2>1 DEF Base, Requests, NoCustody
  <2>3. thread'[l].pc = "idle"
    <3>1. ~ThreadMoves(l)
      BY <2>1, <2>2 DEF ThreadMoves, Begins, Locks, Walks, Passes, Ends, Enter
    <3>2. QED  BY <1>1, <2>2, <3>1, ThreadStep
  <2>4. outcome'[l] = "none"
    <3>1. ~OutcomeMoves(l)
      BY <2>1, <2>2 DEF OutcomeMoves, Cancel
    <3>2. QED  BY <1>1, <2>2, <3>1, OutcomeStep
  <2>5. custody'[l] = NoCustody
    <3>1. ~(Records(l) \/ Starts(l) \/ Discards(l))
      BY <2>2 DEF Records, Starts, Discards
    <3>2. ~(Resolves(l) \/ Hands(l) \/ Gives(l))
      BY <2>1, <2>2 DEF Resolves, Hands, Gives, Cancel, Abandon, Ack, HandedOver, HandOver
    <3>3. QED  BY <2>2, <3>1, <3>2, CustodyStep DEF CustodyMoves
  <2>6. reported'[l] = {} /\ l \notin doomed'
    <3>1. ~ReportsMove(l)
      BY <2>1, <2>2 DEF ReportsMove, Report
    <3>2. QED  BY <1>1, <2>2, <3>1, ReportsStep
  <2>7. QED  BY <2>3, <2>4, <2>5, <2>6
<1>4. ASSUME NEW l \in Leases, task'[l] # "new"
      PROVE  /\ desc'[l] \in [InputSet(l) -> [source : Nodes, attempt : 1..Attempts]]
             /\ \A o \in InputSet(l) : Made(o, desc[l][o].attempt)'
  <2>1. CASE task[l] # "new"
    <3>1. desc'[l] = desc[l] /\ desc[l] \in [InputSet(l) -> Named]
      BY <1>1, <2>1, TaskStep DEF Base, Requests, Named
    <3>2. \A o \in InputSet(l) : o \in Objects /\ desc[l][o].attempt \in 1..Attempts
      BY <3>1, InputsTyped DEF Named
    <3>3. ASSUME NEW o \in InputSet(l) PROVE Made(o, desc[l][o].attempt)'
      <4>1. Made(o, desc[l][o].attempt)
        BY <2>1 DEF Base, Requests
      <4> DEFINE k == desc[l][o].attempt
      <4>2. k \in 1..Attempts /\ Made(o, k) /\ desc'[l][o].attempt = k
        BY <3>1, <3>2, <4>1
      <4>3. k < owner'[o].attempt
            \/ (k = owner'[o].attempt /\ owner'[o].state \in {"ready", "lost", "retired"})
        <5>1. o \in Objects
          BY <3>2
        <5>2. \A j \in 1..Attempts : Made(o, j) =>
                 j < owner'[o].attempt
                 \/ (j = owner'[o].attempt /\ owner'[o].state \in {"ready", "lost", "retired"})
          BY <5>1, MadeKept
        <5>3. k \in 1..Attempts /\ Made(o, k)
          BY <4>2
        <5> HIDE DEF k
        <5>4. QED  BY <5>2, <5>3
      <4>4. QED  BY <4>2, <4>3 DEF Made
    <3>4. QED  BY <3>1, <3>3 DEF Named
  <2>2. CASE task[l] = "new"
    <3>1. Submit(l)
      BY <1>1, <1>4, <2>2, TaskStep
    <3>2. QED  BY <3>1, SubmitEffect DEF Made, Named
  <2>3. QED  BY <2>1, <2>2
<1>5. QED  BY <1>2, <1>3, <1>4 DEF Requests

\* A transfer belongs to a lease that asked for its object.
LEMMA TransfersKept ==
    ASSUME Base, TransfersNamed, Next
    PROVE  TransfersNamed'
<1>1. ASSUME NEW t \in Transfers, Used(t)'
      PROVE  task'[t[1]] # "new" /\ t[2] \in InputSet(t[1])
  <2>1. t[1] \in Leases /\ TaskTyped
    BY Typed DEF Transfers, Base
  <2>2. task[t[1]] # "new" /\ t[2] \in InputSet(t[1])
    <3>1. CASE Used(t)
      BY <3>1 DEF TransfersNamed, Used
    <3>2. CASE \E l \in Leases : t = Transfer(l) /\ thread[l].pc \in Locking
      BY <3>2, AtInput DEF Base, Locking
    <3>3. QED  BY <1>1, <3>1, <3>2, PinsStep
  <2>3. QED  BY <2>1, <2>2, TaskStep DEF TaskMoves
<1>2. QED  BY <1>1 DEF TransfersNamed, Used


\* While a thread serves a lease, nothing but its own steps changes the lease's custody, and
\* what it has recorded stays recorded.
LEMMA ServedCustody ==
    ASSUME Base, Phases, Next, NEW l \in Leases, thread[l].pc # "idle"
    PROVE  /\ custody'[l].handed = "no" /\ ~custody'[l].abandoned
           /\ custody[l].held \subseteq custody'[l].held
           /\ custody'[l].pending \subseteq custody[l].pending \cup {Input(l)}
           /\ thread[l].pc # "check" => custody'[l].pending \subseteq custody[l].pending
<1>1. outcome[l] \in {"none", "refused"} /\ custody[l].handed = "no" /\ ~custody[l].abandoned
  BY DEF Base, ThreadPlaced
<1>2. CASE custody'[l] = custody[l]
  BY <1>1, <1>2
<1>3. CASE Records(l)
  BY <1>1, <1>3 DEF Records, Rest
<1>4. CASE Starts(l)
  BY <1>1, <1>4 DEF Starts, Rest
<1>5. CASE Discards(l)
  BY <1>1, <1>5 DEF Discards, Rest
<1>6. CASE Resolves(l)
  BY <1>6 DEF Resolves
<1>7. CASE Hands(l)
  <2>1. ~Ack(l)
    BY <1>1 DEF Ack, Phases
  <2>2. ~HandedOver(l)
    BY <1>1 DEF HandedOver
  <2>3. QED  BY <1>7, <2>1, <2>2 DEF Hands
<1>8. CASE Gives(l)
  BY <1>1, <1>8 DEF Gives
<1>9. QED  BY <1>2, <1>3, <1>4, <1>5, <1>6, <1>7, <1>8, CustodyStep DEF CustodyMoves

LEMMA ServedOutcome ==
    ASSUME Base, Next, NEW l \in Leases, thread[l].pc # "idle", thread'[l].pc # "idle"
    PROVE  outcome'[l] = outcome[l]
<1>1. ThreadTyped /\ OutcomeTyped
  BY Typed DEF Base
<1>2. ~(Leave(l) \/ Grant(l) \/ Refuse(l))
  <2>1. Leave(l) \/ Grant(l) \/ Refuse(l) => Goto(l, "idle")
    BY DEF Leave, Grant, Refuse
  <2>2. "idle" \in ThreadStates
    BY DEF ThreadStates
  <2>3. QED  BY <1>1, <2>1, <2>2, GoesTo
<1>3. QED  BY <1>1, <1>2, OutcomeStep DEF OutcomeMoves

\* A copy that a thread finds in its place, or completes, is recorded.
LEMMA RecordsWhatItPasses ==
    ASSUME Base, NEW l \in Leases,
           \/ Check(l) /\ thread'[l].pc \notin {"exit", "request"}
           \/ Finish(l) /\ thread'[l].pc = "release"
    PROVE  Input(l) \in custody'[l].held \ custody'[l].pending
<1>1. CustodyTyped /\ ThreadTyped
  BY Typed DEF Base
<1>2. Input(l) \in Objects
  BY AtInput, AtActive DEF Base, Check, Finish, ThreadStates, Locking
<1>3. custody' = [custody EXCEPT ![l] = Recorded(custody[l], Input(l))]
  <2>1. CASE Check(l) /\ thread'[l].pc \notin {"exit", "request"}
    <3>1. SUFFICES ASSUME NEW b \in BOOLEAN, NEW pc \in {"exit", "request"},
                          thread' = [thread EXCEPT ![l].before = b, ![l].pc = pc]
                   PROVE  FALSE
      BY <2>1 DEF Check, Present
    <3>2. thread'[l].pc = pc
      BY <1>1, <3>1 DEF ThreadTyped, Threads
    <3>3. QED  BY <2>1, <3>2
  <2>2. CASE Finish(l) /\ thread'[l].pc = "release"
    <3>1. ~Goto(l, "failed")
      <4>1. "failed" \in ThreadStates
        BY DEF ThreadStates, Locking
      <4>2. QED  BY <1>1, <2>2, <4>1, GoesTo
    <3>2. QED  BY <2>2, <3>1 DEF Finish
  <2>3. QED  BY <2>1, <2>2
<1>4. /\ custody'[l].pending = custody[l].pending \ {Input(l)}
      /\ custody'[l].held = custody[l].held \cup {Input(l)}
  BY <1>1, <1>2, <1>3, RecordedEffect
<1>5. QED  BY <1>4

\* A thread that is still active serves a lease of a Node that runs.
LEMMA ActiveRuns ==
    ASSUME Base, Next, NEW l \in Leases, thread'[l].pc # "idle"
    PROVE  Target[l] \in up'
<1>1. ThreadTyped /\ ClusterTyped
  BY Typed DEF Base
<1>2. Target[l] \in up
  BY <1>1, ThreadStep, ClusterStep DEF ThreadMoves, Base, ThreadPlaced
<1>3. ~NodeExit(Target[l])
  <2>1. SUFFICES ASSUME NodeExit(Target[l]) PROVE thread'[l].pc = "idle"
    OBVIOUS
  <2>2. thread'[l] = [Idle EXCEPT !.round = thread[l].round]
    BY <2>1 DEF NodeExit
  <2>3. QED  BY <2>2 DEF Idle
<1>4. QED  BY <1>1, <1>2, <1>3, ClusterStep

LEMMA ThreadPlacedKept ==
    ASSUME Base, Phases, Next
    PROVE  ThreadPlaced'
<1>1. SUFFICES ASSUME NEW l \in Leases, thread'[l].pc # "idle"
               PROVE  /\ thread'[l].round >= 1
                      /\ outcome'[l] \in {"none", "refused"} /\ custody'[l].handed = "no"
                      /\ ~custody'[l].abandoned
                      /\ thread'[l].pc # "localized" => thread'[l].input \in 1..Len(Inputs[l])
                      /\ \A j \in 1..Len(Inputs[l]) :
                            \/ j < thread'[l].input \/ thread'[l].pc = "localized"
                            \/ j = thread'[l].input /\ thread'[l].pc = "release" /\ ~thread'[l].failed
                            => Inputs[l][j] \in custody'[l].held \ custody'[l].pending
  BY ActiveRuns DEF ThreadPlaced
<1>2. ThreadTyped /\ Len(Inputs[l]) \in Nat /\ thread[l].input \in Nat /\ thread[l].round \in Nat
      /\ thread'[l].input \in Nat
  <2>1. ThreadTyped /\ ThreadTyped' /\ Rounds \in Nat
    BY Typed, ThreadStep, ObjectTransferAssumption DEF Base
  <2>2. thread[l] \in Threads /\ thread'[l] \in Threads
    BY <2>1 DEF ThreadTyped
  <2>3. QED  BY <2>1, <2>2, InputsTyped DEF Threads
<1>3. CASE thread[l].pc = "idle"
  <2>1. Enter(l) /\ Begins(l)
    BY <1>1, <1>2, <1>3, ThreadStep, ActiveRuns DEF ThreadMoves, Begins, Locks, Walks, Passes, Ends
  <2>2. /\ outcome[l] \in {"none", "refused"} /\ ~custody[l].abandoned
        /\ UNCHANGED <<outcome, custody>>
    BY <2>1 DEF Enter
  <2>3. custody[l].handed = "no"
    <3>1. custody[l].handed \in {"no", "acked", "abandoned"}
      BY Typed DEF Base, CustodyTyped, Custodies
    <3>2. QED  BY <2>2, <3>1 DEF Phases
  <2>4. CASE Inputs[l] = <<>>
    BY <1>2, <2>1, <2>2, <2>3, <2>4 DEF Begins
  <2>5. CASE Inputs[l] # <<>>
    <3>1. 1 \in 1..Len(Inputs[l])
      BY <1>2, <2>5, ObjectTransferAssumption
    <3>2. QED  BY <1>2, <2>1, <2>2, <2>3, <2>5, <3>1 DEF Begins
  <2>6. QED  BY <2>4, <2>5
<1>4. CASE thread[l].pc # "idle"
  <2>1. /\ thread[l].round >= 1 /\ outcome[l] \in {"none", "refused"}
        /\ thread[l].pc # "localized" => thread[l].input \in 1..Len(Inputs[l])
        /\ \A j \in 1..Len(Inputs[l]) :
              \/ j < thread[l].input \/ thread[l].pc = "localized"
              \/ j = thread[l].input /\ thread[l].pc = "release" /\ ~thread[l].failed
              => Inputs[l][j] \in custody[l].held \ custody[l].pending
    BY <1>4 DEF Base, ThreadPlaced
  <2>2. /\ custody'[l].handed = "no" /\ ~custody'[l].abandoned /\ outcome'[l] = outcome[l]
        /\ custody[l].held \subseteq custody'[l].held
        /\ custody'[l].pending \subseteq custody[l].pending \cup {Input(l)}
        /\ thread[l].pc # "check" => custody'[l].pending \subseteq custody[l].pending
    BY <1>1, <1>4, ServedCustody, ServedOutcome
  <2>3. ASSUME NEW j \in 1..Len(Inputs[l]), Inputs[l][j] \in custody[l].held \ custody[l].pending,
               j < thread[l].input \/ thread[l].pc # "check"
        PROVE  Inputs[l][j] \in custody'[l].held \ custody'[l].pending
    <3>1. CASE thread[l].pc # "check"
      BY <2>2, <2>3, <3>1
    <3>2. CASE thread[l].pc = "check"
      <4>1. thread[l].input \in 1..Len(Inputs[l]) /\ j # thread[l].input
        BY <1>2, <2>1, <2>3, <3>2
      <4>2. Inputs[l][j] # Input(l)
        BY <4>1, InputsDistinct DEF Input
      <4>3. QED  BY <2>2, <2>3, <4>2
    <3>3. QED  BY <3>1, <3>2
  <2>4. CASE thread'[l] = thread[l]
    BY <1>2, <2>1, <2>2, <2>3, <2>4
  <2>5. CASE thread'[l].round = thread[l].round /\ (Locks(l) \/ Walks(l)) /\ thread'[l].input = thread[l].input
    <3>1. /\ thread[l].pc # "localized" /\ thread'[l].pc # "localized"
          /\ thread[l].pc \notin {"localized", "idle"}
      BY <2>5 DEF Locks, Walks
    <3>2. ASSUME thread'[l].pc = "release", ~thread'[l].failed
          PROVE  Input(l) \in custody'[l].held \ custody'[l].pending
      <4>1. Finish(l)
        BY <2>5, <3>2 DEF Locks, Walks
      <4>2. QED  BY <3>2, <4>1, RecordsWhatItPasses
    <3>3. Input(l) = Inputs[l][thread[l].input]
      BY DEF Input
    <3>4. QED  BY <1>2, <2>1, <2>2, <2>3, <2>5, <3>1, <3>2, <3>3
  <2>6. CASE thread'[l].round = thread[l].round /\ Passes(l)
    <3>1. thread[l].pc \in {"check", "release"} /\ thread[l].input \in 1..Len(Inputs[l])
      BY <2>1, <2>6 DEF Passes
    <3>2. Inputs[l][thread[l].input] \in custody'[l].held \ custody'[l].pending
      <4>1. CASE Check(l)
        BY <2>6, <4>1, RecordsWhatItPasses DEF Passes, Input
      <4>2. CASE Release(l) /\ thread[l].pc = "release" /\ ~thread[l].failed
        BY <2>1, <2>3, <3>1, <4>2
      <4>3. QED  BY <2>6, <4>1, <4>2 DEF Passes
    <3>3. \A j \in 1..Len(Inputs[l]) :
             j <= thread[l].input => Inputs[l][j] \in custody'[l].held \ custody'[l].pending
      BY <1>2, <2>1, <2>3, <3>1, <3>2
    <3>4. CASE thread[l].input < Len(Inputs[l])
      <4>1. thread'[l].pc = "check" /\ thread'[l].input = thread[l].input + 1
        BY <2>6, <3>4 DEF Passes
      <4>2. QED  BY <1>2, <2>1, <2>2, <2>6, <3>1, <3>3, <3>4, <4>1
    <3>5. CASE ~(thread[l].input < Len(Inputs[l]))
      <4>1. thread'[l].pc = "localized" /\ \A j \in 1..Len(Inputs[l]) : j <= thread[l].input
        BY <1>2, <2>6, <3>1, <3>5 DEF Passes
      <4>2. QED  BY <2>1, <2>2, <2>6, <3>3, <4>1
    <3>6. QED  BY <3>4, <3>5
  <2>7. QED
    <3>1. ~Begins(l) /\ ~Ends(l)
      BY <1>1, <1>4 DEF Begins, Ends
    <3>2. QED  BY <1>1, <1>2, <2>4, <2>5, <2>6, <3>1, ThreadStep DEF ThreadMoves
<1>5. QED  BY <1>3, <1>4

-----------------------------------------------------------------------------
(* Locks, places and pulls *)

\* A thread inside a lock was inside it before, for the same input, or has just taken it.
LEMMA InsideLock ==
    ASSUME Base, Next, NEW l \in Leases, thread'[l].pc \in Locking
    PROVE  /\ Input(l)' = Input(l)
           /\ Locks(l) \/ thread[l].pc \in Locking
<1>1. ThreadTyped
  BY Typed DEF Base
<1>2. thread'[l].pc \notin {"idle", "check", "localized"}
  BY DEF Locking
<1>3. thread'[l] = thread[l] \/ ((Locks(l) \/ Walks(l)) /\ thread'[l].input = thread[l].input)
  BY <1>1, <1>2, ThreadStep DEF ThreadMoves, Begins, Passes, Ends
<1>4. Locks(l) \/ thread[l].pc \in Locking
  BY <1>3 DEF Walks, Locking
<1>5. thread'[l].input = thread[l].input
  BY <1>3
<1>6. QED  BY <1>4, <1>5 DEF Input

\* Two threads do not take locks in one step.
LEMMA OneLocks ==
    ASSUME ThreadTyped, NEW l \in Leases, NEW m \in Leases, Locks(l), Locks(m)
    PROVE  l = m
<1>1. SUFFICES ASSUME l # m PROVE FALSE
  OBVIOUS
<1>2. thread'[m] = thread[m]
  <2>1. CASE Advance(l)
    BY <1>1, <2>1, Advances
  <2>2. CASE ~Advance(l)
    <3>1. PICK b \in BOOLEAN, pc \in {"exit", "request"} :
              thread' = [thread EXCEPT ![l].before = b, ![l].pc = pc]
      BY <2>2 DEF Locks, Check, Present
    <3>2. QED  BY <1>1, <3>1 DEF ThreadTyped
  <2>3. QED  BY <2>1, <2>2
<1>3. QED  BY <1>2 DEF Locks

LEMMA LocksExcludeKept ==
    ASSUME Base, LocksExclude, Next
    PROVE  LocksExclude'
<1>1. SUFFICES ASSUME NEW l \in Leases, NEW m \in Leases, Target[l] = Target[m],
                      thread'[l].pc \in Locking, thread'[m].pc \in Locking, Input(l)' = Input(m)'
               PROVE  l = m
  BY DEF LocksExclude
<1>2. ThreadTyped
  BY Typed DEF Base
<1>3. /\ Input(l) = Input(m)
      /\ Locks(l) \/ thread[l].pc \in Locking
      /\ Locks(m) \/ thread[m].pc \in Locking
  BY <1>1, InsideLock
<1>4. CASE Locks(l) /\ Locks(m)
  BY <1>2, <1>4, OneLocks
<1>5. CASE thread[l].pc \in Locking /\ thread[m].pc \in Locking
  BY <1>1, <1>3, <1>5 DEF LocksExclude
<1>6. CASE Locks(l) /\ thread[m].pc \in Locking
  BY <1>1, <1>3, <1>6 DEF Locks, Locked
<1>7. CASE Locks(m) /\ thread[l].pc \in Locking
  BY <1>1, <1>3, <1>7 DEF Locks, Locked
<1>8. QED  BY <1>3, <1>4, <1>5, <1>6, <1>7

\* Only the thread that pulls changes the place it pulls into, and its pull record.
LEMMA PlaceKept ==
    ASSUME Base, LocksExclude, PullsOwnTheirPlace, Next, NEW l \in Leases,
           thread[l].pc \in Pulling, thread'[l].pc \in Pulling
    PROVE  /\ store'[Target[l]][Input(l)].state = "partial"
           /\ pulls'[Target[l]][Input(l)].state = "PULLING"
<1> DEFINE n == Target[l]
           o == Input(l)
<1>1. /\ n \in Nodes /\ o \in Objects /\ n \in up' /\ ThreadTyped
      /\ store[n][o].state = "partial" /\ pulls[n][o].state = "PULLING"
  <2>1. thread[l].pc \notin {"idle", "localized"} /\ thread'[l].pc # "idle"
    BY DEF Pulling
  <2>2. QED  BY <2>1, AtInput, ActiveRuns, Typed DEF Base, PullsOwnTheirPlace
<1>2. /\ thread[l].pc \in Locking /\ thread[l].pc # "request" /\ thread'[l].pc # "release"
  BY DEF Pulling, Locking
<1>3. \A m \in Leases : Places(n, o, m) /\ thread[m].pc \in Locking => m = l
  BY <1>2 DEF LocksExclude, Places
<1>4. \A m \in Leases : ~(Abort(m) /\ Places(n, o, m))
  <2>1. SUFFICES ASSUME NEW m \in Leases, Abort(m), Places(n, o, m) PROVE FALSE
    OBVIOUS
  <2>2. thread[m].pc = "failed" /\ Fails(m, "release")
    BY <2>1 DEF Abort, At
  <2>3. m = l
    BY <1>3, <2>1, <2>2 DEF Locking
  <2>4. thread'[l].pc = "release"
    BY <1>1, <2>2, <2>3 DEF Fails, ThreadTyped, Threads
  <2>5. QED  BY <1>2, <2>4
<1>5. \A m \in Leases : ~(Finish(m) /\ thread[m].pc = "finish" /\ thread'[m].pc = "release" /\ Places(n, o, m))
  BY <1>2, <1>3 DEF Locking
<1>6. \A m \in Leases : Finish(m) /\ store' # store => thread'[m].pc = "release"
  <2>1. "release" \in ThreadStates
    BY DEF ThreadStates, Locking
  <2>2. QED  BY <1>1, <2>1, GoesTo DEF Finish
<1>7. store'[n][o].state = "partial"
  <2>1. CASE store'[n][o] = store[n][o]
    BY <1>1, <2>1
  <2>2. CASE store'[n][o] # store[n][o]
    <3>1. Moves(n, o)
      BY <1>1, <2>2, StoreStep
    <3>2. ~Takes(n, o) /\ ~IsMade(n, o) /\ ~IsDropped(n, o)
      <4>1. ~Takes(n, o) /\ ~IsMade(n, o)
        BY <1>1 DEF Takes, IsMade
      <4>2. SUFFICES ASSUME NEW k \in 1..Attempts, store[n][o] = Sealed(k) PROVE FALSE
        BY <4>1 DEF IsDropped
      <4>3. QED  BY <1>1, <4>2 DEF Sealed
    <3>3. ~GivesBack(n, o)
      BY <1>4 DEF GivesBack
    <3>4. ~Arrives(n, o)
      BY <1>5, <1>6, <2>2 DEF Arrives, At
    <3>5. QED  BY <3>1, <3>2, <3>3, <3>4 DEF Moves, Fills
  <2>3. QED  BY <2>1, <2>2
<1>8. pulls'[n][o].state = "PULLING"
  <2>1. Locked(n, o)
    BY <1>2 DEF Locked
  <2>2. ~PullMoves(n, o)
    <3>1. \A m \in Leases : ~(Places(n, o, m) /\ Request(m) /\ thread[m].pc = "request")
      BY <1>2, <1>3 DEF Locking
    <3>2. QED  BY <1>1, <1>4, <1>5, <2>1, <3>1 DEF PullMoves
  <2>3. QED  BY <1>1, <2>2, PullsStep
<1>9. QED  BY <1>7, <1>8

\* The place is taken with the step that begins the pull.
LEMMA PlaceTaken ==
    ASSUME Base, NEW l \in Leases, Request(l), thread'[l].pc = "pin"
    PROVE  store'[Target[l]][Input(l)].state = "partial"
<1>1. ThreadTyped /\ StoreTyped /\ Target[l] \in Nodes /\ Input(l) \in Objects
  <2>1. thread[l].pc = "request"
    BY DEF Request, At
  <2>2. QED  BY <2>1, AtInput, Typed DEF Base
<1>2. ~Goto(l, "exit")
  <2>1. "exit" \in ThreadStates
    BY DEF ThreadStates, Locking
  <2>2. QED  BY <1>1, <2>1, GoesTo
<1>3. store' = [store EXCEPT ![Target[l]][Input(l)] = Partial(0)]
  BY <1>2 DEF Request
<1>4. QED  BY <1>1, <1>3 DEF StoreTyped, Partial

LEMMA PullsOwnTheirPlaceKept ==
    ASSUME Base, LocksExclude, PullsOwnTheirPlace, Next
    PROVE  PullsOwnTheirPlace'
<1>1. SUFFICES ASSUME NEW l \in Leases, thread'[l].pc \in Pulling
               PROVE  /\ store'[Target[l]][Input(l)].state = "partial"
                      /\ pulls'[Target[l]][Input(l)].state = "PULLING"
  <2>1. \A l \in Leases : thread'[l].pc \in Pulling => Input(l)' = Input(l)
    BY InsideLock DEF Pulling, Locking
  <2>2. QED  BY <1>1, <2>1 DEF PullsOwnTheirPlace
<1>2. CASE thread[l].pc \in Pulling
  BY <1>1, <1>2, PlaceKept
<1>3. CASE thread[l].pc \notin Pulling
  <2>1. Request(l) /\ thread'[l].pc = "pin"
    <3>1. ThreadTyped /\ thread'[l] # thread[l] /\ thread'[l].pc \notin {"idle", "check", "localized"}
      BY <1>1, <1>3, Typed DEF Base, Pulling
    <3>2. Locks(l) \/ Walks(l)
      BY <3>1, ThreadStep DEF ThreadMoves, Begins, Passes, Ends
    <3>3. QED  BY <1>1, <1>3, <3>2 DEF Locks, Walks, Pulling
  <2>2. QED  BY <2>1, PlaceTaken, PullsStep
<1>4. QED  BY <1>2, <1>3

\* A place taken stays with the thread that took it until it gives it back or fills it.
LEMMA RoomComesBackKept ==
    ASSUME Base, LocksExclude, PullsOwnTheirPlace, RoomComesBack, Next
    PROVE  RoomComesBack'
<1>1. SUFFICES ASSUME NEW n \in up', NEW o \in Objects, store'[n][o].state = "partial"
               PROVE  \E l \in Leases : Places(n, o, l) /\ thread'[l].pc \in Pulling
  <2>1. \A l \in Leases : thread'[l].pc \in Pulling => Input(l)' = Input(l)
    BY InsideLock DEF Pulling, Locking
  <2>2. ASSUME NEW n \in up', NEW o \in Objects, store'[n][o].state = "partial"
        PROVE  /\ pulls'[n][o].state = "PULLING"
               /\ \E l \in Leases : /\ Target[l] = n /\ Input(l)' = o
                                    /\ thread'[l].pc \in {"pin", "read", "finish", "failed"}
    <3>1. PICK l \in Leases : Places(n, o, l) /\ thread'[l].pc \in Pulling
      BY <1>1, <2>2
    <3>2. Input(l)' = o /\ Target[l] = n
      BY <2>1, <3>1 DEF Places
    <3>3. pulls'[Target[l]][Input(l)'].state = "PULLING"
      BY <3>1, PullsOwnTheirPlaceKept DEF PullsOwnTheirPlace
    <3>4. QED  BY <3>1, <3>2, <3>3 DEF Pulling
  <2>3. QED  BY <2>2 DEF RoomComesBack
<1>2. ThreadTyped /\ n \in Nodes /\ n \in up
  BY Typed, ClusterStep DEF Base, ClusterTyped
<1>3. CASE store'[n][o] = store[n][o]
  <2>1. PICK l \in Leases : Places(n, o, l) /\ thread[l].pc \in Pulling
    BY <1>1, <1>2, <1>3 DEF RoomComesBack, Places, Pulling
  <2>2. thread'[l] = thread[l] \/ ThreadMoves(l)
    BY <1>2, <2>1, ThreadStep DEF Places
  <2>3. CASE thread'[l] = thread[l]
    BY <2>1, <2>3
  <2>4. CASE ThreadMoves(l)
    <3>1. Walks(l)
      BY <2>1, <2>4 DEF ThreadMoves, Begins, Locks, Passes, Ends, Pulling
    <3>2. StoreTyped /\ n \in Nodes /\ Input(l) = o /\ Target[l] = n
      BY <1>2, <2>1, Typed DEF Base, Places
    <3>3. thread'[l].pc # "release"
      <4>1. ~Abort(l)
        <5>1. Abort(l) => store'[n][o] = Absent
          BY <1>2, <3>2 DEF Abort, StoreTyped
        <5>2. QED  BY <1>1, <5>1 DEF Absent
      <4>2. SUFFICES ASSUME Finish(l), thread'[l].pc = "release" PROVE FALSE
        BY <2>1, <3>1, <4>1 DEF Walks, Pulling
      <4>3. "failed" \in ThreadStates
        BY DEF ThreadStates, Locking
      <4>4. store' = [store EXCEPT ![n][o] = Sealed(Wanted(l))]
        BY <1>2, <3>2, <4>2, <4>3, GoesTo DEF Finish
      <4>5. store'[n][o] = Sealed(Wanted(l))
        BY <3>2, <4>4 DEF StoreTyped
      <4>6. QED  BY <1>1, <4>5 DEF Sealed
    <3>4. thread'[l].pc \in Pulling
      BY <2>1, <3>1, <3>3 DEF Walks, Pulling
    <3>5. QED  BY <2>1, <3>4
  <2>5. QED  BY <2>2, <2>3, <2>4
<1>4. CASE store'[n][o] # store[n][o]
  <2>1. Takes(n, o) \/ Fills(n, o)
    <3>1. Moves(n, o)
      BY <1>1, <1>2, <1>4, StoreStep
    <3>2. store'[n][o] # Absent /\ \A k : store'[n][o] # Sealed(k)
      BY <1>1 DEF Absent, Sealed
    <3>3. ~GivesBack(n, o) /\ ~IsDropped(n, o)
      BY <3>2 DEF GivesBack, IsDropped
    <3>4. ~Arrives(n, o) /\ ~IsMade(n, o)
      BY <3>2 DEF Arrives, IsMade
    <3>5. QED  BY <3>1, <3>3, <3>4 DEF Moves
  <2>2. CASE Takes(n, o)
    BY <2>2 DEF Takes, Pulling
  <2>3. CASE Fills(n, o)
    <3>1. PICK l \in Leases : Read(l) /\ Places(n, o, l)
      BY <2>3 DEF Fills
    <3>2. thread'[l].pc \in {"finish", "failed"}
      <4>1. "finish" \in ThreadStates /\ "failed" \in ThreadStates
        BY DEF ThreadStates, Locking
      <4>2. QED  BY <1>2, <3>1, <4>1, GoesTo DEF Read
    <3>3. QED  BY <3>1, <3>2 DEF Pulling
  <2>4. QED  BY <2>1, <2>2, <2>3
<1>5. QED  BY <1>3, <1>4

-----------------------------------------------------------------------------
(* Copies *)

\* A copy stays until it is dropped.
LEMMA CopyKept ==
    ASSUME Base, PullsOwnTheirPlace, Next, NEW n \in Nodes, NEW o \in Objects, n \in up',
           store[n][o].state = "sealed"
    PROVE  store'[n][o] = store[n][o] \/ IsDropped(n, o)
<1>1. store'[n][o] = store[n][o] \/ Moves(n, o)
  BY StoreStep
<1>2. ~Takes(n, o) /\ ~Fills(n, o) /\ ~GivesBack(n, o)
  BY DEF Takes, Fills, GivesBack
<1>3. ~Arrives(n, o) /\ ~IsMade(n, o)
  BY DEF Arrives, IsMade
<1>4. QED  BY <1>1, <1>2, <1>3 DEF Moves

\* A copy that appears has been pulled or produced.
LEMMA CopyNew ==
    ASSUME Base, PullsOwnTheirPlace, Next, NEW n \in Nodes, NEW o \in Objects,
           store'[n][o].state = "sealed"
    PROVE  store'[n][o] = store[n][o] \/ Arrives(n, o) \/ IsMade(n, o)
<1>1. store'[n][o] = store[n][o] \/ Moves(n, o)
  BY StoreStep DEF Absent
<1>2. ~Takes(n, o) /\ ~Fills(n, o)
  BY DEF Takes, Fills
<1>3. ~GivesBack(n, o) /\ ~IsDropped(n, o)
  <2>1. store'[n][o] # Absent
    BY DEF Absent
  <2>2. QED  BY <2>1 DEF GivesBack, IsDropped
<1>4. QED  BY <1>1, <1>2, <1>3 DEF Moves

\* A result is stored, with the owner's record of it, or refused.
LEMMA MadeEffect ==
    ASSUME Base, NEW n \in Nodes, NEW o \in Objects, IsMade(n, o)
    PROVE  /\ UNCHANGED receipts
           /\ owner'[o].state = "ready" /\ owner'[o].locs = {n} /\ owner'[o].attempt = owner[o].attempt
<1>1. OwnerTyped /\ owner[o] \in Owners
  BY Typed DEF Base, OwnerTyped
<1>2. store' # store
  BY DEF IsMade, Sealed
<1>3. /\ UNCHANGED receipts
      /\ owner' = [owner EXCEPT ![o].state = "ready", ![o].locs = {n}]
  BY <1>2 DEF IsMade, Produce
<1>4. QED  BY <1>1, <1>3 DEF OwnerTyped, Owners

\* A finished pull has recorded its copy.
LEMMA ArrivesEffect ==
    ASSUME Base, NEW n \in Nodes, NEW o \in Objects, Arrives(n, o)
    PROVE  \E l \in Leases :
              /\ Target[l] = n /\ Input(l) = o /\ o \in InputSet(l) /\ task[l] # "new"
              /\ thread[l].pc = "finish" /\ thread'[l].pc = "release"
              /\ ~Deleted(n, o, desc[l][o].attempt)
              /\ store'[n][o] = Sealed(desc[l][o].attempt)
              /\ desc[l][o].attempt \in 1..Attempts
              /\ o \in custody'[l].held
<1>1. PICK l \in Leases : /\ Finish(l) /\ Places(n, o, l) /\ At(l, "finish")
                          /\ ~Deleted(n, o, Wanted(l))
                          /\ store[n][o].state = "partial" /\ store'[n][o] = Sealed(Wanted(l))
  BY DEF Arrives
<1>2. thread[l].pc = "finish" /\ Target[l] = n /\ Input(l) = o
  BY <1>1 DEF At, Places
<1>3. o \in InputSet(l) /\ task[l] # "new" /\ Wanted(l) \in 1..Attempts
  BY <1>2, AtInput DEF Base
<1>4. Wanted(l) = desc[l][o].attempt
  BY <1>2 DEF Wanted
<1>5. thread'[l].pc = "release"
  <2>1. store' # store
    BY <1>1 DEF Sealed
  <2>2. Goto(l, "release")
    BY <1>1, <2>1 DEF Finish
  <2>3. "release" \in ThreadStates /\ ThreadTyped
    BY Typed DEF ThreadStates, Locking, Base
  <2>4. QED  BY <2>2, <2>3, GoesTo
<1>6. o \in custody'[l].held
  BY <1>1, <1>2, <1>5, RecordsWhatItPasses
<1>7. QED  BY <1>1, <1>2, <1>3, <1>4, <1>5, <1>6

\* What is deleted stays deleted.
LEMMA NothingReturnsKept ==
    ASSUME Base, PullsOwnTheirPlace, NothingReturns, Next
    PROVE  NothingReturns'
<1>1. StoreTyped /\ StoreTyped' /\ receipts \subseteq Copies /\ (receipts \subseteq Copies)' /\ OwnerTyped
      /\ ClusterTyped /\ 1..Attempts \subseteq Nat /\ Attempts \in Nat
  BY Typed, StoreStep, ReceiptsStep, ObjectTransferAssumption DEF Base
<1>2. SUFFICES ASSUME NEW n \in Nodes, NEW o \in Objects, NEW k \in 1..Attempts,
                      <<n, o, k>> \in receipts', store'[n][o].state = "sealed"
               PROVE  store'[n][o].attempt > k
  BY <1>1 DEF NothingReturns, Copies
<1>3. store'[n][o].attempt \in 0..Attempts
  BY <1>1 DEF StoreTyped, Entries
<1>4. \A j \in 1..Attempts : <<n, o, k>> \in receipts /\ ~Deleted(n, o, j) => k < j
  BY <1>1 DEF Deleted
<1>5. CASE <<n, o, k>> \in receipts
  <2>1. CASE store'[n][o] = store[n][o]
    BY <1>2, <1>5, <2>1 DEF NothingReturns
  <2>2. CASE Arrives(n, o)
    <3>1. PICK j \in 1..Attempts : ~Deleted(n, o, j) /\ store'[n][o] = Sealed(j)
      BY <2>2, ArrivesEffect
    <3>2. k < j
      BY <1>4, <1>5, <3>1
    <3>3. QED  BY <1>1, <3>1, <3>2 DEF Sealed
  <2>3. CASE IsMade(n, o)
    <3>1. /\ owner[o].attempt \in 1..Attempts /\ ~Deleted(n, o, owner[o].attempt)
          /\ store'[n][o] = Sealed(owner[o].attempt)
      BY <1>1, <2>3 DEF IsMade, OwnerTyped, Owners
    <3>2. k < owner[o].attempt
      BY <1>4, <1>5, <3>1
    <3>3. QED  BY <1>1, <3>1, <3>2 DEF Sealed
  <2>4. QED  BY <1>2, <2>1, <2>2, <2>3, CopyNew
<1>6. CASE Refused(n, o, k)
  <2>1. store[n][o].state = "absent" /\ Produce(n, o)
    BY <1>6 DEF Refused, Present
  <2>2. ~IsMade(n, o)
    <3>1. SUFFICES ASSUME IsMade(n, o) PROVE FALSE
      OBVIOUS
    <3>2. owner'[o].state = "ready" /\ owner'[o].attempt = owner[o].attempt
      BY <3>1, MadeEffect
    <3>3. owner[o].attempt \in Nat
      BY <1>1 DEF OwnerTyped, Owners
    <3>4. QED  BY <1>6, <3>2, <3>3 DEF Refused
  <2>3. ~Arrives(n, o)
    BY <2>1 DEF Arrives
  <2>4. QED  BY <1>2, <2>1, <2>2, <2>3, CopyNew
<1>7. CASE Dropped(n, o, k)
  BY <1>2, <1>7 DEF Dropped, Absent
<1>8. QED  BY <1>2, <1>5, <1>6, <1>7, ReceiptsStep

\* A transfer whose pin or release is on its way keeps its source and its attempt.
LEMMA TransferFixed ==
    ASSUME Base, TransfersNamed, Next, NEW t \in Transfers, Used(t)'
    PROVE  /\ task[t[1]] # "new" /\ t[2] \in InputSet(t[1]) /\ t[2] \in Objects
           /\ Source(t)' = Source(t) /\ Attempt(t)' = Attempt(t)
           /\ Source(t) \in Nodes /\ Attempt(t) \in 1..Attempts
<1>1. t[1] \in Leases /\ TaskTyped
  BY Typed DEF Transfers, Base
<1>2. task[t[1]] # "new" /\ t[2] \in InputSet(t[1])
  <2>1. CASE Used(t)
    BY <2>1 DEF TransfersNamed, Used
  <2>2. CASE \E l \in Leases : t = Transfer(l) /\ thread[l].pc \in Locking
    BY <2>2, AtInput DEF Base, Locking
  <2>3. QED  BY <2>1, <2>2, PinsStep
<1>3. desc'[t[1]] = desc[t[1]]
  BY <1>1, <1>2, TaskStep
<1>4. desc[t[1]][t[2]] \in Named /\ t[2] \in Objects
  BY <1>1, <1>2, InputsTyped DEF Base, Requests, Named
<1>5. QED  BY <1>2, <1>3, <1>4 DEF Source, Attempt, Named

\* A pin keeps the replica it was given for.
LEMMA PinKeepsReplicaKept ==
    ASSUME Base, PullsOwnTheirPlace, TransfersNamed, PinKeepsReplica, Next
    PROVE  PinKeepsReplica'
<1>1. SUFFICES ASSUME NEW t \in Transfers, session'[t] = "open", Source(t)' \in up'
               PROVE  store'[Source(t)'][t[2]] = Sealed(Attempt(t)')
  BY DEF PinKeepsReplica, Holds, Sealed
<1>2. /\ t[2] \in Objects /\ Source(t)' = Source(t) /\ Attempt(t)' = Attempt(t)
      /\ Source(t) \in Nodes /\ Source(t) \in up' /\ Source(t) \in up
  <2>1. Used(t)'
    BY <1>1 DEF Used
  <2>2. up' \subseteq up
    BY Typed, ClusterStep DEF Base
  <2>3. QED  BY <1>1, <2>1, <2>2, TransferFixed
<1>3. store[Source(t)][t[2]] = Sealed(Attempt(t))
  <2>1. CASE session[t] = "open"
    BY <1>2, <2>1 DEF PinKeepsReplica, Holds
  <2>2. CASE Opens(t)
    BY <2>2 DEF Opens, Pinnable, Holds
  <2>3. QED  BY <1>1, <2>1, <2>2, PinsStep
<1>4. ~IsDropped(Source(t), t[2])
  <2>1. SUFFICES ASSUME NEW k \in 1..Attempts, Drop(Source(t), t[2], k), Droppable(Source(t), t[2], k)
                 PROVE  FALSE
    BY DEF IsDropped
  <2>2. session[t] = "open"
    BY <1>1, <2>1 DEF Drop, pinVars
  <2>3. QED  BY <2>1, <2>2 DEF Droppable, Pinned
<1>5. store'[Source(t)][t[2]] = Sealed(Attempt(t))
  BY <1>2, <1>3, <1>4, CopyKept DEF Sealed
<1>6. QED  BY <1>2, <1>5

-----------------------------------------------------------------------------
(* Custody, answers and hand-off *)

\* What a lease asked for is fixed before anything is kept for it.
LEMMA AskedFixed ==
    ASSUME Base, Next, NEW l \in Leases,
           \/ custody[l] # NoCustody \/ reported[l] # {}
           \/ custody'[l] # NoCustody \/ reported'[l] # {}
    PROVE  /\ task[l] # "new" /\ desc'[l] = desc[l] /\ desc[l] \in [InputSet(l) -> Named]
           /\ \A o \in InputSet(l) : o \in Objects /\ desc[l][o].attempt \in 1..Attempts
                                     /\ Made(o, desc[l][o].attempt)
<1>1. task[l] # "new"
  <2>1. SUFFICES ASSUME task[l] = "new" PROVE FALSE
    OBVIOUS
  <2>2. /\ thread[l].pc = "idle" /\ custody[l] = NoCustody /\ reported[l] = {} /\ l \notin doomed
        /\ ~custody[l].abandoned
    BY <2>1 DEF Base, Requests, NoCustody
  <2>3. CASE task'[l] = "new"
    <3>1. custody'[l] = NoCustody /\ reported'[l] = {}
      BY <2>3, RequestsKept DEF Requests, NoCustody
    <3>2. QED  BY <2>2, <3>1
  <2>4. CASE task'[l] # "new"
    <3>1. Submit(l)
      BY <2>1, <2>4, Typed, TaskStep DEF Base
    <3>2. UNCHANGED <<custody, reported>>
      BY <3>1 DEF Submit, leaseVars
    <3>3. QED  BY <2>2, <3>2
  <2>5. QED  BY <2>3, <2>4
<1>2. desc'[l] = desc[l]
  BY <1>1, Typed, TaskStep DEF Base
<1>3. desc[l] \in [InputSet(l) -> Named] /\ \A o \in InputSet(l) : Made(o, desc[l][o].attempt)
  BY <1>1 DEF Base, Requests, Named
<1>4. QED  BY <1>1, <1>2, <1>3, InputsTyped DEF Named

\* What a lease holds, it goes on to hold; what it gives away or reports, it held.
LEMMA HeldGrows ==
    ASSUME Base, Next, NEW l \in Leases
    PROVE  /\ custody[l].held \subseteq custody'[l].held
           /\ \A o \in custody'[l].given : o \in custody[l].given
                                           \/ (o \in custody[l].held /\ HandOver(l, o))
           /\ \A o \in reported'[l] : o \in reported[l] \/ (o \in custody[l].held /\ Report(l, o))
<1>1. ReportsTyped /\ CustodyTyped
  BY Typed DEF Base
<1>2. \A o \in reported'[l] : o \in reported[l] \/ (o \in custody[l].held /\ Report(l, o))
  <2>1. reported'[l] = reported[l] \/ ReportsMove(l)
    BY <1>1, ReportsStep
  <2>2. QED  BY <2>1 DEF ReportsMove, Report, Inventory
<1>3. CASE custody'[l] = custody[l]
  BY <1>2, <1>3
<1>4. CASE Records(l) \/ Starts(l) \/ Discards(l) \/ Resolves(l) \/ Hands(l)
  <2>1. custody'[l].given = custody[l].given /\ custody[l].held \subseteq custody'[l].held
    BY <1>4 DEF Records, Starts, Discards, Resolves, Hands, Rest
  <2>2. QED  BY <1>2, <2>1
<1>5. CASE Gives(l)
  <2>1. PICK o \in InputSet(l) : HandOver(l, o) /\ custody'[l].given = custody[l].given \cup {o}
    BY <1>5 DEF Gives
  <2>2. o \in custody[l].held /\ custody'[l].held = custody[l].held
    BY <1>5, <2>1 DEF HandOver, Gives
  <2>3. QED  BY <1>2, <2>1, <2>2
<1>6. QED  BY <1>3, <1>4, <1>5, CustodyStep DEF CustodyMoves

\* A copy that comes into custody is in the store, and what is in custody was asked for.
LEMMA HeldIsThere ==
    ASSUME Base, Next, NEW l \in Leases, NEW o \in custody'[l].held, o \notin custody[l].held
    PROVE  store'[Target[l]][o] = Sealed(desc[l][o].attempt)
<1>1. Records(l) \/ Resolves(l)
  BY CustodyStep DEF CustodyMoves, Starts, Discards, Hands, Gives
<1>2. CASE Records(l)
  <2>1. o = Input(l)
    BY <1>2 DEF Records
  <2>2. QED  BY <1>2, <2>1 DEF Records, Wanted
<1>3. CASE Resolves(l)
  BY <1>3 DEF Resolves, Holds
<1>4. QED  BY <1>1, <1>2, <1>3

LEMMA CustodyOfInputs ==
    ASSUME Base, CustodyKept, Next, NEW l \in Leases
    PROVE  custody'[l].pending \cup custody'[l].held \subseteq InputSet(l)
<1>1. custody[l].pending \cup custody[l].held \subseteq InputSet(l)
  BY DEF CustodyKept
<1>2. CASE thread[l].pc \in {"check", "finish", "exit"}
  <2>1. Input(l) \in InputSet(l)
    BY <1>2, AtInput DEF Base
  <2>2. QED
    BY <1>1, <2>1, CustodyStep
    DEF CustodyMoves, Records, Starts, Discards, Resolves, Hands, Gives
<1>3. CASE thread[l].pc \notin {"check", "finish", "exit"}
  <2>1. custody'[l] = custody[l] \/ Resolves(l) \/ Hands(l) \/ Gives(l)
    BY <1>3, CustodyStep DEF CustodyMoves, Records, Starts, Discards
  <2>2. QED  BY <1>1, <2>1 DEF Resolves, Hands, Gives
<1>4. QED  BY <1>2, <1>3

LEMMA CustodyKeptKept ==
    ASSUME Base, PullsOwnTheirPlace, CustodyKept, Next
    PROVE  CustodyKept'
<1>1. ASSUME NEW l \in Leases
      PROVE  custody'[l].given \cup reported'[l] \subseteq custody'[l].held
  <2>1. custody[l].given \cup reported[l] \subseteq custody[l].held
    BY DEF CustodyKept
  <2>2. QED  BY <2>1, HeldGrows
<1>2. ASSUME NEW l \in Leases, Target[l] \in up', NEW o \in custody'[l].held
      PROVE  \/ store'[Target[l]][o] = Sealed(desc'[l][o].attempt)
             \/ <<Target[l], o, desc'[l][o].attempt>> \in receipts'
  <2> DEFINE n == Target[l]
             k == desc[l][o].attempt
  <2>1. o \in InputSet(l)
    BY CustodyOfInputs
  <2>2. desc'[l] = desc[l] /\ o \in Objects /\ k \in 1..Attempts
    <3>1. custody'[l] # NoCustody
      BY DEF NoCustody
    <3>2. QED  BY <2>1, <3>1, AskedFixed
  <2>3. n \in Nodes /\ n \in up
    BY <1>2, InputsTyped, Typed, ClusterStep DEF Base
  <2>4. CASE o \notin custody[l].held
    BY <2>2, <2>4, HeldIsThere
  <2>5. CASE o \in custody[l].held /\ <<n, o, k>> \in receipts
    BY <1>2, <2>2, <2>3, <2>5, ReceiptsStep
  <2>6. CASE o \in custody[l].held /\ store[n][o] = Sealed(k)
    <3>1. CASE store'[n][o] = store[n][o]
      BY <2>2, <2>6, <3>1
    <3>2. CASE IsDropped(n, o)
      <4>1. PICK j \in 1..Attempts : store[n][o] = Sealed(j) /\ receipts' = receipts \cup {<<n, o, j>>}
        BY <3>2 DEF IsDropped
      <4>2. j = k
        BY <2>6, <4>1 DEF Sealed
      <4>3. QED  BY <2>2, <4>1, <4>2
    <3>3. QED  BY <1>2, <2>2, <2>3, <2>6, <3>1, <3>2, CopyKept DEF Sealed
  <2>7. QED  BY <2>3, <2>4, <2>5, <2>6 DEF CustodyKept, Holds
<1>3. QED  BY <1>1, <1>2, CustodyOfInputs DEF CustodyKept, Holds, Sealed

\* Once a lease is granted or cancelled, its thread is done: what is pending is only resolved,
\* and the answer changes only by a cancellation.
LEMMA AnswerSettled ==
    ASSUME Base, Next, NEW l \in Leases, outcome[l] \in {"granted", "cancelled"}
    PROVE  /\ outcome'[l] = outcome[l] \/ (outcome'[l] = "cancelled" /\ (Cancel(l) \/ Abandon(l)))
           /\ custody'[l].pending \subseteq custody[l].pending
           /\ \A o \in custody'[l].held : o \in custody[l].held \/ o \in custody[l].pending
<1>1. thread[l].pc = "idle" /\ OutcomeTyped
  BY Typed DEF Base, ThreadPlaced
<1>2. outcome'[l] = outcome[l] \/ (outcome'[l] = "cancelled" /\ (Cancel(l) \/ Abandon(l)))
  BY <1>1, OutcomeStep DEF OutcomeMoves
<1>3. custody'[l] = custody[l] \/ Resolves(l) \/ Hands(l) \/ Gives(l)
  BY <1>1, CustodyStep DEF CustodyMoves, Records, Starts, Discards
<1>4. QED  BY <1>2, <1>3 DEF Resolves, Hands, Gives

\* A cancellation that is answered has resolved everything.
LEMMA CancelEffect ==
    ASSUME Base, NEW l \in Leases, Cancel(l)
    PROVE  /\ UNCHANGED <<reported, doomed>>
           /\ \/ /\ outcome'[l] = "cancelled" /\ task'[l] = "cancelled"
                 /\ custody'[l].pending = {}
              \/ UNCHANGED <<outcome, task>>
<1>1. OutcomeTyped /\ TaskTyped /\ CustodyTyped
  BY Typed DEF Base
<1>2. UNCHANGED <<reported, doomed>>
  BY DEF Cancel
<1>3. CASE Reconciled(l).pending = {}
  <2>1. outcome'[l] = "cancelled" /\ task'[l] = "cancelled"
    BY <1>1, <1>3 DEF Cancel, OutcomeTyped, TaskTyped
  <2>2. custody'[l] = Reconciled(l)
    BY <1>1 DEF Cancel, CustodyTyped
  <2>3. QED  BY <1>2, <1>3, <2>1, <2>2
<1>4. CASE Reconciled(l).pending # {}
  BY <1>2, <1>4 DEF Cancel
<1>5. QED  BY <1>3, <1>4

\* How a hand-off ends.
LEMMA HandedKept ==
    ASSUME Base, Next, NEW l \in Leases
    PROVE  \/ custody'[l].handed = custody[l].handed
           \/ /\ Ack(l) /\ custody'[l].handed = "acked" /\ custody[l].handed = "no"
              /\ custody'[l].pending = custody[l].pending /\ custody'[l].held = custody[l].held
           \/ /\ HandedOver(l) /\ custody'[l].handed = "abandoned" /\ custody[l].handed = "no"
              /\ custody[l].abandoned /\ custody'[l].abandoned
<1>1. CASE custody'[l] = custody[l]
  BY <1>1
<1>2. CASE Records(l) \/ Starts(l) \/ Discards(l) \/ Resolves(l) \/ Gives(l)
  BY <1>2 DEF Records, Starts, Discards, Resolves, Gives, Rest
<1>3. CASE Hands(l)
  <2>1. Ack(l) => custody[l].handed = "no"
    BY DEF Ack
  <2>2. HandedOver(l) => custody[l].handed = "no" /\ custody[l].abandoned
    BY DEF HandedOver
  <2>3. QED  BY <1>3, <2>1, <2>2 DEF Hands
<1>4. QED  BY <1>1, <1>2, <1>3, CustodyStep DEF CustodyMoves

\* How a Task comes to be where it is.
LEMMA TaskReaches ==
    ASSUME Base, Phases, Next, NEW l \in Leases
    PROVE  /\ task'[l] = "asking" => task[l] \in {"new", "asking"}
           /\ task'[l] = "granted" => task[l] = "granted" \/ (Learn(l) /\ outcome[l] = "granted")
           /\ task'[l] = "running" => \/ task[l] = "running"
                                      \/ Proceed(l) /\ task[l] = "granted" /\ l \notin doomed
           /\ task'[l] = "cancelling" => \/ task[l] = "cancelling"
                                         \/ (Learn(l) \/ GiveUp(l)) /\ l \in doomed'
           /\ task'[l] = "cancelled" => \/ task[l] = "cancelled"
                                        \/ /\ Cancel(l) /\ outcome'[l] = "cancelled"
                                           /\ l \in doomed /\ custody'[l].pending = {}
<1> USE DEF Holding
<1>1. TaskTyped /\ OutcomeTyped
  BY Typed DEF Base
<1>2. CASE task'[l] = task[l]
  BY <1>2
<1>3. CASE Submit(l) /\ task[l] = "new" /\ task'[l] = "asking"
  BY <1>3
<1>4. CASE Learn(l) /\ task[l] = "asking" /\ task'[l] \in {"granted", "cancelling"}
  <2>1. task'[l] = "granted" => outcome[l] = "granted"
    BY <1>1, <1>4 DEF Learn, TaskTyped
  <2>2. task'[l] = "cancelling" => l \in doomed'
    BY <1>1, <1>4 DEF Learn, TaskTyped
  <2>3. QED  BY <1>4, <2>1, <2>2
<1>5. CASE GiveUp(l) /\ task[l] = "asking" /\ task'[l] = "cancelling"
  <2>1. l \in doomed'
    BY <1>5 DEF GiveUp
  <2>2. QED  BY <1>5, <2>1
<1>6. CASE Cancel(l) /\ task[l] \in {"cancelling", "granted"} /\ task'[l] = "cancelled"
  <2>1. outcome'[l] = "cancelled" /\ custody'[l].pending = {}
    BY <1>6, CancelEffect
  <2>2. l \in doomed
    BY <1>6 DEF Cancel, Phases
  <2>3. QED  BY <1>6, <2>1, <2>2
<1>7. CASE Proceed(l) /\ task[l] \in {"granted", "cancelled"} /\ task'[l] \in {"running", "ended"}
  <2>1. task'[l] = "running" => l \notin doomed
    BY <1>1, <1>7 DEF Proceed, TaskTyped
  <2>2. task[l] = "cancelled" => l \in doomed
    BY DEF Phases
  <2>3. QED  BY <1>7, <2>1, <2>2
<1>8. CASE task[l] \in Holding /\ task'[l] \in {"ended", "exited"}
  BY <1>8
<1>9. QED  BY <1>1, <1>2, <1>3, <1>4, <1>5, <1>6, <1>7, <1>8, TaskStep DEF TaskMoves

\* A Task is doomed before it runs, and stays so.
LEMMA DoomKept ==
    ASSUME Base, Next, NEW l \in Leases
    PROVE  /\ l \in doomed => l \in doomed'
           /\ l \in doomed' => l \in doomed \/ task[l] \in {"asking", "granted", "cancelled"}
           /\ reported[l] \subseteq reported'[l]
<1>1. ReportsTyped
  BY Typed DEF Base
<1>2. (reported'[l] = reported[l] /\ (l \in doomed' <=> l \in doomed)) \/ ReportsMove(l)
  BY <1>1, ReportsStep
<1>3. CASE reported'[l] = reported[l] /\ (l \in doomed' <=> l \in doomed)
  BY <1>3
<1>4. CASE ReportsMove(l)
  BY <1>4 DEF ReportsMove, Report
<1>5. QED  BY <1>2, <1>3, <1>4

LEMMA PhasesKept ==
    ASSUME Base, CustodyKept, Phases, Next
    PROVE  Phases'
<1>1. ASSUME NEW l \in Leases, outcome'[l] = "granted"
      PROVE  InputSet(l) \subseteq custody'[l].held /\ custody'[l].pending = {}
  <2>1. CASE outcome[l] = "granted"
    <3>1. InputSet(l) \subseteq custody[l].held /\ custody[l].pending = {}
      BY <2>1 DEF Phases
    <3>2. QED  BY <2>1, <3>1, AnswerSettled, HeldGrows
  <2>2. CASE outcome[l] # "granted"
    <3>1. Grant(l) /\ thread[l].pc = "localized"
      BY <1>1, <2>2, Typed, OutcomeStep DEF OutcomeMoves, Base
    <3>2. UNCHANGED custody
      BY <3>1 DEF Grant
    <3>3. \A j \in 1..Len(Inputs[l]) : Inputs[l][j] \in custody[l].held \ custody[l].pending
      BY <3>1 DEF Base, ThreadPlaced
    <3>4. \A o \in InputSet(l) : o \in custody[l].held \ custody[l].pending
      BY <3>3 DEF InputSet
    <3>5. custody[l].pending \subseteq InputSet(l)
      BY DEF CustodyKept
    <3>6. QED  BY <3>2, <3>4, <3>5
  <2>3. QED  BY <2>1, <2>2
<1>2. ASSUME NEW l \in Leases, task'[l] \in {"granted", "running"}
      PROVE  outcome'[l] = "granted"
  <2>1. outcome[l] = "granted"
    BY <1>2, TaskReaches DEF Phases
  <2>2. SUFFICES ASSUME outcome'[l] # "granted" PROVE FALSE
    OBVIOUS
  <2>3. outcome'[l] = "cancelled" /\ (Cancel(l) \/ Abandon(l))
    BY <2>1, <2>2, AnswerSettled
  <2>4. CASE Cancel(l)
    BY <1>2, <2>1, <2>2, <2>4, CancelEffect
  <2>5. CASE Abandon(l)
    BY <1>2, <2>5 DEF Abandon, taskVars
  <2>6. QED  BY <2>3, <2>4, <2>5
<1>3. ASSUME NEW l \in Leases, task'[l] = "cancelled"
      PROVE  outcome'[l] = "cancelled" /\ custody'[l].pending = {} /\ l \in doomed'
  <2>1. CASE task[l] = "cancelled"
    <3>1. outcome[l] = "cancelled" /\ custody[l].pending = {} /\ l \in doomed
      BY <2>1 DEF Phases
    <3>2. QED  BY <3>1, AnswerSettled, DoomKept
  <2>2. CASE task[l] # "cancelled"
    BY <1>3, <2>2, TaskReaches, DoomKept
  <2>3. QED  BY <2>1, <2>2
<1>4. ASSUME NEW l \in Leases, task'[l] = "cancelling"
      PROVE  l \in doomed'
  BY <1>4, TaskReaches, DoomKept DEF Phases
<1>5. ASSUME NEW l \in Leases, task'[l] = "running"
      PROVE  custody'[l].handed = "acked" /\ l \notin doomed'
  <2>1. custody[l].handed = "acked" /\ l \notin doomed
    <3>1. Proceed(l) => custody[l].handed = "acked"
      BY DEF Proceed
    <3>2. QED  BY <1>5, <3>1, TaskReaches DEF Phases
  <2>2. custody'[l].handed = "acked"
    BY <2>1, HandedKept
  <2>3. l \notin doomed'
    <3>1. CASE task[l] = "running"
      BY <2>1, <3>1, DoomKept
    <3>2. CASE Proceed(l)
      BY <2>1, <3>2 DEF Proceed
    <3>3. QED  BY <1>5, <3>1, <3>2, TaskReaches
  <2>4. QED  BY <2>2, <2>3
<1>6. ASSUME NEW l \in Leases, custody'[l].handed = "acked"
      PROVE  /\ outcome'[l] \in {"granted", "cancelled"}
             /\ custody'[l].held \subseteq reported'[l] /\ custody'[l].pending = {}
  <2>1. /\ outcome[l] \in {"granted", "cancelled"} /\ custody[l].pending = {}
        /\ custody[l].held \subseteq reported[l]
    <3>1. CASE custody[l].handed = "acked"
      BY <3>1 DEF Phases
    <3>2. CASE Ack(l)
      BY <3>2 DEF Ack, Inventory, Phases
    <3>3. QED  BY <1>6, <3>1, <3>2, HandedKept
  <2>2. QED  BY <2>1, AnswerSettled, DoomKept
<1>7. ASSUME NEW l \in Leases, custody'[l].handed = "abandoned"
      PROVE  custody'[l].abandoned
  <2>1. CASE custody[l].handed # "abandoned"
    BY <1>7, <2>1, HandedKept
  <2>2. CASE custody[l].handed = "abandoned"
    <3>1. custody[l].abandoned
      BY <2>2 DEF Phases
    <3>2. QED
      BY <3>1, CustodyStep DEF CustodyMoves, Records, Starts, Discards, Resolves, Hands, Gives, Rest
  <2>3. QED  BY <2>1, <2>2
<1>8. QED  BY <1>1, <1>2, <1>3, <1>4, <1>5, <1>6, <1>7 DEF Phases

-----------------------------------------------------------------------------
(* What the owners know *)

\* A copy that its lease hands over for a current attempt is in the store.
LEMMA HandedCopyIsThere ==
    ASSUME Base, CustodyKept, OwnersRecord, Next, NEW l \in Leases, NEW o \in InputSet(l),
           Report(l, o) \/ HandOver(l, o), ~Retired(o, desc[l][o].attempt), Target[l] \in up
    PROVE  Holds(Target[l], o, desc[l][o].attempt)
<1> DEFINE k == desc[l][o].attempt
<1>1. o \in custody[l].held /\ k = owner[o].attempt /\ owner[o].state # "retired"
  BY DEF Report, HandOver, Inventory, Retired
<1>2. Made(o, k) /\ owner[o].attempt \in Nat
  <2>1. custody[l] # NoCustody
    BY <1>1 DEF NoCustody
  <2>2. owner[o] \in Owners /\ 1..Attempts \subseteq Nat
    BY InputsTyped, Typed, ObjectTransferAssumption DEF Base, OwnerTyped
  <2>3. QED  BY <2>1, <2>2, AskedFixed DEF Owners
<1>3. owner[o].state \in {"ready", "lost"}
  BY <1>1, <1>2 DEF Made
<1>4. <<Target[l], o, k>> \notin receipts
  <2>1. SUFFICES ASSUME <<Target[l], o, k>> \in receipts PROVE FALSE
    OBVIOUS
  <2>2. Past(o, k) \/ (k = owner[o].attempt /\ owner[o].state = "failed")
    BY <2>1 DEF OwnersRecord
  <2>3. QED  BY <1>1, <1>2, <1>3, <2>2 DEF Past
<1>5. QED  BY <1>1, <1>4 DEF CustodyKept

\* A location the owner knows of stays one, unless the object is retired.
LEMMA LocationKept ==
    ASSUME Base, OwnersRecord, Next, NEW n \in up, NEW o \in Objects, n \in owner[o].locs
    PROVE  /\ owner[o].state = "ready" /\ owner'[o].attempt = owner[o].attempt
           /\ n \in owner'[o].locs \/ (~Held(o) /\ <<n, o, owner[o].attempt>> \in owed')
<1>1. owner[o].state = "ready"
  BY DEF OwnersRecord
<1>2. CASE owner'[o] = owner[o]
  BY <1>1, <1>2
<1>3. CASE Accepting(o)
  BY <1>1, <1>3 DEF Accepting
<1>4. CASE Retiring(o)
  BY <1>1, <1>4 DEF Retiring
<1>5. CASE Bereaved(o)
  BY <1>1, <1>5 DEF Bereaved
<1>6. ~Renewing(o) /\ ~Making(o)
  BY <1>1 DEF Renewing, Making
<1>7. QED  BY <1>2, <1>3, <1>4, <1>5, <1>6, OwnerStep DEF OwnerMoves

\* An owner's locations hold the bytes.
LEMMA LocationsHold ==
    ASSUME Base, PullsOwnTheirPlace, CustodyKept, OwnersRecord, Next,
           NEW n \in up', NEW o \in Objects, n \in owner'[o].locs
    PROVE  store'[n][o] = Sealed(owner'[o].attempt)
<1>1. n \in Nodes /\ n \in up /\ OwnerTyped /\ StoreTyped /\ owner[o].attempt \in Nat
  <2>1. OwnerTyped /\ owner[o] \in Owners /\ 1..Attempts \subseteq Nat /\ ClusterTyped /\ StoreTyped
    BY Typed, ObjectTransferAssumption DEF Base, OwnerTyped
  <2>2. QED  BY <2>1, ClusterStep DEF Owners, ClusterTyped
<1>2. CASE n \in owner[o].locs
  <2>1. owner[o].state = "ready" /\ owner'[o].attempt = owner[o].attempt
    BY <1>1, <1>2, LocationKept
  <2>2. store[n][o] = Sealed(owner[o].attempt)
    BY <1>1, <1>2 DEF OwnersRecord, Holds
  <2>3. ~IsDropped(n, o)
    <3>1. SUFFICES ASSUME NEW j \in 1..Attempts, <<n, o, j>> \in owed, store[n][o] = Sealed(j)
                   PROVE  FALSE
      BY DEF IsDropped
    <3>2. j = owner[o].attempt
      BY <2>2, <3>1 DEF Sealed
    <3>3. Past(o, j)
      BY <3>1 DEF OwnersRecord
    <3>4. QED  BY <1>1, <2>1, <3>2, <3>3 DEF Past
  <2>4. QED  BY <1>1, <2>1, <2>2, <2>3, CopyKept DEF Sealed
<1>3. CASE n \notin owner[o].locs
  <2>1. Accepting(o) \/ Making(o)
    BY <1>3, OwnerStep DEF OwnerMoves, Renewing, Retiring, Bereaved
  <2>2. CASE Accepting(o)
    <3>1. PICK l \in Leases :
              /\ o \in InputSet(l) /\ (Report(l, o) \/ HandOver(l, o))
              /\ ~Retired(o, desc[l][o].attempt) /\ owner'[o].locs = owner[o].locs \cup {Target[l]}
      BY <2>2 DEF Accepting
    <3>2. Target[l] = n /\ owner'[o].attempt = owner[o].attempt
      BY <1>3, <2>2, <3>1 DEF Accepting
    <3>3. store[n][o] = Sealed(desc[l][o].attempt)
      BY <1>1, <3>1, <3>2, HandedCopyIsThere DEF Holds
    <3>4. desc[l][o].attempt = owner[o].attempt
      BY <3>1 DEF Retired
    <3>5. UNCHANGED store
      BY <3>1 DEF Report, HandOver, replicaVars
    <3>6. QED  BY <3>2, <3>3, <3>4, <3>5
  <2>3. CASE Making(o)
    <3>1. /\ owner'[o].attempt = owner[o].attempt
          /\ \E m \in Nodes : owner'[o].locs = {m} /\ store' = [store EXCEPT ![m][o] = Sealed(owner[o].attempt)]
      BY <1>3, <2>3 DEF Making
    <3>2. store' = [store EXCEPT ![n][o] = Sealed(owner[o].attempt)]
      BY <3>1
    <3>3. QED  BY <1>1, <3>1, <3>2 DEF StoreTyped
  <2>4. QED  BY <2>1, <2>2, <2>3
<1>4. QED  BY <1>2, <1>3

\* A copy in a store is of an attempt that produced one.
LEMMA StoredWasMade ==
    ASSUME Base, PullsOwnTheirPlace, OwnersRecord, Next, NEW n \in Nodes, NEW o \in Objects,
           store'[n][o].state = "sealed"
    PROVE  Made(o, store[n][o].attempt)' 
<1> DEFINE k == store'[n][o].attempt
<1>1. SUFFICES k < owner'[o].attempt
               \/ (k = owner'[o].attempt /\ owner'[o].state \in {"ready", "lost", "retired"})
  BY DEF Made
<1>2. OwnerTyped /\ OwnerTyped' /\ StoreTyped /\ Attempts \in Nat
  BY Typed, OwnerStep, ObjectTransferAssumption DEF Base
<1>3. owner'[o].attempt \in 1..Attempts
  BY <1>2 DEF OwnerTyped, Owners
<1>4. \A j \in 0..Attempts : Made(o, j) =>
         j < owner'[o].attempt
         \/ (j = owner'[o].attempt /\ owner'[o].state \in {"ready", "lost", "retired"})
  <2>1. SUFFICES ASSUME NEW j \in 0..Attempts, Made(o, j)
                 PROVE  j < owner'[o].attempt
                        \/ (j = owner'[o].attempt /\ owner'[o].state \in {"ready", "lost", "retired"})
    OBVIOUS
  <2>2. CASE j = 0
    BY <1>3, <2>2
  <2>3. CASE j # 0
    <3>1. j \in 1..Attempts
      BY <1>2, <2>3
    <3>2. QED  BY <2>1, <3>1, MadeKept
  <2>4. QED  BY <2>2, <2>3
<1>5. CASE store'[n][o] = store[n][o]
  <2>1. Made(o, store[n][o].attempt) /\ store[n][o].attempt \in 0..Attempts
    BY <1>2, <1>5 DEF OwnersRecord, StoreTyped, Entries
  <2>2. QED  BY <1>4, <1>5, <2>1
<1>6. CASE Arrives(n, o)
  <2>1. PICK l \in Leases : /\ o \in InputSet(l) /\ task[l] # "new" /\ desc[l][o].attempt \in 1..Attempts
                            /\ store'[n][o] = Sealed(desc[l][o].attempt)
    BY <1>6, ArrivesEffect
  <2>2. Made(o, desc[l][o].attempt)
    BY <2>1 DEF Base, Requests
  <2>3. k = desc[l][o].attempt /\ k \in 0..Attempts
    BY <1>2, <2>1 DEF Sealed
  <2>4. QED  BY <1>4, <2>2, <2>3
<1>7. CASE IsMade(n, o)
  BY <1>7, MadeEffect DEF IsMade, Sealed
<1>8. QED  BY <1>5, <1>6, <1>7, CopyNew

\* What is owed is past; so is what is deleted, or its attempt has failed.
LEMMA OwedIsPast ==
    ASSUME Base, OwnersRecord, CustodyKept, Next,
           NEW n \in Nodes, NEW o \in Objects, NEW k \in 1..Attempts, <<n, o, k>> \in owed'
    PROVE  Past(o, k)'
<1>1. CASE <<n, o, k>> \in owed
  BY <1>1, PastKept DEF OwnersRecord, Past
<1>2. CASE Owes(n, o, k)
  <2>1. CASE owner'[o].state = "retired" /\ owner'[o].attempt = k
    BY <2>1 DEF Past
  <2>2. CASE \E l \in Leases :
                /\ o \in InputSet(l) /\ (Report(l, o) \/ HandOver(l, o))
                /\ desc[l][o].attempt = k /\ Retired(o, k) /\ owner'[o] = owner[o]
    <3>1. PICK l \in Leases :
              /\ o \in InputSet(l) /\ (Report(l, o) \/ HandOver(l, o))
              /\ desc[l][o].attempt = k /\ Retired(o, k) /\ owner'[o] = owner[o]
      BY <2>2
    <3>2. task[l] # "new"
      BY <3>1, HandsAfterAsking
    <3>3. Made(o, k)
      BY <3>1, <3>2 DEF Base, Requests
    <3>4. QED  BY <3>1, <3>3 DEF Made, Past, Retired
  <2>3. QED  BY <1>2, <2>1, <2>2 DEF Owes
<1>3. QED  BY <1>1, <1>2, OwnerStep

LEMMA DeletedIsPast ==
    ASSUME Base, OwnersRecord, Next,
           NEW n \in Nodes, NEW o \in Objects, NEW k \in 1..Attempts, <<n, o, k>> \in receipts'
    PROVE  \/ k < owner'[o].attempt
           \/ k = owner'[o].attempt /\ owner'[o].state \in {"retired", "failed"}
<1>1. OwnerTyped /\ owner[o] \in Owners /\ owner[o].attempt \in Nat
  <2>1. OwnerTyped /\ 1..Attempts \subseteq Nat
    BY Typed, ObjectTransferAssumption DEF Base
  <2>2. QED  BY <2>1 DEF OwnerTyped, Owners
<1>2. Past(o, k) => k < owner'[o].attempt \/ (k = owner'[o].attempt /\ owner'[o].state = "retired")
  BY PastKept
<1>3. CASE <<n, o, k>> \in receipts
  <2>1. CASE Past(o, k)
    BY <1>2, <2>1
  <2>2. CASE k = owner[o].attempt /\ owner[o].state = "failed"
    <3>1. ~Accepting(o)
      <4>1. SUFFICES ASSUME NEW l \in Leases, o \in InputSet(l), Report(l, o) \/ HandOver(l, o),
                            ~Retired(o, desc[l][o].attempt)
                     PROVE  FALSE
        BY DEF Accepting
      <4>2. task[l] # "new"
        BY <4>1, HandsAfterAsking
      <4>3. Made(o, desc[l][o].attempt)
        BY <4>1, <4>2 DEF Base, Requests
      <4>4. QED  BY <1>1, <2>2, <4>1, <4>3 DEF Made, Retired
    <3>2. ~Renewing(o) /\ ~Retiring(o) /\ ~Making(o)
      BY <2>2 DEF Renewing, Retiring, Making
    <3>3. CASE owner'[o] = owner[o]
      BY <2>2, <3>3
    <3>4. CASE Bereaved(o)
      BY <2>2, <3>4 DEF Bereaved
    <3>5. QED  BY <3>1, <3>2, <3>3, <3>4, OwnerStep DEF OwnerMoves
  <2>3. QED  BY <1>3, <2>1, <2>2 DEF OwnersRecord
<1>4. CASE Refused(n, o, k)
  BY <1>1, <1>4 DEF Refused
<1>5. CASE Dropped(n, o, k)
  BY <1>2, <1>5 DEF Dropped, OwnersRecord
<1>6. QED  BY <1>3, <1>4, <1>5, ReceiptsStep

LEMMA OwnersRecordKept ==
    ASSUME Base, PullsOwnTheirPlace, CustodyKept, OwnersRecord, Next
    PROVE  OwnersRecord'
<1>1. ASSUME NEW o \in Objects, owner'[o].locs # {}
      PROVE  owner'[o].state = "ready"
  <2>1. owner[o].locs # {} => owner[o].state = "ready"
    BY DEF OwnersRecord
  <2>2. CASE owner'[o] = owner[o]
    BY <1>1, <2>1, <2>2
  <2>3. CASE Accepting(o) \/ Retiring(o) \/ Renewing(o)
    BY <1>1, <2>1, <2>3 DEF Accepting, Retiring, Renewing
  <2>4. CASE Making(o)
    BY <1>1, <2>1, <2>4 DEF Making
  <2>5. CASE Bereaved(o)
    BY <1>1, <2>1, <2>5 DEF Bereaved
  <2>6. QED  BY <2>2, <2>3, <2>4, <2>5, OwnerStep DEF OwnerMoves
<1>2. \A c \in owed' : Past(c[2], c[3])'
  <2>1. owed' \subseteq Copies
    BY OwnerStep DEF OwnerTyped
  <2>2. QED  BY <2>1, OwedIsPast DEF Copies
<1>3. \A c \in receipts' : Past(c[2], c[3])' \/ (c[3] = owner'[c[2]].attempt /\ owner'[c[2]].state = "failed")
  <2>1. receipts' \subseteq Copies
    BY ReceiptsStep
  <2>2. QED  BY <2>1, DeletedIsPast DEF Copies, Past
<1>4. \A n \in up', o \in Objects : n \in owner'[o].locs => store'[n][o] = Sealed(owner'[o].attempt)
  BY LocationsHold
<1>5. \A n \in Nodes, o \in Objects : store'[n][o].state = "sealed" => Made(o, store[n][o].attempt)'
  BY StoredWasMade
<1>6. QED  BY <1>1, <1>2, <1>3, <1>4, <1>5 DEF OwnersRecord, Holds, Sealed

\* A copy that is still there, and that its owner knows of, stays known.
LEMMA KnownKept ==
    ASSUME Base, PullsOwnTheirPlace, NothingReturns, OwnersRecord, Next,
           NEW n \in up', NEW o \in Objects, NEW k \in 1..Attempts,
           Known(n, o, k), store'[n][o] = Sealed(k)
    PROVE  (n \in owner'[o].locs /\ owner'[o].attempt = k) \/ <<n, o, k>> \in owed'
<1>1. n \in up /\ n \in Nodes
  BY Typed, ClusterStep DEF Base, ClusterTyped
<1>2. CASE n \in owner[o].locs /\ owner[o].attempt = k
  BY <1>1, <1>2, LocationKept
<1>3. CASE <<n, o, k>> \in owed
  <2>1. SUFFICES ASSUME Drop(n, o, k) PROVE <<n, o, k>> \in owed'
    BY <1>1, <1>3, OwnerStep
  <2>2. <<n, o, k>> \in receipts'
    BY <2>1 DEF Drop, replicaVars
  <2>3. k \in Nat
    BY ObjectTransferAssumption
  <2>4. store'[n][o].attempt > k
    BY <2>2, NothingReturnsKept DEF NothingReturns, Sealed
  <2>5. QED  BY <2>3, <2>4 DEF Sealed
<1>4. QED  BY <1>2, <1>3 DEF Known

\* A copy in a lease's custody that is there now was there before.
LEMMA HeldWasThere ==
    ASSUME Base, PullsOwnTheirPlace, NothingReturns, CustodyKept, Next,
           NEW l \in Leases, NEW o \in custody[l].held, Target[l] \in up',
           store'[Target[l]][o] = Sealed(desc[l][o].attempt)
    PROVE  Holds(Target[l], o, desc[l][o].attempt)
<1> DEFINE n == Target[l]
           k == desc[l][o].attempt
<1>1. n \in Nodes /\ n \in up /\ o \in Objects /\ k \in 1..Attempts
  <2>1. o \in InputSet(l) /\ custody[l] # NoCustody
    BY DEF CustodyKept, NoCustody
  <2>2. QED  BY <2>1, AskedFixed, InputsTyped, Typed, ClusterStep DEF Base
<1>2. <<n, o, k>> \notin receipts
  <2>1. SUFFICES ASSUME <<n, o, k>> \in receipts PROVE FALSE
    OBVIOUS
  <2>2. <<n, o, k>> \in receipts'
    BY <1>1, <2>1, ReceiptsStep
  <2>3. store'[n][o].attempt > k
    BY <2>2, NothingReturnsKept DEF NothingReturns, Sealed
  <2>4. k \in Nat
    BY <1>1, ObjectTransferAssumption
  <2>5. QED  BY <2>3, <2>4 DEF Sealed
<1>3. QED  BY <1>1, <1>2 DEF CustodyKept

\* What an owner answers, it knows.
LEMMA HandedIsKnown ==
    ASSUME Base, CustodyKept, Next, NEW l \in Leases, NEW o \in Objects,
           o \in custody[l].held, Report(l, o) \/ HandOver(l, o)
    PROVE  /\ (Target[l] \in owner'[o].locs /\ owner'[o].attempt = desc[l][o].attempt)
              \/ <<Target[l], o, desc[l][o].attempt>> \in owed'
           /\ ~Retired(o, desc[l][o].attempt) =>
                 Target[l] \in owner'[o].locs /\ owner'[o].attempt = desc[l][o].attempt
<1>1. o \in InputSet(l) /\ custody[l] # NoCustody
  BY DEF CustodyKept, NoCustody
<1>2. /\ task[l] # "new" /\ Accepts(Target[l], o, desc[l][o].attempt) /\ Target[l] \notin dead
      /\ desc'[l] = desc[l]
  BY <1>1, HandsAfterAsking, AskedFixed
<1>3. Known(Target[l], o, desc[l][o].attempt)'
  BY <1>1, <1>2, AcceptStep
<1>4. (Target[l] \in owner'[o].locs /\ owner'[o].attempt = desc[l][o].attempt)
      \/ <<Target[l], o, desc[l][o].attempt>> \in owed'
  BY <1>2, <1>3 DEF Known
<1>5. QED  BY <1>1, <1>2, <1>4, AcceptStep

LEMMA ReportsKnownKept ==
    ASSUME Base, PullsOwnTheirPlace, NothingReturns, CustodyKept, OwnersRecord, ReportsKnown, Next
    PROVE  ReportsKnown'
<1>1. ASSUME NEW l \in Leases, Target[l] \in up', NEW o \in custody'[l].given \cup reported'[l],
             store'[Target[l]][o] = Sealed(desc'[l][o].attempt)
      PROVE  \/ Target[l] \in owner'[o].locs /\ owner'[o].attempt = desc'[l][o].attempt
             \/ <<Target[l], o, desc'[l][o].attempt>> \in owed'
  <2>1. o \in InputSet(l) /\ o \in custody[l].held
    BY HeldGrows DEF CustodyKept
  <2>2. /\ o \in Objects /\ desc'[l] = desc[l] /\ desc[l][o].attempt \in 1..Attempts
    <3>1. custody[l] # NoCustody
      BY <2>1 DEF NoCustody
    <3>2. QED  BY <2>1, <3>1, AskedFixed
  <2>3. CASE o \in custody[l].given \cup reported[l]
    <3>1. Holds(Target[l], o, desc[l][o].attempt) /\ Target[l] \in up
      BY <1>1, <2>1, <2>2, HeldWasThere, Typed, ClusterStep DEF Base
    <3>2. Known(Target[l], o, desc[l][o].attempt)
      BY <2>3, <3>1 DEF ReportsKnown
    <3>3. QED  BY <1>1, <2>2, <3>2, KnownKept
  <2>4. CASE Report(l, o) \/ HandOver(l, o)
    BY <2>1, <2>2, <2>4, HandedIsKnown
  <2>5. QED  BY <1>1, <2>3, <2>4, HeldGrows
<1>2. QED  BY <1>1 DEF ReportsKnown, Holds, Sealed, Known

LEMMA RunsKnownKept ==
    ASSUME Base, CustodyKept, Phases, OwnersRecord, RunsKnown, Next
    PROVE  RunsKnown'
<1>1. ASSUME NEW l \in Leases, l \notin doomed', task'[l] \in {"asking", "granted", "running"},
             Target[l] \in up', NEW o \in reported'[l]
      PROVE  Target[l] \in owner'[o].locs /\ owner'[o].attempt = desc'[l][o].attempt
  <2>1. o \in InputSet(l) /\ o \in custody[l].held
    BY HeldGrows DEF CustodyKept
  <2>2. o \in Objects /\ desc'[l] = desc[l] /\ task[l] # "new"
    <3>1. custody[l] # NoCustody
      BY <2>1 DEF NoCustody
    <3>2. QED  BY <2>1, <3>1, AskedFixed
  <2>3. l \notin doomed
    BY <1>1, DoomKept
  <2>4. CASE o \in reported[l]
    <3>1. task[l] \in {"asking", "granted", "running"} /\ Target[l] \in up
      <4>1. task[l] \in {"asking", "granted", "running"}
        <5>1. task'[l] = "granted" /\ Learn(l) => task[l] = "asking"
          BY DEF Learn
        <5>2. QED  BY <1>1, <2>2, <5>1, TaskReaches
      <4>2. up' \subseteq up
        BY Typed, ClusterStep DEF Base
      <4>3. QED  BY <1>1, <4>1, <4>2
    <3>2. Target[l] \in owner[o].locs /\ owner[o].attempt = desc[l][o].attempt
      BY <2>3, <2>4, <3>1 DEF RunsKnown
    <3>3. Held(o)
      BY <2>1, <3>1 DEF Held, Holding
    <3>4. QED  BY <2>2, <3>1, <3>2, <3>3, LocationKept
  <2>5. CASE Report(l, o) /\ o \notin reported[l]
    <3>1. ~Retired(o, desc[l][o].attempt)
      <4>1. ReportsMove(l)
        BY <1>1, <2>5, Typed, ReportsStep DEF Base
      <4>2. ~(reported'[l] = reported[l])
        BY <1>1, <2>5
      <4>3. PICK p \in InputSet(l) :
                /\ Report(l, p) /\ reported'[l] = reported[l] \cup {p}
                /\ l \in doomed' <=> l \in doomed \/ Retired(p, desc[l][p].attempt)
        BY <4>1, <4>2 DEF ReportsMove
      <4>4. p = o
        BY <1>1, <2>5, <4>3
      <4>5. QED  BY <1>1, <4>3, <4>4
    <3>2. QED  BY <2>1, <2>2, <2>5, <3>1, HandedIsKnown
  <2>6. QED  BY <1>1, <2>4, <2>5, HeldGrows
<1>2. QED  BY <1>1 DEF RunsKnown

\* A copy that its owner does not know of stays in the custody of a lease.
LEMMA InCustodyKept ==
    ASSUME Base, PullsOwnTheirPlace, NothingReturns, CustodyKept, Phases, OwnersRecord, ReportsKnown,
           Next, NEW l \in Leases, NEW o \in custody[l].pending \cup custody[l].held,
           custody[l].handed = "no", Target[l] \in up',
           Holds(Target[l], o, desc[l][o].attempt), store'[Target[l]][o] = Sealed(desc[l][o].attempt)
    PROVE  \/ o \in custody'[l].pending \cup custody'[l].held /\ custody'[l].handed = "no"
           \/ Target[l] \in owner'[o].locs /\ owner'[o].attempt = desc[l][o].attempt
           \/ <<Target[l], o, desc[l][o].attempt>> \in owed'
<1>1. o \in Objects /\ desc[l][o].attempt \in 1..Attempts /\ Target[l] \in up
  <2>1. o \in InputSet(l) /\ custody[l] # NoCustody
    BY DEF CustodyKept, NoCustody
  <2>2. QED  BY <2>1, AskedFixed, Typed, ClusterStep DEF Base
<1>2. CASE custody'[l] = custody[l]
  BY <1>2
<1>3. CASE Records(l) \/ Starts(l) \/ Gives(l)
  BY <1>3 DEF Records, Starts, Gives, Rest
<1>4. CASE Discards(l)
  <2>1. o # Input(l) \/ o \in custody[l].held
    BY <1>4 DEF Discards, Wanted
  <2>2. QED  BY <1>4, <2>1 DEF Discards, Rest
<1>5. CASE Resolves(l)
  BY <1>5 DEF Resolves
<1>6. CASE Hands(l)
  <2>1. o \in custody[l].given \cup reported[l]
    <3>1. CASE Ack(l)
      <4>1. custody[l].pending = {} /\ custody[l].held \subseteq reported[l]
        BY <3>1 DEF Ack, Inventory, Phases
      <4>2. QED  BY <4>1
    <3>2. CASE HandedOver(l)
      BY <3>2 DEF HandedOver
    <3>3. QED  BY <1>6, <3>1, <3>2 DEF Hands
  <2>2. Known(Target[l], o, desc[l][o].attempt)
    BY <1>1, <2>1 DEF ReportsKnown
  <2>3. QED  BY <1>1, <2>2, KnownKept
<1>7. QED  BY <1>2, <1>3, <1>4, <1>5, <1>6, CustodyStep DEF CustodyMoves

LEMMA AccountedKept ==
    ASSUME TransferInvariant, Next
    PROVE  Accounted'
<1>1. /\ Base /\ PullsOwnTheirPlace /\ NothingReturns /\ CustodyKept /\ Phases /\ OwnersRecord
      /\ ReportsKnown /\ Accounted
  BY DEF TransferInvariant, Base
<1>2. SUFFICES ASSUME NEW n \in up', NEW o \in Objects, NEW k \in 1..Attempts, store'[n][o] = Sealed(k)
               PROVE  \/ n \in owner'[o].locs /\ owner'[o].attempt = k
                      \/ <<n, o, k>> \in owed'
                      \/ \E l \in Leases :
                            /\ Target[l] = n /\ o \in custody'[l].pending \cup custody'[l].held
                            /\ desc'[l][o].attempt = k /\ custody'[l].handed = "no"
  BY DEF Accounted, Known, InCustody, Holds, Sealed
<1>3. n \in up /\ n \in Nodes
  BY <1>1, Typed, ClusterStep DEF Base, ClusterTyped
<1>4. CASE store[n][o] = Sealed(k) /\ Known(n, o, k)
  BY <1>1, <1>2, <1>4, KnownKept
<1>5. CASE store[n][o] = Sealed(k) /\ InCustody(n, o, k)
  <2>1. PICK l \in Leases : /\ Target[l] = n /\ o \in custody[l].pending \cup custody[l].held
                            /\ desc[l][o].attempt = k /\ custody[l].handed = "no"
    BY <1>5 DEF InCustody
  <2>2. desc'[l] = desc[l]
    <3>1. custody[l] # NoCustody
      BY <2>1 DEF NoCustody
    <3>2. QED  BY <1>1, <3>1, AskedFixed
  <2>3. Holds(Target[l], o, desc[l][o].attempt)
    BY <1>5, <2>1 DEF Holds
  <2>4. \/ o \in custody'[l].pending \cup custody'[l].held /\ custody'[l].handed = "no"
        \/ Target[l] \in owner'[o].locs /\ owner'[o].attempt = desc[l][o].attempt
        \/ <<Target[l], o, desc[l][o].attempt>> \in owed'
    BY <1>1, <1>2, <2>1, <2>3, InCustodyKept
  <2>5. QED  BY <2>1, <2>2, <2>4
<1>6. CASE IsMade(n, o)
  <2>1. owner'[o].locs = {n} /\ owner'[o].attempt = owner[o].attempt
    BY <1>1, <1>3, <1>6, MadeEffect
  <2>2. k = owner[o].attempt
    BY <1>2, <1>6 DEF IsMade, Sealed
  <2>3. QED  BY <2>1, <2>2
<1>7. CASE Arrives(n, o)
  <2>1. PICK l \in Leases :
            /\ Target[l] = n /\ thread'[l].pc = "release"
            /\ store'[n][o] = Sealed(desc[l][o].attempt) /\ o \in custody'[l].held
    BY <1>1, <1>3, <1>7, ArrivesEffect
  <2>2. desc[l][o].attempt = k
    BY <1>2, <2>1 DEF Sealed
  <2>3. desc'[l] = desc[l]
    <3>1. custody'[l] # NoCustody
      BY <2>1 DEF NoCustody
    <3>2. QED  BY <1>1, <3>1, AskedFixed
  <2>4. custody'[l].handed = "no"
    <3>1. ThreadPlaced'
      BY <1>1, ThreadPlacedKept
    <3>2. QED  BY <2>1, <3>1 DEF ThreadPlaced
  <2>5. QED  BY <2>1, <2>2, <2>3, <2>4
<1>8. QED
  <2>1. store'[n][o] = store[n][o] \/ Arrives(n, o) \/ IsMade(n, o)
    BY <1>1, <1>2, <1>3, CopyNew DEF Sealed
  <2>2. store[n][o] = Sealed(k) => Known(n, o, k) \/ InCustody(n, o, k)
    BY <1>1, <1>3 DEF Accounted, Holds
  <2>3. QED  BY <1>2, <1>4, <1>5, <1>6, <1>7, <2>1, <2>2

-----------------------------------------------------------------------------
(* The invariant *)

LEMMA InvariantInit ==
    ASSUME Init
    PROVE  TransferInvariant
<1>1. /\ 1 \in 1..Attempts /\ 0 \in 0..Attempts /\ 0 \in 0..Rounds /\ 0 \in 0..MaxFaults
  BY ObjectTransferAssumption
<1>2. TypeOK
  <2>1. /\ Absent \in Entries /\ NoPull \in Pulls /\ Idle \in Threads /\ NoCustody \in Custodies
        /\ [state |-> "pending", attempt |-> 1, locs |-> {}] \in Owners
    BY <1>1 DEF Absent, NoPull, Idle, NoCustody, Entries, Pulls, Threads, Custodies, Owners, ThreadStates
  <2>2. ClusterTyped /\ faults \in 0..MaxFaults /\ receipts \subseteq Copies
    BY <1>1 DEF Init, ClusterTyped
  <2>3. StoreTyped /\ PullsTyped /\ ThreadTyped /\ CustodyTyped
    BY <2>1 DEF Init, StoreTyped, PullsTyped, ThreadTyped, CustodyTyped
  <2>4. OutcomeTyped /\ PinsTyped /\ TaskTyped /\ ReportsTyped
    BY DEF Init, OutcomeTyped, PinsTyped, TaskTyped, ReportsTyped
  <2>5. OwnerTyped
    BY <2>1 DEF Init, OwnerTyped
  <2>6. QED  BY <2>2, <2>3, <2>4, <2>5, Typed
<1>3. /\ \A l \in Leases : thread[l].pc = "idle" /\ custody[l] = NoCustody /\ task[l] = "new"
                           /\ outcome[l] = "none" /\ reported[l] = {} /\ l \notin doomed
      /\ \A n \in Nodes, o \in Objects : store[n][o].state = "absent"
      /\ \A t \in Transfers : session[t] = "none" /\ ticket[t] = "none" /\ t \notin late
      /\ \A o \in Objects : owner[o].locs = {}
      /\ receipts = {} /\ owed = {} /\ up \subseteq Nodes /\ DOMAIN desc = Leases
  BY DEF Init, Idle, Absent
<1>4. Requests /\ TransfersNamed /\ ThreadPlaced
  BY <1>3 DEF Requests, TransfersNamed, ThreadPlaced
<1>5. LocksExclude /\ PullsOwnTheirPlace
  BY <1>3 DEF LocksExclude, PullsOwnTheirPlace, Locking, Pulling
<1>6. RoomComesBack /\ NothingReturns /\ PinKeepsReplica
  BY <1>3 DEF RoomComesBack, NothingReturns, PinKeepsReplica
<1>7. CustodyKept /\ Phases
  BY <1>3 DEF CustodyKept, Phases, NoCustody
<1>8. OwnersRecord
  BY <1>3 DEF OwnersRecord
<1>9. Accounted
  BY <1>3 DEF Accounted, Holds, Sealed
<1>10. ReportsKnown /\ RunsKnown
  BY <1>3 DEF ReportsKnown, RunsKnown, NoCustody
<1>11. QED  BY <1>2, <1>4, <1>5, <1>6, <1>7, <1>8, <1>9, <1>10 DEF TransferInvariant

LEMMA InvariantKept ==
    ASSUME TransferInvariant, Next
    PROVE  TransferInvariant'
<1>1. /\ Base /\ TransfersNamed /\ LocksExclude /\ PullsOwnTheirPlace /\ RoomComesBack
      /\ NothingReturns /\ PinKeepsReplica /\ CustodyKept /\ Phases /\ OwnersRecord
      /\ ReportsKnown /\ RunsKnown
  BY DEF TransferInvariant, Base
<1>2. TypeOK' /\ Requests' /\ TransfersNamed' /\ ThreadPlaced'
  BY <1>1, TypesKept, RequestsKept, TransfersKept, ThreadPlacedKept
<1>3. LocksExclude' /\ PullsOwnTheirPlace' /\ RoomComesBack'
  BY <1>1, LocksExcludeKept, PullsOwnTheirPlaceKept, RoomComesBackKept
<1>4. NothingReturns' /\ PinKeepsReplica'
  BY <1>1, NothingReturnsKept, PinKeepsReplicaKept
<1>5. CustodyKept' /\ Phases' /\ OwnersRecord'
  BY <1>1, CustodyKeptKept, PhasesKept, OwnersRecordKept
<1>6. Accounted' /\ ReportsKnown' /\ RunsKnown'
  BY <1>1, AccountedKept, ReportsKnownKept, RunsKnownKept
<1>7. QED  BY <1>2, <1>3, <1>4, <1>5, <1>6 DEF TransferInvariant

\* A step that changes nothing.
LEMMA InvariantStutters ==
    ASSUME TransferInvariant, UNCHANGED vars
    PROVE  TransferInvariant'
<1>1. UNCHANGED <<up, dead, faults, store, receipts, pulls, thread, outcome, custody, ticket, session,
                  late, desc, task, reported, doomed, owner, owed>>
  BY DEF vars, clusterVars, replicaVars, leaseVars, pinVars, taskVars, ownerVars
<1>2. TypeOK'
  BY <1>1 DEF TransferInvariant, TypeOK
<1>3. Requests'
  BY <1>1 DEF TransferInvariant, Requests, Made
<1>4. TransfersNamed'
  BY <1>1 DEF TransferInvariant, TransfersNamed
<1>5. ThreadPlaced'
  BY <1>1 DEF TransferInvariant, ThreadPlaced, Input
<1>6. LocksExclude'
  BY <1>1 DEF TransferInvariant, LocksExclude, Input
<1>7. PullsOwnTheirPlace'
  BY <1>1 DEF TransferInvariant, PullsOwnTheirPlace, Input
<1>8. RoomComesBack'
  BY <1>1 DEF TransferInvariant, RoomComesBack, Input
<1>9. NothingReturns'
  BY <1>1 DEF TransferInvariant, NothingReturns
<1>10. PinKeepsReplica'
  BY <1>1 DEF TransferInvariant, PinKeepsReplica, Source, Attempt, Holds
<1>11. CustodyKept'
  BY <1>1 DEF TransferInvariant, CustodyKept, Holds
<1>12. Phases'
  BY <1>1 DEF TransferInvariant, Phases
<1>13. OwnersRecord'
  BY <1>1 DEF TransferInvariant, OwnersRecord, Made, Past, Holds
<1>14. Accounted'
  BY <1>1 DEF TransferInvariant, Accounted, Holds, Known, InCustody
<1>15. ReportsKnown'
  BY <1>1 DEF TransferInvariant, ReportsKnown, Holds, Known
<1>16. RunsKnown'
  BY <1>1 DEF TransferInvariant, RunsKnown
<1>17. QED
  BY <1>2, <1>3, <1>4, <1>5, <1>6, <1>7, <1>8, <1>9,
     <1>10, <1>11, <1>12, <1>13, <1>14, <1>15, <1>16
  DEF TransferInvariant

-----------------------------------------------------------------------------
(* The theorems *)

\* The inductive invariant: what is in a Node's store, in the custody of its leases and in the
\* owners' records fits together, whichever calls are lost and whichever Nodes and submitters exit.
THEOREM TransfersFitTogether == Spec => []TransferInvariant
<1>1. Init => TransferInvariant
  BY InvariantInit
<1>2. TransferInvariant /\ [Next]_vars => TransferInvariant'
  BY InvariantKept, InvariantStutters
<1>3. QED  BY <1>1, <1>2, PTL DEF Spec

\* While a source holds a pin for a transfer, the exact copy it reads is in the store: neither the
\* deletion of replicas nor a late pin call comes between (object_store.py, transfer_pins.py).
THEOREM PinsKeepReplicas == Spec => []PinKeepsReplica
<1>1. TransferInvariant => PinKeepsReplica
  BY DEF TransferInvariant
<1>2. QED  BY <1>1, TransfersFitTogether, PTL

\* A place taken in a store is that of a pull under way, so a pull that fails gives it back
\* (request_pull, fail_pull and finish_pull in object_manager.py).
THEOREM PlacesComeBack == Spec => []RoomComesBack
<1>1. TransferInvariant => RoomComesBack
  BY DEF TransferInvariant
<1>2. QED  BY <1>1, TransfersFitTogether, PTL

\* Every copy is a location its owner knows, one it still has to delete, or in the custody of a
\* lease; and nothing that was deleted comes back (lease_dependencies.py, core.py).
THEOREM EveryCopyAccountedFor == Spec => []CustodyAccountedFor
<1>1. TransferInvariant => CustodyAccountedFor
  <2>1. SUFFICES ASSUME TransferInvariant PROVE CustodyAccountedFor
    OBVIOUS
  <2>2. TypeOK /\ NothingReturns /\ OwnersRecord /\ Accounted
    BY <2>1 DEF TransferInvariant
  <2>3. QED  BY <2>2 DEF CustodyAccountedFor, OwnersRecord, Accounted, Known, InCustody
<1>2. QED  BY <1>1, TransfersFitTogether, PTL

\* A Task that runs keeps every input at its Node, of the attempt it asked for, at a location the
\* owner knows (_handle_request_lease in node.py, _drive_location_handoff in core.py).
THEOREM RunningTasksKeepInputs == Spec => []InputsStay
<1>1. TransferInvariant => InputsStay
  <2>1. SUFFICES ASSUME TransferInvariant, NEW l \in Leases, task[l] = "running", Target[l] \in up,
                        NEW o \in InputSet(l)
                 PROVE  Holds(Target[l], o, desc[l][o].attempt) /\ Target[l] \in owner[o].locs
    BY DEF InputsStay
  <2>2. Phases /\ OwnersRecord /\ RunsKnown /\ o \in Objects
    BY <2>1, InputsTyped DEF TransferInvariant
  <2>3. o \in reported[l] /\ l \notin doomed
    BY <2>1, <2>2 DEF Phases
  <2>4. Target[l] \in owner[o].locs /\ owner[o].attempt = desc[l][o].attempt
    BY <2>1, <2>2, <2>3 DEF RunsKnown
  <2>5. QED  BY <2>1, <2>2, <2>4 DEF OwnersRecord
<1>2. QED  BY <1>1, TransfersFitTogether, PTL
=============================================================================

--------------------------- MODULE ResourceLedger ---------------------------
(***************************************************************************)
(* The local source of truth for resource allocations (resources.py, class *)
(* ResourceLedger), one per Node and one per placement-group bundle.       *)
(*                                                                         *)
(* Every operation runs under the ledger's lock and is one action.  An     *)
(* operation that raises, or reports that nothing changed (a release of a  *)
(* released token, a second yield), is a stuttering step.  A token names   *)
(* one request for good: naming another is refused before anything changes.*)
(* The actions are steps of whoever keeps the ledger.                      *)
(***************************************************************************)
EXTENDS Integers, FiniteSetsExt

CONSTANTS
    Tokens,     \* AllocationTokens
    Names,      \* resource names
    CPU,        \* the canonical CPU resource
    Total,      \* units of each resource
    Request     \* the units each token asks for

VARIABLES
    available,  \* units left of each resource; CPU is signed
    allocation  \* state of each token's AllocationRecord

ledgerVars == <<available, allocation>>

AllocationStates == {"UNKNOWN", "ACTIVE", "CPU_YIELDED", "RELEASED"}

\* AllocationRecord.held_resources: what a token is still charged for.
Held(t, n) ==
    CASE allocation[t] \in {"UNKNOWN", "RELEASED"} -> 0
      [] allocation[t] = "CPU_YIELDED" /\ n = CPU  -> 0
      [] OTHER -> Request[t][n]

\* _can_allocate_locked: a request that does not name a resource is not refused
\* for its lack.
CanAllocate(t) == \A n \in Names : Request[t][n] > 0 => Request[t][n] <= available[n]

\* request.fits_in(total)
Feasible(t) == \A n \in Names : Request[t][n] <= Total[n]

Init ==
    /\ available = Total
    /\ allocation = [t \in Tokens |-> "UNKNOWN"]

Allocate(t) ==
    /\ allocation[t] = "UNKNOWN"
    /\ CanAllocate(t)
    /\ available' = [n \in Names |-> available[n] - Request[t][n]]
    /\ allocation' = [allocation EXCEPT ![t] = "ACTIVE"]

\* A yielded token has returned its CPU already.
Release(t) ==
    /\ allocation[t] \in {"ACTIVE", "CPU_YIELDED"}
    /\ available' = [n \in Names |-> available[n] + Held(t, n)]
    /\ allocation' = [allocation EXCEPT ![t] = "RELEASED"]

\* A blocked task returns its CPU and nothing else.
YieldCpu(t) ==
    /\ allocation[t] = "ACTIVE"
    /\ Request[t][CPU] > 0
    /\ available' = [available EXCEPT ![CPU] = @ + Request[t][CPU]]
    /\ allocation' = [allocation EXCEPT ![t] = "CPU_YIELDED"]

\* A resumed task takes its CPU back at once, even one that another task has
\* been given meanwhile.
ReacquireCpu(t) ==
    /\ allocation[t] = "CPU_YIELDED"
    /\ available' = [available EXCEPT ![CPU] = @ - Request[t][CPU]]
    /\ allocation' = [allocation EXCEPT ![t] = "ACTIVE"]

-----------------------------------------------------------------------------
TypeOK ==
    /\ available \in [Names -> Int]
    /\ allocation \in [Tokens -> AllocationStates]

Charges(n) == [t \in Tokens |-> Held(t, n)]

\* No unit is lost or made up by any order of grants, yields, resumptions and
\* releases: what is left and what is held add up to the total.
Conserved ==
    \A n \in Names : available[n] + SumFunctionOnSet(Charges(n), Tokens) = Total[n]

\* The assertion the code makes after every change (_assert_invariants_locked):
\* nothing is released twice, and only the CPU can be overdrawn.
AssertionsHold ==
    \A n \in Names : available[n] <= Total[n] /\ (n # CPU => available[n] >= 0)
=============================================================================

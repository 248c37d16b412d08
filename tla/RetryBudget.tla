----------------------------- MODULE RetryBudget -----------------------------
(***************************************************************************)
(* The attempts at a Task, which its first dispatch (TaskDispatch.tla) and *)
(* every recovery of its output (Reconstruction.tla) draw from one budget: *)
(* recovery.py numbers them from 0, and the number never exceeds           *)
(* max_retries.                                                            *)
(***************************************************************************)
EXTENDS Naturals

CONSTANT
    MaxRetries      \* the Task's system retry budget

ASSUME RetryBudgetAssumption == MaxRetries \in Nat

Attempts == 0 .. MaxRetries
=============================================================================

--------------------------- MODULE MCWorkerLeases ---------------------------
(* Small instances of the Node's worker leases.                            *)
EXTENDS WorkerLeases, TLC

CONSTANTS l1, l2, driver

LeaseSubmitter == [l \in Leases |-> driver]

NodeTotal == "CPU" :> 1 @@ "GPU" :> 1

\* The first lease holds a GPU beside its CPU.
LeaseRequest == l1 :> ("CPU" :> 1 @@ "GPU" :> 1) @@ l2 :> ("CPU" :> 1 @@ "GPU" :> 0)
=============================================================================

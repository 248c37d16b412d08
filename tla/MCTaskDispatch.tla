---------------------------- MODULE MCTaskDispatch ----------------------------
(* Instances of the dispatch of one Task: its retry budget, the replays of a *)
(* lease request, the faults and the late calls are given by each .cfg.      *)
EXTENDS TaskDispatch
=============================================================================

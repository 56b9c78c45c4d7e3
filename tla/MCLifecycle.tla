---------------------------- MODULE MCLifecycle ----------------------------
(* AgentLifecycle for TLC: requests of one kind are interchangeable.       *)
EXTENDS AgentLifecycle, TLC

RequestSymmetry == Permutations(StartReqs) \cup Permutations(StopReqs)
                   \cup Permutations(StatusReqs)
=============================================================================

------------------------------ MODULE MCAgent ------------------------------
(* AgentSystem for TLC: names are interchangeable in the safety runs. *)
EXTENDS AgentSystem, TLC

Names == Permutations(Instances) \cup Permutations(Pods)

=============================================================================

----------------------------- MODULE MCSandbox -----------------------------
(* SandboxSystem for TLC: names are interchangeable in the safety runs. *)
EXTENDS SandboxSystem, TLC

Names == Permutations(Pods) \cup Permutations(Claims)

=============================================================================

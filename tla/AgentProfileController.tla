----------------------- MODULE AgentProfileController -----------------------
(***************************************************************************)
(* AgentProfileReconciler.Reconcile (agentprofile_controller.go): validate *)
(* and write the Ready condition.                                          *)
(***************************************************************************)
EXTENDS ReadyCondition

ValidProfile(spec) ==
  /\ spec.displayName /\ spec.systemPrompt
  /\ spec.provider /\ spec.name
  /\ spec.profileType \in {"orchestrator", "specialist"}
  /\ spec.visibility \in {"", "system", "user"}
  /\ spec.visibility = "user" => spec.ownerID

ReconcileProfile(p) ==
  /\ Copy(p) # NoConfig
  /\ Begin(p, WriteReady(p, IF ValidProfile(Copy(p).spec) THEN "True" ELSE "False"))
  /\ fresh' = CopyOf(p)

ProfileReconcile(p) == ReconcileGone(p) \/ ReconcileProfile(p)

ProfileStep == UpdateStatus("AgentProfile") \/ UpdateStatusFails("AgentProfile")

=============================================================================

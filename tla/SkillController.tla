-------------------------- MODULE SkillController --------------------------
(***************************************************************************)
(* SkillReconciler.Reconcile (skill_controller.go): validate, see to the   *)
(* Deployment and the Service of a shared skill, and write the Ready       *)
(* condition.  A failed call about the Deployment or the Service becomes   *)
(* the condition Ready=False; only the error of the status update is       *)
(* returned.  The caches are read in one step: an event delivered between  *)
(* two reads would only queue the skill once more.                         *)
(***************************************************************************)
EXTENDS ReadyCondition

ValidSkill(spec) ==
  /\ spec.version /\ spec.description
  /\ spec.type = "prompt" => spec.prompt
  /\ spec.type = "mcp" => spec.image # None
  /\ spec.type = "cli" => spec.binary /\ spec.allowedCommands

\* isSharedMode, of a valid skill.
IsShared(spec) == ValidSkill(spec) /\ spec.type = "mcp" /\ spec.mode = "shared"

this == run["Skill"]

\* Where a reconciliation goes when the Deployment is in order: the cache is asked for
\* the Service.
ServiceOf(r) ==
  IF r.key \in cache.service THEN [r EXCEPT !.step = "status", !.ready = "True"]
  ELSE [r EXCEPT !.step = "createService"]

\* [mutant] the Deployment is updated without a look at its image.
UpdateAlways(s) ==
  LET r == [Idle EXCEPT !.key = s, !.image = Copy(s).spec.image]
  IN  IF cache.deployment[s] = NoDeployment THEN [r EXCEPT !.step = "createDeployment"]
      ELSE [r EXCEPT !.step = "updateDeployment"]

\* The first call for a shared skill, as the cached Deployment suggests.
SharedRun(s) ==
  LET image == Copy(s).spec.image
      found == cache.deployment[s]
      r     == [Idle EXCEPT !.key = s, !.image = image]
  IN  IF found = NoDeployment THEN [r EXCEPT !.step = "createDeployment"]
      ELSE IF found.image # image THEN [r EXCEPT !.step = "updateDeployment"]
      ELSE ServiceOf(r)

ReconcileUnshared(s) ==
  /\ Copy(s) # NoConfig /\ ~IsShared(Copy(s).spec)
  /\ Begin(s, WriteReady(s, IF ValidSkill(Copy(s).spec) THEN "True" ELSE "False"))
  /\ fresh' = CopyOf(s)

\* resource.MustParse panics; controller-runtime makes that an error.
ReconcilePanics(s) ==
  /\ Copy(s) # NoConfig /\ IsShared(Copy(s).spec) /\ ~Copy(s).spec.quantities
  /\ run["Skill"] = Idle /\ s \in queue
  /\ UNCHANGED vars

ReconcileShared(s) ==
  /\ Copy(s) # NoConfig /\ IsShared(Copy(s).spec) /\ Copy(s).spec.quantities
  /\ Begin(s, SharedRun(s))
  /\ fresh' = [CopyOf(s) EXCEPT !.deployment =
                 IF Quiet(watch.Deployment, s) THEN @ \cup {s} ELSE @ \ {s}]

SkillReconcile(s) ==
  ReconcileGone(s) \/ ReconcileUnshared(s) \/ ReconcilePanics(s) \/ ReconcileShared(s)

-----------------------------------------------------------------------------
(* API calls *)

callUntouched == <<config, cache, queue, edits, crashes>>

Continue(r) == run' = [run EXCEPT !["Skill"] = r]

\* A successful call that is the last one for a shared skill.
Succeeded == Continue(WriteReady(this.key, "True"))

\* What is created belongs to the UID of the copy, which may be gone.
Owned(kind) ==
  orphan' = IF this.key \in fresh.owner THEN orphan
            ELSE [orphan EXCEPT ![kind] = @ \cup {this.key}]

\* The Service has to wait for another reconciliation.
CreateDeployment ==
  /\ this.step = "createDeployment" /\ deployment[this.key] = NoDeployment
  /\ PutDeployment(this.key, NewDeployment(this.image))
  /\ Owned("deployment")
  /\ DeploymentMoved(this.key)
  /\ Succeeded
  /\ UNCHANGED <<service, errors, callUntouched>>

UpdateDeployment ==
  /\ this.step = "updateDeployment" /\ this.key \in fresh.deployment
  /\ PutDeployment(this.key, NewDeployment(this.image))
  /\ DeploymentMoved(this.key)
  /\ Continue(ServiceOf(this))
  /\ UNCHANGED <<service, orphan, errors, callUntouched>>

CreateService ==
  /\ this.step = "createService" /\ this.key \notin service
  /\ PutService(this.key, TRUE)
  /\ Owned("service")
  /\ Succeeded
  /\ UNCHANGED <<deployment, fresh, errors, callUntouched>>

\* [mutant] the error is logged and the condition stays Ready=True.
FailureIgnored ==
  /\ this.step \in {"createDeployment", "updateDeployment", "createService"}
  /\ CallFails
  /\ Continue(WriteReady(this.key, "True"))
  /\ UNCHANGED <<deployment, service, orphan, watch, fresh, callUntouched>>

\* DeploymentFailed: the cache was wrong about what there is, or the call fails.
CallRefused ==
  /\ \/ this.step = "createDeployment" /\ deployment[this.key] # NoDeployment
     \/ this.step = "updateDeployment" /\ this.key \notin fresh.deployment
     \/ this.step = "createService" /\ this.key \in service
  /\ Continue(WriteReady(this.key, "False"))
  /\ UNCHANGED <<deployment, service, orphan, watch, fresh, errors, callUntouched>>

SharedCallFails ==
  /\ this.step \in {"createDeployment", "updateDeployment", "createService"}
  /\ CallFails
  /\ Continue(WriteReady(this.key, "False"))
  /\ UNCHANGED <<deployment, service, orphan, watch, fresh, callUntouched>>

SkillStep ==
  \/ CreateDeployment \/ UpdateDeployment \/ CreateService \/ CallRefused \/ SharedCallFails
  \/ UpdateStatus("Skill") \/ UpdateStatusFails("Skill")

=============================================================================

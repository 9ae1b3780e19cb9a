---------------------------- MODULE ConfigSystem ----------------------------
(***************************************************************************)
(* The configuration half of the operator: the skill controller, the       *)
(* profile controller and the cluster they share, registered with one      *)
(* manager by cmd/operator/main.go.                                        *)
(***************************************************************************)
EXTENDS SkillController, AgentProfileController

Init == ClusterInit

Operator ==
  \/ (\E s \in Skills : SkillReconcile(s)) \/ SkillStep
  \/ (\E p \in Profiles : ProfileReconcile(p)) \/ ProfileStep

Next == Outside \/ Deliver \/ Crash \/ Operator

Spec == Init /\ [][Next]_vars

(* Watches deliver, the worker of each controller runs what is queued and  *)
(* finishes what it began, the queue is first in first out so a key that   *)
(* keeps coming back is served (hence SF), Deployments are rolled out and  *)
(* garbage is collected.  Nobody promises that users act or calls fail.    *)
Fairness ==
  /\ \A kind \in Controllers : WF_vars(DeliverConfig(kind))
  /\ WF_vars(DeliverDeployment) /\ WF_vars(DeliverService)
  /\ \A s \in Skills : SF_vars(SkillReconcile(s))
  /\ \A p \in Profiles : SF_vars(ProfileReconcile(p))
  /\ WF_vars(SkillStep) /\ WF_vars(ProfileStep)
  /\ \A s \in Skills :
       WF_vars(RollOut(s)) /\ WF_vars(CollectDeployment(s)) /\ WF_vars(CollectService(s))

FairSpec == Spec /\ Fairness

-----------------------------------------------------------------------------
(* Invariants *)

\* What there can be under the names of skills and profiles.
ConfigMap ==
  {configs \in [Configs -> ConfigVal("Skill") \cup ConfigVal("AgentProfile")] :
     \A k \in Configs : configs[k] \in ConfigVal(KindOf(k))}

ServerOK ==
  /\ config \in ConfigMap
  /\ deployment \in [Skills -> DeploymentVal]
  /\ service \in SUBSET Skills
  /\ orphan \in [deployment : SUBSET Skills, service : SUBSET Skills]

KeysOf(kind) == {k \in Configs : KindOf(k) = kind}

CachesOK ==
  cache \in [config : ConfigMap, deployment : [Skills -> DeploymentVal], service : SUBSET Skills]

WatchesOK ==
  /\ DOMAIN watch = Kinds
  /\ \A kind \in Controllers : watch[kind] \in Seq([key : KeysOf(kind), val : ConfigVal(kind)])
  /\ watch["Deployment"] \in Seq([key : Skills, val : DeploymentVal])
  /\ watch["Service"] \in Seq([key : Skills, val : BOOLEAN])

RunVal ==
  [step : {"idle", "createDeployment", "updateDeployment", "createService", "status"},
   key : Configs \cup {None}, image : Images \cup {None}, ready : Ready]

ControllersOK ==
  /\ queue \in SUBSET Configs
  /\ run \in [Controllers -> RunVal]
  /\ \A c \in Controllers : run[c].step # "idle" => run[c].key \in Configs /\ KindOf(run[c].key) = c
  /\ fresh \in Fresh

\* Every variable holds a value the code could store in it, and a reconciliation
\* under way names an object of its controller's kind.
TypeOK ==
  /\ ServerOK /\ CachesOK /\ WatchesOK /\ ControllersOK
  /\ edits \in 0..MaxEdits /\ crashes \in 0..MaxCrashes /\ errors \in 0..MaxErrors

\* Nothing is left for the operator or the garbage collector to do.
Settled ==
  /\ watch = [kind \in Kinds |-> <<>>] /\ queue = {}
  /\ run = [c \in Controllers |-> Idle]
  /\ orphan = [deployment |-> {}, service |-> {}]

Valid(k) == IF k \in Skills THEN ValidSkill(config[k].spec) ELSE ValidProfile(config[k].spec)
Shared(k) == k \in Skills /\ IsShared(config[k].spec)

\* A shared skill can be connected to: it has a Deployment of its image and a Service.
Served(s) == deployment[s].image = config[s].spec.image /\ s \in service

\* Once the operator has nothing left to do, Ready tells the truth: every skill and
\* profile has the condition, it is True only for a valid spec that is served if it is
\* shared, and False for no other, unless a call failed (whose error the skill
\* controller does not return); what belonged to a deleted skill is gone.  That holds
\* whoever edited the spec or the Deployment, deleted the Service, or used the name
\* of a deleted skill again (Reconcile, reconcileSharedDeployment).
SettledReadyIsTrue ==
  Settled =>
    /\ \A k \in Configs : Exists(k) =>
         /\ config[k].ready = "True"  => Valid(k) /\ (Shared(k) => Served(k))
         /\ config[k].ready # "True" => config[k].ready = "False" /\
              (Valid(k) => Shared(k) /\ errors > 0)
    /\ \A s \in Skills : ~Exists(s) => deployment[s] = NoDeployment /\ s \notin service

-----------------------------------------------------------------------------
(* Action properties *)

\* Ready=True is only ever written on a spec that is valid: a user who breaks the
\* spec while it is being reconciled does not find it declared Ready (the status
\* update carries the resourceVersion of the copy that was validated).
ReadyIsForThisSpec ==
  [][\A k \in Configs :
       config'[k].ready = "True" /\ config[k].ready # "True" => Valid(k) /\ Valid(k)']_vars

\* A shared skill whose quantities do not parse makes every reconciliation panic.
Panics(k) == Shared(k) /\ ~config[k].spec.quantities

\* Nothing is left to be done: every skill and profile has the verdict its spec
\* deserves, and shared skills are served.
InOrder ==
  \A k \in Configs : Exists(k) /\ ~Panics(k) =>
    /\ config[k].ready = IF Valid(k) THEN "True" ELSE "False"
    /\ Shared(k) => Served(k)

\* The operator knows of it; keys may be queued, and a verdict may be written again.
AtRest ==
  /\ InOrder
  /\ watch = [kind \in Kinds |-> <<>>]
  /\ cache = Listing
  /\ \A c \in Controllers :
       \/ run[c].step = "idle"
       \/ /\ run[c].step = "status"
          /\ run[c].key \in fresh.config => run[c].ready = config[run[c].key].ready

\* A settled system is in order, but for the skills whose calls failed.
Orderly == Settled /\ \A k \in Configs : Exists(k) /\ Valid(k) => config[k].ready = "True"

\* The operator leaves a system in order alone: whatever is queued, fails or is
\* restarted, it writes nothing until somebody else does, and so its own Deployments,
\* Services and conditions do not keep it busy (reconcileSharedDeployment compares
\* before it updates, setCondition before it replaces).  Steps of others leave others
\* unchanged.
RestIsStable ==
  [][(AtRest \/ Orderly) /\ others' # others => AtRest' /\ UNCHANGED server]_vars

-----------------------------------------------------------------------------
(* Liveness *)

Panicking == \E s \in Skills : Exists(s) /\ Panics(s)

\* The operator comes to rest when users do: although its own status writes and the
\* Deployments and Services it creates bring the skill back to its queue, it does not
\* go on for ever (setCondition leaves an unchanged condition alone).
ComesToRest == <>[](Settled \/ Panicking)

=============================================================================

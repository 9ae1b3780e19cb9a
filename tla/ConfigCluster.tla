--------------------------- MODULE ConfigCluster ---------------------------
(***************************************************************************)
(* AgentProfiles and Skills, the objects a user configures agents with,    *)
(* and the Deployment and the Service of every shared skill, as the API    *)
(* server holds them and as the operator's informers see them, with        *)
(* everything that acts on them except the two reconcilers: users, the     *)
(* Deployment controller, the garbage collector, the delivery of watch     *)
(* events, and a restart of the operator.                                  *)
(*                                                                         *)
(* SkillController and AgentProfileController add the reconcilers,         *)
(* ConfigSystem composes the three.                                        *)
(***************************************************************************)
EXTENDS Informer, FiniteSets

CONSTANTS
  Skills,        \* names of Skills; their Deployment and Service are named after them
  Profiles,      \* names of AgentProfiles
  Images,        \* container images
  SkillSpecs,    \* the specs users give to skills
  ProfileSpecs,  \* the specs users give to profiles
  None,          \* the empty name
  MaxConfigs,    \* bound on the skills and profiles there are at a time
  MaxEdits,      \* bound on what users do
  MaxLag,        \* bound: the environment acts while fewer events are in flight
  MaxCrashes, MaxErrors  \* bounds on restarts and on failing API calls

Configs == Skills \cup Profiles

\* A spec by what the reconcilers tell apart.  A BOOLEAN says that the field is not
\* empty; image is None without a runtime; quantities says whether the CPU and memory
\* of the runtime, if any, can be parsed.  The CRDs admit no other enumerated values.
SkillSpec ==
  [type : {"prompt", "mcp", "cli"}, version : BOOLEAN, description : BOOLEAN,
   prompt : BOOLEAN, image : Images \cup {None}, mode : {"sidecar", "shared"},
   quantities : BOOLEAN, binary : BOOLEAN, allowedCommands : BOOLEAN]

ProfileSpec ==
  [displayName : BOOLEAN, systemPrompt : BOOLEAN, provider : BOOLEAN, name : BOOLEAN,
   profileType : {"orchestrator", "specialist"}, visibility : {"", "system", "user"},
   ownerID : BOOLEAN]

ASSUME ConstantsAssumption ==
  /\ IsFiniteSet(Configs) /\ Skills \cap Profiles = {}
  /\ None \notin Configs \cup Images \cup SkillSpecs \cup ProfileSpecs
  /\ SkillSpecs \subseteq SkillSpec /\ ProfileSpecs \subseteq ProfileSpec
  /\ MaxConfigs \in Nat /\ MaxEdits \in Nat /\ MaxLag \in Nat /\ MaxCrashes \in Nat /\ MaxErrors \in Nat

VARIABLES
  \* API server
  config,      \* spec and Ready condition of every skill and profile
  deployment,  \* the Deployment of every skill
  service,     \* the skills that have a Service
  orphan,      \* the Deployments and Services whose owner is gone for good
  \* informers of the operator, by kind, and work queues
  cache, watch, queue,
  run,         \* reconciliations in progress, one of each controller
  fresh,       \* what the copies they hold still are, see Fresh
  edits, crashes, errors

server == <<config, deployment, service, orphan>>
informers == <<cache, watch>>
counters == <<edits, crashes, errors>>
vars == <<server, informers, queue, run, fresh, counters>>

-----------------------------------------------------------------------------
(* Objects *)

\* The status of the Ready condition, "unset" before there is one.
Ready == {"unset", "True", "False"}

KindOf(k)     == IF k \in Skills THEN "Skill" ELSE "AgentProfile"
SpecsOf(kind) == IF kind = "Skill" THEN SkillSpecs ELSE ProfileSpecs

NoConfig        == [spec |-> None, ready |-> "unset"]
NewConfig(spec) == [spec |-> spec, ready |-> "unset"]
ConfigVal(kind) == {NoConfig} \cup [spec : SpecsOf(kind), ready : Ready]

Exists(k)  == config[k] # NoConfig

\* rolledOut: the Deployment controller has answered the latest spec.
DeploymentVal == [image : Images \cup {None}, rolledOut : BOOLEAN]
NoDeployment  == [image |-> None, rolledOut |-> FALSE]
NewDeployment(image) == [image |-> image, rolledOut |-> FALSE]

Controllers == {"Skill", "AgentProfile"}
Kinds == Controllers \cup {"Deployment", "Service"}

\* A reconciliation: the call that comes next, the object it is for, the image its
\* spec asks for, and the status its Ready condition will have.
Idle == [step |-> "idle", key |-> None, image |-> None, ready |-> "unset"]

\* The configs whose copy is at the stored resourceVersion, the Deployments likewise,
\* and the skills whose copy has the UID of the skill stored now.
Fresh   == [config : SUBSET Configs, deployment : SUBSET Skills, owner : SUBSET Skills]
NoFresh == [config |-> {}, deployment |-> {}, owner |-> {}]

-----------------------------------------------------------------------------
(* Writes accepted by the API server: the new value and its watch events *)

Sees(kind, events) == watch' = [watch EXCEPT ![kind] = @ \o events]

\* No copy of k is current after this.
PutConfig(k, v, events) ==
  /\ config' = [config EXCEPT ![k] = v]
  /\ Sees(KindOf(k), events)

PutDeployment(s, v) ==
  /\ deployment' = [deployment EXCEPT ![s] = v]
  /\ Sees("Deployment", <<Event(s, v)>>)

PutService(s, exists) ==
  /\ service' = IF exists THEN service \cup {s} ELSE service \ {s}
  /\ Sees("Service", <<Event(s, exists)>>)

Listing == [config |-> config, deployment |-> deployment, service |-> service]

\* Something the operator does, has or is told mentions k.
InPlay(k) ==
  \/ Exists(k) \/ cache.config[k] # NoConfig \/ ~Quiet(watch[KindOf(k)], k)
  \/ k \in queue \/ run[KindOf(k)].key = k

\* The operator starts and finds the skills and profiles users have created.
ClusterInit ==
  /\ config \in [Configs -> {NoConfig} \cup {NewConfig(spec) : spec \in SkillSpecs \cup ProfileSpecs}]
  /\ \A k \in Configs : Exists(k) => config[k].spec \in SpecsOf(KindOf(k))
  /\ Cardinality({k \in Configs : Exists(k)}) <= MaxConfigs
  /\ deployment = [s \in Skills |-> NoDeployment]
  /\ service = {} /\ orphan = [deployment |-> {}, service |-> {}]
  /\ cache = Listing
  /\ watch = [kind \in Kinds |-> <<>>]
  /\ queue = {k \in Configs : Exists(k)}
  /\ run = [c \in Controllers |-> Idle]
  /\ fresh = NoFresh
  /\ edits = 0 /\ crashes = 0 /\ errors = 0

-----------------------------------------------------------------------------
(* Users *)

others == <<cache, queue, run, crashes, errors>>

Lag(kind) == Len(watch[kind])

Meddle(kind) == edits < MaxEdits /\ Lag(kind) < MaxLag /\ edits' = edits + 1

UserWrites(k, v) ==
  /\ Meddle(KindOf(k))
  /\ PutConfig(k, v, <<Event(k, v)>>)

\* A name may be used again once the operator knows that it is free.
CreateConfig(k) ==
  /\ ~Exists(k) /\ cache.config[k] = NoConfig /\ Quiet(watch[KindOf(k)], k)
  /\ Cardinality({other \in Configs \ {k} : InPlay(other)}) < MaxConfigs
  /\ \E spec \in SpecsOf(KindOf(k)) : UserWrites(k, NewConfig(spec))
  /\ UNCHANGED <<deployment, service, orphan, fresh, others>>

EditConfig(k) ==
  /\ Exists(k)
  /\ \E spec \in SpecsOf(KindOf(k)) \ {config[k].spec} :
       UserWrites(k, [config[k] EXCEPT !.spec = spec])
  /\ fresh' = [fresh EXCEPT !.config = @ \ {k}]
  /\ UNCHANGED <<deployment, service, orphan, others>>

\* The Deployment and the Service keep an owner reference to the UID that is gone.
DeleteConfig(k) ==
  /\ Exists(k)
  /\ UserWrites(k, NoConfig)
  /\ orphan' = [deployment |-> orphan.deployment \cup
                                 {s \in {k} \cap Skills : deployment[s] # NoDeployment},
                service |-> orphan.service \cup ({k} \cap service)]
  /\ fresh' = [fresh EXCEPT !.config = @ \ {k}, !.owner = @ \ {k}]
  /\ UNCHANGED <<deployment, service, others>>

DeploymentMoved(s) == fresh' = [fresh EXCEPT !.deployment = @ \ {s}]

\* Somebody deletes the Deployment or gives it another image.
TamperDeployment(s) ==
  /\ deployment[s] # NoDeployment /\ Meddle("Deployment")
  /\ \/ PutDeployment(s, NoDeployment) /\ orphan' = [orphan EXCEPT !.deployment = @ \ {s}]
     \/ /\ \E image \in Images \ {deployment[s].image} :
             PutDeployment(s, NewDeployment(image))
        /\ UNCHANGED orphan
  /\ DeploymentMoved(s)
  /\ UNCHANGED <<config, service, others>>

TamperService(s) ==
  /\ s \in service /\ Meddle("Service")
  /\ PutService(s, FALSE)
  /\ orphan' = [orphan EXCEPT !.service = @ \ {s}]
  /\ UNCHANGED <<config, deployment, fresh, others>>

-----------------------------------------------------------------------------
(* The Deployment controller and the garbage collector *)

RollOut(s) ==
  /\ deployment[s] # NoDeployment /\ ~deployment[s].rolledOut /\ Lag("Deployment") < MaxLag
  /\ PutDeployment(s, [deployment[s] EXCEPT !.rolledOut = TRUE])
  /\ DeploymentMoved(s)
  /\ UNCHANGED <<config, service, orphan, edits, others>>

CollectDeployment(s) ==
  /\ s \in orphan.deployment /\ Lag("Deployment") < MaxLag
  /\ PutDeployment(s, NoDeployment)
  /\ orphan' = [orphan EXCEPT !.deployment = @ \ {s}]
  /\ DeploymentMoved(s)
  /\ UNCHANGED <<config, service, edits, others>>

CollectService(s) ==
  /\ s \in orphan.service /\ Lag("Service") < MaxLag
  /\ PutService(s, FALSE)
  /\ orphan' = [orphan EXCEPT !.service = @ \ {s}]
  /\ UNCHANGED <<config, deployment, fresh, edits, others>>

-----------------------------------------------------------------------------
(* Watch events reach the operator: the cache is updated and the keys that  *)
(* For and Owns select are queued; Owns goes by the name of the owner.      *)

Take(kind, newCache, keys) ==
  /\ watch[kind] # <<>>
  /\ cache' = newCache
  /\ watch' = [watch EXCEPT ![kind] = Tail(@)]
  /\ queue' = queue \cup keys
  /\ UNCHANGED <<server, run, fresh, counters>>

DeliverConfig(kind) ==
  LET e == Head(watch[kind])
  IN  Take(kind, [cache EXCEPT !.config = Apply(@, e)], {e.key})

DeliverDeployment ==
  LET e == Head(watch.Deployment)
  IN  Take("Deployment", [cache EXCEPT !.deployment = Apply(@, e)], {e.key})

DeliverService ==
  LET e == Head(watch.Service)
  IN  Take("Service", [cache EXCEPT !.service = IF e.val THEN @ \cup {e.key} ELSE @ \ {e.key}],
           {e.key})

\* The operator dies and is started again: in-memory state is gone, the informers
\* list everything before the first reconciliation and every object listed is queued.
Crash ==
  /\ crashes < MaxCrashes /\ crashes' = crashes + 1
  /\ cache' = Listing
  /\ watch' = [kind \in Kinds |-> <<>>]
  /\ queue' = {k \in Configs : Exists(k)} \cup service
                \cup {s \in Skills : deployment[s] # NoDeployment}
  /\ run' = [c \in Controllers |-> Idle] /\ fresh' = NoFresh
  /\ UNCHANGED <<server, edits, errors>>

Deliver == DeliverDeployment \/ DeliverService \/ \E kind \in Controllers : DeliverConfig(kind)

Outside ==
  \/ \E k \in Configs : CreateConfig(k) \/ EditConfig(k) \/ DeleteConfig(k)
  \/ \E s \in Skills : \/ TamperDeployment(s) \/ TamperService(s)
                       \/ RollOut(s) \/ CollectDeployment(s) \/ CollectService(s)

=============================================================================

------------------------- MODULE ConfigSystemProofs -------------------------
(***************************************************************************)
(* Proofs about ConfigSystem, for any finite sets of skills and profiles,  *)
(* any specs users may give them and any bounds.                           *)
(***************************************************************************)
EXTENDS ConfigSystem, InformerProofs

USE DEF vars, server, informers, counters, others, untouched, callUntouched

-----------------------------------------------------------------------------
(* Type correctness *)

\* Objects have a controller of their own kind.
LEMMA KindTypes ==
  /\ \A k \in Configs : KindOf(k) \in Controllers /\ k \in KeysOf(KindOf(k))
  /\ \A c \in Controllers : \A k \in KeysOf(c) : k \in Configs /\ KindOf(k) = c
  /\ \A k \in Configs : KindOf(k) = "Skill" <=> k \in Skills
  /\ \A k \in Profiles : k \in Configs /\ KindOf(k) = "AgentProfile"
  /\ \A k \in Skills : k \in Configs /\ KindOf(k) = "Skill"
  /\ Controllers \subseteq Kinds /\ {"Deployment", "Service"} \subseteq Kinds
BY ConstantsAssumption DEF KindOf, KeysOf, Controllers, Kinds, Configs

\* Values an action writes.
LEMMA ValueTypes ==
  /\ \A c \in Controllers : NoConfig \in ConfigVal(c)
  /\ \A c \in Controllers : \A spec \in SpecsOf(c) : NewConfig(spec) \in ConfigVal(c)
  /\ NoDeployment \in DeploymentVal
  /\ \A image \in Images \cup {None} : NewDeployment(image) \in DeploymentVal
  /\ Idle \in RunVal /\ NoFresh \in Fresh
BY DEF NoConfig, NewConfig, ConfigVal, NoDeployment, NewDeployment, DeploymentVal, Idle,
       RunVal, Ready, NoFresh, Fresh

\* Users and controllers give a name a value of its own kind.
LEMMA ConfigSet ==
  ASSUME NEW f \in ConfigMap, NEW k \in Configs, NEW v \in ConfigVal(KindOf(k))
  PROVE  [f EXCEPT ![k] = v] \in ConfigMap
<1>1. v \in ConfigVal("Skill") \cup ConfigVal("AgentProfile")
  BY KindTypes DEF Controllers
<1> QED
  BY <1>1 DEF ConfigMap

\* What the API server stores and announces when it accepts a write.
LEMMA PutConfigType ==
  ASSUME TypeOK, NEW k \in Configs, NEW v \in ConfigVal(KindOf(k)),
         NEW events \in {<<>>, <<Event(k, v)>>}, PutConfig(k, v, events)
  PROVE  config' \in ConfigMap /\ WatchesOK'
<1> DEFINE S == [key : KeysOf(KindOf(k)), val : ConfigVal(KindOf(k))]
<1>1. config' \in ConfigMap
  BY ConfigSet DEF TypeOK, ServerOK, PutConfig
<1>2. events \in Seq(S)
  <2>1. Event(k, v) \in S
    BY KindTypes DEF Event
  <2> HIDE DEF S
  <2>2. <<>> \in Seq(S) /\ <<Event(k, v)>> \in Seq(S)
    BY <2>1
  <2> QED
    BY <2>2
<1>3. watch[KindOf(k)] \in Seq(S)
  BY KindTypes DEF TypeOK, WatchesOK
<1> HIDE DEF S
<1>4. watch[KindOf(k)] \o events \in Seq(S)
  BY <1>2, <1>3, ConcatProperties
<1>5. watch' = [watch EXCEPT ![KindOf(k)] = watch[KindOf(k)] \o events]
  BY DEF PutConfig, Sees
<1> QED
  BY <1>1, <1>4, <1>5, KindTypes DEF S, TypeOK, WatchesOK, Controllers

LEMMA PutDeploymentType ==
  ASSUME TypeOK, NEW s \in Skills, NEW v \in DeploymentVal, PutDeployment(s, v)
  PROVE  deployment' \in [Skills -> DeploymentVal] /\ WatchesOK'
<1> DEFINE S == [key : Skills, val : DeploymentVal]
<1>1. <<Event(s, v)>> \in Seq(S) /\ watch["Deployment"] \in Seq(S)
  BY DEF Event, TypeOK, WatchesOK
<1> HIDE DEF S
<1>2. watch["Deployment"] \o <<Event(s, v)>> \in Seq(S)
  BY <1>1, ConcatProperties
<1>3. watch' = [watch EXCEPT !["Deployment"] = watch["Deployment"] \o <<Event(s, v)>>]
  BY DEF PutDeployment, Sees
<1> QED
  BY <1>2, <1>3 DEF S, TypeOK, ServerOK, WatchesOK, Controllers, Kinds, PutDeployment

LEMMA PutServiceType ==
  ASSUME TypeOK, NEW s \in Skills, NEW exists \in BOOLEAN, PutService(s, exists)
  PROVE  service' \in SUBSET Skills /\ WatchesOK'
<1> DEFINE S == [key : Skills, val : BOOLEAN]
<1>1. <<Event(s, exists)>> \in Seq(S) /\ watch["Service"] \in Seq(S)
  BY DEF Event, TypeOK, WatchesOK
<1> HIDE DEF S
<1>2. watch["Service"] \o <<Event(s, exists)>> \in Seq(S)
  BY <1>1, ConcatProperties
<1>3. watch' = [watch EXCEPT !["Service"] = watch["Service"] \o <<Event(s, exists)>>]
  BY DEF PutService, Sees
<1> QED
  BY <1>2, <1>3 DEF S, TypeOK, ServerOK, WatchesOK, Controllers, Kinds, PutService

LEMMA TypeInit == Init => TypeOK
<1> SUFFICES ASSUME Init PROVE TypeOK
  OBVIOUS
<1>1. config \in ConfigMap
  <2> SUFFICES ASSUME NEW k \in Configs PROVE config[k] \in ConfigVal(KindOf(k))
    BY KindTypes DEF Init, ClusterInit, ConfigMap, Controllers
  <2>1. config[k] = NoConfig \/ \E spec \in SpecsOf(KindOf(k)) : config[k] = NewConfig(spec)
    BY DEF Init, ClusterInit, Exists, NewConfig
  <2> QED
    BY <2>1, KindTypes, ValueTypes
<1>2. ServerOK
  BY <1>1, ValueTypes DEF Init, ClusterInit, ServerOK
<1>3. CachesOK /\ WatchesOK
  BY <1>2 DEF Init, ClusterInit, ServerOK, CachesOK, WatchesOK, Listing, Controllers, Kinds
<1>4. ControllersOK
  BY ValueTypes DEF Init, ClusterInit, ControllersOK, Idle
<1> QED
  BY <1>2, <1>3, <1>4, ConstantsAssumption DEF TypeOK, Init, ClusterInit

\* What users, the Deployment controller and the garbage collector do.
LEMMA TypeOutside == TypeOK /\ Outside => TypeOK'
<1> SUFFICES ASSUME TypeOK, Outside PROVE TypeOK'
  OBVIOUS
<1> USE DEF TypeOK, ServerOK, CachesOK, ControllersOK
<1>0. ASSUME NEW kind \in Kinds, Meddle(kind) PROVE edits' \in 0..MaxEdits
  BY <1>0, ConstantsAssumption DEF Meddle
<1>1. ASSUME NEW k \in Configs, NEW v \in ConfigVal(KindOf(k)), UserWrites(k, v)
      PROVE  config' \in ConfigMap /\ WatchesOK' /\ edits' \in 0..MaxEdits
  BY <1>0, <1>1, PutConfigType, KindTypes DEF UserWrites
<1>2. ASSUME NEW k \in Configs, CreateConfig(k) PROVE TypeOK'
  <2> PICK spec \in SpecsOf(KindOf(k)) : UserWrites(k, NewConfig(spec))
    BY <1>2 DEF CreateConfig
  <2>1. NewConfig(spec) \in ConfigVal(KindOf(k))
    BY ValueTypes, KindTypes
  <2> QED
    BY <1>1, <1>2, <2>1 DEF CreateConfig
<1>3. ASSUME NEW k \in Configs, EditConfig(k) PROVE TypeOK'
  <2> PICK spec \in SpecsOf(KindOf(k)) : UserWrites(k, [config[k] EXCEPT !.spec = spec])
    BY <1>3 DEF EditConfig
  <2>1. [config[k] EXCEPT !.spec = spec] \in ConfigVal(KindOf(k))
    BY <1>3 DEF ConfigMap, ConfigVal, EditConfig, Exists
  <2>2. fresh' \in Fresh
    BY <1>3 DEF EditConfig, Fresh
  <2> QED
    BY <1>1, <1>3, <2>1, <2>2 DEF EditConfig
<1>4. ASSUME NEW k \in Configs, DeleteConfig(k) PROVE TypeOK'
  <2>1. NoConfig \in ConfigVal(KindOf(k))
    BY ValueTypes, KindTypes
  <2>2. fresh' \in Fresh
    BY <1>4 DEF DeleteConfig, Fresh
  <2>3. orphan' \in [deployment : SUBSET Skills, service : SUBSET Skills]
    BY <1>4 DEF DeleteConfig
  <2> QED
    BY <1>1, <1>4, <2>1, <2>2, <2>3 DEF DeleteConfig
<1>5. ASSUME NEW s \in Skills, DeploymentMoved(s) PROVE fresh' \in Fresh
  BY <1>5 DEF DeploymentMoved, Fresh
<1>6. ASSUME NEW s \in Skills, TamperDeployment(s) PROVE TypeOK'
  <2> PICK v \in {NoDeployment} \cup {NewDeployment(image) : image \in Images} : PutDeployment(s, v)
    BY <1>6 DEF TamperDeployment
  <2>1. v \in DeploymentVal
    BY ValueTypes
  <2>2. deployment' \in [Skills -> DeploymentVal] /\ WatchesOK'
    BY <2>1, PutDeploymentType
  <2>3. orphan' \in [deployment : SUBSET Skills, service : SUBSET Skills]
    BY <1>6 DEF TamperDeployment
  <2>4. fresh' \in Fresh /\ edits' \in 0..MaxEdits
    BY <1>0, <1>5, <1>6, KindTypes DEF TamperDeployment
  <2> QED
    BY <1>6, <2>2, <2>3, <2>4 DEF TamperDeployment
<1>7. ASSUME NEW s \in Skills, TamperService(s) PROVE TypeOK'
  <2>1. service' \in SUBSET Skills /\ WatchesOK'
    BY <1>7, PutServiceType DEF TamperService
  <2>2. orphan' \in [deployment : SUBSET Skills, service : SUBSET Skills]
    BY <1>7 DEF TamperService
  <2>3. edits' \in 0..MaxEdits
    BY <1>0, <1>7, KindTypes DEF TamperService
  <2> QED
    BY <1>7, <2>1, <2>2, <2>3 DEF TamperService
<1>8. ASSUME NEW s \in Skills, RollOut(s) \/ CollectDeployment(s) PROVE TypeOK'
  <2> PICK v \in {NoDeployment, [deployment[s] EXCEPT !.rolledOut = TRUE]} : PutDeployment(s, v)
    BY <1>8 DEF RollOut, CollectDeployment
  <2>1. v \in DeploymentVal
    BY ValueTypes DEF DeploymentVal
  <2>2. deployment' \in [Skills -> DeploymentVal] /\ WatchesOK'
    BY <2>1, PutDeploymentType
  <2>3. orphan' \in [deployment : SUBSET Skills, service : SUBSET Skills]
    BY <1>8 DEF RollOut, CollectDeployment
  <2>4. fresh' \in Fresh
    BY <1>5, <1>8 DEF RollOut, CollectDeployment
  <2> QED
    BY <1>8, <2>2, <2>3, <2>4 DEF RollOut, CollectDeployment
<1>9. ASSUME NEW s \in Skills, CollectService(s) PROVE TypeOK'
  <2>1. service' \in SUBSET Skills /\ WatchesOK'
    BY <1>9, PutServiceType DEF CollectService
  <2>2. orphan' \in [deployment : SUBSET Skills, service : SUBSET Skills]
    BY <1>9 DEF CollectService
  <2> QED
    BY <1>9, <2>1, <2>2 DEF CollectService
<1> QED
  BY <1>2, <1>3, <1>4, <1>6, <1>7, <1>8, <1>9 DEF Outside

\* Deliveries and restarts.
LEMMA TypeDeliver == TypeOK /\ (Deliver \/ Crash) => TypeOK'
<1> SUFFICES ASSUME TypeOK, Deliver \/ Crash PROVE TypeOK'
  OBVIOUS
<1> USE DEF TypeOK, ServerOK, CachesOK, ControllersOK
<1>1. ASSUME NEW kind \in Controllers, DeliverConfig(kind) PROVE TypeOK'
  <2> DEFINE e == Head(watch[kind])
  <2>1. /\ e \in [key : KeysOf(kind), val : ConfigVal(kind)]
        /\ Tail(watch[kind]) \in Seq([key : KeysOf(kind), val : ConfigVal(kind)])
    <3>1. watch[kind] \in Seq([key : KeysOf(kind), val : ConfigVal(kind)]) /\ watch[kind] # <<>>
      BY <1>1 DEF WatchesOK, DeliverConfig, Take
    <3> QED
      BY <3>1, HeadTailProperties
  <2> HIDE DEF e
  <2>2. /\ cache' = [cache EXCEPT !.config = Apply(cache.config, e)]
        /\ queue' = queue \cup {e.key}
        /\ watch' = [watch EXCEPT ![kind] = Tail(watch[kind])]
    BY <1>1 DEF DeliverConfig, Take, e
  <2>3. cache'.config \in ConfigMap /\ queue' \in SUBSET Configs
    BY <2>1, <2>2, KindTypes, ConfigSet DEF Apply
  <2>4. WatchesOK'
    BY <2>1, <2>2, KindTypes DEF WatchesOK, Controllers
  <2> QED
    BY <1>1, <2>2, <2>3, <2>4 DEF DeliverConfig, Take
<1>2. ASSUME DeliverDeployment PROVE TypeOK'
  <2> DEFINE e == Head(watch["Deployment"])
  <2>1. /\ e \in [key : Skills, val : DeploymentVal]
        /\ Tail(watch["Deployment"]) \in Seq([key : Skills, val : DeploymentVal])
    <3>1. watch["Deployment"] \in Seq([key : Skills, val : DeploymentVal]) /\ watch["Deployment"] # <<>>
      BY <1>2 DEF WatchesOK, DeliverDeployment, Take
    <3> QED
      BY <3>1, HeadTailProperties
  <2> HIDE DEF e
  <2>2. /\ cache' = [cache EXCEPT !.deployment = Apply(cache.deployment, e)]
        /\ queue' = queue \cup {e.key}
        /\ watch' = [watch EXCEPT !["Deployment"] = Tail(watch["Deployment"])]
    BY <1>2 DEF DeliverDeployment, Take, e
  <2>3. cache'.deployment \in [Skills -> DeploymentVal] /\ queue' \in SUBSET Configs
    BY <2>1, <2>2, KindTypes DEF Apply
  <2>4. WatchesOK'
    BY <2>1, <2>2 DEF WatchesOK, Controllers, Kinds
  <2> QED
    BY <1>2, <2>2, <2>3, <2>4 DEF DeliverDeployment, Take
<1>3. ASSUME DeliverService PROVE TypeOK'
  <2> DEFINE e == Head(watch["Service"])
  <2>1. /\ e \in [key : Skills, val : BOOLEAN]
        /\ Tail(watch["Service"]) \in Seq([key : Skills, val : BOOLEAN])
    <3>1. watch["Service"] \in Seq([key : Skills, val : BOOLEAN]) /\ watch["Service"] # <<>>
      BY <1>3 DEF WatchesOK, DeliverService, Take
    <3> QED
      BY <3>1, HeadTailProperties
  <2> HIDE DEF e
  <2>2. /\ cache' = [cache EXCEPT !.service = IF e.val THEN cache.service \cup {e.key}
                                               ELSE cache.service \ {e.key}]
        /\ queue' = queue \cup {e.key}
        /\ watch' = [watch EXCEPT !["Service"] = Tail(watch["Service"])]
    BY <1>3 DEF DeliverService, Take, e
  <2>3. cache'.service \in SUBSET Skills /\ queue' \in SUBSET Configs
    BY <2>1, <2>2, KindTypes
  <2>4. WatchesOK'
    BY <2>1, <2>2 DEF WatchesOK, Controllers, Kinds
  <2> QED
    BY <1>3, <2>2, <2>3, <2>4 DEF DeliverService, Take
<1>4. ASSUME Crash PROVE TypeOK'
  <2>1. queue' \in SUBSET Configs
    BY <1>4, KindTypes DEF Crash
  <2>2. CachesOK' /\ WatchesOK'
    BY <1>4 DEF Crash, Listing, WatchesOK, Controllers, Kinds
  <2>3. crashes' \in 0..MaxCrashes
    BY <1>4, ConstantsAssumption DEF Crash
  <2>4. ControllersOK'
    BY <1>4, <2>1, ValueTypes DEF Crash, Idle
  <2> QED
    BY <1>4, <2>2, <2>3, <2>4 DEF Crash
<1> QED
  BY <1>1, <1>2, <1>3, <1>4 DEF Deliver

\* A run of k's controller.
RunOf(k, r) == r \in RunVal /\ (r.step # "idle" => r.key = k)

LEMMA BeginType ==
  ASSUME TypeOK, NEW k \in Configs, NEW r, RunOf(k, r), Begin(k, r), fresh' \in Fresh
  PROVE  TypeOK'
<1>1. run' \in [Controllers -> RunVal]
  BY KindTypes DEF TypeOK, ControllersOK, Begin, RunOf
<1>2. \A c \in Controllers :
        run'[c].step # "idle" => run'[c].key \in Configs /\ KindOf(run'[c].key) = c
  BY KindTypes DEF TypeOK, ControllersOK, Begin, RunOf
<1>3. queue' \in SUBSET Configs
  BY DEF TypeOK, ControllersOK, Begin
<1>4. ControllersOK'
  BY <1>1, <1>2, <1>3 DEF ControllersOK
<1> QED
  BY <1>4 DEF TypeOK, ServerOK, CachesOK, WatchesOK, Begin

LEMMA RunTypes ==
  ASSUME NEW k \in Configs
  PROVE  /\ RunOf(k, Idle)
         /\ \A ready \in {"True", "False"} : RunOf(k, WriteReady(k, ready))
BY DEF RunOf, WriteReady, Idle, RunVal, Ready

LEMMA CopyOfType ==
  ASSUME TypeOK, NEW k \in Configs
  PROVE  CopyOf(k) \in Fresh
<1>1. /\ fresh.config \in SUBSET Configs /\ fresh.deployment \in SUBSET Skills
      /\ fresh.owner \in SUBSET Skills /\ fresh \in Fresh
  BY DEF TypeOK, ControllersOK, Fresh
<1>2. (IF Quiet(watch[KindOf(k)], k) THEN fresh.config \cup {k} ELSE fresh.config \ {k}) \in SUBSET Configs
  BY <1>1
<1>3. (IF k \in Skills /\ Exists(k) THEN fresh.owner \cup {k} ELSE fresh.owner \ {k}) \in SUBSET Skills
  BY <1>1
<1> QED
  BY <1>1, <1>2, <1>3 DEF CopyOf, Fresh

\* A copy that is current is a copy of something.
FreshExists == \A k \in fresh.config : Exists(k)

\* A status update that is accepted leaves the spec alone, and is announced unless it
\* changes nothing.
StatusWrite(c, v, events) ==
  /\ PutConfig(run[c].key, v, events)
  /\ v.spec = config[run[c].key].spec /\ v.ready = run[c].ready
  /\ events = <<>> => v = config[run[c].key]

LEMMA AcceptedStatus ==
  ASSUME TypeOK, FreshExists, NEW c \in Controllers, UpdateStatus(c), run[c].key \in fresh.config
  PROVE  \E v \in ConfigVal(KindOf(run[c].key)) :
           \E events \in {<<>>, <<Event(run[c].key, v)>>} : StatusWrite(c, v, events)
<1> DEFINE k == run[c].key
           v == [config[k] EXCEPT !.ready = run[c].ready]
           events == IF Replaced(config[k].ready, run[c].ready) THEN <<Event(k, v)>> ELSE <<>>
<1>1. k \in Configs /\ KindOf(k) = c /\ run[c].ready \in Ready
  BY DEF UpdateStatus, TypeOK, ControllersOK, RunVal
<1>2. config[k] \in [spec : SpecsOf(c), ready : Ready]
  BY <1>1 DEF TypeOK, ServerOK, ConfigMap, ConfigVal, FreshExists, Exists
<1>3. v \in ConfigVal(KindOf(k)) /\ v.spec = config[k].spec /\ v.ready = run[c].ready
  BY <1>1, <1>2 DEF ConfigVal
<1>4. config[k].ready = run[c].ready => v = config[k]
  BY <1>2
<1>5. PutConfig(k, v, events)
  BY DEF UpdateStatus
<1>6. events \in {<<>>, <<Event(k, v)>>} /\ (events = <<>> => config[k].ready = run[c].ready)
  BY DEF Replaced
<1> HIDE DEF v, events
<1> QED
  BY <1>3, <1>4, <1>5, <1>6 DEF StatusWrite

LEMMA AcceptedType ==
  ASSUME TypeOK, FreshExists, NEW c \in Controllers, UpdateStatus(c), run[c].key \in fresh.config
  PROVE  config' \in ConfigMap /\ WatchesOK'
<1>1. run[c].key \in Configs
  BY DEF UpdateStatus, TypeOK, ControllersOK
<1> QED
  BY <1>1, AcceptedStatus, PutConfigType DEF StatusWrite

\* The part both controllers share.
LEMMA TypeReady ==
  ASSUME TypeOK, FreshExists,
         \/ \E k \in Configs : ReconcileGone(k)
         \/ \E c \in Controllers : UpdateStatus(c) \/ UpdateStatusFails(c)
  PROVE  TypeOK'
<1> USE DEF TypeOK, ServerOK, CachesOK, ControllersOK
<1>1. ASSUME NEW k \in Configs, ReconcileGone(k) PROVE TypeOK'
  BY <1>1, RunTypes, BeginType DEF ReconcileGone
<1>2. ASSUME NEW c \in Controllers, NEW requeue \in BOOLEAN, Done(run[c].key, requeue),
             run[c].step = "status"
      PROVE  /\ queue' \in SUBSET Configs
             /\ run' \in [Controllers -> RunVal]
             /\ \A d \in Controllers :
                  run'[d].step # "idle" => run'[d].key \in Configs /\ KindOf(run'[d].key) = d
  <2>1. run[c].key \in Configs /\ KindOf(run[c].key) = c
    BY <1>2
  <2>2. run' = [run EXCEPT ![c] = Idle]
    BY <1>2, <2>1 DEF Done
  <2> QED
    BY <1>2, <2>1, <2>2, ValueTypes DEF Done, Idle
<1>3. ASSUME NEW c \in Controllers, UpdateStatus(c) PROVE TypeOK'
  <2> DEFINE k == run[c].key
  <2>1. k \in Configs /\ KindOf(k) = c /\ run[c].step = "status"
    BY <1>3 DEF UpdateStatus
  <2>2. ASSUME k \in fresh.config
        PROVE  config' \in ConfigMap /\ WatchesOK' /\ fresh' \in Fresh
    <3>1. config' \in ConfigMap /\ WatchesOK'
      BY <1>3, <2>1, <2>2, AcceptedType
    <3>2. fresh' = [fresh EXCEPT !.config = @ \ {k}]
      BY <1>3, <2>2 DEF UpdateStatus
    <3> QED
      BY <3>1, <3>2 DEF Fresh
  <2>3. ASSUME k \notin fresh.config
        PROVE  config' \in ConfigMap /\ WatchesOK' /\ fresh' \in Fresh
    <3>1. UNCHANGED <<config, watch, fresh>>
      BY <1>3, <2>3 DEF UpdateStatus
    <3> QED
      BY <3>1 DEF WatchesOK
  <2>4. PICK requeue \in BOOLEAN : Done(k, requeue)
    BY <1>3, Zenon DEF UpdateStatus, Exists
  <2> QED
    BY <1>2, <1>3, <2>1, <2>2, <2>3, <2>4 DEF UpdateStatus
<1>4. ASSUME NEW c \in Controllers, UpdateStatusFails(c) PROVE TypeOK'
  <2>1. errors' \in 0..MaxErrors
    BY <1>4, ConstantsAssumption DEF UpdateStatusFails, CallFails
  <2>2. WatchesOK'
    BY <1>4 DEF UpdateStatusFails, WatchesOK
  <2> QED
    BY <1>2, <1>4, <2>1, <2>2 DEF UpdateStatusFails
<1> QED
  BY <1>1, <1>3, <1>4

LEMMA TypeProfile ==
  ASSUME TypeOK, NEW p \in Profiles, ReconcileProfile(p)
  PROVE  TypeOK'
<1>1. p \in Configs
  BY KindTypes
<1>2. PICK ready \in {"True", "False"} : Begin(p, WriteReady(p, ready))
  BY Zenon DEF ReconcileProfile
<1>3. fresh' \in Fresh
  BY <1>1, CopyOfType DEF ReconcileProfile
<1> QED
  BY <1>1, <1>2, <1>3, RunTypes, BeginType

\* Where the reconciliation of a shared skill goes next.
LEMMA SharedTypes ==
  ASSUME TypeOK, NEW s \in Skills
  PROVE  /\ \A r \in RunVal : r.key = s => RunOf(s, ServiceOf(r))
         /\ Copy(s) # NoConfig => RunOf(s, SharedRun(s))
<1>1. ASSUME NEW r \in RunVal, r.key = s PROVE RunOf(s, ServiceOf(r))
  BY <1>1 DEF RunOf, ServiceOf, RunVal, Ready
<1>2. ASSUME Copy(s) # NoConfig PROVE RunOf(s, SharedRun(s))
  <2> DEFINE image == Copy(s).spec.image
             r == [Idle EXCEPT !.key = s, !.image = image]
  <2>1. image \in Images \cup {None}
    <3>1. Copy(s).spec \in SkillSpecs
      BY <1>2, KindTypes DEF Copy, TypeOK, CachesOK, ConfigMap, ConfigVal, SpecsOf
    <3>2. Copy(s).spec \in SkillSpec
      BY <3>1, ConstantsAssumption
    <3> QED
      BY <3>2 DEF SkillSpec
  <2> HIDE DEF image
  <2>2. r \in RunVal /\ r.key = s
    BY <2>1, KindTypes DEF Idle, RunVal, Ready
  <2>3. SharedRun(s) \in {[r EXCEPT !.step = "createDeployment"],
                         [r EXCEPT !.step = "updateDeployment"], ServiceOf(r)}
    BY DEF SharedRun, image
  <2> HIDE DEF r
  <2>4. RunOf(s, [r EXCEPT !.step = "createDeployment"]) /\ RunOf(s, [r EXCEPT !.step = "updateDeployment"])
    BY <2>2 DEF RunOf, RunVal
  <2> QED
    BY <1>1, <2>2, <2>3, <2>4
<1> QED
  BY <1>1, <1>2

LEMMA TypeSkill ==
  ASSUME TypeOK,
         \/ \E s \in Skills : ReconcileUnshared(s) \/ ReconcilePanics(s) \/ ReconcileShared(s)
         \/ CreateDeployment \/ UpdateDeployment \/ CreateService \/ CallRefused \/ SharedCallFails
  PROVE  TypeOK'
<1>1. ASSUME NEW s \in Skills, ReconcileUnshared(s) PROVE TypeOK'
  <2>1. s \in Configs
    BY KindTypes
  <2>2. PICK ready \in {"True", "False"} : Begin(s, WriteReady(s, ready))
    BY <1>1, Zenon DEF ReconcileUnshared
  <2>3. fresh' \in Fresh
    BY <1>1, <2>1, CopyOfType DEF ReconcileUnshared
  <2> QED
    BY <2>1, <2>2, <2>3, RunTypes, BeginType
<1>2. ASSUME NEW s \in Skills, ReconcilePanics(s) PROVE TypeOK'
  BY <1>2 DEF ReconcilePanics, TypeOK, ServerOK, CachesOK, WatchesOK, ControllersOK
<1>3. ASSUME NEW s \in Skills, ReconcileShared(s) PROVE TypeOK'
  <2>1. s \in Configs
    BY KindTypes
  <2>2. RunOf(s, SharedRun(s)) /\ Begin(s, SharedRun(s))
    BY <1>3, SharedTypes DEF ReconcileShared
  <2>3. fresh' \in Fresh
    <3>1. PICK copy \in Fresh : copy = CopyOf(s)
      BY <2>1, CopyOfType
    <3>2. fresh' = [copy EXCEPT !.deployment = IF Quiet(watch.Deployment, s) THEN @ \cup {s} ELSE @ \ {s}]
      BY <1>3, <3>1 DEF ReconcileShared
    <3> QED
      BY <3>2 DEF Fresh
  <2> QED
    BY <2>1, <2>2, <2>3, BeginType
<1> DEFINE calls == {"createDeployment", "updateDeployment", "createService"}
<1> USE DEF TypeOK, ServerOK, CachesOK, ControllersOK
<1>4. this.step \in calls => this \in RunVal /\ this.key \in Skills /\ this.key \in Configs
      /\ this.image \in Images \cup {None}
  BY KindTypes DEF this, Controllers, RunVal
<1>5. ASSUME NEW s \in Skills, NEW r, RunOf(s, r), Continue(r)
      PROVE  /\ run' \in [Controllers -> RunVal]
             /\ \A c \in Controllers :
                  run'[c].step # "idle" => run'[c].key \in Configs /\ KindOf(run'[c].key) = c
  BY <1>5, KindTypes DEF Continue, RunOf, Controllers
<1>6. ASSUME NEW s \in Skills, DeploymentMoved(s) PROVE fresh' \in Fresh
  BY <1>6 DEF DeploymentMoved, Fresh
<1>7. ASSUME NEW kind \in {"deployment", "service"}, this.key \in Skills, Owned(kind)
      PROVE  orphan' \in [deployment : SUBSET Skills, service : SUBSET Skills]
  BY <1>7 DEF Owned
<1>8. ASSUME CreateDeployment PROVE TypeOK'
  <2>1. this.key \in Skills /\ this.key \in Configs /\ NewDeployment(this.image) \in DeploymentVal
    BY <1>4, <1>8, ValueTypes DEF CreateDeployment
  <2>2. deployment' \in [Skills -> DeploymentVal] /\ WatchesOK'
    BY <1>8, <2>1, PutDeploymentType DEF CreateDeployment
  <2>3. orphan' \in [deployment : SUBSET Skills, service : SUBSET Skills] /\ fresh' \in Fresh
    BY <1>6, <1>7, <1>8, <2>1 DEF CreateDeployment
  <2>4. Continue(WriteReady(this.key, "True")) /\ RunOf(this.key, WriteReady(this.key, "True"))
    BY <1>8, <2>1, RunTypes DEF CreateDeployment, Succeeded
  <2>5. ControllersOK'
    BY <1>5, <1>8, <2>1, <2>3, <2>4 DEF CreateDeployment
  <2> QED
    BY <1>8, <2>2, <2>3, <2>5 DEF CreateDeployment
<1>9. ASSUME UpdateDeployment PROVE TypeOK'
  <2>1. this.key \in Skills /\ NewDeployment(this.image) \in DeploymentVal /\ this \in RunVal
    BY <1>4, <1>9, ValueTypes DEF UpdateDeployment
  <2>2. deployment' \in [Skills -> DeploymentVal] /\ WatchesOK'
    BY <1>9, <2>1, PutDeploymentType DEF UpdateDeployment
  <2>3. fresh' \in Fresh
    BY <1>6, <1>9, <2>1 DEF UpdateDeployment
  <2>4. Continue(ServiceOf(this)) /\ RunOf(this.key, ServiceOf(this))
    BY <1>9, <2>1, SharedTypes DEF UpdateDeployment
  <2>5. ControllersOK'
    BY <1>5, <1>9, <2>1, <2>3, <2>4 DEF UpdateDeployment
  <2> QED
    BY <1>9, <2>2, <2>5 DEF UpdateDeployment
<1>10. ASSUME CreateService PROVE TypeOK'
  <2>1. this.key \in Skills /\ this.key \in Configs
    BY <1>4, <1>10 DEF CreateService
  <2>2. service' \in SUBSET Skills /\ WatchesOK'
    BY <1>10, <2>1, PutServiceType DEF CreateService
  <2>3. orphan' \in [deployment : SUBSET Skills, service : SUBSET Skills]
    BY <1>7, <1>10, <2>1 DEF CreateService
  <2>4. Continue(WriteReady(this.key, "True")) /\ RunOf(this.key, WriteReady(this.key, "True"))
    BY <1>10, <2>1, RunTypes DEF CreateService, Succeeded
  <2>5. ControllersOK'
    BY <1>5, <1>10, <2>1, <2>4 DEF CreateService
  <2> QED
    BY <1>10, <2>2, <2>3, <2>5 DEF CreateService
<1>11. ASSUME CallRefused \/ SharedCallFails PROVE TypeOK'
  <2>1. this.key \in Skills /\ this.key \in Configs
    BY <1>4, <1>11 DEF CallRefused, SharedCallFails
  <2>2. Continue(WriteReady(this.key, "False")) /\ RunOf(this.key, WriteReady(this.key, "False"))
    BY <1>11, <2>1, RunTypes DEF CallRefused, SharedCallFails
  <2>3. ControllersOK'
    BY <1>5, <1>11, <2>1, <2>2 DEF CallRefused, SharedCallFails
  <2>4. errors' \in 0..MaxErrors
    BY <1>11, ConstantsAssumption DEF CallRefused, SharedCallFails, CallFails
  <2> QED
    BY <1>11, <2>3, <2>4 DEF CallRefused, SharedCallFails, WatchesOK
<1> QED
  BY <1>1, <1>2, <1>3, <1>8, <1>9, <1>10, <1>11

LEMMA TypeNext == TypeOK /\ FreshExists /\ [Next]_vars => TypeOK'
<1> SUFFICES ASSUME TypeOK, FreshExists, [Next]_vars PROVE TypeOK'
  OBVIOUS
<1>1. CASE UNCHANGED vars
  BY <1>1 DEF TypeOK, ServerOK, CachesOK, WatchesOK, ControllersOK
<1>2. CASE Operator
  BY <1>2, TypeReady, TypeProfile, TypeSkill, KindTypes
     DEF Operator, SkillReconcile, SkillStep, ProfileReconcile, ProfileStep, Controllers
<1> QED
  BY <1>1, <1>2, TypeOutside, TypeDeliver DEF Next

-----------------------------------------------------------------------------
(* Current copies.  The reconcilers validate cached copies; a verdict that   *)
(* the API server accepts is about the stored spec because a copy that is    *)
(* still at the stored resourceVersion is the stored object.                 *)

InStep == \A c \in Controllers : Coherent(KeysOf(c), config, cache.config, watch[c])

\* A reconciliation that may still declare the stored object Ready.
MayDeclareReady(c) ==
  /\ run[c].step # "idle" /\ run[c].key \in fresh.config
  /\ run[c].step = "status" => run[c].ready = "True"

CopyValid == \A c \in Controllers : MayDeclareReady(c) => Valid(run[c].key)

IInv == TypeOK /\ InStep /\ FreshExists /\ CopyValid

\* Every step leaves skills and profiles alone, delivers, restarts, or writes one.
ConfigWrite(k, v, events) ==
  PutConfig(k, v, events) /\ cache' = cache /\ (events = <<>> => v = config[k])

LEMMA ConfigMoves ==
  ASSUME TypeOK, FreshExists, [Next]_vars
  PROVE  \/ config' = config /\ cache'.config = cache.config
            /\ \A c \in Controllers : watch'[c] = watch[c]
         \/ \E c \in Controllers : DeliverConfig(c)
         \/ Crash
         \/ \E k \in Configs : \E v \in ConfigVal(KindOf(k)) :
              \E events \in {<<>>, <<Event(k, v)>>} : ConfigWrite(k, v, events)
<1> DEFINE Untouched == config' = config /\ cache'.config = cache.config
                        /\ \A c \in Controllers : watch'[c] = watch[c]
           Written == \E k \in Configs : \E v \in ConfigVal(KindOf(k)) :
                        \E events \in {<<>>, <<Event(k, v)>>} : ConfigWrite(k, v, events)
<1>1. ASSUME NEW k \in Configs, NEW v \in ConfigVal(KindOf(k)), UserWrites(k, v), cache' = cache
      PROVE  Written
  <2>1. PutConfig(k, v, <<Event(k, v)>>) /\ <<Event(k, v)>> # <<>>
    BY <1>1 DEF UserWrites
  <2> QED
    BY <1>1, <2>1 DEF ConfigWrite
<1>2. ASSUME NEW k \in Configs, CreateConfig(k) \/ EditConfig(k) \/ DeleteConfig(k)
      PROVE  Written
  <2>1. CASE CreateConfig(k)
    <3> PICK spec \in SpecsOf(KindOf(k)) : UserWrites(k, NewConfig(spec))
      BY <2>1 DEF CreateConfig
    <3>1. NewConfig(spec) \in ConfigVal(KindOf(k)) /\ cache' = cache
      BY <2>1, ValueTypes, KindTypes DEF CreateConfig
    <3> QED
      BY <1>1, <3>1
  <2>2. CASE EditConfig(k)
    <3> PICK spec \in SpecsOf(KindOf(k)) : UserWrites(k, [config[k] EXCEPT !.spec = spec])
      BY <2>2 DEF EditConfig
    <3>1. [config[k] EXCEPT !.spec = spec] \in ConfigVal(KindOf(k)) /\ cache' = cache
      BY <2>2 DEF TypeOK, ServerOK, ConfigMap, ConfigVal, EditConfig, Exists
    <3> QED
      BY <1>1, <3>1
  <2>3. CASE DeleteConfig(k)
    <3>1. NoConfig \in ConfigVal(KindOf(k)) /\ cache' = cache /\ UserWrites(k, NoConfig)
      BY <2>3, ValueTypes, KindTypes DEF DeleteConfig
    <3> QED
      BY <1>1, <3>1
  <2> QED
    BY <1>2, <2>1, <2>2, <2>3
<1>3. ASSUME NEW kind \in {"Deployment", "Service"}, NEW events, Sees(kind, events),
             config' = config, cache' = cache
      PROVE  Untouched
  BY <1>3 DEF Sees, TypeOK, WatchesOK, Controllers, Kinds
<1>4. ASSUME NEW s \in Skills,
             TamperDeployment(s) \/ TamperService(s) \/ RollOut(s)
               \/ CollectDeployment(s) \/ CollectService(s)
      PROVE  Untouched
  <2>1. \E kind \in {"Deployment", "Service"} : \E events : Sees(kind, events)
    BY <1>4 DEF TamperDeployment, TamperService, RollOut, CollectDeployment, CollectService,
                PutDeployment, PutService
  <2> QED
    BY <1>3, <1>4, <2>1 DEF TamperDeployment, TamperService, RollOut, CollectDeployment,
                            CollectService
<1>5. ASSUME CreateDeployment \/ UpdateDeployment \/ CreateService PROVE Untouched
  <2>1. \E kind \in {"Deployment", "Service"} : \E events : Sees(kind, events)
    BY <1>5 DEF CreateDeployment, UpdateDeployment, CreateService, PutDeployment, PutService
  <2> QED
    BY <1>3, <1>5, <2>1 DEF CreateDeployment, UpdateDeployment, CreateService
<1>6. ASSUME DeliverDeployment \/ DeliverService PROVE Untouched
  <2>1. config' = config /\ cache'.config = cache.config
    BY <1>6 DEF DeliverDeployment, DeliverService, Take, TypeOK, CachesOK
  <2>2. \A c \in Controllers : watch'[c] = watch[c]
    BY <1>6 DEF DeliverDeployment, DeliverService, Take, TypeOK, WatchesOK, Controllers, Kinds
  <2> QED
    BY <2>1, <2>2
<1>7. ASSUME NEW c \in Controllers, UpdateStatus(c) PROVE Untouched \/ Written
  <2>1. CASE run[c].key \in fresh.config
    <3>1. PICK v \in ConfigVal(KindOf(run[c].key)) :
            \E events \in {<<>>, <<Event(run[c].key, v)>>} : StatusWrite(c, v, events)
      BY <1>7, <2>1, AcceptedStatus
    <3>2. run[c].key \in Configs /\ cache' = cache
      BY <1>7 DEF UpdateStatus, TypeOK, ControllersOK
    <3> QED
      BY <3>1, <3>2 DEF StatusWrite, ConfigWrite
  <2>2. CASE run[c].key \notin fresh.config
    BY <1>7, <2>2 DEF UpdateStatus
  <2> QED
    BY <2>1, <2>2
<1>8. ASSUME NEW k \in Configs,
             ReconcileGone(k) \/ ReconcileUnshared(k) \/ ReconcilePanics(k) \/ ReconcileShared(k)
               \/ ReconcileProfile(k)
      PROVE  Untouched
  BY <1>8 DEF ReconcileGone, ReconcileUnshared, ReconcilePanics, ReconcileShared,
              ReconcileProfile, Begin
<1>9. ASSUME CallRefused \/ SharedCallFails \/ \E c \in Controllers : UpdateStatusFails(c)
      PROVE  Untouched
  BY <1>9 DEF CallRefused, SharedCallFails, UpdateStatusFails
<1> HIDE DEF Written
<1>10. ASSUME Operator PROVE Untouched \/ Written
  <2> HIDE DEF Untouched
  <2> QED
    BY <1>5, <1>7, <1>8, <1>9, <1>10, KindTypes
    DEF Operator, SkillReconcile, SkillStep, ProfileReconcile, ProfileStep, Controllers
<1>11. CASE UNCHANGED vars
  BY <1>11
<1> QED
  BY <1>2, <1>4, <1>6, <1>10, <1>11 DEF Next, Outside, Deliver, Written

LEMMA InStepNext ==
  ASSUME TypeOK, FreshExists, InStep, [Next]_vars
  PROVE  InStep'
<1> SUFFICES ASSUME NEW c \in Controllers
             PROVE  Coherent(KeysOf(c), config', cache'.config, watch'[c])
  BY DEF InStep
<1> DEFINE S == [key : KeysOf(c), val : ConfigVal(c)]
<1>0. /\ watch[c] \in Seq(S) /\ Coherent(KeysOf(c), config, cache.config, watch[c])
      /\ KeysOf(c) \subseteq DOMAIN config /\ KeysOf(c) \subseteq DOMAIN cache.config
  BY DEF InStep, TypeOK, WatchesOK, ServerOK, CachesOK, ConfigMap, KeysOf
<1>0a. \A n \in DOMAIN watch[c] : watch[c][n].key \in KeysOf(c)
  BY <1>0, EventKeys
<1>1. CASE config' = config /\ cache'.config = cache.config /\ watch'[c] = watch[c]
  BY <1>0, <1>1
<1>2. ASSUME NEW kind \in Controllers, DeliverConfig(kind)
      PROVE  Coherent(KeysOf(c), config', cache'.config, watch'[c])
  <2>1. /\ config' = config /\ watch[kind] # <<>>
        /\ cache'.config = Apply(cache.config, Head(watch[kind]))
        /\ watch' = [watch EXCEPT ![kind] = Tail(watch[kind])]
    BY <1>2 DEF DeliverConfig, Take, TypeOK, CachesOK
  <2>2. CASE kind = c
    <3>1. watch'[c] = Tail(watch[c])
      BY <2>1, <2>2, KindTypes DEF TypeOK, WatchesOK
    <3> QED
      BY <1>0, <2>1, <2>2, <3>1, DeliverCoherent
  <2>3. CASE kind # c
    <3>1. Head(watch[kind]).key \in KeysOf(kind)
      <4>1. watch[kind] \in Seq([key : KeysOf(kind), val : ConfigVal(kind)])
        BY DEF TypeOK, WatchesOK
      <4>2. Head(watch[kind]) \in [key : KeysOf(kind), val : ConfigVal(kind)]
        BY <2>1, <4>1, HeadTailProperties
      <4> QED
        BY <4>2
    <3>2. \A k \in KeysOf(c) : cache'.config[k] = cache.config[k]
      BY <1>0, <2>1, <2>3, <3>1 DEF Apply, KeysOf
    <3>3. watch'[c] = watch[c]
      BY <2>1, <2>3, KindTypes DEF TypeOK, WatchesOK
    <3>4. \A k \in KeysOf(c) : config'[k] = config[k] /\ cache'.config[k] = cache.config[k]
      BY <2>1, <3>2
    <3>5. Coherent(KeysOf(c), config', cache'.config, watch[c])
      BY <1>0, <1>0a, <3>4 DEF Coherent
    <3> QED
      BY <3>3, <3>5
  <2> QED
    BY <2>2, <2>3
<1>3. CASE Crash
  <2>1. cache'.config = config /\ config' = config /\ watch'[c] = <<>>
    BY <1>3, KindTypes DEF Crash, Listing
  <2> QED
    BY <2>1, ListCoherent
<1>4. ASSUME NEW k \in Configs, NEW v \in ConfigVal(KindOf(k)),
             NEW events \in {<<>>, <<Event(k, v)>>}, ConfigWrite(k, v, events)
      PROVE  Coherent(KeysOf(c), config', cache'.config, watch'[c])
  <2>1. /\ config' = [config EXCEPT ![k] = v] /\ cache' = cache
        /\ watch' = [watch EXCEPT ![KindOf(k)] = watch[KindOf(k)] \o events]
    BY <1>4 DEF ConfigWrite, PutConfig, Sees
  <2>2. CASE KindOf(k) = c /\ events = <<Event(k, v)>>
    <3>1. k \in KeysOf(c) /\ v \in ConfigVal(c) /\ Event(k, v) \in S
      BY <2>2, KindTypes DEF Event
    <3>2. watch'[c] = watch[c] \o events
      BY <2>1, <2>2, KindTypes DEF TypeOK, WatchesOK
    <3> HIDE DEF S
    <3>3. watch'[c] = Append(watch[c], Event(k, v))
      BY <1>0, <2>2, <3>1, <3>2, AppendIsConcat
    <3> USE DEF S
    <3>4. Coherent(KeysOf(c), [config EXCEPT ![k] = v], cache.config, Append(watch[c], Event(k, v)))
      BY <1>0, <3>1, WriteCoherent
    <3> QED
      BY <2>1, <3>3, <3>4
  <2>3. CASE KindOf(k) # c \/ events = <<>>
    <3> HIDE DEF S
    <3>1. watch'[c] = watch[c]
      <4>1. watch[c] \o <<>> = watch[c]
        BY <1>0, ConcatEmptySeq
      <4> QED
        BY <2>1, <2>3, <4>1, KindTypes DEF TypeOK, WatchesOK
    <3>2. \A j \in KeysOf(c) : config'[j] = config[j] /\ cache'.config[j] = cache.config[j]
      BY <1>0, <1>4, <2>1, <2>3 DEF ConfigWrite, KeysOf
    <3>3. Coherent(KeysOf(c), config', cache'.config, watch[c])
      BY <1>0, <1>0a, <3>2 DEF Coherent
    <3> QED
      BY <3>1, <3>3
  <2> QED
    BY <2>2, <2>3
<1> QED
  BY <1>1, <1>2, <1>3, <1>4, ConfigMoves

\* A copy that is current is the stored object.
LEMMA CurrentCopy ==
  ASSUME TypeOK, InStep, NEW k \in Configs, k \in CopyOf(k).config, Copy(k) # NoConfig
  PROVE  Exists(k) /\ config[k] = Copy(k)
<1>1. Quiet(watch[KindOf(k)], k)
  BY DEF CopyOf, TypeOK, ControllersOK, Fresh
<1>2. cache.config[k] = config[k]
  BY <1>1, KindTypes DEF InStep, Coherent
<1> QED
  BY <1>2 DEF Copy, Exists

\* A change of k leaves no copy of it current; verdicts on other objects stand.
LEMMA MovedOn ==
  ASSUME TypeOK, FreshExists, CopyValid, NEW k \in Configs, NEW v, NEW events,
         PutConfig(k, v, events), fresh'.config \subseteq fresh.config, k \notin fresh'.config,
         \A c \in Controllers : run'[c] = run[c] \/ run'[c].step = "idle"
  PROVE  FreshExists' /\ CopyValid'
<1>1. \A j \in fresh'.config : config'[j] = config[j]
  BY DEF PutConfig, TypeOK, ServerOK, ConfigMap, ControllersOK, Fresh
<1>2. FreshExists'
  BY <1>1 DEF FreshExists, Exists
<1>3. \A c \in Controllers : MayDeclareReady(c)' => MayDeclareReady(c) /\ run'[c] = run[c]
  BY DEF MayDeclareReady
<1>4. \A j \in fresh'.config : Valid(j)' <=> Valid(j)
  BY <1>1 DEF Valid, ValidSkill, ValidProfile
<1> QED
  BY <1>2, <1>3, <1>4 DEF CopyValid, MayDeclareReady

\* So do all of them if nothing is written.
LEMMA StayedPut ==
  ASSUME TypeOK, FreshExists, CopyValid, config' = config, fresh'.config \subseteq fresh.config,
         \A c \in Controllers :
           run'[c] = run[c] \/ ~MayDeclareReady(c)'
             \/ (run[c].step \notin {"idle", "status"} /\ run'[c].key = run[c].key)
  PROVE  FreshExists' /\ CopyValid'
<1>1. FreshExists'
  BY DEF FreshExists, Exists
<1>2. \A c \in Controllers : MayDeclareReady(c)' => MayDeclareReady(c) /\ run'[c].key = run[c].key
  BY DEF MayDeclareReady
<1>3. \A j : Valid(j)' <=> Valid(j)
  BY DEF Valid, ValidSkill, ValidProfile
<1> QED
  BY <1>1, <1>2, <1>3 DEF CopyValid

\* A reconciliation begins with a verdict on its copy.
LEMMA BegunValid ==
  ASSUME TypeOK, InStep, FreshExists, CopyValid, NEW k \in Configs, NEW r, Begin(k, r),
         Copy(k) # NoConfig, fresh'.config = CopyOf(k).config, r.key = k,
         \/ r.step = "status" /\ r.ready # "True"
         \/ IF k \in Skills THEN ValidSkill(Copy(k).spec) ELSE ValidProfile(Copy(k).spec)
  PROVE  FreshExists' /\ CopyValid'
<1>1. config' = config /\ run' = [run EXCEPT ![KindOf(k)] = r]
  BY DEF Begin
<1>2. \A j : Valid(j)' <=> Valid(j)
  BY <1>1 DEF Valid, ValidSkill, ValidProfile
<1>3. \A j \in fresh'.config : j = k \/ j \in fresh.config
  BY DEF CopyOf, TypeOK, ControllersOK, Fresh
<1>4. FreshExists'
  BY <1>1, <1>3, CurrentCopy DEF FreshExists, Exists
<1>5. ASSUME NEW c \in Controllers, MayDeclareReady(c)' PROVE Valid(run'[c].key)
  <2>1. CASE c = KindOf(k)
    <3>1. run'[c] = r
      BY <1>1, <2>1 DEF TypeOK, ControllersOK
    <3>2. k \in CopyOf(k).config
      BY <1>5, <3>1 DEF MayDeclareReady
    <3>3. Valid(k)
      BY <1>5, <3>1, <3>2, CurrentCopy DEF MayDeclareReady, Valid
    <3> QED
      BY <3>1, <3>3
  <2>2. CASE c # KindOf(k)
    <3>1. run'[c] = run[c]
      BY <1>1, <2>2 DEF TypeOK, ControllersOK
    <3>2. run[c].key # k
      BY <1>5, <2>2, <3>1 DEF MayDeclareReady, TypeOK, ControllersOK
    <3>3. MayDeclareReady(c)
      BY <1>3, <1>5, <3>1, <3>2 DEF MayDeclareReady
    <3> QED
      BY <3>1, <3>3 DEF CopyValid
  <2> QED
    BY <2>1, <2>2
<1> QED
  BY <1>2, <1>4, <1>5 DEF CopyValid

LEMMA CopiesNext ==
  ASSUME IInv, [Next]_vars
  PROVE  FreshExists' /\ CopyValid'
<1> USE DEF IInv
<1>1. ASSUME NEW k \in Configs, CreateConfig(k) \/ EditConfig(k) \/ DeleteConfig(k)
      PROVE  FreshExists' /\ CopyValid'
  <2>1. PICK v, events : PutConfig(k, v, events)
    BY <1>1 DEF CreateConfig, EditConfig, DeleteConfig, UserWrites
  <2>2. fresh'.config \subseteq fresh.config /\ k \notin fresh'.config
    BY <1>1 DEF CreateConfig, EditConfig, DeleteConfig, FreshExists, TypeOK, ControllersOK, Fresh
  <2>3. run' = run
    BY <1>1 DEF CreateConfig, EditConfig, DeleteConfig
  <2> QED
    BY <2>1, <2>2, <2>3, MovedOn
<1>2. ASSUME config' = config, fresh'.config = fresh.config, run' = run
      PROVE  FreshExists' /\ CopyValid'
  BY <1>2, StayedPut
<1>3. ASSUME NEW s \in Skills,
             TamperDeployment(s) \/ TamperService(s) \/ RollOut(s)
               \/ CollectDeployment(s) \/ CollectService(s)
      PROVE  FreshExists' /\ CopyValid'
  <2>1. config' = config /\ run' = run
    BY <1>3 DEF TamperDeployment, TamperService, RollOut, CollectDeployment, CollectService
  <2>2. fresh'.config = fresh.config
    BY <1>3 DEF TamperDeployment, TamperService, RollOut, CollectDeployment, CollectService,
                DeploymentMoved, TypeOK, ControllersOK, Fresh
  <2> QED
    BY <1>2, <2>1, <2>2
<1>4. ASSUME Deliver PROVE FreshExists' /\ CopyValid'
  BY <1>2, <1>4 DEF Deliver, DeliverConfig, DeliverDeployment, DeliverService, Take
<1>5. ASSUME Crash PROVE FreshExists' /\ CopyValid'
  <2>1. config' = config /\ fresh'.config \subseteq fresh.config
    BY <1>5 DEF Crash, NoFresh
  <2>2. \A c \in Controllers : ~MayDeclareReady(c)'
    BY <1>5 DEF Crash, MayDeclareReady, Idle
  <2> QED
    BY <2>1, <2>2, StayedPut
<1>6. ASSUME NEW k \in Configs, ReconcileGone(k) PROVE FreshExists' /\ CopyValid'
  <2>1. config' = config /\ fresh' = fresh /\ run' = run
    BY <1>6 DEF ReconcileGone, Begin, TypeOK, ControllersOK
  <2> QED
    BY <1>2, <2>1
<1>7. ASSUME NEW s \in Skills, ReconcileUnshared(s) PROVE FreshExists' /\ CopyValid'
  <2> DEFINE ready == IF ValidSkill(Copy(s).spec) THEN "True" ELSE "False"
             r == WriteReady(s, ready)
  <2>1. r.key = s /\ r.step = "status" /\ r.ready = ready
    BY DEF WriteReady, Idle
  <2>2. Begin(s, r) /\ Copy(s) # NoConfig /\ fresh'.config = CopyOf(s).config
    BY <1>7 DEF ReconcileUnshared
  <2> HIDE DEF r
  <2> QED
    BY <2>1, <2>2, BegunValid, KindTypes
<1>8. ASSUME NEW p \in Profiles, ReconcileProfile(p) PROVE FreshExists' /\ CopyValid'
  <2> DEFINE ready == IF ValidProfile(Copy(p).spec) THEN "True" ELSE "False"
             r == WriteReady(p, ready)
  <2>1. r.key = p /\ r.step = "status" /\ r.ready = ready
    BY DEF WriteReady, Idle
  <2>2. Begin(p, r) /\ Copy(p) # NoConfig /\ fresh'.config = CopyOf(p).config
    BY <1>8 DEF ReconcileProfile
  <2>3. p \in Configs /\ p \notin Skills
    BY ConstantsAssumption DEF Configs
  <2> HIDE DEF r
  <2> QED
    BY <2>1, <2>2, <2>3, BegunValid
<1>9. ASSUME NEW s \in Skills, ReconcileShared(s) PROVE FreshExists' /\ CopyValid'
  <2>1. SharedRun(s).key = s
    BY DEF SharedRun, ServiceOf, Idle
  <2>2. Begin(s, SharedRun(s)) /\ Copy(s) # NoConfig /\ ValidSkill(Copy(s).spec)
    BY <1>9 DEF ReconcileShared, IsShared
  <2>3. fresh'.config = CopyOf(s).config
    <3>1. s \in Configs
      BY KindTypes
    <3>2. PICK copy \in Fresh : copy = CopyOf(s)
      BY <3>1, CopyOfType
    <3>3. \E S : fresh' = [copy EXCEPT !.deployment = S]
      BY <1>9, <3>2 DEF ReconcileShared
    <3> QED
      BY <3>2, <3>3 DEF Fresh
  <2> QED
    BY <2>1, <2>2, <2>3, BegunValid, KindTypes
<1>10. ASSUME CreateDeployment \/ UpdateDeployment \/ CreateService \/ CallRefused \/ SharedCallFails
       PROVE  FreshExists' /\ CopyValid'
  <2>1. config' = config /\ fresh'.config = fresh.config
    BY <1>10 DEF CreateDeployment, UpdateDeployment, CreateService, CallRefused, SharedCallFails,
                 DeploymentMoved, TypeOK, ControllersOK, Fresh
  <2>2. this.step \in {"createDeployment", "updateDeployment", "createService"}
    BY <1>10 DEF CreateDeployment, UpdateDeployment, CreateService, CallRefused, SharedCallFails
  <2>3. PICK r : Continue(r) /\ r.key = this.key
    <3>1. this \in RunVal
      BY DEF this, TypeOK, ControllersOK, Controllers
    <3>2. ServiceOf(this).key = this.key
      BY <3>1 DEF ServiceOf, RunVal
    <3>3. \A ready : WriteReady(this.key, ready).key = this.key
      BY DEF WriteReady, Idle
    <3> QED
      BY <1>10, <3>2, <3>3 DEF CreateDeployment, UpdateDeployment, CreateService, CallRefused,
                               SharedCallFails, Succeeded
  <2>4. \A c \in Controllers :
          run'[c] = run[c] \/ (run[c].step \notin {"idle", "status"} /\ run'[c].key = run[c].key)
    BY <2>2, <2>3 DEF Continue, this, TypeOK, ControllersOK, Controllers
  <2> QED
    BY <2>1, <2>4, StayedPut
<1>11. ASSUME NEW c \in Controllers, UpdateStatus(c) \/ UpdateStatusFails(c)
       PROVE  FreshExists' /\ CopyValid'
  <2> DEFINE k == run[c].key
  <2>1. k \in Configs /\ KindOf(k) = c
    BY <1>11 DEF UpdateStatus, UpdateStatusFails, TypeOK, ControllersOK
  <2>2. run' = [run EXCEPT ![c] = Idle]
    BY <1>11, <2>1 DEF UpdateStatus, UpdateStatusFails, Done
  <2>3. \A d \in Controllers : run'[d] = run[d] \/ run'[d].step = "idle"
    BY <2>2 DEF Idle, TypeOK, ControllersOK
  <2>4. CASE UpdateStatus(c) /\ k \in fresh.config
    <3>1. PICK v, events : PutConfig(k, v, events)
      BY <2>4 DEF UpdateStatus
    <3>2. fresh'.config \subseteq fresh.config /\ k \notin fresh'.config
      BY <2>4 DEF UpdateStatus, TypeOK, ControllersOK, Fresh
    <3> QED
      BY <2>1, <2>3, <3>1, <3>2, MovedOn
  <2>5. CASE config' = config /\ fresh' = fresh
    BY <2>3, <2>5, StayedPut DEF MayDeclareReady
  <2> QED
    BY <1>11, <2>4, <2>5 DEF UpdateStatus, UpdateStatusFails
<1>12. ASSUME UNCHANGED vars PROVE FreshExists' /\ CopyValid'
  BY <1>2, <1>12
<1>13. ASSUME Operator PROVE FreshExists' /\ CopyValid'
  BY <1>6, <1>7, <1>8, <1>9, <1>10, <1>11, <1>12, <1>13, KindTypes
     DEF Operator, SkillReconcile, SkillStep, ProfileReconcile, ProfileStep, Controllers,
         ReconcilePanics
<1> QED
  BY <1>1, <1>3, <1>4, <1>5, <1>12, <1>13 DEF Next, Outside

\* What an accepted status update stores.
LEMMA StatusWriteValue ==
  ASSUME TypeOK, FreshExists, NEW c \in Controllers, UpdateStatus(c), run[c].key \in fresh.config
  PROVE  /\ config'[run[c].key].spec = config[run[c].key].spec
         /\ config'[run[c].key].ready = run[c].ready
         /\ \A k \in Configs \ {run[c].key} : config'[k] = config[k]
<1>1. PICK v, events : StatusWrite(c, v, events)
  BY AcceptedStatus
<1>2. run[c].key \in DOMAIN config
  BY DEF UpdateStatus, TypeOK, ControllersOK, ServerOK, ConfigMap
<1> QED
  BY <1>1, <1>2 DEF StatusWrite, PutConfig, TypeOK, ServerOK, ConfigMap

\* Nothing but a status update makes an object Ready.
LEMMA OnlyStatusWrites ==
  ASSUME TypeOK, FreshExists, Next, NEW k \in Configs,
         config'[k].ready = "True", config[k].ready # "True"
  PROVE  \E c \in Controllers : UpdateStatus(c) /\ run[c].key = k /\ k \in fresh.config
                              /\ run[c].ready = "True"
<1>1. ASSUME NEW j \in Configs, CreateConfig(j) \/ EditConfig(j) \/ DeleteConfig(j)
      PROVE  FALSE
  <2>1. PICK v : PutConfig(j, v, <<Event(j, v)>>) /\ v.ready \in {"unset", config[j].ready}
    <3>1. CASE CreateConfig(j)
      BY <3>1 DEF CreateConfig, UserWrites, NewConfig
    <3>2. CASE EditConfig(j)
      <4> PICK spec : UserWrites(j, [config[j] EXCEPT !.spec = spec])
        BY <3>2 DEF EditConfig
      <4>1. [config[j] EXCEPT !.spec = spec].ready = config[j].ready
        BY <3>2 DEF TypeOK, ServerOK, ConfigMap, ConfigVal, EditConfig, Exists
      <4> QED
        BY <4>1 DEF UserWrites
    <3>3. CASE DeleteConfig(j)
      BY <3>3 DEF DeleteConfig, UserWrites, NoConfig
    <3> QED
      BY <1>1, <3>1, <3>2, <3>3
  <2> QED
    BY <2>1 DEF PutConfig, TypeOK, ServerOK, ConfigMap
<1>2. ASSUME NEW c \in Controllers, UpdateStatus(c)
      PROVE  run[c].key = k /\ k \in fresh.config /\ run[c].ready = "True"
  <2>1. run[c].key \in fresh.config
    BY <1>2 DEF UpdateStatus
  <2> QED
    BY <1>2, <2>1, StatusWriteValue
<1>3. ASSUME NEW s \in Skills,
             TamperDeployment(s) \/ TamperService(s) \/ RollOut(s)
               \/ CollectDeployment(s) \/ CollectService(s)
      PROVE  FALSE
  BY <1>3 DEF TamperDeployment, TamperService, RollOut, CollectDeployment, CollectService
<1>4. ASSUME Deliver \/ Crash PROVE FALSE
  BY <1>4 DEF Deliver, DeliverConfig, DeliverDeployment, DeliverService, Take, Crash
<1>5. ASSUME NEW j \in Configs,
             ReconcileGone(j) \/ ReconcileUnshared(j) \/ ReconcilePanics(j) \/ ReconcileShared(j)
               \/ ReconcileProfile(j)
      PROVE  FALSE
  BY <1>5 DEF ReconcileGone, ReconcileUnshared, ReconcilePanics, ReconcileShared,
              ReconcileProfile, Begin
<1>6. ASSUME CreateDeployment \/ UpdateDeployment \/ CreateService \/ CallRefused
               \/ SharedCallFails \/ \E c \in Controllers : UpdateStatusFails(c)
      PROVE  FALSE
  BY <1>6 DEF CreateDeployment, UpdateDeployment, CreateService, CallRefused, SharedCallFails,
              UpdateStatusFails
<1>7. CASE Operator
  BY <1>2, <1>5, <1>6, <1>7, KindTypes
     DEF Operator, SkillReconcile, SkillStep, ProfileReconcile, ProfileStep, Controllers
<1> QED
  BY <1>1, <1>3, <1>4, <1>7 DEF Next, Outside

LEMMA InvInit == Init => IInv
<1> SUFFICES ASSUME Init PROVE IInv
  OBVIOUS
<1>1. InStep
  <2> SUFFICES ASSUME NEW c \in Controllers
               PROVE  Coherent(KeysOf(c), config, cache.config, watch[c])
    BY DEF InStep
  <2>1. cache.config = config /\ watch[c] = <<>>
    BY KindTypes DEF Init, ClusterInit, Listing
  <2> QED
    BY <2>1, ListCoherent
<1>2. FreshExists /\ CopyValid
  BY DEF Init, ClusterInit, FreshExists, NoFresh, CopyValid, MayDeclareReady
<1> QED
  BY <1>1, <1>2, TypeInit DEF IInv

\* In every reachable state the caches of skills and profiles agree with the API server
\* but for the events under way, and a reconciliation that may still declare the stored
\* object Ready has found it valid (SkillReconciler and AgentProfileReconciler.Reconcile).
THEOREM Inductive == Spec => []IInv
<1>1. IInv /\ [Next]_vars => IInv'
  BY TypeNext, InStepNext, CopiesNext DEF IInv
<1> QED
  BY <1>1, InvInit, PTL DEF Spec

\* Every reachable state is well formed (TypeOK), for any skills, profiles and bounds.
THEOREM TypeCorrect == Spec => []TypeOK
<1>1. IInv => TypeOK
  BY DEF IInv
<1> QED
  BY <1>1, Inductive, PTL

\* Only a valid spec is ever declared Ready, however far the caches lag and whoever
\* edits the spec meanwhile (validate and the status update of both reconcilers).
THEOREM ReadyIsSound == Spec => ReadyIsForThisSpec
<1> DEFINE Sound == \A k \in Configs :
       config'[k].ready = "True" /\ config[k].ready # "True" => Valid(k) /\ Valid(k)'
<1>1. ASSUME IInv, Next PROVE Sound
  <2> SUFFICES ASSUME NEW k \in Configs, config'[k].ready = "True", config[k].ready # "True"
               PROVE  Valid(k) /\ Valid(k)'
    OBVIOUS
  <2>1. PICK c \in Controllers : UpdateStatus(c) /\ run[c].key = k /\ k \in fresh.config
                              /\ run[c].ready = "True"
    BY <1>1, OnlyStatusWrites DEF IInv
  <2>2. Valid(k)
    BY <1>1, <2>1 DEF IInv, CopyValid, MayDeclareReady, UpdateStatus
  <2>3. config'[k].spec = config[k].spec
    BY <1>1, <2>1, StatusWriteValue DEF IInv
  <2> QED
    BY <2>2, <2>3 DEF Valid
<1>2. ASSUME UNCHANGED vars PROVE Sound
  BY <1>2
<1>3. IInv /\ [Next]_vars => Sound
  BY <1>1, <1>2
<1> QED
  BY <1>3, Inductive, PTL DEF Spec, ReadyIsForThisSpec

-----------------------------------------------------------------------------
(* Deployments and Services: the caches of both are coherent too, and what   *)
(* a skill that is gone has left belongs to the garbage collector.           *)

StoredServices == [s \in Skills |-> s \in service]
CachedServices == [s \in Skills |-> s \in cache.service]

OwnedInStep ==
  /\ Coherent(Skills, deployment, cache.deployment, watch["Deployment"])
  /\ Coherent(Skills, StoredServices, CachedServices, watch["Service"])

\* Every step leaves the Deployments alone, delivers, restarts or writes one, after which
\* no copy of it is current; and the same of Services.
DeploymentsStill == /\ deployment' = deployment /\ cache'.deployment = cache.deployment
                    /\ watch'["Deployment"] = watch["Deployment"]
ServicesStill    == /\ service' = service /\ cache'.service = cache.service
                    /\ watch'["Service"] = watch["Service"]
DeploymentWritten ==
  \E s \in Skills, v \in DeploymentVal :
    PutDeployment(s, v) /\ cache' = cache /\ fresh'.deployment = fresh.deployment \ {s}
ServiceWritten ==
  \E s \in Skills, exists \in BOOLEAN : PutService(s, exists) /\ cache' = cache

OwnedMoves ==
  \/ (DeploymentsStill \/ DeploymentWritten \/ DeliverDeployment) /\ ServicesStill
  \/ (ServiceWritten \/ DeliverService) /\ DeploymentsStill
  \/ Crash

LEMMA OwnedMovesNext ==
  ASSUME TypeOK, FreshExists, [Next]_vars
  PROVE  OwnedMoves
<1> USE DEF OwnedMoves
<1>1. ASSUME UNCHANGED <<deployment, service, watch, cache>> PROVE OwnedMoves
  BY <1>1 DEF DeploymentsStill, ServicesStill
<1>2. ASSUME NEW k \in Configs, NEW v, NEW events, PutConfig(k, v, events),
             UNCHANGED <<deployment, service, cache>>
      PROVE  OwnedMoves
  <2>1. watch'["Deployment"] = watch["Deployment"] /\ watch'["Service"] = watch["Service"]
    BY <1>2, KindTypes DEF PutConfig, Sees, TypeOK, WatchesOK, Controllers, Kinds
  <2> QED
    BY <1>2, <2>1 DEF DeploymentsStill, ServicesStill
<1>3. ASSUME NEW s \in Skills, NEW v \in DeploymentVal, PutDeployment(s, v), DeploymentMoved(s),
             UNCHANGED <<service, cache>>
      PROVE  OwnedMoves
  <2>1. watch'["Service"] = watch["Service"]
    BY <1>3 DEF PutDeployment, Sees, TypeOK, WatchesOK, Kinds, Controllers
  <2>2. fresh'.deployment = fresh.deployment \ {s}
    BY <1>3 DEF DeploymentMoved, TypeOK, ControllersOK, Fresh
  <2> QED
    BY <1>3, <2>1, <2>2 DEF DeploymentWritten, ServicesStill
<1>4. ASSUME NEW s \in Skills, NEW exists \in BOOLEAN, PutService(s, exists),
             UNCHANGED <<deployment, cache>>
      PROVE  OwnedMoves
  <2>1. watch'["Deployment"] = watch["Deployment"]
    BY <1>4 DEF PutService, Sees, TypeOK, WatchesOK, Kinds, Controllers
  <2> QED
    BY <1>4, <2>1 DEF ServiceWritten, DeploymentsStill
<1>5. ASSUME NEW k \in Configs, CreateConfig(k) \/ EditConfig(k) \/ DeleteConfig(k) PROVE OwnedMoves
  BY <1>2, <1>5 DEF CreateConfig, EditConfig, DeleteConfig, UserWrites
<1>6. ASSUME NEW s \in Skills,
             TamperDeployment(s) \/ TamperService(s) \/ RollOut(s)
               \/ CollectDeployment(s) \/ CollectService(s)
      PROVE  OwnedMoves
  <2>1. CASE TamperDeployment(s)
    <3>1. PICK v \in DeploymentVal : PutDeployment(s, v)
      BY <2>1, ValueTypes DEF TamperDeployment
    <3> QED
      BY <1>3, <2>1, <3>1 DEF TamperDeployment
  <2>2. CASE RollOut(s)
    <3>1. [deployment[s] EXCEPT !.rolledOut = TRUE] \in DeploymentVal
      BY DEF TypeOK, ServerOK, DeploymentVal
    <3> QED
      BY <1>3, <2>2, <3>1 DEF RollOut
  <2>3. CASE CollectDeployment(s)
    BY <1>3, <2>3, ValueTypes DEF CollectDeployment
  <2>4. CASE TamperService(s) \/ CollectService(s)
    BY <1>4, <2>4 DEF TamperService, CollectService
  <2> QED
    BY <1>6, <2>1, <2>2, <2>3, <2>4
<1>7. ASSUME NEW c \in Controllers, DeliverConfig(c) PROVE OwnedMoves
  <2>1. cache'.deployment = cache.deployment /\ cache'.service = cache.service
    BY <1>7 DEF DeliverConfig, Take, TypeOK, CachesOK
  <2>2. watch'["Deployment"] = watch["Deployment"] /\ watch'["Service"] = watch["Service"]
    BY <1>7 DEF DeliverConfig, Take, TypeOK, WatchesOK, Controllers, Kinds
  <2> QED
    BY <1>7, <2>1, <2>2 DEF DeliverConfig, Take, DeploymentsStill, ServicesStill
<1>8. ASSUME DeliverDeployment \/ DeliverService PROVE OwnedMoves
  BY <1>8 DEF DeliverDeployment, DeliverService, Take, DeploymentsStill, ServicesStill, TypeOK, CachesOK,
              WatchesOK, Controllers, Kinds
<1>9. ASSUME NEW k \in Configs,
             ReconcileGone(k) \/ ReconcileUnshared(k) \/ ReconcilePanics(k) \/ ReconcileShared(k)
               \/ ReconcileProfile(k)
      PROVE  OwnedMoves
  BY <1>1, <1>9 DEF ReconcileGone, ReconcileUnshared, ReconcilePanics, ReconcileShared,
              ReconcileProfile, Begin
<1>10. ASSUME CallRefused \/ SharedCallFails \/ \E c \in Controllers : UpdateStatusFails(c)
       PROVE  OwnedMoves
  BY <1>1, <1>10 DEF CallRefused, SharedCallFails, UpdateStatusFails
<1>11. ASSUME NEW c \in Controllers, UpdateStatus(c) PROVE OwnedMoves
  <2>1. run[c].key \in Configs
    BY <1>11 DEF UpdateStatus, TypeOK, ControllersOK
  <2> QED
    BY <1>1, <1>2, <1>11, <2>1 DEF UpdateStatus
<1>12. ASSUME CreateDeployment \/ UpdateDeployment \/ CreateService PROVE OwnedMoves
  <2>1. this.key \in Skills /\ this.image \in Images \cup {None}
    BY <1>12, KindTypes DEF CreateDeployment, UpdateDeployment, CreateService, this, TypeOK, ControllersOK,
                            Controllers, RunVal
  <2> QED
    BY <1>3, <1>4, <1>12, <2>1, ValueTypes DEF CreateDeployment, UpdateDeployment, CreateService
<1> HIDE DEF OwnedMoves
<1>13. ASSUME Operator PROVE OwnedMoves
  BY <1>9, <1>10, <1>11, <1>12, <1>13, KindTypes
     DEF Operator, SkillReconcile, SkillStep, ProfileReconcile, ProfileStep, Controllers
<1>14. CASE UNCHANGED vars
  BY <1>1, <1>14
<1> QED
  BY <1>5, <1>6, <1>7, <1>8, <1>13, <1>14 DEF Next, Outside, Deliver, OwnedMoves

LEMMA OwnedInStepNext ==
  ASSUME TypeOK, FreshExists, OwnedInStep, [Next]_vars
  PROVE  OwnedInStep'
<1>0. /\ deployment \in [Skills -> DeploymentVal] /\ cache.deployment \in [Skills -> DeploymentVal]
      /\ watch["Deployment"] \in Seq([key : Skills, val : DeploymentVal])
      /\ watch["Service"] \in Seq([key : Skills, val : BOOLEAN])
      /\ StoredServices \in [Skills -> BOOLEAN] /\ CachedServices \in [Skills -> BOOLEAN]
      /\ Coherent(Skills, deployment, cache.deployment, watch["Deployment"])
      /\ Coherent(Skills, StoredServices, CachedServices, watch["Service"])
  BY DEF TypeOK, ServerOK, CachesOK, WatchesOK, OwnedInStep, StoredServices, CachedServices
<1>1. DeploymentsStill => Coherent(Skills, deployment, cache.deployment, watch["Deployment"])'
  BY <1>0 DEF DeploymentsStill
<1>2. ASSUME ServicesStill PROVE Coherent(Skills, StoredServices, CachedServices, watch["Service"])'
  <2>1. StoredServices' = StoredServices /\ CachedServices' = CachedServices
    BY <1>2 DEF ServicesStill, StoredServices, CachedServices
  <2> QED
    BY <1>0, <1>2, <2>1 DEF ServicesStill
<1>3. ASSUME DeploymentWritten
      PROVE  Coherent(Skills, deployment, cache.deployment, watch["Deployment"])'
  <2> PICK s \in Skills, v \in DeploymentVal : PutDeployment(s, v) /\ cache' = cache
    BY <1>3 DEF DeploymentWritten
  <2>1. /\ deployment' = [deployment EXCEPT ![s] = v]
        /\ watch'["Deployment"] = watch["Deployment"] \o <<Event(s, v)>>
    BY DEF PutDeployment, Sees, TypeOK, WatchesOK, Controllers, Kinds
  <2>2. watch'["Deployment"] = Append(watch["Deployment"], Event(s, v))
    BY <1>0, <2>1, AppendIsConcat DEF Event
  <2>3. Coherent(Skills, [deployment EXCEPT ![s] = v], cache.deployment,
                 Append(watch["Deployment"], Event(s, v)))
    BY <1>0, WriteCoherent
  <2> QED
    BY <2>1, <2>2, <2>3
<1>4. ASSUME ServiceWritten PROVE Coherent(Skills, StoredServices, CachedServices, watch["Service"])'
  <2> PICK s \in Skills, v \in BOOLEAN : PutService(s, v) /\ cache' = cache
    BY <1>4 DEF ServiceWritten
  <2>1. /\ StoredServices' = [StoredServices EXCEPT ![s] = v]
        /\ CachedServices' = CachedServices
    <3>1. \A t \in Skills : (t \in service') <=> IF t = s THEN v ELSE t \in service
      BY DEF PutService
    <3>2. \A t \in Skills : (t \in service') = [StoredServices EXCEPT ![s] = v][t]
      BY <3>1 DEF StoredServices
    <3>3. StoredServices' = [t \in Skills |-> t \in service']
      BY DEF StoredServices
    <3>4. [StoredServices EXCEPT ![s] = v] = [t \in Skills |-> [StoredServices EXCEPT ![s] = v][t]]
      <4>1. [StoredServices EXCEPT ![s] = v] \in [Skills -> BOOLEAN]
        BY <1>0
      <4> QED
        BY <4>1
    <3> QED
      BY <3>2, <3>3, <3>4 DEF CachedServices
  <2>2. watch'["Service"] = watch["Service"] \o <<Event(s, v)>>
    BY DEF PutService, Sees, TypeOK, WatchesOK, Controllers, Kinds
  <2>3. watch'["Service"] = Append(watch["Service"], Event(s, v))
    BY <1>0, <2>2, AppendIsConcat DEF Event
  <2>4. Coherent(Skills, [StoredServices EXCEPT ![s] = v], CachedServices,
                 Append(watch["Service"], Event(s, v)))
    BY <1>0, WriteCoherent
  <2> QED
    BY <2>1, <2>3, <2>4
<1>5. ASSUME DeliverDeployment
      PROVE  Coherent(Skills, deployment, cache.deployment, watch["Deployment"])'
  <2>1. /\ watch["Deployment"] # <<>> /\ deployment' = deployment
        /\ cache'.deployment = Apply(cache.deployment, Head(watch["Deployment"]))
        /\ watch'["Deployment"] = Tail(watch["Deployment"])
    BY <1>5 DEF DeliverDeployment, Take, TypeOK, CachesOK, WatchesOK, Controllers, Kinds
  <2>2. Coherent(Skills, deployment, Apply(cache.deployment, Head(watch["Deployment"])),
                 Tail(watch["Deployment"]))
    <3>1. Skills \subseteq DOMAIN cache.deployment
      BY <1>0
    <3> QED
      BY <1>0, <2>1, <3>1, DeliverCoherent
  <2> QED
    BY <2>1, <2>2
<1>6. ASSUME DeliverService PROVE Coherent(Skills, StoredServices, CachedServices, watch["Service"])'
  <2> DEFINE e == Head(watch["Service"])
  <2>1. /\ watch["Service"] # <<>> /\ service' = service
        /\ cache'.service = IF e.val THEN cache.service \cup {e.key} ELSE cache.service \ {e.key}
        /\ watch'["Service"] = Tail(watch["Service"])
    BY <1>6 DEF DeliverService, Take, TypeOK, CachesOK, WatchesOK, Controllers, Kinds
  <2>2. e \in [key : Skills, val : BOOLEAN]
    BY <1>0, <2>1, HeadTailProperties
  <2> HIDE DEF e
  <2>3. CachedServices' = Apply(CachedServices, e) /\ StoredServices' = StoredServices
    <3>1. \A t \in Skills : (t \in cache'.service) <=> IF t = e.key THEN e.val ELSE t \in cache.service
      BY <2>1, <2>2
    <3>2. \A t \in Skills : (t \in cache'.service) = Apply(CachedServices, e)[t]
      BY <2>2, <3>1 DEF CachedServices, Apply
    <3>3. CachedServices' = [t \in Skills |-> t \in cache'.service]
      BY DEF CachedServices
    <3>4. Apply(CachedServices, e) = [t \in Skills |-> Apply(CachedServices, e)[t]]
      BY DEF CachedServices, Apply
    <3> QED
      BY <2>1, <3>2, <3>3, <3>4 DEF StoredServices
  <2>4. Coherent(Skills, StoredServices, Apply(CachedServices, e), Tail(watch["Service"]))
    <3>1. Skills \subseteq DOMAIN CachedServices
      BY <1>0
    <3> QED
      BY <1>0, <2>1, <3>1, DeliverCoherent DEF e
  <2> QED
    BY <2>1, <2>3, <2>4
<1>7. ASSUME Crash PROVE OwnedInStep'
  <2>1. /\ deployment' = deployment /\ cache'.deployment = deployment /\ watch'["Deployment"] = <<>>
        /\ service' = service /\ cache'.service = service /\ watch'["Service"] = <<>>
    BY <1>7 DEF Crash, Listing, Kinds
  <2>2. StoredServices' = CachedServices'
    BY <2>1 DEF StoredServices, CachedServices
  <2> QED
    BY <2>1, <2>2, ListCoherent DEF OwnedInStep
<1> QED
  BY <1>1, <1>2, <1>3, <1>4, <1>5, <1>6, <1>7, OwnedMovesNext DEF OwnedMoves, OwnedInStep

\* Copies of the owner belong to a skill that exists, what a skill that is gone has left
\* is collected, and an update that will be accepted finds a Deployment.
OwnerExists  == \A s \in fresh.owner : Exists(s)
LeftBehind   == \A s \in Skills : ~Exists(s) =>
                  /\ deployment[s] # NoDeployment => s \in orphan.deployment
                  /\ s \in service => s \in orphan.service
UpdateFits   == this.step = "updateDeployment" /\ this.key \in fresh.deployment =>
                  deployment[this.key] # NoDeployment
VerdictGiven == \A c \in Controllers : run[c].step = "status" => run[c].ready \in {"True", "False"}
OwnedInv == OwnedInStep /\ OwnerExists /\ LeftBehind /\ UpdateFits /\ VerdictGiven

\* An object exists if it has a spec.
LEMMA ExistsHasSpec ==
  ASSUME NEW k \in Configs, NEW v \in ConfigVal(KindOf(k))
  PROVE  v # NoConfig <=> v.spec \in SpecsOf(KindOf(k))
BY ConstantsAssumption DEF ConfigVal, NoConfig, SpecsOf

\* An accepted write to one object leaves the others alone.
LEMMA OthersExist ==
  ASSUME TypeOK, NEW k \in Configs, NEW v, NEW events, PutConfig(k, v, events)
  PROVE  config'[k] = v /\ \A j \in Configs : j # k => config'[j] = config[j]
BY DEF PutConfig, TypeOK, ServerOK, ConfigMap

\* A status update does not end an object.
LEMMA StatusKeepsExists ==
  ASSUME TypeOK, FreshExists, VerdictGiven, NEW c \in Controllers, UpdateStatus(c)
  PROVE  \A k \in Configs : Exists(k) <=> Exists(k)'
<1> PICK k \in Configs : k = run[c].key
  BY DEF UpdateStatus, TypeOK, ControllersOK
<1>1. CASE k \in fresh.config
  <2>1. /\ config'[k].ready = run[c].ready
        /\ \A j \in Configs \ {k} : config'[j] = config[j]
    BY <1>1, StatusWriteValue
  <2>2. run[c].ready \in {"True", "False"}
    BY DEF VerdictGiven, UpdateStatus
  <2>3. Exists(k) /\ Exists(k)'
    BY <1>1, <2>1, <2>2 DEF FreshExists, Exists, NoConfig
  <2> QED
    BY <2>1, <2>3 DEF Exists
<1>2. CASE k \notin fresh.config
  BY <1>2 DEF UpdateStatus, Exists
<1> QED
  BY <1>1, <1>2

\* What keeps the invariant: nothing is left behind, no copy gained.
LEMMA OwnedKept ==
  ASSUME TypeOK, OwnedInv, \A k \in Configs : Exists(k) => Exists(k)', UNCHANGED <<deployment, service, orphan>>,
         fresh'.owner \subseteq fresh.owner, fresh'.deployment = fresh.deployment,
         run'["Skill"].step = "updateDeployment" => run'["Skill"] = this
  PROVE  OwnerExists' /\ LeftBehind' /\ UpdateFits'
<1>1. OwnerExists'
  BY DEF OwnedInv, OwnerExists, TypeOK, ControllersOK, Fresh, Configs
<1>2. LeftBehind'
  BY DEF OwnedInv, LeftBehind, Configs
<1>3. UpdateFits'
  BY DEF OwnedInv, UpdateFits, this
<1> QED
  BY <1>1, <1>2, <1>3

LEMMA OwnedOutside ==
  ASSUME TypeOK, FreshExists, OwnedInv, Outside
  PROVE  OwnerExists' /\ LeftBehind' /\ UpdateFits' /\ VerdictGiven'
<1> USE DEF OwnedInv
<1>0. run' = run
  BY DEF Outside, CreateConfig, EditConfig, DeleteConfig, TamperDeployment, TamperService, RollOut,
         CollectDeployment, CollectService
<1>0a. VerdictGiven'
  BY <1>0 DEF VerdictGiven
<1>0b. fresh \in Fresh /\ orphan \in [deployment : SUBSET Skills, service : SUBSET Skills]
       /\ deployment \in [Skills -> DeploymentVal] /\ service \in SUBSET Skills
  BY DEF TypeOK, ServerOK, ControllersOK
<1>1. ASSUME NEW k \in Configs, CreateConfig(k) \/ EditConfig(k)
      PROVE  OwnerExists' /\ LeftBehind' /\ UpdateFits'
  <2>1. PICK v \in ConfigVal(KindOf(k)) :
          v.spec \in SpecsOf(KindOf(k)) /\ PutConfig(k, v, <<Event(k, v)>>)
    <3>1. CASE CreateConfig(k)
      <4> PICK spec \in SpecsOf(KindOf(k)) : UserWrites(k, NewConfig(spec))
        BY <3>1 DEF CreateConfig
      <4>1. NewConfig(spec) \in ConfigVal(KindOf(k)) /\ NewConfig(spec).spec = spec
        BY ValueTypes, KindTypes DEF NewConfig
      <4> QED
        BY <4>1 DEF UserWrites
    <3>2. CASE EditConfig(k)
      <4> PICK spec \in SpecsOf(KindOf(k)) : UserWrites(k, [config[k] EXCEPT !.spec = spec])
        BY <3>2 DEF EditConfig
      <4>1. [config[k] EXCEPT !.spec = spec] \in ConfigVal(KindOf(k))
            /\ [config[k] EXCEPT !.spec = spec].spec = spec
        BY <3>2 DEF TypeOK, ServerOK, ConfigMap, ConfigVal, EditConfig, Exists
      <4> QED
        BY <4>1 DEF UserWrites
    <3> QED
      BY <1>1, <3>1, <3>2
  <2>2. v # NoConfig
    BY <2>1, ExistsHasSpec
  <2>3. \A j \in Configs : Exists(j) => Exists(j)'
    BY <2>1, <2>2, OthersExist DEF Exists
  <2>4. /\ UNCHANGED <<deployment, service, orphan>>
        /\ fresh'.owner = fresh.owner /\ fresh'.deployment = fresh.deployment
    BY <1>0b, <1>1 DEF CreateConfig, EditConfig, Fresh
  <2> QED
    BY <1>0, <2>3, <2>4, OwnedKept DEF this
<1>2. ASSUME NEW k \in Configs, DeleteConfig(k) PROVE OwnerExists' /\ LeftBehind' /\ UpdateFits'
  <2>1. /\ UNCHANGED <<deployment, service>>
        /\ fresh'.owner = fresh.owner \ {k} /\ fresh'.deployment = fresh.deployment
        /\ orphan'.deployment = orphan.deployment \cup {s \in {k} \cap Skills : deployment[s] # NoDeployment}
        /\ orphan'.service = orphan.service \cup ({k} \cap service)
    BY <1>0b, <1>2 DEF DeleteConfig, Fresh
  <2>2. \A j \in Configs : j # k => config'[j] = config[j]
    BY <1>2, OthersExist DEF DeleteConfig, UserWrites
  <2>3. OwnerExists'
    BY <1>0b, <2>1, <2>2 DEF OwnerExists, Exists, Fresh, Configs
  <2>4. LeftBehind'
    BY <2>1, <2>2 DEF LeftBehind, Exists, Configs
  <2>5. UpdateFits'
    BY <1>0, <2>1 DEF UpdateFits, this
  <2> QED
    BY <2>3, <2>4, <2>5
<1>3. ASSUME NEW s \in Skills, NEW v, PutDeployment(s, v), DeploymentMoved(s), UNCHANGED <<config, service>>,
             \/ v = NoDeployment /\ orphan' = [orphan EXCEPT !.deployment = @ \ {s}]
             \/ deployment[s] # NoDeployment /\ orphan' = orphan
      PROVE  OwnerExists' /\ LeftBehind' /\ UpdateFits'
  <2>1. /\ fresh'.owner = fresh.owner /\ fresh'.deployment = fresh.deployment \ {s}
        /\ deployment'[s] = v /\ \A t \in Skills : t # s => deployment'[t] = deployment[t]
        /\ orphan'.service = orphan.service
        /\ \A t \in Skills : t # s => (t \in orphan.deployment => t \in orphan'.deployment)
    BY <1>0b, <1>3 DEF DeploymentMoved, PutDeployment, Fresh
  <2>2. OwnerExists'
    BY <1>3, <2>1 DEF OwnerExists, Exists
  <2>3. LeftBehind'
    BY <1>3, <2>1 DEF LeftBehind, Exists
  <2>4. UpdateFits'
    BY <1>0, <1>0b, <2>1 DEF UpdateFits, this, Fresh
  <2> QED
    BY <2>2, <2>3, <2>4
<1>4. ASSUME NEW s \in Skills, TamperDeployment(s) \/ RollOut(s) \/ CollectDeployment(s)
      PROVE  OwnerExists' /\ LeftBehind' /\ UpdateFits'
  <2>1. CASE TamperDeployment(s)
    <3>1. \/ PutDeployment(s, NoDeployment) /\ orphan' = [orphan EXCEPT !.deployment = @ \ {s}]
          \/ \E v : PutDeployment(s, v) /\ orphan' = orphan
      BY <2>1 DEF TamperDeployment
    <3> QED
      BY <1>3, <2>1, <3>1 DEF TamperDeployment
  <2>2. CASE RollOut(s)
    BY <1>3, <2>2 DEF RollOut
  <2>3. CASE CollectDeployment(s)
    BY <1>3, <2>3 DEF CollectDeployment
  <2> QED
    BY <1>4, <2>1, <2>2, <2>3
<1>5. ASSUME NEW s \in Skills, TamperService(s) \/ CollectService(s)
      PROVE  OwnerExists' /\ LeftBehind' /\ UpdateFits'
  <2>1. /\ UNCHANGED <<config, deployment, fresh>> /\ service' = service \ {s}
        /\ orphan' = [orphan EXCEPT !.service = @ \ {s}]
    BY <1>5 DEF TamperService, CollectService, PutService
  <2>2. orphan'.deployment = orphan.deployment /\ orphan'.service = orphan.service \ {s}
    BY <1>0b, <2>1
  <2> QED
    BY <1>0, <2>1, <2>2 DEF OwnerExists, LeftBehind, UpdateFits, Exists, this
<1> QED
  BY <1>0a, <1>1, <1>2, <1>4, <1>5 DEF Outside

LEMMA OwnedDeliver ==
  ASSUME TypeOK, OwnedInv, Deliver \/ Crash \/ UNCHANGED vars
  PROVE  OwnerExists' /\ LeftBehind' /\ UpdateFits' /\ VerdictGiven'
<1> USE DEF OwnedInv
<1>1. CASE Deliver \/ UNCHANGED vars
  <2>1. UNCHANGED <<config, deployment, service, orphan, run, fresh>>
    BY <1>1 DEF Deliver, DeliverConfig, DeliverDeployment, DeliverService, Take
  <2> QED
    BY <2>1 DEF OwnerExists, LeftBehind, UpdateFits, VerdictGiven, Exists, this
<1>2. CASE Crash
  BY <1>2 DEF Crash, OwnerExists, LeftBehind, UpdateFits, VerdictGiven, Exists, this, Idle, NoFresh,
              Controllers
<1> QED
  BY <1>1, <1>2

\* A reconciliation begins.
LEMMA OwnedBegin ==
  ASSUME TypeOK, OwnedInv, NEW k \in Configs, NEW r, Begin(k, r),
         \A j \in fresh'.owner : j \in fresh.owner \/ (j \in Configs /\ Exists(j)),
         r.step = "status" => r.ready \in {"True", "False"},
         \/ KindOf(k) = "Skill" /\ (r.step = "updateDeployment" /\ r.key \in fresh'.deployment =>
                                      deployment[r.key] # NoDeployment)
         \/ KindOf(k) # "Skill" /\ fresh'.deployment = fresh.deployment
  PROVE  OwnerExists' /\ LeftBehind' /\ UpdateFits' /\ VerdictGiven'
<1> USE DEF OwnedInv
<1>1. UNCHANGED <<config, deployment, service, orphan>> /\ run' = [run EXCEPT ![KindOf(k)] = r]
  BY DEF Begin
<1>2. \A c \in Controllers : run'[c] = IF c = KindOf(k) THEN r ELSE run[c]
  BY <1>1 DEF TypeOK, ControllersOK
<1>3. OwnerExists' /\ LeftBehind'
  BY <1>1 DEF OwnerExists, LeftBehind, Exists
<1>4. UpdateFits'
  BY <1>1, <1>2 DEF UpdateFits, this, Controllers
<1>5. VerdictGiven'
  BY <1>2 DEF VerdictGiven
<1> QED
  BY <1>3, <1>4, <1>5

LEMMA OwnedReconcile ==
  ASSUME TypeOK, OwnedInv, NEW k \in Configs,
         \/ ReconcileGone(k)
         \/ k \in Skills /\ (ReconcileUnshared(k) \/ ReconcileShared(k))
         \/ k \in Profiles /\ ReconcileProfile(k)
  PROVE  OwnerExists' /\ LeftBehind' /\ UpdateFits' /\ VerdictGiven'
<1>0. fresh \in Fresh
  BY DEF TypeOK, ControllersOK
<1> DEFINE copy == CopyOf(k)
<1>1. /\ copy \in Fresh /\ copy.deployment = fresh.deployment
      /\ \A j \in copy.owner : j \in fresh.owner \/ (j \in Configs /\ Exists(j))
  <2>1. copy \in Fresh
    BY CopyOfType
  <2> QED
    BY <1>0, <2>1, KindTypes DEF CopyOf, Fresh
<1> HIDE DEF copy
<1>2. CASE ReconcileGone(k)
  BY <1>2, OwnedBegin DEF ReconcileGone, Idle
<1>3. CASE k \in Skills /\ ReconcileUnshared(k)
  <2> DEFINE r == WriteReady(k, IF ValidSkill(Copy(k).spec) THEN "True" ELSE "False")
  <2>1. r.step = "status" /\ r.ready \in {"True", "False"}
    BY DEF WriteReady, Idle
  <2>2. Begin(k, r) /\ fresh' = copy
    BY <1>3 DEF ReconcileUnshared, copy
  <2> HIDE DEF r
  <2> QED
    BY <1>1, <1>3, <2>1, <2>2, OwnedBegin, KindTypes
<1>4. CASE k \in Profiles /\ ReconcileProfile(k)
  <2> DEFINE r == WriteReady(k, IF ValidProfile(Copy(k).spec) THEN "True" ELSE "False")
  <2>1. r.step = "status" /\ r.ready \in {"True", "False"}
    BY DEF WriteReady, Idle
  <2>2. Begin(k, r) /\ fresh' = copy
    BY <1>4 DEF ReconcileProfile, copy
  <2>3. KindOf(k) # "Skill"
    BY <1>4, KindTypes
  <2> HIDE DEF r
  <2> QED
    BY <1>1, <2>1, <2>2, <2>3, OwnedBegin
<1>5. CASE k \in Skills /\ ReconcileShared(k)
  <2> DEFINE r == SharedRun(k)
  <2>1. /\ r.key = k /\ (r.step = "status" => r.ready \in {"True", "False"})
        /\ r.step = "updateDeployment" => cache.deployment[k] # NoDeployment
    BY DEF SharedRun, ServiceOf, Idle
  <2>2. /\ Begin(k, r)
        /\ fresh' = [copy EXCEPT !.deployment =
                       IF Quiet(watch["Deployment"], k) THEN @ \cup {k} ELSE @ \ {k}]
    BY <1>5 DEF ReconcileShared, copy
  <2>3. fresh'.owner = copy.owner /\ (k \in fresh'.deployment => Quiet(watch["Deployment"], k))
    BY <1>1, <2>2 DEF Fresh
  <2>4. k \in fresh'.deployment => deployment[k] = cache.deployment[k]
    BY <1>5, <2>3 DEF OwnedInv, OwnedInStep, Coherent
  <2> HIDE DEF r
  <2> QED
    BY <1>1, <1>5, <2>1, <2>2, <2>3, <2>4, OwnedBegin, KindTypes
<1> QED
  BY <1>2, <1>3, <1>4, <1>5

LEMMA OwnedStep ==
  ASSUME TypeOK, FreshExists, OwnedInv, SkillStep \/ ProfileStep
  PROVE  OwnerExists' /\ LeftBehind' /\ UpdateFits' /\ VerdictGiven'
<1> USE DEF OwnedInv
<1>0. /\ fresh \in Fresh /\ orphan \in [deployment : SUBSET Skills, service : SUBSET Skills]
      /\ deployment \in [Skills -> DeploymentVal] /\ service \in SUBSET Skills
      /\ run \in [Controllers -> RunVal] /\ "Skill" \in Controllers
  BY DEF TypeOK, ServerOK, ControllersOK, Controllers
<1>1. ASSUME NEW c \in Controllers, UpdateStatus(c) \/ UpdateStatusFails(c)
      PROVE  OwnerExists' /\ LeftBehind' /\ UpdateFits' /\ VerdictGiven'
  <2>1. run[c].key \in Configs /\ KindOf(run[c].key) = c
    BY <1>1 DEF UpdateStatus, UpdateStatusFails, TypeOK, ControllersOK
  <2>2. \A d \in Controllers : run'[d] = IF d = c THEN Idle ELSE run[d]
    BY <1>0, <1>1, <2>1 DEF UpdateStatus, UpdateStatusFails, Done
  <2>3. \A k \in Configs : Exists(k) => Exists(k)'
    BY <1>1, StatusKeepsExists DEF UpdateStatusFails, Exists
  <2>4. UNCHANGED <<deployment, service, orphan>>
    BY <1>1 DEF UpdateStatus, UpdateStatusFails
  <2>5. fresh'.owner = fresh.owner /\ fresh'.deployment = fresh.deployment
    BY <1>0, <1>1 DEF UpdateStatus, UpdateStatusFails, Fresh
  <2>6. run'["Skill"].step = "updateDeployment" => run'["Skill"] = this
    BY <1>0, <2>2 DEF this, Idle
  <2>7. OwnerExists' /\ LeftBehind' /\ UpdateFits'
    BY <2>3, <2>4, <2>5, <2>6, OwnedKept
  <2>8. VerdictGiven'
    BY <2>2 DEF VerdictGiven, Idle
  <2> QED
    BY <2>7, <2>8
<1>2. ASSUME CreateDeployment \/ UpdateDeployment \/ CreateService \/ CallRefused \/ SharedCallFails
      PROVE  OwnerExists' /\ LeftBehind' /\ UpdateFits' /\ VerdictGiven'
  <2> PICK s : s = this.key
    OBVIOUS
  <2>0. this.step # "idle" /\ s \in Skills /\ this \in RunVal
    <3>1. this.step # "idle"
      BY <1>2 DEF CreateDeployment, UpdateDeployment, CreateService, CallRefused, SharedCallFails
    <3> QED
      BY <1>0, <3>1, KindTypes DEF this, TypeOK, ControllersOK
  <2>1. PICK r : Continue(r) /\ r.step \in {"status", "createService"}
                 /\ (r.step = "status" => r.ready \in {"True", "False"})
    <3>1. \A ready \in {"True", "False"} :
            WriteReady(this.key, ready).step = "status" /\ WriteReady(this.key, ready).ready = ready
      BY DEF WriteReady, Idle
    <3>2. ServiceOf(this).step \in {"status", "createService"}
          /\ (ServiceOf(this).step = "status" => ServiceOf(this).ready = "True")
      BY <2>0 DEF ServiceOf, RunVal
    <3> QED
      BY <1>2, <3>1, <3>2 DEF CreateDeployment, UpdateDeployment, CreateService, CallRefused,
                              SharedCallFails, Succeeded
  <2>2. \A c \in Controllers : run'[c] = IF c = "Skill" THEN r ELSE run[c]
    BY <1>0, <2>1 DEF Continue
  <2>3. UpdateFits' /\ VerdictGiven'
    BY <1>0, <2>1, <2>2 DEF UpdateFits, VerdictGiven, this
  <2>4. config' = config /\ fresh'.owner = fresh.owner
    BY <1>0, <1>2 DEF CreateDeployment, UpdateDeployment, CreateService, CallRefused, SharedCallFails,
                      DeploymentMoved, Fresh
  <2>5. OwnerExists'
    BY <2>4 DEF OwnerExists, Exists
  <2>6. s \in fresh.owner => Exists(s)
    BY DEF OwnerExists
  <2>7. LeftBehind'
    <3>1. CASE CreateDeployment
      <4>1. /\ service' = service /\ \A t \in Skills : t # s => deployment'[t] = deployment[t]
            /\ orphan' = IF s \in fresh.owner THEN orphan
                         ELSE [orphan EXCEPT !.deployment = @ \cup {s}]
        BY <1>0, <3>1 DEF CreateDeployment, PutDeployment, Owned
      <4>2. /\ orphan'.service = orphan.service /\ orphan.deployment \subseteq orphan'.deployment
            /\ s \in fresh.owner \/ s \in orphan'.deployment
        BY <1>0, <4>1
      <4> QED
        BY <2>4, <2>6, <4>1, <4>2 DEF LeftBehind, Exists
    <3>2. CASE UpdateDeployment
      <4>1. /\ service' = service /\ \A t \in Skills : t # s => deployment'[t] = deployment[t]
            /\ orphan' = orphan /\ deployment[s] # NoDeployment
        BY <1>0, <3>2 DEF UpdateDeployment, PutDeployment, UpdateFits
      <4> QED
        BY <2>4, <4>1 DEF LeftBehind, Exists
    <3>3. CASE CreateService
      <4>1. /\ deployment' = deployment /\ service' = service \cup {s}
            /\ orphan' = IF s \in fresh.owner THEN orphan
                         ELSE [orphan EXCEPT !.service = @ \cup {s}]
        BY <1>0, <3>3 DEF CreateService, PutService, Owned
      <4>2. /\ orphan'.deployment = orphan.deployment /\ orphan.service \subseteq orphan'.service
            /\ s \in fresh.owner \/ s \in orphan'.service
        BY <1>0, <4>1
      <4> QED
        BY <2>4, <2>6, <4>1, <4>2 DEF LeftBehind, Exists
    <3>4. CASE CallRefused \/ SharedCallFails
      BY <2>4, <3>4 DEF CallRefused, SharedCallFails, LeftBehind, Exists
    <3> QED
      BY <1>2, <3>1, <3>2, <3>3, <3>4
  <2> QED
    BY <2>3, <2>5, <2>7
<1> QED
  BY <1>1, <1>2 DEF SkillStep, ProfileStep, Controllers

LEMMA OwnedNext ==
  ASSUME TypeOK, FreshExists, OwnedInv, [Next]_vars
  PROVE  OwnedInv'
<1>1. OwnedInStep'
  BY OwnedInStepNext DEF OwnedInv
<1>2. OwnerExists' /\ LeftBehind' /\ UpdateFits' /\ VerdictGiven'
  <2>1. ASSUME NEW k \in Configs, ReconcilePanics(k)
        PROVE  OwnerExists' /\ LeftBehind' /\ UpdateFits' /\ VerdictGiven'
    BY <2>1, OwnedDeliver DEF ReconcilePanics
  <2> QED
    BY <2>1, OwnedOutside, OwnedDeliver, OwnedReconcile, OwnedStep, KindTypes
       DEF Next, Operator, SkillReconcile, ProfileReconcile
<1> QED
  BY <1>1, <1>2 DEF OwnedInv

-----------------------------------------------------------------------------
(* No skill and no profile is forgotten: what is not as it should be is on   *)
(* its way to a reconciliation.                                              *)

\* News of k, of its Deployment or of its Service is under way.
Announced(k) ==
  \/ ~Quiet(watch[KindOf(k)], k)
  \/ k \in Skills /\ (~Quiet(watch["Deployment"], k) \/ ~Quiet(watch["Service"], k))

\* The controller of k is going to look at it, or the garbage collector is.
Told(k) == k \in queue \/ Announced(k) \/ k \in orphan.deployment \cup orphan.service

\* The condition k should have, if ready is its status.
Verdict(k, ready) ==
  /\ ready = "True"  => Valid(k) /\ (Shared(k) => Served(k))
  /\ ready # "True" => ready = "False" /\ (Valid(k) => Shared(k) /\ errors > 0)

AsTrue(k) ==
  IF Exists(k) THEN Verdict(k, config[k].ready)
               ELSE k \in Skills => deployment[k] = NoDeployment /\ k \notin service

\* The reconciliation of k under way.
RunFor(k) == run[KindOf(k)]
Busy(k)   == RunFor(k).step # "idle" /\ RunFor(k).key = k

\* It knows k as it is: its next write tells of itself, or is the last one and true.
Sure(k) ==
  /\ k \in fresh.config
  /\ RunFor(k).step # "status" => Shared(k)
  /\ RunFor(k).step = "createDeployment" => deployment[k] = NoDeployment
  /\ RunFor(k).step = "updateDeployment" => k \in fresh.deployment
  /\ RunFor(k).step = "createService" => k \notin service
  /\ RunFor(k).step = "status" => Verdict(k, RunFor(k).ready)

RememberedAt(k) ==
  \/ Told(k)
  \/ Busy(k) /\ Sure(k)
  \/ ~Busy(k) /\ AsTrue(k)

Remembered == \A k \in Configs : RememberedAt(k)

\* What is written is announced, and an announcement is not lost.
LEMMA PutAnnounced ==
  ASSUME TypeOK
  PROVE  /\ \A k \in Configs : \A v \in ConfigVal(KindOf(k)) :
              PutConfig(k, v, <<Event(k, v)>>) => ~Quiet(watch[KindOf(k)], k)'
         /\ \A s \in Skills : \A v \in DeploymentVal :
              PutDeployment(s, v) => ~Quiet(watch["Deployment"], s)'
         /\ \A s \in Skills : \A exists \in BOOLEAN :
              PutService(s, exists) => ~Quiet(watch["Service"], s)'
<1>1. ASSUME NEW k \in Configs, NEW v \in ConfigVal(KindOf(k)), PutConfig(k, v, <<Event(k, v)>>)
      PROVE  ~Quiet(watch[KindOf(k)], k)'
  <2> DEFINE V == ConfigVal(KindOf(k))
             K == KeysOf(KindOf(k))
  <2>1. watch[KindOf(k)] \in Seq([key : K, val : V]) /\ k \in K /\ v \in V
    BY KindTypes DEF TypeOK, WatchesOK
  <2>2. watch'[KindOf(k)] = watch[KindOf(k)] \o <<Event(k, v)>>
    BY <1>1, KindTypes DEF PutConfig, Sees, TypeOK, WatchesOK
  <2> HIDE DEF V, K
  <2>3. watch'[KindOf(k)] = Append(watch[KindOf(k)], Event(k, v))
    BY <2>1, <2>2, AppendIsConcat DEF Event
  <2> QED
    BY <2>1, <2>3, SentIsUnderWay
<1>2. ASSUME NEW s \in Skills, NEW v \in DeploymentVal, PutDeployment(s, v)
      PROVE  ~Quiet(watch["Deployment"], s)'
  <2>1. watch["Deployment"] \in Seq([key : Skills, val : DeploymentVal])
    BY DEF TypeOK, WatchesOK
  <2>2. watch'["Deployment"] = watch["Deployment"] \o <<Event(s, v)>>
    BY <1>2 DEF PutDeployment, Sees, TypeOK, WatchesOK, Kinds
  <2>3. watch'["Deployment"] = Append(watch["Deployment"], Event(s, v))
    BY <2>1, <2>2, AppendIsConcat DEF Event
  <2> QED
    BY <2>1, <2>3, SentIsUnderWay
<1>3. ASSUME NEW s \in Skills, NEW exists \in BOOLEAN, PutService(s, exists)
      PROVE  ~Quiet(watch["Service"], s)'
  <2>1. watch["Service"] \in Seq([key : Skills, val : BOOLEAN])
    BY DEF TypeOK, WatchesOK
  <2>2. watch'["Service"] = watch["Service"] \o <<Event(s, exists)>>
    BY <1>3 DEF PutService, Sees, TypeOK, WatchesOK, Kinds
  <2>3. watch'["Service"] = Append(watch["Service"], Event(s, exists))
    BY <2>1, <2>2, AppendIsConcat DEF Event
  <2> QED
    BY <2>1, <2>3, SentIsUnderWay
<1> QED
  BY <1>1, <1>2, <1>3

\* The same of the watch of skills or profiles, whatever the step.
LEMMA ConfigNews ==
  ASSUME TypeOK, FreshExists, [Next]_vars, ~Crash, NEW k \in Configs
  PROVE  /\ ~Quiet(watch[KindOf(k)], k) => ~Quiet(watch[KindOf(k)], k)' \/ k \in queue'
         /\ config'[k] # config[k] => ~Quiet(watch[KindOf(k)], k)'
<1> DEFINE V == ConfigVal(KindOf(k))
           K == KeysOf(KindOf(k))
<1>0. watch[KindOf(k)] \in Seq([key : K, val : V]) /\ k \in K /\ KindOf(k) \in Controllers
  BY KindTypes DEF TypeOK, WatchesOK
<1>1. CASE config' = config /\ \A c \in Controllers : watch'[c] = watch[c]
  BY <1>0, <1>1
<1>2. ASSUME NEW c \in Controllers, DeliverConfig(c)
      PROVE  config' = config /\ (~Quiet(watch[KindOf(k)], k) => ~Quiet(watch[KindOf(k)], k)' \/ k \in queue')
  <2>1. /\ config' = config /\ queue' = queue \cup {Head(watch[c]).key} /\ watch[c] # <<>>
        /\ \A d \in Controllers : watch'[d] = IF d = c THEN Tail(watch[c]) ELSE watch[d]
    BY <1>2, KindTypes DEF DeliverConfig, Take, TypeOK, WatchesOK
  <2>2. CASE c = KindOf(k)
    <3> HIDE DEF V, K
    <3>1. ~Quiet(watch[KindOf(k)], k) => Head(watch[c]).key = k \/ ~Quiet(Tail(watch[c]), k)
      BY <1>0, <2>1, <2>2, DeliveredOrUnderWay
    <3> QED
      BY <2>1, <2>2, <3>1
  <2> QED
    BY <1>0, <2>1, <2>2
<1>3. ASSUME NEW j \in Configs, NEW v \in ConfigVal(KindOf(j)), NEW events \in {<<>>, <<Event(j, v)>>},
             ConfigWrite(j, v, events)
      PROVE  /\ ~Quiet(watch[KindOf(k)], k) => ~Quiet(watch[KindOf(k)], k)'
             /\ config'[k] # config[k] => ~Quiet(watch[KindOf(k)], k)'
  <2>1. /\ PutConfig(j, v, events) /\ (events = <<>> => v = config[j])
        /\ config'[j] = v /\ \A i \in Configs : i # j => config'[i] = config[i]
        /\ watch' = [watch EXCEPT ![KindOf(j)] = watch[KindOf(j)] \o events]
    BY <1>3, OthersExist DEF ConfigWrite, PutConfig, Sees
  <2>2. CASE events = <<>>
    <3>1. watch[KindOf(k)] \o <<>> = watch[KindOf(k)]
      BY <1>0, ConcatEmptySeq
    <3>2. watch'[KindOf(k)] = watch[KindOf(k)]
      BY <1>0, <2>1, <2>2, <3>1, KindTypes DEF TypeOK, WatchesOK
    <3>3. config'[k] = config[k]
      BY <2>1, <2>2
    <3> QED
      BY <3>2, <3>3
  <2>3. CASE events = <<Event(j, v)>>
    <3>1. ~Quiet(watch[KindOf(j)], j)'
      BY <2>1, <2>3, PutAnnounced
    <3>2. ~Quiet(watch[KindOf(k)], k) => ~Quiet(watch[KindOf(k)], k)'
      <4>1. CASE KindOf(j) = KindOf(k)
        <5>1. watch'[KindOf(k)] = watch[KindOf(k)] \o <<Event(j, v)>> /\ v \in V /\ j \in K
          BY <1>0, <2>1, <2>3, <4>1, KindTypes DEF TypeOK, WatchesOK
        <5> HIDE DEF V, K
        <5>2. watch'[KindOf(k)] = Append(watch[KindOf(k)], Event(j, v))
          BY <1>0, <5>1, AppendIsConcat DEF Event
        <5> QED
          BY <1>0, <5>1, <5>2, SentIsUnderWay
      <4>2. CASE KindOf(j) # KindOf(k)
        <5>1. watch'[KindOf(k)] = watch[KindOf(k)]
          BY <1>0, <2>1, <4>2, KindTypes DEF TypeOK, WatchesOK
        <5> QED
          BY <5>1
      <4> QED
        BY <4>1, <4>2
    <3> QED
      BY <2>1, <3>1, <3>2
  <2> QED
    BY <2>2, <2>3
<1> QED
  BY <1>1, <1>2, <1>3, ConfigMoves

\* And of those of Deployments and Services.
LEMMA OwnedNews ==
  ASSUME TypeOK, FreshExists, [Next]_vars, ~Crash, NEW s \in Skills
  PROVE  /\ ~Quiet(watch["Deployment"], s) => ~Quiet(watch["Deployment"], s)' \/ s \in queue'
         /\ ~Quiet(watch["Service"], s) => ~Quiet(watch["Service"], s)' \/ s \in queue'
         /\ deployment'[s] # deployment[s] => ~Quiet(watch["Deployment"], s)'
         /\ (s \in service') # (s \in service) => ~Quiet(watch["Service"], s)'
<1>0. /\ watch["Deployment"] \in Seq([key : Skills, val : DeploymentVal])
      /\ watch["Service"] \in Seq([key : Skills, val : BOOLEAN])
      /\ deployment \in [Skills -> DeploymentVal]
  BY DEF TypeOK, WatchesOK, ServerOK
<1> DEFINE DeploymentNews ==
             /\ ~Quiet(watch["Deployment"], s) => ~Quiet(watch["Deployment"], s)' \/ s \in queue'
             /\ deployment'[s] # deployment[s] => ~Quiet(watch["Deployment"], s)'
           ServiceNews ==
             /\ ~Quiet(watch["Service"], s) => ~Quiet(watch["Service"], s)' \/ s \in queue'
             /\ (s \in service') # (s \in service) => ~Quiet(watch["Service"], s)'
<1>1. DeploymentsStill => DeploymentNews
  BY DEF DeploymentsStill
<1>2. ServicesStill => ServiceNews
  BY DEF ServicesStill
<1>3. ASSUME DeploymentWritten PROVE DeploymentNews
  <2> PICK t \in Skills, v \in DeploymentVal : PutDeployment(t, v)
    BY <1>3 DEF DeploymentWritten
  <2>1. watch'["Deployment"] = watch["Deployment"] \o <<Event(t, v)>>
    BY DEF PutDeployment, Sees, TypeOK, WatchesOK, Kinds
  <2>2. watch'["Deployment"] = Append(watch["Deployment"], Event(t, v))
    BY <1>0, <2>1, AppendIsConcat DEF Event
  <2>3. ~Quiet(watch["Deployment"], s) => ~Quiet(watch["Deployment"], s)'
    BY <1>0, <2>2, SentIsUnderWay
  <2>4. ~Quiet(watch["Deployment"], t)'
    BY PutAnnounced
  <2>5. s # t => deployment'[s] = deployment[s]
    BY <1>0 DEF PutDeployment
  <2> QED
    BY <2>3, <2>4, <2>5
<1>4. ASSUME ServiceWritten PROVE ServiceNews
  <2> PICK t \in Skills, v \in BOOLEAN : PutService(t, v)
    BY <1>4 DEF ServiceWritten
  <2>1. watch'["Service"] = watch["Service"] \o <<Event(t, v)>>
    BY DEF PutService, Sees, TypeOK, WatchesOK, Kinds
  <2>2. watch'["Service"] = Append(watch["Service"], Event(t, v))
    BY <1>0, <2>1, AppendIsConcat DEF Event
  <2>3. ~Quiet(watch["Service"], s) => ~Quiet(watch["Service"], s)'
    BY <1>0, <2>2, SentIsUnderWay
  <2>4. ~Quiet(watch["Service"], t)'
    BY PutAnnounced
  <2>5. s # t => (s \in service' <=> s \in service)
    BY DEF PutService
  <2> QED
    BY <2>3, <2>4, <2>5
<1>5. ASSUME DeliverDeployment PROVE DeploymentNews
  <2>1. /\ deployment' = deployment /\ queue' = queue \cup {Head(watch["Deployment"]).key}
        /\ watch["Deployment"] # <<>> /\ watch'["Deployment"] = Tail(watch["Deployment"])
    BY <1>5 DEF DeliverDeployment, Take, TypeOK, WatchesOK, Kinds
  <2>2. ~Quiet(watch["Deployment"], s) =>
          Head(watch["Deployment"]).key = s \/ ~Quiet(Tail(watch["Deployment"]), s)
    BY <1>0, <2>1, DeliveredOrUnderWay
  <2> QED
    BY <2>1, <2>2
<1>6. ASSUME DeliverService PROVE ServiceNews
  <2>1. /\ service' = service /\ queue' = queue \cup {Head(watch["Service"]).key}
        /\ watch["Service"] # <<>> /\ watch'["Service"] = Tail(watch["Service"])
    BY <1>6 DEF DeliverService, Take, TypeOK, WatchesOK, Kinds
  <2>2. ~Quiet(watch["Service"], s) =>
          Head(watch["Service"]).key = s \/ ~Quiet(Tail(watch["Service"]), s)
    BY <1>0, <2>1, DeliveredOrUnderWay
  <2> QED
    BY <2>1, <2>2
<1>7. DeploymentNews /\ ServiceNews
  <2> HIDE DEF DeploymentNews, ServiceNews
  <2> QED
    BY <1>1, <1>2, <1>3, <1>4, <1>5, <1>6, OwnedMovesNext DEF OwnedMoves
<1> QED
  BY <1>7

\* A change of k, of its Deployment or of its Service is announced.
LEMMA ChangeAnnounced ==
  ASSUME TypeOK, FreshExists, [Next]_vars, ~Crash, NEW k \in Configs
  PROVE  /\ Announced(k) => Announced(k)' \/ k \in queue'
         /\ \/ Announced(k)'
            \/ /\ config'[k] = config[k]
               /\ k \in Skills => deployment'[k] = deployment[k] /\ (k \in service' <=> k \in service)
BY ConfigNews, OwnedNews DEF Announced

Reconcile(k) == (k \in Skills /\ SkillReconcile(k)) \/ (k \in Profiles /\ ProfileReconcile(k))
StepOf(c)    == (c = "Skill" /\ SkillStep) \/ (c = "AgentProfile" /\ ProfileStep)

\* Nothing but its own reconciliation takes k off the queue, or leaves garbage of k behind
\* unannounced; the reconciliation of k and what it knows stay as they are.
Kept(k) ==
  /\ k \in queue => k \in queue'
  /\ k \in orphan.deployment \cup orphan.service =>
       k \in orphan'.deployment \cup orphan'.service \/ Announced(k)'
  /\ (Busy(k)' <=> Busy(k))
  /\ Busy(k) => RunFor(k)' = RunFor(k)
  /\ k \in fresh.config => k \in fresh'.config \/ Announced(k)'
  /\ k \in fresh.deployment => k \in fresh'.deployment \/ Announced(k)'
  /\ errors > 0 => errors' > 0

LEMMA KeptOutside ==
  ASSUME TypeOK, NEW k \in Configs, Outside \/ Deliver \/ UNCHANGED vars
  PROVE  Kept(k)
<1>0. /\ fresh \in Fresh /\ orphan \in [deployment : SUBSET Skills, service : SUBSET Skills]
      /\ queue \subseteq Configs
  BY DEF TypeOK, ServerOK, ControllersOK
<1>1. ASSUME UNCHANGED <<run, errors, fresh, orphan>>, queue \subseteq queue' PROVE Kept(k)
  BY <1>1 DEF Kept, Busy, RunFor
<1>2. ASSUME UNCHANGED <<run, errors, queue>>,
             k \in fresh.config => k \in fresh'.config \/ Announced(k)',
             k \in fresh.deployment => k \in fresh'.deployment \/ Announced(k)',
             k \in orphan.deployment \cup orphan.service =>
               k \in orphan'.deployment \cup orphan'.service \/ Announced(k)'
      PROVE  Kept(k)
  BY <1>2 DEF Kept, Busy, RunFor
<1>3. ASSUME NEW j \in Configs, CreateConfig(j) \/ EditConfig(j) \/ DeleteConfig(j) PROVE Kept(k)
  <2>1. UNCHANGED <<run, errors, queue>>
    BY <1>3 DEF CreateConfig, EditConfig, DeleteConfig
  <2>2. CASE CreateConfig(j)
    BY <1>1, <2>1, <2>2 DEF CreateConfig
  <2>3. CASE EditConfig(j) \/ DeleteConfig(j)
    <3>1. PICK v \in ConfigVal(KindOf(j)) : PutConfig(j, v, <<Event(j, v)>>)
      <4>1. CASE EditConfig(j)
        <5> PICK spec \in SpecsOf(KindOf(j)) : UserWrites(j, [config[j] EXCEPT !.spec = spec])
          BY <4>1 DEF EditConfig
        <5>1. [config[j] EXCEPT !.spec = spec] \in ConfigVal(KindOf(j))
          BY <4>1 DEF TypeOK, ServerOK, ConfigMap, ConfigVal, EditConfig, Exists
        <5> QED
          BY <5>1 DEF UserWrites
      <4>2. CASE DeleteConfig(j)
        BY <4>2, ValueTypes, KindTypes DEF DeleteConfig, UserWrites
      <4> QED
        BY <2>3, <4>1, <4>2
    <3>2. j = k => Announced(k)'
      BY <3>1, PutAnnounced DEF Announced
    <3>3. fresh'.config = fresh.config \ {j} /\ fresh'.deployment = fresh.deployment
      BY <1>0, <2>3 DEF EditConfig, DeleteConfig, Fresh
    <3>4. orphan.deployment \subseteq orphan'.deployment /\ orphan.service \subseteq orphan'.service
      BY <1>0, <2>3 DEF EditConfig, DeleteConfig
    <3> QED
      BY <1>2, <2>1, <3>2, <3>3, <3>4
  <2> QED
    BY <1>3, <2>2, <2>3
<1>4. ASSUME NEW s \in Skills, TamperDeployment(s) \/ RollOut(s) \/ CollectDeployment(s) PROVE Kept(k)
  <2>1. PICK v \in DeploymentVal : PutDeployment(s, v)
    <3>1. [deployment[s] EXCEPT !.rolledOut = TRUE] \in DeploymentVal
      BY DEF TypeOK, ServerOK, DeploymentVal
    <3> QED
      BY <1>4, <3>1, ValueTypes DEF TamperDeployment, RollOut, CollectDeployment
  <2>2. s = k => Announced(k)'
    BY <2>1, PutAnnounced DEF Announced
  <2>3. UNCHANGED <<run, errors, queue>>
    BY <1>4 DEF TamperDeployment, RollOut, CollectDeployment
  <2>4. fresh'.config = fresh.config /\ fresh'.deployment = fresh.deployment \ {s}
    BY <1>0, <1>4 DEF TamperDeployment, RollOut, CollectDeployment, DeploymentMoved, Fresh
  <2>5. orphan.deployment \ {s} \subseteq orphan'.deployment /\ orphan'.service = orphan.service
    BY <1>0, <1>4 DEF TamperDeployment, RollOut, CollectDeployment
  <2> QED
    BY <1>2, <2>2, <2>3, <2>4, <2>5
<1>5. ASSUME NEW s \in Skills, TamperService(s) \/ CollectService(s) PROVE Kept(k)
  <2>1. PutService(s, FALSE)
    BY <1>5 DEF TamperService, CollectService
  <2>2. s = k => Announced(k)'
    BY <2>1, PutAnnounced DEF Announced
  <2>3. UNCHANGED <<run, errors, queue, fresh>>
    BY <1>5 DEF TamperService, CollectService
  <2>4. orphan'.deployment = orphan.deployment /\ orphan'.service = orphan.service \ {s}
    BY <1>0, <1>5 DEF TamperService, CollectService
  <2> QED
    BY <1>2, <2>2, <2>3, <2>4
<1>6. CASE Deliver \/ UNCHANGED vars
  BY <1>1, <1>6 DEF Deliver, DeliverConfig, DeliverDeployment, DeliverService, Take
<1> QED
  BY <1>3, <1>4, <1>5, <1>6 DEF Outside

\* A reconciliation of another object begins.
LEMMA KeptReconcile ==
  ASSUME TypeOK, NEW k \in Configs, NEW j \in Configs, j # k, Reconcile(j)
  PROVE  Kept(k)
<1>0. fresh \in Fresh
  BY DEF TypeOK, ControllersOK
<1>1. ASSUME NEW r, Begin(j, r), r.step # "idle" => r.key = j,
             k \in fresh.config => k \in fresh'.config,
             k \in fresh.deployment => k \in fresh'.deployment
      PROVE  Kept(k)
  <2>1. /\ \A c \in Controllers : run'[c] = IF c = KindOf(j) THEN r ELSE run[c]
        /\ run[KindOf(j)] = Idle /\ UNCHANGED <<orphan, errors>> /\ queue' = queue \ {j}
    BY <1>1 DEF Begin, TypeOK, ControllersOK
  <2>2. KindOf(k) = KindOf(j) => ~Busy(k) /\ ~Busy(k)'
    BY <1>1, <2>1, KindTypes DEF Busy, RunFor, Idle
  <2>3. KindOf(k) # KindOf(j) => RunFor(k)' = RunFor(k) /\ (Busy(k)' <=> Busy(k))
    BY <2>1, KindTypes DEF Busy, RunFor
  <2> QED
    BY <1>1, <2>1, <2>2, <2>3 DEF Kept
<1>2. /\ CopyOf(j) \in Fresh /\ (k \in fresh.config => k \in CopyOf(j).config)
      /\ CopyOf(j).deployment = fresh.deployment
  <2>1. CopyOf(j) \in Fresh
    BY CopyOfType
  <2> QED
    BY <1>0, <2>1 DEF CopyOf, Fresh
<1>3. CASE ReconcileGone(j)
  BY <1>1, <1>3 DEF ReconcileGone, Idle
<1>4. CASE ReconcileUnshared(j) \/ ReconcileProfile(j)
  <2>1. PICK ready : Begin(j, WriteReady(j, ready))
    BY <1>4 DEF ReconcileUnshared, ReconcileProfile
  <2>2. WriteReady(j, ready).key = j
    BY DEF WriteReady, Idle
  <2>3. fresh' = CopyOf(j)
    BY <1>4 DEF ReconcileUnshared, ReconcileProfile
  <2> QED
    BY <1>1, <1>2, <2>1, <2>2, <2>3
<1>5. CASE ReconcileShared(j)
  <2>1. SharedRun(j).key = j /\ Begin(j, SharedRun(j))
    BY <1>5 DEF ReconcileShared, SharedRun, ServiceOf, Idle
  <2> DEFINE copy == CopyOf(j)
  <2>2. fresh' = [copy EXCEPT !.deployment =
                    IF Quiet(watch["Deployment"], j) THEN @ \cup {j} ELSE @ \ {j}]
    BY <1>5 DEF ReconcileShared
  <2> HIDE DEF copy
  <2>3. k \in fresh.config => k \in fresh'.config
    BY <1>2, <2>2 DEF copy, Fresh
  <2>4. k \in fresh.deployment => k \in fresh'.deployment
    BY <1>2, <2>2 DEF copy, Fresh
  <2> QED
    BY <1>1, <2>1, <2>3, <2>4
<1>6. CASE ReconcilePanics(j)
  BY <1>6, KeptOutside DEF ReconcilePanics
<1> QED
  BY <1>3, <1>4, <1>5, <1>6 DEF Reconcile, SkillReconcile, ProfileReconcile

\* A reconciliation of another object goes on.
LEMMA KeptStep ==
  ASSUME TypeOK, NEW k \in Configs, NEW c \in Controllers, StepOf(c), run[c].key # k
  PROVE  Kept(k)
<1>0. /\ fresh \in Fresh /\ orphan \in [deployment : SUBSET Skills, service : SUBSET Skills]
      /\ run \in [Controllers -> RunVal] /\ errors \in Nat
  BY ConstantsAssumption DEF TypeOK, ServerOK, ControllersOK
<1> PICK j : j = run[c].key
  OBVIOUS
<1>1. ASSUME NEW r, run' = [run EXCEPT ![c] = r], r.step # "idle" => r.key = j,
             queue \subseteq queue', fresh.config \ {j} \subseteq fresh'.config,
             fresh.deployment \ {j} \subseteq fresh'.deployment,
             orphan.deployment \subseteq orphan'.deployment, orphan.service \subseteq orphan'.service,
             errors' \in {errors, errors + 1}
      PROVE  Kept(k)
  <2>1. \A d \in Controllers : run'[d] = IF d = c THEN r ELSE run[d]
    BY <1>0, <1>1
  <2>2. KindOf(k) = c => ~Busy(k) /\ ~Busy(k)'
    BY <1>1, <2>1 DEF Busy, RunFor
  <2>3. KindOf(k) # c => RunFor(k)' = RunFor(k) /\ (Busy(k)' <=> Busy(k))
    BY <2>1, KindTypes DEF Busy, RunFor
  <2>4. errors > 0 => errors' > 0
    BY <1>0, <1>1
  <2> QED
    BY <1>1, <2>2, <2>3, <2>4 DEF Kept
<1>2. CASE UpdateStatus(c) \/ UpdateStatusFails(c)
  <2>1. KindOf(j) = c
    BY <1>2 DEF UpdateStatus, UpdateStatusFails, TypeOK, ControllersOK
  <2>2. run' = [run EXCEPT ![c] = Idle] /\ queue \subseteq queue'
    BY <1>2, <2>1 DEF UpdateStatus, UpdateStatusFails, Done
  <2>3. fresh.config \ {j} \subseteq fresh'.config /\ fresh'.deployment = fresh.deployment
    BY <1>0, <1>2 DEF UpdateStatus, UpdateStatusFails, Fresh
  <2>4. orphan' = orphan /\ errors' \in {errors, errors + 1}
    BY <1>2 DEF UpdateStatus, UpdateStatusFails, CallFails
  <2> QED
    BY <1>1, <2>2, <2>3, <2>4 DEF Idle
<1>3. CASE c = "Skill" /\ (CreateDeployment \/ UpdateDeployment \/ CreateService \/ CallRefused \/ SharedCallFails)
  <2>1. PICK r : Continue(r) /\ r.key = j
    <3>1. this \in RunVal /\ this = run[c]
      BY <1>0, <1>3 DEF this
    <3>2. ServiceOf(this).key = this.key
      BY <3>1 DEF ServiceOf, RunVal
    <3>3. \A ready : WriteReady(this.key, ready).key = this.key
      BY DEF WriteReady, Idle
    <3> QED
      BY <1>3, <3>1, <3>2, <3>3 DEF CreateDeployment, UpdateDeployment, CreateService, CallRefused,
                               SharedCallFails, Succeeded
  <2>2. queue' = queue /\ errors' \in {errors, errors + 1}
    BY <1>3 DEF CreateDeployment, UpdateDeployment, CreateService, CallRefused, SharedCallFails, CallFails
  <2>3. fresh'.config = fresh.config /\ fresh.deployment \ {j} \subseteq fresh'.deployment
    BY <1>0, <1>3 DEF CreateDeployment, UpdateDeployment, CreateService, CallRefused, SharedCallFails,
                      DeploymentMoved, Fresh, this
  <2>4. orphan.deployment \subseteq orphan'.deployment /\ orphan.service \subseteq orphan'.service
    BY <1>0, <1>3 DEF CreateDeployment, UpdateDeployment, CreateService, CallRefused, SharedCallFails, Owned
  <2> QED
    BY <1>1, <1>3, <2>1, <2>2, <2>3, <2>4 DEF Continue
<1> QED
  BY <1>2, <1>3 DEF StepOf, SkillStep, ProfileStep

\* So nobody forgets k but its own reconciliation.
LEMMA KeptRemembers ==
  ASSUME TypeOK, FreshExists, [Next]_vars, ~Crash, NEW k \in Configs, Kept(k), RememberedAt(k)
  PROVE  RememberedAt(k)'
<1>1. CASE Told(k)
  BY <1>1, ChangeAnnounced DEF Told, Kept, RememberedAt
<1>2. CASE ~Announced(k)'
  <2>1. /\ config'[k] = config[k] /\ (errors > 0 => errors' > 0)
        /\ k \in Skills => deployment'[k] = deployment[k] /\ (k \in service' <=> k \in service)
    BY <1>2, ChangeAnnounced DEF Kept
  <2>2. /\ Valid(k)' = Valid(k) /\ Shared(k)' = Shared(k) /\ Exists(k)' = Exists(k)
        /\ k \in Skills => Served(k)' = Served(k)
    BY <2>1 DEF Valid, Shared, Exists, Served, ValidSkill, ValidProfile, IsShared
  <2>3. \A ready : Verdict(k, ready) => Verdict(k, ready)'
    BY <2>1, <2>2 DEF Verdict, Shared
  <2>4. AsTrue(k) => AsTrue(k)'
    BY <2>1, <2>2, <2>3 DEF AsTrue
  <2>5. Busy(k) /\ Sure(k) => Sure(k)'
    BY <1>2, <2>1, <2>2, <2>3 DEF Sure, Kept, Shared
  <2> QED
    BY <1>1, <2>4, <2>5 DEF RememberedAt, Kept
<1> QED
  BY <1>2 DEF RememberedAt, Told

\* A reconciliation of k begins with what is stored, or has news of k to come.
LEMMA BeginRemembers ==
  ASSUME IInv, OwnedInv, NEW k \in Configs, Reconcile(k)
  PROVE  RememberedAt(k)'
<1> USE DEF IInv
<1>0. fresh \in Fresh /\ run \in [Controllers -> RunVal]
  BY DEF TypeOK, ControllersOK
<1>1. CASE k \in Skills /\ ReconcilePanics(k)
  BY <1>1 DEF ReconcilePanics, RememberedAt, Told
<1>2. SUFFICES ASSUME NEW r, Begin(k, r), ~Told(k)'
               PROVE  RememberedAt(k)'
  BY <1>1 DEF Reconcile, SkillReconcile, ProfileReconcile, ReconcileGone, ReconcileUnshared,
              ReconcileShared, ReconcileProfile, RememberedAt
<1>3. UNCHANGED <<config, deployment, service, orphan, cache, watch, errors>>
  BY <1>2 DEF Begin
<1>4. /\ Quiet(watch[KindOf(k)], k) /\ k \notin orphan.deployment /\ k \notin orphan.service
      /\ k \in Skills => Quiet(watch["Deployment"], k) /\ Quiet(watch["Service"], k)
  BY <1>2, <1>3 DEF Told, Announced
<1>5. /\ Copy(k) = config[k]
      /\ k \in Skills => cache.deployment[k] = deployment[k] /\ (k \in cache.service <=> k \in service)
  <2>1. Copy(k) = config[k]
    BY <1>4, KindTypes DEF InStep, Coherent, Copy
  <2>2. ASSUME k \in Skills
        PROVE  cache.deployment[k] = deployment[k] /\ (k \in cache.service <=> k \in service)
    BY <1>4, <2>2 DEF OwnedInv, OwnedInStep, Coherent, StoredServices, CachedServices
  <2> QED
    BY <2>1, <2>2
<1>6. /\ Valid(k)' = Valid(k) /\ Shared(k)' = Shared(k) /\ Exists(k)' = Exists(k)
      /\ k \in Skills => Served(k)' = Served(k)
  BY <1>3 DEF Valid, Shared, Exists, Served, ValidSkill, ValidProfile, IsShared
<1>7. \A ready : Verdict(k, ready)' <=> Verdict(k, ready)
  BY <1>3, <1>6 DEF Verdict, Shared
<1>8. ASSUME NEW s, Begin(k, s) PROVE RunFor(k)' = s
  BY <1>0, <1>8, KindTypes DEF Begin, RunFor
<1>9. /\ CopyOf(k) \in Fresh /\ k \in CopyOf(k).config
  <2>1. CopyOf(k) \in Fresh
    BY CopyOfType
  <2> QED
    BY <1>0, <1>4, <2>1 DEF CopyOf, Fresh
<1>10. CASE ReconcileGone(k)
  <2>1. ~Busy(k)'
    BY <1>8, <1>10 DEF ReconcileGone, Busy, Idle
  <2>2. ~Exists(k)
    BY <1>5, <1>10 DEF ReconcileGone, Exists
  <2>3. k \in Skills => deployment[k] = NoDeployment /\ k \notin service
    BY <1>4, <2>2 DEF OwnedInv, LeftBehind
  <2>4. AsTrue(k)'
    BY <1>3, <1>6, <2>2, <2>3 DEF AsTrue
  <2> QED
    BY <2>1, <2>4 DEF RememberedAt
<1>11. ASSUME NEW ready \in {"True", "False"}, Begin(k, WriteReady(k, ready)), fresh' = CopyOf(k),
              ready = "True" <=> Valid(k), ~Shared(k)
       PROVE  RememberedAt(k)'
  <2>1. RunFor(k)' = WriteReady(k, ready)
    BY <1>8, <1>11
  <2>2. RunFor(k)'.key = k /\ RunFor(k)'.step = "status" /\ RunFor(k)'.ready = ready
    BY <2>1 DEF WriteReady, Idle
  <2>3. Verdict(k, ready)'
    BY <1>7, <1>11 DEF Verdict
  <2>4. Busy(k)' /\ Sure(k)'
    BY <1>9, <1>11, <2>2, <2>3 DEF Busy, Sure
  <2> QED
    BY <2>4 DEF RememberedAt
<1>12. CASE k \in Skills /\ ReconcileUnshared(k)
  <2>1. (Valid(k) <=> ValidSkill(Copy(k).spec)) /\ ~Shared(k)
    BY <1>5, <1>12 DEF Valid, Shared, ReconcileUnshared
  <2> QED
    BY <1>11, <1>12, <2>1 DEF ReconcileUnshared
<1>13. CASE k \in Profiles /\ ReconcileProfile(k)
  <2>1. Valid(k) = ValidProfile(Copy(k).spec) /\ ~Shared(k)
    BY <1>5, <1>13, ConstantsAssumption DEF Valid, Shared
  <2> QED
    BY <1>11, <1>13, <2>1 DEF ReconcileProfile
<1>14. CASE k \in Skills /\ ReconcileShared(k)
  <2>1. Exists(k) /\ Shared(k) /\ Valid(k)
    BY <1>5, <1>14 DEF ReconcileShared, Exists, Shared, Valid, IsShared
  <2>2. k \in fresh'.config /\ k \in fresh'.deployment
    <3>1. PICK copy \in Fresh : copy = CopyOf(k)
      BY <1>9
    <3>2. fresh' = [copy EXCEPT !.deployment = @ \cup {k}]
      BY <1>4, <1>14, <3>1 DEF ReconcileShared
    <3> QED
      BY <1>9, <3>1, <3>2 DEF Fresh
  <2>3. RunFor(k)' = SharedRun(k)
    BY <1>8, <1>14 DEF ReconcileShared
  <2>4. /\ SharedRun(k).key = k
        /\ SharedRun(k).step \in {"createDeployment", "updateDeployment", "createService", "status"}
        /\ SharedRun(k).step = "createDeployment" => deployment[k] = NoDeployment
        /\ SharedRun(k).step = "createService" => k \notin service
        /\ SharedRun(k).step = "status" => SharedRun(k).ready = "True" /\ Served(k)
    BY <1>5, <1>14 DEF SharedRun, ServiceOf, Idle, Served
  <2>5. SharedRun(k).step = "status" => Verdict(k, SharedRun(k).ready)
    BY <2>1, <2>4 DEF Verdict
  <2>6. Busy(k)' /\ Sure(k)'
    BY <1>3, <1>6, <1>7, <2>1, <2>2, <2>3, <2>4, <2>5 DEF Busy, Sure
  <2> QED
    BY <2>6 DEF RememberedAt
<1> QED
  BY <1>1, <1>10, <1>12, <1>13, <1>14 DEF Reconcile, SkillReconcile, ProfileReconcile

\* A reconciliation that knows k as it is announces what it writes or leaves k as it should
\* be; one that fails says so, and one whose status update fails is repeated.
LEMMA StepRemembers ==
  ASSUME IInv, OwnedInv, NEW k \in Configs, NEW c \in Controllers, StepOf(c), ~Crash,
         run[c].key = k, RememberedAt(k)
  PROVE  RememberedAt(k)'
<1> USE DEF IInv
<1>0. /\ fresh \in Fresh /\ orphan \in [deployment : SUBSET Skills, service : SUBSET Skills]
      /\ run \in [Controllers -> RunVal] /\ errors \in Nat
  BY ConstantsAssumption DEF TypeOK, ServerOK, ControllersOK
<1>1. Next
  BY DEF StepOf, Next, Operator
<1>2. run[c].step # "idle" /\ c = KindOf(k)
  BY DEF StepOf, SkillStep, ProfileStep, CreateDeployment, UpdateDeployment, CreateService,
         CallRefused, SharedCallFails, UpdateStatus, UpdateStatusFails, this, TypeOK, ControllersOK
<1>3. Busy(k) /\ RunFor(k) = run[c]
  BY <1>2 DEF Busy, RunFor
<1>4. CASE Told(k)
  <2>1. queue \subseteq queue' /\ orphan.deployment \subseteq orphan'.deployment
        /\ orphan.service \subseteq orphan'.service
    BY <1>0 DEF StepOf, SkillStep, ProfileStep, CreateDeployment, UpdateDeployment, CreateService,
       CallRefused, SharedCallFails, UpdateStatus, UpdateStatusFails, Owned, Done
  <2> QED
    BY <1>1, <1>4, <2>1, ChangeAnnounced DEF Told, RememberedAt
<1>5. CASE Sure(k) /\ UpdateStatus(c)
  <2> DEFINE ready == run[c].ready
             v == [config[k] EXCEPT !.ready = ready]
  <2>1. /\ Verdict(k, ready) /\ k \in fresh.config /\ ready \in {"True", "False"}
        /\ config[k] \in ConfigVal(KindOf(k)) /\ Exists(k)
    BY <1>3, <1>5 DEF Sure, UpdateStatus, OwnedInv, VerdictGiven, FreshExists, TypeOK, ServerOK, ConfigMap
  <2>2. v \in ConfigVal(KindOf(k))
    BY <2>1 DEF ConfigVal, Exists, Ready
  <2>3. CASE config[k].ready # ready
    <3>1. PutConfig(k, v, <<Event(k, v)>>)
      BY <1>5, <2>1, <2>3 DEF UpdateStatus, Replaced
    <3>2. Announced(k)'
      BY <2>2, <3>1, PutAnnounced DEF Announced
    <3> QED
      BY <3>2 DEF Told, RememberedAt
  <2>4. CASE config[k].ready = ready
    <3>1. v = config[k]
      BY <2>1, <2>4 DEF ConfigVal, Exists
    <3>2. config'[k] = config[k] /\ UNCHANGED <<deployment, service, errors>>
      BY <1>5, <2>1, <3>1, OthersExist DEF UpdateStatus
    <3>3. ~Busy(k)'
      BY <1>0, <1>2, <1>5 DEF UpdateStatus, Done, Busy, RunFor, Idle
    <3>4. /\ Valid(k)' = Valid(k) /\ Shared(k)' = Shared(k) /\ Exists(k)' = Exists(k)
          /\ k \in Skills => Served(k)' = Served(k)
      BY <3>2 DEF Valid, Shared, Exists, Served, ValidSkill, ValidProfile, IsShared
    <3>5. AsTrue(k)
      BY <2>1, <2>4 DEF AsTrue
    <3>6. AsTrue(k)'
      BY <3>2, <3>4, <3>5 DEF AsTrue, Verdict, Shared
    <3> QED
      BY <3>3, <3>6 DEF RememberedAt
  <2> QED
    BY <2>3, <2>4
<1>6. CASE UpdateStatusFails(c)
  BY <1>6 DEF UpdateStatusFails, Done, RememberedAt, Told
<1>7. CASE Sure(k) /\ c = "Skill" /\ (CreateDeployment \/ UpdateDeployment \/ CreateService)
  <2>1. this.key = k /\ k \in Skills /\ this.image \in Images \cup {None}
    BY <1>0, <1>2, <1>7, KindTypes DEF this, RunVal
  <2>2. Announced(k)'
    BY <1>7, <2>1, ValueTypes, PutAnnounced DEF CreateDeployment, UpdateDeployment, CreateService, Announced
  <2> QED
    BY <2>2 DEF RememberedAt, Told
<1>8. CASE Sure(k) /\ c = "Skill" /\ CallRefused
  BY <1>3, <1>8 DEF Sure, CallRefused, this
<1>9. CASE Sure(k) /\ c = "Skill" /\ SharedCallFails
  <2>1. this.step # "status" /\ k \in fresh.config /\ Shared(k) /\ this.key = k
    BY <1>3, <1>9 DEF SharedCallFails, Sure, this
  <2>2. RunFor(k)' = WriteReady(k, "False")
    BY <1>0, <1>2, <1>9, <2>1 DEF SharedCallFails, Continue, RunFor
  <2>3. RunFor(k)'.step = "status" /\ RunFor(k)'.key = k /\ RunFor(k)'.ready = "False"
    BY <2>2 DEF WriteReady, Idle
  <2>4. UNCHANGED <<config, deployment, service, fresh>> /\ errors' > 0
    BY <1>0, <1>9 DEF SharedCallFails, CallFails
  <2>5. Shared(k)'
    BY <2>1, <2>4 DEF Shared
  <2>6. Verdict(k, "False")'
    BY <2>4, <2>5 DEF Verdict
  <2>7. Busy(k)' /\ Sure(k)'
    BY <2>1, <2>3, <2>4, <2>6 DEF Busy, Sure
  <2> QED
    BY <2>7 DEF RememberedAt
<1> QED
  BY <1>3, <1>4, <1>5, <1>6, <1>7, <1>8, <1>9 DEF StepOf, SkillStep, ProfileStep, RememberedAt

LEMMA CrashRemembers ==
  ASSUME TypeOK, NEW k \in Configs, Crash
  PROVE  RememberedAt(k)'
<1>1. ~Busy(k)' /\ UNCHANGED <<config, deployment, service, errors>>
  BY KindTypes DEF Crash, Busy, RunFor, Idle
<1>2. k \in queue' \/ (~Exists(k) /\ (k \in Skills => deployment[k] = NoDeployment /\ k \notin service))
  BY DEF Crash
<1>3. k \in queue' \/ AsTrue(k)'
  BY <1>1, <1>2 DEF AsTrue, Exists
<1> QED
  BY <1>1, <1>3 DEF RememberedAt, Told

LEMMA RememberedNext ==
  ASSUME IInv, OwnedInv, Remembered, [Next]_vars
  PROVE  Remembered'
<1> SUFFICES ASSUME NEW k \in Configs PROVE RememberedAt(k)'
  BY DEF Remembered
<1>0. TypeOK /\ FreshExists /\ RememberedAt(k)
  BY DEF IInv, Remembered
<1>1. CASE Crash
  BY <1>0, <1>1, CrashRemembers
<1>2. CASE Outside \/ Deliver \/ UNCHANGED vars
  <2>1. CASE Crash
    BY <1>1, <2>1
  <2>2. CASE ~Crash
    BY <1>0, <1>2, <2>2, KeptOutside, KeptRemembers DEF Next
  <2> QED
    BY <2>1, <2>2
<1>3. ASSUME NEW j \in Configs, Reconcile(j), ~Crash PROVE RememberedAt(k)'
  <2>1. CASE j = k
    BY <1>3, <2>1, BeginRemembers
  <2>2. CASE j # k
    BY <1>0, <1>3, <2>2, KeptReconcile, KeptRemembers
  <2> QED
    BY <2>1, <2>2
<1>4. ASSUME NEW c \in Controllers, StepOf(c), ~Crash PROVE RememberedAt(k)'
  <2>1. CASE run[c].key = k
    BY <1>0, <1>4, <2>1, StepRemembers
  <2>2. CASE run[c].key # k
    BY <1>0, <1>4, <2>2, KeptStep, KeptRemembers
  <2> QED
    BY <2>1, <2>2
<1>5. CASE Operator
  <2>1. (\E j \in Configs : Reconcile(j)) \/ (\E c \in Controllers : StepOf(c))
    BY <1>5, KindTypes DEF Operator, Reconcile, StepOf, Controllers
  <2> QED
    BY <1>1, <1>3, <1>4, <2>1
<1> QED
  BY <1>1, <1>2, <1>5 DEF Next

LEMMA RememberedInit == Init => OwnedInv /\ Remembered
<1> SUFFICES ASSUME Init PROVE OwnedInv /\ Remembered
  OBVIOUS
<1> USE DEF Init, ClusterInit
<1>1. OwnedInStep
  <2>1. CachedServices = StoredServices /\ cache.deployment = deployment
        /\ watch["Deployment"] = <<>> /\ watch["Service"] = <<>>
    BY DEF CachedServices, StoredServices, Listing, Kinds
  <2> QED
    BY <2>1, ListCoherent DEF OwnedInStep
<1>2. OwnerExists /\ LeftBehind /\ UpdateFits /\ VerdictGiven
  BY DEF OwnerExists, NoFresh, LeftBehind, UpdateFits, VerdictGiven, Idle, this, Controllers
<1>3. Remembered
  <2> SUFFICES ASSUME NEW k \in Configs PROVE RememberedAt(k)
    BY DEF Remembered
  <2>1. k \in queue \/ ~Exists(k)
    OBVIOUS
  <2>2. ~Busy(k)
    BY KindTypes DEF Busy, RunFor, Idle
  <2>3. ~Exists(k) => AsTrue(k)
    BY DEF AsTrue
  <2> QED
    BY <2>1, <2>2, <2>3 DEF RememberedAt, Told
<1> QED
  BY <1>1, <1>2, <1>3 DEF OwnedInv

LEMMA NoneForgotten == Spec => [](OwnedInv /\ Remembered)
<1>1. IInv /\ OwnedInv /\ Remembered /\ [Next]_vars => OwnedInv' /\ Remembered'
  BY OwnedNext, RememberedNext DEF IInv
<1> QED
  BY <1>1, RememberedInit, Inductive, PTL DEF Spec

LEMMA SettledIsTrue ==
  ASSUME TypeOK, Remembered, Settled, NEW k \in Configs
  PROVE  AsTrue(k)
<1>1. Quiet(watch[KindOf(k)], k) /\ Quiet(watch["Deployment"], k) /\ Quiet(watch["Service"], k)
  <2>1. \A kind \in Kinds : watch[kind] = <<>>
    BY DEF Settled
  <2>2. Quiet(<<>>, k)
    BY DEF Quiet
  <2> QED
    BY <2>1, <2>2, KindTypes
<1>2. ~Told(k)
  BY <1>1 DEF Settled, Told, Announced
<1>3. ~Busy(k)
  BY KindTypes DEF Settled, Busy, RunFor, Idle
<1> QED
  BY <1>2, <1>3 DEF Remembered, RememberedAt

\* Once there is nothing left to do, the Ready condition of every skill and profile is
\* true of what is stored and of what serves it, and a skill that is gone has left
\* nothing behind (Reconcile and setReady of both reconcilers, reconcileSharedDeployment).
THEOREM ReadyIsTrue == Spec => []SettledReadyIsTrue
<1>1. IInv /\ Remembered => SettledReadyIsTrue
  BY SettledIsTrue, KindTypes DEF IInv, SettledReadyIsTrue, AsTrue, Verdict
<1> QED
  BY <1>1, NoneForgotten, Inductive, PTL

-----------------------------------------------------------------------------
(* A system in order is left alone                                           *)

\* The operator has heard of everything it does not find in its caches.
LEMMA CacheCurrent ==
  ASSUME TypeOK, InStep, OwnedInStep, watch = [kind \in Kinds |-> <<>>]
  PROVE  cache = Listing
<1>1. \A kind \in Kinds : watch[kind] = <<>>
  OBVIOUS
<1>2. \A k \in Configs : cache.config[k] = config[k]
  <2> TAKE k \in Configs
  <2>1. Quiet(watch[KindOf(k)], k)
    BY <1>1, KindTypes DEF Quiet
  <2> QED
    BY <2>1, KindTypes DEF InStep, Coherent
<1>3. \A s \in Skills : cache.deployment[s] = deployment[s] /\ (s \in cache.service <=> s \in service)
  <2> TAKE s \in Skills
  <2>1. Quiet(watch["Deployment"], s) /\ Quiet(watch["Service"], s)
    BY <1>1, KindTypes DEF Quiet
  <2>2. cache.deployment[s] = deployment[s] /\ CachedServices[s] = StoredServices[s]
    BY <2>1 DEF OwnedInStep, Coherent
  <2> QED
    BY <2>2, Zenon DEF CachedServices, StoredServices
<1>4. cache.config = config /\ cache.deployment = deployment /\ cache.service = service
  BY <1>2, <1>3 DEF TypeOK, ServerOK, CachesOK, ConfigMap
<1> QED
  BY <1>4 DEF Listing, TypeOK, CachesOK

\* What settles is in order, but for the skills whose calls failed.
LEMMA OrderlyIsAtRest ==
  ASSUME TypeOK, InStep, OwnedInStep, Remembered, Orderly
  PROVE  AtRest
<1>1. InOrder
  <2> SUFFICES ASSUME NEW k \in Configs, Exists(k), ~Panics(k)
               PROVE  /\ config[k].ready = IF Valid(k) THEN "True" ELSE "False"
                      /\ Shared(k) => Served(k)
    BY DEF InOrder
  <2>1. Verdict(k, config[k].ready)
    BY SettledIsTrue DEF Orderly, AsTrue
  <2>2. Shared(k) => Valid(k)
    BY DEF Shared, IsShared, Valid
  <2>3. Valid(k) => config[k].ready = "True"
    BY DEF Orderly
  <2> QED
    BY <2>1, <2>2, <2>3 DEF Verdict
<1>2. watch = [kind \in Kinds |-> <<>>] /\ \A c \in Controllers : run[c].step = "idle"
  BY DEF Orderly, Settled, Idle
<1>3. cache = Listing
  BY <1>2, CacheCurrent
<1> QED
  BY <1>1, <1>2, <1>3 DEF AtRest

\* A verdict that is going to be written is the one that is stored, if the write is accepted.
SaysTheSame(r, current) ==
  \/ r.step = "idle"
  \/ r.step = "status" /\ (r.key \in current => r.ready = config[r.key].ready)

LEMMA StillAtRest ==
  ASSUME AtRest, UNCHANGED <<server, informers>>,
         \A c \in Controllers : SaysTheSame(run'[c], fresh'.config)
  PROVE  AtRest' /\ UNCHANGED server
<1>1. InOrder' /\ Listing' = Listing
  BY DEF AtRest, InOrder, Exists, Panics, Shared, Valid, Served, Listing
<1> QED
  BY <1>1 DEF AtRest, SaysTheSame

\* Whoever looks at a skill or profile comes to the verdict it has.
LEMMA VerdictAtRest ==
  ASSUME TypeOK, AtRest, NEW k \in Configs, Reconcile(k), ~UNCHANGED vars
  PROVE  SaysTheSame(run'[KindOf(k)], Configs)
<1> USE DEF SaysTheSame, Idle, WriteReady
<1>1. Copy(k) = config[k] /\ cache.deployment = deployment /\ cache.service = service
  BY DEF AtRest, Listing, Copy
<1>2. \A r : Begin(k, r) => run'[KindOf(k)] = r
  BY KindTypes DEF Begin, TypeOK, ControllersOK
<1>3. CASE ReconcileGone(k)
  BY <1>2, <1>3 DEF ReconcileGone
<1>4. CASE k \in Skills /\ ReconcileUnshared(k)
  <2>1. Exists(k) /\ ~Panics(k) /\ ~Shared(k)
    BY <1>1, <1>4 DEF ReconcileUnshared, Exists, Panics, Shared
  <2>2. config[k].ready = IF ValidSkill(Copy(k).spec) THEN "True" ELSE "False"
    BY <1>1, <1>4, <2>1 DEF AtRest, InOrder, Valid
  <2> QED
    BY <1>2, <1>4, <2>2 DEF ReconcileUnshared
<1>5. CASE k \in Skills /\ ReconcileShared(k)
  <2>1. Exists(k) /\ ~Panics(k) /\ Shared(k)
    BY <1>1, <1>5 DEF ReconcileShared, Exists, Panics, Shared
  <2>2. Valid(k) /\ config[k].spec.image # None
    BY <1>5, <2>1 DEF Shared, IsShared, ValidSkill, Valid
  <2>3. config[k].ready = "True" /\ deployment[k].image = config[k].spec.image /\ k \in service
    BY <2>1, <2>2 DEF AtRest, InOrder, Served
  <2>4. cache.deployment[k] # NoDeployment
    BY <1>1, <2>2, <2>3 DEF NoDeployment
  <2>5. SharedRun(k) = ServiceOf([Idle EXCEPT !.key = k, !.image = Copy(k).spec.image])
    BY <1>1, <2>3, <2>4 DEF SharedRun
  <2>6. SharedRun(k).step = "status" /\ SharedRun(k).key = k /\ SharedRun(k).ready = "True"
    BY <1>1, <2>3, <2>5 DEF ServiceOf
  <2>7. run'[KindOf(k)] = SharedRun(k)
    BY <1>2, <1>5 DEF ReconcileShared
  <2> QED
    BY <2>3, <2>6, <2>7
<1>6. CASE k \in Profiles /\ ReconcileProfile(k)
  <2>1. k \notin Skills
    BY <1>6, ConstantsAssumption
  <2>2. Exists(k) /\ ~Panics(k)
    BY <1>1, <1>6, <2>1 DEF ReconcileProfile, Exists, Panics, Shared
  <2>3. config[k].ready = IF ValidProfile(Copy(k).spec) THEN "True" ELSE "False"
    BY <1>1, <2>1, <2>2 DEF AtRest, InOrder, Valid
  <2> QED
    BY <1>2, <1>6, <2>3 DEF ReconcileProfile
<1> QED
  BY <1>3, <1>4, <1>5, <1>6 DEF Reconcile, SkillReconcile, ProfileReconcile, ReconcilePanics

LEMMA ReconcileAtRest ==
  ASSUME TypeOK, AtRest, NEW k \in Configs, Reconcile(k), ~UNCHANGED vars
  PROVE  AtRest' /\ UNCHANGED server
<1>1. /\ UNCHANGED <<server, informers>>
      /\ \A c \in Controllers : c # KindOf(k) => run'[c] = run[c]
      /\ \A j \in Configs : j # k /\ j \in fresh'.config => j \in fresh.config
      /\ fresh'.config \subseteq Configs
  <2>1. PICK r : Begin(k, r)
    BY DEF Reconcile, SkillReconcile, ProfileReconcile, ReconcileGone, ReconcileUnshared,
           ReconcilePanics, ReconcileShared, ReconcileProfile
  <2>2. fresh \in Fresh /\ CopyOf(k).config \subseteq Configs /\ \A j \in CopyOf(k).config : j # k => j \in fresh.config
    BY DEF CopyOf, TypeOK, ControllersOK, Fresh
  <2>3. fresh'.config \in {fresh.config, CopyOf(k).config}
    BY <2>2 DEF Reconcile, SkillReconcile, ProfileReconcile, ReconcileGone, ReconcileUnshared,
           ReconcilePanics, ReconcileShared, ReconcileProfile, CopyOf, Fresh
  <2> QED
    BY <2>1, <2>2, <2>3 DEF Begin, TypeOK, ControllersOK, Fresh
<1>2. SaysTheSame(run'[KindOf(k)], fresh'.config)
  BY <1>1, VerdictAtRest DEF SaysTheSame
<1>3. ASSUME NEW c \in Controllers, c # KindOf(k) PROVE SaysTheSame(run'[c], fresh'.config)
  <2>1. run[c].step # "idle" => run[c].key \in Configs /\ run[c].key # k
    BY <1>3 DEF TypeOK, ControllersOK
  <2> QED
    BY <1>1, <1>3, <2>1 DEF AtRest, SaysTheSame
<1> QED
  BY <1>1, <1>2, <1>3, StillAtRest

\* The condition is written as it is stored, and that is no event.
LEMMA WriteAtRest ==
  ASSUME TypeOK, FreshExists, AtRest, NEW c \in Controllers, UpdateStatus(c) \/ UpdateStatusFails(c)
  PROVE  AtRest' /\ UNCHANGED server
<1> DEFINE k == run[c].key
<1>1. k \in Configs /\ KindOf(k) = c
  BY DEF UpdateStatus, UpdateStatusFails, TypeOK, ControllersOK
<1>2. watch = [kind \in Kinds |-> <<>>]
  BY DEF AtRest
<1>3. UNCHANGED <<server, informers>>
  <2>1. CASE UpdateStatus(c) /\ k \in fresh.config
    <3>1. run[c].ready = config[k].ready
      BY <2>1 DEF UpdateStatus, AtRest
    <3>2. Exists(k) /\ config[k] \in ConfigVal(c) /\ config \in ConfigMap
      BY <1>1, <2>1 DEF FreshExists, TypeOK, ServerOK, ConfigMap
    <3>3. [config[k] EXCEPT !.ready = run[c].ready] = config[k]
      BY <3>1, <3>2 DEF ConfigVal, NoConfig
    <3>4. PutConfig(k, config[k], <<>>) /\ UNCHANGED untouched
      BY <2>1, <3>1, <3>3 DEF UpdateStatus, Replaced
    <3>5. config' = config
      BY <1>1, <3>2, <3>4 DEF PutConfig, ConfigMap
    <3>6. watch' = watch
      BY <1>1, <1>2, <3>4, KindTypes, ConcatEmptySeq DEF PutConfig, Sees
    <3> QED
      BY <3>4, <3>5, <3>6
  <2>2. CASE UpdateStatus(c) /\ k \notin fresh.config
    BY <2>2 DEF UpdateStatus
  <2>3. CASE UpdateStatusFails(c)
    BY <2>3 DEF UpdateStatusFails
  <2> QED
    BY <2>1, <2>2, <2>3
<1>4. run' = [run EXCEPT ![c] = Idle] /\ fresh'.config \subseteq fresh.config
  BY <1>1 DEF UpdateStatus, UpdateStatusFails, Done, TypeOK, ControllersOK, Fresh
<1>5. \A d \in Controllers : SaysTheSame(run'[d], fresh'.config)
  BY <1>4 DEF AtRest, SaysTheSame, Idle, TypeOK, ControllersOK
<1> QED
  BY <1>3, <1>5, StillAtRest

LEMMA RestNext ==
  ASSUME TypeOK, FreshExists, AtRest, [Next]_vars, others' # others
  PROVE  AtRest' /\ UNCHANGED server
<1>0. ~UNCHANGED vars
  OBVIOUS
<1>1. ~Outside
  BY DEF Outside, CreateConfig, EditConfig, DeleteConfig, TamperDeployment, TamperService, RollOut,
         CollectDeployment, CollectService
<1>2. ~Deliver
  <2>1. \A kind \in Kinds : watch[kind] = <<>>
    BY DEF AtRest
  <2> QED
    BY <2>1, KindTypes DEF Deliver, DeliverConfig, DeliverDeployment, DeliverService, Take
<1>3. CASE Crash
  <2>1. UNCHANGED <<server, informers>> /\ run' = [c \in Controllers |-> Idle]
    BY <1>3 DEF Crash, AtRest
  <2>2. \A c \in Controllers : SaysTheSame(run'[c], fresh'.config)
    BY <2>1 DEF SaysTheSame, Idle
  <2> QED
    BY <2>1, <2>2, StillAtRest
<1>4. ASSUME SkillStep PROVE UpdateStatus("Skill") \/ UpdateStatusFails("Skill")
  BY <1>4 DEF SkillStep, CreateDeployment, UpdateDeployment, CreateService, CallRefused,
              SharedCallFails, this, AtRest, Controllers
<1>5. ASSUME SkillStep \/ ProfileStep PROVE AtRest' /\ UNCHANGED server
  BY <1>4, <1>5, WriteAtRest DEF ProfileStep, Controllers
<1>6. (\E s \in Skills : SkillReconcile(s)) \/ (\E p \in Profiles : ProfileReconcile(p))
        => \E k \in Configs : Reconcile(k)
  BY DEF Reconcile, Configs
<1> QED
  BY <1>0, <1>1, <1>2, <1>3, <1>5, <1>6, ReconcileAtRest DEF Next, Operator

\* The operator leaves skills and profiles in order alone (RestIsStable): its own
\* conditions, Deployments and Services, failed calls and restarts do not make
\* SkillReconciler or AgentProfileReconciler write anything, until a user or the cluster
\* changes something.
THEOREM RestIsKept == Spec => RestIsStable
<1>1. ASSUME IInv, OwnedInv, Remembered, [Next]_vars
      PROVE  (AtRest \/ Orderly) /\ others' # others => AtRest' /\ UNCHANGED server
  BY <1>1, OrderlyIsAtRest, RestNext DEF IInv, OwnedInv
<1> QED
  BY <1>1, Inductive, NoneForgotten, PTL DEF Spec, RestIsStable

=============================================================================

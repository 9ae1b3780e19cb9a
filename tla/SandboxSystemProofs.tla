------------------------ MODULE SandboxSystemProofs ------------------------
(***************************************************************************)
(* Proofs about SandboxSystem, for any finite set of pods, any claims, any *)
(* Env and any bounds.                                                     *)
(***************************************************************************)
EXTENDS SandboxSystem, InformerProofs, FiniteSetTheorems

USE DEF vars, server, informers, queues, outside, poolUntouched, claimUntouched

-----------------------------------------------------------------------------
(* Type correctness *)

\* The number of pods a list selects.
LEMMA PodCount ==
  ASSUME NEW S, S \subseteq Pods
  PROVE  Cardinality(S) \in Nat
BY ConstantsAssumption, FS_Subset, FS_CardinalityType

\* Values an action writes.
LEMMA ValueTypes ==
  /\ NoClaim \in ClaimVal /\ NewClaim \in ClaimVal
  /\ NoPod \in PodVal /\ NewPod \in PodVal
  /\ ~NoPod.del /\ NewPod # NoPod
  /\ NoClaim.phase = "absent" /\ NoClaim.pod = None /\ ~NoClaim.fin /\ ~NoClaim.del
  /\ NewClaim.phase = "New" /\ NewClaim.pod = None /\ ~NewClaim.fin /\ ~NewClaim.del
BY DEF NoClaim, NewClaim, ClaimVal, NoPod, NewPod, PodVal

LEMMA CoreValues ==
  ASSUME TypeOK
  PROVE  /\ \A c \in Claims : claim[c] \in ClaimVal /\ Deleted(c) \in ClaimVal
         /\ \A p \in Pods : pod[p] \in PodVal /\ Doomed(p) \in PodVal
BY ValueTypes DEF TypeOK, ServerOK, ClaimVal, PodVal, Deleted, Doomed

\* What a watch holds when the API server has announced something or nothing.
LEMMA SeesType ==
  ASSUME TypeOK, NEW kind \in Kinds, NEW e \in EventVal(kind), NEW events \in {<<>>, <<e>>},
         Sees(kind, events)
  PROVE  /\ DOMAIN watch' = Kinds
         /\ \A k \in Kinds : watch'[k] \in Seq(EventVal(k))
<1> DEFINE S == EventVal(kind)
<1> HIDE DEF S
<1>1. watch[kind] \in Seq(S) /\ e \in S
  BY DEF TypeOK, InformersOK, S
<1>2. events \in Seq(S)
  <2>1. <<>> \in Seq(S) /\ <<e>> \in Seq(S)
    BY <1>1
  <2> QED
    BY <2>1
<1>3. watch[kind] \o events \in Seq(S)
  BY <1>1, <1>2, ConcatProperties
<1> QED
  BY <1>3 DEF Sees, TypeOK, InformersOK, S

LEMMA PutTypes ==
  ASSUME TypeOK
  PROVE  /\ \A v \in PoolVal : PutPool(v) => pool' \in PoolVal /\ (cache' = cache => InformersOK')
         /\ \A v \in PolicyVal : PutPolicy(v) => policy' \in PolicyVal /\ (cache' = cache => InformersOK')
         /\ \A c \in Claims, v \in ClaimVal : PutClaim(c, v) =>
              claim' \in [Claims -> ClaimVal] /\ (cache' = cache => InformersOK')
         /\ \A p \in Pods, v \in PodVal : PutPod(p, v) =>
              pod' \in [Pods -> PodVal] /\ (cache' = cache => InformersOK')
<1>1. ASSUME NEW v \in PoolVal, PutPool(v)
      PROVE  pool' \in PoolVal /\ (cache' = cache => InformersOK')
  <2>1. PoolSpec(v) \in EventVal("pool")
    BY DEF PoolVal, PoolSpec, PoolCopy, EventVal
  <2>2. PICK events \in {<<>>, <<PoolSpec(v)>>} : Sees("pool", events)
    BY <1>1, Zenon DEF PutPool
  <2> QED
    BY <1>1, <2>1, <2>2, SeesType DEF PutPool, TypeOK, InformersOK, Kinds
<1>2. ASSUME NEW v \in PolicyVal, PutPolicy(v)
      PROVE  policy' \in PolicyVal /\ (cache' = cache => InformersOK')
  <2>1. v \in EventVal("policy")
    BY DEF EventVal
  <2>2. PICK events \in {<<>>, <<v>>} : Sees("policy", events)
    BY <1>2, Zenon DEF PutPolicy
  <2> QED
    BY <1>2, <2>1, <2>2, SeesType DEF PutPolicy, TypeOK, InformersOK, Kinds
<1>3. ASSUME NEW c \in Claims, NEW v \in ClaimVal, PutClaim(c, v)
      PROVE  claim' \in [Claims -> ClaimVal] /\ (cache' = cache => InformersOK')
  <2>1. Event(c, v) \in EventVal("claim")
    BY DEF EventVal, Event
  <2>2. PICK events \in {<<>>, <<Event(c, v)>>} : Sees("claim", events)
    BY <1>3, Zenon DEF PutClaim
  <2> QED
    BY <1>3, <2>1, <2>2, SeesType DEF PutClaim, TypeOK, ServerOK, InformersOK, Kinds
<1>4. ASSUME NEW p \in Pods, NEW v \in PodVal, PutPod(p, v)
      PROVE  pod' \in [Pods -> PodVal] /\ (cache' = cache => InformersOK')
  <2>1. Event(p, v) \in EventVal("pod")
    BY DEF EventVal, Event
  <2>2. PICK events \in {<<>>, <<Event(p, v)>>} : Sees("pod", events)
    BY <1>4, Zenon DEF PutPod
  <2> QED
    BY <1>4, <2>1, <2>2, SeesType DEF PutPod, TypeOK, ServerOK, InformersOK, Kinds
<1> QED
  BY <1>1, <1>2, <1>3, <1>4

Flags == [pool : BOOLEAN, policy : BOOLEAN, claim : BOOLEAN, pod : BOOLEAN]

LEMMA TypeInit == Init => TypeOK
<1> SUFFICES ASSUME Init PROVE TypeOK
  OBVIOUS
<1>1. ServerOK
  <2>1. pool \in PoolVal
    <3> PICK n \in 0..MaxReplicas :
          pool = [exists |-> TRUE, replicas |-> n, available |-> 0, active |-> 0]
      BY DEF Init, ClusterInit
    <3> QED
      BY DEF PoolVal
  <2>2. claim \in [Claims -> ClaimVal] /\ pod \in [Pods -> PodVal]
    BY ValueTypes DEF Init, ClusterInit
  <2> QED
    BY <2>1, <2>2 DEF Init, ClusterInit, ServerOK, TmplVal, PolicyVal
<1>2. InformersOK
  BY <1>1 DEF Init, ClusterInit, ServerOK, InformersOK, Listing, CacheVal, PoolSpec, PoolVal,
              PoolCopy, EventVal, Kinds
<1>3. ControllersOK
  BY ConstantsAssumption DEF Init, ClusterInit, ControllersOK, PoolIdle, ClaimIdle, NoFresh, maxBurst
<1> QED
  BY <1>1, <1>2, <1>3, ConstantsAssumption DEF TypeOK, Init, ClusterInit

\* What users, agents, the kubelet and the garbage collector do.
LEMMA TypeOutside == TypeOK /\ Outside => TypeOK'
<1> SUFFICES ASSUME TypeOK, Outside PROVE TypeOK'
  OBVIOUS
<1> USE DEF TypeOK, ServerOK, ControllersOK
<1>1. ASSUME Rescale \/ DeletePool PROVE TypeOK'
  <2>1. PICK v \in PoolVal : PutPool(v)
    <3>1. ASSUME NEW n \in 0..MaxReplicas PROVE [pool EXCEPT !.replicas = n] \in PoolVal
      BY DEF PoolVal
    <3>2. [pool EXCEPT !.exists = FALSE] \in PoolVal
      BY DEF PoolVal
    <3> QED
      BY <1>1, <3>1, <3>2 DEF Rescale, DeletePool
  <2>2. pool' \in PoolVal /\ InformersOK'
    BY <1>1, <2>1, PutTypes DEF Rescale, DeletePool
  <2>3. fresh' \in Flags
    BY <1>1 DEF Rescale, DeletePool, Flags
  <2> QED
    BY <1>1, <2>2, <2>3 DEF Rescale, DeletePool, Flags
<1>2. ASSUME CreateTemplate PROVE TypeOK'
  <2>1. tmpl' \in TmplVal /\ tmpl' \in EventVal("tmpl")
    BY <1>2 DEF CreateTemplate, TmplVal, EventVal
  <2>2. InformersOK'
    BY <1>2, <2>1, SeesType DEF CreateTemplate, InformersOK, Kinds
  <2> QED
    BY <1>2, <2>1, <2>2 DEF CreateTemplate
<1>3. ASSUME TamperPolicy \/ CollectPolicy PROVE TypeOK'
  <2>1. PICK v \in PolicyVal : PutPolicy(v)
    BY <1>3 DEF TamperPolicy, CollectPolicy, PolicyVal
  <2>2. policy' \in PolicyVal /\ InformersOK'
    BY <1>3, <2>1, PutTypes DEF TamperPolicy, CollectPolicy
  <2>3. fresh' \in Flags
    BY <1>3 DEF TamperPolicy, CollectPolicy, Flags
  <2> QED
    BY <1>3, <2>2, <2>3 DEF TamperPolicy, CollectPolicy, Flags
<1>4. ASSUME NEW c \in Claims, CreateClaim(c) PROVE TypeOK'
  <2>1. claim' \in [Claims -> ClaimVal] /\ InformersOK'
    BY <1>4, PutTypes, ValueTypes DEF CreateClaim
  <2> QED
    BY <1>4, <2>1 DEF CreateClaim
<1>5. ASSUME NEW c \in Claims, DeleteClaim(c) PROVE TypeOK'
  <2>1. claim' \in [Claims -> ClaimVal] /\ InformersOK'
    BY <1>5, PutTypes, CoreValues DEF DeleteClaim
  <2>2. fresh' \in Flags
    BY <1>5 DEF DeleteClaim, ClaimMoved, Flags
  <2> QED
    BY <1>5, <2>1, <2>2 DEF DeleteClaim, Flags
<1>6. ASSUME NEW c \in Claims, TTLElapses(c) \/ TimerFires(c) PROVE TypeOK'
  BY <1>6 DEF TTLElapses, TimerFires, InformersOK
<1>7. ASSUME NEW p \in Pods, NEW v \in PodVal, PodWrites(p, v) PROVE TypeOK'
  <2>1. pod' \in [Pods -> PodVal] /\ InformersOK'
    BY <1>7, PutTypes DEF PodWrites
  <2>2. fresh' \in Flags
    BY <1>7 DEF PodWrites, PodMoved, Flags
  <2> QED
    BY <1>7, <2>1, <2>2 DEF PodWrites, Flags
<1>8. ASSUME NEW p \in Pods, PodRuns(p) \/ EvictPod(p) \/ RemovePod(p) \/ CollectPod(p)
      PROVE  TypeOK'
  <2>1. [pod[p] EXCEPT !.phase = "Running"] \in PodVal
    BY DEF PodVal
  <2> QED
    BY <1>7, <1>8, <2>1, CoreValues, ValueTypes DEF PodRuns, EvictPod, RemovePod, CollectPod
<1> QED
  BY <1>1, <1>2, <1>3, <1>4, <1>5, <1>6, <1>8 DEF Outside

\* Deliveries and restarts.
LEMMA TakeType ==
  ASSUME TypeOK, NEW kind \in Kinds, watch[kind] # <<>>,
         watch' = [watch EXCEPT ![kind] = Tail(@)]
  PROVE  /\ Head(watch[kind]) \in EventVal(kind)
         /\ DOMAIN watch' = Kinds
         /\ \A k \in Kinds : watch'[k] \in Seq(EventVal(k))
<1> DEFINE S == EventVal(kind)
<1> HIDE DEF S
<1>1. watch[kind] \in Seq(S)
  BY DEF TypeOK, InformersOK, S
<1>2. Head(watch[kind]) \in S /\ Tail(watch[kind]) \in Seq(S)
  BY <1>1, HeadTailProperties
<1> QED
  BY <1>2 DEF TypeOK, InformersOK, S

LEMMA TypeDeliver == TypeOK /\ (Deliver \/ Crash) => TypeOK'
<1> SUFFICES ASSUME TypeOK, Deliver \/ Crash PROVE TypeOK'
  OBVIOUS
<1> USE DEF TypeOK, ServerOK, ControllersOK
<1>1. ASSUME NEW kind \in Kinds, NEW v, Take(kind, v),
             Head(watch[kind]) \in EventVal(kind) => [cache EXCEPT ![kind] = v] \in CacheVal
      PROVE  InformersOK' /\ Head(watch[kind]) \in EventVal(kind)
  BY <1>1, TakeType DEF Take, InformersOK
<1>2. cache \in CacheVal
  BY DEF InformersOK
<1>3. ASSUME DeliverPool \/ DeliverTemplate \/ DeliverPolicy PROVE TypeOK'
  <2>1. ASSUME NEW kind \in {"pool", "tmpl", "policy"}, Take(kind, Head(watch[kind]))
        PROVE  InformersOK'
    <3>1. Head(watch[kind]) \in EventVal(kind) => [cache EXCEPT ![kind] = Head(watch[kind])] \in CacheVal
      BY <1>2 DEF EventVal, CacheVal
    <3> QED
      BY <1>1, <2>1, <3>1 DEF Kinds
  <2> QED
    BY <1>3, <2>1 DEF DeliverPool, DeliverTemplate, DeliverPolicy, Take
<1>4. ASSUME DeliverPod PROVE TypeOK'
  <2> DEFINE e == Head(watch["pod"])
  <2>1. e \in EventVal("pod") => [cache EXCEPT !["pod"] = Apply(cache.pod, e)] \in CacheVal
    BY <1>2 DEF EventVal, CacheVal, Apply
  <2>2. InformersOK'
    BY <1>1, <1>4, <2>1 DEF DeliverPod, Kinds
  <2> QED
    BY <1>4, <2>2 DEF DeliverPod, Take
<1>5. ASSUME DeliverClaim PROVE TypeOK'
  <2> DEFINE e == Head(watch["claim"])
  <2>1. e \in EventVal("claim") => [cache EXCEPT !["claim"] = Apply(cache.claim, e)] \in CacheVal
    BY <1>2 DEF EventVal, CacheVal, Apply
  <2>2. InformersOK' /\ e \in EventVal("claim")
    BY <1>1, <1>5, <2>1 DEF DeliverClaim, Kinds
  <2>3. e.key \in Claims
    BY <2>2 DEF EventVal
  <2> QED
    BY <1>5, <2>2, <2>3 DEF DeliverClaim, Take
<1>6. ASSUME Crash PROVE TypeOK'
  <2>1. InformersOK'
    BY <1>6 DEF Crash, InformersOK, Listing, CacheVal, PoolSpec, PoolVal, PoolCopy, EventVal, Kinds
  <2>2. ControllersOK'
    BY <1>6, ConstantsAssumption DEF Crash, PoolIdle, ClaimIdle, NoFresh, maxBurst
  <2>3. faults' \in 0..MaxFaults
    BY <1>6, ConstantsAssumption DEF Crash
  <2> QED
    BY <1>6, <2>1, <2>2, <2>3 DEF Crash
<1> QED
  BY <1>3, <1>4, <1>5, <1>6 DEF Deliver

\* The pool controller.
PoolRuns == [step : {"idle", "clear", "policy", "create", "delete", "status"},
             desired : 0..MaxReplicas, create : 0..maxBurst, early : BOOLEAN, excess : Nat,
             candidates : SUBSET Pods, warm : Nat, claimed : Nat]

LEMMA PoolRunTypes ==
  ASSUME TypeOK
  PROVE  /\ PoolIdle \in PoolRuns
         /\ [PoolIdle EXCEPT !.step = "clear"] \in PoolRuns
         /\ \A n \in 0..MaxReplicas : PolicyRun(n) \in PoolRuns /\ PoolPlan(n) \in PoolRuns
<1>1. /\ PoolIdle \in PoolRuns
      /\ [PoolIdle EXCEPT !.step = "clear"] \in PoolRuns
      /\ \A n \in 0..MaxReplicas : PolicyRun(n) \in PoolRuns
  <2>1. PoolIdle \in PoolRuns
    <3>1. 0 \in 0..maxBurst /\ 0 \in 0..MaxReplicas
      BY ConstantsAssumption DEF maxBurst
    <3> QED
      BY <3>1 DEF PoolIdle, PoolRuns
  <2>2. [PoolIdle EXCEPT !.step = "clear"] \in PoolRuns
    BY <2>1 DEF PoolRuns
  <2>3. ASSUME NEW n \in 0..MaxReplicas PROVE PolicyRun(n) \in PoolRuns
    BY <2>1 DEF PolicyRun, PoolRuns
  <2> QED
    BY <2>1, <2>2, <2>3
<1>2. ASSUME NEW desired \in 0..MaxReplicas PROVE PoolPlan(desired) \in PoolRuns
  <2> DEFINE warm     == Cardinality(WarmIn(cache.pod))
             claimed  == Cardinality(ClaimedIn(cache.pod))
             missing  == IF warm < desired THEN desired - warm ELSE 0
             toCreate == IF missing > maxBurst THEN maxBurst ELSE missing
             excess   == IF warm > desired THEN warm - desired ELSE 0
  <2>1. WarmIn(cache.pod) \subseteq Pods /\ ClaimedIn(cache.pod) \subseteq Pods
    BY DEF WarmIn, ClaimedIn, Live
  <2>2. warm \in Nat /\ claimed \in Nat
    BY <2>1, PodCount
  <2>3. desired \in Nat /\ 0 \in 0..MaxReplicas
    BY ConstantsAssumption
  <2> HIDE DEF warm, claimed
  <2>4. toCreate \in 0..maxBurst /\ excess \in Nat /\ (toCreate < missing) \in BOOLEAN
    BY <2>2, <2>3 DEF maxBurst
  <2> HIDE DEF toCreate, excess, missing
  <2>5. PoolPlan(desired) =
                   [step |-> CASE toCreate > 0 -> "create"
                              [] excess > 0   -> "delete"
                              [] OTHER        -> "status",
                    desired |-> 0, create |-> toCreate, early |-> toCreate < missing, excess |-> excess,
                    candidates |-> IF excess > 0 THEN WarmIn(cache.pod) ELSE {},
                    warm |-> warm, claimed |-> claimed]
    BY DEF PoolPlan, warm, claimed, missing, toCreate, excess
  <2> QED
    BY <2>1, <2>2, <2>3, <2>4, <2>5 DEF PoolRuns
<1> QED
  BY <1>1, <1>2

\* What a step of the pool controller leaves to the rest of the type invariant.
LEMMA PoolStepType ==
  ASSUME TypeOK, pool' \in PoolVal, policy' \in PolicyVal, pod' \in [Pods -> PodVal],
         InformersOK', poolQueue' \in BOOLEAN, pr' \in PoolRuns, fresh' \in Flags,
         faults' \in 0..MaxFaults, UNCHANGED poolUntouched
  PROVE  TypeOK'
BY DEF TypeOK, ServerOK, ControllersOK, PoolRuns, Flags

LEMMA TypePool == TypeOK /\ (PoolReconcile \/ PoolStep) => TypeOK'
<1> SUFFICES ASSUME TypeOK, PoolReconcile \/ PoolStep PROVE TypeOK'
  OBVIOUS
<1>0. /\ pool \in PoolVal /\ policy \in PolicyVal /\ pod \in [Pods -> PodVal]
      /\ poolQueue \in BOOLEAN /\ pr \in PoolRuns /\ fresh \in Flags /\ faults \in 0..MaxFaults
  BY DEF TypeOK, ServerOK, ControllersOK, PoolRuns, Flags
<1>1. UNCHANGED informers => InformersOK'
  BY DEF TypeOK, InformersOK
<1>2. ASSUME NEW requeue \in BOOLEAN, PoolDone(requeue)
      PROVE  pr' \in PoolRuns /\ poolQueue' \in BOOLEAN /\ fresh' \in Flags
  BY <1>0, <1>2, PoolRunTypes DEF PoolDone, Flags
<1>3. ASSUME NEW hasName, Refused(hasName) PROVE faults' \in 0..MaxFaults
  BY <1>0, <1>3, ConstantsAssumption DEF Refused
<1>4. ASSUME PoolReconcile PROVE TypeOK'
  <2>1. pr' \in PoolRuns
    <3>1. cache.pool.replicas \in 0..MaxReplicas
      BY DEF TypeOK, InformersOK, CacheVal, PoolCopy
    <3> QED
      BY <1>0, <1>4, <3>1, PoolRunTypes DEF PoolReconcile
  <2>2. fresh' \in Flags
    BY <1>0, <1>4 DEF PoolReconcile, Flags
  <2> QED
    BY <1>0, <1>1, <1>4, <2>1, <2>2, PoolStepType DEF PoolReconcile
<1>5. ASSUME ClearPoolStatus PROVE TypeOK'
  <2>1. pool' \in PoolVal /\ InformersOK'
    <3>1. [pool EXCEPT !.available = 0, !.active = 0] \in PoolVal
      BY <1>0 DEF PoolVal
    <3> QED
      BY <1>0, <1>1, <1>5, <3>1, PutTypes DEF ClearPoolStatus
  <2>2. faults' \in 0..MaxFaults
    BY <1>0, <1>3, <1>5 DEF ClearPoolStatus
  <2> QED
    BY <1>0, <1>2, <1>5, <2>1, <2>2, PoolStepType DEF ClearPoolStatus
<1>6. ASSUME EnsurePolicy PROVE TypeOK'
  <2>1. policy' \in PolicyVal /\ InformersOK'
    BY <1>6, PutTypes DEF EnsurePolicy, PolicyVal
  <2>2. fresh' \in Flags
    BY <1>0, <1>6 DEF EnsurePolicy, Flags
  <2>3. pr' \in PoolRuns
    <3>1. pr.desired \in 0..MaxReplicas
      BY <1>0 DEF PoolRuns
    <3> QED
      BY <1>6, <3>1, PoolRunTypes DEF EnsurePolicy
  <2> QED
    BY <1>0, <1>6, <2>1, <2>2, <2>3, PoolStepType DEF EnsurePolicy
<1>7. ASSUME EnsurePolicyFails \/ CreateSandboxPodFails \/ UpdatePoolStatusFails PROVE TypeOK'
  <2>1. faults' \in 0..MaxFaults
    BY <1>0, <1>3, <1>7 DEF EnsurePolicyFails, CreateSandboxPodFails, UpdatePoolStatusFails
  <2>2. PoolDone(TRUE) /\ UNCHANGED <<pool, policy, pod, informers, poolUntouched>>
    BY <1>7 DEF EnsurePolicyFails, CreateSandboxPodFails, UpdatePoolStatusFails
  <2> QED
    BY <1>0, <1>1, <1>2, <2>1, <2>2, PoolStepType
<1>8. ASSUME CreateSandboxPod PROVE TypeOK'
  <2>1. pod' \in [Pods -> PodVal] /\ InformersOK'
    BY <1>8, PutTypes, ValueTypes DEF CreateSandboxPod
  <2>2. pr' \in PoolRuns /\ poolQueue' \in BOOLEAN /\ fresh' \in Flags
    <3>1. pr.create > 1 => [pr EXCEPT !.create = pr.create - 1] \in PoolRuns
      BY <1>0 DEF PoolRuns, maxBurst
    <3>2. [pr EXCEPT !.create = 0, !.step = "status"] \in PoolRuns
      <4>1. 0 \in 0..maxBurst
        BY DEF maxBurst
      <4>2. [pr EXCEPT !.create = 0] \in PoolRuns
        BY <1>0, <4>1 DEF PoolRuns
      <4> QED
        BY <1>0, <4>1 DEF PoolRuns
    <3> QED
      BY <1>0, <1>2, <1>8, <3>1, <3>2 DEF CreateSandboxPod
  <2> QED
    BY <1>0, <1>8, <2>1, <2>2, PoolStepType DEF CreateSandboxPod
<1>9. ASSUME NEW p \in Pods, DeleteExcessPod(p) \/ DeleteExcessPodFails(p) PROVE TypeOK'
  <2>1. pod' \in [Pods -> PodVal] /\ InformersOK'
    BY <1>0, <1>1, <1>9, PutTypes, CoreValues DEF DeleteExcessPod, DeleteExcessPodFails
  <2>2. pr' \in PoolRuns
    <3>1. PICK n \in {0, 1} : DeletedSoFar(p, n)
      BY <1>9 DEF DeleteExcessPod, DeleteExcessPodFails
    <3>2. PICK excess \in Nat, rest \in SUBSET Pods, step \in {"delete", "status"} :
            pr' = [pr EXCEPT !.excess = excess, !.candidates = rest, !.step = step]
      <4> DEFINE more == pr.excess > n /\ pr.candidates # {p}
      <4>1. (IF more THEN pr.excess - n ELSE 0) \in Nat
        BY <1>0 DEF PoolRuns
      <4>2. (IF more THEN pr.candidates \ {p} ELSE {}) \in SUBSET Pods
        BY <1>0 DEF PoolRuns
      <4>3. (IF more THEN "delete" ELSE "status") \in {"delete", "status"}
        OBVIOUS
      <4> QED
        BY <3>1, <4>1, <4>2, <4>3, Zenon DEF DeletedSoFar
    <3> QED
      BY <1>0, <3>2 DEF PoolRuns
  <2>3. fresh' \in Flags
    BY <1>0, <1>9 DEF DeleteExcessPod, DeleteExcessPodFails, PodMoved, Flags
  <2>4. faults' \in 0..MaxFaults
    BY <1>0, <1>3, <1>9 DEF DeleteExcessPod, DeleteExcessPodFails
  <2> QED
    BY <1>0, <1>9, <2>1, <2>2, <2>3, <2>4, PoolStepType DEF DeleteExcessPod, DeleteExcessPodFails
<1>10. ASSUME UpdatePoolStatus PROVE TypeOK'
  <2>1. pool' \in PoolVal /\ InformersOK'
    <3>1. [pool EXCEPT !.available = pr.warm, !.active = pr.claimed] \in PoolVal
      BY <1>0 DEF PoolVal, PoolRuns
    <3> QED
      BY <1>0, <1>1, <1>10, <3>1, PutTypes DEF UpdatePoolStatus
  <2>2. (~pool.exists) \in BOOLEAN
    BY <1>0 DEF PoolVal
  <2> QED
    BY <1>0, <1>2, <1>10, <2>1, <2>2, PoolStepType DEF UpdatePoolStatus
<1> QED
  BY <1>4, <1>5, <1>6, <1>7, <1>8, <1>9, <1>10 DEF PoolStep

\* The claim controller.
ClaimRuns == [step : {"idle", "finalize", "release", "unfinalize", "expire", "delete",
                      "pending", "fail", "label", "bind"},
              key : Claims \cup {None}, pod : Pods \cup {None}]

ClaimRunOK(r) ==
  /\ r \in ClaimRuns
  /\ r.step # "idle" => r.key \in Claims
  /\ r.step \in {"release", "label", "bind"} => r.pod \in Pods

LEMMA ClaimStepType ==
  ASSUME TypeOK, claim' \in [Claims -> ClaimVal], pod' \in [Pods -> PodVal], InformersOK',
         claimQueue' \in SUBSET Claims, timers' \in SUBSET Claims, elapsed' \in SUBSET Claims,
         ClaimRunOK(cr'), fresh' \in Flags, faults' \in 0..MaxFaults,
         UNCHANGED <<pool, tmpl, policy, poolQueue, pr>>
  PROVE  TypeOK'
BY DEF TypeOK, ServerOK, ControllersOK, ClaimRunOK, ClaimRuns, Flags

\* Picking a warm pod.
LEMMA PickPodType ==
  ASSUME TypeOK, NEW r \in ClaimRuns, r.key \in Claims, NEW current \in BOOLEAN,
         PickPod(r, current)
  PROVE  ClaimRunOK(cr') /\ fresh' \in Flags
<1>1. fresh \in Flags
  BY DEF TypeOK, ControllersOK, Flags
<1>2. CASE cr' = [r EXCEPT !.step = "fail"] /\ fresh' = [fresh EXCEPT !.claim = current]
  BY <1>1, <1>2 DEF ClaimRunOK, ClaimRuns, Flags
<1>3. ASSUME NEW p \in WarmIn(cache.pod), cr' = [r EXCEPT !.step = "label", !.pod = p],
             fresh' = [fresh EXCEPT !.claim = current, !.pod = Quiet(watch.pod, p)]
      PROVE  ClaimRunOK(cr') /\ fresh' \in Flags
  <2>1. p \in Pods
    BY DEF WarmIn, Live
  <2>2. Quiet(watch.pod, p) \in BOOLEAN
    BY DEF Quiet
  <2> QED
    BY <1>1, <1>3, <2>1, <2>2 DEF ClaimRunOK, ClaimRuns, Flags
<1> QED
  BY <1>2, <1>3 DEF PickPod

LEMMA TypeDispatch ==
  ASSUME TypeOK, NEW c \in Claims, ClaimReconcile(c)
  PROVE  TypeOK'
<1> DEFINE copy == cache.claim[c]
<1>0. /\ copy \in ClaimVal /\ fresh \in Flags /\ cr \in ClaimRuns
      /\ claim \in [Claims -> ClaimVal] /\ pod \in [Pods -> PodVal] /\ faults \in 0..MaxFaults
      /\ claimQueue \in SUBSET Claims /\ timers \in SUBSET Claims /\ elapsed \in SUBSET Claims
  BY DEF TypeOK, ServerOK, InformersOK, CacheVal, ControllersOK, ClaimRuns, Flags
<1> HIDE DEF copy
<1>1. UNCHANGED informers => InformersOK'
  BY DEF TypeOK, InformersOK
<1>2. ASSUME NEW step \in {"idle", "finalize", "release", "unfinalize", "expire", "pending"},
             NEW p \in Pods \cup {None}, step = "release" => p \in Pods, Begin(c, step, p),
             fresh' \in Flags, timers' \in SUBSET Claims
      PROVE  TypeOK'
  <2>1. ClaimRunOK(cr') /\ claimQueue' \in SUBSET Claims
    BY <1>0, <1>2 DEF Begin, ClaimIdle, ClaimRunOK, ClaimRuns
  <2> QED
    BY <1>0, <1>1, <1>2, <2>1, ClaimStepType DEF Begin
<1>3. CopyOf(c) => fresh' \in Flags
  BY <1>0 DEF CopyOf, Quiet, Flags
<1>4. CASE ReconcileDeleted(c)
  <2> DEFINE step == IF copy.pod = None THEN "unfinalize" ELSE "release"
  <2>1. Begin(c, step, copy.pod) /\ copy.pod \in Pods \cup {None}
    BY <1>0, <1>4 DEF ReconcileDeleted, ClaimVal, copy
  <2> QED
    BY <1>0, <1>2, <1>3, <1>4, <2>1 DEF ReconcileDeleted
<1>5. CASE ReconcileBound(c)
  BY <1>0, <1>2, <1>3, <1>5 DEF ReconcileBound
<1>6. CASE ReconcilePending(c)
  <2>1. [ClaimIdle EXCEPT !.key = c] \in ClaimRuns
    BY DEF ClaimIdle, ClaimRuns
  <2>2. ClaimRunOK(cr') /\ fresh' \in Flags
    BY <1>6, <2>1, PickPodType DEF ReconcilePending, ClaimIdle, Quiet
  <2> QED
    BY <1>0, <1>1, <1>6, <2>2, ClaimStepType DEF ReconcilePending
<1>7. CASE ReconcileGone(c) \/ ReconcileNoFinalizer(c) \/ ReconcileFailed(c) \/ ReconcileNew(c)
  BY <1>0, <1>2, <1>3, <1>7 DEF ReconcileGone, ReconcileNoFinalizer, ReconcileFailed, ReconcileNew
<1> QED
  BY <1>4, <1>5, <1>6, <1>7 DEF ClaimReconcile

LEMMA TypeClaimStep == TypeOK /\ ClaimStep => TypeOK'
<1> SUFFICES ASSUME TypeOK, ClaimStep PROVE TypeOK'
  OBVIOUS
<1>0. /\ fresh \in Flags /\ ClaimRunOK(cr)
      /\ claim \in [Claims -> ClaimVal] /\ pod \in [Pods -> PodVal] /\ faults \in 0..MaxFaults
      /\ claimQueue \in SUBSET Claims /\ timers \in SUBSET Claims /\ elapsed \in SUBSET Claims
  BY DEF TypeOK, ServerOK, ControllersOK, ClaimRunOK, ClaimRuns, Flags
<1>1. UNCHANGED informers => InformersOK'
  BY DEF TypeOK, InformersOK
<1>2. ASSUME NEW requeue \in BOOLEAN, ClaimDone(requeue), cr.key \in Claims
      PROVE  ClaimRunOK(cr') /\ claimQueue' \in SUBSET Claims /\ fresh' \in Flags
  BY <1>0, <1>2 DEF ClaimDone, ClaimRunOK, ClaimRuns, ClaimIdle, Flags
<1>3. ASSUME NEW c \in Claims, NEW v \in ClaimVal, PutClaim(c, v) \/ PutStatus(c, v), cache' = cache
      PROVE  claim' \in [Claims -> ClaimVal] /\ InformersOK'
  BY <1>0, <1>1, <1>3, PutTypes DEF PutStatus
<1>4. ASSUME NEW c \in Claims, NEW phase \in {"Pending", "Failed", "Released"}
      PROVE  [claim[c] EXCEPT !.phase = phase] \in ClaimVal
  BY <1>0 DEF ClaimVal
<1>5. cr.step # "idle" => cr.key \in Claims
  BY <1>0 DEF ClaimRunOK
<1>6. CASE AddFinalizer
  <2>1. claim[cr.key] \in ClaimVal
    BY <1>0, <1>5, <1>6 DEF AddFinalizer
  <2>2. [claim[cr.key] EXCEPT !.fin = TRUE] \in ClaimVal
    BY <2>1 DEF ClaimVal
  <2> QED
    BY <1>0, <1>2, <1>3, <1>5, <1>6, <2>2, ClaimStepType DEF AddFinalizer
<1>7. CASE ReleasePod
  <2>1. cr.pod \in Pods /\ Doomed(cr.pod) \in PodVal
    BY <1>0, <1>7, CoreValues DEF ReleasePod, ClaimRunOK
  <2>2. pod' \in [Pods -> PodVal] /\ InformersOK'
    BY <1>7, <2>1, PutTypes DEF ReleasePod
  <2>3. ClaimRunOK(cr')
    BY <1>0, <1>7 DEF ReleasePod, ClaimRunOK, ClaimRuns
  <2> QED
    BY <1>0, <1>7, <2>2, <2>3, ClaimStepType DEF ReleasePod
<1>8. CASE RemoveFinalizer
  BY <1>0, <1>2, <1>3, <1>5, <1>8, ValueTypes, ClaimStepType DEF RemoveFinalizer
<1>9. CASE MarkReleased
  <2>1. ClaimRunOK(cr')
    BY <1>0, <1>9 DEF MarkReleased, ClaimRunOK, ClaimRuns
  <2> QED
    BY <1>0, <1>3, <1>4, <1>5, <1>9, <2>1, ClaimStepType DEF MarkReleased
<1>10. CASE DeleteExpired
  BY <1>0, <1>2, <1>3, <1>5, <1>10, CoreValues, ClaimStepType DEF DeleteExpired
<1>11. CASE MarkPending
  <2>1. claim' \in [Claims -> ClaimVal] /\ InformersOK'
    BY <1>3, <1>4, <1>5, <1>11 DEF MarkPending
  <2>2. ClaimRunOK(cr') /\ fresh' \in Flags
    BY <1>0, <1>5, <1>11, PickPodType DEF MarkPending, ClaimRunOK, Flags
  <2> QED
    BY <1>0, <1>11, <2>1, <2>2, ClaimStepType DEF MarkPending
<1>12. CASE MarkFailed
  BY <1>0, <1>2, <1>3, <1>4, <1>5, <1>12, ClaimStepType DEF MarkFailed
<1>13. CASE LabelPod
  <2>1. cr.pod \in Pods /\ [pod[cr.pod] EXCEPT !.claim = cr.key] \in PodVal
    BY <1>0, <1>5, <1>13 DEF LabelPod, ClaimRunOK, PodVal
  <2>2. pod' \in [Pods -> PodVal] /\ InformersOK'
    BY <1>13, <2>1, PutTypes DEF LabelPod
  <2>3. ClaimRunOK(cr')
    BY <1>0, <1>13 DEF LabelPod, ClaimRunOK, ClaimRuns
  <2> QED
    BY <1>0, <1>13, <2>2, <2>3, ClaimStepType DEF LabelPod
<1>14. CASE BindClaim
  <2>0. cr.pod \in Pods /\ claim[cr.key] \in ClaimVal
    BY <1>0, <1>5, <1>14 DEF BindClaim, ClaimRunOK
  <2>1. [claim[cr.key] EXCEPT !.phase = "Bound", !.pod = cr.pod] \in ClaimVal
    BY <2>0 DEF ClaimVal
  <2>2. timers' \in SUBSET Claims /\ elapsed' \in SUBSET Claims
    BY <1>0, <1>5, <1>14 DEF BindClaim
  <2> QED
    BY <1>0, <1>2, <1>3, <1>5, <1>14, <2>1, <2>2, ClaimStepType DEF BindClaim
<1>15. CASE ClaimCallRefused \/ ClaimCallFails
  <2>1. cr.key \in Claims /\ ClaimFails
    BY <1>5, <1>15 DEF ClaimCallRefused, ClaimCallFails
  <2>2. faults' \in 0..MaxFaults
    BY <1>0, <1>15, ConstantsAssumption DEF ClaimCallRefused, ClaimCallFails, Refused
  <2> QED
    BY <1>0, <1>1, <1>2, <2>1, <2>2, ClaimStepType DEF ClaimFails
<1> QED
  BY <1>6, <1>7, <1>8, <1>9, <1>10, <1>11, <1>12, <1>13, <1>14, <1>15 DEF ClaimStep

LEMMA TypeNext == TypeOK /\ [Next]_vars => TypeOK'
<1> SUFFICES ASSUME TypeOK, [Next]_vars PROVE TypeOK'
  OBVIOUS
<1>1. CASE UNCHANGED vars
  BY <1>1 DEF TypeOK, ServerOK, InformersOK, ControllersOK
<1> QED
  BY <1>1, TypeOutside, TypeDeliver, TypePool, TypeDispatch, TypeClaimStep DEF Next, Operator

-----------------------------------------------------------------------------
(* The NetworkPolicy precedes the pods: until the operator has read a        *)
(* template there are none, and from then on every change of the policy      *)
(* keeps the pool controller busy.                                           *)

\* Templates do not change, and a pool that is gone stays gone.
Known ==
  /\ cache.tmpl # "absent" => cache.tmpl = tmpl
  /\ watch.tmpl \in Seq({tmpl} \ {"absent"})
  /\ pool.exists => cache.pool.exists /\ watch.pool \in Seq({v \in PoolCopy : v.exists})

\* A pool that has pods, or is about to, has read its template.
Planned == {"policy", "create", "delete", "status"}
TemplateRead == Live(pod) # {} \/ pr.step \in Planned => cache.tmpl # "absent"

\* There are pods, or the next call creates one.
Populated == Live(pod) # {} \/ pr.step = "create"

Attended == watch.policy # <<>> \/ poolQueue \/ pr.step = "policy"

PolicyFirst == tmpl = "managed" /\ pool.exists /\ policy # "desired" /\ Populated => Attended

PolicyInv == Known /\ TemplateRead /\ PolicyFirst

LEMMA PolicyInit == Init => PolicyInv
<1> SUFFICES ASSUME Init PROVE PolicyInv
  OBVIOUS
<1>1. Live(pod) = {}
  BY ValueTypes DEF Init, ClusterInit, Live, NoPod
<1>2. watch.tmpl = <<>> /\ watch.pool = <<>> /\ pr.step = "idle"
  BY DEF Init, ClusterInit, Kinds, PoolIdle
<1>3. cache.tmpl = tmpl /\ cache.pool.exists = pool.exists
  BY DEF Init, ClusterInit, Listing, PoolSpec
<1> QED
  BY <1>1, <1>2, <1>3 DEF PolicyInv, Known, TemplateRead, PolicyFirst, Populated, Planned

\* Only pods that are created add to those that live.
LEMMA LivePods ==
  ASSUME TypeOK, NEW p \in Pods, NEW v \in PodVal, PutPod(p, v),
         p \in Live(pod) \/ v.del \/ v.phase = "absent"
  PROVE  Live(pod') \subseteq Live(pod)
BY DEF PutPod, Live, TypeOK, ServerOK

\* What is enough to keep the invariant.
LEMMA PolicyKept ==
  ASSUME TypeOK, PolicyInv, tmpl' = tmpl, cache'.tmpl = cache.tmpl, watch'.tmpl = watch.tmpl,
         pool'.exists => /\ pool.exists /\ cache'.pool.exists
                         /\ watch'.pool \in Seq({v \in PoolCopy : v.exists}),
         policy' \in {policy, "desired"}, watch'.policy = watch.policy,
         Live(pod') \subseteq Live(pod) \/ pr.step = "create",
         pr'.step \in Planned => pr.step \in Planned,
         pr'.step = "create" => pr.step = "create" \/ policy' = "desired",
         poolQueue => poolQueue',
         pr.step = "policy" => pr'.step = "policy" \/ poolQueue' \/ policy' = "desired"
  PROVE  PolicyInv'
<1>1. Known'
  BY DEF PolicyInv, Known
<1>2. Live(pod') # {} => Populated
  BY DEF Populated
<1>3. TemplateRead'
  BY <1>2 DEF PolicyInv, TemplateRead, Populated, Planned
<1>4. PolicyFirst'
  BY <1>2 DEF PolicyInv, PolicyFirst, Populated, Attended
<1> QED
  BY <1>1, <1>3, <1>4 DEF PolicyInv

\* A write of another kind.
LEMMA OtherWatches ==
  ASSUME TypeOK, NEW kind \in Kinds, NEW events, Sees(kind, events)
  PROVE  \A k \in Kinds \ {kind} : watch'[k] = watch[k]
BY DEF Sees, TypeOK, InformersOK

\* Events of a pool that exists.
LEMMA PoolEvents ==
  ASSUME TypeOK, PolicyInv, NEW v \in PoolVal, PutPool(v), v.exists => pool.exists
  PROVE  v.exists => watch'.pool \in Seq({w \in PoolCopy : w.exists})
<1> SUFFICES ASSUME v.exists PROVE watch'.pool \in Seq({w \in PoolCopy : w.exists})
  OBVIOUS
<1> DEFINE S == {w \in PoolCopy : w.exists}
<1>1. PoolSpec(v) \in S
  BY DEF PoolSpec, PoolVal, PoolCopy
<1>2. watch.pool \in Seq(S)
  BY DEF PolicyInv, Known
<1> HIDE DEF S
<1>3. PICK events \in {<<>>, <<PoolSpec(v)>>} : Sees("pool", events)
  BY Zenon DEF PutPool
<1>4. <<>> \in Seq(S) /\ <<PoolSpec(v)>> \in Seq(S)
  BY <1>1
<1>5. watch.pool \o events \in Seq(S)
  BY <1>2, <1>3, <1>4, ConcatProperties
<1> QED
  BY <1>3, <1>5 DEF S, Sees, TypeOK, InformersOK, Kinds

LEMMA PolicyOutside == TypeOK /\ PolicyInv /\ Outside => PolicyInv'
<1> SUFFICES ASSUME TypeOK, PolicyInv, Outside PROVE PolicyInv'
  OBVIOUS
<1>0. pool.exists => cache.pool.exists /\ watch.pool \in Seq({v \in PoolCopy : v.exists})
  BY DEF PolicyInv, Known
<1>1. ASSUME Rescale \/ DeletePool PROVE PolicyInv'
  <2>1. PICK v \in PoolVal : PutPool(v) /\ (v.exists => pool.exists)
    <3>1. pool \in PoolVal
      BY DEF TypeOK, ServerOK
    <3>2. ASSUME NEW n \in 0..MaxReplicas
          PROVE  [pool EXCEPT !.replicas = n] \in PoolVal /\ [pool EXCEPT !.replicas = n].exists = pool.exists
      BY <3>1 DEF PoolVal
    <3>3. [pool EXCEPT !.exists = FALSE] \in PoolVal /\ ~[pool EXCEPT !.exists = FALSE].exists
      BY <3>1 DEF PoolVal
    <3> QED
      BY <1>1, <3>2, <3>3 DEF Rescale, DeletePool
  <2>2. pool' = v /\ \A k \in Kinds \ {"pool"} : watch'[k] = watch[k]
    BY <2>1, OtherWatches DEF PutPool, Kinds
  <2>3. UNCHANGED <<tmpl, policy, cache, pod, pr, poolQueue>>
    BY <1>1 DEF Rescale, DeletePool
  <2> QED
    BY <1>0, <2>1, <2>2, <2>3, PoolEvents, PolicyKept DEF Kinds
<1>2. ASSUME CreateTemplate PROVE PolicyInv'
  <2>1. tmpl = "absent" /\ cache.tmpl = "absent" /\ tmpl' # "absent"
    BY <1>2 DEF CreateTemplate, PolicyInv, Known
  <2>2. Live(pod) = {} /\ pr.step \notin Planned
    BY <2>1 DEF PolicyInv, TemplateRead
  <2>3. watch.tmpl = <<>>
    BY <2>1 DEF PolicyInv, Known
  <2>4. watch'.tmpl = <<tmpl'>> /\ watch'.pool = watch.pool
    <3>1. watch'.tmpl = <<>> \o <<tmpl'>>
      BY <1>2, <2>3 DEF CreateTemplate, Sees, TypeOK, InformersOK, Kinds
    <3> QED
      BY <1>2, <3>1, OtherWatches DEF CreateTemplate, Kinds
  <2>5. Known'
    <3>1. watch'.tmpl \in Seq({tmpl'} \ {"absent"})
      BY <2>1, <2>4
    <3> QED
      BY <1>0, <1>2, <2>1, <2>4, <3>1 DEF CreateTemplate, Known
  <2> QED
    BY <1>2, <2>2, <2>5 DEF CreateTemplate, PolicyInv, TemplateRead, PolicyFirst, Populated, Planned
<1>3. ASSUME TamperPolicy \/ CollectPolicy PROVE PolicyInv'
  <2>1. PICK v \in PolicyVal : PutPolicy(v) /\ v # policy
    BY <1>3 DEF TamperPolicy, CollectPolicy, PolicyVal
  <2>2. Sees("policy", <<v>>)
    BY <2>1 DEF PutPolicy
  <2>3. watch'.tmpl = watch.tmpl /\ watch'.pool = watch.pool
    BY <2>2, OtherWatches DEF Kinds
  <2>4. watch'.policy # <<>>
    <3>1. watch.policy \in Seq(PolicyVal)
      BY DEF TypeOK, InformersOK, Kinds, EventVal
    <3>2. watch'.policy = watch.policy \o <<v>>
      BY <2>2 DEF Sees, TypeOK, InformersOK, Kinds
    <3> QED
      BY <3>1, <3>2
  <2> QED
    BY <1>3, <2>3, <2>4
       DEF TamperPolicy, CollectPolicy, PolicyInv, Known, TemplateRead, PolicyFirst, Attended
<1>4. ASSUME NEW kind \in {"claim", "pod"}, NEW events, Sees(kind, events) \/ watch' = watch,
             UNCHANGED <<pool, tmpl, policy, cache, poolQueue, pr>>, Live(pod') \subseteq Live(pod)
      PROVE  PolicyInv'
  <2>1. watch'.tmpl = watch.tmpl /\ watch'.pool = watch.pool /\ watch'.policy = watch.policy
    BY <1>4, OtherWatches DEF Kinds
  <2> QED
    BY <1>0, <1>4, <2>1, PolicyKept
<1>5. ASSUME NEW c \in Claims, CreateClaim(c) \/ DeleteClaim(c) \/ TTLElapses(c) PROVE PolicyInv'
  <2>1. PICK events : Sees("claim", events) \/ watch' = watch
    BY <1>5 DEF CreateClaim, DeleteClaim, TTLElapses, PutClaim
  <2> QED
    BY <1>4, <1>5, <2>1 DEF CreateClaim, DeleteClaim, TTLElapses
<1>6. ASSUME NEW c \in Claims, TimerFires(c) PROVE PolicyInv'
  BY <1>0, <1>6, PolicyKept DEF TimerFires
<1>7. ASSUME NEW p \in Pods, PodRuns(p) \/ EvictPod(p) \/ RemovePod(p) \/ CollectPod(p)
      PROVE  PolicyInv'
  <2>1. pod[p] \in PodVal
    BY DEF TypeOK, ServerOK
  <2>2. PICK v \in PodVal : PodWrites(p, v) /\ (p \in Live(pod) \/ v.phase = "absent")
    <3>1. CASE PodRuns(p)
      <4>1. p \in Live(pod) /\ [pod[p] EXCEPT !.phase = "Running"] \in PodVal
        BY <2>1, <3>1 DEF PodRuns, Live, PodVal
      <4> QED
        BY <3>1, <4>1 DEF PodRuns
    <3>2. CASE EvictPod(p) \/ CollectPod(p)
      BY <3>2, CoreValues DEF EvictPod, CollectPod
    <3>3. CASE RemovePod(p)
      BY <3>3, ValueTypes DEF RemovePod, NoPod
    <3> QED
      BY <1>7, <3>1, <3>2, <3>3
  <2>3. Live(pod') \subseteq Live(pod)
    BY <2>2, LivePods DEF PodWrites
  <2>4. PICK events : Sees("pod", events)
    BY <2>2 DEF PodWrites, PutPod
  <2> QED
    BY <1>4, <2>2, <2>3, <2>4 DEF PodWrites
<1> QED
  BY <1>1, <1>2, <1>3, <1>5, <1>6, <1>7 DEF Outside

LEMMA PolicyDeliver == TypeOK /\ PolicyInv /\ (Deliver \/ Crash) => PolicyInv'
<1> SUFFICES ASSUME TypeOK, PolicyInv, Deliver \/ Crash PROVE PolicyInv'
  OBVIOUS
<1>0. pool.exists => cache.pool.exists /\ watch.pool \in Seq({v \in PoolCopy : v.exists})
  BY DEF PolicyInv, Known
<1>1. ASSUME NEW kind \in Kinds, NEW v, Take(kind, v)
      PROVE  /\ \A k \in Kinds \ {kind} : watch'[k] = watch[k] /\ cache'[k] = cache[k]
             /\ watch'[kind] = Tail(watch[kind]) /\ cache'[kind] = v
  BY <1>1 DEF Take, TypeOK, InformersOK, CacheVal, Kinds
<1>2. CASE DeliverPool
  <2>1. /\ watch'.tmpl = watch.tmpl /\ watch'.policy = watch.policy /\ cache'.tmpl = cache.tmpl
        /\ watch'.pool = Tail(watch.pool) /\ cache'.pool = Head(watch.pool)
    BY <1>1, <1>2 DEF DeliverPool, Kinds
  <2>2. pool.exists => cache'.pool.exists /\ watch'.pool \in Seq({v \in PoolCopy : v.exists})
    <3>1. watch.pool # <<>>
      BY <1>2 DEF DeliverPool, Take
    <3> DEFINE S == {v \in PoolCopy : v.exists}
    <3>2. \A s \in Seq(S) : s # <<>> => Head(s) \in S /\ Tail(s) \in Seq(S)
      BY HeadTailProperties
    <3> QED
      BY <1>0, <2>1, <3>1, <3>2
  <2> QED
    BY <1>2, <2>1, <2>2, PolicyKept DEF DeliverPool, Take
<1>3. CASE DeliverTemplate
  <2>1. /\ watch'.pool = watch.pool /\ watch'.policy = watch.policy /\ cache'.pool = cache.pool
        /\ watch'.tmpl = Tail(watch.tmpl) /\ cache'.tmpl = Head(watch.tmpl)
    BY <1>1, <1>3 DEF DeliverTemplate, Kinds
  <2>2. cache'.tmpl \in {tmpl} \ {"absent"} /\ watch'.tmpl \in Seq({tmpl} \ {"absent"})
    <3>1. watch.tmpl # <<>> /\ watch.tmpl \in Seq({tmpl} \ {"absent"})
      BY <1>3 DEF DeliverTemplate, Take, PolicyInv, Known
    <3> QED
      BY <2>1, <3>1, HeadTailProperties
  <2> QED
    BY <1>0, <1>3, <2>1, <2>2
       DEF DeliverTemplate, Take, PolicyInv, Known, TemplateRead, PolicyFirst, Populated, Attended
<1>4. CASE DeliverPolicy
  <2>1. /\ watch'.pool = watch.pool /\ cache'.pool = cache.pool
        /\ watch'.tmpl = watch.tmpl /\ cache'.tmpl = cache.tmpl
    BY <1>1, <1>4 DEF DeliverPolicy, Kinds
  <2> QED
    BY <1>4, <2>1 DEF DeliverPolicy, Take, PolicyInv, Known, TemplateRead, PolicyFirst, Attended
<1>5. CASE DeliverPod \/ DeliverClaim
  <2>1. /\ watch'.pool = watch.pool /\ cache'.pool = cache.pool /\ watch'.policy = watch.policy
        /\ watch'.tmpl = watch.tmpl /\ cache'.tmpl = cache.tmpl
    BY <1>1, <1>5 DEF DeliverPod, DeliverClaim, Kinds
  <2> QED
    BY <1>0, <1>5, <2>1, PolicyKept DEF DeliverPod, DeliverClaim, Take
<1>6. CASE Crash
  <2>1. /\ watch'.tmpl = <<>> /\ watch'.pool = <<>>
        /\ cache'.tmpl = tmpl /\ cache'.pool.exists = pool.exists /\ pr'.step = "idle" /\ poolQueue'
    BY <1>6 DEF Crash, Listing, PoolSpec, PoolIdle, Kinds
  <2>2. \A S : <<>> \in Seq(S)
    OBVIOUS
  <2>3. Known'
    BY <1>6, <2>1, <2>2 DEF Crash, Known
  <2>4. TemplateRead'
    BY <1>6, <2>1 DEF Crash, PolicyInv, Known, TemplateRead, Planned
  <2>5. PolicyFirst'
    BY <2>1 DEF PolicyFirst, Attended
  <2> QED
    BY <2>3, <2>4, <2>5 DEF PolicyInv
<1> QED
  BY <1>2, <1>3, <1>4, <1>5, <1>6 DEF Deliver

LEMMA PolicyOperator == TypeOK /\ PolicyInv /\ Operator => PolicyInv'
<1> SUFFICES ASSUME TypeOK, PolicyInv, Operator PROVE PolicyInv'
  OBVIOUS
<1>0. /\ pool.exists => cache.pool.exists /\ watch.pool \in Seq({v \in PoolCopy : v.exists})
      /\ pool \in PoolVal /\ poolQueue \in BOOLEAN /\ pr \in PoolRuns
  BY DEF PolicyInv, Known, TypeOK, ServerOK, ControllersOK, PoolRuns
<1>1. CASE PoolReconcile
  <2>1. pr'.step = pr.step \/ cache.pool.exists
    BY <1>1 DEF PoolReconcile
  <2>2. cache.pool.exists =>
          IF cache.tmpl = "absent" THEN pr'.step = "clear"
          ELSE IF cache.tmpl = "managed" THEN pr'.step = "policy"
          ELSE pr' = PoolPlan(cache.pool.replicas)
    BY <1>1 DEF PoolReconcile, PoolIdle, PolicyRun
  <2>3. TemplateRead'
    BY <1>1, <2>2 DEF PoolReconcile, PolicyInv, TemplateRead, Planned
  <2>4. PolicyFirst'
    BY <1>0, <1>1, <2>2 DEF PoolReconcile, PolicyInv, Known, TemplateRead, PolicyFirst, Populated,
                            Attended
  <2> QED
    BY <1>1, <2>3, <2>4 DEF PoolReconcile, PolicyInv, Known
<1>2. ASSUME NEW requeue \in BOOLEAN, PoolDone(requeue)
      PROVE  pr'.step = "idle" /\ (requeue => poolQueue') /\ (poolQueue => poolQueue')
  BY <1>2 DEF PoolDone, PoolIdle
<1>3. ASSUME NEW v \in PoolVal, PutPool(v), v.exists = pool.exists, cache' = cache
      PROVE  /\ pool'.exists => /\ pool.exists /\ cache'.pool.exists
                                /\ watch'.pool \in Seq({w \in PoolCopy : w.exists})
             /\ watch'.tmpl = watch.tmpl /\ watch'.policy = watch.policy
  <2>1. \A k \in Kinds \ {"pool"} : watch'[k] = watch[k]
    BY <1>3, OtherWatches DEF PutPool, Kinds
  <2> QED
    BY <1>0, <1>3, <2>1, PoolEvents DEF PutPool, Kinds
<1>4. CASE ClearPoolStatus \/ UpdatePoolStatus
  <2>1. PICK a \in Nat, b \in Nat :
          PutPool([pool EXCEPT !.available = a, !.active = b]) \/ UNCHANGED <<pool, watch>>
    BY <1>0, <1>4 DEF ClearPoolStatus, UpdatePoolStatus, PoolRuns
  <2>2. [pool EXCEPT !.available = a, !.active = b] \in PoolVal
        /\ [pool EXCEPT !.available = a, !.active = b].exists = pool.exists
    BY <1>0 DEF PoolVal
  <2>3. /\ pool'.exists => /\ pool.exists /\ cache'.pool.exists
                           /\ watch'.pool \in Seq({w \in PoolCopy : w.exists})
        /\ watch'.tmpl = watch.tmpl /\ watch'.policy = watch.policy
    BY <1>0, <1>3, <1>4, <2>1, <2>2 DEF ClearPoolStatus, UpdatePoolStatus
  <2>4. pr'.step = "idle" /\ (poolQueue => poolQueue') /\ pr.step # "policy"
    BY <1>0, <1>2, <1>4 DEF ClearPoolStatus, UpdatePoolStatus, PoolVal
  <2> QED
    BY <1>4, <2>3, <2>4, PolicyKept DEF ClearPoolStatus, UpdatePoolStatus, Planned
<1>5. CASE EnsurePolicy
  <2>1. PICK events : Sees("policy", events)
    BY <1>5 DEF EnsurePolicy, PutPolicy
  <2>2. watch'.tmpl = watch.tmpl /\ watch'.pool = watch.pool /\ policy' = "desired"
    BY <1>5, <2>1, OtherWatches DEF EnsurePolicy, PutPolicy, Kinds
  <2>3. cache.tmpl # "absent"
    BY <1>5 DEF EnsurePolicy, PolicyInv, TemplateRead, Planned
  <2> QED
    BY <1>5, <2>2, <2>3 DEF EnsurePolicy, PolicyInv, Known, TemplateRead, PolicyFirst
<1>6. CASE EnsurePolicyFails \/ CreateSandboxPodFails \/ UpdatePoolStatusFails
  <2>1. pr'.step = "idle" /\ poolQueue'
    BY <1>2, <1>6 DEF EnsurePolicyFails, CreateSandboxPodFails, UpdatePoolStatusFails
  <2>2. UNCHANGED <<pool, policy, pod, informers, tmpl>>
    BY <1>6 DEF EnsurePolicyFails, CreateSandboxPodFails, UpdatePoolStatusFails
  <2> QED
    BY <1>0, <2>1, <2>2, PolicyKept DEF Planned
<1>7. ASSUME NEW p \in Pods, NEW v \in PodVal, PutPod(p, v)
      PROVE  watch'.tmpl = watch.tmpl /\ watch'.pool = watch.pool /\ watch'.policy = watch.policy
  BY <1>7, OtherWatches DEF PutPod, Kinds
<1>8. CASE CreateSandboxPod
  <2>1. watch'.tmpl = watch.tmpl /\ watch'.pool = watch.pool /\ watch'.policy = watch.policy
    BY <1>7, <1>8, ValueTypes DEF CreateSandboxPod
  <2>2. pr.step = "create" /\ (poolQueue => poolQueue')
    <3>1. PoolDone(TRUE) \/ poolQueue' = poolQueue
      BY <1>8, Zenon DEF CreateSandboxPod
    <3>2. pr.step = "create"
      BY <1>8 DEF CreateSandboxPod
    <3>3. poolQueue => poolQueue'
      BY <1>2, <3>1, Zenon
    <3> QED
      BY <3>2, <3>3
  <2> QED
    BY <1>0, <1>8, <2>1, <2>2, PolicyKept DEF CreateSandboxPod, Planned
<1>9. ASSUME NEW p \in Pods, DeleteExcessPod(p) \/ DeleteExcessPodFails(p) PROVE PolicyInv'
  <2>1. Live(pod') \subseteq Live(pod) /\ watch'.tmpl = watch.tmpl /\ watch'.pool = watch.pool
        /\ watch'.policy = watch.policy
    <3>1. CASE DeleteExcessPod(p)
      <4>1. Doomed(p) \in PodVal /\ (Doomed(p).del \/ Doomed(p).phase = "absent")
        BY CoreValues, ValueTypes DEF Doomed, NoPod, PodVal
      <4> QED
        BY <1>7, <3>1, <4>1, LivePods DEF DeleteExcessPod
    <3>2. CASE DeleteExcessPodFails(p)
      BY <3>2 DEF DeleteExcessPodFails
    <3> QED
      BY <1>9, <3>1, <3>2
  <2>2. pr'.step \in {"delete", "status"} /\ pr.step = "delete"
    BY <1>0, <1>9 DEF DeleteExcessPod, DeleteExcessPodFails, DeletedSoFar, PoolRuns
  <2> QED
    BY <1>0, <1>9, <2>1, <2>2, PolicyKept DEF DeleteExcessPod, DeleteExcessPodFails, Planned
<1>10. ASSUME ClaimStep \/ \E c \in Claims : ClaimReconcile(c) PROVE PolicyInv'
  <2>1. UNCHANGED <<pool, tmpl, policy, cache, poolQueue, pr>>
    BY <1>10 DEF ClaimStep, ClaimReconcile, AddFinalizer, ReleasePod, RemoveFinalizer, MarkReleased,
         DeleteExpired, MarkPending, MarkFailed, LabelPod, BindClaim, ClaimCallRefused, ClaimCallFails,
         ClaimFails, ReconcileGone, ReconcileDeleted, ReconcileNoFinalizer, ReconcileFailed,
         ReconcileBound, ReconcileNew, ReconcilePending, Begin
  <2>2. /\ \E kind \in {"claim", "pod"} : \E events : Sees(kind, events) \/ watch' = watch
        /\ Live(pod') \subseteq Live(pod)
    <3>1. CASE ReleasePod \/ LabelPod
      <4>1. cr.pod \in Pods /\ pod[cr.pod] \in PodVal
        BY <3>1 DEF ReleasePod, LabelPod, TypeOK, ServerOK, ControllersOK
      <4>2. PICK v : PutPod(cr.pod, v) /\ (v.phase = pod[cr.pod].phase \/ v.phase = "absent")
                                       /\ (v.del = pod[cr.pod].del \/ v.del)
        BY <3>1, <4>1, ValueTypes DEF ReleasePod, LabelPod, Doomed, PodVal
      <4>3. Live(pod') \subseteq Live(pod)
        BY <4>1, <4>2 DEF PutPod, Live, TypeOK, ServerOK
      <4> QED
        BY <4>2, <4>3 DEF PutPod
    <3>2. CASE ~(ReleasePod \/ LabelPod)
      <4>1. pod' = pod
        BY <1>10, <3>2 DEF ClaimStep, ClaimReconcile, AddFinalizer, RemoveFinalizer, MarkReleased,
             DeleteExpired, MarkPending, MarkFailed, BindClaim, ClaimCallRefused, ClaimCallFails,
             ClaimFails, ReconcileGone, ReconcileDeleted, ReconcileNoFinalizer, ReconcileFailed,
             ReconcileBound, ReconcileNew, ReconcilePending, Begin
      <4>2. \E events : Sees("claim", events) \/ watch' = watch
        BY <1>10, <3>2 DEF ClaimStep, ClaimReconcile, AddFinalizer, RemoveFinalizer, MarkReleased,
             DeleteExpired, MarkPending, MarkFailed, BindClaim, ClaimCallRefused, ClaimCallFails,
             ClaimFails, ReconcileGone, ReconcileDeleted, ReconcileNoFinalizer, ReconcileFailed,
             ReconcileBound, ReconcileNew, ReconcilePending, Begin, PutStatus, PutClaim
      <4> QED
        BY <4>1, <4>2
    <3> QED
      BY <3>1, <3>2
  <2>3. watch'.tmpl = watch.tmpl /\ watch'.pool = watch.pool /\ watch'.policy = watch.policy
    BY <2>2, OtherWatches DEF Kinds
  <2> QED
    BY <1>0, <2>1, <2>2, <2>3, PolicyKept
<1> QED
  BY <1>1, <1>4, <1>5, <1>6, <1>8, <1>9, <1>10 DEF Operator, PoolStep

LEMMA PolicyNext == TypeOK /\ PolicyInv /\ [Next]_vars => PolicyInv'
<1>1. PolicyInv /\ UNCHANGED vars => PolicyInv'
  BY DEF PolicyInv, Known, TemplateRead, PolicyFirst, Populated, Attended, Live
<1> QED
  BY <1>1, PolicyOutside, PolicyDeliver, PolicyOperator DEF Next

-----------------------------------------------------------------------------
(* Single use.  What the claim controller does is safe because a copy that   *)
(* is still at the stored resourceVersion is the stored object, and because  *)
(* the name of a pod that a claim was told of stays taken.                   *)

InStep ==
  /\ Coherent(Claims, claim, cache.claim, watch.claim)
  /\ Coherent(Pods, pod, cache.pod, watch.pod)

\* Every step leaves the claims alone, delivers, restarts or writes one claim; and the
\* same of pods.
ClaimsStill  == claim' = claim /\ cache'.claim = cache.claim /\ watch'.claim = watch.claim
PodsStill    == pod' = pod /\ cache'.pod = cache.pod /\ watch'.pod = watch.pod
ClaimWritten == cache' = cache /\ \E c \in Claims, v \in ClaimVal : PutClaim(c, v)
PodWritten   == cache' = cache /\ \E p \in Pods, v \in PodVal : PutPod(p, v)

Moves ==
  \/ (ClaimsStill \/ ClaimWritten \/ DeliverClaim) /\ PodsStill
  \/ (PodWritten \/ DeliverPod) /\ ClaimsStill
  \/ Crash

LEMMA MovesOutside == TypeOK /\ Outside => Moves
<1> SUFFICES ASSUME TypeOK, Outside PROVE Moves
  OBVIOUS
<1>1. ASSUME NEW kind \in {"pool", "tmpl", "policy"}, NEW events, Sees(kind, events),
             UNCHANGED <<cache, claim, pod>>
      PROVE  Moves
  BY <1>1, OtherWatches DEF Moves, ClaimsStill, PodsStill, Kinds
<1>2. ASSUME Rescale \/ DeletePool \/ CreateTemplate \/ TamperPolicy \/ CollectPolicy PROVE Moves
  <2>1. PICK kind \in {"pool", "tmpl", "policy"} : \E events : Sees(kind, events)
    BY <1>2 DEF Rescale, DeletePool, CreateTemplate, TamperPolicy, CollectPolicy, PutPool, PutPolicy
  <2> QED
    BY <1>1, <1>2, <2>1 DEF Rescale, DeletePool, CreateTemplate, TamperPolicy, CollectPolicy
<1>3. ASSUME NEW c \in Claims, NEW v \in ClaimVal, PutClaim(c, v), cache' = cache, pod' = pod
      PROVE  Moves
  <2>1. watch'.pod = watch.pod
    BY <1>3, OtherWatches DEF PutClaim, Kinds
  <2> QED
    BY <1>3, <2>1 DEF Moves, ClaimWritten, PodsStill
<1>4. ASSUME NEW c \in Claims, CreateClaim(c) \/ DeleteClaim(c) PROVE Moves
  BY <1>3, <1>4, ValueTypes, CoreValues DEF CreateClaim, DeleteClaim
<1>5. ASSUME NEW c \in Claims, TTLElapses(c) \/ TimerFires(c) PROVE Moves
  BY <1>5 DEF TTLElapses, TimerFires, Moves, ClaimsStill, PodsStill
<1>6. ASSUME NEW p \in Pods, PodRuns(p) \/ EvictPod(p) \/ RemovePod(p) \/ CollectPod(p)
      PROVE  Moves
  <2>1. PICK v \in PodVal : PodWrites(p, v)
    <3>1. [pod[p] EXCEPT !.phase = "Running"] \in PodVal
      BY DEF TypeOK, ServerOK, PodVal
    <3> QED
      BY <1>6, <3>1, ValueTypes, CoreValues DEF PodRuns, EvictPod, RemovePod, CollectPod
  <2>2. watch'.claim = watch.claim
    BY <2>1, OtherWatches DEF PodWrites, PutPod, Kinds
  <2> QED
    BY <2>1, <2>2 DEF PodWrites, Moves, PodWritten, ClaimsStill
<1> QED
  BY <1>2, <1>4, <1>5, <1>6 DEF Outside

LEMMA MovesDeliver == TypeOK /\ (Deliver \/ Crash) => Moves
<1> SUFFICES ASSUME TypeOK, Deliver PROVE Moves
  BY DEF Moves
<1>1. ASSUME NEW kind \in Kinds, NEW v, Take(kind, v)
      PROVE  /\ \A k \in Kinds \ {kind} : watch'[k] = watch[k] /\ cache'[k] = cache[k]
             /\ claim' = claim /\ pod' = pod
  BY <1>1 DEF Take, TypeOK, InformersOK, CacheVal, Kinds
<1> QED
  BY <1>1 DEF Deliver, DeliverPool, DeliverTemplate, DeliverPolicy, DeliverPod, DeliverClaim,
              Moves, ClaimsStill, PodsStill, Kinds

LEMMA MovesPool == TypeOK /\ (PoolReconcile \/ PoolStep) => Moves
<1> SUFFICES ASSUME TypeOK, PoolReconcile \/ PoolStep PROVE Moves
  OBVIOUS
<1>1. ASSUME PoolReconcile \/ EnsurePolicyFails \/ CreateSandboxPodFails \/ UpdatePoolStatusFails
               \/ \E p \in Pods : DeleteExcessPodFails(p)
      PROVE  Moves
  BY <1>1 DEF PoolReconcile, EnsurePolicyFails, CreateSandboxPodFails, UpdatePoolStatusFails,
              DeleteExcessPodFails, Moves, ClaimsStill, PodsStill
<1>2. ASSUME ClearPoolStatus \/ EnsurePolicy \/ UpdatePoolStatus PROVE Moves
  <2>1. UNCHANGED watch \/ \E kind \in {"pool", "policy"} : \E events : Sees(kind, events)
    BY <1>2 DEF ClearPoolStatus, EnsurePolicy, UpdatePoolStatus, PutPool, PutPolicy
  <2>2. watch'.claim = watch.claim /\ watch'.pod = watch.pod
    BY <2>1, OtherWatches DEF Kinds
  <2> QED
    BY <1>2, <2>2 DEF ClearPoolStatus, EnsurePolicy, UpdatePoolStatus, Moves, ClaimsStill, PodsStill
<1>3. ASSUME CreateSandboxPod \/ \E p \in Pods : DeleteExcessPod(p) PROVE Moves
  <2>1. PICK p \in Pods, v \in PodVal : PutPod(p, v)
    BY <1>3, ValueTypes, CoreValues DEF CreateSandboxPod, DeleteExcessPod
  <2>2. watch'.claim = watch.claim
    BY <2>1, OtherWatches DEF PutPod, Kinds
  <2> QED
    BY <1>3, <2>1, <2>2 DEF CreateSandboxPod, DeleteExcessPod, Moves, PodWritten, ClaimsStill
<1> QED
  BY <1>1, <1>2, <1>3 DEF PoolStep

LEMMA MovesClaim == TypeOK /\ (ClaimStep \/ \E c \in Claims : ClaimReconcile(c)) => Moves
<1> SUFFICES ASSUME TypeOK, ClaimStep \/ \E c \in Claims : ClaimReconcile(c) PROVE Moves
  OBVIOUS
<1>0. /\ cr.step # "idle" => cr.key \in Claims
      /\ cr.step \in {"release", "label", "bind"} => cr.pod \in Pods
      /\ \A c \in Claims : claim[c] \in ClaimVal
      /\ \A p \in Pods : pod[p] \in PodVal
  BY DEF TypeOK, ServerOK, ControllersOK
<1>1. ASSUME NEW c \in Claims, ClaimReconcile(c) PROVE Moves
  BY <1>1 DEF ClaimReconcile, ReconcileGone, ReconcileDeleted, ReconcileNoFinalizer, ReconcileFailed,
              ReconcileBound, ReconcileNew, ReconcilePending, Begin, Moves, ClaimsStill, PodsStill
<1>2. ASSUME ClaimCallRefused \/ ClaimCallFails PROVE Moves
  BY <1>2 DEF ClaimCallRefused, ClaimCallFails, ClaimFails, Moves, ClaimsStill, PodsStill
<1>3. ASSUME ReleasePod \/ LabelPod PROVE Moves
  <2>1. cr.pod \in Pods /\ cr.key \in Claims
    BY <1>0, <1>3 DEF ReleasePod, LabelPod
  <2>2. [pod[cr.pod] EXCEPT !.claim = cr.key] \in PodVal
    BY <1>0, <2>1 DEF PodVal
  <2>3. PICK v \in PodVal : PutPod(cr.pod, v)
    BY <1>3, <2>1, <2>2, CoreValues DEF ReleasePod, LabelPod
  <2>4. watch'.claim = watch.claim
    BY <2>3, OtherWatches DEF PutPod, Kinds
  <2> QED
    BY <1>3, <2>1, <2>3, <2>4 DEF ReleasePod, LabelPod, Moves, PodWritten, ClaimsStill
<1>4. ASSUME AddFinalizer \/ RemoveFinalizer \/ MarkReleased \/ DeleteExpired \/ MarkPending
               \/ MarkFailed \/ BindClaim
      PROVE  Moves
  <2>1. cr.key \in Claims
    BY <1>0, <1>4 DEF AddFinalizer, RemoveFinalizer, MarkReleased, DeleteExpired, MarkPending,
                      MarkFailed, BindClaim
  <2>2. /\ [claim[cr.key] EXCEPT !.fin = TRUE] \in ClaimVal
        /\ \A phase \in {"Pending", "Failed", "Released"} :
             [claim[cr.key] EXCEPT !.phase = phase] \in ClaimVal
        /\ cr.pod \in Pods => [claim[cr.key] EXCEPT !.phase = "Bound", !.pod = cr.pod] \in ClaimVal
    <3>1. claim[cr.key] \in ClaimVal
      BY <1>0, <2>1
    <3> QED
      BY <3>1 DEF ClaimVal
  <2>3. UNCHANGED <<claim, watch>> \/ \E v \in ClaimVal : PutClaim(cr.key, v)
    BY <1>0, <1>4, <2>1, <2>2, ValueTypes, CoreValues
       DEF AddFinalizer, RemoveFinalizer, MarkReleased, DeleteExpired, MarkPending, MarkFailed,
           BindClaim, PutStatus
  <2>4. watch'.pod = watch.pod
    BY <2>3, OtherWatches DEF PutClaim, Kinds
  <2>5. UNCHANGED <<cache, pod>>
    BY <1>4 DEF AddFinalizer, RemoveFinalizer, MarkReleased, DeleteExpired, MarkPending, MarkFailed,
                BindClaim
  <2> QED
    BY <2>1, <2>3, <2>4, <2>5 DEF Moves, ClaimsStill, ClaimWritten, PodsStill
<1> QED
  BY <1>1, <1>2, <1>3, <1>4 DEF ClaimStep

LEMMA MovesNext == TypeOK /\ [Next]_vars => Moves
<1>1. ASSUME UNCHANGED vars PROVE Moves
  BY <1>1 DEF Moves, ClaimsStill, PodsStill
<1> QED
  BY <1>1, MovesOutside, MovesDeliver, MovesPool, MovesClaim DEF Next, Operator

\* A write keeps an informer coherent, also when it changes nothing.
LEMMA PutCoherent ==
  ASSUME NEW keys, NEW V, NEW store \in [keys -> V], NEW held,
         NEW events \in Seq([key : keys, val : V]), Coherent(keys, store, held, events),
         NEW k \in keys, NEW v \in V
  PROVE  Coherent(keys, [store EXCEPT ![k] = v], held,
                  events \o (IF v = store[k] THEN <<>> ELSE <<Event(k, v)>>))
<1>1. CASE v = store[k]
  <2>1. [store EXCEPT ![k] = v] = store
    BY <1>1
  <2>2. events \o <<>> = events
    BY ConcatEmptySeq
  <2> QED
    BY <1>1, <2>1, <2>2
<1>2. CASE v # store[k]
  <2>1. Coherent(keys, [store EXCEPT ![k] = v], held, Append(events, Event(k, v)))
    BY WriteCoherent
  <2>2. events \o <<Event(k, v)>> = Append(events, Event(k, v))
    BY AppendIsConcat DEF Event
  <2> QED
    BY <1>2, <2>1, <2>2
<1> QED
  BY <1>1, <1>2

LEMMA InStepNext == TypeOK /\ InStep /\ [Next]_vars => InStep'
<1> SUFFICES ASSUME TypeOK, InStep, [Next]_vars PROVE InStep'
  OBVIOUS
<1>0. /\ claim \in [Claims -> ClaimVal] /\ cache.claim \in [Claims -> ClaimVal]
      /\ watch.claim \in Seq([key : Claims, val : ClaimVal])
      /\ pod \in [Pods -> PodVal] /\ cache.pod \in [Pods -> PodVal]
      /\ watch.pod \in Seq([key : Pods, val : PodVal])
      /\ Coherent(Claims, claim, cache.claim, watch.claim)
      /\ Coherent(Pods, pod, cache.pod, watch.pod)
  BY DEF TypeOK, ServerOK, InformersOK, CacheVal, EventVal, Kinds, InStep
<1>1. ClaimsStill => Coherent(Claims, claim, cache.claim, watch.claim)'
  BY <1>0 DEF ClaimsStill
<1>2. PodsStill => Coherent(Pods, pod, cache.pod, watch.pod)'
  BY <1>0 DEF PodsStill
<1>3. ASSUME ClaimWritten PROVE Coherent(Claims, claim, cache.claim, watch.claim)'
  <2> PICK c \in Claims, v \in ClaimVal : PutClaim(c, v)
    BY <1>3 DEF ClaimWritten
  <2>1. /\ claim' = [claim EXCEPT ![c] = v]
        /\ watch'.claim = watch.claim \o (IF v = claim[c] THEN <<>> ELSE <<Event(c, v)>>)
    BY DEF PutClaim, Sees, TypeOK, InformersOK, Kinds
  <2>2. Coherent(Claims, [claim EXCEPT ![c] = v], cache.claim,
                 watch.claim \o (IF v = claim[c] THEN <<>> ELSE <<Event(c, v)>>))
    BY <1>0, PutCoherent
  <2>3. Coherent(Claims, claim', cache.claim, watch'.claim)
    BY <2>1, <2>2
  <2> QED
    BY <1>3, <2>3 DEF ClaimWritten
<1>4. ASSUME PodWritten PROVE Coherent(Pods, pod, cache.pod, watch.pod)'
  <2> PICK p \in Pods, v \in PodVal : PutPod(p, v)
    BY <1>4 DEF PodWritten
  <2>1. /\ pod' = [pod EXCEPT ![p] = v]
        /\ watch'.pod = watch.pod \o (IF v = pod[p] THEN <<>> ELSE <<Event(p, v)>>)
    BY DEF PutPod, Sees, TypeOK, InformersOK, Kinds
  <2>2. Coherent(Pods, [pod EXCEPT ![p] = v], cache.pod,
                 watch.pod \o (IF v = pod[p] THEN <<>> ELSE <<Event(p, v)>>))
    BY <1>0, PutCoherent
  <2>3. Coherent(Pods, pod', cache.pod, watch'.pod)
    BY <2>1, <2>2
  <2> QED
    BY <1>4, <2>3 DEF PodWritten
<1>5. ASSUME DeliverClaim PROVE Coherent(Claims, claim, cache.claim, watch.claim)'
  <2>1. /\ watch.claim # <<>> /\ claim' = claim
        /\ cache'.claim = Apply(cache.claim, Head(watch.claim)) /\ watch'.claim = Tail(watch.claim)
    BY <1>5 DEF DeliverClaim, Take, TypeOK, InformersOK, CacheVal, Kinds
  <2>2. Coherent(Claims, claim, Apply(cache.claim, Head(watch.claim)), Tail(watch.claim))
    <3>1. Claims \subseteq DOMAIN cache.claim
      BY <1>0
    <3> QED
      BY <1>0, <2>1, <3>1, DeliverCoherent
  <2> QED
    BY <2>1, <2>2
<1>6. ASSUME DeliverPod PROVE Coherent(Pods, pod, cache.pod, watch.pod)'
  <2>1. /\ watch.pod # <<>> /\ pod' = pod
        /\ cache'.pod = Apply(cache.pod, Head(watch.pod)) /\ watch'.pod = Tail(watch.pod)
    BY <1>6 DEF DeliverPod, Take, TypeOK, InformersOK, CacheVal, Kinds
  <2>2. Coherent(Pods, pod, Apply(cache.pod, Head(watch.pod)), Tail(watch.pod))
    <3>1. Pods \subseteq DOMAIN cache.pod
      BY <1>0
    <3> QED
      BY <1>0, <2>1, <3>1, DeliverCoherent
  <2> QED
    BY <2>1, <2>2
<1>7. ASSUME Crash PROVE InStep'
  <2>1. /\ claim' = claim /\ cache'.claim = claim /\ watch'.claim = <<>>
        /\ pod' = pod /\ cache'.pod = pod /\ watch'.pod = <<>>
    BY <1>7 DEF Crash, Listing, Kinds
  <2> QED
    BY <2>1, ListCoherent DEF InStep
<1> QED
  BY <1>1, <1>2, <1>3, <1>4, <1>5, <1>6, <1>7, MovesNext DEF Moves, InStep

Gone(p) == pod[p] = NoPod \/ pod[p].del

\* Nothing has been done for a claim without its finalizer, and a claim is told of a
\* pod when it is bound.
ShapeOf(v) ==
  /\ ~v.fin => v \in {NoClaim, NewClaim}
  /\ v.phase \in {"absent", "New", "Pending"} => v.pod = None
  /\ v.phase \in {"Bound", "Released"} => v.pod # None

ClaimShape == \A c \in Claims : ShapeOf(claim[c])

\* The pod a claim was told of is labelled for that claim until it goes, and no other
\* claim was told of it.
TakenFor(p, c) == pod[p].claim = c \/ Gone(p)
HeldIsTaken == \A c \in Claims : claim[c].pod # None => TakenFor(claim[c].pod, c)
NeverShared ==
  \A c, d \in Claims : c # d /\ claim[c].pod # None => claim[c].pod # claim[d].pod

\* The claim whose reconciliation is under way, if the copy is current.
CopyCurrent ==
  fresh.claim =>
    /\ cr.step = "finalize" => claim[cr.key] = NewClaim
    /\ cr.step \in {"expire", "pending", "fail", "label", "bind"} => claim[cr.key].fin
    /\ cr.step = "expire" => claim[cr.key].phase = "Bound"
    /\ cr.step = "pending" => claim[cr.key].pod = None
    /\ cr.step \in {"fail", "label", "bind"} => claim[cr.key].phase \in {"Pending", "Released"}
    /\ cr.step = "release" => claim[cr.key].pod = cr.pod
    /\ cr.step = "unfinalize" => claim[cr.key].pod = None \/ Gone(claim[cr.key].pod)

\* The pod it has chosen.
PodChosen ==
  /\ cr.step = "label" /\ fresh.pod => cr.pod \in WarmIn(pod)
  /\ cr.step = "bind" => TakenFor(cr.pod, cr.key) /\ \A c \in Claims : claim[c].pod # cr.pod

ClaimsFit == ClaimShape /\ HeldIsTaken /\ NeverShared
RunFits   == CopyCurrent /\ PodChosen
UseInv    == InStep /\ ClaimsFit /\ RunFits

LEMMA UseInit == Init => UseInv
BY ConstantsAssumption, ValueTypes, ListCoherent
   DEF Init, ClusterInit, Listing, Kinds, UseInv, InStep, ClaimsFit, RunFits, ClaimShape, ShapeOf,
       HeldIsTaken, NeverShared, CopyCurrent, PodChosen, NoFresh, ClaimIdle

\* What a write of one claim must be like.
LEMMA PutFits ==
  ASSUME TypeOK, ClaimsFit, pod' = pod, NEW c \in Claims, NEW v \in ClaimVal, PutClaim(c, v),
         ShapeOf(v),
         v.pod # None /\ v.pod # claim[c].pod =>
           TakenFor(v.pod, c) /\ \A d \in Claims : claim[d].pod # v.pod
  PROVE  /\ ClaimsFit'
         /\ claim'[c] = v /\ \A d \in Claims : d # c => claim'[d] = claim[d]
<1>1. claim'[c] = v /\ \A d \in Claims : d # c => claim'[d] = claim[d]
  BY DEF PutClaim, TypeOK, ServerOK
<1>2. ClaimShape'
  BY <1>1 DEF ClaimsFit, ClaimShape, ShapeOf
<1>3. HeldIsTaken'
  <2> SUFFICES ASSUME NEW d \in Claims, claim'[d].pod # None
               PROVE  TakenFor(claim'[d].pod, d)
    BY DEF HeldIsTaken, TakenFor, Gone
  <2>1. CASE d = c
    BY <1>1, <2>1 DEF ClaimsFit, HeldIsTaken
  <2>2. CASE d # c
    BY <1>1, <2>2 DEF ClaimsFit, HeldIsTaken
  <2> QED
    BY <2>1, <2>2
<1>4. NeverShared'
  <2> SUFFICES ASSUME NEW d1 \in Claims, NEW d2 \in Claims, d1 # d2, claim'[d1].pod # None,
                      claim'[d1].pod = claim'[d2].pod
               PROVE  FALSE
    BY DEF NeverShared
  <2>1. CASE d1 # c /\ d2 # c
    BY <1>1, <2>1 DEF ClaimsFit, NeverShared
  <2>2. CASE d1 = c \/ d2 = c
    BY <1>1, <2>2 DEF ClaimsFit, NeverShared
  <2> QED
    BY <2>1, <2>2
<1> QED
  BY <1>1, <1>2, <1>3, <1>4 DEF ClaimsFit

\* What happens to a pod that does not give it to somebody else.
Kept(p) == (Gone(p) => Gone(p)') /\ \A c \in Claims : TakenFor(p, c) => TakenFor(p, c)'

LEMMA KeptFits ==
  ASSUME TypeOK, ClaimsFit, claim' = claim,
         \A c \in Claims : claim[c].pod # None => Kept(claim[c].pod)
  PROVE  ClaimsFit'
BY DEF ClaimsFit, ClaimShape, HeldIsTaken, NeverShared, Kept, TakenFor, Gone

LEMMA KeptRunFits ==
  ASSUME TypeOK, RunFits, claim' = claim, cr' = cr, fresh'.claim => fresh.claim,
         fresh'.pod /\ cr.step = "label" => fresh.pod /\ pod'[cr.pod] = pod[cr.pod],
         \A c \in Claims : claim[c].pod # None => Kept(claim[c].pod),
         cr.pod # None => Kept(cr.pod)
  PROVE  RunFits'
<1>1. /\ cr.step # "idle" => cr.key \in Claims
      /\ cr.step \in {"release", "label", "bind"} => cr.pod \in Pods /\ cr.pod # None
  BY ConstantsAssumption DEF TypeOK, ControllersOK
<1>2. CopyCurrent'
  BY <1>1 DEF RunFits, CopyCurrent, Kept, Gone
<1>3. PodChosen'
  <2>1. cr.step = "label" /\ fresh'.pod => cr.pod \in WarmIn(pod')
    BY DEF RunFits, PodChosen, WarmIn, Live
  <2>2. cr.step = "bind" => TakenFor(cr.pod, cr.key)' /\ \A c \in Claims : claim'[c].pod # cr.pod
    BY <1>1 DEF RunFits, PodChosen, Kept, TakenFor, Gone
  <2> QED
    BY <2>1, <2>2 DEF PodChosen, TakenFor, Gone
<1> QED
  BY <1>2, <1>3 DEF RunFits

\* Ageing of a pod: it runs, is doomed or is removed.
LEMMA PodAges ==
  ASSUME TypeOK, NEW p \in Pods, NEW v, pod' = [pod EXCEPT ![p] = v],
         pod[p] # NoPod => v = NoPod \/ v.claim = pod[p].claim,
         pod[p].del => v = NoPod \/ v.del, pod[p] = NoPod => v = NoPod
  PROVE  \A q \in Pods : Kept(q)
<1> TAKE q \in Pods
<1>1. CASE q # p
  <2>1. pod'[q] = pod[q]
    BY <1>1 DEF TypeOK, ServerOK
  <2> QED
    BY <2>1 DEF Kept, Gone, TakenFor
<1>2. CASE q = p
  <2>1. pod'[p] = v
    BY DEF TypeOK, ServerOK
  <2> QED
    BY <1>2, <2>1 DEF Kept, Gone, TakenFor
<1> QED
  BY <1>1, <1>2

\* Steps that touch neither claims, pods nor the reconciliation of a claim.
LEMMA StillFits ==
  ASSUME TypeOK, UseInv, UNCHANGED <<claim, pod, cr>>, fresh'.claim => fresh.claim,
         fresh'.pod => fresh.pod
  PROVE  ClaimsFit' /\ RunFits'
<1>1. \A p : Kept(p)
  BY DEF Kept, Gone, TakenFor
<1> QED
  BY <1>1, KeptFits, KeptRunFits DEF UseInv

LEMMA AgedFits ==
  ASSUME TypeOK, UseInv, UNCHANGED <<claim, cr>>, NEW p \in Pods, NEW v \in PodVal, PutPod(p, v),
         v = pod[p] \/ v = NoPod \/ (pod[p] # NoPod /\ v.claim = pod[p].claim),
         pod[p].del => v = NoPod \/ v.del,
         fresh'.claim => fresh.claim, fresh'.pod => fresh.pod,
         v # pod[p] => ~(fresh'.pod /\ cr.pod = p)
  PROVE  ClaimsFit' /\ RunFits'
<1>1. pod' = [pod EXCEPT ![p] = v]
  BY DEF PutPod
<1>2. \A q \in Pods : Kept(q)
  BY <1>1, PodAges
<1>3. \A c \in Claims : claim[c].pod # None => Kept(claim[c].pod)
  BY <1>2, CoreValues DEF ClaimVal
<1>4. cr.pod # None => Kept(cr.pod)
  BY <1>2 DEF TypeOK, ControllersOK
<1>5. fresh'.pod /\ cr.step = "label" => pod'[cr.pod] = pod[cr.pod]
  <2>1. cr.step = "label" => cr.pod \in Pods
    BY DEF TypeOK, ControllersOK
  <2> QED
    BY <1>1, <2>1 DEF TypeOK, ServerOK
<1> QED
  BY <1>3, <1>4, <1>5, KeptFits, KeptRunFits DEF UseInv

LEMMA UseOutside == TypeOK /\ UseInv /\ Outside => ClaimsFit' /\ RunFits'
<1> SUFFICES ASSUME TypeOK, UseInv, Outside PROVE ClaimsFit' /\ RunFits'
  OBVIOUS
<1>0. fresh \in Flags
  BY DEF TypeOK, ControllersOK, Flags
<1>1. ASSUME Rescale \/ DeletePool \/ CreateTemplate \/ TamperPolicy \/ CollectPolicy
      PROVE  ClaimsFit' /\ RunFits'
  <2>1. fresh'.claim = fresh.claim /\ fresh'.pod = fresh.pod
    BY <1>0, <1>1 DEF Rescale, DeletePool, CreateTemplate, TamperPolicy, CollectPolicy, Flags
  <2> QED
    BY <1>1, <2>1, StillFits DEF Rescale, DeletePool, CreateTemplate, TamperPolicy, CollectPolicy
<1>2. ASSUME NEW c \in Claims, TTLElapses(c) \/ TimerFires(c) PROVE ClaimsFit' /\ RunFits'
  BY <1>2, StillFits DEF TTLElapses, TimerFires
\* The claim whose reconciliation is under way is not one that is created, and is not
\* current any more if it is deleted.
<1>3. ASSUME NEW c \in Claims, NEW v \in ClaimVal, PutClaim(c, v), ShapeOf(v),
             v.pod \in {None, claim[c].pod}, pod' = pod, cr' = cr, fresh'.pod = fresh.pod,
             fresh'.claim => fresh.claim /\ cr.key # c
      PROVE  ClaimsFit' /\ RunFits'
  <2>1. /\ ClaimsFit'
        /\ claim'[c] = v /\ \A d \in Claims : d # c => claim'[d] = claim[d]
    BY <1>3, PutFits DEF UseInv
  <2>2. cr.step # "idle" => cr.key \in Claims
    BY DEF TypeOK, ControllersOK
  <2>3. CopyCurrent'
    BY <1>3, <2>1, <2>2 DEF UseInv, RunFits, CopyCurrent, Gone
  <2>4. PodChosen'
    <3>1. \A p : (\A d \in Claims : claim[d].pod # p) /\ p # None => \A d \in Claims : claim'[d].pod # p
      BY <1>3, <2>1
    <3>2. cr.step = "bind" => cr.pod # None
      BY ConstantsAssumption DEF TypeOK, ControllersOK
    <3> QED
      BY <1>3, <3>1, <3>2 DEF UseInv, RunFits, PodChosen, TakenFor, Gone, WarmIn, Live
  <2> QED
    BY <2>1, <2>3, <2>4 DEF RunFits
<1>4. ASSUME NEW c \in Claims, CreateClaim(c) PROVE ClaimsFit' /\ RunFits'
  <2>1. ShapeOf(NewClaim)
    BY ValueTypes DEF ShapeOf
  <2> QED
    BY <1>3, <1>4, <2>1, ValueTypes DEF CreateClaim, ClaimNameFree
<1>5. ASSUME NEW c \in Claims, DeleteClaim(c) PROVE ClaimsFit' /\ RunFits'
  <2>1. ShapeOf(Deleted(c)) /\ Deleted(c).pod \in {None, claim[c].pod}
    BY CoreValues, ValueTypes DEF Deleted, ShapeOf, ClaimVal, UseInv, ClaimsFit, ClaimShape
  <2>2. fresh'.pod = fresh.pod /\ (fresh'.claim => fresh.claim /\ cr.key # c)
    BY <1>0, <1>5 DEF DeleteClaim, ClaimMoved, Flags
  <2> QED
    BY <1>3, <1>5, <2>1, <2>2, CoreValues DEF DeleteClaim
<1>6. ASSUME NEW p \in Pods, PodRuns(p) \/ EvictPod(p) \/ RemovePod(p) \/ CollectPod(p)
      PROVE  ClaimsFit' /\ RunFits'
  <2>1. PICK v \in PodVal :
          /\ PodWrites(p, v)
          /\ v = NoPod \/ (pod[p] # NoPod /\ v.claim = pod[p].claim)
          /\ pod[p].del => v = NoPod \/ v.del
    <3>1. pod[p] \in PodVal
      BY CoreValues
    <3>2. CASE PodRuns(p)
      <4>1. [pod[p] EXCEPT !.phase = "Running"] \in PodVal
            /\ [pod[p] EXCEPT !.phase = "Running"].claim = pod[p].claim
        BY <3>1 DEF PodVal
      <4>2. pod[p] # NoPod /\ ~pod[p].del
        BY <3>2 DEF PodRuns, NoPod
      <4>3. PodWrites(p, [pod[p] EXCEPT !.phase = "Running"])
        BY <3>2 DEF PodRuns
      <4> QED
        BY <4>1, <4>2, <4>3
    <3>3. CASE EvictPod(p) \/ CollectPod(p)
      <4>1. Doomed(p) = NoPod \/ (pod[p] # NoPod /\ Doomed(p).claim = pod[p].claim /\ Doomed(p).del)
        BY <3>1 DEF Doomed, PodVal
      <4> QED
        BY <3>3, <4>1, CoreValues DEF EvictPod, CollectPod
    <3>4. CASE RemovePod(p)
      BY <3>4, ValueTypes DEF RemovePod
    <3> QED
      BY <1>6, <3>2, <3>3, <3>4
  <2>2. fresh'.claim = fresh.claim /\ fresh'.pod = (fresh.pod /\ cr.pod # p)
    BY <1>0, <2>1 DEF PodWrites, PodMoved, Flags
  <2> QED
    BY <2>1, <2>2, AgedFits DEF PodWrites
<1> QED
  BY <1>1, <1>2, <1>4, <1>5, <1>6 DEF Outside

LEMMA UseDeliver == TypeOK /\ UseInv /\ (Deliver \/ Crash) => ClaimsFit' /\ RunFits'
<1> SUFFICES ASSUME TypeOK, UseInv, Deliver \/ Crash PROVE ClaimsFit' /\ RunFits'
  OBVIOUS
<1>1. ASSUME Deliver PROVE ClaimsFit' /\ RunFits'
  BY <1>1, StillFits DEF Deliver, DeliverPool, DeliverTemplate, DeliverPolicy, DeliverPod,
                         DeliverClaim, Take
<1>2. ASSUME Crash PROVE ClaimsFit' /\ RunFits'
  <2>1. ClaimsFit'
    BY <1>2 DEF Crash, UseInv, ClaimsFit, ClaimShape, HeldIsTaken, NeverShared, TakenFor, Gone
  <2>2. RunFits'
    BY <1>2 DEF Crash, ClaimIdle, NoFresh, RunFits, CopyCurrent, PodChosen
  <2> QED
    BY <2>1, <2>2
<1> QED
  BY <1>1, <1>2

LEMMA UsePool == TypeOK /\ UseInv /\ (PoolReconcile \/ PoolStep) => ClaimsFit' /\ RunFits'
<1> SUFFICES ASSUME TypeOK, UseInv, PoolReconcile \/ PoolStep PROVE ClaimsFit' /\ RunFits'
  OBVIOUS
<1>0. fresh \in Flags
  BY DEF TypeOK, ControllersOK, Flags
<1>1. ASSUME NEW requeue, PoolDone(requeue)
      PROVE  fresh'.claim = fresh.claim /\ fresh'.pod = fresh.pod
  BY <1>0, <1>1 DEF PoolDone, Flags
<1>2. ASSUME PoolReconcile \/ ClearPoolStatus \/ EnsurePolicy \/ EnsurePolicyFails
               \/ CreateSandboxPodFails \/ UpdatePoolStatus \/ UpdatePoolStatusFails
      PROVE  ClaimsFit' /\ RunFits'
  <2>1. fresh'.claim = fresh.claim /\ fresh'.pod = fresh.pod
    BY <1>0, <1>1, <1>2 DEF PoolReconcile, ClearPoolStatus, EnsurePolicy, EnsurePolicyFails,
       CreateSandboxPodFails, UpdatePoolStatus, UpdatePoolStatusFails, Flags
  <2>2. UNCHANGED <<claim, pod, cr>>
    BY <1>2 DEF PoolReconcile, ClearPoolStatus, EnsurePolicy, EnsurePolicyFails,
       CreateSandboxPodFails, UpdatePoolStatus, UpdatePoolStatusFails
  <2> QED
    BY <2>1, <2>2, StillFits
\* The name of a new pod is not one that a claim was told of.
<1>3. ASSUME CreateSandboxPod PROVE ClaimsFit' /\ RunFits'
  <2>1. fresh'.claim = fresh.claim /\ fresh'.pod = fresh.pod
    BY <1>1, <1>3, Zenon DEF CreateSandboxPod
  <2>2. PICK p \in Pods : PodNameFree(p) /\ PutPod(p, NewPod)
    BY <1>3 DEF CreateSandboxPod
  <2>3. UNCHANGED <<claim, cr>>
    BY <1>3 DEF CreateSandboxPod
  <2>4. \A q \in Pods \ {p} : pod'[q] = pod[q] /\ Kept(q)
    BY <2>2 DEF PutPod, TypeOK, ServerOK, Kept, Gone, TakenFor
  <2>5. /\ cr.pod # p /\ cr.pod \in Pods \cup {None}
        /\ \A c \in Claims : claim[c].pod # p /\ claim[c].pod \in Pods \cup {None}
    BY <2>2, CoreValues DEF PodNameFree, ClaimVal, TypeOK, ControllersOK
  <2>6. cr.step = "label" => cr.pod \in Pods
    BY DEF TypeOK, ControllersOK
  <2> QED
    BY <2>1, <2>3, <2>4, <2>5, <2>6, KeptFits, KeptRunFits DEF UseInv
<1>4. ASSUME NEW p \in Pods, DeleteExcessPod(p) PROVE ClaimsFit' /\ RunFits'
  <2>1. Doomed(p) \in PodVal /\ PutPod(p, Doomed(p)) /\ UNCHANGED <<claim, cr>>
    BY <1>4, CoreValues DEF DeleteExcessPod
  <2>2. fresh'.claim = fresh.claim /\ (fresh'.pod => fresh.pod)
        /\ (Doomed(p) # pod[p] => ~(fresh'.pod /\ cr.pod = p))
    BY <1>0, <1>4 DEF DeleteExcessPod, PodMoved, Flags
  <2>3. /\ Doomed(p) = NoPod \/ (pod[p] # NoPod /\ Doomed(p).claim = pod[p].claim)
        /\ pod[p].del => Doomed(p) = NoPod \/ Doomed(p).del
    BY CoreValues DEF Doomed, PodVal
  <2> QED
    BY <2>1, <2>2, <2>3, AgedFits
<1>5. ASSUME NEW p \in Pods, DeleteExcessPodFails(p) PROVE ClaimsFit' /\ RunFits'
  BY <1>5, StillFits DEF DeleteExcessPodFails
<1> QED
  BY <1>2, <1>3, <1>4, <1>5 DEF PoolStep

\* A reconciliation begins with the cached claim, which is the stored one if no event
\* is under way.
LEMMA UseDispatch ==
  ASSUME TypeOK, UseInv, NEW c \in Claims, ClaimReconcile(c)
  PROVE  ClaimsFit' /\ RunFits'
<1>0. /\ fresh \in Flags /\ cache.claim \in [Claims -> ClaimVal] /\ cache.pod \in [Pods -> PodVal]
      /\ claim[c] \in ClaimVal /\ cr.step = "idle" /\ UNCHANGED <<claim, pod>>
  BY DEF TypeOK, ServerOK, InformersOK, CacheVal, ControllersOK, Flags, ClaimReconcile, ReconcileGone,
         ReconcileDeleted, ReconcileNoFinalizer, ReconcileFailed, ReconcileBound, ReconcileNew,
         ReconcilePending, Begin
<1>1. /\ Quiet(watch.claim, c) => cache.claim[c] = claim[c]
      /\ \A p \in Pods : Quiet(watch.pod, p) => cache.pod[p] = pod[p]
      /\ ShapeOf(claim[c])
  BY DEF UseInv, InStep, Coherent, ClaimsFit, ClaimShape
<1>2. ClaimsFit'
  <2>1. \A p : Kept(p)
    BY <1>0 DEF Kept, Gone, TakenFor
  <2> QED
    BY <1>0, <2>1, KeptFits DEF UseInv
<1>3. ASSUME NEW step, NEW p, Begin(c, step, p), CopyOf(c)
      PROVE  cr' = (IF step = "idle" THEN ClaimIdle ELSE [step |-> step, key |-> c, pod |-> p])
             /\ (fresh'.claim => cache.claim[c] = claim[c])
  BY <1>0, <1>1, <1>3 DEF Begin, CopyOf, Flags
<1>4. CASE ReconcileGone(c) \/ ReconcileFailed(c) \/ cr'.step = "idle"
  <2>1. cr'.step = "idle"
    BY <1>4 DEF ReconcileGone, ReconcileFailed, Begin, ClaimIdle
  <2> QED
    BY <1>2, <2>1 DEF RunFits, CopyCurrent, PodChosen
<1>5. CASE ReconcileDeleted(c)
  <2> DEFINE copy == cache.claim[c]
  <2>1. CASE copy.pod = None
    BY <1>0, <1>2, <1>3, <1>5, <2>1 DEF ReconcileDeleted, RunFits, CopyCurrent, PodChosen, Gone
  <2>2. CASE copy.pod # None
    BY <1>0, <1>2, <1>3, <1>5, <2>2 DEF ReconcileDeleted, RunFits, CopyCurrent, PodChosen, Gone
  <2> QED
    BY <2>1, <2>2
<1>6. CASE ReconcileNoFinalizer(c)
  <2>1. fresh'.claim => claim[c] = NewClaim
    BY <1>1, <1>3, <1>6 DEF ReconcileNoFinalizer, ShapeOf
  <2> QED
    BY <1>0, <1>2, <1>3, <1>6, <2>1 DEF ReconcileNoFinalizer, RunFits, CopyCurrent, PodChosen
<1>7. CASE ReconcileBound(c) /\ cr'.step # "idle"
  <2>1. Begin(c, "expire", None) /\ CopyOf(c) /\ Active(c) /\ cache.claim[c].phase = "Bound"
    BY <1>7 DEF ReconcileBound, Begin, ClaimIdle
  <2> QED
    BY <1>0, <1>2, <1>3, <2>1 DEF Active, RunFits, CopyCurrent, PodChosen
<1>8. CASE ReconcileNew(c)
  BY <1>0, <1>1, <1>2, <1>3, <1>8 DEF ReconcileNew, Active, RunFits, CopyCurrent, PodChosen, ShapeOf
<1>9. CASE ReconcilePending(c)
  <2>1. /\ PickPod([ClaimIdle EXCEPT !.key = c], Quiet(watch.claim, c))
        /\ cache.claim[c].fin /\ cache.claim[c].phase \in {"Pending", "Released"}
    BY <1>9 DEF ReconcilePending, Active
  <2>2. /\ cr'.key = c /\ cr'.step \in {"fail", "label"}
        /\ fresh'.claim => claim[c].fin /\ claim[c].phase \in {"Pending", "Released"}
        /\ cr'.step = "label" /\ fresh'.pod => cr'.pod \in WarmIn(pod)
    <3>1. CASE cr' = [ClaimIdle EXCEPT !.key = c, !.step = "fail"]
      BY <1>0, <1>1, <2>1, <3>1 DEF PickPod, ClaimIdle, Flags
    <3>2. ASSUME NEW p \in WarmIn(cache.pod), cr' = [ClaimIdle EXCEPT !.key = c, !.step = "label", !.pod = p],
                 fresh' = [fresh EXCEPT !.claim = Quiet(watch.claim, c), !.pod = Quiet(watch.pod, p)]
          PROVE  /\ cr'.key = c /\ cr'.step \in {"fail", "label"}
                 /\ fresh'.claim => claim[c].fin /\ claim[c].phase \in {"Pending", "Released"}
                 /\ cr'.step = "label" /\ fresh'.pod => cr'.pod \in WarmIn(pod)
      <4>1. cr'.key = c /\ cr'.step = "label" /\ cr'.pod = p
        BY <3>2 DEF ClaimIdle
      <4>2. fresh'.claim = Quiet(watch.claim, c) /\ fresh'.pod = Quiet(watch.pod, p)
        BY <1>0, <3>2 DEF Flags
      <4>3. Quiet(watch.pod, p) => p \in WarmIn(pod)
        BY <1>1, <3>2 DEF WarmIn, Live
      <4> QED
        BY <1>1, <2>1, <4>1, <4>2, <4>3
    <3> QED
      BY <2>1, <3>1, <3>2 DEF PickPod, ClaimIdle
  <2> QED
    BY <1>0, <1>2, <2>2 DEF RunFits, CopyCurrent, PodChosen, WarmIn, Live
<1> QED
  BY <1>4, <1>5, <1>6, <1>7, <1>8, <1>9 DEF ClaimReconcile

LEMMA UseClaimStep == TypeOK /\ UseInv /\ ClaimStep => ClaimsFit' /\ RunFits'
<1> SUFFICES ASSUME TypeOK, UseInv, ClaimStep PROVE ClaimsFit' /\ RunFits'
  OBVIOUS
<1> DEFINE c == cr.key
<1>0. /\ fresh \in Flags /\ c \in Claims /\ claim[c] \in ClaimVal /\ cr.pod \in Pods \cup {None}
      /\ cr.step \in {"release", "label", "bind"} => cr.pod \in Pods
      /\ ShapeOf(claim[c]) /\ cr.step # "idle"
      /\ pod \in [Pods -> PodVal] /\ claim \in [Claims -> ClaimVal]
      /\ cr = [step |-> cr.step, key |-> cr.key, pod |-> cr.pod]
  <2>1. cr.step # "idle"
    BY DEF ClaimStep, AddFinalizer, ReleasePod, RemoveFinalizer, MarkReleased, DeleteExpired,
           MarkPending, MarkFailed, LabelPod, BindClaim, ClaimCallRefused, ClaimCallFails
  <2>2. c \in Claims
    BY <2>1 DEF TypeOK, ControllersOK
  <2> QED
    BY <2>1, <2>2 DEF TypeOK, ServerOK, ControllersOK, Flags, UseInv, ClaimsFit, ClaimShape
<1>1. ASSUME NEW requeue, ClaimDone(requeue) PROVE RunFits'
  BY <1>0, <1>1 DEF ClaimDone, ClaimIdle, Flags, RunFits, CopyCurrent, PodChosen
<1>2. UNCHANGED <<claim, pod>> => ClaimsFit'
  BY KeptFits DEF UseInv, Kept, Gone, TakenFor
<1>3. ASSUME NEW v \in ClaimVal, PutClaim(c, v), ShapeOf(v), v.pod \in {None, claim[c].pod}, pod' = pod
      PROVE  ClaimsFit' /\ claim'[c] = v /\ \A d \in Claims : d # c => claim'[d] = claim[d]
  BY <1>0, <1>3, PutFits DEF UseInv
<1>4. CASE AddFinalizer
  <2>1. claim[c] = NewClaim
    BY <1>4 DEF AddFinalizer, UseInv, RunFits, CopyCurrent
  <2> DEFINE v == [claim[c] EXCEPT !.fin = TRUE]
  <2>2. v \in ClaimVal /\ ShapeOf(v) /\ v.pod = None
    BY <1>0, <2>1, ValueTypes DEF ClaimVal, ShapeOf, NewClaim
  <2>3. PutClaim(c, v) /\ ClaimDone(FALSE) /\ pod' = pod
    BY <1>4 DEF AddFinalizer
  <2> HIDE DEF v
  <2> QED
    BY <1>1, <1>3, <2>2, <2>3
<1>5. CASE RemoveFinalizer
  <2>1. ShapeOf(NoClaim)
    BY ValueTypes DEF ShapeOf
  <2> QED
    BY <1>1, <1>3, <1>5, <2>1, ValueTypes DEF RemoveFinalizer
<1>6. CASE DeleteExpired
  <2>1. ShapeOf(Deleted(c)) /\ Deleted(c).pod \in {None, claim[c].pod}
    BY <1>0, ValueTypes DEF Deleted, ShapeOf, ClaimVal
  <2> QED
    BY <1>0, <1>1, <1>3, <1>6, <2>1, CoreValues DEF DeleteExpired
<1>7. CASE MarkFailed
  <2> DEFINE v == [claim[c] EXCEPT !.phase = "Failed"]
  <2>1. fresh.claim => claim[c].fin
    BY <1>7 DEF MarkFailed, UseInv, RunFits, CopyCurrent
  <2>2. fresh.claim => v \in ClaimVal /\ ShapeOf(v) /\ v.pod = claim[c].pod
    BY <1>0, <2>1 DEF ClaimVal, ShapeOf
  <2>3. PutStatus(c, v) /\ ClaimDone(FALSE) /\ pod' = pod
    BY <1>7 DEF MarkFailed
  <2> HIDE DEF v
  <2> QED
    BY <1>1, <1>2, <1>3, <2>2, <2>3 DEF PutStatus
<1>8. CASE MarkReleased
  <2> DEFINE v == [claim[c] EXCEPT !.phase = "Released"]
  <2>1. fresh.claim => claim[c].fin /\ claim[c].phase = "Bound"
    BY <1>8 DEF MarkReleased, UseInv, RunFits, CopyCurrent
  <2>2. fresh.claim => v \in ClaimVal /\ ShapeOf(v) /\ v.pod = claim[c].pod
    BY <1>0, <2>1 DEF ClaimVal, ShapeOf
  <2>3. PutStatus(c, v) /\ pod' = pod
    BY <1>8 DEF MarkReleased
  <2>4. RunFits'
    BY <1>0, <1>8 DEF MarkReleased, RunFits, CopyCurrent, PodChosen
  <2> HIDE DEF v
  <2> QED
    BY <1>2, <1>3, <2>2, <2>3, <2>4 DEF PutStatus
<1>9. CASE BindClaim
  <2> DEFINE v == [claim[c] EXCEPT !.phase = "Bound", !.pod = cr.pod]
  <2>1. fresh.claim => claim[c].fin
    BY <1>9 DEF BindClaim, UseInv, RunFits, CopyCurrent
  <2>2. cr.pod \in Pods /\ TakenFor(cr.pod, c) /\ \A d \in Claims : claim[d].pod # cr.pod
    BY <1>0, <1>9 DEF BindClaim, UseInv, RunFits, PodChosen
  <2>3. fresh.claim => v \in ClaimVal /\ ShapeOf(v) /\ v.pod = cr.pod
    BY <1>0, <2>1, <2>2, ConstantsAssumption DEF ClaimVal, ShapeOf
  <2>4. PutStatus(c, v) /\ ClaimDone(FALSE) /\ pod' = pod
    BY <1>9 DEF BindClaim
  <2> HIDE DEF v
  <2>5. ClaimsFit'
    BY <1>0, <1>2, <2>2, <2>3, <2>4, PutFits DEF PutStatus, UseInv
  <2> QED
    BY <1>1, <2>4, <2>5
<1>10. CASE MarkPending
  <2> DEFINE v == [claim[c] EXCEPT !.phase = "Pending"]
  <2>1. fresh.claim => claim[c].fin /\ claim[c].pod = None
    BY <1>10 DEF MarkPending, UseInv, RunFits, CopyCurrent
  <2>2. fresh.claim => v \in ClaimVal /\ ShapeOf(v) /\ v.pod = None /\ v.fin /\ v.phase = "Pending"
    BY <1>0, <2>1 DEF ClaimVal, ShapeOf
  <2>3. PutStatus(c, v) /\ PickPod(cr, fresh.claim) /\ pod' = pod
    BY <1>10 DEF MarkPending
  <2> HIDE DEF v
  <2>4. /\ cr'.key = c /\ cr'.step \in {"fail", "label"}
        /\ fresh'.claim => fresh.claim
        /\ cr'.step = "label" /\ fresh'.pod => Quiet(watch.pod, cr'.pod) /\ cr'.pod \in WarmIn(cache.pod)
    BY <1>0, <2>3 DEF PickPod, Flags
  <2>5. cr'.step = "label" /\ fresh'.pod => cr'.pod \in WarmIn(pod)
    BY <2>4 DEF UseInv, InStep, Coherent, WarmIn, Live
  <2>6. ClaimsFit' /\ (fresh.claim => claim'[c].fin /\ claim'[c].phase = "Pending")
    BY <1>2, <1>3, <2>2, <2>3 DEF PutStatus
  <2>7. RunFits'
    BY <2>3, <2>4, <2>5, <2>6 DEF RunFits, CopyCurrent, PodChosen, WarmIn, Live
  <2> QED
    BY <2>6, <2>7
\* The pod of the status is gone before the finalizer is.
<1>11. CASE ReleasePod
  <2>1. /\ cr.pod \in Pods /\ Doomed(cr.pod) \in PodVal
        /\ pod' = [pod EXCEPT ![cr.pod] = Doomed(cr.pod)] /\ claim' = claim /\ fresh' = fresh
        /\ cr' = [cr EXCEPT !.step = "unfinalize", !.pod = None]
    BY <1>0, <1>11, CoreValues DEF ReleasePod, PutPod
  <2>2. \A q \in Pods : Kept(q)
    <3>1. pod[cr.pod] # NoPod => Doomed(cr.pod).claim = pod[cr.pod].claim /\ Doomed(cr.pod).del
      BY <1>0, <2>1 DEF Doomed, PodVal
    <3>2. pod[cr.pod] = NoPod => Doomed(cr.pod) = NoPod
      BY DEF Doomed
    <3> QED
      BY <2>1, <3>1, <3>2, PodAges
  <2>3. ClaimsFit'
    <3>1. \A d \in Claims : claim[d].pod # None => Kept(claim[d].pod)
      BY <2>2, CoreValues DEF ClaimVal
    <3> QED
      BY <2>1, <3>1, KeptFits DEF UseInv
  <2>4. pod'[cr.pod] = NoPod \/ pod'[cr.pod].del
    <3>1. pod'[cr.pod] = Doomed(cr.pod)
      BY <1>0, <2>1
    <3>2. Doomed(cr.pod) = NoPod \/ Doomed(cr.pod).del
      BY <1>0, <2>1 DEF Doomed, PodVal
    <3> QED
      BY <3>1, <3>2
  <2>5. fresh.claim => claim[c].pod = cr.pod
    BY <1>11 DEF ReleasePod, UseInv, RunFits, CopyCurrent
  <2>6. RunFits'
    BY <1>0, <2>1, <2>4, <2>5 DEF RunFits, CopyCurrent, PodChosen, Gone
  <2> QED
    BY <2>3, <2>6
\* A pod that is warm is no claim's.
<1>12. CASE LabelPod
  <2> DEFINE p == cr.pod
             v == [pod[p] EXCEPT !.claim = c]
  <2>1. /\ p \in WarmIn(pod) /\ p \in Pods /\ fresh.pod
        /\ PutPod(p, v) /\ cr' = [cr EXCEPT !.step = "bind"] /\ UNCHANGED <<claim, fresh>>
    BY <1>0, <1>12 DEF LabelPod, UseInv, RunFits, PodChosen
  <2>2. pod[p].claim = None /\ ~Gone(p)
    BY <2>1, ValueTypes DEF WarmIn, Live, Gone, NoPod
  <2>3. \A d \in Claims : claim[d].pod # p
    BY <2>1, <2>2, ConstantsAssumption DEF UseInv, ClaimsFit, HeldIsTaken, TakenFor
  <2>4. /\ pod'[p] = v /\ v.claim = c
        /\ \A q \in Pods : q # p => pod'[q] = pod[q]
    <3>1. pod[p] \in PodVal
      BY <1>0, <2>1
    <3> QED
      BY <1>0, <2>1, <3>1 DEF PutPod, PodVal
  <2> HIDE DEF v
  <2>5. ClaimsFit'
    <3>1. \A q \in Pods : q # p => Kept(q)
      BY <2>4 DEF Kept, Gone, TakenFor
    <3>2. \A d \in Claims : claim[d].pod # None => Kept(claim[d].pod)
      BY <2>3, <3>1, CoreValues DEF ClaimVal
    <3> QED
      BY <2>1, <3>2, KeptFits DEF UseInv
  <2>6. RunFits'
    <3>1. cr'.step = "bind" /\ cr'.pod = p /\ cr'.key = c
      BY <1>0, <2>1
    <3>2. fresh'.claim => claim'[c].fin /\ claim'[c].phase \in {"Pending", "Released"}
      BY <1>12, <2>1 DEF LabelPod, UseInv, RunFits, CopyCurrent
    <3>3. TakenFor(p, c)'
      BY <1>0, <2>4, <3>1 DEF TakenFor
    <3> QED
      BY <2>1, <2>3, <3>1, <3>2, <3>3 DEF RunFits, CopyCurrent, PodChosen, TakenFor, Gone
  <2> QED
    BY <2>5, <2>6
<1>13. CASE ClaimCallRefused \/ ClaimCallFails
  BY <1>1, <1>2, <1>13 DEF ClaimCallRefused, ClaimCallFails, ClaimFails
<1> QED
  BY <1>4, <1>5, <1>6, <1>7, <1>8, <1>9, <1>10, <1>11, <1>12, <1>13 DEF ClaimStep

LEMMA UseNext == TypeOK /\ UseInv /\ [Next]_vars => UseInv'
<1> SUFFICES ASSUME TypeOK, UseInv, [Next]_vars PROVE ClaimsFit' /\ RunFits'
  BY InStepNext DEF UseInv
<1>1. ASSUME UNCHANGED vars PROVE ClaimsFit' /\ RunFits'
  BY <1>1, StillFits
<1> QED
  BY <1>1, UseOutside, UseDeliver, UsePool, UseDispatch, UseClaimStep DEF Next, Operator

-----------------------------------------------------------------------------
(* Refinement of SandboxUse, as long as nothing goes wrong between the two   *)
(* writes that end a claim which has outlived its TTL.                       *)

\* An expired claim is not bound again, since the reconciliation that released it
\* deletes it.
NoneRevived == \A c \in Claims :
  claim[c].phase = "Released" /\ ~claim[c].del => cr.step = "delete" /\ cr.key = c

CalmInv ==
  /\ NoneRevived
  /\ fresh.claim /\ cr.step \in {"fail", "label", "bind"} => claim[cr.key].pod = None

LEMMA CalmInit == Init => CalmInv
BY ValueTypes DEF Init, ClusterInit, CalmInv, NoneRevived, ClaimIdle, NoFresh

LEMMA CalmStill ==
  ASSUME TypeOK, CalmInv, UNCHANGED <<claim, cr>>, fresh'.claim => fresh.claim
  PROVE  CalmInv'
BY DEF CalmInv, NoneRevived

LEMMA CalmOutside == TypeOK /\ CalmInv /\ Outside => CalmInv'
<1> SUFFICES ASSUME TypeOK, CalmInv, Outside PROVE CalmInv'
  OBVIOUS
<1>0. fresh \in Flags
  BY DEF TypeOK, ControllersOK, Flags
<1>1. ASSUME Rescale \/ DeletePool \/ CreateTemplate \/ TamperPolicy \/ CollectPolicy PROVE CalmInv'
  <2>1. fresh'.claim = fresh.claim
    BY <1>0, <1>1 DEF Rescale, DeletePool, CreateTemplate, TamperPolicy, CollectPolicy, Flags
  <2> QED
    BY <1>1, <2>1, CalmStill DEF Rescale, DeletePool, CreateTemplate, TamperPolicy, CollectPolicy
<1>2. ASSUME NEW c \in Claims, TTLElapses(c) \/ TimerFires(c) PROVE CalmInv'
  BY <1>2, CalmStill DEF TTLElapses, TimerFires
<1>3. ASSUME NEW c \in Claims, NEW v \in ClaimVal, PutClaim(c, v), v.phase = "Released" => v.del,
             cr' = cr, fresh'.claim => fresh.claim /\ cr.key # c
      PROVE  CalmInv'
  <2>1. claim'[c] = v /\ \A d \in Claims : d # c => claim'[d] = claim[d]
    BY <1>3 DEF PutClaim, TypeOK, ServerOK
  <2>2. cr.step # "idle" => cr.key \in Claims
    BY DEF TypeOK, ControllersOK
  <2> QED
    BY <1>3, <2>1, <2>2 DEF CalmInv, NoneRevived
<1>4. ASSUME NEW c \in Claims, CreateClaim(c) PROVE CalmInv'
  BY <1>3, <1>4, ValueTypes DEF CreateClaim, ClaimNameFree
<1>5. ASSUME NEW c \in Claims, DeleteClaim(c) PROVE CalmInv'
  <2>1. Deleted(c).phase = "Released" => Deleted(c).del
    BY CoreValues, ValueTypes DEF Deleted, ClaimVal
  <2>2. fresh'.claim => fresh.claim /\ cr.key # c
    BY <1>0, <1>5 DEF DeleteClaim, ClaimMoved, Flags
  <2> QED
    BY <1>3, <1>5, <2>1, <2>2, CoreValues DEF DeleteClaim
<1>6. ASSUME NEW p \in Pods, PodRuns(p) \/ EvictPod(p) \/ RemovePod(p) \/ CollectPod(p) PROVE CalmInv'
  <2>1. PICK v : PodWrites(p, v)
    BY <1>6 DEF PodRuns, EvictPod, RemovePod, CollectPod
  <2>2. fresh'.claim = fresh.claim
    BY <1>0, <2>1 DEF PodWrites, PodMoved, Flags
  <2> QED
    BY <2>1, <2>2, CalmStill DEF PodWrites
<1> QED
  BY <1>1, <1>2, <1>4, <1>5, <1>6 DEF Outside

LEMMA CalmDispatch ==
  ASSUME TypeOK, UseInv, CalmInv, NEW c \in Claims, ClaimReconcile(c)
  PROVE  CalmInv'
<1>0. /\ fresh \in Flags /\ claim[c] \in ClaimVal /\ cr.step = "idle"
      /\ claim' = claim
      /\ Quiet(watch.claim, c) => cache.claim[c] = claim[c]
      /\ ShapeOf(claim[c])
  BY DEF TypeOK, ServerOK, ControllersOK, Flags, ClaimReconcile, ReconcileGone, ReconcileDeleted,
         ReconcileNoFinalizer, ReconcileFailed, ReconcileBound, ReconcileNew, ReconcilePending, Begin,
         UseInv, InStep, Coherent, ClaimsFit, ClaimShape
<1>1. NoneRevived' /\ \A d \in Claims : ~(claim[d].phase = "Released" /\ ~claim[d].del)
  BY <1>0 DEF CalmInv, NoneRevived
<1>2. CASE ReconcileGone(c) \/ ReconcileDeleted(c) \/ ReconcileNoFinalizer(c) \/ ReconcileFailed(c)
             \/ ReconcileBound(c) \/ ReconcileNew(c)
  <2>1. PICK step \in {"idle", "unfinalize", "release", "finalize", "expire", "pending"} :
          \E p : Begin(c, step, p)
    BY <1>2 DEF ReconcileGone, ReconcileDeleted, ReconcileNoFinalizer, ReconcileFailed,
                ReconcileBound, ReconcileNew
  <2>2. cr'.step = step /\ (step # "idle" => cr'.key = c)
    BY <2>1 DEF Begin, ClaimIdle
  <2> QED
    BY <1>0, <1>1, <2>1, <2>2 DEF CalmInv
<1>3. CASE ReconcilePending(c)
  <2>1. /\ cr'.key = c /\ cr'.step \in {"fail", "label"}
        /\ fresh'.claim => Quiet(watch.claim, c)
    BY <1>0, <1>3 DEF ReconcilePending, PickPod, ClaimIdle, Flags
  <2>2. fresh'.claim => claim[c].pod = None
    BY <1>0, <1>1, <1>3, <2>1 DEF ReconcilePending, Active, ShapeOf
  <2> QED
    BY <1>0, <1>1, <2>1, <2>2 DEF CalmInv
<1> QED
  BY <1>2, <1>3 DEF ClaimReconcile

\* Only the deletion of an expired claim could leave it behind, by failing.
LEMMA CalmClaimStep == TypeOK /\ UseInv /\ CalmInv /\ ClaimStep /\ Calm => CalmInv'
<1> SUFFICES ASSUME TypeOK, UseInv, CalmInv, ClaimStep, Calm PROVE CalmInv'
  OBVIOUS
<1> DEFINE c == cr.key
<1>0. /\ fresh \in Flags /\ c \in Claims /\ claim[c] \in ClaimVal
      /\ ShapeOf(claim[c]) /\ claim \in [Claims -> ClaimVal]
      /\ cr = [step |-> cr.step, key |-> cr.key, pod |-> cr.pod] /\ faults \in Nat
  <2>1. cr.step # "idle"
    BY DEF ClaimStep, AddFinalizer, ReleasePod, RemoveFinalizer, MarkReleased, DeleteExpired,
           MarkPending, MarkFailed, LabelPod, BindClaim, ClaimCallRefused, ClaimCallFails
  <2>2. c \in Claims
    BY <2>1 DEF TypeOK, ControllersOK
  <2>3. faults \in Nat
    BY ConstantsAssumption DEF TypeOK
  <2> QED
    BY <2>1, <2>2, <2>3 DEF TypeOK, ServerOK, ControllersOK, Flags, UseInv, ClaimsFit, ClaimShape
<1>1. ASSUME NEW requeue, ClaimDone(requeue), NoneRevived' PROVE CalmInv'
  BY <1>0, <1>1 DEF ClaimDone, ClaimIdle, Flags, CalmInv
<1>2. ASSUME cr.step # "delete", claim' = claim \/ \E v : PutClaim(c, v) /\ (v.phase = "Released" => v.del)
      PROVE  NoneRevived'
  <2>1. \A d \in Claims : claim'[d] = claim[d] \/ (claim'[d].phase = "Released" => claim'[d].del)
    BY <1>0, <1>2 DEF PutClaim
  <2> QED
    BY <1>2, <2>1 DEF CalmInv, NoneRevived
<1>3. CASE AddFinalizer
  <2>1. claim[c] = NewClaim
    BY <1>3 DEF AddFinalizer, UseInv, RunFits, CopyCurrent
  <2>2. [claim[c] EXCEPT !.fin = TRUE].phase # "Released"
    BY <2>1, ValueTypes DEF NewClaim
  <2> QED
    BY <1>1, <1>2, <1>3, <2>2 DEF AddFinalizer
<1>4. CASE RemoveFinalizer
  BY <1>1, <1>2, <1>4, ValueTypes DEF RemoveFinalizer
<1>5. CASE MarkReleased
  <2>1. \A d \in Claims : d # c => claim'[d] = claim[d]
    BY <1>5 DEF MarkReleased, PutStatus, PutClaim, TypeOK, ServerOK
  <2>2. cr'.step = "delete" /\ cr'.key = c
    BY <1>0, <1>5 DEF MarkReleased
  <2> QED
    BY <1>0, <2>1, <2>2 DEF CalmInv, NoneRevived
<1>6. CASE DeleteExpired
  <2>1. claim'[c] = Deleted(c) /\ \A d \in Claims : d # c => claim'[d] = claim[d]
    BY <1>0, <1>6 DEF DeleteExpired, PutClaim
  <2>2. Deleted(c).phase = "Released" => Deleted(c).del
    BY <1>0, ValueTypes DEF Deleted, ClaimVal
  <2>3. NoneRevived'
    BY <2>1, <2>2 DEF CalmInv, NoneRevived
  <2> QED
    BY <1>1, <1>6, <2>3 DEF DeleteExpired
<1>7. CASE MarkFailed \/ BindClaim
  <2>1. [claim[c] EXCEPT !.phase = "Failed"].phase = "Failed"
        /\ [claim[c] EXCEPT !.phase = "Bound", !.pod = cr.pod].phase = "Bound"
    BY <1>0 DEF ClaimVal
  <2>2. NoneRevived'
    BY <1>2, <1>7, <2>1 DEF MarkFailed, BindClaim, PutStatus
  <2> QED
    BY <1>1, <1>7, <2>2 DEF MarkFailed, BindClaim
<1>8. CASE MarkPending
  <2> DEFINE v == [claim[c] EXCEPT !.phase = "Pending"]
  <2>1. v.phase = "Pending" /\ v.pod = claim[c].pod
    BY <1>0 DEF ClaimVal
  <2>2. NoneRevived'
    BY <1>2, <1>8, <2>1 DEF MarkPending, PutStatus
  <2>3. cr'.key = c /\ cr'.step \in {"fail", "label"} /\ (fresh'.claim => fresh.claim)
    BY <1>0, <1>8 DEF MarkPending, PickPod, Flags
  <2>4. fresh.claim => claim'[c].pod = None
    <3>1. fresh.claim => claim[c].pod = None /\ claim' = [claim EXCEPT ![c] = v]
      BY <1>8 DEF MarkPending, PutStatus, PutClaim, UseInv, RunFits, CopyCurrent
    <3> HIDE DEF v
    <3> QED
      BY <1>0, <2>1, <3>1
  <2> QED
    BY <2>2, <2>3, <2>4 DEF CalmInv
<1>9. CASE ReleasePod \/ LabelPod
  <2>1. claim' = claim /\ cr.step # "delete" /\ cr'.step \in {"unfinalize", "bind"}
        /\ cr'.key = c /\ fresh' = fresh /\ (cr'.step = "bind" => cr.step = "label")
    BY <1>0, <1>9 DEF ReleasePod, LabelPod
  <2>2. NoneRevived'
    BY <1>2, <2>1
  <2> QED
    BY <2>1, <2>2 DEF CalmInv
<1>10. CASE ClaimCallRefused
  BY <1>1, <1>2, <1>10 DEF ClaimCallRefused, ClaimFails
<1>11. CASE ClaimCallFails
  <2>1. cr.step # "delete"
    <3>1. faults' = faults + 1 /\ cr'.step = "idle"
      BY <1>11 DEF ClaimCallFails, ClaimFails, ClaimDone, ClaimIdle, Refused
    <3> QED
      BY <1>0, <3>1 DEF Calm
  <2> QED
    BY <1>1, <1>2, <1>11, <2>1 DEF ClaimCallFails, ClaimFails
<1> QED
  BY <1>3, <1>4, <1>5, <1>6, <1>7, <1>8, <1>9, <1>10, <1>11 DEF ClaimStep

LEMMA CalmNext == TypeOK /\ UseInv /\ CalmInv /\ [Next /\ Calm]_vars => CalmInv'
<1> SUFFICES ASSUME TypeOK, UseInv, CalmInv, [Next /\ Calm]_vars PROVE CalmInv'
  OBVIOUS
<1>0. fresh \in Flags
  BY DEF TypeOK, ControllersOK, Flags
<1>1. ASSUME UNCHANGED vars PROVE CalmInv'
  BY <1>1, CalmStill
<1>2. ASSUME Deliver PROVE CalmInv'
  BY <1>2, CalmStill DEF Deliver, DeliverPool, DeliverTemplate, DeliverPolicy, DeliverPod,
                         DeliverClaim, Take
<1>3. ASSUME Crash, Calm PROVE CalmInv'
  <2>1. faults \in Nat
    BY ConstantsAssumption DEF TypeOK
  <2>2. cr'.step = "idle" /\ claim' = claim /\ ~fresh'.claim /\ faults' # faults
    BY <1>3, <2>1 DEF Crash, ClaimIdle, NoFresh
  <2>3. cr.step # "delete"
    BY <1>3, <2>2 DEF Calm
  <2> QED
    BY <2>2, <2>3 DEF CalmInv, NoneRevived
<1>4. ASSUME PoolReconcile \/ PoolStep PROVE CalmInv'
  <2>1. ASSUME NEW requeue, PoolDone(requeue) PROVE fresh'.claim = fresh.claim
    BY <1>0, <2>1 DEF PoolDone, Flags
  <2>2. fresh'.claim = fresh.claim
    <3>1. CASE CreateSandboxPod
      BY <2>1, <3>1, Zenon DEF CreateSandboxPod
    <3>2. CASE ~CreateSandboxPod
      BY <1>0, <1>4, <2>1, <3>2 DEF PoolReconcile, PoolStep, ClearPoolStatus, EnsurePolicy,
         EnsurePolicyFails, CreateSandboxPodFails, DeleteExcessPod, DeleteExcessPodFails,
         UpdatePoolStatus, UpdatePoolStatusFails, PodMoved, Flags
    <3> QED
      BY <3>1, <3>2
  <2>3. UNCHANGED <<claim, cr>>
    BY <1>4 DEF PoolReconcile, PoolStep, ClearPoolStatus, EnsurePolicy, EnsurePolicyFails,
       CreateSandboxPod, CreateSandboxPodFails, DeleteExcessPod, DeleteExcessPodFails,
       UpdatePoolStatus, UpdatePoolStatusFails
  <2> QED
    BY <2>2, <2>3, CalmStill
<1> QED
  BY <1>1, <1>2, <1>3, <1>4, CalmOutside, CalmDispatch, CalmClaimStep DEF Next, Operator

uses  == [p \in Pods |-> UseOf(pod[p])]
holds == [c \in Claims |-> claim[c].pod]
lapsed == {c \in Claims : claim[c].phase = "Released"}

LEMMA PodUses ==
  /\ UseOf(NoPod) = "absent" /\ UseOf(NewPod) = "warm"
  /\ \A v \in PodVal : v # NoPod /\ v.del => UseOf(v) = "doomed"
  /\ \A v \in PodVal : v # NoPod /\ ~v.del => UseOf(v) = IF v.claim = None THEN "warm" ELSE v.claim
BY ValueTypes DEF UseOf, NewPod

\* A write of one pod is a move of that sandbox, or none.
LEMMA PodRefines ==
  ASSUME TypeOK, claim' = claim, NEW p \in Pods, NEW v \in PodVal, PutPod(p, v),
         \/ UseOf(v) = UseOf(pod[p])
         \/ pod[p] = NoPod /\ v = NewPod
         \/ pod[p].del /\ v = NoPod
         \/ v = Doomed(p)
         \/ p \in WarmIn(pod) /\ \E c \in Claims : v = [pod[p] EXCEPT !.claim = c]
  PROVE  [Use!Next]_<<uses, holds, lapsed>>
<1>1. /\ pod \in [Pods -> PodVal] /\ pod[p] \in PodVal /\ holds' = holds /\ lapsed' = lapsed
      /\ pod' = [pod EXCEPT ![p] = v]
  BY DEF TypeOK, ServerOK, PutPod, holds, lapsed
<1>2. uses' = [uses EXCEPT ![p] = UseOf(v)] /\ uses[p] = UseOf(pod[p])
  BY <1>1 DEF uses
<1>3. CASE UseOf(v) = UseOf(pod[p])
  <2>1. uses' = uses
    BY <1>2, <1>3 DEF uses
  <2> QED
    BY <1>1, <2>1
<1>4. CASE pod[p] = NoPod /\ v = NewPod
  <2>1. Use!Create(p)
    BY <1>1, <1>2, <1>4, PodUses DEF Use!Create, Use!Becomes, uses, holds, lapsed
  <2> QED
    BY <2>1 DEF Use!Next
<1>5. CASE pod[p].del /\ v = NoPod
  <2>1. uses[p] = "doomed"
    BY <1>1, <1>2, <1>5, PodUses, ValueTypes
  <2>2. Use!Remove(p)
    BY <1>1, <1>2, <1>5, <2>1, PodUses DEF Use!Remove, Use!Becomes, uses, holds, lapsed
  <2> QED
    BY <2>2 DEF Use!Next
<1>6. CASE v = Doomed(p) /\ UseOf(v) # UseOf(pod[p])
  <2>1. pod[p] # NoPod /\ ~pod[p].del /\ v # NoPod /\ v.del
    <3>1. pod[p] # NoPod
      BY <1>6 DEF Doomed
    <3>2. v.del
      BY <1>1, <1>6, <3>1 DEF Doomed, PodVal
    <3>3. v # NoPod
      BY <3>2, ValueTypes
    <3> QED
      BY <1>1, <1>6, <3>1, <3>2, <3>3, PodUses
  <2>2. UseOf(v) = "doomed" /\ uses[p] \in {"warm"} \cup Claims
    BY <1>1, <1>2, <2>1, PodUses DEF PodVal
  <2>3. Use!Doom(p)
    BY <1>1, <1>2, <2>2 DEF Use!Doom, Use!Becomes, uses, holds, lapsed
  <2> QED
    BY <2>3 DEF Use!Next
<1>7. ASSUME p \in WarmIn(pod), NEW c \in Claims, v = [pod[p] EXCEPT !.claim = c]
      PROVE  [Use!Next]_<<uses, holds, lapsed>>
  <2>1. pod[p] # NoPod /\ ~pod[p].del /\ pod[p].claim = None /\ pod[p].phase # "absent"
    BY <1>7 DEF WarmIn, Live, NoPod
  <2>2. v.claim = c /\ ~v.del /\ v # NoPod
    BY <1>1, <1>7, <2>1 DEF PodVal, NoPod
  <2>3. uses[p] = "warm" /\ UseOf(v) = c
    BY <1>1, <1>2, <2>1, <2>2, PodUses, ConstantsAssumption
  <2>4. Use!Take(p, c)
    BY <1>1, <1>2, <2>3 DEF Use!Take, Use!Becomes, uses, holds, lapsed
  <2> QED
    BY <2>4 DEF Use!Next
<1> QED
  BY <1>3, <1>4, <1>5, <1>6, <1>7

LEMMA GoneUse == TypeOK => \A p \in Pods : Gone(p) => uses[p] \in {"doomed", "absent"}
BY PodUses DEF TypeOK, ServerOK, Gone, uses

LEMMA TakenUse ==
  ASSUME TypeOK, NEW p \in Pods, NEW c \in Claims, TakenFor(p, c)
  PROVE  uses[p] \in {c, "doomed", "absent"}
<1>1. CASE Gone(p)
  BY <1>1, GoneUse
<1>2. CASE ~Gone(p)
  <2>1. pod[p].claim = c /\ pod[p] # NoPod /\ ~pod[p].del /\ c # None
    BY <1>2, ConstantsAssumption DEF TakenFor, Gone
  <2>2. UseOf(pod[p]) = c
    BY <2>1, PodUses DEF TypeOK, ServerOK
  <2> QED
    BY <2>2 DEF uses
<1> QED
  BY <1>1, <1>2

LEMMA LapsedWrite ==
  ASSUME TypeOK, NEW c \in Claims, NEW v, claim' = [claim EXCEPT ![c] = v]
  PROVE  lapsed' = IF v.phase = "Released" THEN lapsed \cup {c} ELSE lapsed \ {c}
<1>1. claim'[c] = v /\ \A d \in Claims : d # c => claim'[d] = claim[d]
  BY DEF TypeOK, ServerOK
<1> QED
  BY <1>1 DEF lapsed

\* A write of one claim announces a sandbox, ends its time, releases it, or neither.
LEMMA ClaimRefines ==
  ASSUME TypeOK, pod' = pod, NEW c \in Claims, NEW v, PutClaim(c, v),
         \/ v.pod = claim[c].pod /\ (v.phase = "Released" <=> claim[c].phase = "Released")
         \/ v.pod = claim[c].pod /\ claim[c].pod # None
            /\ v.phase = "Released" /\ claim[c].phase # "Released"
         \/ /\ claim[c].pod = None /\ v.pod \in Pods /\ TakenFor(v.pod, c)
            /\ \A d \in Claims : claim[d].pod # v.pod
            /\ v.phase # "Released" /\ claim[c].phase # "Released"
         \/ claim[c].pod \in Pods /\ Gone(claim[c].pod) /\ v.pod = None /\ v.phase # "Released"
  PROVE  [Use!Next]_<<uses, holds, lapsed>>
<1>1. /\ claim \in [Claims -> ClaimVal] /\ pod \in [Pods -> PodVal]
      /\ claim' = [claim EXCEPT ![c] = v] /\ uses' = uses
  BY DEF TypeOK, ServerOK, PutClaim, uses
<1>2. /\ holds' = [holds EXCEPT ![c] = v.pod] /\ \A d \in Claims : holds[d] = claim[d].pod
      /\ lapsed' = IF v.phase = "Released" THEN lapsed \cup {c} ELSE lapsed \ {c}
      /\ c \in lapsed <=> claim[c].phase = "Released"
  BY <1>1, LapsedWrite DEF holds, lapsed
<1>3. \A p \in Pods : Gone(p) => uses[p] \in {"doomed", "absent"}
  BY GoneUse
<1>4. CASE v.pod = claim[c].pod /\ (v.phase = "Released" <=> claim[c].phase = "Released")
  <2>1. holds' = holds /\ lapsed' = lapsed
    BY <1>2, <1>4 DEF holds
  <2> QED
    BY <1>1, <2>1
<1>7. CASE v.pod = claim[c].pod /\ claim[c].pod # None
           /\ v.phase = "Released" /\ claim[c].phase # "Released"
  <2>1. holds' = holds
    BY <1>2, <1>7 DEF holds
  <2>2. Use!Lapse(c)
    BY <1>1, <1>2, <1>7, <2>1 DEF Use!Lapse, uses, holds, lapsed
  <2> QED
    BY <2>2 DEF Use!Next
<1>5. CASE /\ claim[c].pod = None /\ v.pod \in Pods /\ TakenFor(v.pod, c)
           /\ \A d \in Claims : claim[d].pod # v.pod
           /\ v.phase # "Released" /\ claim[c].phase # "Released"
  <2>1. uses[v.pod] \in {c, "doomed", "absent"}
    BY <1>5, TakenUse
  <2>2. Use!Bind(v.pod, c)
    BY <1>1, <1>2, <1>5, <2>1 DEF Use!Bind, Use!Tell, uses, holds, lapsed
  <2> QED
    BY <1>5, <2>2 DEF Use!Next
<1>6. CASE claim[c].pod \in Pods /\ Gone(claim[c].pod) /\ v.pod = None /\ v.phase # "Released"
  <2>1. Use!Release(c)
    BY <1>1, <1>2, <1>3, <1>6, ConstantsAssumption DEF Use!Release, uses, holds, lapsed
  <2> QED
    BY <2>1 DEF Use!Next
<1> QED
  BY <1>4, <1>5, <1>6, <1>7

LEMMA StillRefines ==
  ASSUME UNCHANGED <<claim, pod>>
  PROVE  [Use!Next]_<<uses, holds, lapsed>>
BY DEF uses, holds, lapsed

LEMMA RefinesOutside == TypeOK /\ UseInv /\ Outside => [Use!Next]_<<uses, holds, lapsed>>
<1> SUFFICES ASSUME TypeOK, UseInv, Outside PROVE [Use!Next]_<<uses, holds, lapsed>>
  OBVIOUS
<1>1. ASSUME Rescale \/ DeletePool \/ CreateTemplate \/ TamperPolicy \/ CollectPolicy
               \/ \E c \in Claims : TTLElapses(c) \/ TimerFires(c)
      PROVE  [Use!Next]_<<uses, holds, lapsed>>
  BY <1>1, StillRefines DEF Rescale, DeletePool, CreateTemplate, TamperPolicy, CollectPolicy,
                            TTLElapses, TimerFires
<1>2. ASSUME NEW c \in Claims, CreateClaim(c) \/ DeleteClaim(c) PROVE [Use!Next]_<<uses, holds, lapsed>>
  <2>1. /\ Deleted(c).pod = claim[c].pod
        /\ Deleted(c).phase = "Released" <=> claim[c].phase = "Released"
    BY CoreValues, ValueTypes DEF Deleted, ClaimVal, UseInv, ClaimsFit, ClaimShape, ShapeOf
  <2> QED
    BY <1>2, <2>1, ClaimRefines, ValueTypes DEF CreateClaim, DeleteClaim, ClaimNameFree
<1>3. ASSUME NEW p \in Pods, PodRuns(p) \/ EvictPod(p) \/ RemovePod(p) \/ CollectPod(p)
      PROVE  [Use!Next]_<<uses, holds, lapsed>>
  <2>0. pod[p] \in PodVal
    BY CoreValues
  <2>1. CASE PodRuns(p)
    <3> DEFINE v == [pod[p] EXCEPT !.phase = "Running"]
    <3>1. v \in PodVal /\ v.claim = pod[p].claim /\ ~v.del /\ v # NoPod /\ pod[p] # NoPod /\ ~pod[p].del
      BY <2>0, <2>1 DEF PodRuns, PodVal, NoPod
    <3>2. UseOf(v) = UseOf(pod[p])
      BY <2>0, <3>1, PodUses
    <3>3. PutPod(p, v) /\ claim' = claim
      BY <2>1 DEF PodRuns, PodWrites
    <3> QED
      BY <3>1, <3>2, <3>3, PodRefines
  <2>2. CASE EvictPod(p) \/ CollectPod(p)
    BY <2>2, PodRefines, CoreValues DEF EvictPod, CollectPod, PodWrites
  <2>3. CASE RemovePod(p)
    BY <2>3, PodRefines, ValueTypes DEF RemovePod, PodWrites
  <2> QED
    BY <1>3, <2>1, <2>2, <2>3
<1> QED
  BY <1>1, <1>2, <1>3 DEF Outside

LEMMA RefinesPool == TypeOK /\ (PoolReconcile \/ PoolStep) => [Use!Next]_<<uses, holds, lapsed>>
<1> SUFFICES ASSUME TypeOK, PoolReconcile \/ PoolStep PROVE [Use!Next]_<<uses, holds, lapsed>>
  OBVIOUS
<1>1. CASE CreateSandboxPod
  <2> PICK p \in Pods : PodNameFree(p) /\ PutPod(p, NewPod)
    BY <1>1 DEF CreateSandboxPod
  <2>1. pod[p] = NoPod /\ claim' = claim
    BY <1>1 DEF PodNameFree, CreateSandboxPod
  <2> QED
    BY <2>1, PodRefines, ValueTypes
<1>2. ASSUME NEW p \in Pods, DeleteExcessPod(p) PROVE [Use!Next]_<<uses, holds, lapsed>>
  BY <1>2, PodRefines, CoreValues DEF DeleteExcessPod
<1>3. CASE ~CreateSandboxPod /\ ~\E p \in Pods : DeleteExcessPod(p)
  <2>1. UNCHANGED <<claim, pod>>
    BY <1>3 DEF PoolReconcile, PoolStep, ClearPoolStatus, EnsurePolicy, EnsurePolicyFails,
       CreateSandboxPodFails, DeleteExcessPodFails, UpdatePoolStatus, UpdatePoolStatusFails
  <2> QED
    BY <2>1, StillRefines
<1> QED
  BY <1>1, <1>2, <1>3

\* A claim is kept after it was marked Released: bound again, or failed.
Keeps ==
  \/ \E p \in Pods, c \in Claims : Use!Rebind(p, c)
  \/ \E c \in Claims : Use!Revive(c)

LEMMA KeepRefines ==
  ASSUME TypeOK, pod' = pod, NEW c \in Claims, NEW v, PutClaim(c, v),
         claim[c].phase = "Released", v.phase # "Released",
         \/ v.pod = claim[c].pod
         \/ /\ v.pod \in Pods /\ TakenFor(v.pod, c)
            /\ \A d \in Claims : claim[d].pod # v.pod
  PROVE  Keeps
<1>1. /\ uses' = uses /\ holds' = [holds EXCEPT ![c] = v.pod]
      /\ \A d \in Claims : holds[d] = claim[d].pod
      /\ c \in lapsed /\ lapsed' = lapsed \ {c}
  BY LapsedWrite DEF TypeOK, ServerOK, PutClaim, uses, holds, lapsed
<1>2. CASE v.pod = claim[c].pod
  <2>1. holds' = holds
    BY <1>1, <1>2 DEF holds
  <2> QED
    BY <1>1, <2>1 DEF Keeps, Use!Revive, uses, holds, lapsed
<1>3. CASE v.pod \in Pods /\ TakenFor(v.pod, c) /\ \A d \in Claims : claim[d].pod # v.pod
  <2>1. uses[v.pod] \in {c, "doomed", "absent"}
    BY <1>3, TakenUse
  <2> QED
    BY <1>1, <1>3, <2>1 DEF Keeps, Use!Rebind, Use!Tell, uses, holds, lapsed
<1> QED
  BY <1>2, <1>3

LEMMA RefinesClaimStep ==
  TypeOK /\ UseInv /\ ClaimStep => [Use!Next]_<<uses, holds, lapsed>> \/ (~CalmInv /\ Keeps)
<1> SUFFICES ASSUME TypeOK, UseInv, ClaimStep
             PROVE  [Use!Next]_<<uses, holds, lapsed>> \/ (~CalmInv /\ Keeps)
  OBVIOUS
<1> DEFINE c == cr.key
<1>0. /\ c \in Claims /\ claim[c] \in ClaimVal /\ ShapeOf(claim[c])
      /\ cr.step \in {"release", "label", "bind"} => cr.pod \in Pods
  <2>1. cr.step # "idle"
    BY DEF ClaimStep, AddFinalizer, ReleasePod, RemoveFinalizer, MarkReleased, DeleteExpired,
           MarkPending, MarkFailed, LabelPod, BindClaim, ClaimCallRefused, ClaimCallFails
  <2>2. c \in Claims
    BY <2>1 DEF TypeOK, ControllersOK
  <2> QED
    BY <2>2 DEF TypeOK, ServerOK, ControllersOK, UseInv, ClaimsFit, ClaimShape
<1>1. ASSUME NEW v, claim' = claim \/ PutClaim(c, v), v.pod = claim[c].pod, pod' = pod,
             v.phase = "Released" <=> claim[c].phase = "Released"
      PROVE  [Use!Next]_<<uses, holds, lapsed>>
  BY <1>0, <1>1, ClaimRefines, StillRefines
<1>2. CASE AddFinalizer
  <2>1. /\ [claim[c] EXCEPT !.fin = TRUE].pod = claim[c].pod
        /\ [claim[c] EXCEPT !.fin = TRUE].phase = claim[c].phase
    BY <1>0 DEF ClaimVal
  <2> QED
    BY <1>1, <1>2, <2>1 DEF AddFinalizer
\* A claim is marked Released only when it is Bound.
<1>3. CASE MarkReleased
  <2> DEFINE v == [claim[c] EXCEPT !.phase = "Released"]
  <2>1. PutStatus(c, v) /\ pod' = pod
    BY <1>3 DEF MarkReleased
  <2>2. v.pod = claim[c].pod /\ v.phase = "Released"
    BY <1>0 DEF ClaimVal
  <2>3. fresh.claim => claim[c].phase = "Bound" /\ claim[c].pod # None
    BY <1>0, <1>3 DEF MarkReleased, UseInv, RunFits, CopyCurrent, ShapeOf
  <2> HIDE DEF v
  <2>4. CASE fresh.claim
    BY <1>0, <2>1, <2>2, <2>3, <2>4, ClaimRefines DEF PutStatus
  <2>5. CASE ~fresh.claim
    BY <2>1, <2>5, StillRefines DEF PutStatus
  <2> QED
    BY <2>4, <2>5
\* A claim that is marked Pending has no pod.
<1>10. CASE MarkPending
  <2> DEFINE v == [claim[c] EXCEPT !.phase = "Pending"]
  <2>1. PutStatus(c, v) /\ pod' = pod
    BY <1>10 DEF MarkPending
  <2>2. v.pod = claim[c].pod /\ v.phase = "Pending"
    BY <1>0 DEF ClaimVal
  <2>3. fresh.claim => claim[c].phase # "Released"
    BY <1>0, <1>10 DEF MarkPending, UseInv, RunFits, CopyCurrent, ShapeOf
  <2> HIDE DEF v
  <2>4. CASE fresh.claim
    BY <1>0, <2>1, <2>2, <2>3, <2>4, ClaimRefines DEF PutStatus
  <2>5. CASE ~fresh.claim
    BY <2>1, <2>5, StillRefines DEF PutStatus
  <2> QED
    BY <2>4, <2>5
<1>11. CASE MarkFailed
  <2> DEFINE v == [claim[c] EXCEPT !.phase = "Failed"]
  <2>1. PutStatus(c, v) /\ pod' = pod
    BY <1>11 DEF MarkFailed
  <2>2. v.pod = claim[c].pod /\ v.phase = "Failed"
    BY <1>0 DEF ClaimVal
  <2> HIDE DEF v
  <2>3. CASE fresh.claim /\ claim[c].phase # "Released"
    BY <1>0, <2>1, <2>2, <2>3, ClaimRefines DEF PutStatus
  <2>4. CASE fresh.claim /\ claim[c].phase = "Released"
    <3>1. ~CalmInv
      BY <1>0, <1>11, <2>4 DEF MarkFailed, CalmInv, ShapeOf
    <3>2. Keeps
      BY <1>0, <2>1, <2>2, <2>4, KeepRefines DEF PutStatus
    <3> QED
      BY <3>1, <3>2
  <2>5. CASE ~fresh.claim
    BY <2>1, <2>5, StillRefines DEF PutStatus
  <2> QED
    BY <2>3, <2>4, <2>5
<1>4. CASE DeleteExpired
  <2>1. /\ Deleted(c).pod = claim[c].pod
        /\ Deleted(c).phase = "Released" <=> claim[c].phase = "Released"
    BY <1>0, ValueTypes DEF Deleted, ClaimVal, ShapeOf
  <2> QED
    BY <1>1, <1>4, <2>1 DEF DeleteExpired
<1>5. CASE RemoveFinalizer
  <2>1. claim[c].pod = None \/ Gone(claim[c].pod)
    BY <1>5 DEF RemoveFinalizer, UseInv, RunFits, CopyCurrent
  <2>2. PutClaim(c, NoClaim) /\ pod' = pod
    BY <1>5 DEF RemoveFinalizer
  <2>3. claim[c].pod = None => claim[c].phase # "Released"
    BY <1>0 DEF ShapeOf
  <2>4. NoClaim.pod = None /\ NoClaim.phase # "Released"
    BY DEF NoClaim
  <2> QED
    BY <1>0, <2>1, <2>2, <2>3, <2>4, ClaimRefines DEF ClaimVal
<1>6. CASE BindClaim
  <2> DEFINE v == [claim[c] EXCEPT !.phase = "Bound", !.pod = cr.pod]
  <2>1. v.pod = cr.pod /\ v.phase = "Bound"
    BY <1>0 DEF ClaimVal
  <2>2. /\ PutStatus(c, v) /\ pod' = pod /\ cr.pod \in Pods /\ TakenFor(cr.pod, c)
        /\ \A d \in Claims : claim[d].pod # cr.pod
    BY <1>0, <1>6 DEF BindClaim, UseInv, RunFits, PodChosen
  <2> HIDE DEF v
  <2>3. CASE fresh.claim
    <3>1. PutClaim(c, v)
      BY <2>2, <2>3 DEF PutStatus
    <3>2. CASE claim[c].pod = None
      <4>1. claim[c].phase # "Released"
        BY <1>0, <3>2 DEF ShapeOf
      <4> QED
        BY <1>0, <2>1, <2>2, <3>1, <3>2, <4>1, ClaimRefines
    <3>3. CASE claim[c].pod # None
      <4>1. ~CalmInv
        BY <1>6, <2>3, <3>3 DEF BindClaim, CalmInv
      <4>2. Keeps
        <5>1. claim[c].phase = "Released"
          BY <1>0, <1>6, <2>3, <3>3 DEF BindClaim, UseInv, RunFits, CopyCurrent, ShapeOf
        <5> QED
          BY <1>0, <2>1, <2>2, <3>1, <5>1, KeepRefines
      <4> QED
        BY <4>1, <4>2
    <3> QED
      BY <3>2, <3>3
  <2>4. CASE ~fresh.claim
    BY <2>2, <2>4, StillRefines DEF PutStatus
  <2> QED
    BY <2>3, <2>4
<1>7. CASE ReleasePod
  BY <1>0, <1>7, PodRefines, CoreValues DEF ReleasePod
<1>8. CASE LabelPod
  <2>1. cr.pod \in WarmIn(pod) /\ cr.pod \in Pods /\ pod[cr.pod] \in PodVal
    BY <1>0, <1>8 DEF LabelPod, UseInv, RunFits, PodChosen, TypeOK, ServerOK
  <2>2. [pod[cr.pod] EXCEPT !.claim = c] \in PodVal
    BY <1>0, <2>1 DEF PodVal
  <2> QED
    BY <1>0, <1>8, <2>1, <2>2, PodRefines DEF LabelPod
<1>9. CASE ClaimCallRefused \/ ClaimCallFails
  BY <1>9, StillRefines DEF ClaimCallRefused, ClaimCallFails, ClaimFails
<1> QED
  BY <1>2, <1>3, <1>4, <1>5, <1>6, <1>7, <1>8, <1>9, <1>10, <1>11 DEF ClaimStep

LEMMA RefinesNext ==
  TypeOK /\ UseInv /\ [Next]_vars => [Use!Next]_<<uses, holds, lapsed>> \/ (~CalmInv /\ Keeps)
<1> SUFFICES ASSUME TypeOK, UseInv, [Next]_vars
             PROVE  [Use!Next]_<<uses, holds, lapsed>> \/ (~CalmInv /\ Keeps)
  OBVIOUS
<1>1. ASSUME Deliver \/ Crash \/ UNCHANGED vars \/ \E c \in Claims : ClaimReconcile(c)
      PROVE  [Use!Next]_<<uses, holds, lapsed>>
  <2>1. UNCHANGED <<claim, pod>>
    BY <1>1 DEF Deliver, DeliverPool, DeliverTemplate, DeliverPolicy, DeliverPod, DeliverClaim, Take,
       Crash, ClaimReconcile, ReconcileGone, ReconcileDeleted, ReconcileNoFinalizer, ReconcileFailed,
       ReconcileBound, ReconcileNew, ReconcilePending, Begin
  <2> QED
    BY <2>1, StillRefines
<1> QED
  BY <1>1, RefinesOutside, RefinesPool, RefinesClaimStep DEF Next, Operator

-----------------------------------------------------------------------------
(* Theorems *)

IInv == TypeOK /\ PolicyInv /\ UseInv

LEMMA UseInits == Init => Use!Init
BY PodUses, ValueTypes DEF Init, ClusterInit, Use!Init

\* The inductive invariant: the types, the history of the template and the policy, and
\* what the two reconcilers may rely on while their caches lag.
THEOREM Inductive == Spec => []IInv
<1>1. Init => IInv
  BY TypeInit, PolicyInit, UseInit DEF IInv
<1>2. IInv /\ [Next]_vars => IInv'
  BY TypeNext, PolicyNext, UseNext DEF IInv
<1> QED
  BY <1>1, <1>2, PTL DEF Spec

\* Every reachable state is well formed (TypeOK), for any pods, claims, Env and bounds.
THEOREM TypeCorrect == Spec => []TypeOK
<1>1. IInv => TypeOK
  BY DEF IInv
<1> QED
  BY <1>1, Inductive, PTL

\* The sandboxes of a managed pool run behind the NetworkPolicy (PodsBehindPolicy):
\* reconcileNetworkPolicy precedes the first pod, and no change of the policy goes
\* unnoticed.
THEOREM PolicyPrecedesPods == Spec => []PodsBehindPolicy
<1>1. IInv => PodsBehindPolicy
  BY DEF IInv, PolicyInv, PolicyFirst, Populated, PodsBehindPolicy, Attended
<1> QED
  BY <1>1, Inductive, PTL

\* No two claims are ever told of the same sandbox, whatever fails and whichever claim
\* outlives its TTL: findWarmPod may offer the same pod twice, but the update of its
\* labels is refused to all but one.
THEOREM SandboxesAreNotShared == Spec => []NeverShared
<1>1. IInv => NeverShared
  BY DEF IInv, UseInv, ClaimsFit
<1> QED
  BY <1>1, Inductive, PTL

\* The detailed system implements single use (ImplementsUse), whatever else fails and
\* whenever the operator is restarted, if the one call that deletes an expired claim
\* (SandboxClaimReconciler.Reconcile, after it has marked the claim Released) does not
\* fail and the operator does not crash just before it.
THEOREM RefinesUse == CalmSpec => ImplementsUse
<1>1. Init => Use!Init
  BY UseInits
<1>2. Init => IInv /\ CalmInv
  BY TypeInit, PolicyInit, UseInit, CalmInit DEF IInv
<1>3. IInv /\ CalmInv /\ [Next /\ Calm]_vars => IInv' /\ CalmInv'
  BY TypeNext, PolicyNext, UseNext, CalmNext DEF IInv
<1>4. IInv /\ CalmInv /\ [Next /\ Calm]_vars => [Use!Next]_<<uses, holds, lapsed>>
  BY RefinesNext DEF IInv
<1> QED
  BY <1>1, <1>2, <1>3, <1>4, PTL DEF CalmSpec, ImplementsUse, Use!Spec, uses, holds, lapsed

\* Whatever fails, the detailed system implements the loose promise (ImplementsLooseUse):
\* no sandbox is offered twice or announced to a second claim, only a claim marked
\* Released can be told of another sandbox, once for every time it is marked, and a
\* claim that goes leaves behind none but those it was told of before, or never
\* (SandboxClaimReconciler.Reconcile).
THEOREM RefinesLooseUse == Spec => ImplementsLooseUse
<1>1. Init => Use!Init
  BY UseInits
<1>2. IInv /\ [Next]_vars => [Use!LooseNext]_<<uses, holds, lapsed>>
  BY RefinesNext DEF IInv, Use!LooseNext, Keeps
<1> QED
  BY <1>1, <1>2, Inductive, PTL DEF Spec, ImplementsLooseUse, Use!LooseSpec, uses, holds, lapsed

=============================================================================

-------------------------- MODULE AgentPoolProofs --------------------------
(***************************************************************************)
(* The pool settles as ordered: a pool that is not has an event under way, *)
(* is queued, or is being reconciled on copies that are current.           *)
(***************************************************************************)
EXTENDS AgentSystemProofs

USE DEF vars, server, caches, watches, queues, outside

-----------------------------------------------------------------------------
(* The pool as the operator sees it *)

\* The last event under way, or else the cache, shows the stored pool.
PoolInStep == Shows(poolCache, poolWatch, PoolSpec(pool))

\* Every step leaves the pool alone, delivers, restarts or writes it.
LEMMA PoolMoves ==
  ASSUME TypeOK, [Next]_vars
  PROVE  \/ UNCHANGED <<pool, poolWatch, poolCache>>
         \/ DeliverPool
         \/ Crash
         \/ \E v \in PoolVal : PutPool(v) /\ poolCache' = poolCache
<1> USE DEF TypeOK, ServerOK, ControllersOK
<1>1. CASE Rescale
  <2> PICK n \in 0..MaxReplicas : PutPool([pool EXCEPT !.replicas = n])
    BY <1>1 DEF Rescale
  <2>1. [pool EXCEPT !.replicas = n] \in PoolVal
    BY DEF PoolVal
  <2> QED
    BY <1>1, <2>1 DEF Rescale
<1>2. CASE DeletePool
  <2>1. [pool EXCEPT !.exists = FALSE] \in PoolVal
    BY DEF PoolVal
  <2> QED
    BY <1>2, <2>1 DEF DeletePool
<1>3. CASE UpdatePoolStatus
  <2>1. [pool EXCEPT !.ready = pr.ready, !.active = pr.active, !.available = TRUE] \in PoolVal
    BY DEF PoolVal, PoolRun
  <2> QED
    BY <1>3, <2>1 DEF UpdatePoolStatus
<1>4. CASE Outside /\ ~Rescale /\ ~DeletePool
  BY <1>4 DEF Outside, ClaimInstance, ReleaseInstance, GatewayWrites,
              CollectInstance, PodRuns, PodEnds, EvictPod, RemovePod, CollectPod, PodWrites
<1>5. CASE DeliverInstance \/ DeliverPod \/ UNCHANGED vars
  BY <1>5 DEF DeliverInstance, DeliverPod
<1>6. CASE (\E j \in Instances : InstReconcile(j)) \/ InstStep
  BY <1>6 DEF InstReconcile, ReconcileGone, ReconcilePending, ReconcileRunning,
              ReconcileTerminating, Dequeue, InstStep, CreatePod, CreatePodFails,
              UpdateInstanceStatus, DeletePod, DeleteInstance, InstanceCallFails
<1>7. CASE PoolReconcile \/ (PoolStep /\ ~UpdatePoolStatus)
  BY <1>7 DEF PoolReconcile, PoolStep, CreateInstance, CreateInstanceFails, MarkTerminating,
              MarkTerminatingFails, UpdatePoolStatusFails
<1> QED
  BY <1>1, <1>2, <1>3, <1>4, <1>5, <1>6, <1>7 DEF Next, Operator, Deliver

LEMMA PoolInStepNext ==
  ASSUME TypeOK, PoolInStep, [Next]_vars
  PROVE  PoolInStep'
<1>0. poolWatch \in Seq(PoolCopy) /\ pool \in PoolVal
  BY DEF TypeOK, ServerOK, WatchesOK
<1>1. CASE UNCHANGED <<pool, poolWatch, poolCache>>
  BY <1>1 DEF PoolInStep, PoolSpec
<1>2. CASE DeliverPool
  BY <1>0, <1>2, DeliveryShows DEF DeliverPool, PoolInStep
<1>3. CASE Crash
  BY <1>3 DEF Crash, PoolInStep, Shows
<1>4. ASSUME NEW v \in PoolVal, PutPool(v), poolCache' = poolCache PROVE PoolInStep'
  <2>1. CASE v = pool
    BY <1>4, <2>1 DEF PutPool, PoolInStep, PoolSpec
  <2>2. CASE v # pool
    <3>1. pool' = v /\ poolWatch' = Append(poolWatch, PoolSpec(v))
      BY <1>4, <2>2 DEF PutPool
    <3>2. PoolSpec(v) \in PoolCopy
      BY DEF PoolVal, PoolSpec, PoolCopy
    <3> QED
      BY <1>0, <3>1, <3>2, WriteShows DEF PoolInStep
  <2> QED
    BY <2>1, <2>2
<1> QED
  BY <1>1, <1>2, <1>3, <1>4, PoolMoves

-----------------------------------------------------------------------------
(* The pool is not forgotten *)

\* The controller is going to look at the pool.
PoolTold == poolQueue \/ poolWatch # <<>> \/ instWatch # <<>>

Supplied == Cardinality({i \in Instances : inst[i].state \in {"new", "pending", "warm"}})

\* The reconciliation under way knows the pool and its instances as they are.
Sure ==
  /\ fresh.pool /\ pr.victims \subseteq fresh.list
  /\ pr.ready = Cardinality(InState("warm")) /\ pr.active = Cardinality(InState("active"))
  /\ ~pr.pending => \A i \in Instances : inst[i].state \notin {"new", "pending"}
  /\ pr.step \in {"mark", "status"} => Supplied >= pool.replicas
  /\ pr.step = "status" /\ faults = 0 => Cardinality(InState("warm")) <= pool.replicas

AsOrdered ==
  pool.exists =>
    /\ pool.available
    /\ \A i \in Instances : inst[i].state \notin {"new", "pending"}
    /\ Cardinality(InState("warm")) >= pool.replicas
    /\ faults = 0 => Cardinality(InState("warm")) <= pool.replicas
    /\ pool.ready = Cardinality(InState("warm"))
    /\ pool.active = Cardinality(InState("active"))

PoolRemembered ==
  \/ PoolTold
  \/ pr.step # "idle" /\ Sure
  \/ pr.step = "idle" /\ AsOrdered

\* Only its reconciliation takes the pool off the queue, and news reaches the queue.
LEMMA PoolToldKept ==
  ASSUME IInv, [Next]_vars, ~PoolReconcile, PoolTold
  PROVE  PoolTold'
<1> USE DEF IInv
<1>1. poolQueue => poolQueue'
  <2>1. CASE Outside \/ Deliver \/ Crash \/ UNCHANGED vars
    BY <2>1 DEF Outside, Rescale, DeletePool, ClaimInstance, ReleaseInstance, GatewayWrites,
                CollectInstance, PodRuns, PodEnds, EvictPod, RemovePod, CollectPod, PodWrites,
                Deliver, DeliverPool, DeliverInstance, DeliverPod, Crash
  <2>2. CASE PoolStep
    BY <2>2 DEF PoolStep, CreateInstance, CreateInstanceFails, MarkTerminating,
                MarkTerminatingFails, UpdatePoolStatus, UpdatePoolStatusFails, PoolDone
  <2>3. CASE (\E j \in Instances : InstReconcile(j)) \/ InstStep
    BY <2>3 DEF InstReconcile, ReconcileGone, ReconcilePending, ReconcileRunning,
                ReconcileTerminating, Dequeue, InstStep, CreatePod, CreatePodFails,
                UpdateInstanceStatus, DeletePod, DeleteInstance, InstanceCallFails, InstDone
  <2> QED
    BY <2>1, <2>2, <2>3 DEF Next, Operator
<1>2. poolWatch # <<>> => PoolTold'
  <2>1. ASSUME NEW v \in PoolVal, PutPool(v), poolWatch # <<>> PROVE poolWatch' # <<>>
    <3>1. PoolSpec(v) \in PoolCopy /\ poolWatch \in Seq(PoolCopy)
      BY DEF PoolVal, PoolSpec, PoolCopy, TypeOK, WatchesOK
    <3>2. Append(poolWatch, PoolSpec(v)) # <<>>
      BY <3>1, AppendProperties
    <3> QED
      BY <2>1, <3>2 DEF PutPool
  <2> QED
    BY <2>1, PoolMoves DEF PoolTold, DeliverPool, Crash
<1>3. instWatch # <<>> => PoolTold'
  <2>1. ASSUME NEW i \in Instances, NEW v \in InstVal, InstWrite(i, v), instWatch # <<>>
        PROVE  instWatch' # <<>>
    <3>1. Append(instWatch, Event(i, v)) # <<>>
      BY AppendProperties DEF Event, TypeOK, WatchesOK
    <3> QED
      BY <2>1, <3>1 DEF InstWrite, PutInst
  <2> QED
    BY <2>1, InstWrites DEF PoolTold, DeliverInstance, Crash
<1> QED
  BY <1>1, <1>2, <1>3 DEF PoolTold

\* A change of the pool or of an instance is announced.
LEMMA ChangeAnnounced ==
  ASSUME IInv, [Next]_vars, pool' # pool \/ inst' # inst
  PROVE  PoolTold'
<1> USE DEF IInv
<1>1. CASE pool' # pool
  <2> PICK v \in PoolVal : PutPool(v)
    BY <1>1, PoolMoves DEF DeliverPool, Crash
  <2>1. PoolSpec(v) \in PoolCopy /\ poolWatch \in Seq(PoolCopy)
    BY DEF PoolVal, PoolSpec, PoolCopy, TypeOK, WatchesOK
  <2>2. Append(poolWatch, PoolSpec(v)) # <<>>
    BY <2>1, AppendProperties
  <2> QED
    BY <1>1, <2>2 DEF PoolTold, PutPool
<1>2. CASE inst' # inst
  <2> PICK i \in Instances, v \in InstVal : InstWrite(i, v)
    BY <1>2, InstWrites DEF DeliverInstance, Crash
  <2>1. v # inst[i]
    BY <1>2 DEF InstWrite, PutInst, TypeOK, ServerOK
  <2>2. Event(i, v) \in [key : Instances, val : InstVal]
    BY DEF Event
  <2>3. Append(instWatch, Event(i, v)) # <<>>
    BY <2>2, AppendProperties DEF TypeOK, WatchesOK
  <2> QED
    BY <2>1, <2>3 DEF PoolTold, InstWrite, PutInst
<1> QED
  BY <1>1, <1>2

\* Failures are counted.
LEMMA FaultsCounted ==
  ASSUME TypeOK, [Next]_vars, faults' = 0
  PROVE  faults = 0
<1>0. faults \in Nat
  BY ConstantsAssumption DEF TypeOK
<1>1. faults' = faults \/ faults' = faults + 1
  <2>1. CASE Outside \/ Deliver \/ Crash \/ UNCHANGED vars
    BY <2>1 DEF Outside, Rescale, DeletePool, ClaimInstance, ReleaseInstance, GatewayWrites,
                CollectInstance, PodRuns, PodEnds, EvictPod, RemovePod, CollectPod, PodWrites,
                Deliver, DeliverPool, DeliverInstance, DeliverPod, Crash
  <2>2. CASE PoolReconcile \/ PoolStep
    BY <2>2 DEF PoolReconcile, PoolStep, CreateInstance, CreateInstanceFails, MarkTerminating,
                MarkTerminatingFails, UpdatePoolStatus, UpdatePoolStatusFails, Refused
  <2>3. CASE (\E j \in Instances : InstReconcile(j)) \/ InstStep
    BY <2>3 DEF InstReconcile, ReconcileGone, ReconcilePending, ReconcileRunning,
                ReconcileTerminating, Dequeue, InstStep, CreatePod, CreatePodFails,
                UpdateInstanceStatus, DeletePod, DeleteInstance, InstanceCallFails, Refused
  <2> QED
    BY <2>1, <2>2, <2>3 DEF Next, Operator
<1> QED
  BY <1>0, <1>1

\* Everybody but the pool controller leaves its reconciliation alone, and the copies it
\* still needs current unless something changes.
LEMMA CopiesSpared ==
  ASSUME IInv, Outside \/ Deliver \/ (\E i \in Instances : InstReconcile(i)) \/ InstStep
                 \/ UNCHANGED vars,
         pool' = pool, inst' = inst
  PROVE  /\ pr' = pr
         /\ fresh'.pool = fresh.pool
         /\ pr.victims \subseteq fresh.list => pr.victims \subseteq fresh'.list
<1> USE DEF IInv, TypeOK, ServerOK, ControllersOK, Fresh
<1>1. ASSUME NEW i \in Instances, i \notin pr.victims \cap fresh.list, fresh' = Outdated(i)
      PROVE  /\ fresh'.pool = fresh.pool
             /\ pr.victims \subseteq fresh.list => pr.victims \subseteq fresh'.list
  BY <1>1 DEF Outdated
<1>2. CASE Outside
  <2>1. pr' = pr
    BY <1>2 DEF Outside, Rescale, DeletePool, ClaimInstance, ReleaseInstance, GatewayWrites,
                CollectInstance, PodRuns, PodEnds, EvictPod, RemovePod, CollectPod, PodWrites
  <2>2. ~Rescale /\ ~DeletePool
    <3>1. ASSUME NEW n \in 0..MaxReplicas \ {pool.replicas}, PutPool([pool EXCEPT !.replicas = n])
          PROVE  FALSE
      BY <3>1 DEF PutPool, PoolVal
    <3>2. ASSUME pool.exists, PutPool([pool EXCEPT !.exists = FALSE]) PROVE FALSE
      BY <3>2 DEF PutPool, PoolVal
    <3> QED
      BY <3>1, <3>2 DEF Rescale, DeletePool
  <2>3. ASSUME NEW i \in Instances, ClaimInstance(i) \/ ReleaseInstance(i) \/ CollectInstance(i)
        PROVE  FALSE
    <3>1. ASSUME NEW from, NEW to, from # to, GatewayWrites(i, from, to) PROVE FALSE
      BY <3>1 DEF GatewayWrites, PutInst, InstVal
    <3>2. ~CollectInstance(i)
      BY DEF CollectInstance, PutInst, NoInst
    <3> QED
      BY <2>3, <3>1, <3>2 DEF ClaimInstance, ReleaseInstance
  <2>4. ASSUME NEW p \in Pods,
               PodRuns(p) \/ PodEnds(p) \/ EvictPod(p) \/ RemovePod(p) \/ CollectPod(p)
        PROVE  fresh' = fresh
    BY <2>4 DEF PodRuns, PodEnds, EvictPod, RemovePod, CollectPod, PodWrites
  <2> QED
    BY <1>2, <2>1, <2>2, <2>3, <2>4 DEF Outside
<1>3. CASE Deliver \/ UNCHANGED vars
  BY <1>3 DEF Deliver, DeliverPool, DeliverInstance, DeliverPod
<1>4. ASSUME NEW i \in Instances, InstReconcile(i)
      PROVE  pr' = pr /\ fresh'.pool = fresh.pool /\ fresh'.list = fresh.list
  BY <1>4 DEF InstReconcile, ReconcileGone, ReconcilePending, ReconcileRunning,
              ReconcileTerminating, Dequeue, InstStart
<1>5. CASE InstStep
  <2>1. pr' = pr
    BY <1>5 DEF InstStep, CreatePod, CreatePodFails, UpdateInstanceStatus, DeletePod, DeleteInstance,
                InstanceCallFails
  <2>2. CASE CreatePod \/ CreatePodFails \/ InstanceCallFails \/ \E p \in Pods : DeletePod(p)
    BY <2>1, <2>2 DEF CreatePod, CreatePodFails, InstanceCallFails, DeletePod
  <2>3. CASE UpdateInstanceStatus
    <3>1. CASE fresh.inst
      <4>1. inst'[ir.key] = ir.want
        BY <2>3, <3>1 DEF UpdateInstanceStatus, PutInst
      <4>2. fresh' = [fresh EXCEPT !.inst = FALSE]
        BY <2>3, <3>1, <4>1 DEF UpdateInstanceStatus
      <4> QED
        BY <2>1, <4>2
    <3>2. CASE ~fresh.inst
      BY <2>1, <2>3, <3>2 DEF UpdateInstanceStatus
    <3> QED
      BY <3>1, <3>2
  <2>4. CASE DeleteInstance
    <3>1. ir.key \in Instances /\ inst[ir.key] = NoInst /\ fresh' = Outdated(ir.key)
      BY <2>4 DEF DeleteInstance, PutInst
    <3>2. ir.key \notin pr.victims \cap fresh.list
      BY <3>1 DEF VictimsIdle, NoInst
    <3> QED
      BY <1>1, <2>1, <3>1, <3>2
  <2> QED
    BY <1>5, <2>1, <2>2, <2>3, <2>4 DEF InstStep
<1> QED
  BY <1>2, <1>3, <1>4, <1>5

-----------------------------------------------------------------------------
(* The steps *)

\* Nothing changed: what was sure stays sure, what was as ordered stays so.
LEMMA PoolRememberedKept ==
  ASSUME IInv, PoolRemembered, ~PoolTold, [Next]_vars, pool' = pool, inst' = inst, pr' = pr,
         fresh'.pool = fresh.pool,
         pr.victims \subseteq fresh.list => pr.victims \subseteq fresh'.list
  PROVE  PoolRemembered'
<1>1. faults' = 0 => faults = 0
  BY FaultsCounted DEF IInv
<1>2. Supplied' = Supplied /\ \A s : InState(s)' = InState(s)
  BY DEF Supplied, InState
<1>3. pr.step # "idle" /\ Sure => Sure'
  BY <1>1, <1>2 DEF Sure
<1>4. AsOrdered => AsOrdered'
  BY <1>1, <1>2 DEF AsOrdered
<1> QED
  BY <1>3, <1>4 DEF PoolRemembered

\* A reconciliation that nothing will follow was begun on the stored objects.
LEMMA PlanIsSure ==
  ASSUME IInv, PoolInStep, PoolReconcile, ~PoolTold'
  PROVE  PoolRemembered'
<1> USE DEF IInv, TypeOK, ServerOK, CachesOK, ControllersOK, Fresh
<1>1. poolWatch = <<>> /\ instWatch = <<>> /\ UNCHANGED <<pool, inst, faults>>
  BY DEF PoolReconcile, PoolTold
<1>2. poolCache = PoolSpec(pool)
  BY <1>1 DEF PoolInStep, Shows
<1>3. \A i \in Instances : instCache[i] = inst[i] /\ Quiet(instWatch, i)
  BY <1>1 DEF InStep, Coherent, Quiet
<1>4. \A states : Listed(states) = {i \in Instances : inst[i].state \in states}
  BY <1>3 DEF Listed
<1>5. Supply = Supplied /\ \A s : Listed({s}) = InState(s)
  BY <1>4 DEF Supply, Supplied, InState
<1>6. CASE ~poolCache.exists
  BY <1>1, <1>2, <1>6 DEF PoolReconcile, PoolSpec, PoolRemembered, AsOrdered
<1>7. CASE poolCache.exists
  <2> PICK victims \in Victims : pr' = PoolPlan(victims)
    BY <1>7 DEF PoolReconcile
  <2> DEFINE missing  == IF Supply < poolCache.replicas THEN poolCache.replicas - Supply ELSE 0
             toCreate == IF missing > maxBurst THEN maxBurst ELSE missing
  <2>1. /\ pr'.step = CASE toCreate > 0 -> "create" [] victims # {} -> "mark" [] OTHER -> "status"
        /\ pr'.victims = victims
        /\ pr'.ready = Cardinality(Listed({"warm"})) /\ pr'.active = Cardinality(Listed({"active"}))
        /\ pr'.pending = (Listed({"new", "pending"}) # {})
    BY DEF PoolPlan
  <2>2. Listed({"new", "pending", "warm"}) \in SUBSET Instances /\ Listed({"warm"}) \in SUBSET Instances
    BY DEF Listed
  <2>3. Supply \in Nat /\ Cardinality(Listed({"warm"})) \in Nat /\ poolCache.replicas \in Nat
    BY <2>2, CountType, ConstantsAssumption DEF Supply, PoolCopy
  <2>4. poolCache.replicas = pool.replicas
    BY <1>2 DEF PoolSpec
  <2>5. toCreate \in Nat /\ (toCreate = 0 => Supply >= poolCache.replicas)
        /\ (toCreate > 0 => Supply < poolCache.replicas)
    BY <2>3 DEF maxBurst
  <2> HIDE DEF toCreate
  <2>6. victims \subseteq Instances
    BY DEF Victims, Listed, kSubset
  <2>7. victims = {} => Cardinality(Listed({"warm"})) <= poolCache.replicas
    <3>1. CASE Cardinality(Listed({"warm"})) > poolCache.replicas
      <4>1. Cardinality(victims) = Cardinality(Listed({"warm"})) - poolCache.replicas
        BY <3>1 DEF Victims, kSubset
      <4>2. Cardinality({}) = 0
        BY FS_EmptySet
      <4> QED
        BY <2>3, <3>1, <4>1, <4>2
    <3>2. CASE ~(Cardinality(Listed({"warm"})) > poolCache.replicas)
      BY <2>3, <3>2
    <3> QED
      BY <3>1, <3>2
  <2>8. pr'.step # "idle" /\ (pr'.step \in {"mark", "status"} => toCreate = 0)
        /\ (pr'.step = "status" => victims = {})
    <3>1. CASE toCreate > 0
      <4>1. Listed({"warm"}) \subseteq Listed({"new", "pending", "warm"})
        BY DEF Listed
      <4>2. Cardinality(Listed({"warm"})) <= Supply
        BY <2>2, <4>1, ConstantsAssumption, FS_Subset DEF Supply
      <4>3. ~(Cardinality(Listed({"warm"})) > poolCache.replicas)
        BY <2>3, <2>5, <3>1, <4>2
      <4>4. victims = {}
        BY <4>3 DEF Victims
      <4>5. pr'.step = "create"
        BY <2>1, <3>1, <4>4
      <4> QED
        BY <2>5, <3>1, <4>4, <4>5
    <3>2. CASE toCreate = 0
      <4>1. ~(toCreate > 0)
        BY <3>2
      <4>2. CASE victims = {}
        <5>1. pr'.step = "status"
          BY <2>1, <4>1, <4>2
        <5> QED
          BY <3>2, <4>2, <5>1
      <4>3. CASE victims # {}
        <5>1. pr'.step = "mark"
          BY <2>1, <4>1, <4>3
        <5> QED
          BY <3>2, <5>1
      <4> QED
        BY <4>2, <4>3
    <3> QED
      BY <2>5, <3>1, <3>2
  <2>9. fresh'.pool /\ fresh'.list = Instances
    BY <1>1, <1>3, <1>7 DEF PoolReconcile
  <2>10. Supplied' = Supplied /\ \A s : InState(s)' = InState(s)
    BY <1>1 DEF Supplied, InState
  <2>11. ~pr'.pending => \A i \in Instances : inst[i].state \notin {"new", "pending"}
    BY <1>4, <2>1
  <2>12. Sure'
    BY <1>1, <1>5, <2>1, <2>4, <2>5, <2>6, <2>7, <2>8, <2>9, <2>10, <2>11 DEF Sure
  <2> QED
    BY <2>8, <2>12 DEF PoolRemembered
<1> QED
  BY <1>6, <1>7

\* What a reconciliation that is sure does is announced, tried again, or leaves the pool
\* as ordered.
LEMMA SureStep ==
  ASSUME IInv, PoolStep, [Next]_vars, Sure, ~PoolTold', pool' = pool, inst' = inst
  PROVE  PoolRemembered'
<1> USE DEF IInv, TypeOK, ServerOK, ControllersOK, Fresh
<1>1. ~PoolDone(TRUE)
  BY DEF PoolDone, PoolTold
<1>2. ~CreateInstance
  <2> SUFFICES ASSUME NEW i \in Instances, InstNameFree(i), PutInst(i, NewInst) PROVE FALSE
    BY DEF CreateInstance
  <2> QED
    BY DEF InstNameFree, PutInst, NoInst, NewInst
<1>3. ASSUME NEW i \in Instances, MarkTerminating(i) PROVE FALSE
  <2>1. i \in pr.victims \cap fresh.list
    BY <1>3 DEF MarkTerminating, Sure
  <2>2. inst[i].state = "warm" /\ PutInst(i, [inst[i] EXCEPT !.state = "terminating"])
    BY <1>3, <2>1 DEF MarkTerminating, VictimsIdle
  <2> QED
    BY <2>2 DEF PutInst, InstVal
<1>4. ASSUME NEW i \in Instances, MarkTerminatingFails(i) PROVE PoolRemembered'
  <2>1. /\ faults \in Nat /\ faults' = faults + 1 /\ fresh' = fresh
        /\ pr' = [pr EXCEPT !.victims = @ \ {i},
                            !.step = IF pr.victims = {i} THEN "status" ELSE "mark"]
        /\ pr.step = "mark"
    BY <1>4, ConstantsAssumption DEF MarkTerminatingFails, Refused, Marked
  <2>2. /\ pr'.step \in {"mark", "status"} /\ pr'.victims \subseteq pr.victims
        /\ pr'.ready = pr.ready /\ pr'.active = pr.active /\ pr'.pending = pr.pending
    BY <2>1 DEF PoolRun
  <2>3. Supplied' = Supplied /\ \A s : InState(s)' = InState(s)
    BY DEF Supplied, InState
  <2>4. faults' # 0
    BY <2>1
  <2>5. Sure'
    BY <2>1, <2>2, <2>3, <2>4 DEF Sure
  <2> QED
    BY <2>2, <2>5 DEF PoolRemembered
<1>5. CASE UpdatePoolStatus
  <2>1. pool.exists /\ ~pr.pending /\ pr' = PoolIdle /\ pr.step = "status" /\ faults' = faults
    BY <1>5 DEF UpdatePoolStatus, PoolDone, PoolTold
  <2>2. PutPool([pool EXCEPT !.ready = pr.ready, !.active = pr.active, !.available = TRUE])
    BY <1>5, <2>1 DEF UpdatePoolStatus, Sure
  <2>3. pool.ready = pr.ready /\ pool.active = pr.active /\ pool.available
    BY <2>2 DEF PutPool, PoolVal
  <2>4. {i \in Instances : inst[i].state \in {"new", "pending", "warm"}} = InState("warm")
    BY <2>1 DEF Sure, InState
  <2>5. \A s : InState(s)' = InState(s)
    BY DEF InState
  <2>6. AsOrdered'
    BY <2>1, <2>3, <2>4, <2>5 DEF Sure, AsOrdered, Supplied
  <2> QED
    BY <2>1, <2>6 DEF PoolRemembered, PoolIdle
<1> QED
  BY <1>1, <1>2, <1>3, <1>4, <1>5 DEF PoolStep, CreateInstanceFails, UpdatePoolStatusFails

LEMMA PoolRememberedNext ==
  ASSUME IInv, PoolInStep, PoolRemembered, [Next]_vars
  PROVE  PoolRemembered'
<1> SUFFICES ASSUME ~PoolTold' PROVE PoolRemembered'
  BY DEF PoolRemembered
<1>1. pool' = pool /\ inst' = inst
  BY ChangeAnnounced
<1>2. CASE PoolReconcile
  BY <1>2, PlanIsSure
<1>3. CASE ~PoolReconcile
  <2>1. ~PoolTold
    BY <1>3, PoolToldKept
  <2>2. CASE PoolStep
    <3>1. pr.step # "idle"
      BY <2>2 DEF PoolStep, CreateInstance, CreateInstanceFails, MarkTerminating,
                  MarkTerminatingFails, UpdatePoolStatus, UpdatePoolStatusFails
    <3>2. Sure
      BY <2>1, <3>1 DEF PoolRemembered
    <3> QED
      BY <1>1, <2>2, <3>2, SureStep
  <2>3. ~Crash
    BY DEF Crash, PoolTold
  <2>4. CASE ~PoolStep
    <3>1. Outside \/ Deliver \/ (\E i \in Instances : InstReconcile(i)) \/ InstStep \/ UNCHANGED vars
      BY <1>3, <2>3, <2>4 DEF Next, Operator
    <3>2. /\ pr' = pr /\ fresh'.pool = fresh.pool
          /\ pr.victims \subseteq fresh.list => pr.victims \subseteq fresh'.list
      BY <1>1, <3>1, CopiesSpared
    <3> QED
      BY <1>1, <2>1, <3>2, PoolRememberedKept
  <2> QED
    BY <2>2, <2>4
<1> QED
  BY <1>2, <1>3

LEMMA PoolIsRemembered == Spec => [](PoolInStep /\ PoolRemembered)
<1>1. Init => PoolInStep /\ PoolRemembered
  BY DEF Init, ClusterInit, PoolInStep, Shows, PoolRemembered, PoolTold
<1>2. IInv /\ PoolInStep /\ PoolRemembered /\ [Next]_vars => PoolInStep' /\ PoolRemembered'
  BY PoolInStepNext, PoolRememberedNext DEF IInv
<1> QED
  BY <1>1, <1>2, Inductive, PTL DEF Spec

LEMMA SettledIsAsOrdered ==
  ASSUME PoolRemembered, Settled
  PROVE  AsOrdered
<1>1. ~PoolTold /\ pr.step = "idle"
  BY DEF Settled, PoolTold, PoolIdle
<1> QED
  BY <1>1 DEF PoolRemembered

\* In a settled state the pool is as ordered (SettledPoolIsAsOrdered): enough warm
\* instances, too many only if a call failed, and a status that counts them, whatever
\* was claimed, lost or decided on stale lists before.
THEOREM PoolIsAsOrdered == Spec => []SettledPoolIsAsOrdered
<1>1. PoolRemembered => SettledPoolIsAsOrdered
  BY SettledIsAsOrdered DEF SettledPoolIsAsOrdered, AsOrdered
<1> QED
  BY <1>1, PoolIsRemembered, PTL

=============================================================================

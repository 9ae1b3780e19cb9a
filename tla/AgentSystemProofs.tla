------------------------- MODULE AgentSystemProofs -------------------------
(***************************************************************************)
(* Proofs about AgentSystem, for any finite set of instance names, any set *)
(* of pod names and any bounds.                                            *)
(***************************************************************************)
EXTENDS AgentSystem, InformerProofs, FiniteSetTheorems

USE DEF vars, server, caches, watches, queues, outside

-----------------------------------------------------------------------------
(* Type correctness *)

\* What the API server stores and announces when it accepts a write.
LEMMA PutPoolType ==
  ASSUME TypeOK, NEW v \in PoolVal, PutPool(v)
  PROVE  pool' \in PoolVal /\ poolWatch' \in Seq(PoolCopy)
<1>1. PoolSpec(v) \in PoolCopy
  BY DEF PoolSpec, PoolVal, PoolCopy
<1>2. Append(poolWatch, PoolSpec(v)) \in Seq(PoolCopy)
  BY <1>1, AppendProperties DEF TypeOK, WatchesOK
<1> QED
  BY <1>2 DEF TypeOK, ServerOK, WatchesOK, PutPool

LEMMA PutInstType ==
  ASSUME TypeOK, NEW i \in Instances, NEW v \in InstVal, PutInst(i, v)
  PROVE  /\ inst' \in [Instances -> InstVal]
         /\ instWatch' \in Seq([key : Instances, val : InstVal])
<1>1. Event(i, v) \in [key : Instances, val : InstVal]
  BY DEF Event
<1>2. Append(instWatch, Event(i, v)) \in Seq([key : Instances, val : InstVal])
  BY <1>1, AppendProperties DEF TypeOK, WatchesOK
<1> QED
  BY <1>2 DEF TypeOK, ServerOK, WatchesOK, PutInst

LEMMA PutPodType ==
  ASSUME TypeOK, NEW p \in Pods, NEW v \in PodVal, PutPod(p, v)
  PROVE  /\ pod' \in [Pods -> PodVal]
         /\ podWatch' \in Seq([key : Pods, val : PodVal])
<1>1. Event(p, v) \in [key : Pods, val : PodVal]
  BY DEF Event
<1>2. Append(podWatch, Event(p, v)) \in Seq([key : Pods, val : PodVal])
  BY <1>1, AppendProperties DEF TypeOK, WatchesOK
<1> QED
  BY <1>2 DEF TypeOK, ServerOK, WatchesOK, PutPod

\* Values an action writes.
LEMMA ValueTypes ==
  /\ NoInst \in InstVal /\ NewInst \in InstVal /\ NoPod \in PodVal
  /\ \A i \in Instances : NewPod(i) \in PodVal
  /\ PoolIdle \in PoolRun /\ InstIdle \in InstRun /\ NoFresh \in Fresh
BY DEF NoInst, NewInst, NoPod, NewPod, InstVal, PodVal, LiveStates, PoolIdle,
       PoolRun, InstIdle, InstRun, NoFresh, Fresh

LEMMA OutdatedType ==
  ASSUME TypeOK, NEW i \in Instances
  PROVE  Outdated(i) \in Fresh
BY DEF TypeOK, ControllersOK, Fresh, Outdated

\* A count of instances is a number.
LEMMA CountType ==
  ASSUME NEW S \in SUBSET Instances
  PROVE  Cardinality(S) \in Nat
BY ConstantsAssumption, FS_Subset, FS_CardinalityType

\* The plan of a pool reconciliation is well formed.
LEMMA PoolPlanType ==
  ASSUME TypeOK, NEW victims \in SUBSET Instances
  PROVE  PoolPlan(victims) \in PoolRun
<1>1. Listed({"warm"}) \in SUBSET Instances /\ Listed({"active"}) \in SUBSET Instances
      /\ Listed({"new", "pending", "warm"}) \in SUBSET Instances
  BY DEF Listed
<1>2. Supply \in Nat /\ Cardinality(Listed({"warm"})) \in Nat
      /\ Cardinality(Listed({"active"})) \in Nat
  BY <1>1, CountType DEF Supply
<1>3. poolCache.replicas \in Nat
  BY ConstantsAssumption DEF TypeOK, CachesOK, PoolCopy
<1> DEFINE missing  == IF Supply < poolCache.replicas THEN poolCache.replicas - Supply ELSE 0
           toCreate == IF missing > maxBurst THEN maxBurst ELSE missing
<1>4. missing \in Nat
  BY <1>2, <1>3
<1>5. toCreate \in 0..2
  BY <1>4 DEF maxBurst
<1> HIDE DEF missing, toCreate
<1>6. (CASE toCreate > 0 -> "create" [] victims # {} -> "mark" [] OTHER -> "status")
      \in {"idle", "create", "mark", "status"}
  BY <1>5
<1>7. PoolPlan(victims) =
        [step |-> CASE toCreate > 0 -> "create" [] victims # {} -> "mark" [] OTHER -> "status",
         create |-> toCreate, early |-> toCreate < missing, victims |-> victims,
         ready |-> Cardinality(Listed({"warm"})), active |-> Cardinality(Listed({"active"})),
         pending |-> Listed({"new", "pending"}) # {}]
  BY DEF PoolPlan, missing, toCreate
<1> QED
  BY <1>2, <1>4, <1>5, <1>6, <1>7 DEF PoolRun

\* The events at the head of a watch are of its kind.
LEMMA HeadTypes ==
  ASSUME TypeOK
  PROVE  /\ poolWatch # <<>> => Head(poolWatch) \in PoolCopy /\ Tail(poolWatch) \in Seq(PoolCopy)
         /\ instWatch # <<>> => /\ Head(instWatch) \in [key : Instances, val : InstVal]
                               /\ Tail(instWatch) \in Seq([key : Instances, val : InstVal])
         /\ podWatch # <<>> => /\ Head(podWatch) \in [key : Pods, val : PodVal]
                              /\ Tail(podWatch) \in Seq([key : Pods, val : PodVal])
BY HeadTailProperties DEF TypeOK, WatchesOK

LEMMA TypeInit == Init => TypeOK
<1> SUFFICES ASSUME Init PROVE TypeOK
  OBVIOUS
<1>1. pool \in PoolVal
  <2> PICK n \in 0..MaxReplicas : pool = [exists |-> TRUE, replicas |-> n, ready |-> 0,
                                          active |-> 0, available |-> FALSE]
    BY Zenon DEF Init, ClusterInit
  <2> QED
    BY DEF PoolVal
<1>2. PoolSpec(pool) \in PoolCopy
  BY <1>1 DEF PoolSpec, PoolVal, PoolCopy
<1>3. ServerOK /\ CachesOK
  BY <1>1, <1>2, ValueTypes DEF Init, ClusterInit, ServerOK, CachesOK
<1>4. WatchesOK
  BY DEF Init, ClusterInit, WatchesOK
<1>5. ControllersOK
  BY ValueTypes DEF Init, ClusterInit, ControllersOK, InstIdle
<1>6. faults \in 0..MaxFaults
  BY ConstantsAssumption DEF Init, ClusterInit
<1> QED
  BY <1>3, <1>4, <1>5, <1>6 DEF TypeOK

\* What users, the gateway and the cluster do.
LEMMA TypeOutside == TypeOK /\ Outside => TypeOK'
<1> SUFFICES ASSUME TypeOK, Outside PROVE TypeOK'
  OBVIOUS
<1> USE DEF TypeOK, ServerOK, CachesOK, WatchesOK, ControllersOK
<1>1. ASSUME Rescale PROVE TypeOK'
  <2> PICK n \in 0..MaxReplicas \ {pool.replicas} : PutPool([pool EXCEPT !.replicas = n])
    BY <1>1 DEF Rescale
  <2>1. [pool EXCEPT !.replicas = n] \in PoolVal
    BY DEF PoolVal
  <2>2. pool' \in PoolVal /\ poolWatch' \in Seq(PoolCopy)
    BY <2>1, PutPoolType
  <2> QED
    BY <1>1, <2>2 DEF Rescale, Fresh
<1>2. ASSUME DeletePool PROVE TypeOK'
  <2>1. [pool EXCEPT !.exists = FALSE] \in PoolVal
    BY DEF PoolVal
  <2>2. pool' \in PoolVal /\ poolWatch' \in Seq(PoolCopy)
    BY <1>2, <2>1, PutPoolType DEF DeletePool
  <2> QED
    BY <1>2, <2>2 DEF DeletePool, Fresh
<1>3. ASSUME NEW i \in Instances, ClaimInstance(i) \/ ReleaseInstance(i) PROVE TypeOK'
  <2> PICK from \in {"warm", "active"}, to \in {"warm", "active"} : GatewayWrites(i, from, to)
    BY <1>3 DEF ClaimInstance, ReleaseInstance
  <2>1. [inst[i] EXCEPT !.state = to] \in InstVal
    BY DEF InstVal, LiveStates
  <2>2. /\ inst' \in [Instances -> InstVal]
        /\ instWatch' \in Seq([key : Instances, val : InstVal])
    BY <2>1, PutInstType DEF GatewayWrites
  <2> QED
    BY <2>2, OutdatedType DEF GatewayWrites
<1>4. ASSUME NEW i \in Instances, CollectInstance(i) PROVE TypeOK'
  <2>1. /\ inst' \in [Instances -> InstVal]
        /\ instWatch' \in Seq([key : Instances, val : InstVal])
    BY <1>4, ValueTypes, PutInstType DEF CollectInstance
  <2> QED
    BY <1>4, <2>1, OutdatedType DEF CollectInstance
<1>5. ASSUME NEW p \in Pods,
             PodRuns(p) \/ PodEnds(p) \/ EvictPod(p) \/ RemovePod(p) \/ CollectPod(p)
      PROVE  TypeOK'
  <2> PICK v \in {[pod[p] EXCEPT !.phase = "Running"], [pod[p] EXCEPT !.phase = "Ended"],
                  [pod[p] EXCEPT !.del = TRUE], NoPod} : PodWrites(p, v)
    BY <1>5 DEF PodRuns, PodEnds, EvictPod, RemovePod, CollectPod
  <2>1. v \in PodVal
    BY ValueTypes DEF PodVal
  <2>2. pod' \in [Pods -> PodVal] /\ podWatch' \in Seq([key : Pods, val : PodVal])
    BY <2>1, PutPodType DEF PodWrites
  <2> QED
    BY <2>2 DEF PodWrites
<1> QED
  BY <1>1, <1>2, <1>3, <1>4, <1>5 DEF Outside

\* Deliveries and restarts.
LEMMA TypeDeliver == TypeOK /\ (Deliver \/ Crash) => TypeOK'
<1> SUFFICES ASSUME TypeOK, Deliver \/ Crash PROVE TypeOK'
  OBVIOUS
<1> USE DEF TypeOK, ServerOK, CachesOK, WatchesOK, ControllersOK
<1>1. ASSUME DeliverPool PROVE TypeOK'
  BY <1>1, HeadTypes DEF DeliverPool
<1>2. ASSUME DeliverInstance PROVE TypeOK'
  <2>1. instCache' \in [Instances -> InstVal]
    BY <1>2, HeadTypes DEF DeliverInstance, Apply
  <2> QED
    BY <1>2, <2>1, HeadTypes DEF DeliverInstance
<1>3. ASSUME DeliverPod PROVE TypeOK'
  <2> DEFINE e == Head(podWatch)
             owner == IF e.val = NoPod THEN podCache[e.key].inst ELSE e.val.inst
  <2>1. e \in [key : Pods, val : PodVal]
    BY <1>3, HeadTypes DEF DeliverPod
  <2>2. owner \in Instances \cup {None}
    BY <2>1 DEF PodVal
  <2>3. podCache' = Apply(podCache, e) /\ instQueue' = instQueue \cup ({owner} \ {None})
    BY <1>3 DEF DeliverPod
  <2>4. podCache' \in [Pods -> PodVal]
    BY <2>1, <2>3 DEF Apply
  <2>5. instQueue' \in SUBSET Instances
    BY <2>2, <2>3
  <2> QED
    BY <1>3, <2>4, <2>5, HeadTypes DEF DeliverPod
<1>4. ASSUME Crash PROVE TypeOK'
  <2>1. \A p \in Pods : pod[p].inst \in Instances \cup {None}
    BY DEF PodVal
  <2>2. instQueue' \in SUBSET Instances
    BY <1>4, <2>1 DEF Crash
  <2> QED
    BY <1>4, <2>2, ValueTypes, ConstantsAssumption DEF Crash, InstIdle, PoolSpec, PoolVal, PoolCopy
<1> QED
  BY <1>1, <1>2, <1>3, <1>4 DEF Deliver

\* A refused call costs at most one of the MaxFaults failures.
LEMMA RefusedType ==
  ASSUME TypeOK, NEW hasName, Refused(hasName)
  PROVE  faults' \in 0..MaxFaults
BY ConstantsAssumption DEF TypeOK, Refused

\* The pool controller.
LEMMA TypePool == TypeOK /\ (PoolReconcile \/ PoolStep) => TypeOK'
<1> SUFFICES ASSUME TypeOK, PoolReconcile \/ PoolStep PROVE TypeOK'
  OBVIOUS
<1> USE DEF TypeOK, ServerOK, CachesOK, WatchesOK, ControllersOK
<1>1. ASSUME PoolReconcile PROVE TypeOK'
  <2>1. \A victims \in Victims : victims \in SUBSET Instances
    BY DEF Victims, Listed, kSubset
  <2>2. pr' \in PoolRun
    BY <1>1, <2>1, PoolPlanType DEF PoolReconcile
  <2>3. fresh' \in Fresh
    BY <1>1 DEF PoolReconcile, Fresh
  <2> QED
    BY <1>1, <2>2, <2>3 DEF PoolReconcile
<1>2. ASSUME NEW requeue \in BOOLEAN, PoolDone(requeue)
      PROVE  pr' \in PoolRun /\ poolQueue' \in BOOLEAN
  BY <1>2, ValueTypes DEF PoolDone
<1>3. ASSUME CreateInstance PROVE TypeOK'
  <2>1. /\ inst' \in [Instances -> InstVal]
        /\ instWatch' \in Seq([key : Instances, val : InstVal])
    BY <1>3, ValueTypes, PutInstType DEF CreateInstance
  <2>2. pr' \in PoolRun /\ poolQueue' \in BOOLEAN /\ fresh' \in Fresh
    <3>1. CASE pr.create > 1 /\ pr' = [pr EXCEPT !.create = @ - 1] /\ UNCHANGED <<poolQueue, fresh>>
      <4>1. pr.create - 1 \in 0..2
        BY <3>1 DEF PoolRun
      <4>2. pr' \in PoolRun
        BY <3>1, <4>1 DEF PoolRun
      <4> QED
        BY <3>1, <4>2
    <3>2. CASE PoolDone(TRUE) /\ fresh' = [fresh EXCEPT !.pool = FALSE, !.list = {}]
      BY <3>2, <1>2 DEF Fresh
    <3>3. CASE pr' = [pr EXCEPT !.create = 0, !.step = "status"] /\ UNCHANGED <<poolQueue, fresh>>
      <4>1. /\ 0 \in 0..2 /\ pr.early \in BOOLEAN /\ pr.victims \in SUBSET Instances
            /\ pr.ready \in Nat /\ pr.active \in Nat /\ pr.pending \in BOOLEAN
        BY DEF PoolRun
      <4>2. pr' = [step |-> "status", create |-> 0, early |-> pr.early, victims |-> pr.victims,
                   ready |-> pr.ready, active |-> pr.active, pending |-> pr.pending]
        BY <3>3 DEF PoolRun
      <4>3. pr' \in PoolRun
        BY <4>1, <4>2 DEF PoolRun
      <4> QED
        BY <3>3, <4>3
    <3> QED
      BY <1>3, <3>1, <3>2, <3>3 DEF CreateInstance
  <2> QED
    BY <1>3, <2>1, <2>2 DEF CreateInstance
<1>4. ASSUME CreateInstanceFails \/ UpdatePoolStatusFails PROVE TypeOK'
  <2>1. PoolDone(TRUE) /\ fresh' = [fresh EXCEPT !.pool = FALSE, !.list = {}]
    BY <1>4 DEF CreateInstanceFails, UpdatePoolStatusFails
  <2>2. faults' \in 0..MaxFaults
    BY <1>4, RefusedType DEF CreateInstanceFails, UpdatePoolStatusFails
  <2> QED
    BY <1>2, <1>4, <2>1, <2>2 DEF CreateInstanceFails, UpdatePoolStatusFails, Fresh
<1>5. ASSUME NEW i \in Instances, Marked(i) PROVE pr' \in PoolRun
  BY <1>5 DEF Marked, PoolRun
<1>6. ASSUME NEW i \in Instances, MarkTerminating(i) PROVE TypeOK'
  <2>1. CASE i \in fresh.list /\ PutInst(i, [inst[i] EXCEPT !.state = "terminating"])
             /\ fresh' = Outdated(i)
    <3>1. [inst[i] EXCEPT !.state = "terminating"] \in InstVal
      BY DEF InstVal, LiveStates
    <3>2. /\ inst' \in [Instances -> InstVal]
          /\ instWatch' \in Seq([key : Instances, val : InstVal])
      BY <2>1, <3>1, PutInstType
    <3> QED
      BY <1>5, <1>6, <2>1, <3>2, OutdatedType DEF MarkTerminating
  <2>2. CASE UNCHANGED <<inst, instWatch, fresh>>
    BY <1>5, <1>6, <2>2 DEF MarkTerminating
  <2> QED
    BY <1>6, <2>1, <2>2 DEF MarkTerminating
<1>7. ASSUME NEW i \in Instances, MarkTerminatingFails(i) PROVE TypeOK'
  <2>1. faults' \in 0..MaxFaults
    BY <1>7, RefusedType DEF MarkTerminatingFails
  <2> QED
    BY <1>5, <1>7, <2>1 DEF MarkTerminatingFails
<1>8. ASSUME UpdatePoolStatus PROVE TypeOK'
  <2>1. [pool EXCEPT !.ready = pr.ready, !.active = pr.active, !.available = TRUE] \in PoolVal
    BY DEF PoolVal, PoolRun
  <2>2. pool' \in PoolVal /\ poolWatch' \in Seq(PoolCopy)
    BY <1>8, <2>1, PutPoolType DEF UpdatePoolStatus
  <2>3. (pr.pending \/ ~pool.exists) \in BOOLEAN
    OBVIOUS
  <2> QED
    BY <1>2, <1>8, <2>2, <2>3 DEF UpdatePoolStatus, Fresh
<1> QED
  BY <1>1, <1>3, <1>4, <1>6, <1>7, <1>8 DEF PoolStep

\* The instance controller.
LEMMA TypeInstance ==
  TypeOK /\ ((\E i \in Instances : InstReconcile(i)) \/ InstStep) => TypeOK'
<1> SUFFICES ASSUME TypeOK, (\E i \in Instances : InstReconcile(i)) \/ InstStep PROVE TypeOK'
  OBVIOUS
<1> USE DEF TypeOK, ServerOK, CachesOK, WatchesOK, ControllersOK
<1>1. ASSUME NEW i \in Instances, InstReconcile(i) PROVE TypeOK'
  <2>1. CASE ReconcileGone(i)
    BY <2>1 DEF ReconcileGone, Dequeue
  <2>2. ASSUME NEW run \in InstRun, run.key = i, InstStart(i, run)
        PROVE  ir' \in InstRun /\ ir'.key \in Instances /\ fresh' \in Fresh
    <3>1. Quiet(instWatch, i) \in BOOLEAN
      BY DEF Quiet
    <3>2. fresh' \in Fresh
      BY <2>2, <3>1 DEF InstStart, Fresh
    <3> QED
      BY <2>2, <3>2 DEF InstStart
  <2>3. /\ Run(i, "create") \in InstRun /\ Run(i, "delete") \in InstRun
        /\ Run(i, "create").key = i /\ Run(i, "delete").key = i
    BY ValueTypes DEF Run, InstIdle, InstRun
  <2>4. ASSUME NEW v \in InstVal
        PROVE  LET run == [Run(i, "status") EXCEPT !.want = v] IN run \in InstRun /\ run.key = i
    BY ValueTypes DEF Run, InstIdle, InstRun
  <2>5. ASSUME NEW S \in SUBSET Pods
        PROVE  LET run == [Run(i, "pods") EXCEPT !.pods = S] IN run \in InstRun /\ run.key = i
    BY ValueTypes DEF Run, InstIdle, InstRun
  <2>6. CASE ReconcilePending(i)
    <3>1. CASE InstStart(i, Run(i, "create"))
      BY <2>2, <2>3, <2>6, <3>1 DEF ReconcilePending, Dequeue
    <3>2. ASSUME NEW p \in Seen(i), NEW state \in {"warm", instCache[i].state},
                 InstStart(i, [Run(i, "status") EXCEPT !.want = [state |-> state, pod |-> p]])
          PROVE  TypeOK'
      <4>1. [state |-> state, pod |-> p] \in InstVal
        BY DEF InstVal, LiveStates, Seen
      <4> QED
        BY <2>2, <2>4, <2>6, <3>2, <4>1 DEF ReconcilePending, Dequeue
    <3> QED
      BY <2>6, <3>1, <3>2 DEF ReconcilePending
  <2>7. CASE ReconcileRunning(i)
    <3>1. [instCache[i] EXCEPT !.state = "terminating"] \in InstVal
      BY DEF InstVal, LiveStates
    <3>2. CASE InstStart(i, [Run(i, "status") EXCEPT
                               !.want = [instCache[i] EXCEPT !.state = "terminating"]])
      BY <2>2, <2>4, <2>7, <3>1, <3>2 DEF ReconcileRunning, Dequeue
    <3>3. CASE UNCHANGED <<ir, fresh>>
      BY <2>7, <3>3 DEF ReconcileRunning, Dequeue
    <3> QED
      BY <2>7, <3>2, <3>3 DEF ReconcileRunning
  <2>8. CASE ReconcileTerminating(i)
    <3> DEFINE doomed == {p \in Seen(i) : ~podCache[p].del}
    <3>1. CASE InstStart(i, Run(i, "delete"))
      BY <2>2, <2>3, <2>8, <3>1 DEF ReconcileTerminating, Dequeue
    <3>2. CASE InstStart(i, [Run(i, "pods") EXCEPT !.pods = doomed])
      <4>1. doomed \in SUBSET Pods
        BY DEF Seen
      <4> QED
        BY <2>2, <2>5, <2>8, <3>2, <4>1 DEF ReconcileTerminating, Dequeue
    <3>3. CASE UNCHANGED <<ir, fresh>>
      BY <2>8, <3>3 DEF ReconcileTerminating, Dequeue
    <3> QED
      BY <2>8, <3>1, <3>2, <3>3 DEF ReconcileTerminating
  <2> QED
    BY <1>1, <2>1, <2>6, <2>7, <2>8 DEF InstReconcile
<1>2. ASSUME NEW requeue \in BOOLEAN, InstDone(requeue), ir.key \in Instances
      PROVE  /\ ir' \in InstRun /\ ir'.step = "idle"
             /\ instQueue' \in SUBSET Instances /\ poolQueue' = poolQueue
  BY <1>2, ValueTypes DEF InstDone, InstIdle
<1>3. ASSUME CreatePod PROVE TypeOK'
  <2> PICK p \in Pods :
        /\ PutPod(p, NewPod(ir.key))
        /\ ir' = [ir EXCEPT !.step = "status", !.want = [state |-> "pending", pod |-> p]]
    BY <1>3 DEF CreatePod
  <2>1. ir.key \in Instances
    BY <1>3 DEF CreatePod
  <2>2. pod' \in [Pods -> PodVal] /\ podWatch' \in Seq([key : Pods, val : PodVal])
    BY <2>1, ValueTypes, PutPodType
  <2>3. [state |-> "pending", pod |-> p] \in InstVal
    BY DEF InstVal, LiveStates
  <2>4. ir' \in InstRun /\ ir'.key = ir.key
    BY <2>3 DEF InstRun
  <2> QED
    BY <1>3, <2>1, <2>2, <2>4 DEF CreatePod
<1>4. ASSUME CreatePodFails \/ InstanceCallFails PROVE TypeOK'
  <2>1. InstDone(TRUE) /\ ir.key \in Instances /\ fresh' = [fresh EXCEPT !.inst = FALSE]
    BY <1>4 DEF CreatePodFails, InstanceCallFails
  <2>2. faults' \in 0..MaxFaults
    BY <1>4, RefusedType DEF CreatePodFails, InstanceCallFails
  <2> QED
    BY <1>2, <1>4, <2>1, <2>2 DEF CreatePodFails, InstanceCallFails, Fresh
<1>5. ASSUME UpdateInstanceStatus PROVE TypeOK'
  <2>1. ir.key \in Instances /\ ir.want \in InstVal
    BY <1>5 DEF UpdateInstanceStatus, InstRun
  <2>2. CASE /\ PutInst(ir.key, ir.want) /\ InstDone(FALSE)
             /\ fresh' = [(IF ir.want = inst[ir.key] THEN fresh ELSE Outdated(ir.key))
                             EXCEPT !.inst = FALSE]
    <3>1. /\ inst' \in [Instances -> InstVal]
          /\ instWatch' \in Seq([key : Instances, val : InstVal])
      BY <2>1, <2>2, PutInstType
    <3>2. fresh' \in Fresh
      BY <2>1, <2>2, OutdatedType DEF Fresh
    <3> QED
      BY <1>2, <1>5, <2>1, <2>2, <3>1, <3>2 DEF UpdateInstanceStatus
  <2>3. CASE InstDone(inst[ir.key].state = "absent") /\ UNCHANGED <<inst, instWatch, fresh>>
    BY <1>2, <1>5, <2>1, <2>3 DEF UpdateInstanceStatus
  <2> QED
    BY <1>5, <2>2, <2>3 DEF UpdateInstanceStatus
<1>6. ASSUME NEW p \in Pods, DeletePod(p) PROVE TypeOK'
  <2>1. pod' \in [Pods -> PodVal] /\ podWatch' \in Seq([key : Pods, val : PodVal])
    <3>1. [pod[p] EXCEPT !.del = TRUE] \in PodVal
      BY DEF PodVal
    <3> QED
      BY <1>6, <3>1, PutPodType DEF DeletePod
  <2>2. ir.key \in Instances
    BY <1>6 DEF DeletePod
  <2>3. CASE InstDone(FALSE) /\ fresh' = [fresh EXCEPT !.inst = FALSE]
    BY <1>2, <1>6, <2>1, <2>2, <2>3 DEF DeletePod, Fresh
  <2>4. CASE ir' = [ir EXCEPT !.pods = @ \ {p}] /\ UNCHANGED <<queues, fresh>>
    <3>1. ir' \in InstRun /\ ir'.key = ir.key
      BY <2>4 DEF InstRun
    <3> QED
      BY <1>6, <2>1, <2>2, <2>4, <3>1 DEF DeletePod
  <2> QED
    BY <1>6, <2>3, <2>4 DEF DeletePod
<1>7. ASSUME DeleteInstance PROVE TypeOK'
  <2>1. ir.key \in Instances
    BY <1>7 DEF DeleteInstance
  <2>2. /\ inst' \in [Instances -> InstVal]
        /\ instWatch' \in Seq([key : Instances, val : InstVal])
    BY <1>7, <2>1, ValueTypes, PutInstType DEF DeleteInstance
  <2> QED
    BY <1>2, <1>7, <2>1, <2>2, OutdatedType DEF DeleteInstance
<1> QED
  BY <1>1, <1>3, <1>4, <1>5, <1>6, <1>7 DEF InstStep

LEMMA TypeNext == TypeOK /\ [Next]_vars => TypeOK'
<1> SUFFICES ASSUME TypeOK, [Next]_vars PROVE TypeOK'
  OBVIOUS
<1>1. CASE UNCHANGED vars
  BY <1>1 DEF TypeOK, ServerOK, CachesOK, WatchesOK, ControllersOK
<1> QED
  BY <1>1, TypeOutside, TypeDeliver, TypePool, TypeInstance DEF Next, Operator

\* Every reachable state is well formed (TypeOK), for any number of instances
\* and pods, any replica bound and any length of the watches.
THEOREM TypeCorrect == Spec => []TypeOK
<1> QED
  BY TypeInit, TypeNext, PTL DEF Spec

-----------------------------------------------------------------------------
(* Stale copies.  The reconcilers decide on cached copies; what they may    *)
(* rely on is that a copy still at the stored resourceVersion is the stored *)
(* object, and that "terminating" is never left except for deletion.        *)

\* Caches and events are in line with the instances stored.
InStep == Coherent(Instances, inst, instCache, instWatch)

\* A victim whose copy is current is idle.
VictimsIdle == \A i \in pr.victims \cap fresh.list : inst[i].state = "warm"

\* Whoever was seen terminating is terminating or gone.
SeenTerminating(i) ==
  \/ instCache[i].state = "terminating"
  \/ \E n \in DOMAIN instWatch : instWatch[n].key = i /\ instWatch[n].val.state = "terminating"
  \/ ir.key = i /\ ir.step \in {"pods", "delete"}

RetiredForGood ==
  \A i \in Instances : SeenTerminating(i) => inst[i].state \in {"terminating", "absent"}

\* A status about to be accepted is a legal next state.
LegalUpdate(from, to) ==
  \/ from = "new" /\ to \in {"new", "pending", "warm"}
  \/ from = "pending" /\ to \in {"pending", "warm"}
  \/ from \in {"warm", "active"} /\ to = "terminating"

CurrentCopy ==
  fresh.inst =>
    /\ ir.step = "create" => inst[ir.key].state \in {"new", "pending"}
    /\ ir.step = "status" => LegalUpdate(inst[ir.key].state, ir.want.state)

\* A pod stays with its instance: whatever cache, event or reconciliation speaks of a
\* pod of some instance, its name is still that pod's, or free.
StillOf(v, i) == v = NoPod \/ v.inst = i

PodsKeepOwner ==
  /\ \A p \in Pods : pod[p] = NoPod \/ pod[p].inst \in Instances
  /\ \A p \in Pods : podCache[p].inst # None => StillOf(pod[p], podCache[p].inst)
  /\ \A n \in DOMAIN podWatch :
       podWatch[n].val.inst # None => StillOf(pod[podWatch[n].key], podWatch[n].val.inst)
  /\ ir.step = "pods" => \A p \in ir.pods : StillOf(pod[p], ir.key)

IInv == TypeOK /\ InStep /\ VictimsIdle /\ RetiredForGood /\ CurrentCopy /\ PodsKeepOwner

\* The writes the API server accepts on an instance, by their effect.
LegalWrite(i, v) ==
  \/ v = NewInst /\ InstNameFree(i)
  \/ LegalUpdate(inst[i].state, v.state)
  \/ inst[i].state = "warm" /\ v.state = "active"
  \/ inst[i].state = "active" /\ v.state = "warm"
  \/ v = NoInst /\ (inst[i].state \in {"terminating", "absent"} \/ ~pool.exists)

InstWrite(i, v) ==
  /\ PutInst(i, v) /\ LegalWrite(i, v)
  /\ instCache' = instCache /\ pool' = pool
  /\ i \notin fresh'.list \/ i \notin pr'.victims \/ v = inst[i]

\* Every step leaves the instances alone, delivers, restarts or is one of them.
LEMMA InstWrites ==
  ASSUME TypeOK, VictimsIdle, RetiredForGood, CurrentCopy, [Next]_vars
  PROVE  \/ UNCHANGED <<inst, instWatch, instCache>>
         \/ DeliverInstance
         \/ Crash
         \/ \E i \in Instances, v \in InstVal : InstWrite(i, v)
<1>1. CASE Outside
  <2>1. ASSUME NEW i \in Instances, ClaimInstance(i) \/ ReleaseInstance(i)
        PROVE  \E v \in InstVal : InstWrite(i, v)
    <3> PICK from, to : /\ GatewayWrites(i, from, to)
                        /\ <<from, to>> \in {<<"warm", "active">>, <<"active", "warm">>}
      BY <2>1 DEF ClaimInstance, ReleaseInstance
    <3>1. [inst[i] EXCEPT !.state = to] \in InstVal /\ [inst[i] EXCEPT !.state = to].state = to
      BY DEF TypeOK, ServerOK, InstVal, LiveStates
    <3>2. i \notin fresh'.list
      BY DEF GatewayWrites, Outdated, TypeOK, ControllersOK, Fresh
    <3> QED
      BY <3>1, <3>2 DEF GatewayWrites, InstWrite, LegalWrite
  <2>2. ASSUME NEW i \in Instances, CollectInstance(i)
        PROVE  InstWrite(i, NoInst)
    <3>1. i \notin fresh'.list
      BY <2>2 DEF CollectInstance, Outdated, TypeOK, ControllersOK, Fresh
    <3> QED
      BY <2>2, <3>1 DEF CollectInstance, InstWrite, LegalWrite
  <2>3. ASSUME NEW p \in Pods,
               PodRuns(p) \/ PodEnds(p) \/ EvictPod(p) \/ RemovePod(p) \/ CollectPod(p)
        PROVE  UNCHANGED <<inst, instWatch, instCache>>
    BY <2>3 DEF PodRuns, PodEnds, EvictPod, RemovePod, CollectPod, PodWrites
  <2>4. ASSUME Rescale \/ DeletePool PROVE UNCHANGED <<inst, instWatch, instCache>>
    BY <2>4 DEF Rescale, DeletePool
  <2> QED
    BY <1>1, <2>1, <2>2, <2>3, <2>4, ValueTypes DEF Outside
<1>2. CASE PoolReconcile \/ PoolStep
  <2>1. ASSUME CreateInstance
        PROVE  \E i \in Instances : InstWrite(i, NewInst)
    <3> PICK i \in Instances : InstNameFree(i) /\ PutInst(i, NewInst)
      BY <2>1 DEF CreateInstance
    <3>1. pr'.victims = pr.victims \/ pr'.victims = {}
      <4>1. CASE pr' = [pr EXCEPT !.create = @ - 1] \/ pr' = [pr EXCEPT !.create = 0, !.step = "status"]
        BY <4>1 DEF TypeOK, ControllersOK, PoolRun
      <4>2. CASE PoolDone(TRUE)
        BY <4>2 DEF PoolDone, PoolIdle
      <4> QED
        BY <2>1, <4>1, <4>2 DEF CreateInstance
    <3>2. i \notin pr'.victims
      BY <3>1 DEF InstNameFree
    <3> QED
      BY <2>1, <3>2 DEF CreateInstance, InstWrite, LegalWrite
  <2>2. ASSUME NEW i \in Instances, MarkTerminating(i), i \in fresh.list
        PROVE  \E v \in InstVal : InstWrite(i, v)
    <3> DEFINE v == [inst[i] EXCEPT !.state = "terminating"]
    <3>1. v \in InstVal /\ v.state = "terminating"
      BY DEF TypeOK, ServerOK, InstVal, LiveStates
    <3>2. inst[i].state = "warm"
      BY <2>2 DEF MarkTerminating, VictimsIdle
    <3>3. i \notin fresh'.list
      <4>1. fresh' = Outdated(i)
        BY <2>2 DEF MarkTerminating
      <4> QED
        BY <4>1 DEF Outdated, TypeOK, ControllersOK, Fresh
    <3>4. LegalWrite(i, v)
      BY <3>1, <3>2 DEF LegalWrite, LegalUpdate
    <3> HIDE DEF v
    <3>5. PutInst(i, v) /\ instCache' = instCache /\ pool' = pool
      BY <2>2 DEF MarkTerminating, v
    <3> QED
      BY <3>1, <3>3, <3>4, <3>5 DEF InstWrite
  <2>3. ASSUME NEW i \in Instances, MarkTerminating(i), i \notin fresh.list
        PROVE  UNCHANGED <<inst, instWatch, instCache>>
    BY <2>3 DEF MarkTerminating
  <2>4. ASSUME NEW i \in Instances, MarkTerminatingFails(i)
        PROVE  UNCHANGED <<inst, instWatch, instCache>>
    BY <2>4 DEF MarkTerminatingFails
  <2>5. ASSUME PoolReconcile \/ CreateInstanceFails \/ UpdatePoolStatus \/ UpdatePoolStatusFails
        PROVE  UNCHANGED <<inst, instWatch, instCache>>
    BY <2>5 DEF PoolReconcile, CreateInstanceFails, UpdatePoolStatus, UpdatePoolStatusFails
  <2> QED
    BY <1>2, <2>1, <2>2, <2>3, <2>4, <2>5, ValueTypes DEF PoolStep
<1>3. CASE (\E i \in Instances : InstReconcile(i)) \/ InstStep
  <2>1. ASSUME NEW i \in Instances, InstReconcile(i)
        PROVE  UNCHANGED <<inst, instWatch, instCache>>
    BY <2>1 DEF InstReconcile, ReconcileGone, ReconcilePending, ReconcileRunning,
                ReconcileTerminating, Dequeue
  <2>2. ASSUME CreatePod \/ CreatePodFails \/ InstanceCallFails \/ \E p \in Pods : DeletePod(p)
        PROVE  UNCHANGED <<inst, instWatch, instCache>>
    BY <2>2 DEF CreatePod, CreatePodFails, InstanceCallFails, DeletePod
  <2>3. ASSUME UpdateInstanceStatus, fresh.inst
        PROVE  \E i \in Instances, v \in InstVal : InstWrite(i, v)
    <3>1. ir.key \in Instances /\ ir.want \in InstVal
      BY <2>3 DEF UpdateInstanceStatus, TypeOK, ControllersOK, InstRun
    <3>2. LegalUpdate(inst[ir.key].state, ir.want.state)
      BY <2>3 DEF UpdateInstanceStatus, CurrentCopy
    <3>3. ir.want = inst[ir.key] \/ ir.key \notin fresh'.list
      BY <2>3, <3>1 DEF UpdateInstanceStatus, Outdated, TypeOK, ControllersOK, Fresh
    <3> QED
      BY <2>3, <3>1, <3>2, <3>3 DEF UpdateInstanceStatus, InstWrite, LegalWrite
  <2>4. ASSUME UpdateInstanceStatus, ~fresh.inst
        PROVE  UNCHANGED <<inst, instWatch, instCache>>
    BY <2>4 DEF UpdateInstanceStatus
  <2>5. ASSUME DeleteInstance
        PROVE  ir.key \in Instances /\ InstWrite(ir.key, NoInst)
    <3>1. ir.key \in Instances
      BY <2>5 DEF DeleteInstance, TypeOK, ControllersOK
    <3>2. inst[ir.key].state \in {"terminating", "absent"}
      BY <2>5, <3>1 DEF DeleteInstance, RetiredForGood, SeenTerminating
    <3>3. ir.key \notin fresh'.list
      BY <2>5 DEF DeleteInstance, Outdated, TypeOK, ControllersOK, Fresh
    <3> QED
      BY <2>5, <3>1, <3>2, <3>3 DEF DeleteInstance, InstWrite, LegalWrite
  <2> QED
    BY <1>3, <2>1, <2>2, <2>3, <2>4, <2>5, ValueTypes DEF InstStep
<1>4. CASE DeliverPool \/ DeliverPod \/ UNCHANGED vars
  BY <1>4 DEF DeliverPool, DeliverPod
<1> QED
  BY <1>1, <1>2, <1>3, <1>4 DEF Next, Deliver, Operator

LEMMA InStepNext ==
  ASSUME IInv, [Next]_vars
  PROVE  InStep'
<1>0. /\ instWatch \in Seq([key : Instances, val : InstVal])
      /\ DOMAIN inst = Instances /\ DOMAIN instCache = Instances
  BY DEF IInv, TypeOK, ServerOK, CachesOK, WatchesOK
<1>1. CASE UNCHANGED <<inst, instWatch, instCache>>
  BY <1>1 DEF IInv, InStep
<1>2. CASE DeliverInstance
  BY <1>0, <1>2, DeliverCoherent DEF DeliverInstance, IInv, InStep
<1>3. CASE Crash
  BY <1>3, ListCoherent DEF Crash, InStep
<1>4. ASSUME NEW i \in Instances, NEW v \in InstVal, InstWrite(i, v) PROVE InStep'
  <2>1. CASE v = inst[i]
    <3>1. inst' = inst /\ instWatch' = instWatch /\ instCache' = instCache
      BY <1>4, <2>1 DEF InstWrite, PutInst, IInv, TypeOK, ServerOK
    <3> QED
      BY <3>1 DEF IInv, InStep
  <2>2. CASE v # inst[i]
    <3>1. /\ inst' = [inst EXCEPT ![i] = v] /\ instCache' = instCache
          /\ instWatch' = Append(instWatch, Event(i, v))
      BY <1>4, <2>2 DEF InstWrite, PutInst
    <3> QED
      BY <1>0, <3>1, WriteCoherent DEF IInv, InStep
  <2> QED
    BY <2>1, <2>2
<1> QED
  BY <1>1, <1>2, <1>3, <1>4, InstWrites DEF IInv

\* Victims and current copies only get fewer while the pool is reconciled.
LEMMA VictimsShrink ==
  ASSUME TypeOK, [Next]_vars
  PROVE  \/ PoolReconcile
         \/ pr'.victims \subseteq pr.victims /\ fresh'.list \subseteq fresh.list
         \/ pr'.victims = {}
<1> USE DEF TypeOK, ControllersOK, Fresh
<1>0. \A i : Outdated(i).list \subseteq fresh.list
  BY DEF Outdated
<1>1. CASE Outside
  <2>1. pr' = pr
    BY <1>1 DEF Outside, Rescale, DeletePool, ClaimInstance, ReleaseInstance, GatewayWrites,
                CollectInstance, PodRuns, PodEnds, EvictPod, RemovePod, CollectPod, PodWrites
  <2>2. \/ fresh' = fresh \/ fresh' = [fresh EXCEPT !.pool = FALSE]
        \/ \E i \in Instances : fresh' = Outdated(i)
    BY <1>1 DEF Outside, Rescale, DeletePool, ClaimInstance, ReleaseInstance, GatewayWrites,
                CollectInstance, PodRuns, PodEnds, EvictPod, RemovePod, CollectPod, PodWrites
  <2>3. fresh'.list \subseteq fresh.list
    BY <1>0, <2>2
  <2> QED
    BY <2>1, <2>3
<1>2. CASE PoolStep
  <2>1. CASE CreateInstance
    <3>1. CASE /\ pr' = [pr EXCEPT !.create = @ - 1] \/ pr' = [pr EXCEPT !.create = 0, !.step = "status"]
               /\ UNCHANGED fresh
      BY <3>1 DEF PoolRun
    <3>2. CASE PoolDone(TRUE)
      BY <3>2 DEF PoolDone, PoolIdle
    <3> QED
      BY <2>1, <3>1, <3>2 DEF CreateInstance
  <2>2. CASE CreateInstanceFails \/ UpdatePoolStatus \/ UpdatePoolStatusFails
    <3>1. pr' = PoolIdle
      BY <2>2 DEF CreateInstanceFails, UpdatePoolStatus, UpdatePoolStatusFails, PoolDone
    <3> QED
      BY <3>1 DEF PoolIdle
  <2>3. ASSUME NEW i \in Instances, MarkTerminating(i) \/ MarkTerminatingFails(i)
        PROVE  pr'.victims \subseteq pr.victims /\ fresh'.list \subseteq fresh.list
    <3>1. pr'.victims \subseteq pr.victims
      <4>1. Marked(i)
        BY <2>3 DEF MarkTerminating, MarkTerminatingFails
      <4> QED
        BY <4>1 DEF Marked, PoolRun
    <3>2. fresh' = fresh \/ fresh' = Outdated(i)
      BY <2>3 DEF MarkTerminating, MarkTerminatingFails
    <3> QED
      BY <1>0, <3>1, <3>2
  <2> QED
    BY <1>2, <2>1, <2>2, <2>3 DEF PoolStep
<1>3. CASE (\E i \in Instances : InstReconcile(i)) \/ InstStep
  <2>1. pr' = pr
    BY <1>3 DEF InstReconcile, ReconcileGone, ReconcilePending, ReconcileRunning,
                ReconcileTerminating, Dequeue, InstStep, CreatePod, CreatePodFails,
                UpdateInstanceStatus, DeletePod, DeleteInstance, InstanceCallFails
  <2>2. ASSUME NEW i \in Instances, InstReconcile(i) PROVE fresh'.list = fresh.list
    BY <2>2 DEF InstReconcile, ReconcileGone, ReconcilePending, ReconcileRunning,
                ReconcileTerminating, InstStart
  <2>3. CASE CreatePod \/ CreatePodFails \/ InstanceCallFails \/ \E p \in Pods : DeletePod(p)
    BY <2>1, <2>3 DEF CreatePod, CreatePodFails, InstanceCallFails, DeletePod
  <2>4. CASE UpdateInstanceStatus
    BY <1>0, <2>1, <2>4, OutdatedType DEF UpdateInstanceStatus
  <2>5. CASE DeleteInstance
    BY <1>0, <2>1, <2>5 DEF DeleteInstance
  <2> QED
    BY <1>3, <2>1, <2>2, <2>3, <2>4, <2>5 DEF InstStep
<1>4. CASE Deliver \/ UNCHANGED vars
  BY <1>4 DEF Deliver, DeliverPool, DeliverInstance, DeliverPod
<1>5. CASE Crash
  BY <1>5 DEF Crash, PoolIdle
<1> QED
  BY <1>1, <1>2, <1>3, <1>4, <1>5 DEF Next, Operator

LEMMA VictimsNext ==
  ASSUME IInv, [Next]_vars
  PROVE  VictimsIdle'
<1> USE DEF IInv
<1>1. CASE PoolReconcile /\ poolCache.exists
  <2> PICK victims \in Victims : pr' = PoolPlan(victims)
    BY <1>1 DEF PoolReconcile
  <2>1. pr'.victims = victims
    BY DEF PoolPlan
  <2>2. victims \subseteq Listed({"warm"})
    BY DEF Victims, kSubset
  <2>3. fresh'.list = {i \in Instances : Quiet(instWatch, i)} /\ inst' = inst
    BY <1>1 DEF PoolReconcile, TypeOK, ControllersOK, Fresh
  <2> QED
    BY <2>1, <2>2, <2>3 DEF VictimsIdle, InStep, Coherent, Listed
<1>2. CASE pr'.victims \subseteq pr.victims /\ fresh'.list \subseteq fresh.list
  <2>1. CASE inst' = inst
    BY <1>2, <2>1 DEF VictimsIdle
  <2>2. ASSUME NEW i \in Instances, NEW v \in InstVal, InstWrite(i, v)
        PROVE  VictimsIdle'
    <3>1. inst' = [inst EXCEPT ![i] = v] /\ inst \in [Instances -> InstVal]
      BY <2>2 DEF InstWrite, PutInst, TypeOK, ServerOK
    <3>2. pr.victims \subseteq Instances
      BY DEF TypeOK, ControllersOK, PoolRun
    <3> QED
      BY <1>2, <2>2, <3>1, <3>2 DEF VictimsIdle, InstWrite
  <2> QED
    BY <2>1, <2>2, InstWrites DEF DeliverInstance, Crash
<1>3. CASE pr'.victims = {}
  BY <1>3 DEF VictimsIdle
<1>4. PoolReconcile /\ ~poolCache.exists => pr' = pr /\ fresh' = fresh
  BY DEF PoolReconcile
<1> QED
  BY <1>1, <1>2, <1>3, <1>4, VictimsShrink

\* A reconciliation deletes only for an instance it saw terminating.
LEMMA DeletesAfterTerminating ==
  ASSUME TypeOK, [Next]_vars, NEW i \in Instances,
         ir'.key = i, ir'.step \in {"pods", "delete"}
  PROVE  SeenTerminating(i)
<1> USE DEF TypeOK, ControllersOK, InstRun
<1>1. ASSUME NEW j \in Instances, InstReconcile(j) PROVE SeenTerminating(i)
  <2>1. CASE ReconcileTerminating(j)
    <3>1. ir'.key = j
      BY <2>1 DEF ReconcileTerminating, InstStart, Run, InstIdle, Dequeue
    <3> QED
      BY <2>1, <3>1 DEF ReconcileTerminating, Dequeue, SeenTerminating
  <2>2. CASE ReconcileGone(j) \/ ReconcilePending(j) \/ ReconcileRunning(j)
    <3>1. ir'.step \in {"idle", "create", "status"}
      BY <2>2 DEF ReconcileGone, ReconcilePending, ReconcileRunning, InstStart, Run, InstIdle, Dequeue
    <3> QED
      BY <3>1
  <2> QED
    BY <1>1, <2>1, <2>2 DEF InstReconcile
<1>2. CASE InstStep
  <2>1. CASE CreatePod
    BY <2>1 DEF CreatePod
  <2>2. CASE CreatePodFails \/ UpdateInstanceStatus \/ DeleteInstance \/ InstanceCallFails
    <3>1. ir' = InstIdle
      BY <2>2 DEF CreatePodFails, UpdateInstanceStatus, DeleteInstance, InstanceCallFails, InstDone
    <3> QED
      BY <3>1 DEF InstIdle
  <2>3. ASSUME NEW p \in Pods, DeletePod(p) PROVE SeenTerminating(i)
    BY <2>3 DEF DeletePod, InstDone, InstIdle, SeenTerminating
  <2> QED
    BY <1>2, <2>1, <2>2, <2>3 DEF InstStep
<1>3. CASE Crash
  BY <1>3 DEF Crash, InstIdle
<1>4. CASE Outside \/ Deliver \/ PoolReconcile \/ PoolStep \/ UNCHANGED vars
  <2>1. ir' = ir
    BY <1>4 DEF Outside, Rescale, DeletePool, ClaimInstance, ReleaseInstance, GatewayWrites,
                CollectInstance, PodRuns, PodEnds, EvictPod, RemovePod, CollectPod, PodWrites,
                Deliver, DeliverPool, DeliverInstance, DeliverPod, PoolReconcile, PoolStep,
                CreateInstance, CreateInstanceFails, MarkTerminating, MarkTerminatingFails,
                UpdatePoolStatus, UpdatePoolStatusFails
  <2> QED
    BY <2>1 DEF SeenTerminating
<1> QED
  BY <1>1, <1>2, <1>3, <1>4 DEF Next, Operator

LEMMA RetiredNext ==
  ASSUME IInv, [Next]_vars
  PROVE  RetiredForGood'
<1> USE DEF IInv
<1> SUFFICES ASSUME NEW i \in Instances, SeenTerminating(i)'
             PROVE  inst'[i].state \in {"terminating", "absent"}
  BY DEF RetiredForGood
<1>1. ir'.key = i /\ ir'.step \in {"pods", "delete"} => SeenTerminating(i)
  BY DeletesAfterTerminating
<1>2. SeenTerminating(i) => inst[i].state \in {"terminating", "absent"}
  BY DEF RetiredForGood
<1>3. CASE UNCHANGED <<inst, instWatch, instCache>>
  <2>1. SeenTerminating(i)
    BY <1>1, <1>3 DEF SeenTerminating
  <2> QED
    BY <1>2, <1>3, <2>1
<1>4. CASE DeliverInstance
  <2>1. instWatch \in Seq([key : Instances, val : InstVal]) /\ instWatch # <<>>
    BY <1>4 DEF DeliverInstance, TypeOK, WatchesOK
  <2>2. \A n \in DOMAIN Tail(instWatch) :
          n + 1 \in DOMAIN instWatch /\ Tail(instWatch)[n] = instWatch[n + 1]
    BY <2>1, HeadTailProperties
  <2>3. 1 \in DOMAIN instWatch /\ Head(instWatch) = instWatch[1]
    BY <2>1
  <2>4. SeenTerminating(i)
    <3>1. CASE instCache'[i].state = "terminating"
      BY <1>4, <2>3, <3>1 DEF SeenTerminating, DeliverInstance, Apply, TypeOK, CachesOK
    <3>2. CASE \E n \in DOMAIN instWatch' :
                 instWatch'[n].key = i /\ instWatch'[n].val.state = "terminating"
      BY <1>4, <2>2, <3>2 DEF SeenTerminating, DeliverInstance
    <3> QED
      BY <1>1, <3>1, <3>2 DEF SeenTerminating
  <2> QED
    BY <1>2, <1>4, <2>4 DEF DeliverInstance
<1>5. CASE Crash
  BY <1>5 DEF Crash, SeenTerminating, InstIdle
<1>6. ASSUME NEW j \in Instances, NEW v \in InstVal, InstWrite(j, v)
      PROVE  inst'[i].state \in {"terminating", "absent"}
  <2>1. inst' = [inst EXCEPT ![j] = v] /\ inst \in [Instances -> InstVal]
    BY <1>6 DEF InstWrite, PutInst, TypeOK, ServerOK
  <2>2. CASE i = j /\ v.state \in {"terminating", "absent"}
    BY <2>1, <2>2
  <2>3. CASE i # j \/ v.state \notin {"terminating", "absent"}
    <3>1. SeenTerminating(i)
      <4>1. instCache' = instCache
        BY <1>6 DEF InstWrite
      <4>2. ASSUME NEW n \in DOMAIN instWatch',
                   instWatch'[n].key = i, instWatch'[n].val.state = "terminating"
            PROVE  n \in DOMAIN instWatch /\ instWatch'[n] = instWatch[n]
        <5>1. CASE instWatch' = instWatch
          BY <5>1
        <5>2. CASE instWatch' = Append(instWatch, Event(j, v))
          <6>1. /\ instWatch \in Seq([key : Instances, val : InstVal])
                /\ Event(j, v) \in [key : Instances, val : InstVal]
                /\ Event(j, v).key = j /\ Event(j, v).val = v
            BY DEF TypeOK, WatchesOK, Event
          <6>2. /\ DOMAIN instWatch' = 1..(Len(instWatch) + 1)
                /\ DOMAIN instWatch = 1..Len(instWatch) /\ Len(instWatch) \in Nat
                /\ \A m \in 1..Len(instWatch) : instWatch'[m] = instWatch[m]
                /\ instWatch'[Len(instWatch) + 1] = Event(j, v)
            BY <5>2, <6>1, AppendProperties
          <6>3. n # Len(instWatch) + 1
            BY <2>3, <4>2, <6>1, <6>2
          <6> QED
            BY <6>2, <6>3
        <5> QED
          BY <1>6, <5>1, <5>2 DEF InstWrite, PutInst
      <4> QED
        BY <1>1, <4>1, <4>2 DEF SeenTerminating
    <3>2. CASE i # j
      BY <1>2, <2>1, <3>1, <3>2
    <3>3. CASE i = j
      <4>1. inst[i].state \in {"terminating", "absent"} /\ v.state \notin {"terminating", "absent"}
        BY <1>2, <2>3, <3>1, <3>3
      <4>2. InstNameFree(i)
        BY <1>6, <3>3, <4>1 DEF InstWrite, LegalWrite, LegalUpdate, NoInst
      <4> QED
        BY <3>1, <4>2 DEF InstNameFree, SeenTerminating, NoInst, Quiet
    <3> QED
      BY <3>2, <3>3
  <2> QED
    BY <2>2, <2>3
<1> QED
  BY <1>3, <1>4, <1>5, <1>6, InstWrites

\* A copy that is current stays the stored object until its reconciliation ends.
LEMMA CopyKept ==
  ASSUME TypeOK, [Next]_vars, fresh'.inst, ir'.step \in {"create", "status"}
  PROVE  \/ \E i \in Instances : InstReconcile(i)
         \/ CreatePod
         \/ fresh.inst /\ ir' = ir /\ inst'[ir.key] = inst[ir.key]
<1> USE DEF TypeOK, ServerOK, ControllersOK, Fresh
<1>1. ASSUME NEW i \in Instances, NEW v, PutInst(i, v), ir.key # i, ir.key \in Instances
      PROVE  inst'[ir.key] = inst[ir.key]
  BY <1>1 DEF PutInst
<1>2. ASSUME NEW i \in Instances, NEW v, PutInst(i, v), fresh' = Outdated(i), ir' = ir
      PROVE  fresh.inst /\ inst'[ir.key] = inst[ir.key]
  BY <1>2 DEF PutInst, Outdated
<1>3. CASE Outside
  <2>1. ir' = ir
    BY <1>3 DEF Outside, Rescale, DeletePool, ClaimInstance, ReleaseInstance, GatewayWrites,
                CollectInstance, PodRuns, PodEnds, EvictPod, RemovePod, CollectPod, PodWrites
  <2>2. CASE Rescale \/ DeletePool
    BY <2>1, <2>2 DEF Rescale, DeletePool
  <2>3. ASSUME NEW i \in Instances, ClaimInstance(i) \/ ReleaseInstance(i) \/ CollectInstance(i)
        PROVE  fresh.inst /\ inst'[ir.key] = inst[ir.key]
    BY <1>2, <2>1, <2>3 DEF ClaimInstance, ReleaseInstance, GatewayWrites, CollectInstance
  <2>4. ASSUME NEW p \in Pods,
               PodRuns(p) \/ PodEnds(p) \/ EvictPod(p) \/ RemovePod(p) \/ CollectPod(p)
        PROVE  fresh' = fresh /\ inst' = inst
    BY <2>4 DEF PodRuns, PodEnds, EvictPod, RemovePod, CollectPod, PodWrites
  <2> QED
    BY <1>3, <2>1, <2>2, <2>3, <2>4 DEF Outside
<1>4. CASE PoolReconcile \/ PoolStep
  <2>1. ir' = ir
    BY <1>4 DEF PoolReconcile, PoolStep, CreateInstance, CreateInstanceFails, MarkTerminating,
                MarkTerminatingFails, UpdatePoolStatus, UpdatePoolStatusFails
  <2>2. CASE PoolReconcile
    BY <2>1, <2>2 DEF PoolReconcile
  <2>3. CASE CreateInstance
    <3> PICK i \in Instances : InstNameFree(i) /\ PutInst(i, NewInst)
      BY <2>3 DEF CreateInstance
    <3>1. fresh.inst
      BY <2>3 DEF CreateInstance
    <3> QED
      BY <1>1, <2>1, <3>1 DEF InstNameFree
  <2>4. ASSUME NEW i \in Instances, MarkTerminating(i)
        PROVE  fresh.inst /\ inst'[ir.key] = inst[ir.key]
    BY <1>2, <2>1, <2>4 DEF MarkTerminating
  <2>5. CASE \/ CreateInstanceFails \/ UpdatePoolStatus \/ UpdatePoolStatusFails
             \/ \E i \in Instances : MarkTerminatingFails(i)
    BY <2>1, <2>5 DEF CreateInstanceFails, UpdatePoolStatus, UpdatePoolStatusFails, MarkTerminatingFails
  <2> QED
    BY <1>4, <2>1, <2>2, <2>3, <2>4, <2>5 DEF PoolStep
<1>5. CASE InstStep
  <2>1. CASE CreatePodFails \/ UpdateInstanceStatus \/ DeleteInstance \/ InstanceCallFails
    <3>1. ir' = InstIdle
      BY <2>1 DEF CreatePodFails, UpdateInstanceStatus, DeleteInstance, InstanceCallFails, InstDone
    <3> QED
      BY <3>1 DEF InstIdle
  <2>2. ASSUME NEW p \in Pods, DeletePod(p) PROVE FALSE
    <3>1. ir' = InstIdle \/ ir' = [ir EXCEPT !.pods = @ \ {p}]
      BY <2>2 DEF DeletePod, InstDone
    <3> QED
      BY <2>2, <3>1 DEF DeletePod, InstIdle, InstRun
  <2> QED
    BY <1>5, <2>1, <2>2 DEF InstStep
<1>6. CASE Crash
  BY <1>6 DEF Crash, InstIdle
<1>7. CASE Deliver \/ UNCHANGED vars
  BY <1>7 DEF Deliver, DeliverPool, DeliverInstance, DeliverPod
<1> QED
  BY <1>3, <1>4, <1>5, <1>6, <1>7 DEF Next, Operator

LEMMA CurrentCopyNext ==
  ASSUME IInv, [Next]_vars
  PROVE  CurrentCopy'
<1> USE DEF IInv
<1> SUFFICES ASSUME fresh'.inst, ir'.step \in {"create", "status"}
             PROVE  /\ ir'.step = "create" => inst'[ir'.key].state \in {"new", "pending"}
                    /\ ir'.step = "status" => LegalUpdate(inst'[ir'.key].state, ir'.want.state)
  BY DEF CurrentCopy
<1>1. ASSUME NEW i \in Instances, InstReconcile(i), ir' # ir \/ ir.step = "idle"
      PROVE  /\ ir'.step = "create" => inst'[ir'.key].state \in {"new", "pending"}
             /\ ir'.step = "status" => LegalUpdate(inst'[ir'.key].state, ir'.want.state)
  <2>1. ir.step = "idle" /\ inst' = inst
    BY <1>1 DEF InstReconcile, ReconcileGone, ReconcilePending, ReconcileRunning,
                ReconcileTerminating, Dequeue
  <2>2. ASSUME NEW run, InstStart(i, run) PROVE ir' = run /\ inst[i] = instCache[i]
    <3>1. Quiet(instWatch, i)
      BY <2>2 DEF InstStart, TypeOK, ControllersOK, Fresh
    <3> QED
      BY <2>2, <3>1 DEF InstStart, InStep, Coherent
  <2>3. CASE ReconcilePending(i)
    <3>0. instCache[i].state \in {"new", "pending"}
      BY <2>3 DEF ReconcilePending, Dequeue
    <3>1. CASE InstStart(i, Run(i, "create"))
      <4>1. ir' = Run(i, "create") /\ inst'[i] = instCache[i]
        BY <2>1, <2>2, <3>1
      <4> QED
        BY <3>0, <4>1 DEF Run, InstIdle
    <3>2. ASSUME NEW p \in Seen(i), NEW state \in {"warm", instCache[i].state},
                 InstStart(i, [Run(i, "status") EXCEPT !.want = [state |-> state, pod |-> p]])
          PROVE  /\ ir'.step = "status" /\ ir'.key = i
                 /\ LegalUpdate(inst[i].state, ir'.want.state)
      <4> DEFINE run == [Run(i, "status") EXCEPT !.want = [state |-> state, pod |-> p]]
      <4>1. run.step = "status" /\ run.key = i /\ run.want.state = state
        BY DEF Run, InstIdle
      <4> HIDE DEF run
      <4>2. ir' = run /\ inst[i] = instCache[i]
        BY <2>2, <3>2 DEF run
      <4> QED
        BY <3>0, <4>1, <4>2 DEF LegalUpdate
    <3> QED
      BY <2>1, <2>3, <3>1, <3>2 DEF ReconcilePending
  <2>4. CASE ReconcileRunning(i)
    <3> DEFINE run == [Run(i, "status") EXCEPT !.want = [instCache[i] EXCEPT !.state = "terminating"]]
    <3>1. InstStart(i, run)
      BY <2>1, <2>4 DEF ReconcileRunning
    <3>2. run.step = "status" /\ run.key = i /\ run.want.state = "terminating"
      BY DEF Run, InstIdle, TypeOK, CachesOK, InstVal
    <3> HIDE DEF run
    <3> QED
      BY <2>1, <2>2, <2>4, <3>1, <3>2 DEF ReconcileRunning, Dequeue, LegalUpdate
  <2>5. CASE ReconcileGone(i) \/ ReconcileTerminating(i)
    <3>1. ir'.step \in {"idle", "pods", "delete"}
      BY <2>1, <2>5 DEF ReconcileGone, ReconcileTerminating, InstStart, Run, InstIdle
    <3> QED
      BY <3>1
  <2> QED
    BY <1>1, <2>3, <2>4, <2>5 DEF InstReconcile
<1>2. ASSUME NEW i \in Instances, InstReconcile(i) PROVE ir.step = "idle"
  BY <1>2 DEF InstReconcile, ReconcileGone, ReconcilePending, ReconcileRunning,
              ReconcileTerminating, Dequeue
<1>3. CASE CreatePod
  <2>1. /\ ir.step = "create" /\ fresh.inst /\ inst' = inst
        /\ ir'.key = ir.key /\ ir'.step = "status" /\ ir'.want.state = "pending"
    BY <1>3 DEF CreatePod, TypeOK, ControllersOK, InstRun
  <2> QED
    BY <2>1 DEF CurrentCopy, LegalUpdate
<1>4. CASE fresh.inst /\ ir' = ir /\ inst'[ir.key] = inst[ir.key]
  BY <1>4 DEF CurrentCopy
<1> QED
  BY <1>1, <1>2, <1>3, <1>4, CopyKept

-----------------------------------------------------------------------------
(* Pods and their instances.  A pod keeps its owner for life, and the name   *)
(* of one that is gone is not used again while anything speaks of it.        *)

\* What a write of a pod may do to its owner.
KeepsOwner(p, v) ==
  \/ v = NoPod
  \/ v.inst = pod[p].inst /\ pod[p] # NoPod
  \/ PodNameFree(p) /\ v.inst \in Instances

PodWrite(p, v) ==
  PutPod(p, v) /\ KeepsOwner(p, v) /\ podCache' = podCache

\* Every step leaves the pods alone, delivers, restarts or writes one of them.
LEMMA PodMoves ==
  ASSUME TypeOK, [Next]_vars
  PROVE  \/ UNCHANGED <<pod, podWatch, podCache>>
         \/ DeliverPod
         \/ Crash
         \/ \E p \in Pods, v \in PodVal : PodWrite(p, v)
<1>1. CASE Outside
  <2>1. ASSUME NEW p \in Pods, PodRuns(p) \/ PodEnds(p) \/ EvictPod(p) \/ CollectPod(p)
        PROVE  \E v \in PodVal : PodWrite(p, v)
    <3> PICK v \in {[pod[p] EXCEPT !.phase = "Running"], [pod[p] EXCEPT !.phase = "Ended"],
                    [pod[p] EXCEPT !.del = TRUE]} : PodWrites(p, v)
      BY <2>1 DEF PodRuns, PodEnds, EvictPod, CollectPod
    <3>1. v \in PodVal /\ v.inst = pod[p].inst
      BY DEF TypeOK, ServerOK, PodVal
    <3>2. pod[p] # NoPod
      BY <2>1 DEF PodRuns, PodEnds, EvictPod, CollectPod, NoPod
    <3> QED
      BY <3>1, <3>2 DEF PodWrites, PodWrite, KeepsOwner
  <2>2. ASSUME NEW p \in Pods, RemovePod(p) PROVE PodWrite(p, NoPod)
    BY <2>2 DEF RemovePod, PodWrites, PodWrite, KeepsOwner
  <2>3. ASSUME \/ Rescale \/ DeletePool
               \/ \E i \in Instances : ClaimInstance(i) \/ ReleaseInstance(i) \/ CollectInstance(i)
        PROVE  UNCHANGED <<pod, podWatch, podCache>>
    BY <2>3 DEF Rescale, DeletePool, ClaimInstance, ReleaseInstance, GatewayWrites, CollectInstance
  <2> QED
    BY <1>1, <2>1, <2>2, <2>3, ValueTypes DEF Outside
<1>2. CASE PoolReconcile \/ PoolStep
  BY <1>2 DEF PoolReconcile, PoolStep, CreateInstance, CreateInstanceFails, MarkTerminating,
              MarkTerminatingFails, UpdatePoolStatus, UpdatePoolStatusFails
<1>3. CASE (\E i \in Instances : InstReconcile(i)) \/ InstStep
  <2>1. CASE CreatePod
    <3> PICK p \in Pods : PodNameFree(p) /\ PutPod(p, NewPod(ir.key))
      BY <2>1 DEF CreatePod
    <3>1. ir.key \in Instances
      BY <2>1 DEF CreatePod, TypeOK, ControllersOK
    <3>2. NewPod(ir.key) \in PodVal /\ NewPod(ir.key).inst = ir.key
      BY <3>1, ValueTypes DEF NewPod
    <3> QED
      BY <2>1, <3>1, <3>2 DEF CreatePod, PodWrite, KeepsOwner
  <2>2. ASSUME NEW p \in Pods, DeletePod(p), pod[p] # NoPod, ~pod[p].del
        PROVE  \E v \in PodVal : PodWrite(p, v)
    <3> DEFINE v == [pod[p] EXCEPT !.del = TRUE]
    <3>1. v \in PodVal /\ v.inst = pod[p].inst
      BY DEF TypeOK, ServerOK, PodVal
    <3>2. PutPod(p, v) /\ podCache' = podCache
      BY <2>2 DEF DeletePod
    <3> HIDE DEF v
    <3> QED
      BY <2>2, <3>1, <3>2 DEF PodWrite, KeepsOwner
  <2>3. ASSUME NEW p \in Pods, DeletePod(p), pod[p] = NoPod \/ pod[p].del
        PROVE  UNCHANGED <<pod, podWatch, podCache>>
    BY <2>3 DEF DeletePod
  <2>4. ASSUME CreatePodFails \/ UpdateInstanceStatus \/ DeleteInstance \/ InstanceCallFails
        PROVE  UNCHANGED <<pod, podWatch, podCache>>
    BY <2>4 DEF CreatePodFails, UpdateInstanceStatus, DeleteInstance, InstanceCallFails
  <2>5. ASSUME NEW i \in Instances, InstReconcile(i) PROVE UNCHANGED <<pod, podWatch, podCache>>
    BY <2>5 DEF InstReconcile, ReconcileGone, ReconcilePending, ReconcileRunning,
                ReconcileTerminating, Dequeue
  <2> QED
    BY <1>3, <2>1, <2>2, <2>3, <2>4, <2>5 DEF InstStep
<1>4. CASE DeliverPool \/ DeliverInstance \/ UNCHANGED vars
  BY <1>4 DEF DeliverPool, DeliverInstance
<1> QED
  BY <1>1, <1>2, <1>3, <1>4 DEF Next, Deliver, Operator

\* The pods a reconciliation is deleting were listed for its instance.
LEMMA DeletesListed ==
  ASSUME TypeOK, [Next]_vars, ir'.step = "pods", NEW p \in ir'.pods
  PROVE  \/ ir.step = "pods" /\ p \in ir.pods /\ ir'.key = ir.key
         \/ ir'.key \in Instances /\ p \in Seen(ir'.key) /\ pod' = pod
<1> USE DEF TypeOK, ControllersOK, InstRun
<1>1. ASSUME NEW i \in Instances, InstReconcile(i)
      PROVE  \/ ir' = ir
             \/ ir'.key \in Instances /\ p \in Seen(ir'.key) /\ pod' = pod
  <2>1. CASE ReconcileTerminating(i)
    <3> DEFINE doomed == {q \in Seen(i) : ~podCache[q].del}
    <3>1. \/ ir' = ir
          \/ ir' = Run(i, "delete")
          \/ ir' = [Run(i, "pods") EXCEPT !.pods = doomed]
      BY <2>1 DEF ReconcileTerminating, InstStart
    <3>2. ir' # Run(i, "delete")
      BY DEF Run, InstIdle
    <3>3. ASSUME ir' = [Run(i, "pods") EXCEPT !.pods = doomed] PROVE ir'.key = i /\ p \in doomed
      BY <3>3 DEF Run, InstIdle
    <3> QED
      BY <2>1, <3>1, <3>2, <3>3 DEF ReconcileTerminating, Dequeue
  <2>2. CASE ReconcileGone(i) \/ ReconcilePending(i) \/ ReconcileRunning(i)
    <3>1. ir'.step \in {"idle", "create", "status"}
      BY <2>2 DEF ReconcileGone, ReconcilePending, ReconcileRunning, InstStart, Run, InstIdle, Dequeue
    <3> QED
      BY <3>1
  <2> QED
    BY <1>1, <2>1, <2>2 DEF InstReconcile
<1>2. CASE InstStep
  <2>1. CASE CreatePod
    <3>1. ir'.step = "status"
      BY <2>1 DEF CreatePod
    <3> QED
      BY <3>1
  <2>2. CASE CreatePodFails \/ UpdateInstanceStatus \/ DeleteInstance \/ InstanceCallFails
    <3>1. ir' = InstIdle
      BY <2>2 DEF CreatePodFails, UpdateInstanceStatus, DeleteInstance, InstanceCallFails, InstDone
    <3> QED
      BY <3>1 DEF InstIdle
  <2>3. ASSUME NEW q \in Pods, DeletePod(q)
        PROVE  ir.step = "pods" /\ p \in ir.pods /\ ir'.key = ir.key
    <3>1. ir' = InstIdle \/ ir' = [ir EXCEPT !.pods = @ \ {q}]
      BY <2>3 DEF DeletePod, InstDone
    <3> QED
      BY <2>3, <3>1 DEF DeletePod, InstIdle
  <2> QED
    BY <1>2, <2>1, <2>2, <2>3 DEF InstStep
<1>3. CASE Crash
  BY <1>3 DEF Crash, InstIdle
<1>4. CASE Outside \/ Deliver \/ PoolReconcile \/ PoolStep \/ UNCHANGED vars
  BY <1>4 DEF Outside, Rescale, DeletePool, ClaimInstance, ReleaseInstance, GatewayWrites,
              CollectInstance, PodRuns, PodEnds, EvictPod, RemovePod, CollectPod, PodWrites,
              Deliver, DeliverPool, DeliverInstance, DeliverPod, PoolReconcile, PoolStep,
              CreateInstance, CreateInstanceFails, MarkTerminating, MarkTerminatingFails,
              UpdatePoolStatus, UpdatePoolStatusFails
<1> QED
  BY <1>1, <1>2, <1>3, <1>4 DEF Next, Operator

\* What a step does to the events of pods.
LEMMA PodEvents ==
  ASSUME TypeOK, [Next]_vars, NEW n \in DOMAIN podWatch'
  PROVE  \/ \E m \in DOMAIN podWatch : podWatch'[n] = podWatch[m]
         \/ \E p \in Pods, v \in PodVal : PodWrite(p, v) /\ podWatch'[n] = Event(p, v)
<1>0. podWatch \in Seq([key : Pods, val : PodVal])
  BY DEF TypeOK, WatchesOK
<1>1. CASE UNCHANGED <<pod, podWatch, podCache>>
  BY <1>1
<1>2. CASE DeliverPod
  <2>1. podWatch # <<>> /\ podWatch' = Tail(podWatch)
    BY <1>2 DEF DeliverPod
  <2>2. n + 1 \in DOMAIN podWatch /\ podWatch'[n] = podWatch[n + 1]
    BY <1>0, <2>1, HeadTailProperties
  <2> QED
    BY <2>2
<1>3. CASE Crash
  BY <1>3 DEF Crash
<1>4. ASSUME NEW p \in Pods, NEW v \in PodVal, PodWrite(p, v)
      PROVE  (\E m \in DOMAIN podWatch : podWatch'[n] = podWatch[m]) \/ podWatch'[n] = Event(p, v)
  <2>1. CASE podWatch' = podWatch
    BY <2>1
  <2>2. CASE podWatch' = Append(podWatch, Event(p, v))
    BY <1>0, <2>2, SentEvents
  <2> QED
    BY <1>4, <2>1, <2>2 DEF PodWrite, PutPod
<1> QED
  BY <1>1, <1>2, <1>3, <1>4, PodMoves

\* A name that is spoken of stays the pod's.
LEMMA StillOfNext ==
  ASSUME TypeOK, PodsKeepOwner, [Next]_vars, NEW p \in Pods, NEW i \in Instances, StillOf(pod[p], i),
         \/ podCache[p].inst = i
         \/ \E n \in DOMAIN podWatch : podWatch[n].key = p
         \/ p \in ir.pods
         \/ pod' = pod
  PROVE  StillOf(pod'[p], i)
<1>1. CASE pod' = pod
  BY <1>1 DEF StillOf
<1>2. ASSUME NEW q \in Pods, NEW v \in PodVal, PodWrite(q, v), q = p, v # NoPod, pod' # pod
      PROVE  StillOf(pod'[p], i)
  <2>1. pod'[p] = v
    BY <1>2 DEF PodWrite, PutPod, TypeOK, ServerOK
  <2>2. ~PodNameFree(p)
    BY <1>2, ConstantsAssumption DEF PodNameFree, Quiet, NoPod
  <2>3. v.inst = pod[p].inst /\ pod[p] # NoPod
    BY <1>2, <2>2 DEF PodWrite, KeepsOwner
  <2> QED
    BY <2>1, <2>3 DEF StillOf
<1>3. ASSUME NEW q \in Pods, NEW v \in PodVal, PodWrite(q, v), q # p \/ v = NoPod
      PROVE  StillOf(pod'[p], i)
  <2>1. pod'[p] = pod[p] \/ pod'[p] = NoPod
    BY <1>3 DEF PodWrite, PutPod, TypeOK, ServerOK
  <2> QED
    BY <2>1 DEF StillOf
<1> QED
  BY <1>1, <1>2, <1>3, PodMoves DEF DeliverPod, Crash

LEMMA OwnerNext ==
  ASSUME IInv, [Next]_vars
  PROVE  PodsKeepOwner'
<1> USE DEF IInv
<1>0. TypeOK'
  BY TypeNext
<1>1. ASSUME NEW p \in Pods PROVE pod'[p] = NoPod \/ pod'[p].inst \in Instances
  <2>1. CASE pod' = pod
    BY <2>1 DEF PodsKeepOwner
  <2>2. ASSUME NEW q \in Pods, NEW v \in PodVal, PodWrite(q, v)
        PROVE  pod'[p] = NoPod \/ pod'[p].inst \in Instances
    <3>1. pod'[p] = IF p = q THEN v ELSE pod[p]
      BY <2>2 DEF PodWrite, PutPod, TypeOK, ServerOK
    <3>2. v = NoPod \/ v.inst \in Instances
      BY <2>2 DEF PodWrite, KeepsOwner, PodsKeepOwner
    <3> QED
      BY <3>1, <3>2 DEF PodsKeepOwner
  <2> QED
    BY <2>1, <2>2, PodMoves DEF DeliverPod, Crash
<1>2. ASSUME NEW p \in Pods, podCache'[p].inst # None PROVE StillOf(pod'[p], podCache'[p].inst)
  <2>1. CASE podCache' = podCache
    <3>1. podCache[p].inst \in Instances /\ StillOf(pod[p], podCache[p].inst)
      BY <1>2, <2>1 DEF PodsKeepOwner, TypeOK, CachesOK, PodVal
    <3> QED
      BY <2>1, <3>1, StillOfNext
  <2>2. CASE DeliverPod
    <3> DEFINE e == Head(podWatch)
    <3>1. /\ podWatch \in Seq([key : Pods, val : PodVal]) /\ podWatch # <<>>
          /\ podCache \in [Pods -> PodVal]
      BY <2>2 DEF DeliverPod, TypeOK, WatchesOK, CachesOK
    <3> HIDE DEF e
    <3>2. 1 \in DOMAIN podWatch /\ e = podWatch[1] /\ podWatch[1] \in [key : Pods, val : PodVal]
      <4>1. 1 \in 1..Len(podWatch)
        BY <3>1
      <4>2. podWatch[1] \in [key : Pods, val : PodVal]
        BY <3>1, <4>1, ElementOfSeq
      <4> QED
        BY <3>1, <4>1, <4>2 DEF e
    <3>3. podCache'[p] = IF p = e.key THEN e.val ELSE podCache[p]
      BY <2>2, <3>1 DEF DeliverPod, Apply, e
    <3>4. StillOf(pod[p], podCache'[p].inst)
      BY <1>2, <3>2, <3>3 DEF PodsKeepOwner
    <3> QED
      BY <2>2, <3>4 DEF DeliverPod, StillOf
  <2>3. CASE Crash
    BY <2>3 DEF Crash, StillOf
  <2> QED
    BY <2>1, <2>2, <2>3, PodMoves DEF PodWrite
<1>3. ASSUME NEW n \in DOMAIN podWatch', podWatch'[n].val.inst # None
      PROVE  StillOf(pod'[podWatch'[n].key], podWatch'[n].val.inst)
  <2>1. ASSUME NEW m \in DOMAIN podWatch, podWatch'[n] = podWatch[m]
        PROVE  StillOf(pod'[podWatch[m].key], podWatch[m].val.inst)
    <3>0. podWatch \in Seq([key : Pods, val : PodVal]) /\ m \in 1..Len(podWatch)
      BY DEF TypeOK, WatchesOK
    <3>1. podWatch[m] \in [key : Pods, val : PodVal]
      BY <3>0, ElementOfSeq
    <3>2. /\ podWatch[m].key \in Pods /\ podWatch[m].val.inst \in Instances
          /\ StillOf(pod[podWatch[m].key], podWatch[m].val.inst)
      BY <1>3, <2>1, <3>1 DEF PodsKeepOwner, PodVal
    <3> QED
      BY <3>2, StillOfNext
  <2>2. ASSUME NEW p \in Pods, NEW v \in PodVal, PodWrite(p, v), podWatch'[n] = Event(p, v)
        PROVE  StillOf(pod'[podWatch'[n].key], podWatch'[n].val.inst)
    <3>1. podWatch'[n].key = p /\ podWatch'[n].val = v
      BY <2>2 DEF Event
    <3>2. pod'[p] = v
      BY <2>2 DEF PodWrite, PutPod, TypeOK, ServerOK
    <3> QED
      BY <3>1, <3>2 DEF StillOf
  <2> QED
    BY <1>3, <2>1, <2>2, PodEvents
<1>4. ASSUME ir'.step = "pods", NEW p \in ir'.pods PROVE StillOf(pod'[p], ir'.key)
  <2>1. p \in Pods /\ ir'.key \in Instances
    BY <1>0, <1>4 DEF TypeOK, ControllersOK, InstRun
  <2>2. CASE ir.step = "pods" /\ p \in ir.pods /\ ir'.key = ir.key
    <3>1. StillOf(pod[p], ir.key)
      BY <2>2 DEF PodsKeepOwner
    <3> QED
      BY <2>1, <2>2, <3>1, StillOfNext
  <2>3. CASE p \in Seen(ir'.key) /\ pod' = pod
    <3>1. podCache[p].inst = ir'.key /\ ir'.key # None
      BY <2>1, <2>3, ConstantsAssumption DEF Seen
    <3> QED
      BY <2>1, <2>3, <3>1 DEF PodsKeepOwner, StillOf
  <2> QED
    BY <1>4, <2>2, <2>3, DeletesListed
<1> QED
  BY <1>1, <1>2, <1>3, <1>4 DEF PodsKeepOwner

-----------------------------------------------------------------------------
(* The invariant *)

LEMMA InductiveInit == Init => IInv
<1> SUFFICES ASSUME Init PROVE IInv
  OBVIOUS
<1>1. /\ instWatch = <<>> /\ instCache = inst /\ inst = [i \in Instances |-> NoInst]
      /\ pr = PoolIdle /\ ir = InstIdle /\ fresh = NoFresh
  BY DEF Init, ClusterInit
<1>2. InStep
  BY <1>1, ListCoherent DEF InStep
<1>3. VictimsIdle /\ CurrentCopy
  BY <1>1 DEF VictimsIdle, CurrentCopy, PoolIdle, NoFresh
<1>4. RetiredForGood
  BY <1>1 DEF RetiredForGood, SeenTerminating, NoInst, InstIdle
<1>5. PodsKeepOwner
  BY DEF Init, ClusterInit, PodsKeepOwner, NoPod, InstIdle
<1> QED
  BY <1>2, <1>3, <1>4, <1>5, TypeInit DEF IInv

\* The inductive invariant: every copy a reconciler may still write back is the
\* stored object, and what was seen terminating never serves again.
THEOREM Inductive == Spec => []IInv
<1>1. IInv /\ [Next]_vars => IInv'
  BY TypeNext, InStepNext, VictimsNext, RetiredNext, CurrentCopyNext, OwnerNext DEF IInv
<1> QED
  BY <1>1, InductiveInit, PTL DEF Spec

-----------------------------------------------------------------------------
(* What follows from it *)

\* Scale down never takes an instance from the gateway (ScaleDownOnlyIdle): the
\* resourceVersion check stops every decision the pool controller took on a copy
\* from before the claim.
THEOREM ScaleDownIsSafe == Spec => ScaleDownOnlyIdle
<1> DEFINE Safe == \A i \in pr.victims : pr' # pr /\ inst'[i] # inst[i] => inst[i].state = "warm"
<1>1. IInv /\ [Next]_vars => [Safe]_vars
  <2> SUFFICES ASSUME IInv, [Next]_vars, NEW i \in pr.victims, pr' # pr, inst'[i] # inst[i]
               PROVE  inst[i].state = "warm"
    OBVIOUS
  <2> USE DEF IInv
  <2>1. i \in Instances /\ inst \in [Instances -> InstVal]
    BY DEF TypeOK, ServerOK, ControllersOK, PoolRun
  <2>2. CASE CreateInstance
    <3> PICK j \in Instances : InstNameFree(j) /\ PutInst(j, NewInst)
      BY <2>2 DEF CreateInstance
    <3> QED
      BY <2>1 DEF InstNameFree, PutInst
  <2>3. ASSUME NEW j \in Instances, MarkTerminating(j) PROVE inst[i].state = "warm"
    <3>1. j \in fresh.list /\ PutInst(j, [inst[j] EXCEPT !.state = "terminating"])
      BY <2>3 DEF MarkTerminating
    <3>2. i = j
      BY <2>1, <3>1 DEF PutInst
    <3> QED
      BY <3>1, <3>2 DEF VictimsIdle
  <2>4. inst' # inst /\ pr' # pr
    OBVIOUS
  <2>5. ~Outside
    BY <2>4 DEF Outside, Rescale, DeletePool, ClaimInstance, ReleaseInstance, GatewayWrites,
                CollectInstance, PodRuns, PodEnds, EvictPod, RemovePod, CollectPod, PodWrites
  <2>6. ~(Deliver \/ Crash \/ UNCHANGED vars)
    BY <2>4 DEF Deliver, DeliverPool, DeliverInstance, DeliverPod, Crash
  <2>7. ~((\E j \in Instances : InstReconcile(j)) \/ InstStep)
    BY <2>4 DEF InstReconcile, ReconcileGone, ReconcilePending, ReconcileRunning,
                ReconcileTerminating, Dequeue, InstStep, CreatePod, CreatePodFails,
                UpdateInstanceStatus, DeletePod, DeleteInstance, InstanceCallFails
  <2>8. ~PoolReconcile /\ ~CreateInstanceFails /\ ~UpdatePoolStatus /\ ~UpdatePoolStatusFails
        /\ \A j \in Instances : ~MarkTerminatingFails(j)
    BY <2>4 DEF PoolReconcile, CreateInstanceFails, UpdatePoolStatus, UpdatePoolStatusFails,
                MarkTerminatingFails
  <2> QED
    BY <2>2, <2>3, <2>5, <2>6, <2>7, <2>8 DEF Next, Operator, PoolStep
<1>2. ScaleDownOnlyIdle <=> [][Safe]_vars
  BY DEF ScaleDownOnlyIdle
<1> QED
  BY <1>1, <1>2, Inductive, PTL DEF Spec

\* A pod is deleted by the instance controller only if the instance it serves is being
\* retired or gone (KillsOnlyRetired), although ReconcileTerminating decides on cached
\* copies of both and r.Delete has no precondition.
THEOREM KillsAreRetirements == Spec => KillsOnlyRetired
<1> DEFINE Safe == \A p \in Pods : p \in ir.pods /\ ir' # ir /\ pod'[p] # pod[p]
                     => inst[pod[p].inst].state \in {"terminating", "absent"}
<1>1. IInv /\ [Next]_vars => [Safe]_vars
  <2> SUFFICES ASSUME IInv, [Next]_vars, NEW p \in Pods, p \in ir.pods, ir' # ir, pod'[p] # pod[p]
               PROVE  inst[pod[p].inst].state \in {"terminating", "absent"}
    OBVIOUS
  <2> USE DEF IInv
  <2>1. pod \in [Pods -> PodVal]
    BY DEF TypeOK, ServerOK
  <2>2. ASSUME NEW q \in Pods, DeletePod(q)
        PROVE  inst[pod[p].inst].state \in {"terminating", "absent"}
    <3>1. pod[q] # NoPod /\ q = p
      BY <2>1, <2>2 DEF DeletePod, PutPod
    <3>2. ir.step = "pods" /\ ir.key \in Instances
      BY <2>2 DEF DeletePod, TypeOK, ControllersOK
    <3>3. pod[p].inst = ir.key
      BY <3>1, <3>2 DEF PodsKeepOwner, StillOf
    <3> QED
      BY <3>2, <3>3 DEF RetiredForGood, SeenTerminating
  <2>3. ~CreatePod
    <3> SUFFICES ASSUME CreatePod PROVE FALSE
      OBVIOUS
    <3> PICK q \in Pods : PodNameFree(q) /\ PutPod(q, NewPod(ir.key))
      BY DEF CreatePod
    <3> QED
      BY <2>1 DEF PodNameFree, PutPod
  <2>4. pod' # pod /\ ir' # ir
    OBVIOUS
  <2>5. ~Outside
    BY <2>4 DEF Outside, Rescale, DeletePool, ClaimInstance, ReleaseInstance, GatewayWrites,
                CollectInstance, PodRuns, PodEnds, EvictPod, RemovePod, CollectPod, PodWrites
  <2>6. ~(Deliver \/ Crash \/ PoolReconcile \/ PoolStep \/ UNCHANGED vars)
    BY <2>4 DEF Deliver, DeliverPool, DeliverInstance, DeliverPod, Crash, PoolReconcile, PoolStep,
                CreateInstance, CreateInstanceFails, MarkTerminating, MarkTerminatingFails,
                UpdatePoolStatus, UpdatePoolStatusFails
  <2>7. ~((\E i \in Instances : InstReconcile(i)) \/ CreatePodFails \/ UpdateInstanceStatus
            \/ DeleteInstance \/ InstanceCallFails)
    BY <2>4 DEF InstReconcile, ReconcileGone, ReconcilePending, ReconcileRunning,
                ReconcileTerminating, Dequeue, CreatePodFails, UpdateInstanceStatus,
                DeleteInstance, InstanceCallFails
  <2> QED
    BY <2>2, <2>3, <2>5, <2>6, <2>7 DEF Next, Operator, InstStep
<1>2. KillsOnlyRetired <=> [][Safe]_vars
  BY DEF KillsOnlyRetired
<1> QED
  BY <1>1, <1>2, Inductive, PTL DEF Spec

\* A write of one instance is a move of the abstract life cycle, or none.
LEMMA WriteRefines ==
  ASSUME TypeOK, NEW i \in Instances, NEW v \in InstVal, InstWrite(i, v)
  PROVE  [Lifecycle!Next]_<<[j \in Instances |-> inst[j].state], pool.exists>>
<1> DEFINE st == [j \in Instances |-> inst[j].state]
<1>1. /\ inst \in [Instances -> InstVal] /\ inst' = [inst EXCEPT ![i] = v]
      /\ pool' = pool
  BY DEF InstWrite, PutInst, TypeOK, ServerOK
<1>2. st' = [st EXCEPT ![i] = v.state]
  BY <1>1
<1>3. st[i] = inst[i].state /\ st[i] \in LiveStates \cup {"absent"}
  BY <1>1 DEF InstVal
<1>4. CASE v.state = st[i]
  BY <1>1, <1>2, <1>4
<1>5. CASE v = NewInst /\ InstNameFree(i)
  <2>1. Lifecycle!Create(i)
    BY <1>1, <1>2, <1>3, <1>5 DEF Lifecycle!Create, Lifecycle!Move, InstNameFree, NoInst, NewInst
  <2> QED
    BY <2>1 DEF Lifecycle!Next
<1>6. CASE LegalUpdate(inst[i].state, v.state) /\ v.state # st[i]
  <2>1. Lifecycle!Start(i) \/ Lifecycle!Ready(i) \/ Lifecycle!Recycle(i)
    BY <1>1, <1>2, <1>3, <1>6
    DEF LegalUpdate, Lifecycle!Start, Lifecycle!Ready, Lifecycle!Recycle, Lifecycle!Move
  <2> QED
    BY <2>1 DEF Lifecycle!Next
<1>7. CASE \/ inst[i].state = "warm" /\ v.state = "active"
           \/ inst[i].state = "active" /\ v.state = "warm"
  <2>1. Lifecycle!Claim(i) \/ Lifecycle!Release(i)
    BY <1>1, <1>2, <1>3, <1>7 DEF Lifecycle!Claim, Lifecycle!Release, Lifecycle!Move
  <2> QED
    BY <2>1 DEF Lifecycle!Next
<1>8. CASE /\ v = NoInst /\ v.state # st[i]
           /\ inst[i].state \in {"terminating", "absent"} \/ ~pool.exists
  <2>1. Lifecycle!Remove(i) \/ Lifecycle!Collect(i)
    BY <1>1, <1>2, <1>3, <1>8
    DEF Lifecycle!Remove, Lifecycle!Collect, Lifecycle!Move, NoInst, LiveStates
  <2> QED
    BY <2>1 DEF Lifecycle!Next
<1> QED
  BY <1>4, <1>5, <1>6, <1>7, <1>8 DEF InstWrite, LegalWrite

\* The pool is deleted once and nothing else creates or deletes it.
LEMMA PoolLives ==
  ASSUME TypeOK, [Next]_vars
  PROVE  \/ pool'.exists = pool.exists
         \/ pool.exists /\ ~pool'.exists /\ inst' = inst
<1> USE DEF TypeOK, ServerOK, PoolVal
<1>1. CASE Rescale
  BY <1>1 DEF Rescale, PutPool
<1>2. CASE DeletePool
  BY <1>2 DEF DeletePool, PutPool
<1>3. CASE UpdatePoolStatus
  BY <1>3 DEF UpdatePoolStatus, PutPool
<1>4. CASE Outside /\ ~Rescale /\ ~DeletePool
  BY <1>4 DEF Outside, ClaimInstance, ReleaseInstance, GatewayWrites,
              CollectInstance, PodRuns, PodEnds, EvictPod, RemovePod, CollectPod, PodWrites
<1>5. CASE Deliver \/ Crash \/ UNCHANGED vars
  BY <1>5 DEF Deliver, DeliverPool, DeliverInstance, DeliverPod, Crash
<1>6. CASE (\E j \in Instances : InstReconcile(j)) \/ InstStep
  BY <1>6 DEF InstReconcile, ReconcileGone, ReconcilePending, ReconcileRunning,
              ReconcileTerminating, Dequeue, InstStep, CreatePod, CreatePodFails,
              UpdateInstanceStatus, DeletePod, DeleteInstance, InstanceCallFails
<1>7. CASE PoolReconcile \/ (PoolStep /\ ~UpdatePoolStatus)
  BY <1>7 DEF PoolReconcile, PoolStep, CreateInstance, CreateInstanceFails, MarkTerminating,
              MarkTerminatingFails, UpdatePoolStatusFails
<1> QED
  BY <1>1, <1>2, <1>3, <1>4, <1>5, <1>6, <1>7 DEF Next, Operator

\* The detailed system implements the life cycle (ImplementsLifecycle): whatever
\* the caches missed, no instance leaves "terminating" but to be deleted, and none
\* is deleted from another state while its pool exists.
THEOREM RefinesLifecycle == Spec => ImplementsLifecycle
<1> DEFINE st == [j \in Instances |-> inst[j].state]
<1>1. Init => Lifecycle!Init
  <2> SUFFICES ASSUME Init PROVE Lifecycle!Init
    OBVIOUS
  <2>1. inst = [i \in Instances |-> NoInst]
    BY DEF Init, ClusterInit
  <2>2. pool.exists = TRUE
    <3> PICK n \in 0..MaxReplicas : pool = [exists |-> TRUE, replicas |-> n, ready |-> 0,
                                            active |-> 0, available |-> FALSE]
      BY Zenon DEF Init, ClusterInit
    <3> QED
      OBVIOUS
  <2> QED
    BY <2>1, <2>2 DEF Lifecycle!Init, NoInst
<1>2. IInv /\ [Next]_vars => [Lifecycle!Next]_<<st, pool.exists>>
  <2> SUFFICES ASSUME IInv, [Next]_vars PROVE [Lifecycle!Next]_<<st, pool.exists>>
    OBVIOUS
  <2> USE DEF IInv
  <2>1. CASE inst' = inst
    <3>1. CASE pool'.exists = pool.exists
      BY <2>1, <3>1
    <3>2. CASE pool.exists /\ ~pool'.exists
      <4>1. pool.exists = TRUE /\ pool'.exists = FALSE
        BY <3>2, TypeNext DEF TypeOK, ServerOK, PoolVal
      <4>2. Lifecycle!Close
        BY <2>1, <4>1 DEF Lifecycle!Close
      <4> QED
        BY <4>2 DEF Lifecycle!Next
    <3> QED
      BY <3>1, <3>2, PoolLives
  <2>2. ASSUME NEW i \in Instances, NEW v \in InstVal, InstWrite(i, v)
        PROVE  [Lifecycle!Next]_<<st, pool.exists>>
    BY <2>2, WriteRefines
  <2> QED
    BY <2>1, <2>2, InstWrites DEF DeliverInstance, Crash
<1>3. IInv /\ [Next]_vars
      => [Lifecycle!Next]_<<[i \in Instances |-> inst[i].state], pool.exists>>
  BY <1>2
<1> QED
  BY <1>1, <1>3, Inductive, PTL DEF Spec, ImplementsLifecycle, Lifecycle!Spec

=============================================================================

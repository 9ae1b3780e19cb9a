------------------------ MODULE AgentInstanceProofs ------------------------
(***************************************************************************)
(* No instance is forgotten: whatever is lost, fails or is refused, what   *)
(* an instance and its pods call for is on its way to the instance         *)
(* controller.                                                             *)
(***************************************************************************)
EXTENDS AgentPoolProofs

USE DEF vars, server, caches, watches, queues, outside

-----------------------------------------------------------------------------
(* Pods as the operator sees them *)

PodsInStep == Coherent(Pods, pod, podCache, podWatch)

\* Whatever speaks of a pod speaks of the same owner.
OneOwner ==
  \A p \in Pods : \E i \in Instances \cup {None} :
    /\ StillOf(pod[p], i) /\ StillOf(podCache[p], i)
    /\ \A n \in DOMAIN podWatch : podWatch[n].key = p => StillOf(podWatch[n].val, i)

PodInv == PodsInStep /\ OneOwner

\* An event about a pod of i is under way, and whoever delivers it knows the owner.
Mentioned(p, i) ==
  \/ podCache[p].inst = i
  \/ \E n \in DOMAIN podWatch : podWatch[n].key = p /\ podWatch[n].val.inst = i

PodNews(i) == \E p \in Pods : ~Quiet(podWatch, p) /\ Mentioned(p, i)

LEMMA PodInvInit == Init => PodInv
<1> SUFFICES ASSUME Init PROVE PodInv
  OBVIOUS
<1>1. pod = [p \in Pods |-> NoPod] /\ podCache = pod /\ podWatch = <<>>
  BY DEF Init, ClusterInit
<1>2. PodsInStep
  BY <1>1, ListCoherent DEF PodsInStep
<1>3. OneOwner
  BY <1>1 DEF OneOwner, StillOf
<1> QED
  BY <1>2, <1>3 DEF PodInv

LEMMA PodsInStepNext ==
  ASSUME TypeOK, PodsInStep, [Next]_vars
  PROVE  PodsInStep'
<1>0. /\ podWatch \in Seq([key : Pods, val : PodVal])
      /\ DOMAIN pod = Pods /\ DOMAIN podCache = Pods
  BY DEF TypeOK, ServerOK, CachesOK, WatchesOK
<1>1. CASE UNCHANGED <<pod, podWatch, podCache>>
  BY <1>1 DEF PodsInStep
<1>2. CASE DeliverPod
  <2>1. /\ podWatch # <<>> /\ pod' = pod
        /\ podCache' = Apply(podCache, Head(podWatch)) /\ podWatch' = Tail(podWatch)
    BY <1>2 DEF DeliverPod
  <2> QED
    BY <1>0, <2>1, DeliverCoherent DEF PodsInStep
<1>3. CASE Crash
  BY <1>3, ListCoherent DEF Crash, PodsInStep
<1>4. ASSUME NEW p \in Pods, NEW v \in PodVal, PodWrite(p, v) PROVE PodsInStep'
  <2>1. CASE v = pod[p]
    <3>1. pod' = pod /\ podWatch' = podWatch /\ podCache' = podCache
      BY <1>0, <1>4, <2>1 DEF PodWrite, PutPod, TypeOK, ServerOK
    <3> QED
      BY <3>1 DEF PodsInStep
  <2>2. CASE v # pod[p]
    <3>1. /\ pod' = [pod EXCEPT ![p] = v] /\ podCache' = podCache
          /\ podWatch' = Append(podWatch, Event(p, v))
      BY <1>4, <2>2 DEF PodWrite, PutPod
    <3> QED
      BY <1>0, <3>1, WriteCoherent DEF PodsInStep
  <2> QED
    BY <2>1, <2>2
<1> QED
  BY <1>1, <1>2, <1>3, <1>4, PodMoves

LEMMA OneOwnerNext ==
  ASSUME TypeOK, OneOwner, [Next]_vars
  PROVE  OneOwner'
<1>0. /\ podWatch \in Seq([key : Pods, val : PodVal])
      /\ podCache \in [Pods -> PodVal] /\ pod \in [Pods -> PodVal]
  BY DEF TypeOK, ServerOK, CachesOK, WatchesOK
<1> SUFFICES ASSUME NEW p \in Pods
             PROVE  \E i \in Instances \cup {None} :
                      /\ StillOf(pod'[p], i) /\ StillOf(podCache'[p], i)
                      /\ \A n \in DOMAIN podWatch' : podWatch'[n].key = p => StillOf(podWatch'[n].val, i)
  BY DEF OneOwner, StillOf
<1> PICK i \in Instances \cup {None} :
      /\ StillOf(pod[p], i) /\ StillOf(podCache[p], i)
      /\ \A n \in DOMAIN podWatch : podWatch[n].key = p => StillOf(podWatch[n].val, i)
  BY DEF OneOwner
<1>1. CASE UNCHANGED <<pod, podWatch, podCache>>
  BY <1>1
<1>2. CASE DeliverPod
  <2> DEFINE e == Head(podWatch)
  <2>1. /\ podWatch # <<>> /\ pod' = pod
        /\ podCache' = Apply(podCache, e) /\ podWatch' = Tail(podWatch)
    BY <1>2 DEF DeliverPod
  <2> HIDE DEF e
  <2>2. /\ e.key \in Pods /\ 1 \in DOMAIN podWatch /\ podWatch[1] = e
        /\ \A n \in DOMAIN podWatch' : n + 1 \in DOMAIN podWatch /\ podWatch'[n] = podWatch[n + 1]
    <3>1. Head(podWatch) \in [key : Pods, val : PodVal]
      BY <1>0, <2>1, HeadTypes
    <3>2. /\ 1 \in DOMAIN podWatch /\ podWatch[1] = Head(podWatch)
          /\ \A n \in DOMAIN Tail(podWatch) :
               n + 1 \in DOMAIN podWatch /\ Tail(podWatch)[n] = podWatch[n + 1]
      BY <1>0, <2>1, DeliveredEvents
    <3> QED
      BY <2>1, <3>1, <3>2 DEF e
  <2>3. podCache'[p] = IF p = e.key THEN e.val ELSE podCache[p]
    BY <1>0, <2>1, <2>2 DEF Apply
  <2>4. StillOf(podCache'[p], i)
    BY <2>2, <2>3
  <2>5. \A n \in DOMAIN podWatch' : podWatch'[n].key = p => StillOf(podWatch'[n].val, i)
    BY <2>2
  <2> QED
    BY <2>1, <2>4, <2>5
<1>3. CASE Crash
  <2>1. pod' = pod /\ podCache' = pod /\ podWatch' = <<>>
    BY <1>3 DEF Crash
  <2> QED
    BY <2>1
<1>4. ASSUME NEW q \in Pods, NEW v \in PodVal, PodWrite(q, v)
      PROVE  \E j \in Instances \cup {None} :
               /\ StillOf(pod'[p], j) /\ StillOf(podCache'[p], j)
               /\ \A n \in DOMAIN podWatch' : podWatch'[n].key = p => StillOf(podWatch'[n].val, j)
  <2>1. /\ podCache' = podCache
        /\ pod'[p] = IF p = q THEN v ELSE pod[p]
    BY <1>0, <1>4 DEF PodWrite, PutPod
  <2>2. \A n \in DOMAIN podWatch' :
          \/ podWatch'[n] = Event(q, v)
          \/ n \in DOMAIN podWatch /\ podWatch'[n] = podWatch[n]
    <3>1. CASE podWatch' = podWatch
      BY <3>1
    <3>2. CASE podWatch' = Append(podWatch, Event(q, v))
      BY <1>0, <3>2, SentEvents
    <3> QED
      BY <1>4, <3>1, <3>2 DEF PodWrite, PutPod
  <2>3. CASE p # q \/ StillOf(v, i)
    BY <2>1, <2>2, <2>3 DEF Event
  <2>4. CASE p = q /\ PodNameFree(p) /\ v.inst \in Instances
    <3>1. pod[p] = NoPod /\ podCache[p] = NoPod /\ \A n \in DOMAIN podWatch : podWatch[n].key # p
      BY <2>4 DEF PodNameFree, Quiet
    <3>2. StillOf(pod'[p], v.inst) /\ StillOf(podCache'[p], v.inst)
      BY <2>1, <2>4, <3>1 DEF StillOf
    <3>3. \A n \in DOMAIN podWatch' : podWatch'[n].key = p => StillOf(podWatch'[n].val, v.inst)
      BY <2>2, <3>1 DEF Event, StillOf
    <3> QED
      BY <2>4, <3>2, <3>3
  <2>5. p = q => StillOf(v, i) \/ (PodNameFree(p) /\ v.inst \in Instances)
    BY <1>4 DEF PodWrite, KeepsOwner, StillOf
  <2> QED
    BY <2>3, <2>4, <2>5
<1> QED
  BY <1>1, <1>2, <1>3, <1>4, PodMoves

-----------------------------------------------------------------------------
(* Nothing is forgotten *)

\* The controller is going to look at the instance.
Told(i) == i \in instQueue \/ ~Quiet(instWatch, i) \/ PodNews(i)

Busy(i) == ir.step # "idle" /\ ir.key = i

\* The write that is left to the reconciliation will announce itself, or ends it.
UnderWay ==
  /\ fresh.inst
  /\ ir.step = "pods" => \A p \in ir.pods : pod[p].inst = ir.key /\ ~pod[p].del

MatchesPods(i) ==
  /\ inst[i].state \in {"warm", "active"} => \E p \in PodsOf(i) : pod[p].phase # "Ended"
  /\ inst[i].state = "terminating" => PodsOf(i) # {} /\ \A p \in PodsOf(i) : pod[p].del

Remembered(i) ==
  \/ Told(i)
  \/ Busy(i) /\ UnderWay
  \/ ~Busy(i) /\ MatchesPods(i)

NoneForgotten == \A i \in Instances : Remembered(i)

\* No news of the pods of i: the cache shows them as they are.
LEMMA CacheCurrent ==
  ASSUME PodInv, NEW i \in Instances, ~PodNews(i),
         NEW p \in Pods, pod[p].inst = i \/ podCache[p].inst = i
  PROVE  podCache[p] = pod[p]
<1>1. CASE Quiet(podWatch, p)
  BY <1>1 DEF PodInv, PodsInStep, Coherent
<1>2. CASE ~Quiet(podWatch, p)
  <2>1. ~Mentioned(p, i)
    BY <1>2 DEF PodNews
  <2> PICK n \in DOMAIN podWatch : podWatch[n] = Event(p, pod[p])
    BY <1>2 DEF PodInv, PodsInStep, Coherent
  <2> QED
    BY <2>1 DEF Mentioned, Event
<1> QED
  BY <1>1, <1>2

-----------------------------------------------------------------------------
(* Announcements arrive *)

\* Only its reconciliation takes an instance off the queue.
LEMMA QueueKept ==
  ASSUME [Next]_vars, ~Crash, NEW i \in Instances, ~InstReconcile(i), i \in instQueue
  PROVE  i \in instQueue'
<1>1. CASE Outside \/ Deliver \/ UNCHANGED vars
  BY <1>1 DEF Outside, Rescale, DeletePool, ClaimInstance, ReleaseInstance, GatewayWrites,
              CollectInstance, PodRuns, PodEnds, EvictPod, RemovePod, CollectPod, PodWrites,
              Deliver, DeliverPool, DeliverInstance, DeliverPod
<1>2. CASE PoolReconcile \/ PoolStep
  BY <1>2 DEF PoolReconcile, PoolStep, CreateInstance, CreateInstanceFails, MarkTerminating,
              MarkTerminatingFails, UpdatePoolStatus, UpdatePoolStatusFails, PoolDone
<1>3. ASSUME NEW j \in Instances, InstReconcile(j) PROVE i \in instQueue'
  <2>1. i # j /\ instQueue' = instQueue \ {j}
    BY <1>3 DEF InstReconcile, ReconcileGone, ReconcilePending, ReconcileRunning,
                ReconcileTerminating, Dequeue
  <2> QED
    BY <2>1
<1>4. CASE InstStep
  BY <1>4 DEF InstStep, CreatePod, CreatePodFails, UpdateInstanceStatus, DeletePod, DeleteInstance,
              InstanceCallFails, InstDone
<1> QED
  BY <1>1, <1>2, <1>3, <1>4 DEF Next, Operator

\* A change of an instance is announced, and an announcement reaches the queue.
LEMMA InstanceAnnounced ==
  ASSUME IInv, [Next]_vars, ~Crash, NEW i \in Instances,
         ~Quiet(instWatch, i) \/ inst'[i] # inst[i]
  PROVE  ~Quiet(instWatch', i) \/ i \in instQueue'
<1> USE DEF IInv
<1>0. instWatch \in Seq([key : Instances, val : InstVal]) /\ inst \in [Instances -> InstVal]
  BY DEF TypeOK, ServerOK, WatchesOK
<1>1. CASE UNCHANGED <<inst, instWatch, instCache>>
  BY <1>1
<1>2. CASE DeliverInstance
  <2>1. /\ instWatch # <<>> /\ instWatch' = Tail(instWatch) /\ inst' = inst
        /\ instQueue' = instQueue \cup {Head(instWatch).key}
    BY <1>2 DEF DeliverInstance
  <2>2. Head(instWatch).key = i \/ ~Quiet(Tail(instWatch), i)
    BY <1>0, <2>1, DeliveredOrUnderWay
  <2> QED
    BY <2>1, <2>2
<1>3. ASSUME NEW j \in Instances, NEW v \in InstVal, InstWrite(j, v)
      PROVE  ~Quiet(instWatch', i)
  <2>1. /\ inst' = [inst EXCEPT ![j] = v]
        /\ instWatch' = IF v = inst[j] THEN instWatch ELSE Append(instWatch, Event(j, v))
    BY <1>3 DEF InstWrite, PutInst
  <2>2. CASE v = inst[j]
    BY <1>0, <2>1, <2>2
  <2>3. CASE v # inst[j]
    <3>1. /\ ~Quiet(instWatch', j)
          /\ ~Quiet(instWatch, i) => ~Quiet(instWatch', i)
      BY <1>0, <2>1, <2>3, SentIsUnderWay
    <3> QED
      BY <1>0, <2>1, <3>1
  <2> QED
    BY <2>2, <2>3
<1> QED
  BY <1>1, <1>2, <1>3, InstWrites

\* So is a change of a pod, to the instance it serves or served.
LEMMA PodChangeAnnounced ==
  ASSUME IInv, PodInv, [Next]_vars, NEW i \in Instances,
         NEW p \in Pods, pod'[p] # pod[p], i \in {pod[p].inst, pod'[p].inst}
  PROVE  PodNews(i)'
<1> USE DEF IInv
<1>0. podWatch \in Seq([key : Pods, val : PodVal]) /\ pod \in [Pods -> PodVal]
  BY DEF TypeOK, ServerOK, WatchesOK
<1> PICK q \in Pods, v \in PodVal : PodWrite(q, v)
  BY PodMoves DEF DeliverPod, Crash
<1>1. /\ p = q /\ pod'[p] = v /\ v # pod[p] /\ podCache' = podCache
      /\ podWatch' = Append(podWatch, Event(p, v))
  BY <1>0 DEF PodWrite, PutPod
<1>2. /\ \A n \in DOMAIN podWatch : n \in DOMAIN podWatch' /\ podWatch'[n] = podWatch[n]
      /\ \E n \in DOMAIN podWatch' : podWatch'[n] = Event(p, v)
  BY <1>0, <1>1, SentEvents
<1>3. ~Quiet(podWatch', p)
  BY <1>2 DEF Quiet, Event
<1>4. Mentioned(p, i)'
  <2>1. CASE v.inst = i
    BY <1>2, <2>1 DEF Mentioned, Event
  <2>2. CASE pod[p].inst = i
    <3>1. CASE Quiet(podWatch, p)
      <4>1. podCache[p] = pod[p]
        BY <3>1 DEF PodInv, PodsInStep, Coherent
      <4> QED
        BY <1>1, <2>2, <4>1 DEF Mentioned
    <3>2. CASE ~Quiet(podWatch, p)
      <4> PICK n \in DOMAIN podWatch : podWatch[n] = Event(p, pod[p])
        BY <3>2 DEF PodInv, PodsInStep, Coherent
      <4> QED
        BY <1>2, <2>2 DEF Mentioned, Event
    <3> QED
      BY <3>1, <3>2
  <2> QED
    BY <1>1, <2>1, <2>2
<1> QED
  BY <1>3, <1>4 DEF PodNews

\* And the instance is queued when the news is delivered, of whichever pod it was.
LEMMA PodNewsKept ==
  ASSUME TypeOK, PodInv, [Next]_vars, ~Crash, NEW i \in Instances, PodNews(i)
  PROVE  PodNews(i)' \/ i \in instQueue'
<1>0. /\ podWatch \in Seq([key : Pods, val : PodVal])
      /\ podCache \in [Pods -> PodVal]
  BY DEF TypeOK, CachesOK, WatchesOK
<1> PICK p \in Pods : ~Quiet(podWatch, p) /\ Mentioned(p, i)
  BY DEF PodNews
<1>1. CASE UNCHANGED <<pod, podWatch, podCache>>
  BY <1>1 DEF PodNews, Mentioned
<1>2. CASE DeliverPod
  <2> DEFINE e == Head(podWatch)
             owner == IF e.val = NoPod THEN podCache[e.key].inst ELSE e.val.inst
  <2>1. /\ podWatch # <<>> /\ podWatch' = Tail(podWatch) /\ podCache' = Apply(podCache, e)
        /\ instQueue' = instQueue \cup ({owner} \ {None})
    BY <1>2 DEF DeliverPod
  <2>2. i # None
    BY ConstantsAssumption
  <2>3. e.key = p \/ ~Quiet(podWatch', p)
    BY <1>0, <2>1, DeliveredOrUnderWay
  <2>4. /\ 1 \in DOMAIN podWatch /\ podWatch[1] = e
        /\ \A n \in DOMAIN podWatch : podWatch[n] # e =>
              n - 1 \in DOMAIN podWatch' /\ podWatch'[n - 1] = podWatch[n]
    BY <1>0, <2>1, DeliveredEvents
  <2> HIDE DEF e
  <2>5. CASE e.key # p
    <3>1. podCache'[p] = podCache[p]
      BY <1>0, <2>1, <2>5 DEF Apply
    <3>2. Mentioned(p, i)'
      BY <2>4, <2>5, <3>1 DEF Mentioned
    <3> QED
      BY <2>3, <2>5, <3>2 DEF PodNews
  <2>6. CASE e.key = p /\ (e.val.inst = i \/ (e.val = NoPod /\ podCache[p].inst = i))
    <3>1. owner = i
      BY <2>2, <2>6 DEF NoPod
    <3> QED
      BY <2>1, <2>2, <3>1
  <2>7. CASE e.key = p /\ e.val.inst # i /\ (e.val # NoPod \/ podCache[p].inst # i)
    <3> PICK j \in Instances \cup {None} :
          /\ StillOf(podCache[p], j)
          /\ \A n \in DOMAIN podWatch : podWatch[n].key = p => StillOf(podWatch[n].val, j)
      BY DEF PodInv, OneOwner
    <3>1. j = i
      BY <2>2 DEF Mentioned, StillOf, NoPod
    <3>2. e.val = NoPod
      BY <2>4, <2>7, <3>1 DEF StillOf
    <3> PICK n \in DOMAIN podWatch : podWatch[n].key = p /\ podWatch[n].val.inst = i
      BY <2>7, <3>2 DEF Mentioned
    <3>3. n - 1 \in DOMAIN podWatch' /\ podWatch'[n - 1] = podWatch[n]
      BY <2>4, <2>7
    <3> QED
      BY <3>3 DEF PodNews, Mentioned, Quiet
  <2> QED
    BY <2>5, <2>6, <2>7
<1>3. ASSUME NEW q \in Pods, NEW v \in PodVal, PodWrite(q, v) PROVE PodNews(i)'
  <2>1. \A n \in DOMAIN podWatch : n \in DOMAIN podWatch' /\ podWatch'[n] = podWatch[n]
    <3>1. CASE podWatch' = podWatch
      BY <3>1
    <3>2. CASE podWatch' = Append(podWatch, Event(q, v))
      BY <1>0, <3>2, SentEvents
    <3> QED
      BY <1>3, <3>1, <3>2 DEF PodWrite, PutPod
  <2> QED
    BY <1>3, <2>1 DEF PodWrite, PodNews, Mentioned, Quiet
<1> QED
  BY <1>1, <1>2, <1>3, PodMoves

\* Told stays told, and whoever changed is.
LEMMA ToldNext ==
  ASSUME IInv, PodInv, [Next]_vars, ~Crash, NEW i \in Instances
  PROVE  /\ Told(i) /\ ~InstReconcile(i) => Told(i)'
         /\ inst'[i] # inst[i] => Told(i)'
         /\ \A p \in Pods : pod'[p] # pod[p] /\ i \in {pod[p].inst, pod'[p].inst} => Told(i)'
BY QueueKept, InstanceAnnounced, PodChangeAnnounced, PodNewsKept DEF Told, IInv

\* An instance that is not told of anything has the pods it had.
LEMMA MatchKept ==
  ASSUME IInv, PodInv, [Next]_vars, ~Crash, NEW i \in Instances, MatchesPods(i)
  PROVE  MatchesPods(i)' \/ Told(i)'
<1> SUFFICES ASSUME ~Told(i)' PROVE MatchesPods(i)'
  OBVIOUS
<1>1. inst'[i] = inst[i] /\ \A p \in Pods : pod'[p] = pod[p] \/ i \notin {pod[p].inst, pod'[p].inst}
  BY ToldNext
<1>2. /\ PodsOf(i)' = PodsOf(i)
      /\ \A p \in PodsOf(i) : pod'[p] = pod[p]
  BY <1>1 DEF PodsOf
<1> QED
  BY <1>1, <1>2 DEF MatchesPods

-----------------------------------------------------------------------------
(* The steps *)

\* Everybody but the instance controller leaves its reconciliation alone, and its copy
\* current unless the instance is written.
LEMMA CopySpared ==
  ASSUME IInv, Outside \/ Deliver \/ PoolReconcile \/ PoolStep \/ UNCHANGED vars
  PROVE  /\ ir' = ir
         /\ fresh.inst => fresh'.inst \/ inst'[ir.key] # inst[ir.key]
<1> USE DEF IInv, TypeOK, ServerOK, ControllersOK, Fresh
<1>1. ASSUME NEW i \in Instances, NEW v \in InstVal, PutInst(i, v), v # inst[i],
             fresh' = Outdated(i)
      PROVE  fresh.inst => fresh'.inst \/ inst'[ir.key] # inst[ir.key]
  BY <1>1 DEF PutInst, Outdated
<1>2. CASE Outside
  <2>1. ir' = ir
    BY <1>2 DEF Outside, Rescale, DeletePool, ClaimInstance, ReleaseInstance, GatewayWrites,
                CollectInstance, PodRuns, PodEnds, EvictPod, RemovePod, CollectPod, PodWrites
  <2>2. CASE Rescale \/ DeletePool
    BY <2>1, <2>2 DEF Rescale, DeletePool
  <2>3. ASSUME NEW i \in Instances, NEW from \in LiveStates, NEW to \in LiveStates, from # to,
               GatewayWrites(i, from, to)
        PROVE  fresh.inst => fresh'.inst \/ inst'[ir.key] # inst[ir.key]
    <3> DEFINE v == [inst[i] EXCEPT !.state = to]
    <3>1. v \in InstVal /\ v # inst[i]
      BY <2>3 DEF GatewayWrites, InstVal
    <3>2. PutInst(i, v) /\ fresh' = Outdated(i)
      BY <2>3 DEF GatewayWrites
    <3> HIDE DEF v
    <3> QED
      BY <1>1, <3>1, <3>2
  <2>4. ASSUME NEW i \in Instances, CollectInstance(i)
        PROVE  fresh.inst => fresh'.inst \/ inst'[ir.key] # inst[ir.key]
    BY <1>1, <2>4, ValueTypes DEF CollectInstance, NoInst
  <2>5. ASSUME NEW p \in Pods,
               PodRuns(p) \/ PodEnds(p) \/ EvictPod(p) \/ RemovePod(p) \/ CollectPod(p)
        PROVE  fresh' = fresh
    BY <2>5 DEF PodRuns, PodEnds, EvictPod, RemovePod, CollectPod, PodWrites
  <2> QED
    BY <1>2, <2>1, <2>2, <2>3, <2>4, <2>5 DEF Outside, ClaimInstance, ReleaseInstance, LiveStates
<1>3. CASE PoolReconcile \/ PoolStep
  <2>1. ir' = ir
    BY <1>3 DEF PoolReconcile, PoolStep, CreateInstance, CreateInstanceFails, MarkTerminating,
                MarkTerminatingFails, UpdatePoolStatus, UpdatePoolStatusFails
  <2>2. ASSUME NEW i \in Instances, MarkTerminating(i), i \in fresh.list
        PROVE  fresh.inst => fresh'.inst \/ inst'[ir.key] # inst[ir.key]
    <3> DEFINE v == [inst[i] EXCEPT !.state = "terminating"]
    <3>1. inst[i].state = "warm"
      BY <2>2 DEF MarkTerminating, VictimsIdle
    <3>2. v \in InstVal /\ v # inst[i]
      BY <3>1 DEF InstVal, LiveStates
    <3>3. PutInst(i, v) /\ fresh' = Outdated(i)
      BY <2>2 DEF MarkTerminating
    <3> HIDE DEF v
    <3> QED
      BY <1>1, <3>2, <3>3
  <2>3. CASE \/ PoolReconcile \/ CreateInstance \/ CreateInstanceFails
             \/ UpdatePoolStatus \/ UpdatePoolStatusFails
             \/ \E i \in Instances : MarkTerminatingFails(i) \/ (MarkTerminating(i) /\ i \notin fresh.list)
    BY <2>3 DEF PoolReconcile, CreateInstance, CreateInstanceFails, UpdatePoolStatus,
                UpdatePoolStatusFails, MarkTerminatingFails, MarkTerminating
  <2> QED
    BY <1>3, <2>1, <2>2, <2>3 DEF PoolStep
<1>4. CASE Deliver \/ UNCHANGED vars
  BY <1>4 DEF Deliver, DeliverPool, DeliverInstance, DeliverPod
<1> QED
  BY <1>2, <1>3, <1>4

\* A reconciliation nobody interferes with goes on as it was, or its instance is told.
LEMMA SparedRemembered ==
  ASSUME IInv, PodInv, Outside \/ Deliver \/ PoolReconcile \/ PoolStep \/ UNCHANGED vars,
         [Next]_vars, ~Crash, NEW i \in Instances, Remembered(i), ~InstReconcile(i)
  PROVE  Remembered(i)'
<1> SUFFICES ASSUME ~Told(i)' PROVE Remembered(i)'
  BY DEF Remembered
<1>1. ~Told(i)
  BY ToldNext
<1>2. ir' = ir /\ (fresh.inst => fresh'.inst \/ inst'[ir.key] # inst[ir.key])
  BY CopySpared
<1>3. CASE Busy(i) /\ UnderWay
  <2>1. fresh'.inst
    BY <1>2, <1>3, ToldNext DEF Busy, UnderWay
  <2>2. ir.step = "pods" => ir.pods \subseteq Pods
    BY DEF IInv, TypeOK, ControllersOK, InstRun
  <2>3. ASSUME ir.step = "pods", NEW p \in ir.pods PROVE pod'[p] = pod[p]
    BY <1>3, <2>2, <2>3, ToldNext DEF Busy, UnderWay
  <2>4. UnderWay'
    BY <1>2, <1>3, <2>1, <2>3 DEF UnderWay
  <2> QED
    BY <1>2, <1>3, <2>4 DEF Remembered, Busy
<1>4. CASE ~Busy(i) /\ MatchesPods(i)
  BY <1>2, <1>4, MatchKept DEF Remembered, Busy
<1> QED
  BY <1>1, <1>3, <1>4 DEF Remembered

\* A reconciliation begins: its instance may have lost its place in the queue.
LEMMA DispatchRemembered ==
  ASSUME IInv, PodInv, NEW k \in Instances, InstReconcile(k), ~Told(k)'
  PROVE  Remembered(k)'
<1> USE DEF IInv, TypeOK, CachesOK, ControllersOK, Fresh
<1>1. UNCHANGED <<server, caches, watches>> /\ ir.step = "idle"
  BY DEF InstReconcile, ReconcileGone, ReconcilePending, ReconcileRunning,
         ReconcileTerminating, Dequeue
<1>2. Quiet(instWatch, k) /\ ~PodNews(k)
  BY <1>1 DEF Told, PodNews, Mentioned
<1>3. inst[k] = instCache[k]
  BY <1>2 DEF InStep, Coherent
<1>4. \A p \in Seen(k) : podCache[p] = pod[p]
  BY <1>2, CacheCurrent DEF Seen
<1>5. Seen(k) = PodsOf(k)
  BY <1>2, CacheCurrent DEF Seen, PodsOf
<1>6. MatchesPods(k)' <=> MatchesPods(k)
  BY <1>1 DEF MatchesPods, PodsOf
<1>7. ASSUME NEW run, InstStart(k, run), run.key = k, run.step # "idle",
             run.step = "pods" => \A p \in run.pods : pod[p].inst = k /\ ~pod[p].del
      PROVE  Remembered(k)'
  <2>1. ir' = run /\ fresh'.inst
    BY <1>2, <1>7 DEF InstStart
  <2> QED
    BY <1>1, <1>7, <2>1 DEF Remembered, Busy, UnderWay
<1>8. ASSUME ir' = ir, MatchesPods(k) PROVE Remembered(k)'
  BY <1>1, <1>6, <1>8 DEF Remembered, Busy
<1>9. CASE ReconcileGone(k)
  BY <1>3, <1>8, <1>9 DEF ReconcileGone, Dequeue, MatchesPods
<1>10. CASE ReconcilePending(k)
  <2>1. PICK run : InstStart(k, run) /\ run.key = k /\ run.step \in {"create", "status"}
    <3>1. Run(k, "create").key = k /\ Run(k, "create").step = "create"
      BY DEF Run, InstIdle
    <3>2. \A v : LET run == [Run(k, "status") EXCEPT !.want = v]
                IN  run.key = k /\ run.step = "status"
      BY DEF Run, InstIdle
    <3> QED
      BY <1>10, <3>1, <3>2 DEF ReconcilePending
  <2> QED
    BY <1>7, <2>1
<1>11. CASE ReconcileRunning(k)
  <2> DEFINE run == [Run(k, "status") EXCEPT !.want = [instCache[k] EXCEPT !.state = "terminating"]]
  <2>1. run.key = k /\ run.step = "status"
    BY DEF Run, InstIdle
  <2>2. \/ InstStart(k, run)
        \/ ir' = ir /\ \E p \in Seen(k) : podCache[p].phase # "Ended"
    BY <1>11 DEF ReconcileRunning
  <2> HIDE DEF run
  <2>3. CASE InstStart(k, run)
    BY <1>7, <2>1, <2>3
  <2>4. CASE ir' = ir /\ \E p \in Seen(k) : podCache[p].phase # "Ended"
    <3>1. inst[k].state \in {"warm", "active"}
      BY <1>3, <1>11 DEF ReconcileRunning, Dequeue
    <3> QED
      BY <1>4, <1>5, <1>8, <2>4, <3>1 DEF MatchesPods
  <2> QED
    BY <2>2, <2>3, <2>4
<1>12. CASE ReconcileTerminating(k)
  <2> DEFINE doomed == {p \in Seen(k) : ~podCache[p].del}
             run == [Run(k, "pods") EXCEPT !.pods = doomed]
  <2>1. \/ InstStart(k, Run(k, "delete"))
        \/ InstStart(k, run)
        \/ ir' = ir /\ Seen(k) # {} /\ doomed = {}
    BY <1>12 DEF ReconcileTerminating
  <2>2. CASE InstStart(k, Run(k, "delete"))
    BY <1>7, <2>2 DEF Run, InstIdle
  <2>3. CASE InstStart(k, run)
    <3>1. run.key = k /\ run.step = "pods" /\ run.pods = doomed
      BY DEF Run, InstIdle
    <3>2. \A p \in doomed : pod[p].inst = k /\ ~pod[p].del
      BY <1>4 DEF Seen
    <3> HIDE DEF run
    <3> QED
      BY <1>7, <2>3, <3>1, <3>2
  <2>4. CASE ir' = ir /\ Seen(k) # {} /\ doomed = {}
    <3>1. inst[k].state = "terminating"
      BY <1>3, <1>12 DEF ReconcileTerminating, Dequeue
    <3>2. \A p \in PodsOf(k) : pod[p].del
      BY <1>4, <1>5, <2>4
    <3> QED
      BY <1>5, <1>8, <2>4, <3>1, <3>2 DEF MatchesPods
  <2> QED
    BY <2>1, <2>2, <2>3, <2>4
<1> QED
  BY <1>9, <1>10, <1>11, <1>12 DEF InstReconcile

\* Whatever a reconciliation does last is announced, tried again or not needed.
LEMMA StepRemembered ==
  ASSUME IInv, PodInv, InstStep, [Next]_vars, ~Crash, UnderWay,
         NEW k \in Instances, k = ir.key, ~Told(k)'
  PROVE  Remembered(k)'
<1> USE DEF IInv, TypeOK, ServerOK, ControllersOK
<1>1. k \notin instQueue'
  BY DEF Told
<1>2. /\ inst'[k] = inst[k]
      /\ \A p \in Pods : pod'[p] = pod[p] \/ k \notin {pod[p].inst, pod'[p].inst}
  BY ToldNext
<1>3. ~InstDone(TRUE)
  BY <1>1 DEF InstDone
<1>4. ASSUME InstDone(FALSE), inst[k].state \notin {"warm", "active", "terminating"}
      PROVE  Remembered(k)'
  BY <1>2, <1>4 DEF Remembered, Busy, InstDone, InstIdle, MatchesPods
<1>5. ~CreatePod
  <2> SUFFICES ASSUME CreatePod PROVE FALSE
    OBVIOUS
  <2> PICK p \in Pods : PodNameFree(p) /\ PutPod(p, NewPod(k))
    BY DEF CreatePod
  <2>1. pod'[p] = NewPod(k) /\ pod[p] = NoPod /\ NewPod(k).inst = k
    BY DEF PodNameFree, PutPod, NewPod
  <2> QED
    BY <1>2, <2>1 DEF NoPod, NewPod
<1>6. CASE UpdateInstanceStatus
  <2>1. ir.step = "status" /\ PutInst(k, ir.want) /\ InstDone(FALSE)
    BY <1>6 DEF UpdateInstanceStatus, UnderWay
  <2>2. inst[k] = ir.want
    BY <1>2, <2>1 DEF PutInst
  <2>3. LegalUpdate(inst[k].state, inst[k].state)
    BY <2>1, <2>2 DEF CurrentCopy, UnderWay
  <2> QED
    BY <1>4, <2>1, <2>3 DEF LegalUpdate
<1>7. ASSUME NEW p \in Pods, DeletePod(p) PROVE FALSE
  <2>1. ir.step = "pods" /\ p \in ir.pods
    BY <1>7 DEF DeletePod
  <2>2. pod[p].inst = k /\ ~pod[p].del
    BY <2>1 DEF UnderWay
  <2>3. pod[p] # NoPod
    BY <2>2, ConstantsAssumption DEF NoPod
  <2>4. PutPod(p, [pod[p] EXCEPT !.del = TRUE])
    BY <1>7, <2>2, <2>3 DEF DeletePod
  <2>5. pod'[p].del
    BY <2>4 DEF PutPod, PodVal
  <2> QED
    BY <1>2, <2>2, <2>5
<1>8. CASE DeleteInstance
  <2>1. PutInst(k, NoInst) /\ InstDone(FALSE)
    BY <1>8 DEF DeleteInstance
  <2>2. inst[k] = NoInst
    BY <1>2, <2>1 DEF PutInst
  <2> QED
    BY <1>4, <2>1, <2>2 DEF NoInst
<1> QED
  BY <1>3, <1>5, <1>6, <1>7, <1>8 DEF InstStep, CreatePodFails, InstanceCallFails

LEMMA RememberedNext ==
  ASSUME IInv, PodInv, NoneForgotten, [Next]_vars
  PROVE  NoneForgotten'
<1> USE DEF IInv
<1> SUFFICES ASSUME NEW i \in Instances, ~Told(i)' PROVE Remembered(i)'
  BY DEF NoneForgotten, Remembered
<1>0. Remembered(i)
  BY DEF NoneForgotten
<1>1. CASE Crash
  <2>1. ir' = InstIdle /\ inst' = inst /\ (inst[i].state # "absent" => i \in instQueue')
    BY <1>1 DEF Crash, InState
  <2> QED
    BY <2>1 DEF Told, Remembered, Busy, InstIdle, MatchesPods
<1>2. CASE ~Crash /\ (Outside \/ Deliver \/ PoolReconcile \/ PoolStep \/ UNCHANGED vars)
  <2>1. CASE InstReconcile(i)
    BY <2>1, DispatchRemembered
  <2>2. CASE ~InstReconcile(i)
    BY <1>0, <1>2, <2>2, SparedRemembered
  <2> QED
    BY <2>1, <2>2
<1>3. ASSUME ~Crash, ~InstReconcile(i), ~Busy(i), ~Busy(i)' PROVE Remembered(i)'
  <2>1. ~Told(i)
    BY <1>3, ToldNext
  <2>2. MatchesPods(i)
    BY <1>0, <1>3, <2>1 DEF Remembered
  <2> QED
    BY <1>3, <2>2, MatchKept DEF Remembered
<1>4. ASSUME ~Crash, NEW k \in Instances, InstReconcile(k) PROVE Remembered(i)'
  <2>1. CASE k = i
    BY <1>4, <2>1, DispatchRemembered
  <2>2. CASE k # i
    <3>1. ir.step = "idle" /\ (ir' = ir \/ ir'.key = k)
      BY <1>4 DEF InstReconcile, ReconcileGone, ReconcilePending, ReconcileRunning,
                  ReconcileTerminating, Dequeue, InstStart, Run, InstIdle
    <3>2. ~InstReconcile(i)
      <4> SUFFICES ASSUME InstReconcile(i) PROVE FALSE
        OBVIOUS
      <4>1. instQueue' = instQueue \ {i} /\ instQueue' = instQueue \ {k} /\ i \in instQueue
        BY <1>4 DEF InstReconcile, ReconcileGone, ReconcilePending, ReconcileRunning,
                    ReconcileTerminating, Dequeue
      <4> QED
        BY <2>2, <4>1
    <3> QED
      BY <1>3, <1>4, <2>2, <3>1, <3>2 DEF Busy
  <2> QED
    BY <2>1, <2>2
<1>5. CASE ~Crash /\ InstStep
  <2>1. ir.step # "idle" /\ ir.key \in Instances
    BY <1>5 DEF InstStep, CreatePod, CreatePodFails, UpdateInstanceStatus, DeletePod, DeleteInstance,
                InstanceCallFails, TypeOK, ControllersOK
  <2>2. ~InstReconcile(i)
    BY <2>1 DEF InstReconcile, ReconcileGone, ReconcilePending, ReconcileRunning,
                ReconcileTerminating, Dequeue
  <2>3. ir' = InstIdle \/ ir'.key = ir.key
    BY <1>5 DEF InstStep, CreatePod, CreatePodFails, UpdateInstanceStatus, DeletePod, DeleteInstance,
                InstanceCallFails, InstDone, TypeOK, ControllersOK, InstRun
  <2>4. CASE i # ir.key
    BY <1>3, <1>5, <2>2, <2>3, <2>4 DEF Busy, InstIdle
  <2>5. CASE i = ir.key
    <3>1. ~Told(i)
      BY <1>5, <2>2, ToldNext
    <3>2. UnderWay
      BY <1>0, <2>1, <2>5, <3>1 DEF Remembered, Busy
    <3> QED
      BY <1>5, <2>5, <3>2, StepRemembered
  <2> QED
    BY <2>4, <2>5
<1> QED
  BY <1>1, <1>2, <1>4, <1>5 DEF Next, Operator

LEMMA RememberedInit == Init => NoneForgotten
BY DEF Init, ClusterInit, NoneForgotten, Remembered, Busy, MatchesPods, NoInst, InstIdle

LEMMA InstancesAreRemembered == Spec => [](PodInv /\ NoneForgotten)
<1>1. IInv /\ PodInv /\ NoneForgotten /\ [Next]_vars => PodInv' /\ NoneForgotten'
  BY PodsInStepNext, OneOwnerNext, RememberedNext DEF PodInv, IInv
<1> QED
  BY <1>1, Inductive, PodInvInit, RememberedInit, PTL DEF Spec

LEMMA SettledMatchesPods ==
  ASSUME NoneForgotten, Settled
  PROVE  \A i \in Instances : MatchesPods(i)
<1> SUFFICES ASSUME NEW i \in Instances PROVE MatchesPods(i)
  OBVIOUS
<1>1. podWatch = <<>> /\ instWatch = <<>> /\ instQueue = {} /\ ir = InstIdle
  BY DEF Settled
<1>2. ~Told(i) /\ ~Busy(i)
  BY <1>1 DEF Told, PodNews, Quiet, Busy, InstIdle
<1> QED
  BY <1>2 DEF NoneForgotten, Remembered

\* In a settled state every instance that is offered or in use has a pod that has not
\* ended, and every instance being retired only waits for pods that are being removed
\* (SettledInstancesMatchPods): no lost conflict, failed call, lagging cache or restart
\* leaves one behind.
THEOREM InstancesMatchPods == Spec => []SettledInstancesMatchPods
<1>1. NoneForgotten => SettledInstancesMatchPods
  BY SettledMatchesPods DEF SettledInstancesMatchPods, MatchesPods
<1> QED
  BY <1>1, InstancesAreRemembered, PTL

-----------------------------------------------------------------------------
(* A pod that was seen running stays in sight                                *)

\* The removal of a pod is the last that is heard of it: while the event is under way
\* its name is not used again.
RemovalIsLast ==
  \A n \in DOMAIN podWatch : podWatch[n].val = NoPod => LastEvent(podWatch, n)

\* Pod p of instance i is in the cache, or it is gone and no event will bring it back.
InSight(p, i) ==
  \/ podCache[p].inst = i
  \/ /\ pod[p].inst # i
     /\ \A n \in DOMAIN podWatch : podWatch[n].key = p => podWatch[n].val.inst # i

\* Somewhere i is offered or in use, on pod p: as stored, as cached, in an event or in
\* the status about to be written.
Offers(v, p) == v.state \in {"warm", "active"} /\ v.pod = p

Serves(i, p) ==
  \/ Offers(inst[i], p)
  \/ Offers(instCache[i], p)
  \/ \E n \in DOMAIN instWatch : instWatch[n].key = i /\ Offers(instWatch[n].val, p)
  \/ ir.step = "status" /\ ir.key = i /\ Offers(ir.want, p)

ServingInSight ==
  \A i \in Instances, p \in Pods \cup {None} : Serves(i, p) => p \in Pods /\ InSight(p, i)

LEMMA RemovalIsLastNext ==
  ASSUME TypeOK, PodInv, RemovalIsLast, [Next]_vars
  PROVE  RemovalIsLast'
<1>0. podWatch \in Seq([key : Pods, val : PodVal]) /\ pod \in [Pods -> PodVal]
  BY DEF TypeOK, ServerOK, WatchesOK
<1>1. CASE UNCHANGED <<pod, podWatch, podCache>>
  BY <1>1 DEF RemovalIsLast, LastEvent
<1>2. CASE DeliverPod
  <2>1. podWatch # <<>> /\ podWatch' = Tail(podWatch)
    BY <1>2 DEF DeliverPod
  <2>2. \A n \in DOMAIN podWatch' : n \in Nat /\ n + 1 \in DOMAIN podWatch /\ podWatch'[n] = podWatch[n + 1]
    BY <1>0, <2>1, DeliveredEvents
  <2> QED
    BY <2>2 DEF RemovalIsLast, LastEvent
<1>3. CASE Crash
  BY <1>3 DEF Crash, RemovalIsLast
<1>4. ASSUME NEW p \in Pods, NEW v \in PodVal, PodWrite(p, v) PROVE RemovalIsLast'
  <2>1. CASE podWatch' = podWatch
    BY <2>1 DEF RemovalIsLast, LastEvent
  <2>2. CASE v # pod[p] /\ podWatch' = Append(podWatch, Event(p, v))
    <3> DEFINE L == Len(podWatch)
               e == Event(p, v)
    <3>1. e \in [key : Pods, val : PodVal] /\ e.key = p /\ e.val = v
      BY DEF Event
    <3> HIDE DEF e
    <3>2. /\ L \in Nat /\ DOMAIN podWatch = 1..L /\ DOMAIN podWatch' = 1..(L + 1)
          /\ \A n \in 1..L : podWatch'[n] = podWatch[n]
          /\ podWatch'[L + 1] = e
      BY <1>0, <2>2, <3>1, AppendProperties DEF e
    <3> HIDE DEF L
    <3>3. ASSUME NEW n \in 1..L, podWatch[n].val = NoPod PROVE podWatch[n].key # p
      <4> SUFFICES ASSUME podWatch[n].key = p PROVE FALSE
        OBVIOUS
      <4>1. ~Quiet(podWatch, p)
        BY <3>2 DEF Quiet
      <4> PICK m \in 1..L : LastEvent(podWatch, m) /\ podWatch[m] = Event(p, pod[p])
        BY <3>2, <4>1 DEF PodInv, PodsInStep, Coherent
      <4>2. LastEvent(podWatch, n)
        BY <3>2, <3>3 DEF RemovalIsLast
      <4>3. m = n
        BY <3>2, <4>2 DEF LastEvent, Event
      <4>4. pod[p] = NoPod
        BY <3>3, <4>3 DEF Event
      <4> QED
        BY <1>4, <2>2, <4>1, <4>4 DEF PodWrite, KeepsOwner, PodNameFree
    <3> QED
      BY <3>1, <3>2, <3>3 DEF RemovalIsLast, LastEvent
  <2> QED
    BY <1>4, <2>1, <2>2 DEF PodWrite, PutPod
<1> QED
  BY <1>1, <1>2, <1>3, <1>4, PodMoves

\* A pod in sight stays in sight as long as an instance is said to run on it.
LEMMA InSightNext ==
  ASSUME TypeOK, PodInv, RemovalIsLast, [Next]_vars,
         NEW i \in Instances, NEW p \in Pods, InSight(p, i), Serves(i, p)
  PROVE  InSight(p, i)'
<1>0. /\ podWatch \in Seq([key : Pods, val : PodVal])
      /\ pod \in [Pods -> PodVal] /\ podCache \in [Pods -> PodVal]
  BY DEF TypeOK, ServerOK, CachesOK, WatchesOK
<1>1. CASE UNCHANGED <<pod, podWatch, podCache>>
  BY <1>1 DEF InSight
<1>2. CASE DeliverPod
  <2> DEFINE e == Head(podWatch)
  <2>1. /\ podWatch # <<>> /\ podWatch' = Tail(podWatch) /\ podCache' = Apply(podCache, e)
        /\ pod' = pod
    BY <1>2 DEF DeliverPod
  <2>2. /\ 1 \in DOMAIN podWatch /\ podWatch[1] = e
        /\ \A n \in DOMAIN podWatch' :
             n + 1 \in DOMAIN podWatch /\ n \in Nat \ {0} /\ podWatch'[n] = podWatch[n + 1]
    BY <1>0, <2>1, DeliveredEvents
  <2>3. podCache'[p] = IF p = e.key THEN e.val ELSE podCache[p]
    BY <1>0, <2>1, HeadTypes DEF Apply
  <2> HIDE DEF e
  <2>4. CASE podCache[p].inst # i
    BY <2>1, <2>2, <2>4 DEF InSight
  <2>5. CASE podCache[p].inst = i /\ podCache'[p].inst # i
    <3>1. e.key = p /\ e.val.inst # i
      BY <2>3, <2>5
    <3>2. e.val = NoPod
      <4> PICK j \in Instances \cup {None} :
            /\ StillOf(podCache[p], j)
            /\ \A n \in DOMAIN podWatch : podWatch[n].key = p => StillOf(podWatch[n].val, j)
        BY DEF PodInv, OneOwner
      <4>1. i # None
        BY ConstantsAssumption
      <4>2. j = i
        BY <2>5, <4>1 DEF StillOf, NoPod
      <4>3. StillOf(e.val, j)
        BY <2>2, <3>1
      <4> QED
        BY <3>1, <4>2, <4>3 DEF StillOf
    <3>3. LastEvent(podWatch, 1)
      BY <2>2, <3>2 DEF RemovalIsLast
    <3>4. Quiet(podWatch', p)
      BY <2>2, <3>1, <3>3 DEF LastEvent, Quiet
    <3>5. pod[p] = NoPod
      <4>1. ~Quiet(podWatch, p)
        BY <2>2, <3>1 DEF Quiet
      <4> PICK m \in DOMAIN podWatch : LastEvent(podWatch, m) /\ podWatch[m] = Event(p, pod[p])
        BY <4>1 DEF PodInv, PodsInStep, Coherent
      <4>2. m \in Nat \ {0}
        BY <1>0
      <4>3. ~(m > 1)
        BY <2>2, <3>1, <3>3 DEF LastEvent, Event
      <4>4. m = 1
        BY <4>2, <4>3
      <4> QED
        BY <2>2, <3>2, <4>4 DEF Event
    <3>6. i # None
      BY ConstantsAssumption
    <3> QED
      BY <2>1, <3>4, <3>5, <3>6 DEF InSight, Quiet, NoPod
  <2> QED
    BY <2>4, <2>5 DEF InSight
<1>3. CASE Crash
  BY <1>3 DEF Crash, InSight
<1>4. ASSUME NEW q \in Pods, NEW v \in PodVal, PodWrite(q, v) PROVE InSight(p, i)'
  <2>1. /\ podCache' = podCache
        /\ pod'[p] = IF p = q THEN v ELSE pod[p]
    BY <1>0, <1>4 DEF PodWrite, PutPod
  <2>2. \A n \in DOMAIN podWatch' :
          \/ podWatch'[n] = Event(q, v)
          \/ n \in DOMAIN podWatch /\ podWatch'[n] = podWatch[n]
    <3>1. CASE podWatch' = podWatch
      BY <3>1
    <3>2. CASE podWatch' = Append(podWatch, Event(q, v))
      BY <1>0, <3>2, SentEvents
    <3> QED
      BY <1>4, <3>1, <3>2 DEF PodWrite, PutPod
  <2>3. p = q /\ podCache[p].inst # i => v.inst # i
    <3> SUFFICES ASSUME p = q, podCache[p].inst # i PROVE v.inst # i
      OBVIOUS
    <3>1. ~PodNameFree(p)
      BY DEF PodNameFree, Serves, Offers
    <3>2. i # None
      BY ConstantsAssumption
    <3> QED
      BY <1>4, <3>1, <3>2 DEF PodWrite, KeepsOwner, InSight, NoPod
  <2> QED
    BY <2>1, <2>2, <2>3 DEF InSight, Event
<1> QED
  BY <1>1, <1>2, <1>3, <1>4, PodMoves

\* An instance is said to run on a pod because it was, or because the pod was listed.
LEMMA ServesNext ==
  ASSUME TypeOK, [Next]_vars, NEW i \in Instances, NEW p, Serves(i, p)', ~Serves(i, p)
  PROVE  p \in Pods /\ podCache[p].inst = i /\ podCache' = podCache
<1>0. /\ instWatch \in Seq([key : Instances, val : InstVal])
      /\ inst \in [Instances -> InstVal] /\ instCache \in [Instances -> InstVal]
  BY DEF TypeOK, ServerOK, CachesOK, WatchesOK
\* A write of an instance that is offered, or in use, on the pod it was on before.
<1>1. ASSUME NEW j \in Instances, NEW v \in InstVal, PutInst(j, v),
             instCache' = instCache,
             j = i => ~Offers(v, p),
             ir'.step = "status" => ir' = ir
      PROVE  FALSE
  <2>1. inst'[i] = IF i = j THEN v ELSE inst[i]
    BY <1>0, <1>1 DEF PutInst
  <2>2. \A n \in DOMAIN instWatch' :
          \/ instWatch'[n] = Event(j, v)
          \/ n \in DOMAIN instWatch /\ instWatch'[n] = instWatch[n]
    <3>1. CASE instWatch' = instWatch
      BY <3>1
    <3>2. CASE instWatch' = Append(instWatch, Event(j, v))
      BY <1>0, <3>2, SentEvents
    <3> QED
      BY <1>1, <3>1, <3>2 DEF PutInst
  <2> QED
    BY <1>1, <2>1, <2>2 DEF Serves, Event
\* The instances are left alone, and so is the status to be written.
<1>2. ASSUME UNCHANGED <<inst, instWatch, instCache>>, ir'.step = "status" => ir' = ir
      PROVE  FALSE
  BY <1>2 DEF Serves
<1>3. CASE Outside
  <2>1. ir' = ir /\ instCache' = instCache
    BY <1>3 DEF Outside, Rescale, DeletePool, ClaimInstance, ReleaseInstance, GatewayWrites,
                CollectInstance, PodRuns, PodEnds, EvictPod, RemovePod, CollectPod, PodWrites
  <2>2. ASSUME NEW j \in Instances, ClaimInstance(j) \/ ReleaseInstance(j) PROVE FALSE
    <3> PICK from, to : /\ GatewayWrites(j, from, to)
                        /\ <<from, to>> \in {<<"warm", "active">>, <<"active", "warm">>}
      BY <2>2 DEF ClaimInstance, ReleaseInstance
    <3> DEFINE v == [inst[j] EXCEPT !.state = to]
    <3>1. v \in InstVal /\ v.pod = inst[j].pod /\ inst[j].state \in {"warm", "active"}
      BY DEF GatewayWrites, TypeOK, ServerOK, InstVal, LiveStates
    <3>2. PutInst(j, v)
      BY DEF GatewayWrites
    <3> HIDE DEF v
    <3>3. j = i => ~Offers(v, p)
      BY <3>1 DEF Serves, Offers
    <3> QED
      BY <1>1, <2>1, <3>1, <3>2, <3>3
  <2>3. ASSUME NEW j \in Instances, CollectInstance(j) PROVE FALSE
    <3>1. PutInst(j, NoInst) /\ NoInst \in InstVal /\ ~Offers(NoInst, p)
      BY <2>3, ValueTypes DEF CollectInstance, Offers, NoInst
    <3> QED
      BY <1>1, <2>1, <3>1
  <2>4. ASSUME \/ Rescale \/ DeletePool
               \/ \E q \in Pods : PodRuns(q) \/ PodEnds(q) \/ EvictPod(q) \/ RemovePod(q) \/ CollectPod(q)
        PROVE  FALSE
    BY <1>2, <2>1, <2>4 DEF Rescale, DeletePool, PodRuns, PodEnds, EvictPod, RemovePod, CollectPod, PodWrites
  <2> QED
    BY <1>3, <2>2, <2>3, <2>4 DEF Outside
<1>4. CASE PoolReconcile \/ PoolStep
  <2>1. ir' = ir /\ instCache' = instCache
    BY <1>4 DEF PoolReconcile, PoolStep, CreateInstance, CreateInstanceFails, MarkTerminating,
                MarkTerminatingFails, UpdatePoolStatus, UpdatePoolStatusFails
  <2>2. CASE CreateInstance
    <3> PICK j \in Instances : PutInst(j, NewInst)
      BY <2>2 DEF CreateInstance
    <3>1. NewInst \in InstVal /\ ~Offers(NewInst, p)
      BY ValueTypes DEF Offers, NewInst
    <3> QED
      BY <1>1, <2>1, <3>1
  <2>3. ASSUME NEW j \in Instances, MarkTerminating(j), j \in fresh.list PROVE FALSE
    <3> DEFINE v == [inst[j] EXCEPT !.state = "terminating"]
    <3>1. v \in InstVal /\ ~Offers(v, p)
      BY DEF TypeOK, ServerOK, InstVal, LiveStates, Offers
    <3>2. PutInst(j, v)
      BY <2>3 DEF MarkTerminating
    <3> HIDE DEF v
    <3> QED
      BY <1>1, <2>1, <3>1, <3>2
  <2>4. ASSUME \/ PoolReconcile \/ CreateInstanceFails \/ UpdatePoolStatus \/ UpdatePoolStatusFails
               \/ \E j \in Instances : MarkTerminatingFails(j) \/ (MarkTerminating(j) /\ j \notin fresh.list)
        PROVE  FALSE
    <3>1. UNCHANGED <<inst, instWatch>>
      BY <2>4 DEF PoolReconcile, CreateInstanceFails, UpdatePoolStatus, UpdatePoolStatusFails,
                  MarkTerminatingFails, MarkTerminating
    <3> QED
      BY <1>2, <2>1, <3>1
  <2> QED
    BY <1>4, <2>2, <2>3, <2>4 DEF PoolStep
<1>5. ASSUME NEW j \in Instances, InstReconcile(j)
      PROVE  p \in Pods /\ podCache[p].inst = i /\ podCache' = podCache
  <2>1. UNCHANGED <<inst, instWatch, instCache, podCache>>
    BY <1>5 DEF InstReconcile, ReconcileGone, ReconcilePending, ReconcileRunning,
                ReconcileTerminating, Dequeue
  <2>2. ir'.step = "status" /\ ir'.key = i /\ Offers(ir'.want, p) /\ ir' # ir
    BY <2>1 DEF Serves
  <2>3. CASE ReconcilePending(j)
    <3>1. ir' # Run(j, "create")
      BY <2>2 DEF Run, InstIdle
    <3> PICK q \in Seen(j) :
          ir' = [Run(j, "status") EXCEPT
                   !.want = [state |-> IF podCache[q].phase = "Running" THEN "warm" ELSE instCache[j].state,
                             pod |-> q]]
      BY <2>3, <3>1 DEF ReconcilePending, InstStart
    <3>2. ir'.key = j /\ ir'.want.pod = q
      BY DEF Run, InstIdle
    <3> QED
      BY <2>1, <2>2, <3>2 DEF Offers, Seen
  <2>4. CASE ReconcileRunning(j)
    <3>1. ir' = [Run(j, "status") EXCEPT !.want = [instCache[j] EXCEPT !.state = "terminating"]]
      BY <2>2, <2>4 DEF ReconcileRunning, InstStart
    <3>2. ir'.want.state = "terminating"
      <4>1. [instCache[j] EXCEPT !.state = "terminating"].state = "terminating"
        BY <1>0 DEF InstVal
      <4> QED
        BY <3>1, <4>1 DEF Run, InstIdle
    <3> QED
      BY <2>2, <3>2 DEF Offers
  <2>5. CASE ReconcileGone(j)
    BY <2>2, <2>5 DEF ReconcileGone
  <2>6. CASE ReconcileTerminating(j)
    <3>1. ir' = Run(j, "delete") \/ \E pods : ir' = [Run(j, "pods") EXCEPT !.pods = pods]
      BY <2>2, <2>6 DEF ReconcileTerminating, InstStart
    <3> QED
      BY <2>2, <3>1 DEF Run, InstIdle
  <2> QED
    BY <1>5, <2>3, <2>4, <2>5, <2>6 DEF InstReconcile
<1>6. CASE InstStep
  <2>1. CASE CreatePod
    <3>1. UNCHANGED <<inst, instWatch, instCache>> /\ ~Offers(ir'.want, p)
      BY <2>1 DEF CreatePod, Offers, TypeOK, ControllersOK, InstRun
    <3> QED
      BY <3>1 DEF Serves
  <2>2. CASE CreatePodFails \/ InstanceCallFails
    <3>1. UNCHANGED <<inst, instWatch, instCache>> /\ ir' = InstIdle
      BY <2>2 DEF CreatePodFails, InstanceCallFails, InstDone
    <3> QED
      BY <1>2, <3>1 DEF InstIdle
  <2>3. CASE UpdateInstanceStatus
    <3>1. ir' = InstIdle /\ instCache' = instCache /\ ir.step = "status"
      BY <2>3 DEF UpdateInstanceStatus, InstDone
    <3>2. CASE UNCHANGED <<inst, instWatch>>
      BY <1>2, <3>1, <3>2 DEF InstIdle
    <3>3. CASE PutInst(ir.key, ir.want)
      <4>1. ir.key \in Instances /\ ir.want \in InstVal
        BY <3>1 DEF TypeOK, ControllersOK, InstRun
      <4>2. ir.key = i => ~Offers(ir.want, p)
        BY <3>1 DEF Serves
      <4> QED
        BY <1>1, <3>1, <3>3, <4>1, <4>2 DEF InstIdle
    <3> QED
      BY <2>3, <3>2, <3>3 DEF UpdateInstanceStatus
  <2>4. ASSUME NEW q \in Pods, DeletePod(q) PROVE FALSE
    <3>1. ir' = InstIdle \/ ir' = [ir EXCEPT !.pods = @ \ {q}]
      BY <2>4 DEF DeletePod, InstDone
    <3>2. ir'.step # "status" /\ UNCHANGED <<inst, instWatch, instCache>>
      BY <2>4, <3>1 DEF DeletePod, InstIdle, TypeOK, ControllersOK, InstRun
    <3> QED
      BY <1>2, <3>2
  <2>5. CASE DeleteInstance
    <3>1. /\ ir.key \in Instances /\ PutInst(ir.key, NoInst) /\ NoInst \in InstVal
          /\ ~Offers(NoInst, p) /\ ir' = InstIdle /\ instCache' = instCache
      BY <2>5, ValueTypes DEF DeleteInstance, InstDone, Offers, NoInst, TypeOK, ControllersOK
    <3> QED
      BY <1>1, <3>1 DEF InstIdle
  <2> QED
    BY <1>6, <2>1, <2>2, <2>3, <2>4, <2>5 DEF InstStep
<1>7. CASE DeliverInstance
  <2> DEFINE e == Head(instWatch)
  <2>1. /\ instWatch # <<>> /\ instWatch' = Tail(instWatch) /\ instCache' = Apply(instCache, e)
        /\ inst' = inst /\ ir' = ir
    BY <1>7 DEF DeliverInstance
  <2>2. /\ 1 \in DOMAIN instWatch /\ instWatch[1] = e
        /\ \A n \in DOMAIN instWatch' : n + 1 \in DOMAIN instWatch /\ instWatch'[n] = instWatch[n + 1]
    BY <1>0, <2>1, DeliveredEvents
  <2>3. instCache'[i] = IF i = e.key THEN e.val ELSE instCache[i]
    BY <1>0, <2>1, HeadTypes DEF Apply
  <2> HIDE DEF e
  <2> QED
    BY <2>1, <2>2, <2>3 DEF Serves
<1>8. CASE Crash
  BY <1>8 DEF Crash, Serves, InstIdle
<1>9. CASE DeliverPool \/ DeliverPod \/ UNCHANGED vars
  BY <1>2, <1>9 DEF DeliverPool, DeliverPod
<1> QED
  BY <1>3, <1>4, <1>5, <1>6, <1>7, <1>8, <1>9 DEF Next, Deliver, Operator

LEMMA ServingInSightNext ==
  ASSUME TypeOK, PodInv, RemovalIsLast, ServingInSight, [Next]_vars
  PROVE  ServingInSight'
<1> SUFFICES ASSUME NEW i \in Instances, NEW p \in Pods \cup {None}, Serves(i, p)'
             PROVE  p \in Pods /\ InSight(p, i)'
  BY DEF ServingInSight
<1>1. CASE Serves(i, p)
  BY <1>1, InSightNext DEF ServingInSight
<1>2. CASE ~Serves(i, p)
  BY <1>2, ServesNext DEF InSight
<1> QED
  BY <1>1, <1>2

\* An instance is recycled for want of its pod only when the pod it runs on has gone
\* (PodGoneIsGone): although AgentInstanceReconciler lists the pods from a cache of their
\* own, a pod it has seen running is not missing from it before it is removed.
THEOREM PodsStayInSight == Spec => []PodGoneIsGone
<1>1. Init => RemovalIsLast /\ ServingInSight
  BY DEF Init, ClusterInit, RemovalIsLast, ServingInSight, Serves, Offers, NoInst, InstIdle
<1>2. TypeOK /\ PodInv /\ RemovalIsLast /\ ServingInSight /\ [Next]_vars
        => RemovalIsLast' /\ ServingInSight'
  BY RemovalIsLastNext, ServingInSightNext
<1>3. TypeOK /\ ServingInSight => PodGoneIsGone
  <2> SUFFICES ASSUME TypeOK, ServingInSight, NEW i \in Instances,
                      instCache[i].state \in {"warm", "active"}, Seen(i) = {}
               PROVE  pod[instCache[i].pod].inst # i
    BY DEF PodGoneIsGone
  <2>1. instCache[i].pod \in Pods \cup {None}
    BY DEF TypeOK, CachesOK, InstVal
  <2>2. instCache[i].pod \in Pods /\ InSight(instCache[i].pod, i)
    BY <2>1 DEF ServingInSight, Serves, Offers
  <2> QED
    BY <2>2 DEF InSight, Seen
<1> QED
  BY <1>1, <1>2, <1>3, TypeCorrect, InstancesAreRemembered, PTL DEF Spec

-----------------------------------------------------------------------------
(* A system in order is left alone                                           *)

\* The operator has heard of everything it does not find in its caches.
LEMMA CachesCurrent ==
  ASSUME InStep, PodsInStep, PoolInStep, TypeOK, watches = <<<<>>, <<>>, <<>>>>
  PROVE  caches = <<PoolSpec(pool), inst, pod>>
<1>1. poolCache = PoolSpec(pool)
  BY DEF PoolInStep, Shows
<1>2. \A i \in Instances : instCache[i] = inst[i]
  BY DEF InStep, Coherent, Quiet
<1>3. \A p \in Pods : podCache[p] = pod[p]
  BY DEF PodsInStep, Coherent, Quiet
<1>4. instCache = inst /\ podCache = pod
  BY <1>2, <1>3 DEF TypeOK, ServerOK, CachesOK
<1> QED
  BY <1>1, <1>4

\* What settles is in order, but for a surplus and second pods.
LEMMA OrderlyIsAtRest ==
  ASSUME IInv, PodInv, NoneForgotten, PoolInStep, PoolRemembered, Orderly
  PROVE  AtRest
<1>1. Settled /\ pool.exists /\ AsOrdered /\ \A i \in Instances : MatchesPods(i)
  BY SettledIsAsOrdered, SettledMatchesPods DEF Orderly
<1>2. Cardinality(InState("warm")) = pool.replicas
  <2>1. Cardinality(InState("warm")) \in Nat /\ pool.replicas \in Nat
    BY CountType, ConstantsAssumption DEF InState, IInv, TypeOK, ServerOK, PoolVal
  <2> QED
    BY <1>1, <2>1 DEF Orderly, AsOrdered
<1>3. ASSUME NEW i \in Instances
      PROVE  /\ inst[i].state \notin {"new", "pending"}
             /\ inst[i].state # "absent" => PodsOf(i) # {}
             /\ inst[i].state \in {"warm", "active"} => \A p \in PodsOf(i) : pod[p].phase # "Ended"
             /\ inst[i].state = "terminating" => \A p \in PodsOf(i) : pod[p].del
  <2>1. inst[i].state \in LiveStates \cup {"absent"}
    BY DEF IInv, TypeOK, ServerOK, InstVal
  <2>2. \A p, q \in PodsOf(i) : p = q
    BY DEF Orderly
  <2> QED
    BY <1>1, <2>1, <2>2 DEF AsOrdered, MatchesPods, LiveStates
<1>4. InOrder
  BY <1>1, <1>2, <1>3 DEF InOrder, AsOrdered
<1>5. watches = <<<<>>, <<>>, <<>>>> /\ pr.step = "idle" /\ ir.step = "idle"
  BY <1>1 DEF Settled, PoolIdle, InstIdle
<1>6. caches = <<PoolSpec(pool), inst, pod>>
  BY <1>5, CachesCurrent DEF IInv, PodInv
<1> QED
  BY <1>4, <1>5, <1>6 DEF AtRest

\* Nothing was written, and nobody is about to write.
LEMMA StillAtRest ==
  ASSUME AtRest, UNCHANGED <<server, caches, watches>>, ir'.step = "idle",
         pr'.step = "idle" \/ (pr'.step = "status" /\ pr'.ready = pool.ready /\ pr'.active = pool.active)
  PROVE  AtRest' /\ UNCHANGED server
<1>1. InOrder'
  BY DEF AtRest, InOrder, InState, PodsOf
<1> QED
  BY <1>1 DEF AtRest, PoolSpec

\* Somebody who looks at a pool that is as ordered counts it, and has nothing to do.
LEMMA PlanAtRest ==
  ASSUME TypeOK, AtRest, PoolReconcile
  PROVE  AtRest' /\ UNCHANGED server
<1> USE DEF TypeOK, ServerOK, ControllersOK
<1>1. \A states : Listed(states) = {i \in Instances : inst[i].state \in states}
  BY DEF Listed, AtRest
<1>2. Listed({"new", "pending", "warm"}) = InState("warm") /\ \A s : Listed({s}) = InState(s)
  BY <1>1 DEF AtRest, InOrder, InState
<1>3. Supply = pool.replicas /\ poolCache.replicas = pool.replicas /\ poolCache.exists
      /\ pool.replicas \in Nat
  BY <1>2, ConstantsAssumption DEF Supply, AtRest, InOrder, PoolSpec, PoolVal
<1>4. Victims = {{}}
  BY <1>2, <1>3 DEF Victims, AtRest, InOrder
<1>5. pr' = PoolPlan({})
  BY <1>3, <1>4 DEF PoolReconcile
<1>6. pr'.step = "status" /\ pr'.ready = pool.ready /\ pr'.active = pool.active
  <2> DEFINE missing  == IF Supply < poolCache.replicas THEN poolCache.replicas - Supply ELSE 0
             toCreate == IF missing > maxBurst THEN maxBurst ELSE missing
  <2>1. toCreate = 0
    BY <1>3 DEF maxBurst
  <2>2. PoolPlan({}).step = "status"
    BY <2>1 DEF PoolPlan
  <2>3. PoolPlan({}).ready = Cardinality(InState("warm"))
        /\ PoolPlan({}).active = Cardinality(InState("active"))
    BY <1>2 DEF PoolPlan
  <2> QED
    BY <1>5, <2>2, <2>3 DEF AtRest, InOrder
<1> QED
  BY <1>6, StillAtRest DEF PoolReconcile, AtRest

\* Its status update says what is stored, and is no event.
LEMMA PoolStepAtRest ==
  ASSUME TypeOK, AtRest, PoolStep
  PROVE  AtRest' /\ UNCHANGED server
<1> USE DEF TypeOK, ServerOK, ControllersOK
<1>1. pr.step = "status" /\ pr.ready = pool.ready /\ pr.active = pool.active /\ pool.available
  BY DEF AtRest, InOrder, PoolStep, CreateInstance, CreateInstanceFails, MarkTerminating,
         MarkTerminatingFails, UpdatePoolStatus, UpdatePoolStatusFails
<1>2. UpdatePoolStatus \/ UpdatePoolStatusFails
  BY <1>1 DEF PoolStep, CreateInstance, CreateInstanceFails, MarkTerminating, MarkTerminatingFails
<1>3. [pool EXCEPT !.ready = pr.ready, !.active = pr.active, !.available = TRUE] = pool
  BY <1>1 DEF PoolVal
<1>4. pool' = pool /\ poolWatch' = poolWatch
  BY <1>2, <1>3 DEF UpdatePoolStatus, UpdatePoolStatusFails, PutPool
<1>5. pr'.step = "idle"
  <2>1. pr' = PoolIdle
    BY <1>2 DEF UpdatePoolStatus, UpdatePoolStatusFails, PoolDone
  <2> QED
    BY <2>1 DEF PoolIdle
<1> QED
  BY <1>2, <1>4, <1>5, StillAtRest DEF UpdatePoolStatus, UpdatePoolStatusFails, AtRest

\* An instance that has the pods it needs is looked at and left.
LEMMA DispatchAtRest ==
  ASSUME TypeOK, AtRest, NEW i \in Instances, InstReconcile(i)
  PROVE  AtRest' /\ UNCHANGED server
<1>1. UNCHANGED <<server, caches, watches, pr>>
  BY DEF InstReconcile, ReconcileGone, ReconcilePending, ReconcileRunning, ReconcileTerminating,
         Dequeue
<1>2. instCache = inst /\ podCache = pod /\ Seen(i) = PodsOf(i)
  BY DEF AtRest, Seen, PodsOf
<1>3. ~ReconcilePending(i)
  BY <1>2 DEF AtRest, InOrder, ReconcilePending, Dequeue
<1>4. ReconcileRunning(i) => ir' = ir
  BY <1>2 DEF AtRest, InOrder, ReconcileRunning, Dequeue
<1>5. ReconcileTerminating(i) => ir' = ir
  <2>1. inst[i].state = "terminating" => Seen(i) # {} /\ {p \in Seen(i) : ~podCache[p].del} = {}
    BY <1>2 DEF AtRest, InOrder
  <2> QED
    BY <1>2, <2>1 DEF ReconcileTerminating, Dequeue
<1>6. ir' = ir
  BY <1>3, <1>4, <1>5 DEF InstReconcile, ReconcileGone
<1> QED
  BY <1>1, <1>6, StillAtRest DEF AtRest

LEMMA RestNext ==
  ASSUME TypeOK, AtRest, [Next]_vars, outside' # outside
  PROVE  AtRest' /\ UNCHANGED server
<1>1. ~Outside
  BY DEF Outside, Rescale, DeletePool, ClaimInstance, ReleaseInstance, GatewayWrites,
         CollectInstance, PodRuns, PodEnds, EvictPod, RemovePod, CollectPod, PodWrites
<1>2. ~Deliver /\ ~UNCHANGED vars
  BY DEF Deliver, DeliverPool, DeliverInstance, DeliverPod, AtRest
<1>3. CASE Crash
  <2>1. UNCHANGED <<server, caches, watches>> /\ ir'.step = "idle" /\ pr'.step = "idle"
    BY <1>3 DEF Crash, AtRest, InstIdle, PoolIdle
  <2> QED
    BY <2>1, StillAtRest
<1>4. ~InstStep
  BY DEF AtRest, InstStep, CreatePod, CreatePodFails, UpdateInstanceStatus, DeletePod,
         DeleteInstance, InstanceCallFails
<1> QED
  BY <1>1, <1>2, <1>3, <1>4, PlanAtRest, PoolStepAtRest, DispatchAtRest DEF Next, Operator

\* The operator leaves a system in order alone (RestIsStable): neither its own status
\* updates nor a failed call or a restart make AgentWarmPoolReconciler or
\* AgentInstanceReconciler write anything, until a user, the gateway or the cluster
\* changes something.
THEOREM RestIsKept == Spec => RestIsStable
<1>1. ASSUME IInv, PodInv, NoneForgotten, PoolInStep, PoolRemembered, [Next]_vars
      PROVE  (AtRest \/ Orderly) /\ outside' # outside => AtRest' /\ UNCHANGED server
  BY <1>1, OrderlyIsAtRest, RestNext DEF IInv
<1> QED
  BY <1>1, Inductive, InstancesAreRemembered, PoolIsRemembered, PTL DEF Spec, RestIsStable

=============================================================================

------------------------- MODULE SandboxPoolProofs -------------------------
(***************************************************************************)
(* The sandbox pool settles as ordered: a pool that is not has an event    *)
(* under way, is queued, or is being reconciled on what is stored.         *)
(***************************************************************************)
EXTENDS SandboxSystemProofs

USE DEF vars, server, informers, queues, outside, poolUntouched, claimUntouched

-----------------------------------------------------------------------------
(* What the steps do to the pool, its policy and its pods *)

\* A step other than a delivery and a restart makes at most one write.
Writes ==
  \/ UNCHANGED <<watch, pool, policy, pod>>
  \/ \E v \in PoolVal : PutPool(v) /\ UNCHANGED <<policy, pod>>
  \/ \E v \in PolicyVal : PutPolicy(v) /\ UNCHANGED <<pool, pod>>
  \/ \E p \in Pods, v \in PodVal : PutPod(p, v) /\ UNCHANGED <<pool, policy>>
  \/ \E c \in Claims, v \in ClaimVal : PutClaim(c, v) /\ UNCHANGED <<pool, policy, pod>>
  \/ CreateTemplate

LEMMA WritesOutside == TypeOK /\ Outside => cache' = cache /\ Writes
<1> SUFFICES ASSUME TypeOK, Outside PROVE cache' = cache /\ Writes
  OBVIOUS
<1>1. CASE Rescale \/ DeletePool
  <2>1. ASSUME NEW n \in 0..MaxReplicas PROVE [pool EXCEPT !.replicas = n] \in PoolVal
    BY DEF TypeOK, ServerOK, PoolVal
  <2>2. [pool EXCEPT !.exists = FALSE] \in PoolVal
    BY DEF TypeOK, ServerOK, PoolVal
  <2> QED
    BY <1>1, <2>1, <2>2 DEF Rescale, DeletePool, Writes
<1>2. CASE TamperPolicy \/ CollectPolicy \/ CreateTemplate
  BY <1>2 DEF TamperPolicy, CollectPolicy, CreateTemplate, Writes, PolicyVal
<1>3. ASSUME NEW c \in Claims, CreateClaim(c) \/ DeleteClaim(c) \/ TTLElapses(c) \/ TimerFires(c)
      PROVE  cache' = cache /\ Writes
  BY <1>3, CoreValues, ValueTypes DEF CreateClaim, DeleteClaim, TTLElapses, TimerFires, Writes
<1>4. ASSUME NEW p \in Pods, PodRuns(p) \/ EvictPod(p) \/ RemovePod(p) \/ CollectPod(p)
      PROVE  cache' = cache /\ Writes
  <2>1. [pod[p] EXCEPT !.phase = "Running"] \in PodVal
    BY DEF TypeOK, ServerOK, PodVal
  <2>2. PICK v \in PodVal : PodWrites(p, v)
    BY <1>4, <2>1, CoreValues, ValueTypes DEF PodRuns, EvictPod, RemovePod, CollectPod
  <2> QED
    BY <2>2 DEF PodWrites, Writes
<1> QED
  BY <1>1, <1>2, <1>3, <1>4 DEF Outside

LEMMA WritesPool == TypeOK /\ (PoolReconcile \/ PoolStep) => cache' = cache /\ Writes
<1> SUFFICES ASSUME TypeOK, PoolReconcile \/ PoolStep PROVE cache' = cache /\ Writes
  OBVIOUS
<1>1. CASE PoolReconcile \/ EnsurePolicyFails \/ CreateSandboxPodFails \/ UpdatePoolStatusFails
             \/ \E p \in Pods : DeleteExcessPodFails(p)
  BY <1>1 DEF PoolReconcile, EnsurePolicyFails, CreateSandboxPodFails, UpdatePoolStatusFails,
              DeleteExcessPodFails, Writes
<1>2. CASE ClearPoolStatus \/ UpdatePoolStatus
  <2>1. /\ [pool EXCEPT !.available = 0, !.active = 0] \in PoolVal
        /\ [pool EXCEPT !.available = pr.warm, !.active = pr.claimed] \in PoolVal
    BY DEF TypeOK, ServerOK, ControllersOK, PoolVal
  <2> QED
    BY <1>2, <2>1 DEF ClearPoolStatus, UpdatePoolStatus, Writes
<1>3. CASE EnsurePolicy
  BY <1>3 DEF EnsurePolicy, Writes, PolicyVal
<1>4. CASE CreateSandboxPod \/ \E p \in Pods : DeleteExcessPod(p)
  BY <1>4, CoreValues, ValueTypes DEF CreateSandboxPod, DeleteExcessPod, Writes
<1> QED
  BY <1>1, <1>2, <1>3, <1>4 DEF PoolStep

LEMMA WritesClaim ==
  TypeOK /\ (ClaimStep \/ \E c \in Claims : ClaimReconcile(c)) => cache' = cache /\ Writes
<1> SUFFICES ASSUME TypeOK, ClaimStep \/ \E c \in Claims : ClaimReconcile(c)
             PROVE  cache' = cache /\ Writes
  OBVIOUS
<1>0. /\ cr.step # "idle" => cr.key \in Claims
      /\ cr.step \in {"release", "label", "bind"} => cr.pod \in Pods
      /\ \A c \in Claims : claim[c] \in ClaimVal
      /\ \A p \in Pods : pod[p] \in PodVal
  BY DEF TypeOK, ServerOK, ControllersOK
<1>1. ASSUME NEW c \in Claims, ClaimReconcile(c) PROVE cache' = cache /\ Writes
  BY <1>1 DEF ClaimReconcile, ReconcileGone, ReconcileDeleted, ReconcileNoFinalizer, ReconcileFailed,
              ReconcileBound, ReconcileNew, ReconcilePending, Begin, Writes
<1>2. CASE ClaimCallRefused \/ ClaimCallFails
  BY <1>2 DEF ClaimCallRefused, ClaimCallFails, ClaimFails, Writes
<1>3. CASE ReleasePod \/ LabelPod
  <2>1. cr.pod \in Pods /\ cr.key \in Claims
    BY <1>0, <1>3 DEF ReleasePod, LabelPod
  <2>2. [pod[cr.pod] EXCEPT !.claim = cr.key] \in PodVal
    BY <1>0, <2>1 DEF PodVal
  <2> QED
    BY <1>3, <2>1, <2>2, CoreValues DEF ReleasePod, LabelPod, Writes
<1>4. CASE AddFinalizer \/ RemoveFinalizer \/ MarkReleased \/ DeleteExpired \/ MarkPending
             \/ MarkFailed \/ BindClaim
  <2>1. cr.key \in Claims
    BY <1>0, <1>4 DEF AddFinalizer, RemoveFinalizer, MarkReleased, DeleteExpired, MarkPending,
                      MarkFailed, BindClaim
  <2>2. /\ [claim[cr.key] EXCEPT !.fin = TRUE] \in ClaimVal
        /\ \A phase \in {"Pending", "Failed", "Released"} :
             [claim[cr.key] EXCEPT !.phase = phase] \in ClaimVal
        /\ cr.pod \in Pods => [claim[cr.key] EXCEPT !.phase = "Bound", !.pod = cr.pod] \in ClaimVal
    <3>1. claim[cr.key] \in ClaimVal
      BY <1>0, <2>1
    <3> QED
      BY <3>1 DEF ClaimVal
  <2>3. UNCHANGED watch \/ \E v \in ClaimVal : PutClaim(cr.key, v)
    BY <1>0, <1>4, <2>1, <2>2, ValueTypes, CoreValues
       DEF AddFinalizer, RemoveFinalizer, MarkReleased, DeleteExpired, MarkPending, MarkFailed,
           BindClaim, PutStatus
  <2>4. UNCHANGED <<cache, pool, policy, pod>>
    BY <1>4 DEF AddFinalizer, RemoveFinalizer, MarkReleased, DeleteExpired, MarkPending, MarkFailed,
                BindClaim
  <2> QED
    BY <2>1, <2>3, <2>4 DEF Writes
<1> QED
  BY <1>1, <1>2, <1>3, <1>4 DEF ClaimStep

LEMMA WritesNext == TypeOK /\ [Next]_vars => Deliver \/ Crash \/ (cache' = cache /\ Writes)
<1>1. ASSUME UNCHANGED vars PROVE cache' = cache /\ Writes
  BY <1>1 DEF Writes
<1> QED
  BY <1>1, WritesOutside, WritesPool, WritesClaim DEF Next, Operator

\* What a write adds to a watch is under way, and hides nothing.
LEMMA SeesAdds ==
  ASSUME TypeOK, NEW kind \in Kinds, NEW e \in EventVal(kind), NEW events \in {<<>>, <<e>>},
         Sees(kind, events)
  PROVE  /\ \A k \in Kinds : watch[k] # <<>> => watch'[k] # <<>>
         /\ \A k \in Kinds : k # kind \/ events = <<>> => watch'[k] = watch[k]
         /\ events # <<>> => watch'[kind] # <<>> /\ watch'[kind] = Append(watch[kind], e)
<1> DEFINE S == EventVal(kind)
<1>0. watch[kind] \in Seq(S) /\ e \in S
  BY DEF TypeOK, InformersOK
<1> HIDE DEF S
<1>1. /\ watch' = [watch EXCEPT ![kind] = watch[kind] \o events]
      /\ watch'[kind] = watch[kind] \o events
      /\ \A k \in Kinds \ {kind} : watch'[k] = watch[k]
  BY DEF Sees, TypeOK, InformersOK
<1>2. CASE events = <<>>
  <2>1. watch[kind] \o <<>> = watch[kind]
    BY <1>0, ConcatEmptySeq
  <2>2. watch'[kind] = watch[kind]
    BY <1>1, <1>2, <2>1
  <2> QED
    BY <1>1, <1>2, <2>2
<1>3. CASE events # <<>>
  <2>1. events = <<e>>
    BY <1>3
  <2>2. watch[kind] \o <<e>> = Append(watch[kind], e) /\ Append(watch[kind], e) # <<>>
    BY <1>0, AppendIsConcat, AppendProperties
  <2> QED
    BY <1>1, <1>3, <2>1, <2>2
<1> QED
  BY <1>2, <1>3

\* The same of the four kinds of write.
LEMMA PutAdds ==
  ASSUME TypeOK, Writes
  PROVE  /\ \A k \in Kinds : watch[k] # <<>> => watch'[k] # <<>>
         /\ pool' # pool => watch'.pool # <<>>
         /\ policy' # policy => watch'.policy # <<>>
         /\ pod' # pod => watch'.pod # <<>>
<1>1. CASE UNCHANGED <<watch, pool, policy, pod>>
  BY <1>1
<1>2. ASSUME NEW v \in PoolVal, PutPool(v), UNCHANGED <<policy, pod>>
      PROVE  (\A k \in Kinds : watch[k] # <<>> => watch'[k] # <<>>) /\ (pool' # pool => watch'.pool # <<>>)
  <2>1. PoolSpec(v) \in EventVal("pool") /\ "pool" \in Kinds
    BY DEF PoolVal, PoolSpec, PoolCopy, EventVal, Kinds
  <2>2. PICK events \in {<<>>, <<PoolSpec(v)>>} :
          Sees("pool", events) /\ (v # pool => events = <<PoolSpec(v)>>)
    BY <1>2, Zenon DEF PutPool
  <2> HIDE DEF Sees
  <2>3. v # pool => events # <<>>
    BY <2>2
  <2>4. pool' = v
    BY <1>2 DEF PutPool
  <2> QED
    BY <2>1, <2>2, <2>3, <2>4, SeesAdds
<1>3. ASSUME NEW v \in PolicyVal, PutPolicy(v), UNCHANGED <<pool, pod>>
      PROVE  (\A k \in Kinds : watch[k] # <<>> => watch'[k] # <<>>)
             /\ (policy' # policy => watch'.policy # <<>>)
  <2>1. v \in EventVal("policy") /\ "policy" \in Kinds
    BY DEF EventVal, Kinds
  <2>2. PICK events \in {<<>>, <<v>>} : Sees("policy", events) /\ (v # policy => events = <<v>>)
    BY <1>3, Zenon DEF PutPolicy
  <2>3. v # policy => events # <<>>
    BY <2>2
  <2>4. policy' = v
    BY <1>3 DEF PutPolicy
  <2> QED
    BY <2>1, <2>2, <2>3, <2>4, SeesAdds
<1>4. ASSUME NEW p \in Pods, NEW v \in PodVal, PutPod(p, v), UNCHANGED <<pool, policy>>
      PROVE  (\A k \in Kinds : watch[k] # <<>> => watch'[k] # <<>>) /\ (pod' # pod => watch'.pod # <<>>)
  <2>1. Event(p, v) \in EventVal("pod") /\ "pod" \in Kinds
    BY DEF EventVal, Event, Kinds
  <2>2. PICK events \in {<<>>, <<Event(p, v)>>} :
          Sees("pod", events) /\ (v # pod[p] => events = <<Event(p, v)>>)
    BY <1>4, Zenon DEF PutPod
  <2>3. v # pod[p] => events # <<>>
    BY <2>2
  <2>4. pod' = [pod EXCEPT ![p] = v] /\ pod \in [Pods -> PodVal]
    BY <1>4 DEF PutPod, TypeOK, ServerOK
  <2>5. pod' # pod => v # pod[p]
    BY <2>4
  <2> QED
    BY <2>1, <2>2, <2>3, <2>5, SeesAdds
<1>5. ASSUME NEW c \in Claims, NEW v \in ClaimVal, PutClaim(c, v)
      PROVE  \A k \in Kinds : watch[k] # <<>> => watch'[k] # <<>>
  <2>1. Event(c, v) \in EventVal("claim") /\ "claim" \in Kinds
    BY DEF EventVal, Event, Kinds
  <2>2. PICK events \in {<<>>, <<Event(c, v)>>} : Sees("claim", events)
    BY <1>5, Zenon DEF PutClaim
  <2> QED
    BY <2>1, <2>2, SeesAdds
<1>6. CASE CreateTemplate
  <2>1. tmpl' \in EventVal("tmpl") /\ "tmpl" \in Kinds /\ Sees("tmpl", <<tmpl'>>)
    BY <1>6 DEF CreateTemplate, EventVal, Kinds, TmplVal
  <2>2. \A k \in Kinds : watch[k] # <<>> => watch'[k] # <<>>
    BY <2>1, SeesAdds
  <2> QED
    BY <1>6, <2>2 DEF CreateTemplate
<1> QED
  BY <1>1, <1>2, <1>3, <1>4, <1>5, <1>6 DEF Writes

-----------------------------------------------------------------------------
(* The pool and its policy as the operator sees them *)

PoolInStep   == Shows(cache.pool, watch.pool, PoolSpec(pool))
PolicyInStep == Shows(cache.policy, watch.policy, policy)

\* A step leaves them alone but for one delivery, a restart or one write.
PoolStill   == pool' = pool /\ cache'.pool = cache.pool /\ watch'.pool = watch.pool
PolicyStill == policy' = policy /\ cache'.policy = cache.policy /\ watch'.policy = watch.policy

\* A write shows what it wrote, whether or not it is an event.
LEMMA SeenShows ==
  ASSUME TypeOK, NEW kind \in Kinds, NEW x, NEW y \in EventVal(kind), NEW copy,
         Shows(copy, watch[kind], x),
         NEW events \in {<<>>, <<y>>}, events = <<>> => x = y, Sees(kind, events)
  PROVE  Shows(copy, watch'[kind], y)
<1> DEFINE V == EventVal(kind)
<1>0. watch[kind] \in Seq(V) /\ y \in V
  BY DEF TypeOK, InformersOK
<1> HIDE DEF V
<1>1. /\ events = <<>> => watch'[kind] = watch[kind]
      /\ events # <<>> => watch'[kind] = Append(watch[kind], y)
  BY SeesAdds
<1> QED
  BY <1>0, <1>1, WriteShows

LEMMA InStepDeliver ==
  ASSUME TypeOK, PoolInStep, PolicyInStep, Deliver \/ Crash
  PROVE  PoolInStep' /\ PolicyInStep'
<1> USE DEF TypeOK, InformersOK, CacheVal, Kinds
<1>0. watch.pool \in Seq(PoolCopy) /\ watch.policy \in Seq(PolicyVal)
  BY DEF EventVal
<1>1. ASSUME NEW kind \in Kinds, NEW v, Take(kind, v)
      PROVE  /\ kind # "pool" => PoolStill
             /\ kind # "policy" => PolicyStill
  BY <1>1 DEF Take, PoolStill, PolicyStill
<1>2. CASE DeliverPool
  <2>1. PolicyStill
    BY <1>1, <1>2 DEF DeliverPool
  <2>2. /\ watch.pool # <<>> /\ watch'.pool = Tail(watch.pool) /\ cache'.pool = Head(watch.pool)
        /\ pool' = pool
    BY <1>2 DEF DeliverPool, Take
  <2> QED
    BY <1>0, <2>1, <2>2, DeliveryShows DEF PoolInStep, PolicyInStep, PolicyStill
<1>3. CASE DeliverPolicy
  <2>1. PoolStill
    BY <1>1, <1>3 DEF DeliverPolicy
  <2>2. /\ watch.policy # <<>> /\ watch'.policy = Tail(watch.policy)
        /\ cache'.policy = Head(watch.policy) /\ policy' = policy
    BY <1>3 DEF DeliverPolicy, Take
  <2> QED
    BY <1>0, <2>1, <2>2, DeliveryShows DEF PoolInStep, PolicyInStep, PoolStill
<1>4. CASE DeliverTemplate \/ DeliverPod \/ DeliverClaim
  <2>1. PoolStill /\ PolicyStill
    BY <1>1, <1>4 DEF DeliverTemplate, DeliverPod, DeliverClaim
  <2> QED
    BY <2>1 DEF PoolInStep, PolicyInStep, PoolStill, PolicyStill
<1>5. CASE Crash
  BY <1>5 DEF Crash, Listing, PoolInStep, PolicyInStep, Shows
<1> QED
  BY <1>2, <1>3, <1>4, <1>5 DEF Deliver

LEMMA PoolInStepNext ==
  ASSUME TypeOK, PoolInStep, PolicyInStep, [Next]_vars
  PROVE  PoolInStep' /\ PolicyInStep'
<1>1. ASSUME PoolStill, PolicyStill PROVE PoolInStep' /\ PolicyInStep'
  BY <1>1 DEF PoolInStep, PolicyInStep, PoolStill, PolicyStill
<1>2. ASSUME NEW v \in PoolVal, PutPool(v), policy' = policy, cache' = cache
      PROVE  PoolInStep' /\ PolicyInStep'
  <2>1. PoolSpec(v) \in EventVal("pool") /\ "pool" \in Kinds
    BY DEF PoolVal, PoolSpec, PoolCopy, EventVal, Kinds
  <2>2. PICK events \in {<<>>, <<PoolSpec(v)>>} :
          Sees("pool", events) /\ (events = <<>> => v = pool)
    BY <1>2, Zenon DEF PutPool
  <2> HIDE DEF Sees
  <2>3. PolicyStill
    BY <1>2, <2>2, OtherWatches DEF PolicyStill, Kinds
  <2>4. Shows(cache.pool, watch'.pool, PoolSpec(v))
    BY <2>1, <2>2, SeenShows DEF PoolInStep
  <2> QED
    BY <1>2, <2>3, <2>4 DEF PutPool, PoolInStep, PolicyInStep, PolicyStill
<1>3. ASSUME NEW v \in PolicyVal, PutPolicy(v), pool' = pool, cache' = cache
      PROVE  PoolInStep' /\ PolicyInStep'
  <2>1. v \in EventVal("policy") /\ "policy" \in Kinds
    BY DEF EventVal, Kinds
  <2>2. PICK events \in {<<>>, <<v>>} : Sees("policy", events) /\ (events = <<>> => v = policy)
    BY <1>3, Zenon DEF PutPolicy
  <2> HIDE DEF Sees
  <2>3. PoolStill
    BY <1>3, <2>2, OtherWatches DEF PoolStill, Kinds
  <2>4. Shows(cache.policy, watch'.policy, v)
    BY <2>1, <2>2, SeenShows DEF PolicyInStep
  <2> QED
    BY <1>3, <2>3, <2>4 DEF PutPolicy, PoolInStep, PolicyInStep, PoolStill
<1>4. ASSUME NEW kind \in Kinds \ {"pool", "policy"}, NEW events, Sees(kind, events),
             UNCHANGED <<pool, policy, cache>>
      PROVE  PoolInStep' /\ PolicyInStep'
  <2>1. watch'.pool = watch.pool /\ watch'.policy = watch.policy
    BY <1>4, OtherWatches DEF Kinds
  <2> QED
    BY <1>1, <1>4, <2>1 DEF PoolStill, PolicyStill
<1>5. ASSUME cache' = cache, Writes PROVE PoolInStep' /\ PolicyInStep'
  <2>1. CASE UNCHANGED <<watch, pool, policy, pod>>
    BY <1>1, <1>5, <2>1 DEF PoolStill, PolicyStill
  <2> QED
    BY <1>2, <1>3, <1>4, <1>5, <2>1 DEF Writes, PutPod, PutClaim, CreateTemplate, Kinds
<1> QED
  BY <1>5, InStepDeliver, WritesNext

-----------------------------------------------------------------------------
(* The pool is not forgotten *)

\* The controller is going to look at the pool.
PoolTold == poolQueue \/ watch.pool # <<>> \/ watch.policy # <<>> \/ watch.pod # <<>>

Counted(warm, claimed) == warm = Cardinality(WarmIn(pod)) /\ claimed = Cardinality(ClaimedIn(pod))

Enough  == Cardinality(WarmIn(pod)) >= pool.replicas
NotMore == faults = 0 => Cardinality(WarmIn(pod)) <= pool.replicas
Guarded == tmpl = "managed" => policy = "desired"

\* The reconciliation under way knows the pool and its pods as they are; without a
\* template it is going to be called again.
Sure ==
  \/ pr.step = "clear"
  \/ pr.step = "policy" /\ fresh.pool /\ pr.desired = pool.replicas
  \/ /\ pr.step \in {"create", "delete", "status"} /\ fresh.pool
     /\ Guarded /\ Counted(pr.warm, pr.claimed)
     /\ pr.step # "create" => Enough
     /\ pr.step = "delete" => pr.candidates \subseteq WarmIn(pod)
     /\ pr.step = "status" => NotMore

AsOrdered ==
  pool.exists => /\ cache.tmpl # "absent" /\ Guarded
                 /\ Enough /\ NotMore /\ Counted(pool.available, pool.active)

PoolRemembered ==
  \/ PoolTold
  \/ pr.step # "idle" /\ Sure
  \/ pr.step = "idle" /\ AsOrdered

\* Only its reconciliation takes the pool off the queue, and news reaches the queue.
LEMMA PoolToldKept ==
  ASSUME TypeOK, [Next]_vars, ~PoolReconcile, PoolTold
  PROVE  PoolTold'
<1>1. CASE Crash
  BY <1>1 DEF Crash, PoolTold
<1>2. CASE DeliverPool \/ DeliverPolicy \/ DeliverPod
  BY <1>2 DEF DeliverPool, DeliverPolicy, DeliverPod, PoolTold
<1>3. CASE DeliverTemplate \/ DeliverClaim
  <2>1. ASSUME NEW kind \in {"tmpl", "claim"}, NEW v, Take(kind, v), poolQueue' = poolQueue
        PROVE  PoolTold'
    BY <2>1 DEF Take, PoolTold, TypeOK, InformersOK, Kinds
  <2> QED
    BY <1>3, <2>1 DEF DeliverTemplate, DeliverClaim
<1>4. CASE ~Crash /\ ~Deliver
  <2>1. Writes
    BY <1>4, WritesNext
  <2>2. \A k \in Kinds : watch[k] # <<>> => watch'[k] # <<>>
    BY <2>1, PutAdds
  <2>3. poolQueue => poolQueue'
    <3>1. CASE Outside \/ UNCHANGED vars
      BY <3>1 DEF Outside, Rescale, DeletePool, CreateTemplate, TamperPolicy, CollectPolicy, CreateClaim,
                  DeleteClaim, TTLElapses, TimerFires, PodRuns, EvictPod, RemovePod, CollectPod, PodWrites
    <3>2. CASE PoolStep
      BY <3>2 DEF PoolStep, ClearPoolStatus, EnsurePolicy, EnsurePolicyFails, CreateSandboxPod,
                  CreateSandboxPodFails, DeleteExcessPod, DeleteExcessPodFails, UpdatePoolStatus,
                  UpdatePoolStatusFails, PoolDone
    <3>3. CASE (\E c \in Claims : ClaimReconcile(c)) \/ ClaimStep
      BY <3>3 DEF ClaimReconcile, ReconcileGone, ReconcileDeleted, ReconcileNoFinalizer, ReconcileFailed,
                  ReconcileBound, ReconcileNew, ReconcilePending, Begin, ClaimStep, AddFinalizer,
                  ReleasePod, RemoveFinalizer, MarkReleased, DeleteExpired, MarkPending, MarkFailed,
                  LabelPod, BindClaim, ClaimCallRefused, ClaimCallFails, ClaimFails
    <3> QED
      BY <1>4, <3>1, <3>2, <3>3 DEF Next, Operator
  <2> QED
    BY <2>2, <2>3 DEF PoolTold, Kinds
<1> QED
  BY <1>1, <1>2, <1>3, <1>4 DEF Deliver

\* A change of the pool, its policy or its pods is announced.
LEMMA ChangeAnnounced ==
  ASSUME TypeOK, [Next]_vars, pool' # pool \/ policy' # policy \/ pod' # pod
  PROVE  PoolTold'
<1>1. ~Deliver /\ ~Crash
  BY DEF Deliver, DeliverPool, DeliverTemplate, DeliverPolicy, DeliverPod, DeliverClaim, Take, Crash
<1>2. Writes
  BY <1>1, WritesNext
<1> QED
  BY <1>2, PutAdds DEF PoolTold

\* Failures are counted.
LEMMA FaultsCounted ==
  ASSUME TypeOK, [Next]_vars, faults' = 0
  PROVE  faults = 0
<1>0. faults \in Nat
  BY ConstantsAssumption DEF TypeOK
<1>1. faults' = faults \/ faults' = faults + 1
  <2>1. CASE Outside \/ Deliver \/ Crash \/ UNCHANGED vars
    BY <2>1 DEF Outside, Rescale, DeletePool, CreateTemplate, TamperPolicy, CollectPolicy, CreateClaim,
                DeleteClaim, TTLElapses, TimerFires, PodRuns, EvictPod, RemovePod, CollectPod, PodWrites,
                Deliver, DeliverPool, DeliverTemplate, DeliverPolicy, DeliverPod, DeliverClaim, Take, Crash
  <2>2. CASE PoolReconcile \/ PoolStep
    BY <2>2 DEF PoolReconcile, PoolStep, ClearPoolStatus, EnsurePolicy, EnsurePolicyFails,
                CreateSandboxPod, CreateSandboxPodFails, DeleteExcessPod, DeleteExcessPodFails,
                UpdatePoolStatus, UpdatePoolStatusFails, Refused
  <2>3. CASE (\E c \in Claims : ClaimReconcile(c)) \/ ClaimStep
    BY <2>3 DEF ClaimReconcile, ReconcileGone, ReconcileDeleted, ReconcileNoFinalizer, ReconcileFailed,
                ReconcileBound, ReconcileNew, ReconcilePending, Begin, ClaimStep, AddFinalizer,
                ReleasePod, RemoveFinalizer, MarkReleased, DeleteExpired, MarkPending, MarkFailed,
                LabelPod, BindClaim, ClaimCallRefused, ClaimCallFails, Refused
  <2> QED
    BY <2>1, <2>2, <2>3 DEF Next, Operator
<1> QED
  BY <1>0, <1>1

\* A template that was read stays the template.
LEMMA TemplateKept ==
  ASSUME TypeOK, PolicyInv, [Next]_vars, cache.tmpl # "absent"
  PROVE  cache'.tmpl = cache.tmpl /\ tmpl' = tmpl
<1>0. cache.tmpl = tmpl /\ watch.tmpl \in Seq({tmpl} \ {"absent"})
  BY DEF PolicyInv, Known
<1>1. cache'.tmpl = cache.tmpl
  <2>1. ASSUME NEW kind \in Kinds \ {"tmpl"}, NEW v, Take(kind, v) PROVE cache'.tmpl = cache.tmpl
    BY <2>1 DEF Take, TypeOK, InformersOK, CacheVal, Kinds
  <2>2. CASE DeliverTemplate
    <3>1. watch.tmpl # <<>> /\ cache'.tmpl = Head(watch.tmpl)
      BY <2>2 DEF DeliverTemplate, Take, TypeOK, InformersOK, CacheVal, Kinds
    <3>2. Head(watch.tmpl) \in {tmpl} \ {"absent"}
      BY <1>0, <3>1, HeadTailProperties
    <3> QED
      BY <1>0, <3>1, <3>2
  <2>3. CASE Crash
    BY <1>0, <2>3 DEF Crash, Listing
  <2> QED
    BY <2>1, <2>2, <2>3, WritesNext DEF Deliver, DeliverPool, DeliverPolicy, DeliverPod, DeliverClaim, Kinds
<1>2. PolicyInv'
  BY PolicyNext
<1> QED
  BY <1>0, <1>1, <1>2 DEF PolicyInv, Known

-----------------------------------------------------------------------------
(* The steps *)

\* Everybody but the pool controller leaves its reconciliation alone, and the copy it
\* holds current unless the pool changes.
LEMMA CopiesSpared ==
  ASSUME TypeOK, pool' = pool,
         Outside \/ Deliver \/ (\E c \in Claims : ClaimReconcile(c)) \/ ClaimStep \/ UNCHANGED vars
  PROVE  pr' = pr /\ fresh'.pool = fresh.pool
<1>0. fresh \in Flags
  BY DEF TypeOK, ControllersOK, Flags
<1>1. CASE Outside
  <2>1. ~Rescale /\ ~DeletePool
    <3>1. ASSUME NEW n \in 0..MaxReplicas \ {pool.replicas}, PutPool([pool EXCEPT !.replicas = n])
          PROVE  FALSE
      BY <3>1 DEF PutPool, PoolVal, TypeOK, ServerOK
    <3>2. ASSUME pool.exists, PutPool([pool EXCEPT !.exists = FALSE]) PROVE FALSE
      BY <3>2 DEF PutPool, PoolVal, TypeOK, ServerOK
    <3> QED
      BY <3>1, <3>2 DEF Rescale, DeletePool
  <2> QED
    BY <1>0, <1>1, <2>1 DEF Outside, CreateTemplate, TamperPolicy, CollectPolicy, CreateClaim,
            DeleteClaim, ClaimMoved, TTLElapses, TimerFires, PodRuns, EvictPod, RemovePod, CollectPod,
            PodWrites, PodMoved, Flags
<1>2. CASE Deliver \/ UNCHANGED vars
  BY <1>2 DEF Deliver, DeliverPool, DeliverTemplate, DeliverPolicy, DeliverPod, DeliverClaim, Take
<1>3. ASSUME NEW c \in Claims, ClaimReconcile(c) PROVE pr' = pr /\ fresh'.pool = fresh.pool
  BY <1>0, <1>3 DEF ClaimReconcile, ReconcileGone, ReconcileDeleted, ReconcileNoFinalizer,
          ReconcileFailed, ReconcileBound, ReconcileNew, ReconcilePending, Begin, CopyOf, PickPod, Flags
<1>4. CASE ClaimStep
  BY <1>0, <1>4 DEF ClaimStep, AddFinalizer, ReleasePod, RemoveFinalizer, MarkReleased, DeleteExpired,
          MarkPending, MarkFailed, LabelPod, BindClaim, ClaimCallRefused, ClaimCallFails, ClaimFails,
          ClaimDone, PickPod, Flags
<1> QED
  BY <1>1, <1>2, <1>3, <1>4

\* Nothing changed: what was sure stays sure, what was as ordered stays so.
LEMMA PoolRememberedKept ==
  ASSUME TypeOK, PolicyInv, PoolRemembered, ~PoolTold, [Next]_vars, UNCHANGED <<pool, policy, pod, pr>>,
         fresh'.pool = fresh.pool
  PROVE  PoolRemembered'
<1>1. faults' = 0 => faults = 0
  BY FaultsCounted
<1>2. cache.tmpl # "absent" => cache'.tmpl # "absent" /\ tmpl' = tmpl
  BY TemplateKept
<1>3. WarmIn(pod') = WarmIn(pod) /\ ClaimedIn(pod') = ClaimedIn(pod)
  OBVIOUS
<1>4. pr.step \in Planned => cache.tmpl # "absent"
  BY DEF PolicyInv, TemplateRead
<1>5. pr.step # "idle" /\ Sure => Sure'
  BY <1>1, <1>2, <1>3, <1>4 DEF Sure, Guarded, Counted, Enough, NotMore, Planned
<1>6. AsOrdered => AsOrdered'
  BY <1>1, <1>2, <1>3 DEF AsOrdered, Guarded, Counted, Enough, NotMore
<1> QED
  BY <1>5, <1>6 DEF PoolRemembered

\* A plan made when no event is under way rests on the stored pods.
LEMMA PlanFits ==
  ASSUME TypeOK, InStep, PoolInStep, watch.pool = <<>>, watch.pod = <<>>, NEW run,
         run = PoolPlan(pool.replicas)
  PROVE  /\ run.step \in {"create", "delete", "status"} /\ Counted(run.warm, run.claimed)
         /\ run.step # "create" => Enough
         /\ run.step = "delete" => run.candidates \subseteq WarmIn(pod)
         /\ run.step = "status" => NotMore
<1>1. pool.replicas \in Nat
  BY ConstantsAssumption DEF TypeOK, ServerOK, PoolVal
<1>2. \A p \in Pods : cache.pod[p] = pod[p]
  BY DEF InStep, Coherent, Quiet
<1>3. WarmIn(cache.pod) = WarmIn(pod) /\ ClaimedIn(cache.pod) = ClaimedIn(pod)
  <2>1. Live(cache.pod) = Live(pod)
    BY <1>2 DEF Live
  <2>2. WarmIn(cache.pod) = WarmIn(pod)
    BY <1>2, <2>1 DEF WarmIn, Live
  <2> QED
    BY <2>1, <2>2 DEF ClaimedIn
<1> DEFINE warm     == Cardinality(WarmIn(pod))
           claimed  == Cardinality(ClaimedIn(pod))
           desired  == pool.replicas
           missing  == IF warm < desired THEN desired - warm ELSE 0
           toCreate == IF missing > maxBurst THEN maxBurst ELSE missing
           excess   == IF warm > desired THEN warm - desired ELSE 0
<1>4. /\ run.step = CASE toCreate > 0 -> "create" [] excess > 0 -> "delete" [] OTHER -> "status"
      /\ run.warm = warm /\ run.claimed = claimed
      /\ run.candidates = IF excess > 0 THEN WarmIn(pod) ELSE {}
  BY <1>1, <1>3 DEF PoolPlan
<1>5. warm \in Nat /\ WarmIn(pod) \subseteq Pods
  <2>1. WarmIn(pod) \subseteq Pods
    BY DEF WarmIn, Live
  <2> QED
    BY <2>1, PodCount
<1>6. /\ toCreate > 0 <=> warm < desired
      /\ excess > 0 <=> warm > desired
  <2> SUFFICES ASSUME NEW w, w = warm PROVE
        /\ (IF (IF w < desired THEN desired - w ELSE 0) > maxBurst THEN maxBurst
            ELSE (IF w < desired THEN desired - w ELSE 0)) > 0 <=> w < desired
        /\ (IF w > desired THEN w - desired ELSE 0) > 0 <=> w > desired
    OBVIOUS
  <2> QED
    BY <1>1, <1>5 DEF maxBurst
<1> HIDE DEF toCreate, excess
<1>7. CASE toCreate > 0
  <2>1. ~(excess > 0)
    BY <1>1, <1>5, <1>6, <1>7
  <2>2. run.step = "create"
    BY <1>4, <1>7, <2>1
  <2> QED
    BY <1>4, <2>2 DEF Counted
<1>8. CASE ~(toCreate > 0) /\ excess > 0
  <2>1. run.step = "delete"
    BY <1>4, <1>8
  <2>2. warm >= desired
    BY <1>1, <1>5, <1>6, <1>8
  <2> QED
    BY <1>4, <2>1, <2>2 DEF Counted, Enough
<1>9. CASE ~(toCreate > 0) /\ ~(excess > 0)
  <2>1. run.step = "status"
    BY <1>4, <1>9
  <2>2. warm >= desired /\ warm <= desired
    BY <1>1, <1>5, <1>6, <1>9
  <2> QED
    BY <1>4, <2>1, <2>2 DEF Counted, Enough, NotMore
<1> QED
  BY <1>7, <1>8, <1>9

\* A reconciliation that nothing will follow was begun on the stored objects.
LEMMA PlanIsSure ==
  ASSUME IInv, PoolInStep, PoolReconcile, ~PoolTold'
  PROVE  PoolRemembered'
<1> USE DEF IInv, PolicyInv, UseInv
<1>1. /\ watch.pool = <<>> /\ watch.pod = <<>> /\ UNCHANGED <<pool, policy, pod, tmpl, cache, faults>>
      /\ pr.step = "idle" /\ cache.pool.replicas = pool.replicas
  BY DEF PoolReconcile, PoolTold, PoolInStep, Shows, PoolSpec
<1>2. CASE ~cache.pool.exists
  <2>1. ~pool.exists /\ pr' = pr
    BY <1>2 DEF PoolReconcile, Known
  <2> QED
    BY <1>1, <2>1 DEF PoolRemembered, AsOrdered
<1>3. CASE cache.pool.exists
  <2>1. /\ pr' = CASE cache.tmpl = "absent"  -> [PoolIdle EXCEPT !.step = "clear"]
                    [] cache.tmpl = "managed" -> PolicyRun(pool.replicas)
                    [] OTHER                  -> PoolPlan(pool.replicas)
        /\ fresh'.pool
    BY <1>1, <1>3 DEF PoolReconcile, TypeOK, ControllersOK
  <2>2. CASE cache.tmpl \in {"absent", "managed"}
    BY <1>1, <2>1, <2>2 DEF PoolRemembered, Sure, PolicyRun, PoolIdle
  <2>3. CASE cache.tmpl \notin {"absent", "managed"}
    <3>1. pr' = PoolPlan(pool.replicas)
      BY <2>1, <2>3
    <3>2. tmpl # "managed"
      BY <2>3 DEF Known
    <3> QED
      BY <1>1, <2>1, <3>1, <3>2, PlanFits DEF PoolRemembered, Sure, Guarded, Counted, Enough, NotMore
  <2> QED
    BY <2>2, <2>3
<1> QED
  BY <1>2, <1>3

\* What a reconciliation that is sure does is announced, tried again, or leaves the pool
\* as ordered.
LEMMA SureStep ==
  ASSUME IInv, PoolInStep, PoolStep, [Next]_vars, Sure, ~PoolTold, ~PoolTold', UNCHANGED <<pool, policy, pod>>
  PROVE  PoolRemembered'
<1> USE DEF IInv, UseInv
<1>0. fresh \in Flags /\ pr \in PoolRuns
  BY DEF TypeOK, ControllersOK, Flags, PoolRuns
<1>1. ~PoolDone(TRUE)
  BY DEF PoolDone, PoolTold
<1>2. WarmIn(pod') = WarmIn(pod) /\ ClaimedIn(pod') = ClaimedIn(pod)
  OBVIOUS
<1>3. CASE EnsurePolicy
  <2>1. /\ policy = "desired" /\ pr' = PoolPlan(pr.desired) /\ fresh'.pool = fresh.pool /\ pr.step = "policy"
        /\ UNCHANGED <<faults>>
    BY <1>0, <1>3 DEF EnsurePolicy, PutPolicy, Flags
  <2>2. watch.pool = <<>> /\ watch.pod = <<>> /\ fresh.pool /\ pr.desired = pool.replicas
    BY <2>1 DEF PoolTold, Sure
  <2> QED
    BY <1>2, <2>1, <2>2, PlanFits DEF PoolRemembered, Sure, Guarded, Counted, Enough, NotMore
<1>4. ~CreateSandboxPod
  <2> SUFFICES ASSUME NEW p \in Pods, PodNameFree(p), PutPod(p, NewPod) PROVE FALSE
    BY DEF CreateSandboxPod
  <2>1. pod'[p] = NewPod /\ pod[p] = NoPod
    BY DEF PodNameFree, PutPod, TypeOK, ServerOK
  <2> QED
    BY <2>1, ValueTypes
<1>5. ASSUME NEW p \in Pods, DeleteExcessPod(p) PROVE FALSE
  <2>1. p \in WarmIn(pod) /\ PutPod(p, Doomed(p))
    BY <1>5 DEF DeleteExcessPod, Sure
  <2>2. pod[p].phase # "absent" /\ ~pod[p].del /\ pod[p] \in PodVal
    BY <2>1 DEF WarmIn, Live, TypeOK, ServerOK
  <2>3. Doomed(p).del
    BY <2>2 DEF Doomed, NoPod, PodVal
  <2>4. pod'[p] = Doomed(p)
    BY <2>1 DEF PutPod, TypeOK, ServerOK
  <2> QED
    BY <2>2, <2>3, <2>4
<1>6. ASSUME NEW p \in Pods, DeleteExcessPodFails(p) PROVE PoolRemembered'
  <2>1. /\ faults \in Nat /\ faults' = faults + 1 /\ fresh' = fresh /\ UNCHANGED <<tmpl, cache>>
        /\ pr.step = "delete"
        /\ pr'.step \in {"delete", "status"} /\ pr'.warm = pr.warm /\ pr'.claimed = pr.claimed
        /\ pr'.candidates \subseteq pr.candidates
    BY <1>0, <1>6, ConstantsAssumption
       DEF DeleteExcessPodFails, Refused, DeletedSoFar, PoolRuns, TypeOK
  <2>2. faults' # 0
    BY <2>1
  <2> QED
    BY <1>2, <2>1, <2>2 DEF PoolRemembered, Sure, Guarded, Counted, Enough, NotMore
<1>7. CASE UpdatePoolStatus
  <2>1. /\ pool.exists /\ pr'.step = "idle" /\ pr.step = "status" /\ fresh.pool
        /\ UNCHANGED <<tmpl, cache, faults>>
    BY <1>7 DEF UpdatePoolStatus, PoolDone, PoolTold, PoolIdle, Sure
  <2>2. PutPool([pool EXCEPT !.available = pr.warm, !.active = pr.claimed])
    BY <1>7, <2>1 DEF UpdatePoolStatus
  <2>3. pool.available = pr.warm /\ pool.active = pr.claimed
    BY <2>2 DEF PutPool, PoolVal, TypeOK, ServerOK
  <2>4. cache.tmpl # "absent"
    BY <2>1 DEF PolicyInv, TemplateRead, Planned
  <2> QED
    BY <1>2, <2>1, <2>3, <2>4 DEF PoolRemembered, Sure, AsOrdered, Guarded, Counted, Enough, NotMore
<1> QED
  BY <1>1, <1>3, <1>4, <1>5, <1>6, <1>7
     DEF PoolStep, ClearPoolStatus, EnsurePolicyFails, CreateSandboxPodFails, UpdatePoolStatusFails

LEMMA PoolRememberedNext ==
  ASSUME IInv, PoolInStep, PoolRemembered, [Next]_vars
  PROVE  PoolRemembered'
<1> SUFFICES ASSUME ~PoolTold' PROVE PoolRemembered'
  BY DEF PoolRemembered
<1>1. UNCHANGED <<pool, policy, pod>>
  BY ChangeAnnounced DEF IInv
<1>2. CASE PoolReconcile
  BY <1>2, PlanIsSure
<1>3. CASE ~PoolReconcile
  <2>1. ~PoolTold
    BY <1>3, PoolToldKept DEF IInv
  <2>2. CASE PoolStep
    <3>1. pr.step # "idle"
      BY <2>2 DEF PoolStep, ClearPoolStatus, EnsurePolicy, EnsurePolicyFails, CreateSandboxPod,
                  CreateSandboxPodFails, DeleteExcessPod, DeleteExcessPodFails, UpdatePoolStatus,
                  UpdatePoolStatusFails
    <3>2. Sure
      BY <2>1, <3>1 DEF PoolRemembered
    <3> QED
      BY <1>1, <2>1, <2>2, <3>2, SureStep
  <2>3. ~Crash
    BY DEF Crash, PoolTold
  <2>4. CASE ~PoolStep
    <3>1. Outside \/ Deliver \/ (\E c \in Claims : ClaimReconcile(c)) \/ ClaimStep \/ UNCHANGED vars
      BY <1>3, <2>3, <2>4 DEF Next, Operator
    <3>2. pr' = pr /\ fresh'.pool = fresh.pool
      BY <1>1, <3>1, CopiesSpared DEF IInv
    <3> QED
      BY <1>1, <2>1, <3>2, PoolRememberedKept DEF IInv
  <2> QED
    BY <2>2, <2>4
<1> QED
  BY <1>2, <1>3

LEMMA PoolIsRemembered == Spec => [](PoolInStep /\ PolicyInStep /\ PoolRemembered)
<1>1. Init => PoolInStep /\ PolicyInStep /\ PoolRemembered
  BY DEF Init, ClusterInit, Listing, Kinds, PoolInStep, PolicyInStep, Shows, PoolRemembered, PoolTold
<1>2. IInv /\ PoolInStep /\ PolicyInStep /\ PoolRemembered /\ [Next]_vars
        => PoolInStep' /\ PolicyInStep' /\ PoolRemembered'
  BY PoolInStepNext, PoolRememberedNext DEF IInv
<1> QED
  BY <1>1, <1>2, Inductive, PTL DEF Spec

LEMMA SettledIsAsOrdered ==
  ASSUME PoolRemembered, Settled
  PROVE  AsOrdered
<1>1. ~PoolTold /\ pr.step = "idle"
  BY DEF Settled, PoolTold, Kinds
<1> QED
  BY <1>1 DEF PoolRemembered

\* In a settled state the sandbox pool is as ordered (SettledPoolIsAsOrdered): enough warm
\* pods, too many only if a call failed, a status that counts them, and the NetworkPolicy
\* a managed template asks for, whatever was claimed, evicted, tampered with or lost.
THEOREM PoolIsAsOrdered == Spec => []SettledPoolIsAsOrdered
<1>1. PoolRemembered => SettledPoolIsAsOrdered
  BY SettledIsAsOrdered
     DEF SettledPoolIsAsOrdered, AsOrdered, Enough, NotMore, Counted, Guarded
<1> QED
  BY <1>1, PoolIsRemembered, PTL

=============================================================================

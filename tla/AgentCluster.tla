---------------------------- MODULE AgentCluster ----------------------------
(***************************************************************************)
(* The objects one AgentWarmPool is made of, as the API server holds them  *)
(* and as the operator's informers see them, with everything that acts on  *)
(* them except the operator's two reconcilers: users, the gateway that     *)
(* claims agents, the kubelet, evictions, the garbage collector, the       *)
(* delivery of watch events, and a restart of the operator.                *)
(*                                                                         *)
(* AgentPoolController and AgentInstanceController add the reconcilers,    *)
(* AgentSystem composes the three.                                         *)
(***************************************************************************)
EXTENDS Informer, FiniteSets

CONSTANTS
  Instances,    \* names of AgentInstances
  Pods,         \* names of Pods
  None,         \* the empty name
  Env,          \* the environment events a run explores, see EnvEvents
  MaxReplicas,  \* bound on spec.replicas
  MaxLag,       \* bound: users, gateway, kubelet act while fewer events are in flight
  MaxFaults     \* bound on crashes and API errors together

EnvEvents == {"rescale", "deletePool", "claim", "podEnds", "evict", "crash", "error"}

ASSUME ConstantsAssumption ==
  /\ IsFiniteSet(Instances)
  /\ None \notin Instances \cup Pods
  /\ Env \subseteq EnvEvents
  /\ MaxReplicas \in Nat
  /\ MaxLag \in Nat
  /\ MaxFaults \in Nat

VARIABLES
  \* API server
  pool,       \* spec.replicas and status of the pool
  inst,       \* status.state and status.podName of every instance
  pod,        \* phase, owner and deletion mark of every pod
  \* informers of the operator
  poolCache, instCache, podCache,
  poolWatch, instWatch, podWatch,
  \* work queues: the pool's key is queued or not, and the queued instances
  poolQueue, instQueue,
  \* reconciliations in progress, at most one of each controller
  pr, ir,
  fresh,      \* which of the copies they hold are at the resourceVersion stored
  faults      \* crashes and API errors so far

server == <<pool, inst, pod>>
caches == <<poolCache, instCache, podCache>>
watches == <<poolWatch, instWatch, podWatch>>
queues == <<poolQueue, instQueue>>
vars == <<server, caches, watches, queues, pr, ir, fresh, faults>>

-----------------------------------------------------------------------------
(* Objects *)

\* AgentWarmPool: spec.replicas, status.readyReplicas, status.activeReplicas,
\* and whether the Available condition has been added.  Of a pool the informer keeps
\* what the controller reads: that it exists, and spec.replicas.
PoolVal  == [exists : BOOLEAN, replicas : 0..MaxReplicas,
             ready : Nat, active : Nat, available : BOOLEAN]
PoolCopy == [exists : BOOLEAN, replicas : 0..MaxReplicas]
PoolSpec(v) == [exists |-> v.exists, replicas |-> v.replicas]

\* AgentInstance: "new" is the empty state of an instance just created.
LiveStates == {"new", "pending", "warm", "active", "terminating"}
InstVal == [state : LiveStates \cup {"absent"}, pod : Pods \cup {None}]
NoInst  == [state |-> "absent", pod |-> None]
NewInst == [state |-> "new", pod |-> None]

\* Pod: "Ended" is Succeeded or Failed; inst is the volund.ai/instance label
\* and the controller reference; del is a DeletionTimestamp.
PodVal == [phase : {"absent", "Pending", "Running", "Ended"},
           inst : Instances \cup {None}, del : BOOLEAN]
NoPod     == [phase |-> "absent", inst |-> None, del |-> FALSE]
NewPod(i) == [phase |-> "Pending", inst |-> i, del |-> FALSE]

PodsOf(i) == {p \in Pods : pod[p].inst = i}
InState(s) == {i \in Instances : inst[i].state = s}

\* A reconciliation of the pool: instances still to create, warm instances
\* still to mark, the counts for the status, and whether to come back early.
PoolIdle == [step |-> "idle", create |-> 0, early |-> FALSE, victims |-> {},
             ready |-> 0, active |-> 0, pending |-> FALSE]
PoolRun == [step : {"idle", "create", "mark", "status"}, create : 0..2,
            early : BOOLEAN, victims : SUBSET Instances,
            ready : Nat, active : Nat, pending : BOOLEAN]

\* A reconciliation of an instance: the status to write, the pods to delete.
InstIdle == [step |-> "idle", key |-> None, want |-> NoInst, pods |-> {}]
InstRun == [step : {"idle", "create", "status", "pods", "delete"},
            key : Instances \cup {None}, want : InstVal, pods : SUBSET Pods]

\* pool: the pool controller's copy of the pool is current; list: its current
\* copies of instances; inst: the instance controller's copy is current.
Fresh   == [pool : BOOLEAN, list : SUBSET Instances, inst : BOOLEAN]
NoFresh == [pool |-> FALSE, list |-> {}, inst |-> FALSE]

-----------------------------------------------------------------------------
(* Writes accepted by the API server *)

PutPool(v) ==
  /\ pool' = v
  /\ poolWatch' = IF v = pool THEN poolWatch ELSE Append(poolWatch, PoolSpec(v))

PutInst(i, v) ==
  /\ inst' = [inst EXCEPT ![i] = v]
  /\ instWatch' = IF v = inst[i] THEN instWatch ELSE Append(instWatch, Event(i, v))

PutPod(p, v) ==
  /\ pod' = [pod EXCEPT ![p] = v]
  /\ podWatch' = IF v = pod[p] THEN podWatch ELSE Append(podWatch, Event(p, v))

\* The copies of i that the reconcilers hold are not current any more.
Outdated(i) == [fresh EXCEPT !.list = @ \ {i}, !.inst = @ /\ ir.key # i]

\* GenerateName never returns a name in use.  A name may come back once nothing
\* mentions it, so that runs of any length need only finitely many names.
InstNameFree(i) ==
  /\ inst[i] = NoInst /\ instCache[i] = NoInst /\ Quiet(instWatch, i)
  /\ i \notin instQueue /\ i \notin pr.victims /\ ir.key # i
  /\ \A p \in Pods : pod[p].inst # i /\ podCache[p].inst # i
  /\ \A n \in DOMAIN podWatch : podWatch[n].val.inst # i

PodNameFree(p) ==
  /\ pod[p] = NoPod /\ podCache[p] = NoPod /\ Quiet(podWatch, p)
  /\ ir.want.pod # p /\ p \notin ir.pods
  /\ \A i \in Instances : inst[i].pod # p /\ instCache[i].pod # p
  /\ \A n \in DOMAIN instWatch : instWatch[n].val.pod # p

-----------------------------------------------------------------------------
(* Initial state: a user created the pool and the operator saw it *)

ClusterInit ==
  /\ pool \in {[exists |-> TRUE, replicas |-> n, ready |-> 0, active |-> 0,
                available |-> FALSE] : n \in 0..MaxReplicas}
  /\ inst = [i \in Instances |-> NoInst]
  /\ pod = [p \in Pods |-> NoPod]
  /\ poolCache = PoolSpec(pool) /\ instCache = inst /\ podCache = pod
  /\ poolWatch = <<>> /\ instWatch = <<>> /\ podWatch = <<>>
  /\ poolQueue = TRUE /\ instQueue = {}
  /\ pr = PoolIdle /\ ir = InstIdle /\ fresh = NoFresh
  /\ faults = 0

-----------------------------------------------------------------------------
(* Users and the gateway *)

outside == <<caches, queues, pr, ir, faults>>

Rescale ==
  /\ "rescale" \in Env /\ pool.exists /\ Len(poolWatch) < MaxLag
  /\ \E n \in 0..MaxReplicas \ {pool.replicas} :
       PutPool([pool EXCEPT !.replicas = n])
  /\ fresh' = [fresh EXCEPT !.pool = FALSE]
  /\ UNCHANGED <<inst, pod, instWatch, podWatch, outside>>

DeletePool ==
  /\ "deletePool" \in Env /\ pool.exists /\ Len(poolWatch) < MaxLag
  /\ PutPool([pool EXCEPT !.exists = FALSE])
  /\ fresh' = [fresh EXCEPT !.pool = FALSE]
  /\ UNCHANGED <<inst, pod, instWatch, podWatch, outside>>

\* The gateway writes status.state based on a current read.
GatewayWrites(i, from, to) ==
  /\ "claim" \in Env /\ inst[i].state = from /\ Len(instWatch) < MaxLag
  /\ PutInst(i, [inst[i] EXCEPT !.state = to])
  /\ fresh' = Outdated(i)
  /\ UNCHANGED <<pool, pod, poolWatch, podWatch, outside>>

ClaimInstance(i)   == GatewayWrites(i, "warm", "active")
ReleaseInstance(i) == GatewayWrites(i, "active", "warm")

-----------------------------------------------------------------------------
(* The kubelet, evictions and the garbage collector *)

PodWrites(p, v) ==
  /\ PutPod(p, v)
  /\ UNCHANGED <<pool, inst, poolWatch, instWatch, fresh, outside>>

PodRuns(p) ==
  /\ pod[p].phase = "Pending" /\ ~pod[p].del /\ Len(podWatch) < MaxLag
  /\ PodWrites(p, [pod[p] EXCEPT !.phase = "Running"])

PodEnds(p) ==
  /\ "podEnds" \in Env /\ pod[p].phase \in {"Pending", "Running"}
  /\ Len(podWatch) < MaxLag
  /\ PodWrites(p, [pod[p] EXCEPT !.phase = "Ended"])

EvictPod(p) ==
  /\ "evict" \in Env /\ pod[p].phase # "absent" /\ ~pod[p].del
  /\ Len(podWatch) < MaxLag
  /\ PodWrites(p, [pod[p] EXCEPT !.del = TRUE])

\* The end of a graceful deletion.
RemovePod(p) ==
  /\ pod[p].del
  /\ PodWrites(p, NoPod)

\* The owner references make instances go with their pool, pods with their
\* instance.
CollectInstance(i) ==
  /\ ~pool.exists /\ inst[i].state # "absent"
  /\ PutInst(i, NoInst)
  /\ fresh' = Outdated(i)
  /\ UNCHANGED <<pool, pod, poolWatch, podWatch, outside>>

CollectPod(p) ==
  /\ pod[p].phase # "absent" /\ ~pod[p].del /\ inst[pod[p].inst].state = "absent"
  /\ PodWrites(p, [pod[p] EXCEPT !.del = TRUE])

-----------------------------------------------------------------------------
(* Watch events reach the operator: the cache is updated and the keys that  *)
(* For and Owns select are queued.                                          *)

DeliverPool ==
  /\ poolWatch # <<>>
  /\ poolCache' = Head(poolWatch)
  /\ poolWatch' = Tail(poolWatch)
  /\ poolQueue' = TRUE
  /\ UNCHANGED <<server, instCache, podCache, instWatch, podWatch, instQueue,
                 pr, ir, fresh, faults>>

\* [mutant] SetupWithManager without Owns(&AgentInstance{}).
DeliverInstanceUnowned ==
  /\ instWatch # <<>>
  /\ instCache' = Apply(instCache, Head(instWatch))
  /\ instWatch' = Tail(instWatch)
  /\ instQueue' = instQueue \cup {Head(instWatch).key}
  /\ UNCHANGED <<server, poolCache, podCache, poolWatch, podWatch, poolQueue, pr, ir, fresh, faults>>

DeliverInstance ==
  /\ instWatch # <<>>
  /\ instCache' = Apply(instCache, Head(instWatch))
  /\ instWatch' = Tail(instWatch)
  /\ instQueue' = instQueue \cup {Head(instWatch).key}
  /\ poolQueue' = TRUE
  /\ UNCHANGED <<server, poolCache, podCache, poolWatch, podWatch, pr, ir, fresh, faults>>

\* [mutant] SetupWithManager without Owns(&corev1.Pod{}).
DeliverPodUnowned ==
  /\ podWatch # <<>>
  /\ podCache' = Apply(podCache, Head(podWatch))
  /\ podWatch' = Tail(podWatch)
  /\ UNCHANGED <<server, poolCache, instCache, poolWatch, instWatch, queues, pr, ir, fresh, faults>>

\* A deletion carries the last object the cache knew, so the owner is known.
DeliverPod ==
  /\ podWatch # <<>>
  /\ LET e == Head(podWatch)
         owner == IF e.val = NoPod THEN podCache[e.key].inst ELSE e.val.inst
     IN  /\ podCache' = Apply(podCache, e)
         /\ instQueue' = instQueue \cup ({owner} \ {None})
  /\ podWatch' = Tail(podWatch)
  /\ UNCHANGED <<server, poolCache, instCache, poolWatch, instWatch, poolQueue,
                 pr, ir, fresh, faults>>

\* The operator dies and is started again: in-memory state is gone, the
\* informers list everything before the first reconciliation and every object
\* listed is queued.
Crash ==
  /\ "crash" \in Env /\ faults < MaxFaults
  /\ faults' = faults + 1
  /\ poolCache' = PoolSpec(pool) /\ instCache' = inst /\ podCache' = pod
  /\ poolWatch' = <<>> /\ instWatch' = <<>> /\ podWatch' = <<>>
  /\ poolQueue' = TRUE
  /\ instQueue' = (Instances \ InState("absent")) \cup ({pod[p].inst : p \in Pods} \ {None})
  /\ pr' = PoolIdle /\ ir' = InstIdle /\ fresh' = NoFresh
  /\ UNCHANGED server

\* An API call of the operator fails: it is refused for want of a free name (a
\* quota), or by an error the run injects.
Refused(hasName) ==
  \/ ~hasName /\ UNCHANGED faults
  \/ "error" \in Env /\ faults < MaxFaults /\ faults' = faults + 1

Deliver == DeliverPool \/ DeliverInstance \/ DeliverPod

Outside ==
  \/ Rescale \/ DeletePool
  \/ \E i \in Instances : ClaimInstance(i) \/ ReleaseInstance(i) \/ CollectInstance(i)
  \/ \E p \in Pods : PodRuns(p) \/ PodEnds(p) \/ EvictPod(p) \/ RemovePod(p) \/ CollectPod(p)

=============================================================================

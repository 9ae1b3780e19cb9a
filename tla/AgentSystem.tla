---------------------------- MODULE AgentSystem ----------------------------
(***************************************************************************)
(* The agent half of the operator: the pool controller, the instance       *)
(* controller and the cluster they share (cmd/operator/main.go registers   *)
(* both with one manager, each with one worker).                           *)
(***************************************************************************)
EXTENDS AgentPoolController, AgentInstanceController

Init == ClusterInit

Operator ==
  \/ PoolReconcile \/ PoolStep
  \/ (\E i \in Instances : InstReconcile(i)) \/ InstStep

Next == Outside \/ Deliver \/ Crash \/ Operator

Spec == Init /\ [][Next]_vars

(* Watches deliver, the worker of each controller runs what is queued and  *)
(* finishes what it began, the work queue is first in first out so a key   *)
(* that keeps coming back is served (hence SF), the kubelet finishes       *)
(* deletions and the garbage collector collects.  Nobody promises that     *)
(* pods start, that users or the gateway act, or that calls fail.          *)
Fairness ==
  /\ WF_vars(DeliverPool) /\ WF_vars(DeliverInstance) /\ WF_vars(DeliverPod)
  /\ WF_vars(PoolReconcile) /\ WF_vars(PoolStep)
  /\ \A i \in Instances : SF_vars(InstReconcile(i))
  /\ WF_vars(InstStep)
  /\ \A p \in Pods : WF_vars(RemovePod(p)) /\ WF_vars(CollectPod(p))
  /\ \A i \in Instances : WF_vars(CollectInstance(i))

FairSpec == Spec /\ Fairness

-----------------------------------------------------------------------------
(* Invariants *)

ServerOK ==
  /\ pool \in PoolVal
  /\ inst \in [Instances -> InstVal]
  /\ pod \in [Pods -> PodVal]

CachesOK ==
  /\ poolCache \in PoolCopy
  /\ instCache \in [Instances -> InstVal]
  /\ podCache \in [Pods -> PodVal]

WatchesOK ==
  /\ poolWatch \in Seq(PoolCopy)
  /\ instWatch \in Seq([key : Instances, val : InstVal])
  /\ podWatch \in Seq([key : Pods, val : PodVal])

ControllersOK ==
  /\ poolQueue \in BOOLEAN
  /\ instQueue \in SUBSET Instances
  /\ pr \in PoolRun
  /\ ir \in InstRun
  /\ ir.step # "idle" => ir.key \in Instances
  /\ fresh \in Fresh

\* Every variable holds a value the code could store in it, the caches and the
\* watches hold objects of their kind, and a reconciliation under way names an
\* instance.
TypeOK == ServerOK /\ CachesOK /\ WatchesOK /\ ControllersOK /\ faults \in 0..MaxFaults

\* Nothing is left for the operator to do: all watches are drained, both
\* queues are empty and both workers idle.
Settled ==
  /\ watches = <<<<>>, <<>>, <<>>>>
  /\ queues = <<FALSE, {}>>
  /\ pr = PoolIdle /\ ir = InstIdle

\* Once the operator has nothing left to do, the pool is as ordered: spec.replicas
\* warm instances (a surplus only after a fault: the code does not retry a failed
\* retirement) and a status that counts them and the active ones
\* (AgentWarmPoolStatus), whatever was claimed or failed.
SettledPoolIsAsOrdered ==
  Settled /\ pool.exists =>
    /\ Cardinality(InState("warm")) >= pool.replicas
    /\ faults = 0 => Cardinality(InState("warm")) <= pool.replicas
    /\ pool.ready = Cardinality(InState("warm"))
    /\ pool.active = Cardinality(InState("active"))

\* Once the operator has nothing left to do, an instance that is offered or in
\* use has a pod that has not ended, and an instance being retired only waits
\* for pods that the kubelet is already removing (reconcileRunning,
\* reconcileTerminating).
SettledInstancesMatchPods ==
  Settled => \A i \in Instances :
    /\ inst[i].state \in {"warm", "active"} =>
         \E p \in PodsOf(i) : pod[p].phase # "Ended"
    /\ inst[i].state = "terminating" =>
         PodsOf(i) # {} /\ \A p \in PodsOf(i) : pod[p].del

\* An instance is recycled because its "Pod disappeared" (reconcileRunning) only if the
\* pod that its status names has gone: however far the list of pods is behind the copy
\* of the instance, a pod seen running is not missing from it while it exists.
PodGoneIsGone ==
  \A i \in Instances :
    instCache[i].state \in {"warm", "active"} /\ Seen(i) = {} => pod[instCache[i].pod].inst # i

-----------------------------------------------------------------------------
(* Action properties *)

\* Scale down never takes an instance away from the gateway: when the pool
\* controller retires an instance it is warm at that moment, although the
\* controller decided on a cached copy and the gateway may have claimed the
\* instance since ("Only terminate warm (idle) instances, never pending or
\* active").
ScaleDownOnlyIdle ==
  [][\A i \in pr.victims : pr' # pr /\ inst'[i] # inst[i] => inst[i].state = "warm"]_vars

\* The instance controller deletes a pod only if the instance it serves is
\* being retired or gone: no agent is killed on stale information.
KillsOnlyRetired ==
  [][\A p \in Pods : p \in ir.pods /\ ir' # ir /\ pod'[p] # pod[p]
       => inst[pod[p].inst].state \in {"terminating", "absent"}]_vars

\* Nothing is left to be done: the pool is as ordered and says so, and every instance
\* has the pods its state calls for.
InOrder ==
  /\ pool.exists /\ pool.available
  /\ Cardinality(InState("warm")) = pool.replicas
  /\ pool.ready = Cardinality(InState("warm"))
  /\ pool.active = Cardinality(InState("active"))
  /\ \A i \in Instances :
       /\ inst[i].state \notin {"new", "pending"}
       /\ inst[i].state # "absent" => PodsOf(i) # {}
       /\ inst[i].state \in {"warm", "active"} => \A p \in PodsOf(i) : pod[p].phase # "Ended"
       /\ inst[i].state = "terminating" => \A p \in PodsOf(i) : pod[p].del

\* The operator knows of it; keys may be queued, and the pool may be looked at.
AtRest ==
  /\ ir.step = "idle"
  /\ watches = <<<<>>, <<>>, <<>>>>
  /\ InOrder
  /\ caches = <<PoolSpec(pool), inst, pod>>
  /\ \/ pr.step = "idle"
     \/ pr.step = "status" /\ pr.ready = pool.ready /\ pr.active = pool.active

\* A settled system is in order, but for the surplus a failed retirement leaves and
\* an instance that was given a second pod on a stale list.
Orderly ==
  /\ Settled /\ pool.exists
  /\ Cardinality(InState("warm")) <= pool.replicas
  /\ \A i \in Instances : \A p, q \in PodsOf(i) : p = q

\* The operator leaves a system in order alone: whatever is queued, fails or is
\* restarted, it writes nothing until somebody else does, and so its own status
\* updates do not keep it busy.  Steps of others leave outside unchanged.
RestIsStable ==
  [][(AtRest \/ Orderly) /\ outside' # outside => AtRest' /\ UNCHANGED server]_vars

\* Every instance follows the life cycle of InstanceLifecycle, so nothing ever
\* revives an instance being retired or retires one that does not serve.
Lifecycle == INSTANCE InstanceLifecycle
               WITH state <- [i \in Instances |-> inst[i].state], open <- pool.exists

ImplementsLifecycle == Lifecycle!Spec

-----------------------------------------------------------------------------
(* Liveness *)

\* An instance being retired is eventually gone, its pods before it.
RetiredIsRemoved ==
  \A i \in Instances : inst[i].state = "terminating" ~> inst[i].state = "absent"

\* An instance does not go on serving with nothing but dead pods: it is retired,
\* or was given another pod.
NothingAlive(i) ==
  /\ inst[i].state \in {"warm", "active"}
  /\ \A p \in PodsOf(i) : pod[p].phase = "Ended"

DeadIsNoticed == \A i \in Instances : NothingAlive(i) ~> ~NothingAlive(i)

-----------------------------------------------------------------------------
(* What the repository says and the code does not do *)

\* "should not create more instances than desired (no runaway)"
\* (agentpool_controller_test.go): with spec.replicas never changed and nothing
\* claimed, no more instances than that are pending or warm.
NoRunaway ==
  Cardinality({i \in Instances : inst[i].state \in {"new", "pending", "warm"}}) <= pool.replicas

\* "pending instances are in-flight toward becoming warm"
\* (agentpool_controller.go): a pending instance whose pods have all ended does
\* not stay so.
PendingOnDeadPods(i) ==
  /\ inst[i].state = "pending" /\ PodsOf(i) # {}
  /\ \A p \in PodsOf(i) : pod[p].phase = "Ended"

PendingIsInFlight == \A i \in Instances : PendingOnDeadPods(i) ~> ~PendingOnDeadPods(i)

=============================================================================

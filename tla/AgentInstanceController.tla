---------------------- MODULE AgentInstanceController ----------------------
(***************************************************************************)
(* AgentInstanceReconciler.Reconcile (agentinstance_controller.go).  The   *)
(* Reconcile... actions read the caches and dispatch on the state, the     *)
(* others are the API calls that follow, one per step.                     *)
(***************************************************************************)
EXTENDS AgentCluster

\* The pods a List by the volund.ai/instance label returns, in any order:
\* Items[0] is any one of them.
Seen(i) == {p \in Pods : podCache[p].inst = i}

InstStart(i, run) ==
  /\ ir' = run
  /\ fresh' = [fresh EXCEPT !.inst = Quiet(instWatch, i)]

InstDone(requeue) ==
  /\ ir' = InstIdle
  /\ instQueue' = IF requeue THEN instQueue \cup {ir.key} ELSE instQueue
  /\ UNCHANGED poolQueue

Dequeue(i, states) ==
  /\ ir.step = "idle" /\ i \in instQueue /\ instCache[i].state \in states
  /\ instQueue' = instQueue \ {i}
  /\ UNCHANGED <<server, caches, watches, poolQueue, pr, faults>>

ReconcileGone(i) ==
  /\ Dequeue(i, {"absent"})
  /\ UNCHANGED <<ir, fresh>>

Run(i, step) == [InstIdle EXCEPT !.key = i, !.step = step]

ReconcilePending(i) ==
  /\ Dequeue(i, {"new", "pending"})
  /\ \/ Seen(i) = {} /\ InstStart(i, Run(i, "create"))
     \/ \E p \in Seen(i) :
          LET state == IF podCache[p].phase = "Running" THEN "warm" ELSE instCache[i].state
          IN  InstStart(i, [Run(i, "status") EXCEPT !.want = [state |-> state, pod |-> p]])

\* [mutant] a finished pod is cleaned up at once, the instance is not retired.
CleanUpWhileRunning(i) ==
  /\ Dequeue(i, {"warm", "active"})
  /\ \/ \A p \in Seen(i) : podCache[p].phase # "Ended" /\ UNCHANGED <<ir, fresh>>
     \/ \E p \in Seen(i) :
          /\ podCache[p].phase = "Ended"
          /\ InstStart(i, [Run(i, "pods") EXCEPT !.pods = {p}])

\* [mutant] only a pod that disappeared counts as dead.
IgnoreFinished(i) ==
  /\ Dequeue(i, {"warm", "active"})
  /\ \/ /\ Seen(i) = {}
        /\ InstStart(i, [Run(i, "status") EXCEPT
                            !.want = [instCache[i] EXCEPT !.state = "terminating"]])
     \/ Seen(i) # {} /\ UNCHANGED <<ir, fresh>>

ReconcileRunning(i) ==
  LET recycle == [instCache[i] EXCEPT !.state = "terminating"] IN
  /\ Dequeue(i, {"warm", "active"})
  /\ \/ Seen(i) = {} /\ InstStart(i, [Run(i, "status") EXCEPT !.want = recycle])
     \/ \E p \in Seen(i) :
          IF podCache[p].phase = "Ended"
          THEN InstStart(i, [Run(i, "status") EXCEPT !.want = recycle])
          ELSE UNCHANGED <<ir, fresh>>

\* [mutant] the pods are deleted, and the instance is left to the garbage collector.
CleanUpPodsOnly(i) ==
  LET doomed == {p \in Seen(i) : ~podCache[p].del} IN
  /\ Dequeue(i, {"terminating"})
  /\ \/ doomed # {} /\ InstStart(i, [Run(i, "pods") EXCEPT !.pods = doomed])
     \/ doomed = {} /\ UNCHANGED <<ir, fresh>>

ReconcileTerminating(i) ==
  LET doomed == {p \in Seen(i) : ~podCache[p].del} IN
  /\ Dequeue(i, {"terminating"})
  /\ \/ Seen(i) = {} /\ InstStart(i, Run(i, "delete"))
     \/ doomed # {} /\ InstStart(i, [Run(i, "pods") EXCEPT !.pods = doomed])
     \/ Seen(i) # {} /\ doomed = {} /\ UNCHANGED <<ir, fresh>>

\* [mutant] the status is warm as soon as the pod has been created.
WarmAtOnce ==
  /\ ir.step = "create"
  /\ \E p \in Pods :
       /\ PodNameFree(p)
       /\ PutPod(p, NewPod(ir.key))
       /\ ir' = [ir EXCEPT !.step = "status", !.want = [state |-> "warm", pod |-> p]]
  /\ UNCHANGED <<pool, inst, caches, poolWatch, instWatch, queues, pr, fresh, faults>>

CreatePod ==
  /\ ir.step = "create"
  /\ \E p \in Pods :
       /\ PodNameFree(p)
       /\ PutPod(p, NewPod(ir.key))
       /\ ir' = [ir EXCEPT !.step = "status", !.want = [state |-> "pending", pod |-> p]]
  /\ UNCHANGED <<pool, inst, caches, poolWatch, instWatch, queues, pr, fresh, faults>>

CreatePodFails ==
  /\ ir.step = "create"
  /\ Refused(\E p \in Pods : PodNameFree(p))
  /\ InstDone(TRUE)
  /\ fresh' = [fresh EXCEPT !.inst = FALSE]
  /\ UNCHANGED <<server, caches, watches, pr>>

\* [mutant] the status is written whatever the resourceVersion.
OverwriteInstanceStatus ==
  /\ ir.step = "status" /\ inst[ir.key] # NoInst
  /\ PutInst(ir.key, ir.want)
  /\ fresh' = Outdated(ir.key)
  /\ InstDone(FALSE)
  /\ UNCHANGED <<pool, pod, caches, poolWatch, podWatch, pr, faults>>

\* A Conflict is ignored, an instance that is gone is an error.
UpdateInstanceStatus ==
  LET i == ir.key IN
  /\ ir.step = "status"
  /\ \/ /\ fresh.inst
        /\ PutInst(i, ir.want)
        /\ fresh' = [(IF ir.want = inst[i] THEN fresh ELSE Outdated(i)) EXCEPT !.inst = FALSE]
        /\ InstDone(FALSE)
     \/ /\ ~fresh.inst
        /\ InstDone(inst[i].state = "absent")
        /\ UNCHANGED <<inst, instWatch, fresh>>
  /\ UNCHANGED <<pool, pod, caches, poolWatch, podWatch, pr, faults>>

\* Deleting a pod that is gone or on its way out changes nothing.
DeletePod(p) ==
  /\ ir.step = "pods" /\ p \in ir.pods
  /\ IF pod[p] = NoPod \/ pod[p].del
     THEN UNCHANGED <<pod, podWatch>>
     ELSE PutPod(p, [pod[p] EXCEPT !.del = TRUE])
  /\ IF ir.pods = {p}
     THEN InstDone(FALSE) /\ fresh' = [fresh EXCEPT !.inst = FALSE]
     ELSE ir' = [ir EXCEPT !.pods = @ \ {p}] /\ UNCHANGED <<queues, fresh>>
  /\ UNCHANGED <<pool, inst, caches, poolWatch, instWatch, pr, faults>>

\* Delete carries no precondition: the copy need not be current.
DeleteInstance ==
  /\ ir.step = "delete"
  /\ PutInst(ir.key, NoInst)
  /\ fresh' = Outdated(ir.key)
  /\ InstDone(FALSE)
  /\ UNCHANGED <<pool, pod, caches, poolWatch, podWatch, pr, faults>>

\* The error is returned, and the key queued again.
InstanceCallFails ==
  /\ ir.step \in {"status", "pods", "delete"}
  /\ Refused(TRUE)
  /\ InstDone(TRUE)
  /\ fresh' = [fresh EXCEPT !.inst = FALSE]
  /\ UNCHANGED <<server, caches, watches, pr>>

InstReconcile(i) ==
  ReconcileGone(i) \/ ReconcilePending(i) \/ ReconcileRunning(i) \/ ReconcileTerminating(i)

InstStep ==
  \/ CreatePod \/ CreatePodFails
  \/ UpdateInstanceStatus
  \/ \E p \in Pods : DeletePod(p)
  \/ DeleteInstance
  \/ InstanceCallFails

=============================================================================

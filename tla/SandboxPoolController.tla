----------------------- MODULE SandboxPoolController -----------------------
(***************************************************************************)
(* SandboxWarmPoolReconciler.Reconcile (sandbox_controller.go).  Caches    *)
(* are read where the code reads them and every API call is a step of its  *)
(* own; a read of the pod cache that directly follows a call is part of    *)
(* that call's step, since only the delivery of a pod event could tell the *)
(* two orders apart and it can as well happen before the call.             *)
(***************************************************************************)
EXTENDS SandboxCluster

maxBurst == 3

poolUntouched == <<tmpl, claim, elapsed, claimQueue, timers, cr>>

\* The end of a reconciliation; requeue: it asked to be called again, or failed.
PoolDone(requeue) ==
  /\ pr' = PoolIdle
  /\ poolQueue' = (poolQueue \/ requeue)
  /\ fresh' = [fresh EXCEPT !.pool = FALSE, !.policy = FALSE]

\* List the pods and decide what to do about their number.
PoolPlan(desired) ==
  LET warm     == Cardinality(WarmIn(cache.pod))
      missing  == IF warm < desired THEN desired - warm ELSE 0
      toCreate == IF missing > maxBurst THEN maxBurst ELSE missing
      excess   == IF warm > desired THEN warm - desired ELSE 0
  IN  [step       |-> CASE toCreate > 0 -> "create"
                        [] excess > 0   -> "delete"
                        [] OTHER        -> "status",
       desired    |-> 0,
       create     |-> toCreate,
       early      |-> toCreate < missing,
       excess     |-> excess,
       candidates |-> IF excess > 0 THEN WarmIn(cache.pod) ELSE {},
       warm       |-> warm,
       claimed    |-> Cardinality(ClaimedIn(cache.pod))]

\* The policy comes before the pods are listed.
PolicyRun(desired) == [PoolIdle EXCEPT !.step = "policy", !.desired = desired]

\* The mode of the template decides what comes first: without a template the
\* counts are cleared, with a managed one the NetworkPolicy is ensured.
PoolReconcile ==
  /\ pr.step = "idle" /\ poolQueue
  /\ poolQueue' = FALSE
  /\ \/ ~cache.pool.exists /\ UNCHANGED <<pr, fresh>>
     \/ /\ cache.pool.exists
        /\ pr' = CASE cache.tmpl = "absent"  -> [PoolIdle EXCEPT !.step = "clear"]
                   [] cache.tmpl = "managed" -> PolicyRun(cache.pool.replicas)
                   [] OTHER                  -> PoolPlan(cache.pool.replicas)
        /\ fresh' = [fresh EXCEPT !.pool = watch.pool = <<>>, !.policy = watch.policy = <<>>]
  /\ UNCHANGED <<server, informers, elapsed, claimQueue, timers, cr, faults>>

\* The outcome of the status update is ignored; the pool is looked at again later.
ClearPoolStatus ==
  /\ pr.step = "clear"
  /\ \/ /\ pool.exists /\ fresh.pool
        /\ PutPool([pool EXCEPT !.available = 0, !.active = 0])
        /\ UNCHANGED faults
     \/ /\ ~(pool.exists /\ fresh.pool)
        /\ UNCHANGED <<pool, watch, faults>>
     \/ Refused(TRUE) /\ UNCHANGED <<pool, watch>>
  /\ PoolDone(TRUE)
  /\ UNCHANGED <<policy, pod, cache, poolUntouched>>

\* [mutant] the policy is deleted and created again.
RecreatePolicy ==
  /\ pr.step = "policy"
  /\ policy' = "desired" /\ Sees("policy", <<"absent", "desired">>)
  /\ pr' = PoolPlan(pr.desired)
  /\ fresh' = [fresh EXCEPT !.policy = FALSE]
  /\ UNCHANGED <<pool, pod, cache, poolQueue, faults, poolUntouched>>

\* Create the policy if the cache has none, replace its spec if it has one.  Both
\* are refused when the cache was wrong.
EnsurePolicy ==
  /\ pr.step = "policy"
  /\ IF cache.policy = "absent" THEN policy = "absent" ELSE fresh.policy
  /\ PutPolicy("desired")
  /\ pr' = PoolPlan(pr.desired)
  /\ fresh' = [fresh EXCEPT !.policy = FALSE]
  /\ UNCHANGED <<pool, pod, cache, poolQueue, faults, poolUntouched>>

EnsurePolicyFails ==
  /\ pr.step = "policy"
  /\ \/ Refused(TRUE)
     \/ /\ IF cache.policy = "absent" THEN policy # "absent" ELSE ~fresh.policy
        /\ UNCHANGED faults
  /\ PoolDone(TRUE)
  /\ UNCHANGED <<pool, policy, pod, informers, poolUntouched>>

CreateSandboxPod ==
  /\ pr.step = "create"
  /\ \E p \in Pods : PodNameFree(p) /\ PutPod(p, NewPod)
  /\ \/ /\ pr.create > 1
        /\ pr' = [pr EXCEPT !.create = @ - 1]
        /\ UNCHANGED <<poolQueue, fresh>>
     \/ pr.create = 1 /\ pr.early /\ PoolDone(TRUE)
     \/ /\ pr.create = 1 /\ ~pr.early
        /\ pr' = [pr EXCEPT !.create = 0, !.step = "status"]
        /\ UNCHANGED <<poolQueue, fresh>>
  /\ UNCHANGED <<pool, policy, cache, faults, poolUntouched>>

CreateSandboxPodFails ==
  /\ pr.step = "create"
  /\ Refused(\E p \in Pods : PodNameFree(p))
  /\ PoolDone(TRUE)
  /\ UNCHANGED <<pool, policy, pod, informers, poolUntouched>>

\* Go on with the warm pods listed, in any order, until enough were deleted.
DeletedSoFar(p, n) ==
  LET more == pr.excess > n /\ pr.candidates # {p}
  IN  pr' = [pr EXCEPT !.excess = IF more THEN @ - n ELSE 0,
                       !.candidates = IF more THEN @ \ {p} ELSE {},
                       !.step = IF more THEN "delete" ELSE "status"]

\* Delete carries no precondition: the copy need not be current.
DeleteExcessPod(p) ==
  /\ pr.step = "delete" /\ p \in pr.candidates
  /\ PutPod(p, Doomed(p))
  /\ IF pod[p] = Doomed(p) THEN UNCHANGED fresh ELSE PodMoved(p)
  /\ DeletedSoFar(p, 1)
  /\ UNCHANGED <<pool, policy, cache, poolQueue, faults, poolUntouched>>

\* The error is logged, and the next pod is tried.
DeleteExcessPodFails(p) ==
  /\ pr.step = "delete" /\ p \in pr.candidates
  /\ Refused(TRUE)
  /\ DeletedSoFar(p, 0)
  /\ UNCHANGED <<pool, policy, pod, informers, poolQueue, fresh, poolUntouched>>

\* A Conflict is ignored, a pool that is gone is an error.
UpdatePoolStatus ==
  /\ pr.step = "status"
  /\ IF pool.exists /\ fresh.pool
     THEN PutPool([pool EXCEPT !.available = pr.warm, !.active = pr.claimed])
     ELSE UNCHANGED <<pool, watch>>
  /\ PoolDone(~pool.exists)
  /\ UNCHANGED <<policy, pod, cache, faults, poolUntouched>>

UpdatePoolStatusFails ==
  /\ pr.step = "status"
  /\ Refused(TRUE)
  /\ PoolDone(TRUE)
  /\ UNCHANGED <<pool, policy, pod, informers, poolUntouched>>

PoolStep ==
  \/ ClearPoolStatus
  \/ EnsurePolicy \/ EnsurePolicyFails
  \/ CreateSandboxPod \/ CreateSandboxPodFails
  \/ \E p \in Pods : DeleteExcessPod(p) \/ DeleteExcessPodFails(p)
  \/ UpdatePoolStatus \/ UpdatePoolStatusFails

=============================================================================

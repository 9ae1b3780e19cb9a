------------------------ MODULE AgentPoolController ------------------------
(***************************************************************************)
(* AgentWarmPoolReconciler.Reconcile (agentpool_controller.go).  It reads  *)
(* two caches and then makes one API call per step, so that anything may   *)
(* happen between two calls.  Reading both caches in one step loses        *)
(* nothing: an event delivered between the two reads has the same effect   *)
(* as one delivered after both.                                            *)
(***************************************************************************)
EXTENDS AgentCluster, FiniteSetsExt

\* [mutant] the bound of the sandbox pool in place of this one.
sandboxBurst == 3

maxBurst == 2

\* The partition of the listed instances.
Listed(states) == {i \in Instances : instCache[i].state \in states}

Supply == Cardinality(Listed({"new", "pending", "warm"}))

\* What the reconciliation will do, decided from the caches alone.
PoolPlan(victims) ==
  LET missing  == IF Supply < poolCache.replicas THEN poolCache.replicas - Supply ELSE 0
      toCreate == IF missing > maxBurst THEN maxBurst ELSE missing
  IN  [step    |-> CASE toCreate > 0   -> "create"
                     [] victims # {}   -> "mark"
                     [] OTHER          -> "status",
       create  |-> toCreate,
       early   |-> toCreate < missing,
       victims |-> victims,
       ready   |-> Cardinality(Listed({"warm"})),
       active  |-> Cardinality(Listed({"active"})),
       pending |-> Listed({"new", "pending"}) # {}]

\* As many warm instances as there are above spec.replicas; a List returns them
\* in no particular order, so any of them.
Victims ==
  LET warm == Listed({"warm"})
  IN  IF Cardinality(warm) > poolCache.replicas
      THEN kSubset(Cardinality(warm) - poolCache.replicas, warm)
      ELSE {{}}

PoolReconcile ==
  /\ pr.step = "idle" /\ poolQueue
  /\ poolQueue' = FALSE
  /\ \/ ~poolCache.exists /\ UNCHANGED <<pr, fresh>>
     \/ /\ poolCache.exists
        /\ \E victims \in Victims : pr' = PoolPlan(victims)
        /\ fresh' = [fresh EXCEPT !.pool = poolWatch = <<>>,
                                  !.list = {i \in Instances : Quiet(instWatch, i)}]
  /\ UNCHANGED <<server, caches, watches, instQueue, ir, faults>>

\* The end of a reconciliation; requeue: it asked to be called again, or failed.
PoolDone(requeue) ==
  /\ pr' = PoolIdle
  /\ poolQueue' = (poolQueue \/ requeue)

CreateInstance ==
  /\ pr.step = "create"
  /\ \E i \in Instances : InstNameFree(i) /\ PutInst(i, NewInst)
  /\ \/ /\ pr.create > 1
        /\ pr' = [pr EXCEPT !.create = @ - 1]
        /\ UNCHANGED <<poolQueue, fresh>>
     \/ /\ pr.create = 1 /\ pr.early
        /\ PoolDone(TRUE)
        /\ fresh' = [fresh EXCEPT !.pool = FALSE, !.list = {}]
     \/ /\ pr.create = 1 /\ ~pr.early
        /\ pr' = [pr EXCEPT !.create = 0, !.step = "status"]
        /\ UNCHANGED <<poolQueue, fresh>>
  /\ UNCHANGED <<pool, pod, caches, poolWatch, podWatch, instQueue, ir, faults>>

CreateInstanceFails ==
  /\ pr.step = "create"
  /\ Refused(\E i \in Instances : InstNameFree(i))
  /\ PoolDone(TRUE)
  /\ fresh' = [fresh EXCEPT !.pool = FALSE, !.list = {}]
  /\ UNCHANGED <<server, caches, watches, instQueue, ir>>

\* A victim counts as handled whether or not its update was accepted.
Marked(i) ==
  pr' = [pr EXCEPT !.victims = @ \ {i},
                   !.step = IF pr.victims = {i} THEN "status" ELSE "mark"]

\* [mutant] an unconditional patch in place of Status().Update.
MarkUnconditionally(i) ==
  /\ pr.step = "mark" /\ i \in pr.victims /\ inst[i] # NoInst
  /\ Marked(i)
  /\ PutInst(i, [inst[i] EXCEPT !.state = "terminating"])
  /\ fresh' = Outdated(i)
  /\ UNCHANGED <<pool, pod, caches, poolWatch, podWatch, queues, ir, faults>>

MarkTerminating(i) ==
  /\ pr.step = "mark" /\ i \in pr.victims
  /\ Marked(i)
  /\ \/ /\ i \in fresh.list
        /\ PutInst(i, [inst[i] EXCEPT !.state = "terminating"])
        /\ fresh' = Outdated(i)
     \/ i \notin fresh.list /\ UNCHANGED <<inst, instWatch, fresh>>
  /\ UNCHANGED <<pool, pod, caches, poolWatch, podWatch, queues, ir, faults>>

\* The error is logged and nothing else.
MarkTerminatingFails(i) ==
  /\ pr.step = "mark" /\ i \in pr.victims
  /\ Refused(TRUE)
  /\ Marked(i)
  /\ UNCHANGED <<server, caches, watches, queues, ir, fresh>>

\* [mutant] setCondition stamps the condition with the time, whatever its status was.
StampPoolStatus ==
  /\ pr.step = "status"
  /\ IF pool.exists /\ fresh.pool
     THEN /\ pool' = [pool EXCEPT !.ready = pr.ready, !.active = pr.active, !.available = TRUE]
          /\ poolWatch' = Append(poolWatch, PoolSpec(pool))
     ELSE UNCHANGED <<pool, poolWatch>>
  /\ PoolDone(pr.pending \/ ~pool.exists)
  /\ fresh' = [fresh EXCEPT !.pool = FALSE, !.list = {}]
  /\ UNCHANGED <<inst, pod, caches, instWatch, podWatch, instQueue, ir, faults>>

\* A Conflict is ignored, a pool that is gone is an error.
UpdatePoolStatus ==
  /\ pr.step = "status"
  /\ IF pool.exists /\ fresh.pool
     THEN PutPool([pool EXCEPT !.ready = pr.ready, !.active = pr.active, !.available = TRUE])
     ELSE UNCHANGED <<pool, poolWatch>>
  /\ PoolDone(pr.pending \/ ~pool.exists)
  /\ fresh' = [fresh EXCEPT !.pool = FALSE, !.list = {}]
  /\ UNCHANGED <<inst, pod, caches, instWatch, podWatch, instQueue, ir, faults>>

UpdatePoolStatusFails ==
  /\ pr.step = "status"
  /\ Refused(TRUE)
  /\ PoolDone(TRUE)
  /\ fresh' = [fresh EXCEPT !.pool = FALSE, !.list = {}]
  /\ UNCHANGED <<server, caches, watches, instQueue, ir>>

PoolStep ==
  \/ CreateInstance \/ CreateInstanceFails
  \/ \E i \in Instances : MarkTerminating(i) \/ MarkTerminatingFails(i)
  \/ UpdatePoolStatus \/ UpdatePoolStatusFails

=============================================================================

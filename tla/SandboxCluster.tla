--------------------------- MODULE SandboxCluster ---------------------------
(***************************************************************************)
(* The objects one SandboxWarmPool is made of, as the API server holds     *)
(* them and as the operator's informers see them, with everything that     *)
(* acts on them except the two sandbox reconcilers: users and agents, the  *)
(* kubelet, evictions, the garbage collector, the clock, the delivery of   *)
(* watch events, and a restart of the operator.                            *)
(*                                                                         *)
(* SandboxPoolController and SandboxClaimController add the reconcilers,   *)
(* SandboxSystem composes the three.                                       *)
(***************************************************************************)
EXTENDS Informer, FiniteSets

CONSTANTS
  Pods,         \* names of sandbox Pods
  Claims,       \* names of SandboxClaims
  None,         \* the empty name
  Env,          \* the environment events a run explores, see EnvEvents
  MaxReplicas,  \* bound on spec.replicas
  MaxLag,       \* bound: the environment acts while fewer events are in flight
  MaxFaults     \* bound on crashes and API errors together

\* "ttl": claims carry spec.ttlSeconds.
EnvEvents == {"rescale", "deletePool", "template", "policy", "claim", "ttl",
              "podRuns", "evict", "crash", "error"}

ASSUME ConstantsAssumption ==
  /\ IsFiniteSet(Pods)
  /\ None \notin Pods \cup Claims
  /\ Env \subseteq EnvEvents
  /\ MaxReplicas \in Nat
  /\ MaxLag \in Nat
  /\ MaxFaults \in Nat

VARIABLES
  \* API server
  pool,        \* spec.replicas and status of the pool
  tmpl,        \* the SandboxTemplate, by its networkPolicyMode
  policy,      \* the NetworkPolicy of the pool
  claim,       \* status, finalizer and deletion mark of every claim
  pod,         \* phase, claim label and deletion mark of every pod
  \* informers of the operator, by kind
  cache, watch,
  \* work queues, and the claims queued for the end of their TTL
  poolQueue, claimQueue, timers,
  elapsed,     \* the claims bound for longer than their TTL
  \* reconciliations in progress, at most one of each controller
  pr, cr,
  fresh,       \* which of the copies they hold are at the resourceVersion stored
  faults       \* crashes and API errors so far

server == <<pool, tmpl, policy, claim, pod>>
informers == <<cache, watch>>
queues == <<poolQueue, claimQueue, timers>>
vars == <<server, informers, queues, elapsed, pr, cr, fresh, faults>>

-----------------------------------------------------------------------------
(* Objects *)

\* SandboxWarmPool; status.total is available + active and left out.  Of a pool the
\* informer keeps what the controller reads: that it exists, and spec.replicas.
PoolVal == [exists : BOOLEAN, replicas : 0..MaxReplicas, available : Nat, active : Nat]
PoolSpec(v) == [exists |-> v.exists, replicas |-> v.replicas]

TmplVal   == {"absent", "managed", "custom"}
PolicyVal == {"absent", "desired", "edited"}

\* SandboxClaim: "New" is the empty phase; fin is the clean-up finalizer, del
\* a DeletionTimestamp.
ClaimVal == [phase : {"absent", "New", "Pending", "Bound", "Failed", "Released"},
             pod : Pods \cup {None}, fin : BOOLEAN, del : BOOLEAN]
NoClaim  == [phase |-> "absent", pod |-> None, fin |-> FALSE, del |-> FALSE]
NewClaim == [phase |-> "New", pod |-> None, fin |-> FALSE, del |-> FALSE]

\* Pod: sandbox-state is "warm" exactly while sandbox-claim is not set.
PodVal == [phase : {"absent", "Pending", "Running"}, claim : Claims \cup {None},
           del : BOOLEAN]
NoPod  == [phase |-> "absent", claim |-> None, del |-> FALSE]
NewPod == [phase |-> "Pending", claim |-> None, del |-> FALSE]

Kinds == {"pool", "tmpl", "policy", "claim", "pod"}

\* A reconciliation of the pool: spec.replicas as read when it began, kept until the
\* pods are listed, pods still to create and whether to come back early, pods that
\* may be deleted and how many must be, counts for the status.
PoolIdle == [step |-> "idle", desired |-> 0, create |-> 0, early |-> FALSE, excess |-> 0,
             candidates |-> {}, warm |-> 0, claimed |-> 0]

\* A reconciliation of a claim: the claim, and the pod to label, bind or delete.
ClaimIdle == [step |-> "idle", key |-> None, pod |-> None]

NoFresh == [pool |-> FALSE, policy |-> FALSE, claim |-> FALSE, pod |-> FALSE]

\* The pods of a pod map that the pool controller counts.
Live(pods)      == {p \in Pods : pods[p].phase # "absent" /\ ~pods[p].del}
WarmIn(pods)    == {p \in Live(pods) : pods[p].claim = None}
ClaimedIn(pods) == Live(pods) \ WarmIn(pods)

-----------------------------------------------------------------------------
(* Writes accepted by the API server: the new value and its watch events *)

Sees(kind, events) == watch' = [watch EXCEPT ![kind] = @ \o events]

PutPool(v) ==
  /\ pool' = v
  /\ Sees("pool", IF v = pool THEN <<>> ELSE <<PoolSpec(v)>>)

PutPolicy(v) ==
  /\ policy' = v
  /\ Sees("policy", IF v = policy THEN <<>> ELSE <<v>>)

PutClaim(c, v) ==
  /\ claim' = [claim EXCEPT ![c] = v]
  /\ Sees("claim", IF v = claim[c] THEN <<>> ELSE <<Event(c, v)>>)

PutPod(p, v) ==
  /\ pod' = [pod EXCEPT ![p] = v]
  /\ Sees("pod", IF v = pod[p] THEN <<>> ELSE <<Event(p, v)>>)

\* The claim controller's copy of the pod or of the claim is not current any more.
PodMoved(p)   == fresh' = [fresh EXCEPT !.pod = @ /\ cr.pod # p]
ClaimMoved(c) == fresh' = [fresh EXCEPT !.claim = @ /\ cr.key # c]

\* Deleting a claim waits for its finalizer.
Deleted(c) == IF claim[c].fin THEN [claim[c] EXCEPT !.del = TRUE] ELSE NoClaim

\* Deleting a pod that is gone or on its way out changes nothing.
Doomed(p) == IF pod[p] = NoPod THEN NoPod ELSE [pod[p] EXCEPT !.del = TRUE]

\* What an informer that lists everything anew has in its cache.
Listing == [pool |-> PoolSpec(pool), tmpl |-> tmpl, policy |-> policy,
            claim |-> claim, pod |-> pod]

\* A name is used again once nothing mentions it, so that runs of any length
\* need only finitely many names.
PodNameFree(p) ==
  /\ pod[p] = NoPod /\ cache.pod[p] = NoPod /\ Quiet(watch.pod, p)
  /\ p \notin pr.candidates /\ cr.pod # p
  /\ \A c \in Claims : claim[c].pod # p /\ cache.claim[c].pod # p
  /\ \A n \in DOMAIN watch.claim : watch.claim[n].val.pod # p

ClaimNameFree(c) ==
  /\ claim[c] = NoClaim /\ cache.claim[c] = NoClaim /\ Quiet(watch.claim, c)
  /\ c \notin claimQueue \cup timers /\ cr.key # c
  /\ \A p \in Pods : pod[p].claim # c /\ cache.pod[p].claim # c
  /\ \A n \in DOMAIN watch.pod : watch.pod[n].val.claim # c

-----------------------------------------------------------------------------
(* Initial state: a user created the pool and the operator saw it *)

ClusterInit ==
  /\ pool \in {[exists |-> TRUE, replicas |-> n, available |-> 0, active |-> 0] :
                 n \in 0..MaxReplicas}
  /\ tmpl = IF "template" \in Env THEN "absent" ELSE "custom"
  /\ policy = "absent"
  /\ claim = [c \in Claims |-> NoClaim]
  /\ pod = [p \in Pods |-> NoPod]
  /\ cache = Listing
  /\ watch = [kind \in Kinds |-> <<>>]
  /\ poolQueue = TRUE /\ claimQueue = {} /\ timers = {} /\ elapsed = {}
  /\ pr = PoolIdle /\ cr = ClaimIdle /\ fresh = NoFresh
  /\ faults = 0

-----------------------------------------------------------------------------
(* Users, agents and the clock *)

outside == <<cache, queues, pr, cr, faults>>

Lag(kind) == Len(watch[kind])

Rescale ==
  /\ "rescale" \in Env /\ pool.exists /\ Lag("pool") < MaxLag
  /\ \E n \in 0..MaxReplicas \ {pool.replicas} : PutPool([pool EXCEPT !.replicas = n])
  /\ fresh' = [fresh EXCEPT !.pool = FALSE]
  /\ UNCHANGED <<tmpl, policy, claim, pod, elapsed, outside>>

DeletePool ==
  /\ "deletePool" \in Env /\ pool.exists /\ Lag("pool") < MaxLag
  /\ PutPool([pool EXCEPT !.exists = FALSE])
  /\ fresh' = [fresh EXCEPT !.pool = FALSE]
  /\ UNCHANGED <<tmpl, policy, claim, pod, elapsed, outside>>

CreateTemplate ==
  /\ tmpl = "absent"
  /\ tmpl' \in {"managed", "custom"}
  /\ Sees("tmpl", <<tmpl'>>)
  /\ UNCHANGED <<pool, policy, claim, pod, elapsed, fresh, outside>>

\* Somebody changes or deletes the NetworkPolicy.
TamperPolicy ==
  /\ "policy" \in Env /\ policy # "absent" /\ Lag("policy") < MaxLag
  /\ \E v \in {"absent", "edited"} \ {policy} : PutPolicy(v)
  /\ fresh' = [fresh EXCEPT !.policy = FALSE]
  /\ UNCHANGED <<pool, tmpl, claim, pod, elapsed, outside>>

CreateClaim(c) ==
  /\ "claim" \in Env /\ ClaimNameFree(c)
  /\ PutClaim(c, NewClaim)
  /\ UNCHANGED <<pool, tmpl, policy, pod, elapsed, fresh, outside>>

DeleteClaim(c) ==
  /\ claim[c].phase # "absent" /\ ~claim[c].del /\ Lag("claim") < MaxLag
  /\ PutClaim(c, Deleted(c))
  /\ ClaimMoved(c)
  /\ UNCHANGED <<pool, tmpl, policy, pod, elapsed, outside>>

TTLElapses(c) ==
  /\ "ttl" \in Env /\ claim[c].phase = "Bound" /\ c \notin elapsed
  /\ elapsed' = elapsed \cup {c}
  /\ UNCHANGED <<server, watch, fresh, outside>>

-----------------------------------------------------------------------------
(* The kubelet, evictions and the garbage collector *)

PodWrites(p, v) ==
  /\ PutPod(p, v)
  /\ PodMoved(p)
  /\ UNCHANGED <<pool, tmpl, policy, claim, elapsed, outside>>

PodRuns(p) ==
  /\ "podRuns" \in Env /\ pod[p].phase = "Pending" /\ ~pod[p].del /\ Lag("pod") < MaxLag
  /\ PodWrites(p, [pod[p] EXCEPT !.phase = "Running"])

EvictPod(p) ==
  /\ "evict" \in Env /\ p \in Live(pod) /\ Lag("pod") < MaxLag
  /\ PodWrites(p, Doomed(p))

\* The end of a graceful deletion.
RemovePod(p) ==
  /\ pod[p].del
  /\ PodWrites(p, NoPod)

\* The owner references make pods and policy go with their pool; claims stay.
CollectPod(p) ==
  /\ ~pool.exists /\ p \in Live(pod)
  /\ PodWrites(p, Doomed(p))

CollectPolicy ==
  /\ ~pool.exists /\ policy # "absent" /\ Lag("policy") < MaxLag
  /\ PutPolicy("absent")
  /\ fresh' = [fresh EXCEPT !.policy = FALSE]
  /\ UNCHANGED <<pool, tmpl, claim, pod, elapsed, outside>>

-----------------------------------------------------------------------------
(* Watch events reach the operator: the cache is updated and the keys that  *)
(* For and Owns select are queued.                                          *)

Take(kind, v) ==
  /\ watch[kind] # <<>>
  /\ cache' = [cache EXCEPT ![kind] = v]
  /\ watch' = [watch EXCEPT ![kind] = Tail(@)]
  /\ UNCHANGED <<server, elapsed, pr, cr, fresh, faults>>

DeliverPool ==
  /\ Take("pool", Head(watch.pool))
  /\ poolQueue' = TRUE
  /\ UNCHANGED <<claimQueue, timers>>

\* Nothing watches templates on behalf of their pools.
DeliverTemplate ==
  /\ Take("tmpl", Head(watch.tmpl))
  /\ UNCHANGED queues

\* [mutant] SetupWithManager without Owns(&networkingv1.NetworkPolicy{}).
DeliverPolicyUnowned ==
  /\ Take("policy", Head(watch.policy))
  /\ UNCHANGED queues

DeliverPolicy ==
  /\ Take("policy", Head(watch.policy))
  /\ poolQueue' = TRUE
  /\ UNCHANGED <<claimQueue, timers>>

\* [mutant] SetupWithManager without Owns(&corev1.Pod{}).
DeliverPodUnowned ==
  /\ Take("pod", Apply(cache.pod, Head(watch.pod)))
  /\ UNCHANGED queues

DeliverPod ==
  /\ Take("pod", Apply(cache.pod, Head(watch.pod)))
  /\ poolQueue' = TRUE
  /\ UNCHANGED <<claimQueue, timers>>

\* The queue holds a key once: an event makes one that waits for its TTL ready.
DeliverClaim ==
  /\ Take("claim", Apply(cache.claim, Head(watch.claim)))
  /\ claimQueue' = claimQueue \cup {Head(watch.claim).key}
  /\ timers' = timers \ {Head(watch.claim).key}
  /\ UNCHANGED poolQueue

\* RequeueAfter(ttl) comes due; one set by a binding that was not recorded
\* comes due as well.
TimerFires(c) ==
  /\ c \in timers /\ (claim[c].phase = "Bound" => c \in elapsed)
  /\ timers' = timers \ {c}
  /\ claimQueue' = claimQueue \cup {c}
  /\ UNCHANGED <<server, informers, poolQueue, elapsed, pr, cr, fresh, faults>>

\* The operator dies and is started again: in-memory state is gone, the
\* informers list everything before the first reconciliation and every object
\* listed is queued.
Crash ==
  /\ "crash" \in Env /\ faults < MaxFaults
  /\ faults' = faults + 1
  /\ cache' = Listing
  /\ watch' = [kind \in Kinds |-> <<>>]
  /\ poolQueue' = TRUE
  /\ claimQueue' = {c \in Claims : claim[c].phase # "absent"}
  /\ timers' = {}
  /\ pr' = PoolIdle /\ cr' = ClaimIdle /\ fresh' = NoFresh
  /\ UNCHANGED <<server, elapsed>>

\* An API call of the operator fails: it is refused for want of a free name (a
\* quota), or by an error the run injects.
Refused(hasName) ==
  \/ ~hasName /\ UNCHANGED faults
  \/ "error" \in Env /\ faults < MaxFaults /\ faults' = faults + 1

Deliver == DeliverPool \/ DeliverTemplate \/ DeliverPolicy \/ DeliverPod \/ DeliverClaim

Outside ==
  \/ Rescale \/ DeletePool \/ CreateTemplate \/ TamperPolicy \/ CollectPolicy
  \/ \E c \in Claims : CreateClaim(c) \/ DeleteClaim(c) \/ TTLElapses(c) \/ TimerFires(c)
  \/ \E p \in Pods : PodRuns(p) \/ EvictPod(p) \/ RemovePod(p) \/ CollectPod(p)

=============================================================================

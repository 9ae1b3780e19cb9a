--------------------------- MODULE SandboxSystem ---------------------------
(***************************************************************************)
(* The sandbox half of the operator: the pool controller, the claim        *)
(* controller and the cluster they share, composed the way suite_test.go   *)
(* registers them with one manager (cmd/operator/main.go does not).        *)
(***************************************************************************)
EXTENDS SandboxPoolController, SandboxClaimController

Init == ClusterInit

Operator ==
  \/ PoolReconcile \/ PoolStep
  \/ (\E c \in Claims : ClaimReconcile(c)) \/ ClaimStep

Next == Outside \/ Deliver \/ Crash \/ Operator

Spec == Init /\ [][Next]_vars

(* Watches deliver, timers come due, the worker of each controller runs    *)
(* what is queued and finishes what it began, the queue is first in first  *)
(* out so a key that keeps coming back is served (hence SF), the kubelet   *)
(* finishes deletions, the garbage collector collects and time passes.     *)
(* Nobody promises that users or agents act, or that calls fail.           *)
Fairness ==
  /\ WF_vars(DeliverPool) /\ WF_vars(DeliverTemplate) /\ WF_vars(DeliverPolicy)
  /\ WF_vars(DeliverPod) /\ WF_vars(DeliverClaim)
  /\ WF_vars(PoolReconcile) /\ WF_vars(PoolStep) /\ WF_vars(ClaimStep)
  /\ \A c \in Claims :
       SF_vars(ClaimReconcile(c)) /\ WF_vars(TimerFires(c)) /\ WF_vars(TTLElapses(c))
  /\ \A p \in Pods : WF_vars(RemovePod(p)) /\ WF_vars(CollectPod(p))
  /\ WF_vars(CollectPolicy)

FairSpec == Spec /\ Fairness

\* The deletion of an expired claim, which follows the update that marks it Released,
\* does not fail, nor does the operator crash between the two.
Calm == cr.step = "delete" /\ cr' # cr => faults' = faults

CalmSpec == Init /\ [][Next /\ Calm]_vars

-----------------------------------------------------------------------------
(* Invariants *)

ServerOK ==
  /\ pool \in PoolVal
  /\ tmpl \in TmplVal
  /\ policy \in PolicyVal
  /\ claim \in [Claims -> ClaimVal]
  /\ pod \in [Pods -> PodVal]

PoolCopy == [exists : BOOLEAN, replicas : 0..MaxReplicas]

CacheVal == [pool : PoolCopy, tmpl : TmplVal, policy : PolicyVal,
             claim : [Claims -> ClaimVal], pod : [Pods -> PodVal]]

EventVal(kind) ==
  CASE kind = "pool"   -> PoolCopy
    [] kind = "tmpl"   -> TmplVal
    [] kind = "policy" -> PolicyVal
    [] kind = "claim"  -> [key : Claims, val : ClaimVal]
    [] kind = "pod"    -> [key : Pods, val : PodVal]

InformersOK ==
  /\ cache \in CacheVal
  /\ DOMAIN watch = Kinds
  /\ \A kind \in Kinds : watch[kind] \in Seq(EventVal(kind))

ControllersOK ==
  /\ poolQueue \in BOOLEAN
  /\ claimQueue \in SUBSET Claims /\ timers \in SUBSET Claims /\ elapsed \in SUBSET Claims
  /\ pr \in [step : {"idle", "clear", "policy", "create", "delete", "status"},
             desired : 0..MaxReplicas, create : 0..maxBurst, early : BOOLEAN, excess : Nat,
             candidates : SUBSET Pods, warm : Nat, claimed : Nat]
  /\ cr \in [step : {"idle", "finalize", "release", "unfinalize", "expire", "delete",
                     "pending", "fail", "label", "bind"},
             key : Claims \cup {None}, pod : Pods \cup {None}]
  /\ cr.step # "idle" => cr.key \in Claims
  /\ cr.step \in {"release", "label", "bind"} => cr.pod \in Pods
  /\ fresh \in [pool : BOOLEAN, policy : BOOLEAN, claim : BOOLEAN, pod : BOOLEAN]

\* Every variable holds a value the code could store in it, and a reconciliation
\* under way names a claim, and a pod where it has chosen one.
TypeOK == ServerOK /\ InformersOK /\ ControllersOK /\ faults \in 0..MaxFaults

\* Nothing is left for the operator to do but to wait for a TTL.
Settled ==
  /\ watch = [kind \in Kinds |-> <<>>]
  /\ ~poolQueue /\ claimQueue = {}
  /\ pr.step = "idle" /\ cr.step = "idle"

\* Once the operator has nothing left to do, a pool with a template is as ordered:
\* spec.replicas warm pods (a surplus only after a fault: the code does not retry a
\* failed deletion), the status counts them and the claimed ones
\* (SandboxWarmPoolStatus), and a managed pool has the NetworkPolicy the template
\* asks for, whoever deleted or edited it.
SettledPoolIsAsOrdered ==
  Settled /\ pool.exists /\ tmpl # "absent" =>
    /\ Cardinality(WarmIn(pod)) >= pool.replicas
    /\ faults = 0 => Cardinality(WarmIn(pod)) <= pool.replicas
    /\ pool.available = Cardinality(WarmIn(pod))
    /\ pool.active = Cardinality(ClaimedIn(pod))
    /\ tmpl = "managed" => policy = "desired"

\* Once the operator has nothing left to do, every claim has its answer: it is
\* bound to a pod or has failed (SandboxClaimReconciler.Reconcile never leaves one
\* behind without a finalizer, pending, or marked for deletion).
SettledClaimsAreAnswered ==
  Settled => \A c \in Claims :
    /\ claim[c].phase \in {"absent", "Bound", "Failed"}
    /\ claim[c].phase = "Bound" => claim[c].pod \in Pods
    /\ ~claim[c].del

\* Pods of a managed pool run behind the NetworkPolicy: if there are pods and the
\* policy is not as it should be, then somebody tampered with it and the controller
\* has yet to hear of it or to act on it (reconcileNetworkPolicy precedes the first
\* pod, and Owns(&NetworkPolicy{}) brings the controller back).
PodsBehindPolicy ==
  tmpl = "managed" /\ pool.exists /\ Live(pod) # {} /\ policy # "desired"
    => watch.policy # <<>> \/ poolQueue \/ pr.step = "policy"

-----------------------------------------------------------------------------
(* Action properties *)

\* Nothing is left to be done: the pool is as ordered and says so, its policy is in
\* place, and every claim has its answer.
InOrder ==
  /\ pool.exists /\ tmpl # "absent"
  /\ tmpl = "managed" => policy = "desired"
  /\ Cardinality(WarmIn(pod)) = pool.replicas
  /\ pool.available = Cardinality(WarmIn(pod))
  /\ pool.active = Cardinality(ClaimedIn(pod))
  /\ \A c \in Claims :
       /\ claim[c].phase \in {"absent", "Bound", "Failed"} /\ ~claim[c].del
       /\ claim[c].phase # "absent" => claim[c].fin
       /\ claim[c].phase = "Bound" => c \notin elapsed

\* The operator knows of it; keys may be queued, timers set, and the pool looked at.
AtRest ==
  /\ cr.step = "idle"
  /\ watch = [kind \in Kinds |-> <<>>]
  /\ InOrder
  /\ cache = Listing
  /\ \/ pr.step = "idle"
     \/ pr.step = "policy" /\ tmpl = "managed" /\ pr.desired = pool.replicas
     \/ pr.step = "status" /\ pr.warm = pool.available /\ pr.claimed = pool.active

\* A settled system is in order, but for the surplus a failed deletion leaves and for
\* what waits for a template or for a TTL.
Orderly ==
  /\ Settled /\ pool.exists /\ tmpl # "absent"
  /\ Cardinality(WarmIn(pod)) <= pool.replicas
  /\ \A c \in Claims : claim[c].phase = "Bound" => c \notin elapsed

\* The operator leaves a system in order alone: whatever is queued, comes due, fails
\* or is restarted, it writes nothing until somebody else does or a TTL elapses, and
\* so its own writes do not keep it busy, nor is a claim that failed tried again.
\* Steps of others leave outside unchanged.
RestIsStable ==
  [][(AtRest \/ Orderly) /\ outside' # outside => AtRest' /\ UNCHANGED server]_vars

-----------------------------------------------------------------------------
(* Implementation *)

\* Sandboxes are used once and claims keep to their own: SandboxUse, with a pod in
\* use by the claim of its label, a claim holding the pod of its status, and the
\* claims whose phase is Released as those whose time is up.  In CalmSpec only: an
\* expired claim whose deletion failed may be bound again (see ExpiredClaimGoes).
UseOf(v) ==
  CASE v = NoPod            -> "absent"
    [] v # NoPod /\ v.del   -> "doomed"
    [] v # NoPod /\ ~v.del  -> IF v.claim = None THEN "warm" ELSE v.claim

Use == INSTANCE SandboxUse WITH use   <- [p \in Pods |-> UseOf(pod[p])],
                                holds <- [c \in Claims |-> claim[c].pod],
                                lapsed <- {c \in Claims : claim[c].phase = "Released"}

ImplementsUse == Use!Spec

\* Whatever fails: no sandbox is offered twice or announced to a second claim, and
\* only a claim that was marked Released when its TTL was over can be told of another
\* one, once for every time it is marked.  What it was told of before then stays taken.
ImplementsLooseUse == Use!LooseSpec

-----------------------------------------------------------------------------
(* Liveness *)

\* A claim that is deleted is eventually gone: the finalizer does not hold it.
DeletedClaimGoes == \A c \in Claims : claim[c].del ~> claim[c].phase = "absent"

-----------------------------------------------------------------------------
(* What the repository says and the code does not do *)

\* "On delete, it releases the pod by deleting it so the pool controller can replace
\* it" (sandbox_controller.go): when nothing is left to do, no pod is kept for a
\* claim that does not hold it.
NoPodIsLeaked ==
  Settled => \A p \in ClaimedIn(pod) : claim[pod[p].claim].pod = p

\* "Scale down: delete excess warm pods." (sandbox_controller.go): a pod the pool
\* controller deletes is warm at that moment.
ScaleDownSparesClaimed ==
  [][\A p \in pr.candidates : pr' # pr /\ pod'[p] # pod[p] => pod[p].claim = None]_vars

\* "should auto-release a claim after TTL expires" (sandbox_controller_test.go): a
\* claim whose TTL has elapsed is eventually gone.
ExpiredClaimGoes == \A c \in Claims : c \in elapsed ~> claim[c].phase = "absent"

=============================================================================

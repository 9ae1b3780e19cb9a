# A TLA+ model of the Volund operator

The Volund operator keeps pools of warm agents and warm sandboxes in a Kubernetes
cluster. This directory models its controllers: the TLA+ modules follow the Go code
action by action, TLC explores them on small clusters, and TLAPS proves the
properties that matter most for clusters of any size.

Everything the operator does goes through the same mechanism, and so does
everything that can go wrong with it: a reconciler reads *cached* objects, decides,
and makes several API calls one after the other, while users, the gateway, the
kubelet, the garbage collector and the other controllers write to the same objects,
and while the process may be killed between any two calls. Unit tests run against a
fake client that has no cache and no concurrency; these models have both.

## 1. Inventory

Paths are relative to `src/`; `controller/` is `internal/controller/`.

| Component | State it keeps | Operations | Modelled |
|---|---|---|---|
| AgentWarmPool controller (`controller/agentpool_controller.go`) | pool status: ready, active, `Available` condition | count listed instances, create up to 2 missing ones, mark excess warm ones `terminating`, write the status, requeue | yes |
| AgentInstance controller (`controller/agentinstance_controller.go`) | instance status: state, podName | create the pod, follow it to `warm`, retire an instance whose pod is gone or finished, delete pods and then the instance | yes |
| SandboxWarmPool controller (`controller/sandbox_controller.go`, first half) | pool status, NetworkPolicy | read the template, create or repair the NetworkPolicy, create up to 3 missing pods, delete excess warm pods, write the status | yes |
| SandboxClaim controller (`controller/sandbox_controller.go`, second half) | claim status, finalizer, pod labels | add finalizer, Pending, take a warm pod, Bound, TTL, Released, release the pod, remove finalizer | yes |
| Skill controller (`controller/skill_controller.go`) | `Ready` condition, Deployment and Service of a shared skill | validate, create the Deployment or bring its image up to date, create the Service, write the condition | yes |
| AgentProfile controller (`controller/agentprofile_controller.go`) | `Ready` condition | validate, write the condition | yes |
| API types (`api/v1alpha1`) | - | DeepCopy | the fields used are the state of the models; DeepCopy is not |
| `cmd/operator/main.go` | - | registers the agent, profile and skill reconcilers with one manager | as composition only |

Interactions. All controllers share one manager: one API client that writes to the
API server and reads from informer caches, one watch per kind, one work queue and one
worker per controller. They never call each other; they communicate through objects:

- the pool controller creates `AgentInstance`s and retires them through
  `status.state`; the instance controller acts on that state; the **gateway** (another
  program) moves instances between `warm` and `active`;
- the sandbox pool controller creates and deletes pods, the claim controller relabels
  them `claimed` and deletes them, both from a cached pod list;
- skills and profiles are written by users and by nobody else but their own
  controllers; the skill controller shares the Deployments and Services it creates with
  the Deployment controller and with whoever edits them;
- owner references make the garbage collector remove instances with their pool, pods
  with their instance or pool, Deployments and Services with their skill; claims have a
  finalizer and no owner.

`main.go` does not register the two sandbox reconcilers; only `suite_test.go` does, and
the model composes them as it does.

What is hard here:

- *stale reads*: every decision is made on a cache; the caches of two kinds lag
  independently, and a controller may not see its own last write;
- *dropped conflicts*: most status updates ignore `Conflict`, so a lost update is
  retried only if an event comes;
- *several calls per reconciliation*: a crash, an error or another actor may come
  between them;
- *deletes without precondition*;
- *waiting for an event that never comes*: work is resumed only by events, requeues and
  returned errors.

What must hold:

- *agent pool*: once the dust settles exactly `spec.replicas` instances are warm and the
  status says so; shrinking the pool never takes an agent in use;
- *agent instance*: an instance follows `new -> pending -> warm <-> active ->
  terminating -> gone` and never goes back; nothing is offered without a live pod;
  no pod is killed on stale information; retired instances and dead agents are noticed;
- *sandbox pool*: once the dust settles `spec.replicas` pods are warm, the
  status says so, and pods of a managed pool run behind their NetworkPolicy;
- *sandbox claim*: a sandbox is used by one claim, once; a claim gets an answer; a
  deleted claim is not held by its finalizer and leaves no sandbox in use behind;
- *skill and profile*: `Ready` tells the truth about the spec that is stored, and for a
  shared skill about its Deployment and Service too, whoever edits what meanwhile; the
  controllers come to rest although their own writes bring the object back to them.

`PROJECT.json` lists the hazards one by one, at the line where each bites, with the
properties that would catch it.

## 2. Modules

    Informer                     caches, watches, versions
      InformerProofs             what a cache can be relied on for
      AgentCluster               objects, gateway, kubelet, GC, delivery, crash
        AgentPoolController      AgentWarmPoolReconciler.Reconcile
        AgentInstanceController  AgentInstanceReconciler.Reconcile
          AgentSystem            composition, fairness, properties
            MCAgent              symmetry for TLC
            AgentSystemProofs    types, what retiring and killing rely on, refinement
              AgentPoolProofs      the pool settles as ordered
                AgentInstanceProofs  no instance is forgotten, order is kept
      SandboxCluster             the same for sandboxes, with templates, policies, TTLs
        SandboxPoolController    SandboxWarmPoolReconciler.Reconcile
        SandboxClaimController   SandboxClaimReconciler.Reconcile, releasePod
          SandboxSystem          composition, fairness, properties
            MCSandbox            symmetry for TLC
            SandboxSystemProofs  types, policy before pods, no sandbox shared, refinement
              SandboxPoolProofs    the pool settles as ordered
                SandboxClaimProofs   no claim is forgotten, order is kept
      ConfigCluster              skills, profiles, Deployments, Services, users, GC
        ReadyCondition           what the next two share: read, setCondition, update
          SkillController        SkillReconciler.Reconcile, reconcileSharedDeployment
          AgentProfileController AgentProfileReconciler.Reconcile
            ConfigSystem         composition, fairness, properties
              MCConfig           specs for TLC
              ConfigSystemProofs types, sound verdicts, nothing forgotten, order is kept
    InstanceLifecycle            abstract: what an AgentInstance promises
    SandboxUse                   abstract: what single use of sandboxes means

### How state corresponds to the code

| Model | Code |
|---|---|
| `pool`, `inst`, `pod`, `claim`, `policy`, `tmpl`, `config` (skills and profiles), `deployment`, `service` | the objects stored by the API server, restricted to the fields a controller reads or writes |
| `orphan` | Deployments and Services whose owner reference names a UID that is gone |
| `poolCache`... (agents), `cache[kind]` (sandboxes, configs) | what `r.Get` and `r.List` return |
| `poolWatch`..., `watch[kind]` | events sent and not yet delivered, in order within a kind and independent across kinds |
| `poolQueue`, `instQueue`, `claimQueue`, `queue` (skills and profiles) | keys queued by `For`, `Owns`, requeues and returned errors; a key is queued once |
| `pr`, `ir`, `cr`, `run[controller]` | the local variables of the reconciliation in progress, and which call comes next |
| `fresh` | whether the copy a reconciliation holds is still at the stored `resourceVersion` |
| `timers`, `elapsed` | pending `RequeueAfter` of a claim; claims past `boundAt + ttlSeconds` |
| `faults` (agents, sandboxes), `edits`, `crashes`, `errors` (configs) | how much of its bounds a run has spent |

`resourceVersion`s are not counted. An update is accepted exactly if the object has
not changed since the copy was made, so one bit per copy is enough: it is set when the
copy is read from a cache that no event for the object is under way to, and cleared by
every accepted change. A write that changes nothing is accepted and causes no event, as
in the API server. Of a sandbox pool the cache holds only what the controller reads:
that the pool exists and its `spec.replicas`.

An action is one API call together with everything the code does until the next one;
the first action of a reconciliation reads the caches and takes the early returns. The
plan a pool reconciliation makes (`PoolPlan`) is fixed by what it read: the code lists
once and counts from that list. A sandbox pool is read before the calls about its policy
and its pods are listed after them, so the replicas it asks for are kept in between
(`pr.desired`).

Names: `GenerateName` never returns a name in use. A name comes back when no object,
cache, event or queue mentions it, which lets behaviours of any length run on a few
names. When none is free, the create is refused, which is what a quota does; a run
therefore covers failing creates even without injected errors.

A spec of a skill or a profile is the record of what the two `validate` functions and
the Deployment's image tell apart: whether each field is empty, the type, the mode, the
image, and whether the quantities parse. The reconciliation of a shared skill is one
action per API call like the others, its reads of Deployment and Service included in the
action before.

Two pods of one instance, and pods picked by `Items[0]`, are taken in any order, since
a `List` from the cache has none.

### Mutated definitions

A definition marked `[mutant]` is not part of the model. It is what a definition next
to it would be with a plausible bug (an update without a version check, a watch that
`SetupWithManager` forgets, an error logged and not returned), kept to show that each
property fails when the code it is about is broken.

## 3. Runs

In the agent and sandbox runs, `Env` switches groups of environment events on:
`rescale`, `deletePool`, `claim` (the gateway, or agents creating and deleting
SandboxClaims), `podEnds` (an agent's pod finishes), `podRuns`, `evict`, `template` (a
pool created before its template), `policy` (somebody edits or deletes the
NetworkPolicy), `ttl`, `crash` (the operator restarts between any two steps), `error`
(any API call of the operator may fail). Crashes and errors together are at most
`MaxFaults`, replica counts at most `MaxReplicas`. The `configs` run always has all its
events: users create, edit and delete skills and profiles and meddle with Deployments
and Services (`MaxEdits` times), the operator restarts (`MaxCrashes`), calls fail
(`MaxErrors`).

An environment event waits until fewer than `MaxLag` events of its kind are under way.
The controllers, new sandbox claims, the end of a pod's deletion and the garbage
collector of pods and instances are not bound by it, so watches do get longer; the
roll-out and the garbage collection of Deployments and Services are.

| Run | Instance | Events | Checks |
|---|---|---|---|
| `agent_claims` | 2 instances, 2 pods, 3 replicas, 1 fault | claim, error | `TypeOK`, `SettledPoolIsAsOrdered`, `ScaleDownOnlyIdle`, `ImplementsLifecycle` |
| `agent_pods` | 1 instance, 2 pods, 1 replica, 1 fault | claim, podEnds, evict, crash | `SettledInstancesMatchPods`, `PodGoneIsGone`, `KillsOnlyRetired`, `RestIsStable` |
| `agent_liveness` | 1 instance, 1 pod, 1 fault | podEnds, deletePool, error, rescale | `RetiredIsRemoved`, `DeadIsNoticed` |
| `agent_runaway` | 2 instances, 2 pods, 1 replica | none | `NoRunaway` fails |
| `agent_stuck_pending` | 1 instance, 1 pod | podEnds | `PendingIsInFlight` fails |
| `sandbox_claims` | 1 pod, 2 claims, 1 replica, 1 fault, `CalmSpec` | claim, crash, error | `TypeOK`, `SettledClaimsAreAnswered`, `ImplementsUse` |
| `sandbox_pool` | 2 pods, 2 replicas, 1 fault | template, policy, rescale, deletePool, evict, crash, error | `SettledPoolIsAsOrdered`, `PodsBehindPolicy`, `RestIsStable` |
| `sandbox_liveness` | 1 pod, 1 claim, 1 fault | claim, ttl, crash, error, podRuns | `DeletedClaimGoes`, `ImplementsLooseUse`, `RestIsStable` |
| `sandbox_leak` | 2 pods, 1 claim | claim | `NoPodIsLeaked` fails |
| `sandbox_scale_down` | 1 pod, 1 claim | claim, rescale | `ScaleDownSparesClaimed` fails |
| `sandbox_expired` | 1 pod, 1 claim, 1 fault | claim, ttl, error | `ExpiredClaimGoes` fails |
| `configs` | 1 skill, 1 profile, 2 images, 5 + 2 specs, 2 edits, 1 crash, 1 error | all | `TypeOK`, `SettledReadyIsTrue`, `ReadyIsForThisSpec`, `RestIsStable`, `ComesToRest` |

Why these bounds are enough for what is asked:

- `agent_claims`: two instances are what it takes for a list to be wrong about one of
  them. Replicas go to three with a burst of two, so that a create may come short of
  names and the early requeue after a burst (line 91) happens. A surplus arises from
  stale caches without any rescaling, and is scaled down while the gateway claims. A
  failed update of a scale down is logged and not retried, which the repository does not
  promise either, so `SettledPoolIsAsOrdered` excludes a surplus only while nothing has
  failed (`faults` is 0), and a shortage always.
- `agent_pods`: with two pods for one instance the controller meets a second pod it
  created from a stale cache, a dead one beside a live one, and an evicted one. The
  gateway claims and releases meanwhile, so that updates of the instance controller,
  recycling included, meet conflicts. `PodGoneIsGone` says that an instance whose pod is
  missing from the cache has lost it: instances and pods reach the operator on two
  watches, and the one may be ahead of the other. 2.7 million states.
- `sandbox_claims`: one pod and two claims is contention; the fault may come between
  label and binding, or between release and finalizer. `CalmSpec` is `Spec` but for one
  step: the `Delete` of a claim that was just marked `Released` does not fail, and the
  operator does not crash right before it. Such a claim is revived, which is finding 5.
  This run has no TTLs, so that nothing is excluded here. With `ttl` added to its `Env`,
  where `CalmSpec` matters, TLC finds the same properties to hold in 1.6 million states,
  in more time than a run of this project should take.
- `sandbox_liveness`: claims expire here, and the fault may be the one `CalmSpec` excludes,
  so `SandboxUse!LooseSpec` is what is implemented: an expired claim is kept after all
  (`Revive`) until it is deleted. Being told of another sandbox (`Rebind`) takes a second pod.
  That a claim with its answer is left alone is checked with one claim; the theorem is
  about any number of them.
- `sandbox_pool`: two pods distinguish "some" from "all" of a surplus and a shortage.
  Failed deletions of a scale down are not retried here either, and
  `SettledPoolIsAsOrdered` makes the same exception.
  A burst of three with work left needs three pods and four replicas, beyond what TLC
  finishes, so the early requeue of this pool (line 118) is not reached here; the same
  path of the agent pool is reached in `agent_claims`.
- `configs`: a skill changes into any of the specs `MCConfig` names, which reach every
  way through `Reconcile`: shared with either image, a sidecar, quantities that do not
  parse, not valid. `MaxConfigs` lets only one of the skill and the profile be in play at
  a time: the two controllers share the process and nothing else, and a behaviour may
  delete one and create the other. A name is used again once the operator knows it to be
  free, but what its former owner left may still be there. Two edits are what it takes to
  delete a skill and create it again, or to change the spec and the Deployment.
- Liveness runs have one name of each kind, since the properties are about one object
  at a time and TLC cannot use symmetry there.

No run checks deadlock: a pool that is as ordered, with no user about, may rest for ever.
"Settled" is that state: watches drained, queues empty, workers idle. The `Settled...`
invariants say what is then true, and together with fairness of the controllers they
say where the system ends up whenever the environment pauses. For skills and profiles
`ComesToRest` says that it does end up there.

`RestIsStable` is the other half: a system in order stays in order as long as only the
operator acts. `AtRest` says that nothing is left to do (`InOrder`) and that the operator
knows it: its caches are current and no write is under way. Keys may still be queued,
timers may fire, the pool may be half-way through a reconciliation, calls may fail and the
process restart; the operator must not write. Its own status updates, Deployments and
policies come back to it as events, so one that is written again although nothing changed
would keep it busy for ever, which no `Settled...` invariant notices. What the property
is stated for besides `AtRest` is `Orderly`: every settled state, except what the code
itself leaves unfinished. That is

- a surplus that a failed retirement or deletion left, which a requeue may find again;
- an instance with a second pod, one of which the controller may yet find dead;
- a pool without its template, and claims whose TTL has elapsed;
- skills whose failed call was turned into `Ready=False`, which the next event retries.

`AtRest` does allow a skill whose quantities do not parse: it is queued for ever, but the
panic precedes the first write. That `Orderly` implies `AtRest` is part of what is checked
and proved.

### Fairness

`FairSpec` is `Spec` with: weak fairness of event delivery and of each worker (a watch
delivers; a goroutine that has taken a key finishes its reconciliation), of the kubelet's
removal of a pod being deleted, of the Deployment controller's roll-out, of garbage
collection, of timers and of the clock; strong fairness of the reconciliation of each
key, because the work queue is first in first out and a key that is queued again and
again is served. Nothing is assumed of users, of the gateway, of pods ever starting or
ending, and calls need neither fail nor succeed beyond the bounded number of failures (a
failed call is retried, and errors do not go on for ever).

`agent_liveness` runs without the gateway: with one that claims and releases for ever,
every status update of the instance controller can meet a conflict, and
`DeadIsNoticed` would need the gateway to pause. `ComesToRest` needs users to pause,
which `MaxEdits` makes them do.

## 4. What the violated runs show

Each is a disagreement between the code and something the repository says of itself;
`PROJECT.json` quotes the lines.

1. **Runaway creation** (`agent_runaway`). The count of pending instances that is to
   prevent runaway creation comes from the cache. The pool's own status write can bring
   it back before the instances just created are in the cache, and they are created
   again. The surplus goes once it is warm, so the pool settles (`SettledPoolIsAsOrdered`).
2. **Stuck pending** (`agent_stuck_pending`). A pod that ends before it was seen
   `Running` leaves its instance `pending` for ever; it counts as supply, and the pool
   stays short.
3. **Leaked sandbox** (`sandbox_leak`). A claim finds no warm pod in the cache and is
   answered `Failed`. The event of its own `Pending` update brings it back before the
   cache has that answer: it is reconciled as `Pending`, a pod that is in the cache by now
   is labelled for it, and the update to `Bound` meets a conflict, which is dropped. No
   one ever deletes that pod. A claim that is deleted, or `Bound` already, while the cache
   says `Pending` loses a pod in the same way.
4. **Claimed sandbox deleted** (`sandbox_scale_down`). Scale down deletes pods that were
   warm in the cache without a precondition.
5. **Expired claim revived** (`sandbox_expired`). `Released` is written before the
   deletion; when that fails, no branch handles `Released` and the claim is bound anew,
   to a second pod with a new TTL and the first is forgotten, or answered `Failed` for
   ever.

Findings 3 and 4 do not contradict `ImplementsUse`: no sandbox serves two claims, none is
offered again after use, and a claim is gone only after its recorded sandbox is on its
way out. A sandbox that was labelled for a claim and never announced to it may stay taken,
in `SandboxUse` as in finding 3.

Finding 5 does contradict it, since a claim whose time is up is then kept, with its
sandbox or with another one; `ImplementsUse` is therefore a property of `CalmSpec`.
Without that restriction the system implements `SandboxUse!LooseSpec`, which has two more
steps: a claim that was marked `Released` is kept as it is (`Revive`), or is told of
another sandbox, one taken for it and announced to no other claim (`Rebind`). Either takes
the mark away. So `RefinesLooseUse` proves that whatever fails no sandbox is offered twice
or announced to a second claim, and that a claim is told of another one only after it was
marked, once for every mark. It promises nothing about the sandbox the claim was told of
before, which finding 5 forgets: `Release` looks at the last one only.

`sandbox_liveness` checks `ImplementsLooseUse` with one pod, where no other sandbox can be
had. `Rebind` needs two pods, TTLs and errors at once, and the smallest instance that has
them (two pods, one claim, one fault, `MaxLag` 0) has 3.8 million states: TLC finds
`ImplementsLooseUse` to hold there and `ImplementsUse` not to, but not in the time that a
run of this project should take.

## 5. Proofs

The theorems hold for any finite sets of names, any `Env`, any specs and any bounds; the
named assumptions on the constants of `AgentCluster`, `SandboxCluster` and
`ConfigCluster` are the only ones.

| Module | Theorem | Statement |
|---|---|---|
| `AgentSystemProofs` | `TypeCorrect` | `Spec => []TypeOK` |
| | `Inductive` | `Spec => []IInv` |
| | `ScaleDownIsSafe` | `Spec => ScaleDownOnlyIdle` |
| | `KillsAreRetirements` | `Spec => KillsOnlyRetired` |
| | `RefinesLifecycle` | `Spec => ImplementsLifecycle` |
| `AgentPoolProofs` | `PoolIsAsOrdered` | `Spec => []SettledPoolIsAsOrdered` |
| `AgentInstanceProofs` | `InstancesMatchPods` | `Spec => []SettledInstancesMatchPods` |
| | `PodsStayInSight` | `Spec => []PodGoneIsGone` |
| | `RestIsKept` | `Spec => RestIsStable` |
| `SandboxSystemProofs` | `TypeCorrect` | `Spec => []TypeOK` |
| | `Inductive` | `Spec => []IInv` |
| | `PolicyPrecedesPods` | `Spec => []PodsBehindPolicy` |
| | `SandboxesAreNotShared` | `Spec => []NeverShared` |
| | `RefinesUse` | `CalmSpec => ImplementsUse` |
| | `RefinesLooseUse` | `Spec => ImplementsLooseUse` |
| `SandboxPoolProofs` | `PoolIsAsOrdered` | `Spec => []SettledPoolIsAsOrdered` |
| `SandboxClaimProofs` | `ClaimsAreAnswered` | `Spec => []SettledClaimsAreAnswered` |
| | `RestIsKept` | `Spec => RestIsStable` |
| `ConfigSystemProofs` | `TypeCorrect` | `Spec => []TypeOK` |
| | `Inductive` | `Spec => []IInv` |
| | `ReadyIsSound` | `Spec => ReadyIsForThisSpec` |
| | `ReadyIsTrue` | `Spec => []SettledReadyIsTrue` |
| | `RestIsKept` | `Spec => RestIsStable` |

**One argument under all three.** None of these is inductive: a step that retires an
instance, binds a claim or declares a skill ready only knows what *its copy* said. What
makes it safe is the version check, and to use that a proof needs to know that a copy at
the stored version is the stored object. `Coherent` (`InformerProofs`) says so: a cached
object with no event under way is the stored one, and the last event under way about an
object carries the stored one, without which a delivery would not restore the first
part. Listing establishes it, writes with their event and deliveries keep it; the facts
about sequences are confined to those lemmas. Each system's `InStep` is `Coherent` of
its kinds of objects. Of the pool and of its policy there is one each, and their events
carry the object alone; `Shows` is the same statement for such a kind (`PoolInStep`,
`PolicyInStep`).

**Agents.** Beside the types and `InStep`, `IInv` has

- `VictimsIdle`: an instance about to be retired whose copy is current is warm, which is
  what `ScaleDownOnlyIdle` needs of the pool controller's step;
- `RetiredForGood`: whoever has been seen terminating, in the cache, in an event or by a
  reconciliation under way, is terminating or gone. Deleting an instance is legal in
  the life cycle only for that reason, since `r.Delete` has no precondition;
- `CurrentCopy`: a status about to be written to an instance whose copy is current is a
  legal move from the stored state;
- `PodsKeepOwner`: whatever cache, event or reconciliation speaks of a pod of some
  instance, that name is still the instance's pod, or free. Pods are deleted by name and
  from a list that may be old, so this and `RetiredForGood` are what `KillsOnlyRetired`
  needs.

Each step is first reduced to its effect on one instance (`InstWrites`: leave alone,
deliver, restart, or one of the writes of `LegalWrite`), and the parts are preserved by
those. The refinement maps `state[i]` to `inst[i].state` and `open` to `pool.exists`;
every step is then a life-cycle step of one instance, the closing of the pool, or a
stutter.

`PodsStayInSight` is about two watches that are not in step. Whatever offers instance `i`
on pod `p` (`Serves`: the stored instance, the cached one, an event, or the status about
to be written) has `InSight(p, i)`: `p` is in the pod cache as a pod of `i`, or it has gone
and no event will bring it back. A status that offers `p` is written only by a
reconciliation that saw `p` in the cache, which is where it starts. It is kept because the
removal of a pod is the last event of its name (`RemovalIsLast`): a name is not used again
while an event about it is under way.

**Sandbox policy.** `PolicyInv` is about history. `Known`: a template that was read is
the template, and a pool that is gone stays gone, in the cache too. `TemplateRead`: a
pool that has pods, or is about to, has read its template. `PolicyFirst`: a managed pool
that has pods or whose next call creates one has its policy, or an event of the policy is
under way, the pool is queued, or the next call sees to the policy. The last disjuncts are
why the restart is safe: whatever is lost from the queue is queued by the listing.

**Sandbox use.** `UseInv` has `InStep` (coherence of claims and pods) and

- `ClaimShape`: nothing has been done for a claim without its finalizer, and a claim is
  told of a pod only when it is bound;
- `HeldIsTaken`: the pod a claim was told of carries its label until it goes. So the name
  is not warm again while the claim holds it;
- `NeverShared`: no two claims were told of the same pod;
- `CopyCurrent`: what the claim controller's next call assumes of its claim, if the copy
  is current; removing the finalizer is legal because the pod is gone or going;
- `PodChosen`: a pod about to be labelled is warm if its copy is current, and one about
  to be announced is labelled for this claim and was announced to no other.

The refinement maps a pod to `absent`, `warm`, `doomed` or the claim of its label
(`UseOf`), a claim to the pod of its status, and `lapsed` to the claims whose phase is
`Released`. `RefinesUse` adds `CalmInv`: a claim marked `Released` is about to be deleted
by the same reconciliation, or is being deleted, so no claim that is bound or answered
`Failed` was bound before. That is what fails outside `CalmSpec`. `RefinesLooseUse` has
the same steps without `CalmInv`: a claim that was bound before and is written again is
marked `Released`, and its write is a `Revive` or a `Rebind` (`KeepRefines`); what
`Rebind` asks of the other pod is what `PodChosen` and `NeverShared` know of it.

**Configs.** `IInv` is the types, coherence of skills and profiles, `FreshExists` (a copy
counted as current has an object) and `CopyValid`: a reconciliation whose copy is current
and which may still declare the object ready validated the spec that is stored.

**Nothing is forgotten.** The `Settled...` invariants speak of states in which nothing is
left to do, so they follow from an invariant about all the others: an object that is not
as it should be is on its way to its controller. The five proofs have it (`Remembered`),
with the same three cases. The object is

- `Told`: an event about it, or about what it owns, is under way, or it is queued; or
- being reconciled (`Busy`) by a run that is `Sure`: its copies are current, so that its
  next call is accepted and either announces itself by an event, or fails and returns the
  object to the queue, or is the last one and leaves the object as it should be; or
- not being reconciled, and as it should be.

A step of anybody else keeps whichever case holds, because every change of an object
sends an event that its controller's watches turn into a queue entry (`ChangeAnnounced`);
a restart queues whatever exists. A `Conflict` that the code drops is harmless exactly
because the copy it was refused for is not current, which is the first case. What each
proof adds:

- *claims*: `CopyMoves`: a status update on a current copy changes the phase, so it is
  never one of the writes that cause no event;
- *instances*: the event may be about a pod, so the deletion of a pod has to reach the
  instance that owned it, which takes `OneOwner` (all that is said of a pod's name names
  one instance) and, while pods are deleted, `UnderWay`;
- *pools*: there is one, but its plan is drawn from lists of other objects, and `Sure`
  says that what it has counted is what there is. A surplus that a failed call has left
  is excepted (`faults`), since the code does not retry it;
- *skills and profiles*: the next call about a Deployment or Service must fit what is
  stored (`OwnedInStep`: those caches are coherent too; `UpdateFits`). What a deleted
  skill owned is the garbage collector's (`LeftBehind`), whose deletion is an event that
  brings back a namesake created meanwhile. A failed call that the controller turned into
  `Ready=False` is excepted (`errors`), since its error is not returned.

**A system in order is left alone.** `RestIsStable` needs two facts of each system.
`OrderlyIsAtRest`: in a settled state the invariants above leave nothing to be done
(`Remembered` with nobody busy and nothing queued is its last case), and with no event
under way coherence makes every cache the stored state (`CacheCurrent`). `RestNext`: at
rest, no step of the operator writes, and every one ends at rest. A reconciliation that
starts reads caches that are current, finds that nothing is to be done, and ends or goes
on to a status update that says what is stored (`DispatchAtRest`, `VerdictAtRest`); that
update changes nothing, and sends no event. This is where `setCondition` keeping a
condition that says the same, `EnsurePolicy` finding the policy as desired, a failed claim
being left as it is, and the comparison of images are needed; the mutants of the property
break one each.

Only model-checked: the liveness properties (`RetiredIsRemoved`, `DeadIsNoticed`,
`DeletedClaimGoes`, `ComesToRest`), since fairness and `ENABLED` are out of the prover's
reach. The modules contain no RECURSIVE operator.

## 6. What is not modelled

- **Contents of objects.** Pod specs (`podForInstance`, `createSandboxPod`), egress
  rules, endpoints, error texts, reasons and messages of conditions. A NetworkPolicy is
  absent, as desired, or different; a template is absent, managed or custom. The profile
  lookup of `reconcilePending` only decides environment variables. The controllers never
  read a sandbox pod's phase, so neither does the model. Of a Deployment the model keeps
  the image, since `reconcileSharedDeployment` compares and updates nothing else.
- **What the skill controller leaves behind.** A skill that leaves shared mode, or is no
  longer valid, keeps its Deployment and Service, as in the code; no property forbids
  it, since nothing in the repository does. Nor does one demand the retry of a failed
  call that leaves `Ready` as it was.
- **A quantity that does not parse** makes `resource.MustParse` panic; controller-runtime
  recovers and queues the skill again, for ever. The model has the panic
  (`ReconcilePanics`), and `ComesToRest` excepts it (`Panicking`).
- **`setCondition`** keeps the old condition while its status is unchanged, so messages
  and `observedGeneration` stay those of the first reconciliation; nothing in the
  operator reads them. That the status itself is kept is in `Replaced`.
- **DeepCopy** of the API types: field-by-field copies without control.
- **Edits of a template** after its creation. Nothing watches templates.
- **Names of pools reused.** A deleted pool stays deleted, so that garbage collection
  cannot be confused by a namesake; Kubernetes tells them apart by UID. Names of skills
  are reused, and `orphan` and `fresh.owner` stand for the UIDs.
- **`spec.idleTimeoutSeconds`** of a pool: declared in `types.go`, used by no code.
- **The two reads of the clock** in the TTL branch are one; a TTL that elapses between
  them would make `RequeueAfter` non-positive.
- **Informer resync** (every ten hours by default), retry back-off, and two operators
  overlapping at a change of leader.

## 7. Plan

Every property of a passing run is proved, but for liveness. What is left would widen the
models, and the proofs with them:

1. The two reads of the clock in the TTL branch as two steps: a TTL that elapses between
   them leaves no timer, and the claim then waits for the next event or resync.
2. Edits of a template and of an instance's profile, which no watch brings to the pools
   that use them; the property would be what a pool may keep running on.
3. Two operators with leader election, each with its own caches; the version checks carry
   the refinements over, while `Settled...` and the bounds on creation do not.
4. An `agent_claims` run with two pods per instance, and a sandbox pool of four with its
   burst of three, once TLC finishes them in reasonable time.

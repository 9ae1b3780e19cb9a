------------------------- MODULE SandboxClaimProofs -------------------------
(***************************************************************************)
(* No claim is forgotten: whatever is lost, fails or is refused, what is   *)
(* left to do for a claim is on its way to the claim controller.           *)
(***************************************************************************)
EXTENDS SandboxPoolProofs

USE DEF vars, server, informers, queues, outside, poolUntouched, claimUntouched

\* The controller is going to look at the claim: an event is under way, or it is queued.
Told(c) == ~Quiet(watch.claim, c) \/ c \in claimQueue

Busy(c) == cr.step # "idle" /\ cr.key = c

Answered(c) == claim[c].phase \in {"absent", "Bound", "Failed"} /\ ~claim[c].del

\* A reconciliation whose copy is current needs no second look: the write that is left
\* to it announces itself.  After "expire" the announcement has been made.
Remembered(c) ==
  \/ Told(c)
  \/ Busy(c) /\ fresh.claim /\ cr.step # "delete"
  \/ ~Busy(c) /\ Answered(c)

\* A claim that is bound is told of its pod, and one that is gone left nothing.
StatusOf(v) == (v.phase = "Bound" => v.pod # None) /\ (v.phase = "absent" => v = NoClaim)

\* The update of the status that a reconciliation has come to changes the phase.
CopyMoves ==
  fresh.claim =>
    /\ cr.step = "expire" => claim[cr.key].phase # "Released"
    /\ cr.step = "pending" => claim[cr.key].phase # "Pending"
    /\ cr.step = "fail" => claim[cr.key].phase # "Failed"
    /\ cr.step \in {"label", "bind"} => claim[cr.key].phase # "Bound"

NoneForgotten == \A c \in Claims : StatusOf(claim[c]) /\ Remembered(c)
AnswerInv     == NoneForgotten /\ CopyMoves

LEMMA AnswerInit == Init => AnswerInv
BY ValueTypes DEF Init, ClusterInit, AnswerInv, NoneForgotten, CopyMoves, StatusOf, Remembered, Busy,
                  Answered, ClaimIdle, NoFresh

\* A write that changes a claim announces it, and hides no other announcement.
LEMMA PutAnnounces ==
  ASSUME TypeOK, NEW c \in Claims, NEW v \in ClaimVal, PutClaim(c, v)
  PROVE  /\ v # claim[c] => ~Quiet(watch'.claim, c)
         /\ \A d : ~Quiet(watch.claim, d) => ~Quiet(watch'.claim, d)
         /\ claim'[c] = v /\ \A d \in Claims : d # c => claim'[d] = claim[d]
<1>1. claim'[c] = v /\ \A d \in Claims : d # c => claim'[d] = claim[d]
  BY DEF PutClaim, TypeOK, ServerOK
<1>2. /\ watch.claim \in Seq([key : Claims, val : ClaimVal])
      /\ watch'.claim = watch.claim \o (IF v = claim[c] THEN <<>> ELSE <<Event(c, v)>>)
  BY DEF PutClaim, Sees, TypeOK, InformersOK, EventVal, Kinds
<1>3. CASE v = claim[c]
  <2>1. watch'.claim = watch.claim
    BY <1>2, <1>3, ConcatEmptySeq
  <2> QED
    BY <1>1, <1>3, <2>1
<1>4. CASE v # claim[c]
  <2>1. Event(c, v) \in [key : Claims, val : ClaimVal]
    BY DEF Event
  <2>2. watch'.claim = Append(watch.claim, Event(c, v))
    BY <1>2, <1>4, <2>1, AppendIsConcat
  <2> QED
    BY <1>1, <1>2, <2>2, SentIsUnderWay
<1> QED
  BY <1>3, <1>4

\* Steps that change neither the claims nor the reconciliation of one, and lose nothing.
LEMMA AnswerKept ==
  ASSUME AnswerInv, UNCHANGED <<claim, cr>>, fresh'.claim = fresh.claim,
         \A c \in Claims : Told(c) => Told(c)'
  PROVE  AnswerInv'
BY DEF AnswerInv, NoneForgotten, CopyMoves, Remembered, Busy, Answered

\* A claim is changed by somebody else: the copy of it is not current any more.
LEMMA AnswerChanged ==
  ASSUME TypeOK, AnswerInv, NEW c \in Claims, NEW v \in ClaimVal, PutClaim(c, v), v # claim[c],
         StatusOf(v), UNCHANGED <<cr, claimQueue>>, fresh'.claim = (fresh.claim /\ cr.key # c)
  PROVE  AnswerInv'
<1>1. /\ ~Quiet(watch'.claim, c)
      /\ \A d : ~Quiet(watch.claim, d) => ~Quiet(watch'.claim, d)
      /\ claim'[c] = v /\ \A d \in Claims : d # c => claim'[d] = claim[d]
  BY PutAnnounces
<1>2. cr.step # "idle" => cr.key \in Claims
  BY DEF TypeOK, ControllersOK
<1>3. ASSUME NEW d \in Claims PROVE StatusOf(claim'[d]) /\ Remembered(d)'
  <2>1. CASE d = c
    BY <1>1, <2>1 DEF Remembered, Told
  <2>2. CASE d # c
    BY <1>1, <2>2 DEF AnswerInv, NoneForgotten, Remembered, Told, Busy, Answered
  <2> QED
    BY <2>1, <2>2
<1>4. CopyMoves'
  BY <1>1, <1>2 DEF AnswerInv, CopyMoves
<1> QED
  BY <1>3, <1>4 DEF AnswerInv, NoneForgotten, StatusOf

LEMMA AnswerOutside == TypeOK /\ UseInv /\ AnswerInv /\ Outside => AnswerInv'
<1> SUFFICES ASSUME TypeOK, UseInv, AnswerInv, Outside PROVE AnswerInv'
  OBVIOUS
<1>0. fresh \in Flags
  BY DEF TypeOK, ControllersOK, Flags
<1>1. ASSUME NEW kind \in Kinds \ {"claim"}, NEW events, Sees(kind, events),
             UNCHANGED <<claim, cr, claimQueue>>, fresh'.claim = fresh.claim
      PROVE  AnswerInv'
  <2>1. watch'.claim = watch.claim
    BY <1>1, OtherWatches DEF Kinds
  <2> QED
    BY <1>1, <2>1, AnswerKept DEF Told
<1>2. ASSUME Rescale \/ DeletePool \/ CreateTemplate \/ TamperPolicy \/ CollectPolicy PROVE AnswerInv'
  <2>1. PICK kind \in Kinds \ {"claim"} : \E events : Sees(kind, events)
    BY <1>2 DEF Rescale, DeletePool, CreateTemplate, TamperPolicy, CollectPolicy, PutPool, PutPolicy,
                Kinds
  <2>2. fresh'.claim = fresh.claim
    BY <1>0, <1>2 DEF Rescale, DeletePool, CreateTemplate, TamperPolicy, CollectPolicy, Flags
  <2> QED
    BY <1>1, <1>2, <2>1, <2>2 DEF Rescale, DeletePool, CreateTemplate, TamperPolicy, CollectPolicy
<1>3. ASSUME NEW c \in Claims, CreateClaim(c) PROVE AnswerInv'
  <2>1. cr.key # c /\ claim[c] = NoClaim /\ NewClaim # NoClaim /\ StatusOf(NewClaim)
    BY <1>3, ValueTypes DEF CreateClaim, ClaimNameFree, StatusOf
  <2> QED
    BY <1>0, <1>3, <2>1, AnswerChanged, ValueTypes DEF CreateClaim, Flags
<1>4. ASSUME NEW c \in Claims, DeleteClaim(c) PROVE AnswerInv'
  <2>1. claim[c] \in ClaimVal /\ Deleted(c) \in ClaimVal
    BY CoreValues
  <2>2. Deleted(c) # claim[c] /\ StatusOf(Deleted(c))
    BY <1>4, <2>1, ValueTypes DEF DeleteClaim, Deleted, StatusOf, AnswerInv, NoneForgotten, ClaimVal
  <2>3. fresh'.claim = (fresh.claim /\ cr.key # c)
    BY <1>0, <1>4 DEF DeleteClaim, ClaimMoved, Flags
  <2> QED
    BY <1>4, <2>1, <2>2, <2>3, AnswerChanged DEF DeleteClaim
<1>5. ASSUME NEW c \in Claims, TTLElapses(c) \/ TimerFires(c) PROVE AnswerInv'
  BY <1>5, AnswerKept DEF TTLElapses, TimerFires, Told
<1>6. ASSUME NEW p \in Pods, PodRuns(p) \/ EvictPod(p) \/ RemovePod(p) \/ CollectPod(p)
      PROVE  AnswerInv'
  <2>1. PICK v : PodWrites(p, v)
    BY <1>6 DEF PodRuns, EvictPod, RemovePod, CollectPod
  <2>2. fresh'.claim = fresh.claim
    BY <1>0, <2>1 DEF PodWrites, PodMoved, Flags
  <2> QED
    BY <1>1, <2>1, <2>2 DEF PodWrites, PutPod, Kinds
<1> QED
  BY <1>2, <1>3, <1>4, <1>5, <1>6 DEF Outside

LEMMA AnswerDeliver == TypeOK /\ AnswerInv /\ (Deliver \/ Crash) => AnswerInv'
<1> SUFFICES ASSUME TypeOK, AnswerInv, Deliver \/ Crash PROVE AnswerInv'
  OBVIOUS
<1>1. ASSUME NEW kind \in Kinds \ {"claim"}, NEW v, Take(kind, v), claimQueue' = claimQueue
      PROVE  AnswerInv'
  <2>1. watch'.claim = watch.claim
    BY <1>1 DEF Take, TypeOK, InformersOK, Kinds
  <2> QED
    BY <1>1, <2>1, AnswerKept DEF Take, Told
<1>2. ASSUME DeliverPool \/ DeliverTemplate \/ DeliverPolicy \/ DeliverPod PROVE AnswerInv'
  BY <1>1, <1>2 DEF DeliverPool, DeliverTemplate, DeliverPolicy, DeliverPod, Kinds
<1>3. ASSUME DeliverClaim PROVE AnswerInv'
  <2>1. /\ watch.claim \in Seq([key : Claims, val : ClaimVal])
        /\ watch.claim # <<>> /\ watch'.claim = Tail(watch.claim)
    BY <1>3 DEF DeliverClaim, Take, TypeOK, InformersOK, EventVal, Kinds
  <2>2. \A c : ~Quiet(watch.claim, c) => Head(watch.claim).key = c \/ ~Quiet(Tail(watch.claim), c)
    BY <2>1, DeliveredOrUnderWay
  <2>3. claimQueue' = claimQueue \cup {Head(watch.claim).key}
    BY <1>3 DEF DeliverClaim
  <2>4. \A c \in Claims : Told(c) => Told(c)'
    BY <2>1, <2>2, <2>3 DEF Told
  <2> QED
    BY <1>3, <2>4, AnswerKept DEF DeliverClaim, Take
<1>4. ASSUME Crash PROVE AnswerInv'
  <2>1. \A c \in Claims : StatusOf(claim'[c]) /\ Remembered(c)'
    BY <1>4, ValueTypes DEF Crash, AnswerInv, NoneForgotten, StatusOf, Remembered, Told, Busy, Answered,
                            ClaimIdle
  <2> QED
    BY <1>4, <2>1 DEF Crash, AnswerInv, NoneForgotten, StatusOf, CopyMoves, NoFresh
<1> QED
  BY <1>2, <1>3, <1>4 DEF Deliver

LEMMA AnswerPool == TypeOK /\ AnswerInv /\ (PoolReconcile \/ PoolStep) => AnswerInv'
<1> SUFFICES ASSUME TypeOK, AnswerInv, PoolReconcile \/ PoolStep PROVE AnswerInv'
  OBVIOUS
<1>0. fresh \in Flags
  BY DEF TypeOK, ControllersOK, Flags
<1>1. UNCHANGED <<claim, cr, claimQueue>>
  BY DEF PoolReconcile, PoolStep, ClearPoolStatus, EnsurePolicy, EnsurePolicyFails, CreateSandboxPod,
     CreateSandboxPodFails, DeleteExcessPod, DeleteExcessPodFails, UpdatePoolStatus, UpdatePoolStatusFails
<1>2. ASSUME NEW requeue, PoolDone(requeue) PROVE fresh'.claim = fresh.claim
  BY <1>0, <1>2 DEF PoolDone, Flags
<1>3. fresh'.claim = fresh.claim
  <2>1. ASSUME PoolReconcile \/ ClearPoolStatus \/ EnsurePolicy \/ EnsurePolicyFails
                 \/ CreateSandboxPodFails \/ UpdatePoolStatus \/ UpdatePoolStatusFails
        PROVE  fresh'.claim = fresh.claim
    BY <1>0, <1>2, <2>1 DEF PoolReconcile, ClearPoolStatus, EnsurePolicy, EnsurePolicyFails,
       CreateSandboxPodFails, UpdatePoolStatus, UpdatePoolStatusFails, Flags
  <2>2. ASSUME CreateSandboxPod PROVE fresh'.claim = fresh.claim
    BY <1>2, <2>2, Zenon DEF CreateSandboxPod
  <2>3. ASSUME NEW p \in Pods, DeleteExcessPod(p) \/ DeleteExcessPodFails(p)
        PROVE  fresh'.claim = fresh.claim
    BY <1>0, <2>3 DEF DeleteExcessPod, DeleteExcessPodFails, PodMoved, Flags
  <2> QED
    BY <2>1, <2>2, <2>3 DEF PoolStep
<1>4. watch'.claim = watch.claim
  <2>1. watch' = watch \/ \E kind \in Kinds \ {"claim"} : \E events : Sees(kind, events)
    BY DEF PoolReconcile, PoolStep, ClearPoolStatus, EnsurePolicy, EnsurePolicyFails, CreateSandboxPod,
       CreateSandboxPodFails, DeleteExcessPod, DeleteExcessPodFails, UpdatePoolStatus,
       UpdatePoolStatusFails, PutPool, PutPolicy, PutPod, Kinds
  <2> QED
    BY <2>1, OtherWatches DEF Kinds
<1> QED
  BY <1>1, <1>3, <1>4, AnswerKept DEF Told

\* A reconciliation begins with the cached claim: unless an event is under way, it is the
\* stored one, and either nothing is left to be done or the copy is current.
LEMMA AnswerDispatch ==
  ASSUME TypeOK, UseInv, AnswerInv, NEW c \in Claims, ClaimReconcile(c)
  PROVE  AnswerInv'
<1>0. /\ fresh \in Flags /\ cache.claim \in [Claims -> ClaimVal] /\ cr.step = "idle"
      /\ UNCHANGED <<claim, watch>> /\ claimQueue' = claimQueue \ {c}
  BY DEF TypeOK, InformersOK, CacheVal, ControllersOK, Flags, ClaimReconcile, ReconcileGone,
         ReconcileDeleted, ReconcileNoFinalizer, ReconcileFailed, ReconcileBound, ReconcileNew,
         ReconcilePending, Begin
<1>1. Quiet(watch.claim, c) => cache.claim[c] = claim[c]
  BY DEF UseInv, InStep, Coherent
<1>2. ASSUME NEW step, NEW p, Begin(c, step, p), CopyOf(c), step # "idle"
      PROVE  cr' = [step |-> step, key |-> c, pod |-> p] /\ fresh'.claim = Quiet(watch.claim, c)
  BY <1>0, <1>2 DEF Begin, CopyOf, Flags
\* The run that has begun, or the answer that was found.
<1>3. /\ cr'.step = "idle" /\ Quiet(watch.claim, c) => Answered(c)
      /\ cr'.step # "idle" =>
           cr'.step # "delete" /\ cr'.key = c /\ fresh'.claim = Quiet(watch.claim, c)
      /\ Quiet(watch.claim, c) => CopyMoves'
  <2>1. CASE ReconcileGone(c) \/ ReconcileFailed(c) \/ (ReconcileBound(c) /\ cr'.step = "idle")
    BY <1>1, <2>1, ValueTypes DEF ReconcileGone, ReconcileFailed, ReconcileBound, Begin, ClaimIdle, Active,
                      Answered, CopyMoves
  <2>2. CASE ReconcileDeleted(c) \/ ReconcileNoFinalizer(c)
    <3>1. PICK step \in {"unfinalize", "release", "finalize"} : \E p : Begin(c, step, p) /\ CopyOf(c)
      BY <2>2 DEF ReconcileDeleted, ReconcileNoFinalizer
    <3> QED
      BY <1>2, <3>1 DEF CopyMoves
  <2>3. CASE ReconcileBound(c) /\ cr'.step # "idle"
    <3>1. Begin(c, "expire", None) /\ CopyOf(c) /\ cache.claim[c].phase = "Bound"
      BY <2>3 DEF ReconcileBound, Begin, ClaimIdle
    <3> QED
      BY <1>0, <1>1, <1>2, <3>1 DEF CopyMoves
  <2>4. CASE ReconcileNew(c)
    BY <1>0, <1>1, <1>2, <2>4 DEF ReconcileNew, CopyMoves
  <2>5. CASE ReconcilePending(c)
    <3>1. PickPod([ClaimIdle EXCEPT !.key = c], Quiet(watch.claim, c))
          /\ cache.claim[c].phase \in {"Pending", "Released"}
      BY <2>5 DEF ReconcilePending
    <3>2. cr'.step \in {"fail", "label"} /\ cr'.key = c /\ fresh'.claim = Quiet(watch.claim, c)
      BY <1>0, <3>1 DEF PickPod, ClaimIdle, Flags
    <3> QED
      BY <1>0, <1>1, <3>1, <3>2 DEF CopyMoves
  <2> QED
    BY <2>1, <2>2, <2>3, <2>4, <2>5 DEF ClaimReconcile
<1>4. ASSUME NEW d \in Claims PROVE StatusOf(claim'[d]) /\ Remembered(d)'
  <2>1. CASE d = c
    BY <1>0, <1>3, <2>1 DEF AnswerInv, NoneForgotten, Remembered, Told, Busy, Answered
  <2>2. CASE d # c
    BY <1>0, <1>3, <2>2 DEF AnswerInv, NoneForgotten, Remembered, Told, Busy, Answered
  <2> QED
    BY <2>1, <2>2
<1>5. CopyMoves'
  BY <1>0, <1>3 DEF CopyMoves
<1> QED
  BY <1>4, <1>5 DEF AnswerInv, NoneForgotten, StatusOf

\* What a call has to leave behind: of its own claim, and of the others nothing new.
LEMMA AnswerCall ==
  ASSUME TypeOK, AnswerInv, NEW c \in Claims, cr.step # "idle", cr.key = c,
         cr'.step = "idle" \/ cr'.key = c, claimQueue \subseteq claimQueue', CopyMoves',
         StatusOf(claim'[c]), Remembered(c)',
         \/ claim' = claim /\ watch'.claim = watch.claim
         \/ \E v \in ClaimVal : PutClaim(c, v)
  PROVE  AnswerInv'
<1>1. \A d \in Claims : d # c => claim'[d] = claim[d] /\ (~Quiet(watch.claim, d) => ~Quiet(watch'.claim, d))
  BY PutAnnounces
<1>2. ASSUME NEW d \in Claims PROVE StatusOf(claim'[d]) /\ Remembered(d)'
  <2>1. CASE d # c
    BY <1>1, <2>1 DEF AnswerInv, NoneForgotten, Remembered, Told, Busy, Answered
  <2>2. CASE d = c
    BY <2>2
  <2> QED
    BY <2>1, <2>2
<1> QED
  BY <1>2 DEF AnswerInv, NoneForgotten, StatusOf

\* The update of a status announces itself, or an event is what it was refused for.
LEMMA StatusAnnounces ==
  ASSUME TypeOK, AnswerInv, NEW c \in Claims, Busy(c), NEW v \in ClaimVal, PutStatus(c, v),
         claimQueue \subseteq claimQueue', fresh.claim => v # claim[c], StatusOf(v)
  PROVE  /\ Told(c)' /\ StatusOf(claim'[c])
         /\ fresh.claim => claim'[c] = v
         /\ (claim' = claim /\ watch'.claim = watch.claim) \/ PutClaim(c, v)
<1>1. CASE fresh.claim
  BY <1>1, PutAnnounces DEF PutStatus, Told
<1>2. CASE ~fresh.claim
  BY <1>2 DEF PutStatus, AnswerInv, NoneForgotten, Remembered, Told
<1> QED
  BY <1>1, <1>2

LEMMA AnswerClaimStep == TypeOK /\ UseInv /\ AnswerInv /\ ClaimStep => AnswerInv'
<1> SUFFICES ASSUME TypeOK, UseInv, AnswerInv, ClaimStep PROVE AnswerInv'
  OBVIOUS
<1> PICK c : c = cr.key
  OBVIOUS
<1>0. /\ fresh \in Flags /\ c \in Claims /\ claim[c] \in ClaimVal /\ Busy(c)
      /\ cr.step \in {"release", "label", "bind"} => cr.pod \in Pods
      /\ StatusOf(claim[c]) /\ Remembered(c)
      /\ cr = [step |-> cr.step, key |-> c, pod |-> cr.pod]
  <2>1. cr.step # "idle"
    BY DEF ClaimStep, AddFinalizer, ReleasePod, RemoveFinalizer, MarkReleased, DeleteExpired,
           MarkPending, MarkFailed, LabelPod, BindClaim, ClaimCallRefused, ClaimCallFails
  <2>2. c \in Claims
    BY <2>1 DEF TypeOK, ControllersOK
  <2> QED
    BY <2>1, <2>2, CoreValues DEF TypeOK, ControllersOK, Flags, Busy, AnswerInv, NoneForgotten
<1>1. ASSUME NEW requeue, ClaimDone(requeue)
      PROVE  /\ cr'.step = "idle" /\ ~Busy(c)' /\ CopyMoves' /\ claimQueue \subseteq claimQueue'
             /\ requeue => Told(c)'
  BY <1>0, <1>1 DEF ClaimDone, ClaimIdle, Busy, CopyMoves, Flags, Told
\* A call that fails has the claim looked at again.
<1>2. ASSUME ClaimCallRefused \/ ClaimCallFails PROVE AnswerInv'
  <2>1. ClaimDone(TRUE) /\ UNCHANGED <<claim, watch>>
    BY <1>2 DEF ClaimCallRefused, ClaimCallFails, ClaimFails
  <2> QED
    BY <1>0, <1>1, <2>1, AnswerCall DEF Remembered, Busy
<1>3. ASSUME AddFinalizer PROVE AnswerInv'
  <2> DEFINE v == [claim[c] EXCEPT !.fin = TRUE]
  <2>1. claim[c] = NewClaim
    BY <1>3 DEF AddFinalizer, UseInv, RunFits, CopyCurrent
  <2>2. v \in ClaimVal /\ v # claim[c] /\ StatusOf(v)
    BY <1>0, <2>1, ValueTypes DEF ClaimVal, StatusOf
  <2>3. PutClaim(c, v) /\ ClaimDone(FALSE)
    BY <1>3 DEF AddFinalizer
  <2>4. Told(c)' /\ claim'[c] = v
    BY <1>0, <2>2, <2>3, PutAnnounces DEF Told
  <2> QED
    BY <1>0, <1>1, <2>2, <2>3, <2>4, AnswerCall DEF Remembered, Busy
<1>4. ASSUME ReleasePod \/ LabelPod PROVE AnswerInv'
  <2>1. PICK v : PutPod(cr.pod, v)
    BY <1>4 DEF ReleasePod, LabelPod
  <2>2. watch'.claim = watch.claim
    BY <2>1, OtherWatches DEF PutPod, Kinds
  <2>3. /\ cr'.key = c /\ UNCHANGED <<claim, claimQueue, fresh>>
        /\ \/ cr.step = "release" /\ cr'.step = "unfinalize"
           \/ cr.step = "label" /\ cr'.step = "bind"
    BY <1>0, <1>4 DEF ReleasePod, LabelPod
  <2> QED
    BY <1>0, <2>2, <2>3, AnswerCall DEF Remembered, Told, Busy, Answered, AnswerInv, CopyMoves
<1>5. ASSUME RemoveFinalizer PROVE AnswerInv'
  <2>1. PutClaim(c, NoClaim) /\ ClaimDone(FALSE) /\ StatusOf(NoClaim)
    BY <1>5, ValueTypes DEF RemoveFinalizer, StatusOf
  <2>2. claim'[c] = NoClaim
    BY <1>0, <2>1, PutAnnounces, ValueTypes
  <2> QED
    BY <1>0, <1>1, <2>1, <2>2, AnswerCall, ValueTypes DEF Remembered, Answered, Busy
<1>6. ASSUME MarkReleased PROVE AnswerInv'
  <2> DEFINE v == [claim[c] EXCEPT !.phase = "Released"]
  <2>1. v \in ClaimVal /\ StatusOf(v) /\ (fresh.claim => v # claim[c])
    BY <1>0, <1>6 DEF MarkReleased, ClaimVal, StatusOf, AnswerInv, CopyMoves
  <2>2. PutStatus(c, v) /\ cr'.step = "delete" /\ cr'.key = c /\ claimQueue' = claimQueue
    BY <1>0, <1>6 DEF MarkReleased
  <2>3. /\ Told(c)' /\ StatusOf(claim'[c])
        /\ (claim' = claim /\ watch'.claim = watch.claim) \/ PutClaim(c, v)
    BY <1>0, <2>1, <2>2, StatusAnnounces
  <2> QED
    BY <1>0, <2>1, <2>2, <2>3, AnswerCall DEF Remembered, Busy, CopyMoves
<1>7. ASSUME DeleteExpired PROVE AnswerInv'
  <2>1. PutClaim(c, Deleted(c)) /\ ClaimDone(FALSE) /\ Told(c) /\ Deleted(c) \in ClaimVal
    BY <1>0, <1>7, CoreValues DEF DeleteExpired, Remembered
  <2>2. StatusOf(Deleted(c))
    BY <1>0, ValueTypes DEF Deleted, StatusOf, ClaimVal
  <2>3. Told(c)' /\ claim'[c] = Deleted(c)
    BY <1>0, <1>1, <2>1, PutAnnounces DEF Told
  <2> QED
    BY <1>0, <1>1, <2>1, <2>2, <2>3, AnswerCall DEF Remembered, Busy
<1>8. ASSUME MarkPending PROVE AnswerInv'
  <2> DEFINE v == [claim[c] EXCEPT !.phase = "Pending"]
  <2>1. v \in ClaimVal /\ v.phase = "Pending" /\ StatusOf(v) /\ (fresh.claim => v # claim[c])
    BY <1>0, <1>8 DEF MarkPending, ClaimVal, StatusOf, AnswerInv, CopyMoves
  <2>2. PutStatus(c, v) /\ claimQueue' = claimQueue
    BY <1>8 DEF MarkPending
  <2>3. cr'.step \in {"fail", "label"} /\ cr'.key = c /\ fresh'.claim = fresh.claim
    BY <1>0, <1>8 DEF MarkPending, PickPod, Flags
  <2>4. /\ Told(c)' /\ StatusOf(claim'[c])
        /\ fresh.claim => claim'[c] = v
        /\ (claim' = claim /\ watch'.claim = watch.claim) \/ PutClaim(c, v)
    BY <1>0, <2>1, <2>2, StatusAnnounces
  <2>5. CopyMoves'
    BY <2>1, <2>3, <2>4 DEF CopyMoves
  <2> QED
    BY <1>0, <2>1, <2>2, <2>3, <2>4, <2>5, AnswerCall DEF Remembered, Busy
<1>9. ASSUME MarkFailed \/ BindClaim PROVE AnswerInv'
  <2>1. PICK v \in ClaimVal : PutStatus(c, v) /\ StatusOf(v) /\ (fresh.claim => v # claim[c])
    <3>1. CASE MarkFailed
      <4> DEFINE w == [claim[c] EXCEPT !.phase = "Failed"]
      <4>1. w \in ClaimVal /\ StatusOf(w) /\ (fresh.claim => w # claim[c])
        BY <1>0, <3>1 DEF MarkFailed, ClaimVal, StatusOf, AnswerInv, CopyMoves
      <4> QED
        BY <3>1, <4>1 DEF MarkFailed
    <3>2. CASE BindClaim
      <4> DEFINE w == [claim[c] EXCEPT !.phase = "Bound", !.pod = cr.pod]
      <4>1. cr.pod \in Pods /\ cr.pod # None /\ (fresh.claim => claim[c].phase # "Bound")
        BY <1>0, <3>2, ConstantsAssumption DEF BindClaim, AnswerInv, CopyMoves
      <4>2. w \in ClaimVal /\ StatusOf(w) /\ (fresh.claim => w # claim[c])
        BY <1>0, <4>1 DEF ClaimVal, StatusOf
      <4> QED
        BY <3>2, <4>2 DEF BindClaim
    <3> QED
      BY <1>9, <3>1, <3>2
  <2>2. ClaimDone(FALSE)
    BY <1>9 DEF MarkFailed, BindClaim
  <2>3. /\ Told(c)' /\ StatusOf(claim'[c])
        /\ (claim' = claim /\ watch'.claim = watch.claim) \/ PutClaim(c, v)
    BY <1>0, <1>1, <2>1, <2>2, StatusAnnounces
  <2> QED
    BY <1>0, <1>1, <2>1, <2>2, <2>3, AnswerCall DEF Remembered, Busy
<1> QED
  BY <1>2, <1>3, <1>4, <1>5, <1>6, <1>7, <1>8, <1>9 DEF ClaimStep

LEMMA AnswerNext == TypeOK /\ UseInv /\ AnswerInv /\ [Next]_vars => AnswerInv'
<1>1. ASSUME AnswerInv, UNCHANGED vars PROVE AnswerInv'
  BY <1>1, AnswerKept DEF Told
<1> QED
  BY <1>1, AnswerOutside, AnswerDeliver, AnswerPool, AnswerDispatch, AnswerClaimStep DEF Next, Operator

-----------------------------------------------------------------------------
(* Settled claims *)

LEMMA ClaimsAreRemembered == Spec => []AnswerInv
<1>1. IInv /\ AnswerInv /\ [Next]_vars => AnswerInv'
  BY AnswerNext DEF IInv
<1> QED
  BY <1>1, AnswerInit, Inductive, PTL DEF Spec

LEMMA SettledIsAnswered ==
  ASSUME IInv, AnswerInv, Settled, NEW c \in Claims
  PROVE  /\ claim[c].phase \in {"absent", "Bound", "Failed"}
         /\ claim[c].phase = "Bound" => claim[c].pod \in Pods
         /\ ~claim[c].del
<1>1. ~Told(c) /\ ~Busy(c)
  BY DEF Settled, Told, Busy, Quiet, Kinds
<1>2. claim[c] \in ClaimVal
  BY CoreValues DEF IInv
<1> QED
  BY <1>1, <1>2 DEF AnswerInv, NoneForgotten, Remembered, Answered, StatusOf, ClaimVal

\* Every claim gets its answer (SettledClaimsAreAnswered): an operator that has nothing
\* left to do has bound or failed every claim and finished every deletion, whatever calls
\* failed and however often it was restarted.
THEOREM ClaimsAreAnswered == Spec => []SettledClaimsAreAnswered
<1>1. IInv /\ AnswerInv => SettledClaimsAreAnswered
  BY SettledIsAnswered DEF SettledClaimsAreAnswered
<1> QED
  BY <1>1, Inductive, ClaimsAreRemembered, PTL

-----------------------------------------------------------------------------
(* A system in order is left alone                                           *)

\* The operator has heard of everything it does not find in its caches.
LEMMA CacheCurrent ==
  ASSUME IInv, PoolInStep, PolicyInStep, watch = [kind \in Kinds |-> <<>>], cache.tmpl # "absent"
  PROVE  cache = Listing
<1>1. \A kind \in Kinds : watch[kind] = <<>>
  OBVIOUS
<1>2. watch.pool = <<>> /\ watch.policy = <<>> /\ watch.claim = <<>> /\ watch.pod = <<>>
  BY <1>1 DEF Kinds
<1>3. cache.pool = PoolSpec(pool) /\ cache.policy = policy /\ cache.tmpl = tmpl
  BY <1>2 DEF PoolInStep, PolicyInStep, Shows, IInv, PolicyInv, Known
<1>4. (\A c \in Claims : cache.claim[c] = claim[c]) /\ (\A p \in Pods : cache.pod[p] = pod[p])
  BY <1>2 DEF IInv, UseInv, InStep, Coherent, Quiet
<1>5. cache \in CacheVal /\ claim \in [Claims -> ClaimVal] /\ pod \in [Pods -> PodVal]
  BY DEF IInv, TypeOK, InformersOK, ServerOK
<1>6. cache.claim = claim /\ cache.pod = pod
  BY <1>4, <1>5 DEF CacheVal
<1> QED
  BY <1>3, <1>5, <1>6 DEF Listing, CacheVal

\* What settles is in order, but for a surplus and what waits for a template or a TTL.
LEMMA OrderlyIsAtRest ==
  ASSUME IInv, PoolInStep, PolicyInStep, PoolRemembered, AnswerInv, Orderly
  PROVE  AtRest
<1>1. Settled /\ pool.exists /\ tmpl # "absent" /\ AsOrdered
  BY SettledIsAsOrdered DEF Orderly
<1>2. Cardinality(WarmIn(pod)) = pool.replicas
  <2>1. WarmIn(pod) \subseteq Pods
    BY DEF WarmIn, Live
  <2>2. Cardinality(WarmIn(pod)) \in Nat /\ pool.replicas \in Nat
    BY <2>1, PodCount, ConstantsAssumption DEF IInv, TypeOK, ServerOK, PoolVal
  <2> QED
    BY <1>1, <2>2 DEF Orderly, AsOrdered, Enough
<1>3. ASSUME NEW c \in Claims
      PROVE  /\ claim[c].phase \in {"absent", "Bound", "Failed"} /\ ~claim[c].del
             /\ claim[c].phase # "absent" => claim[c].fin
             /\ claim[c].phase = "Bound" => c \notin elapsed
  BY <1>1, SettledIsAnswered
     DEF Orderly, IInv, UseInv, ClaimsFit, ClaimShape, ShapeOf, NoClaim, NewClaim
<1>4. InOrder
  BY <1>1, <1>2, <1>3 DEF InOrder, AsOrdered, Guarded, Counted
<1>5. watch = [kind \in Kinds |-> <<>>] /\ pr.step = "idle" /\ cr.step = "idle"
  BY <1>1 DEF Settled
<1>6. cache = Listing
  BY <1>1, <1>5, CacheCurrent DEF AsOrdered
<1> QED
  BY <1>4, <1>5, <1>6 DEF AtRest

\* Nothing was written, and nobody is about to write anything new.
Looking(run) ==
  \/ run.step = "idle"
  \/ run.step = "policy" /\ tmpl = "managed" /\ run.desired = pool.replicas
  \/ run.step = "status" /\ run.warm = pool.available /\ run.claimed = pool.active

LEMMA StillAtRest ==
  ASSUME AtRest, UNCHANGED <<server, informers, elapsed>>, cr'.step = "idle", Looking(pr')
  PROVE  AtRest' /\ UNCHANGED server
<1>1. InOrder' /\ Listing' = Listing
  BY DEF AtRest, InOrder, Listing, WarmIn, ClaimedIn, Live
<1> QED
  BY <1>1 DEF AtRest, Looking

\* Somebody who counts the pods of a pool that is as ordered has nothing to do.
LEMMA PlanAtRest ==
  ASSUME TypeOK, AtRest, NEW plan, plan = PoolPlan(pool.replicas)
  PROVE  plan.step = "status" /\ plan.warm = pool.available /\ plan.claimed = pool.active
<1>1. cache.pod = pod
  BY DEF AtRest, Listing
<1>2. pool.replicas \in Nat
  BY ConstantsAssumption DEF TypeOK, ServerOK, PoolVal
<1>3. Cardinality(WarmIn(cache.pod)) = pool.replicas
  BY <1>1 DEF AtRest, InOrder
<1> DEFINE n == pool.replicas
<1>4. plan.step = CASE (IF (IF n < n THEN n - n ELSE 0) > maxBurst THEN maxBurst
                            ELSE (IF n < n THEN n - n ELSE 0)) > 0 -> "create"
                        [] (IF n > n THEN n - n ELSE 0) > 0 -> "delete"
                        [] OTHER -> "status"
  BY <1>1, <1>3 DEF PoolPlan
<1>5. plan.step = "status"
  BY <1>2, <1>4 DEF maxBurst
<1>6. plan.warm = Cardinality(WarmIn(pod)) /\ plan.claimed = Cardinality(ClaimedIn(pod))
  BY <1>1 DEF PoolPlan
<1> QED
  BY <1>5, <1>6 DEF AtRest, InOrder

LEMMA PoolReconcileAtRest ==
  ASSUME TypeOK, AtRest, PoolReconcile
  PROVE  AtRest' /\ UNCHANGED server
<1>1. /\ cache.pool.exists /\ cache.tmpl = tmpl /\ tmpl # "absent"
      /\ cache.pool.replicas = pool.replicas
  BY DEF AtRest, InOrder, Listing, PoolSpec
<1>2. pr' = IF tmpl = "managed" THEN PolicyRun(pool.replicas) ELSE PoolPlan(pool.replicas)
  BY <1>1 DEF PoolReconcile
<1>3. Looking(pr')
  BY <1>2, PlanAtRest DEF Looking, PolicyRun, PoolIdle
<1> QED
  BY <1>3, StillAtRest DEF PoolReconcile, AtRest

\* A policy that is as desired is written as it is, and so is a status that counts the pods.
LEMMA PoolStepAtRest ==
  ASSUME TypeOK, AtRest, PoolStep
  PROVE  AtRest' /\ UNCHANGED server
<1> USE DEF TypeOK, ServerOK, ControllersOK
<1>0. watch.pool = <<>> /\ watch.policy = <<>> /\ watch = [kind \in Kinds |-> <<>>]
  BY DEF AtRest, Kinds
<1>1. ASSUME NEW kind \in Kinds, Sees(kind, <<>>) PROVE watch' = watch
  BY <1>0, <1>1, ConcatEmptySeq DEF Sees
<1>2. CASE EnsurePolicy
  <2>1. policy = "desired" /\ cr.step = "idle" /\ pr.desired = pool.replicas
    BY <1>2 DEF EnsurePolicy, AtRest, InOrder
  <2>2. policy' = policy /\ watch' = watch
    BY <1>1, <1>2, <2>1 DEF EnsurePolicy, PutPolicy, Kinds
  <2>3. pr' = PoolPlan(pool.replicas) /\ UNCHANGED <<pool, tmpl, claim, pod, cache, elapsed, cr>>
    BY <1>2, <2>1 DEF EnsurePolicy
  <2>4. Looking(pr')
    BY <2>3, PlanAtRest DEF Looking
  <2> QED
    BY <2>1, <2>2, <2>3, <2>4, StillAtRest
<1>3. CASE UpdatePoolStatus
  <2>1. pr.warm = pool.available /\ pr.claimed = pool.active /\ cr.step = "idle"
    BY <1>3 DEF UpdatePoolStatus, AtRest
  <2>2. [pool EXCEPT !.available = pr.warm, !.active = pr.claimed] = pool
    BY <2>1 DEF PoolVal
  <2>3. pool' = pool /\ watch' = watch
    BY <1>1, <1>3, <2>2 DEF UpdatePoolStatus, PutPool, Kinds
  <2>4. pr' = PoolIdle /\ UNCHANGED <<policy, tmpl, claim, pod, cache, elapsed, cr>>
    BY <1>3 DEF UpdatePoolStatus, PoolDone
  <2>5. Looking(pr')
    BY <2>4 DEF Looking, PoolIdle
  <2> QED
    BY <2>1, <2>3, <2>4, <2>5, StillAtRest
<1>4. CASE EnsurePolicyFails \/ UpdatePoolStatusFails
  <2>1. pr' = PoolIdle /\ UNCHANGED <<server, informers, elapsed, cr>>
    BY <1>4 DEF EnsurePolicyFails, UpdatePoolStatusFails, PoolDone
  <2>2. Looking(pr')
    BY <2>1 DEF Looking, PoolIdle
  <2> QED
    BY <2>1, <2>2, StillAtRest DEF AtRest
<1> QED
  BY <1>2, <1>3, <1>4 DEF AtRest, PoolStep, ClearPoolStatus, CreateSandboxPod, CreateSandboxPodFails,
                          DeleteExcessPod, DeleteExcessPodFails

\* A claim that has its answer is looked at and left.
LEMMA DispatchAtRest ==
  ASSUME TypeOK, AnswerInv, AtRest, NEW c \in Claims, ClaimReconcile(c)
  PROVE  AtRest' /\ UNCHANGED server
<1>1. cache.claim[c] = claim[c] /\ ~claim[c].del
  BY DEF AtRest, InOrder, Listing
<1>2. \/ claim[c] = NoClaim
      \/ claim[c].fin /\ claim[c].phase = "Failed"
      \/ claim[c].fin /\ claim[c].phase = "Bound" /\ c \notin elapsed
  BY DEF AnswerInv, NoneForgotten, StatusOf, AtRest, InOrder
<1>3. ReconcileGone(c) \/ ReconcileFailed(c) \/ (ReconcileBound(c) /\ c \notin elapsed)
  BY <1>1, <1>2 DEF ClaimReconcile, ReconcileDeleted, ReconcileNoFinalizer, ReconcileNew,
                    ReconcilePending, ReconcileBound, Active, NoClaim
<1>4. Begin(c, "idle", None)
  BY <1>3 DEF ReconcileGone, ReconcileFailed, ReconcileBound
<1>5. cr' = ClaimIdle /\ UNCHANGED <<server, informers, elapsed, pr>>
  BY <1>4 DEF Begin
<1>6. Looking(pr')
  BY <1>5 DEF AtRest, Looking
<1> QED
  BY <1>5, <1>6, StillAtRest DEF ClaimIdle

LEMMA RestNext ==
  ASSUME TypeOK, AnswerInv, AtRest, [Next]_vars, outside' # outside
  PROVE  AtRest' /\ UNCHANGED server
<1>0. ~UNCHANGED vars
  OBVIOUS
<1>1. CASE Outside
  <2>1. PICK c \in Claims : TimerFires(c)
    BY <1>1 DEF Outside, Rescale, DeletePool, CreateTemplate, TamperPolicy, CollectPolicy,
                CreateClaim, DeleteClaim, TTLElapses, PodRuns, EvictPod, RemovePod, CollectPod,
                PodWrites
  <2>2. UNCHANGED <<server, informers, elapsed, pr, cr>>
    BY <2>1 DEF TimerFires
  <2>3. Looking(pr')
    BY <2>2 DEF AtRest, Looking
  <2> QED
    BY <2>2, <2>3, StillAtRest DEF AtRest
<1>2. ~Deliver
  BY DEF Deliver, DeliverPool, DeliverTemplate, DeliverPolicy, DeliverPod, DeliverClaim, Take,
         AtRest, Kinds
<1>3. CASE Crash
  <2>1. /\ UNCHANGED <<server, elapsed>> /\ cache' = cache /\ watch' = watch
        /\ cr' = ClaimIdle /\ pr' = PoolIdle
    BY <1>3 DEF Crash, AtRest
  <2>2. Looking(pr')
    BY <2>1 DEF Looking, PoolIdle
  <2> QED
    BY <2>1, <2>2, StillAtRest DEF ClaimIdle
<1>4. ~ClaimStep
  BY DEF AtRest, ClaimStep, AddFinalizer, ReleasePod, RemoveFinalizer, MarkReleased, DeleteExpired,
         MarkPending, MarkFailed, LabelPod, BindClaim, ClaimCallRefused, ClaimCallFails
<1> QED
  BY <1>0, <1>1, <1>2, <1>3, <1>4, PoolReconcileAtRest, PoolStepAtRest, DispatchAtRest
     DEF Next, Operator

\* The operator leaves a sandbox system in order alone (RestIsStable): neither its own
\* status and policy updates, nor timers, failed calls or a restart make
\* SandboxWarmPoolReconciler or SandboxClaimReconciler write anything, until a user or the
\* cluster changes something or a TTL elapses.
THEOREM RestIsKept == Spec => RestIsStable
<1>1. ASSUME IInv, PoolInStep, PolicyInStep, PoolRemembered, AnswerInv, [Next]_vars
      PROVE  (AtRest \/ Orderly) /\ outside' # outside => AtRest' /\ UNCHANGED server
  BY <1>1, OrderlyIsAtRest, RestNext DEF IInv
<1> QED
  BY <1>1, Inductive, PoolIsRemembered, ClaimsAreRemembered, PTL DEF Spec, RestIsStable

=============================================================================

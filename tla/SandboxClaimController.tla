----------------------- MODULE SandboxClaimController -----------------------
(***************************************************************************)
(* SandboxClaimReconciler.Reconcile (sandbox_controller.go).  The actions  *)
(* Reconcile... read the cached claim and dispatch, the others are the API *)
(* calls that follow, one per step.                                        *)
(***************************************************************************)
EXTENDS SandboxCluster

claimUntouched == <<pool, tmpl, policy, cache, poolQueue, pr>>

ClaimDone(requeue) ==
  /\ cr' = ClaimIdle
  /\ claimQueue' = IF requeue THEN claimQueue \cup {cr.key} ELSE claimQueue
  /\ fresh' = [fresh EXCEPT !.claim = FALSE, !.pod = FALSE]

\* A call failed and its error is returned.
ClaimFails ==
  /\ ClaimDone(TRUE)
  /\ UNCHANGED <<claim, pod, watch, timers, elapsed, claimUntouched>>

\* A status update is accepted if the copy is current; a Conflict is ignored.  The
\* claim is still there: only this controller takes its finalizer away.
PutStatus(c, v) ==
  IF fresh.claim THEN PutClaim(c, v) ELSE UNCHANGED <<claim, watch>>

-----------------------------------------------------------------------------
(* Dispatch *)

Begin(c, step, p) ==
  /\ cr.step = "idle" /\ c \in claimQueue
  /\ claimQueue' = claimQueue \ {c}
  /\ cr' = IF step = "idle" THEN ClaimIdle ELSE [step |-> step, key |-> c, pod |-> p]
  /\ UNCHANGED <<server, informers, poolQueue, elapsed, pr, faults>>

CopyOf(c) == fresh' = [fresh EXCEPT !.claim = Quiet(watch.claim, c)]

\* The first warm pod of a list in any order, whatever its phase, is to be labelled;
\* without one the claim fails.
PickPod(run, current) ==
  \/ /\ WarmIn(cache.pod) = {}
     /\ cr' = [run EXCEPT !.step = "fail"]
     /\ fresh' = [fresh EXCEPT !.claim = current]
  \/ \E p \in WarmIn(cache.pod) :
       /\ cr' = [run EXCEPT !.step = "label", !.pod = p]
       /\ fresh' = [fresh EXCEPT !.claim = current, !.pod = Quiet(watch.pod, p)]

ReconcileGone(c) ==
  /\ cache.claim[c] = NoClaim
  /\ Begin(c, "idle", None)
  /\ UNCHANGED <<fresh, timers>>

\* [mutant] releasePod without its early return.
ReleaseAlways(c) ==
  /\ cache.claim[c].del
  /\ Begin(c, "release", cache.claim[c].pod)
  /\ CopyOf(c)
  /\ UNCHANGED timers

\* releasePod has nothing to delete for a claim that was never bound.
ReconcileDeleted(c) ==
  LET copy == cache.claim[c] IN
  /\ copy.del
  /\ Begin(c, IF copy.pod = None THEN "unfinalize" ELSE "release", copy.pod)
  /\ CopyOf(c)
  /\ UNCHANGED timers

ReconcileNoFinalizer(c) ==
  LET copy == cache.claim[c] IN
  /\ copy # NoClaim /\ ~copy.del /\ ~copy.fin
  /\ Begin(c, "finalize", None)
  /\ CopyOf(c)
  /\ UNCHANGED timers

Active(c) == cache.claim[c].fin /\ ~cache.claim[c].del

\* [mutant] a claim that failed looks for a pod again.
RetryFailed(c) ==
  /\ Active(c) /\ cache.claim[c].phase = "Failed"
  /\ Begin(c, "pending", None)
  /\ CopyOf(c)
  /\ UNCHANGED timers

ReconcileFailed(c) ==
  /\ Active(c) /\ cache.claim[c].phase = "Failed"
  /\ Begin(c, "idle", None)
  /\ UNCHANGED <<fresh, timers>>

ReconcileBound(c) ==
  /\ Active(c) /\ cache.claim[c].phase = "Bound"
  /\ \/ /\ c \in elapsed
        /\ Begin(c, "expire", None)
        /\ CopyOf(c)
        /\ UNCHANGED timers
     \/ /\ c \notin elapsed
        /\ Begin(c, "idle", None)
        /\ timers' = IF "ttl" \in Env THEN timers \cup {c} ELSE timers
        /\ UNCHANGED fresh

ReconcileNew(c) ==
  /\ Active(c) /\ cache.claim[c].phase = "New"
  /\ Begin(c, "pending", None)
  /\ CopyOf(c)
  /\ UNCHANGED timers

\* "Released" is not told apart from "Pending".
ReconcilePending(c) ==
  /\ Active(c) /\ cache.claim[c].phase \in {"Pending", "Released"}
  /\ cr.step = "idle" /\ c \in claimQueue
  /\ claimQueue' = claimQueue \ {c}
  /\ PickPod([ClaimIdle EXCEPT !.key = c], Quiet(watch.claim, c))
  /\ UNCHANGED <<server, informers, poolQueue, timers, elapsed, pr, faults>>

ClaimReconcile(c) ==
  \/ ReconcileGone(c) \/ ReconcileDeleted(c) \/ ReconcileNoFinalizer(c)
  \/ ReconcileFailed(c) \/ ReconcileBound(c) \/ ReconcileNew(c) \/ ReconcilePending(c)

-----------------------------------------------------------------------------
(* API calls *)

\* A Conflict, or a claim that is gone, is an error here.
AddFinalizer ==
  /\ cr.step = "finalize" /\ fresh.claim
  /\ PutClaim(cr.key, [claim[cr.key] EXCEPT !.fin = TRUE])
  /\ ClaimDone(FALSE)
  /\ UNCHANGED <<pod, timers, elapsed, faults, claimUntouched>>

\* releasePod: a pod that is gone already is no error.
ReleasePod ==
  /\ cr.step = "release"
  /\ PutPod(cr.pod, Doomed(cr.pod))
  /\ cr' = [cr EXCEPT !.step = "unfinalize", !.pod = None]
  /\ UNCHANGED <<claim, claimQueue, timers, elapsed, fresh, faults, claimUntouched>>

RemoveFinalizer ==
  /\ cr.step = "unfinalize" /\ fresh.claim
  /\ PutClaim(cr.key, NoClaim)
  /\ elapsed' = elapsed \ {cr.key}
  /\ ClaimDone(FALSE)
  /\ UNCHANGED <<pod, timers, faults, claimUntouched>>

MarkReleased ==
  /\ cr.step = "expire"
  /\ PutStatus(cr.key, [claim[cr.key] EXCEPT !.phase = "Released"])
  /\ cr' = [cr EXCEPT !.step = "delete"]
  /\ UNCHANGED <<pod, claimQueue, timers, elapsed, fresh, faults, claimUntouched>>

DeleteExpired ==
  /\ cr.step = "delete"
  /\ PutClaim(cr.key, Deleted(cr.key))
  /\ ClaimDone(FALSE)
  /\ UNCHANGED <<pod, timers, elapsed, faults, claimUntouched>>

\* Phase "Pending" is recorded, and then a pod is looked for whether or not the
\* update met a Conflict.
MarkPending ==
  LET c == cr.key IN
  /\ cr.step = "pending"
  /\ PutStatus(c, [claim[c] EXCEPT !.phase = "Pending"])
  /\ PickPod(cr, fresh.claim)
  /\ UNCHANGED <<pod, claimQueue, timers, elapsed, faults, claimUntouched>>

MarkFailed ==
  /\ cr.step = "fail"
  /\ PutStatus(cr.key, [claim[cr.key] EXCEPT !.phase = "Failed"])
  /\ ClaimDone(FALSE)
  /\ UNCHANGED <<pod, timers, elapsed, faults, claimUntouched>>

\* [mutant] an unconditional patch of the labels in place of Update.
LabelUnconditionally ==
  /\ cr.step = "label" /\ pod[cr.pod] # NoPod
  /\ PutPod(cr.pod, [pod[cr.pod] EXCEPT !.claim = cr.key])
  /\ cr' = [cr EXCEPT !.step = "bind"]
  /\ UNCHANGED <<claim, claimQueue, timers, elapsed, fresh, faults, claimUntouched>>

\* Update of the labels: the copy of the pod must be current.
LabelPod ==
  /\ cr.step = "label" /\ fresh.pod
  /\ PutPod(cr.pod, [pod[cr.pod] EXCEPT !.claim = cr.key])
  /\ cr' = [cr EXCEPT !.step = "bind"]
  /\ UNCHANGED <<claim, claimQueue, timers, elapsed, fresh, faults, claimUntouched>>

\* The claim is Bound unless the update meets a Conflict, which is ignored.
BindClaim ==
  LET c == cr.key IN
  /\ cr.step = "bind"
  /\ PutStatus(c, [claim[c] EXCEPT !.phase = "Bound", !.pod = cr.pod])
  /\ elapsed' = IF fresh.claim THEN elapsed \ {c} ELSE elapsed
  /\ timers' = IF "ttl" \in Env THEN timers \cup {c} ELSE timers
  /\ ClaimDone(FALSE)
  /\ UNCHANGED <<pod, faults, claimUntouched>>

\* [mutant] a Conflict is ignored here as it is for status updates.
ConflictIgnored ==
  /\ \/ cr.step \in {"finalize", "unfinalize"} /\ ~fresh.claim
     \/ cr.step = "label" /\ ~fresh.pod
  /\ ClaimDone(FALSE)
  /\ UNCHANGED <<claim, pod, watch, timers, elapsed, faults, claimUntouched>>

\* A copy that is not current is an error of an Update, but not of a status
\* update of a claim that still exists.
ClaimCallRefused ==
  /\ \/ cr.step \in {"finalize", "unfinalize"} /\ ~fresh.claim
     \/ cr.step = "label" /\ ~fresh.pod
  /\ ClaimFails
  /\ UNCHANGED faults

\* [mutant] the error is logged and not returned.
ClaimErrorSwallowed ==
  /\ cr.step # "idle"
  /\ Refused(TRUE)
  /\ ClaimDone(FALSE)
  /\ UNCHANGED <<claim, pod, watch, timers, elapsed, claimUntouched>>

\* [mutant] a pod that cannot be deleted is given up, and the finalizer goes all the same.
ReleaseGivenUp ==
  /\ cr.step # "idle"
  /\ Refused(TRUE)
  /\ \/ cr.step # "release" /\ ClaimFails
     \/ /\ cr.step = "release"
        /\ cr' = [cr EXCEPT !.step = "unfinalize", !.pod = None]
        /\ UNCHANGED <<claim, pod, watch, claimQueue, timers, elapsed, fresh, claimUntouched>>

ClaimCallFails ==
  /\ cr.step # "idle"
  /\ Refused(TRUE)
  /\ ClaimFails

ClaimStep ==
  \/ AddFinalizer \/ ReleasePod \/ RemoveFinalizer
  \/ MarkReleased \/ DeleteExpired
  \/ MarkPending \/ MarkFailed \/ LabelPod \/ BindClaim
  \/ ClaimCallRefused \/ ClaimCallFails

=============================================================================

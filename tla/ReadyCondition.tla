--------------------------- MODULE ReadyCondition ---------------------------
(***************************************************************************)
(* What SkillReconciler.Reconcile and AgentProfileReconciler.Reconcile     *)
(* have in common: they read the object from the cache, and write a Ready  *)
(* condition with setCondition and a status update that ignores Conflict.  *)
(***************************************************************************)
EXTENDS ConfigCluster

untouched == <<deployment, service, orphan, cache, edits, crashes>>

Copy(k) == cache.config[k]

\* The worker of k's controller takes k off the queue and goes on with r.
Begin(k, r) ==
  /\ run[KindOf(k)] = Idle /\ k \in queue
  /\ queue' = queue \ {k}
  /\ run' = [run EXCEPT ![KindOf(k)] = r]
  /\ UNCHANGED <<server, informers, counters>>

\* A copy of k whose event is not under way is the stored object.
CopyOf(k) ==
  [fresh EXCEPT !.config = IF Quiet(watch[KindOf(k)], k) THEN @ \cup {k} ELSE @ \ {k},
                !.owner  = IF k \in Skills /\ Exists(k) THEN @ \cup {k} ELSE @ \ {k}]

\* The object is gone: nothing to do.
ReconcileGone(k) ==
  /\ Copy(k) = NoConfig
  /\ Begin(k, Idle)
  /\ UNCHANGED fresh

\* [mutant] invalid() answers Unknown.
WriteUnknown(k, ready) ==
  [Idle EXCEPT !.step = "status", !.key = k, !.ready = IF ready = "True" THEN ready ELSE "Unknown"]

WriteReady(k, ready) == [Idle EXCEPT !.step = "status", !.key = k, !.ready = ready]

\* [mutant] setCondition replaces the condition, transition time and all, every time.
AlwaysReplaced(old, new) == TRUE

\* setCondition replaces the condition, and stamps it with the time, only if the status
\* is another one: a write with the same status changes nothing.
Replaced(old, new) == old # new

\* The end of a reconciliation of k; requeue: its error is returned.
Done(k, requeue) ==
  /\ run' = [run EXCEPT ![KindOf(k)] = Idle]
  /\ queue' = IF requeue THEN queue \cup {k} ELSE queue

\* An API call of the operator is answered with an error.
CallFails == errors < MaxErrors /\ errors' = errors + 1

\* [mutant] a status patch that carries no resourceVersion.
PatchStatus(c) ==
  LET k == run[c].key IN
  /\ run[c].step = "status"
  /\ IF Exists(k)
     THEN /\ PutConfig(k, [config[k] EXCEPT !.ready = run[c].ready],
                       IF config[k].ready # run[c].ready
                       THEN <<Event(k, [config[k] EXCEPT !.ready = run[c].ready])>> ELSE <<>>)
          /\ fresh' = [fresh EXCEPT !.config = @ \ {k}]
     ELSE UNCHANGED <<config, watch, fresh>>
  /\ Done(k, ~Exists(k))
  /\ UNCHANGED <<errors, untouched>>

\* The update is accepted if the copy is current; a Conflict is ignored, and an object
\* that is gone is an error.
UpdateStatus(c) ==
  LET k == run[c].key
      v == [config[k] EXCEPT !.ready = run[c].ready]
  IN
  /\ run[c].step = "status"
  /\ \/ /\ k \in fresh.config
        /\ PutConfig(k, v, IF Replaced(config[k].ready, run[c].ready) THEN <<Event(k, v)>> ELSE <<>>)
        /\ fresh' = [fresh EXCEPT !.config = @ \ {k}]
     \/ k \notin fresh.config /\ UNCHANGED <<config, watch, fresh>>
  /\ Done(k, ~Exists(k))
  /\ UNCHANGED <<errors, untouched>>

UpdateStatusFails(c) ==
  /\ run[c].step = "status"
  /\ CallFails
  /\ Done(run[c].key, TRUE)
  /\ UNCHANGED <<config, watch, fresh, untouched>>

=============================================================================

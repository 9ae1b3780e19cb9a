------------------------------ MODULE Informer ------------------------------
(***************************************************************************)
(* What controller-runtime gives every reconciler of this operator (an     *)
(* external library, modelled from how internal/controller uses it):       *)
(*                                                                         *)
(*   - r.Get and r.List read a cache, one per kind of object, that an      *)
(*     informer fills from a watch.  The watch of a kind is a FIFO         *)
(*     sequence of events; the watches of different kinds are independent, *)
(*     so one cache may be ahead of another;                               *)
(*   - r.Update and r.Status().Update send the object that was read back   *)
(*     to the API server, which refuses it (Conflict) unless the object    *)
(*     is at the resourceVersion of the copy;                              *)
(*   - a write that changes nothing leaves the resourceVersion alone and   *)
(*     is not seen by any watch.                                           *)
(***************************************************************************)
EXTENDS Sequences, Naturals

\* The object of a kind named k was created, changed or deleted: it now is v.
Event(k, v) == [key |-> k, val |-> v]

\* No change of k is still on its way: the cached copy of k is current, and a
\* write based on it is accepted.
Quiet(watch, k) == \A n \in DOMAIN watch : watch[n].key # k

\* The cache after the informer handled event e.
Apply(cache, e) == [cache EXCEPT ![e.key] = e.val]

=============================================================================

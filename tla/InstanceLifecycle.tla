------------------------- MODULE InstanceLifecycle -------------------------
(***************************************************************************)
(* What an AgentInstance promises to whoever uses it, whatever the order   *)
(* in which the reconcilers, the gateway and the cluster act:              *)
(*                                                                         *)
(*     new --> pending --> warm <--> active                                *)
(*                          |          |                                   *)
(*                          +----> terminating --> absent                  *)
(*                                                                         *)
(* AgentInstanceStatus.State (types.go) names the states.  An instance     *)
(* that serves leaves only through "terminating", nothing leads back from  *)
(* there, and an instance in use is retired only because its pod died,     *)
(* never to shrink the pool: only warm instances are retired by the pool.  *)
(***************************************************************************)
CONSTANTS Instances

VARIABLES state,      \* the state of every instance
          open        \* the pool the instances belong to still exists

Init == state = [i \in Instances |-> "absent"] /\ open = TRUE

Move(i, from, to) ==
  /\ state[i] \in from
  /\ state' = [state EXCEPT ![i] = to]
  /\ UNCHANGED open

Create(i)   == Move(i, {"absent"}, "new")
Start(i)    == Move(i, {"new"}, "pending")
Ready(i)    == Move(i, {"new", "pending"}, "warm")
Claim(i)    == Move(i, {"warm"}, "active")
Release(i)  == Move(i, {"active"}, "warm")
Recycle(i)  == Move(i, {"warm", "active"}, "terminating")
Remove(i)   == Move(i, {"terminating"}, "absent")

\* Deleting the pool takes its instances with it, whatever they do.
Close      == open /\ open' = FALSE /\ UNCHANGED state
Collect(i) == ~open /\ Move(i, {"new", "pending", "warm", "active", "terminating"}, "absent")

Next ==
  \/ Close
  \/ \E i \in Instances :
       \/ Create(i) \/ Start(i) \/ Ready(i) \/ Claim(i) \/ Release(i)
       \/ Recycle(i) \/ Remove(i) \/ Collect(i)

Spec == Init /\ [][Next]_<<state, open>>

=============================================================================

----------------------------- MODULE SandboxUse -----------------------------
(***************************************************************************)
(* What the sandbox pool promises to the agents that execute code in it,   *)
(* whatever the order in which the reconcilers and the cluster act:        *)
(*                                                                         *)
(*   - a sandbox is used once: it is warm, then taken by one claim, then   *)
(*     on its way out and never offered again;                             *)
(*   - a claim is told of one sandbox only, one that was taken for it and  *)
(*     that no other claim was told of;                                    *)
(*   - a claim whose time is up can only go;                               *)
(*   - a claim goes once the sandbox it was told of is on its way out.     *)
(*                                                                         *)
(* Nothing is promised about a sandbox that was taken for a claim which    *)
(* was never told of it: it may stay taken.                                *)
(*                                                                         *)
(* LooseSpec lets a claim whose time is up be kept instead, as it is or    *)
(* told of another sandbox; the one it was told of before is forgotten     *)
(* and may stay taken as well.                                             *)
(***************************************************************************)
CONSTANTS Pods, Claims, None

VARIABLES use,      \* of every pod: "absent", "warm", "doomed" or the claim that took it
          holds,    \* of every claim: the pod it was told of last
          lapsed    \* the claims whose time is up

Init ==
  /\ use = [p \in Pods |-> "absent"]
  /\ holds = [c \in Claims |-> None]
  /\ lapsed = {}

Becomes(p, from, to) ==
  /\ use[p] \in from
  /\ use' = [use EXCEPT ![p] = to]
  /\ UNCHANGED <<holds, lapsed>>

Create(p)  == Becomes(p, {"absent"}, "warm")
Take(p, c) == Becomes(p, {"warm"}, c)
Doom(p)    == Becomes(p, {"warm"} \cup Claims, "doomed")
Remove(p)  == Becomes(p, {"doomed"}, "absent")

\* The claim is told of a sandbox taken for it, which may have been lost since then.
Tell(p, c) ==
  /\ use[p] \in {c, "doomed", "absent"}
  /\ \A d \in Claims : holds[d] # p
  /\ holds' = [holds EXCEPT ![c] = p]
  /\ UNCHANGED use

Bind(p, c) ==
  /\ holds[c] = None
  /\ Tell(p, c)
  /\ UNCHANGED lapsed

Lapse(c) ==
  /\ holds[c] # None /\ c \notin lapsed
  /\ lapsed' = lapsed \cup {c}
  /\ UNCHANGED <<use, holds>>

Release(c) ==
  /\ holds[c] # None /\ use[holds[c]] \in {"doomed", "absent"}
  /\ holds' = [holds EXCEPT ![c] = None]
  /\ lapsed' = lapsed \ {c}
  /\ UNCHANGED use

Next ==
  \/ \E p \in Pods : Create(p) \/ Doom(p) \/ Remove(p)
  \/ \E p \in Pods, c \in Claims : Take(p, c) \/ Bind(p, c)
  \/ \E c \in Claims : Lapse(c) \/ Release(c)

Spec == Init /\ [][Next]_<<use, holds, lapsed>>

\* The claim is kept after all, with the sandbox it has or with another one.
Rebind(p, c) ==
  /\ c \in lapsed
  /\ Tell(p, c)
  /\ lapsed' = lapsed \ {c}

Revive(c) ==
  /\ c \in lapsed
  /\ lapsed' = lapsed \ {c}
  /\ UNCHANGED <<use, holds>>

LooseNext ==
  \/ Next
  \/ \E p \in Pods, c \in Claims : Rebind(p, c)
  \/ \E c \in Claims : Revive(c)

LooseSpec == Init /\ [][LooseNext]_<<use, holds, lapsed>>

=============================================================================

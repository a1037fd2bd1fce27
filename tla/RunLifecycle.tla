---------------------------- MODULE RunLifecycle ----------------------------
(***************************************************************************)
(* What the office promises somebody who submits a brief: the run becomes  *)
(* active, and settles once, with one outcome that never changes again. A  *)
(* run asked to stop while it was active settles as cancelled. What it     *)
(* spent is put on the workspace's account at the moment it settles.       *)
(***************************************************************************)
EXTENDS Naturals

CONSTANT Runs

VARIABLES
  phase,    \* where each run is
  outcome,  \* how it settled
  stopped,  \* active runs the operator asked to stop
  charged   \* what the workspace has been charged for it

lifecycle == <<phase, outcome, stopped, charged>>

Outcome == {"done", "failed", "cancelled"}

Init ==
  /\ phase = [r \in Runs |-> "new"]
  /\ outcome = [r \in Runs |-> "none"]
  /\ stopped = {}
  /\ charged = [r \in Runs |-> 0]

Submit(r) ==
  /\ phase[r] = "new"
  /\ phase' = [phase EXCEPT ![r] = "active"]
  /\ UNCHANGED <<outcome, stopped, charged>>

(* A brief there is no budget or no wanted stage for settles at once.      *)
Refuse(r, o) ==
  /\ phase[r] = "new"
  /\ phase' = [phase EXCEPT ![r] = "settled"]
  /\ outcome' = [outcome EXCEPT ![r] = o]
  /\ UNCHANGED <<stopped, charged>>

Stop(r) ==
  /\ phase[r] = "active"
  /\ stopped' = stopped \cup {r}
  /\ UNCHANGED <<phase, outcome, charged>>

Settle(r, o) ==
  /\ phase[r] = "active"
  /\ r \in stopped => o = "cancelled"
  /\ phase' = [phase EXCEPT ![r] = "settled"]
  /\ outcome' = [outcome EXCEPT ![r] = o]
  /\ charged'[r] \in Nat
  /\ charged' = [charged EXCEPT ![r] = charged'[r]]
  /\ UNCHANGED stopped

Next ==
  \E r \in Runs :
    \/ Submit(r)
    \/ \E o \in {"done", "failed"} : Refuse(r, o)
    \/ Stop(r)
    \/ \E o \in Outcome : Settle(r, o)

Spec == Init /\ [][Next]_lifecycle

=============================================================================

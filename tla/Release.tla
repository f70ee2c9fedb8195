-------------------------------- MODULE Release --------------------------------
(***************************************************************************)
(* What the reviewed Dev releases share.  A unit is what one Terraform     *)
(* resource, or a function with its live alias, is set to; a stack is a    *)
(* set of units.  A plan is what `terraform show -json` gives a verifier:  *)
(* the units as AWS has them, as they will be, and as the state had them   *)
(* (resource_drift is where the last differ from the first).               *)
(***************************************************************************)
CONSTANT Subjects   \* the accounts that a release may select

Nobody == "nobody"

PlanOver(stack, live, target, recorded) ==
  [before |-> [u \in stack |-> live[u]], after |-> target, was |-> [u \in stack |-> recorded[u]]]
Changed(p) == {u \in DOMAIN p.before : p.before[u] # p.after[u]}
Drift(p) == {u \in DOMAIN p.before : p.before[u] # p.was[u]}
=============================================================================

----------------------------- MODULE PlayRelease ------------------------------
(***************************************************************************)
(* The reviewed changes of Dev billing, as operators: billing-dev.yml      *)
(* (the foreground handoff of terraform/play-verification; the ingress,    *)
(* worker and worker schedule of terraform/play-lifecycle) and             *)
(* billing-cleanup-dev.yml (the accounts that token deletion admits, also  *)
(* of play-lifecycle).  DevRelease runs them.                              *)
(*                                                                         *)
(* A billing function is the account it admits.  What the scripts pin and  *)
(* no run can choose (role, memory, catalogue, package fields of a review) *)
(* is left out, and so are the worker's role policy and the packages of    *)
(* ingress and worker, over which a review may refuse more than here; the  *)
(* drift that is only a computed timestamp or role mirror is no drift here.*)
(***************************************************************************)
EXTENDS Release, Naturals, FiniteSets

CONSTANT MaxAdmitted  \* how many accounts token deletion may admit, 10 in the code
ASSUME MaxAdmittedAssumption == MaxAdmitted \in Nat

BillingUnits == {"handoff", "mirror", "ingress", "worker", "schedule", "deletion", "mapping", "storage"}
\* pinned: the package is the one of the checked-in provenance.
Handoff == [pinned : BOOLEAN, mode : {"inactive", "preparation", "verification"},
            subject : Subjects \union {Nobody}]
Deletion == [admitted : SUBSET Subjects, running : BOOLEAN]
BillingValues(u) ==
  CASE u = "handoff" -> Handoff
    [] u \in {"ingress", "worker"} -> Subjects \union {Nobody}
    [] u \in {"schedule", "storage"} -> BOOLEAN
    [] u = "deletion" -> Deletion
    [] u = "mirror" -> {"older", "declared", "foreign"}
    [] u = "mapping" -> [stamp : {0, 1}, configured : BOOLEAN]

\* Deletion runs for somebody, the handoff for nobody or for the same.
BillingInit ==
  {[handoff |-> [pinned |-> TRUE, mode |-> IF b THEN "verification" ELSE "inactive",
                 subject |-> IF b THEN s ELSE Nobody],
    mirror |-> "declared", ingress |-> Nobody, worker |-> Nobody, schedule |-> FALSE,
    deletion |-> [admitted |-> {s}, running |-> TRUE],
    mapping |-> [stamp |-> 0, configured |-> TRUE], storage |-> TRUE] :
     s \in Subjects, b \in BOOLEAN}

MODES == [handoff |-> {"inactive", "preparation", "verification"},
          lifecycle |-> {"inactive", "ingress", "background"}]
\* Exactly one private subject for active billing, none for inactive.
BillingChoices ==
  {c \in [kind : {"handoff"}, mode : MODES.handoff, subject : Subjects \union {Nobody}]
     \union [kind : {"lifecycle"}, mode : MODES.lifecycle, subject : Subjects \union {Nobody}] :
       (c.mode = "inactive") <=> (c.subject = Nobody)}
CleanupChoices == [kind : {"cleanup"}, mode : {"union"}, subject : Subjects]

\* The stack that a run plans.
BillingStack(c) ==
  IF c.kind = "handoff" THEN {"handoff", "mirror"}
  ELSE {"ingress", "worker", "schedule", "deletion", "mapping"}

\* Metadata of the token deletion that erases what billing stores of s.
CoversErasure(live, s) == live["deletion"].running /\ s \in live["deletion"].admitted

\* The accounts that billing admits.
Billed(live) ==
  ({live["ingress"], live["worker"]}
     \union (IF live["handoff"].mode = "inactive" THEN {} ELSE {live["handoff"].subject}))
  \ {Nobody}

\* What the Terraform variables of a run ask for: those of the committed tfvars
\* (the accounts of deletion_activation; billing off) under those of the run.
HandoffTarget(c, live) ==
  [handoff |-> [pinned |-> TRUE, mode |-> c.mode, subject |-> c.subject], mirror |-> live["mirror"]]
\* The mapping's stamp is computed.
Lifecycle(ingress, worker, admitted, live) ==
  [ingress |-> ingress, worker |-> worker, schedule |-> worker # Nobody,
   deletion |-> [admitted |-> admitted, running |-> TRUE],
   mapping |-> [live["mapping"] EXCEPT !.configured = TRUE]]
\* Mutant: cleanup admits its own account only.
CleanupUnionAlone(c, captured) == {c.subject}
CleanupUnion(c, captured) == captured["deletion"].admitted \union {c.subject}
BillingTarget(c, live, captured, committed) ==
  CASE c.kind = "handoff" -> HandoffTarget(c, live)
    [] c.kind = "lifecycle" ->
         Lifecycle(c.subject, IF c.mode = "background" THEN c.subject ELSE Nobody, committed, live)
    [] c.kind = "cleanup" -> Lifecycle(Nobody, Nobody, CleanupUnion(c, captured), live)

-----------------------------------------------------------------------------
(* The three scripts that may refuse a run, by the control point they run at. *)

\* prepare_billing_cleanup_dev.py: the deletion that runs is the qualified one and
\* admits somebody, and the union is not too large.
CleanupPrepared(c, live) ==
  /\ live["deletion"].running /\ live["deletion"].admitted # {}
  /\ Cardinality(CleanupUnion(c, live)) <= MaxAdmitted
BillingPrepared(c, live) == c.kind = "cleanup" => CleanupPrepared(c, live)

LifecycleReview(p) == Drift(p) = {} /\ Changed(p) \subseteq {"ingress", "worker", "schedule"}
\* Mutant: whatever the role shows passes for computed.
MirrorDrifted(p) == Drift(p) \subseteq {"mirror"}
\* declared_handoff_policy_mirror: the role shows the two declared policies.
DeclaredMirror(p) == Drift(p) \subseteq {"mirror"} /\ ("mirror" \in Drift(p) => p.before["mirror"] = "declared")
HandoffReview(p) == DeclaredMirror(p) /\ Changed(p) \subseteq {"handoff"}
\* mapping_drift_structure: nothing of the mapping differs but its stamp.
MappingDrift(p) ==
  /\ Drift(p) \subseteq {"mapping"}
  /\ p.before["mapping"].configured = p.was["mapping"].configured
CleanupReview(c, captured, p) ==
  /\ MappingDrift(p) /\ Changed(p) \subseteq {"deletion"}
  /\ p.before["deletion"] = captured["deletion"]
  /\ p.after["deletion"].admitted = CleanupUnion(c, captured)
BillingReview(c, captured, p) ==
  CASE c.kind = "handoff" -> HandoffReview(p)
    [] c.kind = "lifecycle" -> LifecycleReview(p)
    [] c.kind = "cleanup" -> CleanupReview(c, captured, p)

\* verify_billing_cleanup_prerequisite.py, which has nothing to say of an inactive plan.
CleanupPrerequisite(c, live) == c.subject # Nobody => CoversErasure(live, c.subject)
\* qualify_mapping_drift: a stamp that drifted is the one that AWS has now.
QualifiedMapping(live, p) == Drift(p) # {} => live["mapping"] = p.before["mapping"]
\* The captured deletion is compared with a fresh one; billing asks for coverage.
BillingVerified(c, live, captured, p) ==
  IF c.kind = "cleanup" THEN live["deletion"] = captured["deletion"] /\ QualifiedMapping(live, p)
  ELSE CleanupPrerequisite(c, live)

HandoffPrerequisite(c, live) ==
  c.subject # Nobody =>
    /\ live["handoff"].pinned /\ live["handoff"].mode = "verification"
    /\ live["handoff"].subject = c.subject
StorageAudit(live) == live["storage"]
\* Read again just before the apply.
BillingReady(c, live, captured, p) ==
  /\ BillingVerified(c, live, captured, p)
  /\ c.kind # "cleanup" => StorageAudit(live)
  /\ c.kind = "lifecycle" => HandoffPrerequisite(c, live)

\* After the apply: the runtimes of other stacks are as in the snapshot taken
\* before it, the planned ones as planned (of the stack of cleanup only the deletion
\* is read), the prerequisites still hold.
BillingSnapshot(c) ==
  CASE c.kind = "handoff" -> {"ingress", "worker", "deletion"}
    [] c.kind = "lifecycle" -> {"handoff", "deletion"}
    [] c.kind = "cleanup" -> {"handoff", "ingress", "worker"}
CleanupReadback(c, live, captured) ==
  CoversErasure(live, c.subject) /\ live["mapping"].configured = captured["mapping"].configured
ReadBack(c) == IF c.kind = "cleanup" THEN {"deletion"} ELSE BillingStack(c) \ {"mirror", "mapping"}
BillingReadback(c, live, snapshot, p) ==
  /\ \A u \in BillingSnapshot(c) : live[u] = snapshot[u]
  /\ \A u \in ReadBack(c) : live[u] = p.after[u]
  /\ c.kind = "lifecycle" => HandoffPrerequisite(c, live)
  /\ c.kind = "cleanup" => CleanupReadback(c, live, snapshot)

\* Terraform updates the schedule after the function that it calls.
BillingAfter(u) == IF u = "schedule" THEN {"worker"} ELSE {}
=============================================================================

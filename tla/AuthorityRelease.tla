--------------------------- MODULE AuthorityRelease ---------------------------
(***************************************************************************)
(* The reviewed changes of the Dev authority (terraform/url-consumer), as  *)
(* operators: the legacy trial of deploy.yml, the complimentary operator,  *)
(* the access scope of governed-history-dev.yml and its two-tester cohort  *)
(* (docs/dev-trial-cohort-addition.md), the access snapshot and the        *)
(* maintenance release.  DevRelease runs them.                             *)
(*                                                                         *)
(* What matters is which accounts the entitlements function admits: to the *)
(* trial (subjects) or to one read-only route (extra).  A function and its *)
(* live alias are one unit, ReviewedApply has them apart.  The deletion    *)
(* admission, which the legacy trial changes with its own, is left out,    *)
(* and so is every pin that all runs share.                                *)
(***************************************************************************)
EXTENDS Release

CONSTANTS Member, Tester   \* the governed trial account and the dedicated tester

Accounts == {Member, Tester}
TRIAL_COHORT == {Member, Tester}

\* release: the entitlements package; numbered18: the version is the one recorded in
\* docs/evidence, so its package and environment are those of the record.
Entitlements == [release : {"baseline", "operator", "snapshot"}, subjects : SUBSET Accounts,
                 extra : SUBSET Accounts, trial : BOOLEAN, numbered18 : BOOLEAN]
AuthorityUnits == {"entitlements", "recovery", "rule", "operator", "reader"}
AuthorityValues(u) ==
  CASE u = "entitlements" -> Entitlements
    [] u \in {"recovery", "rule", "operator"} -> BOOLEAN
    [] u = "reader" -> SUBSET Accounts

\* Before the operator; with it and the governed trial; as recorded for maintenance.
AuthorityInit ==
  {[entitlements |-> e, recovery |-> FALSE, rule |-> FALSE, operator |-> e.release # "baseline",
    reader |-> {Member}] :
     e \in {[release |-> "baseline", subjects |-> {}, extra |-> {}, trial |-> FALSE,
             numbered18 |-> FALSE],
            [release |-> "operator", subjects |-> {Member}, extra |-> {}, trial |-> TRUE,
             numbered18 |-> FALSE],
            [release |-> "snapshot", subjects |-> {Member}, extra |-> {Tester}, trial |-> TRUE,
             numbered18 |-> TRUE]}}

AuthorityChoices ==
  {c \in [kind : {"trial", "access"}, mode : {"inactive", "trial"}, subjects : SUBSET Accounts] :
     /\ c.mode = "inactive" <=> c.subjects = {}
     /\ c.subjects # TRIAL_COHORT}
  \union [kind : {"operator"}, mode : {"inactive"}, subjects : {{}}]
  \union [kind : {"cohort"}, mode : {"trial"}, subjects : {TRIAL_COHORT}]
  \union [kind : {"snapshot"}, mode : {"trial"}, subjects : {{a} : a \in Accounts}]
  \union [kind : {"maintenance"}, mode : {"trial"}, subjects : {{}}]

\* The url-consumer stack; the reader is of another.
AuthorityStack == AuthorityUnits \ {"reader"}

-----------------------------------------------------------------------------
\* A version is published when the configuration changes, and only then.
Published(ent, live) ==
  LET was == live["entitlements"]
  IN IF [ent EXCEPT !.numbered18 = was.numbered18] = was THEN was ELSE ent

Environment(release, subjects, extra, trial) ==
  [release |-> release, subjects |-> subjects, extra |-> extra, trial |-> trial,
   numbered18 |-> FALSE]

OperatorEnvironment == Environment("operator", {}, {}, FALSE)

\* What a run's variables ask of the stack, over the committed tfvars: their
\* package, and recovery as they have it.
AuthorityBase(ent, sweep) ==
  [entitlements |-> ent, recovery |-> sweep, rule |-> sweep, operator |-> TRUE]
AuthorityTarget(c, live, captured, committed) ==
  LET was == captured["entitlements"]
  IN CASE c.kind = "trial" ->
            AuthorityBase(Published(Environment(committed.release, c.subjects, {},
                                                c.mode = "trial"), live),
                          c.mode = "trial" \/ committed.sweep)
       [] c.kind \in {"operator", "access"} ->
            AuthorityBase(Published(Environment(committed.release, c.subjects, {},
                                                c.mode = "trial"), live), committed.sweep)
       [] c.kind = "snapshot" ->
            AuthorityBase(Published(Environment("snapshot", was.subjects, c.subjects, TRUE), live),
                          committed.sweep)
       [] c.kind = "cohort" ->
            [u \in AuthorityStack |->
               IF u = "entitlements"
               THEN Published(Environment(was.release, c.subjects, {}, was.trial), live)
               ELSE captured[u]]
       [] c.kind = "maintenance" ->
            [AuthorityBase(Published(was, live), TRUE) EXCEPT !["operator"] = captured["operator"]]

\* prepare_access_snapshot_dev.py build: the preserved selection is the live one, of
\* one account, and History reads for the same.
SnapshotPrepared(c, live) ==
  LET e == live["entitlements"]
  IN /\ e.release = "operator" /\ e.trial /\ e.extra = {}
     /\ e.subjects \in {{a} : a \in Accounts} /\ e.subjects # c.subjects
     /\ live["reader"] = e.subjects
\* prepare_preserved_deployment.py capture: the recorded version serves, maintenance
\* is wholly on or wholly off.
MaintenancePrepared(live) ==
  live["entitlements"].numbered18 /\ live["recovery"] = live["rule"]
AuthorityPrepared(c, live) ==
  /\ c.kind = "snapshot" => SnapshotPrepared(c, live)
  /\ c.kind = "maintenance" => MaintenancePrepared(live)

-----------------------------------------------------------------------------
\* Whatever of these changes, to what the mode selects; what was there before is not
\* looked at, nor is drift.
TRANSITION_ADDRESSES == {"entitlements", "recovery", "rule"}
TrialReview(c, p) ==
  LET active == c.mode = "trial"
      after == p.after["entitlements"]
  IN /\ Changed(p) \subseteq TRANSITION_ADDRESSES
     /\ "entitlements" \in Changed(p) => after = Environment(after.release, c.subjects, {}, active)
     /\ "rule" \in Changed(p) => p.after["rule"] = active
     /\ p.after["recovery"] = active
ALLOWED_CHANGES == {"entitlements", "operator"}
OperatorReview(p) ==
  /\ Changed(p) = ALLOWED_CHANGES
  /\ p.after["entitlements"] = OperatorEnvironment /\ ~ p.before["operator"] /\ ~ p.after["recovery"]

\* Mutant: the sweep and the snapshot may go with the subjects.
AccessReviewLoose(p) == Drift(p) = {} /\ Changed(p) \subseteq {"entitlements", "recovery", "rule"}
AccessReview(p) ==
  LET before == p.before["entitlements"]
      after == p.after["entitlements"]
  IN /\ Drift(p) = {} /\ Changed(p) \subseteq {"entitlements"} /\ ~p.after["recovery"]
     /\ after.release = before.release /\ after.extra = before.extra

CohortReview(c, captured, p) ==
  LET before == p.before["entitlements"]
      after == p.after["entitlements"]
  IN /\ Drift(p) = {} /\ Changed(p) = {"entitlements"}
     /\ \A u \in AuthorityStack : p.before[u] = captured[u]
     /\ before.numbered18 /\ before.trial
     /\ c.subjects = before.subjects \union before.extra
     /\ after = [before EXCEPT !.subjects = c.subjects, !.extra = {}, !.numbered18 = FALSE]

SnapshotReview(c, p) ==
  LET before == p.before["entitlements"]
      after == p.after["entitlements"]
  IN /\ Drift(p) = {} /\ Changed(p) = {"entitlements"} /\ ~p.after["recovery"]
     /\ before.release = "operator" /\ before.extra = {} /\ before.trial
     /\ before.subjects # c.subjects
     /\ after = [before EXCEPT !.release = "snapshot", !.extra = c.subjects]

\* Complete or nothing, and entitlements as captured.
MaintenanceReview(captured, p) ==
  /\ Drift(p) \subseteq {"entitlements"}
  /\ Changed(p) \in {{}, {"recovery", "rule"}}
  /\ p.before["entitlements"] = captured["entitlements"]
  /\ p.after["entitlements"].numbered18

AuthorityReview(c, captured, p) ==
  CASE c.kind = "trial" -> TrialReview(c, p)
    [] c.kind = "operator" -> OperatorReview(p)
    [] c.kind = "access" -> AccessReview(p)
    [] c.kind = "cohort" -> CohortReview(c, captured, p)
    [] c.kind = "snapshot" -> SnapshotReview(c, p)
    [] c.kind = "maintenance" -> MaintenanceReview(captured, p)

\* verify_access_snapshot_dev_readback.py looks before the apply and after it:
\* entitlements are as in the plan, the protected runtimes as at the start.
verify_selected(live, planned) == live["entitlements"] = planned["entitlements"]
ProtectedUnchanged(live, captured) == \A u \in {"recovery", "reader"} : live[u] = captured[u]

\* The other kinds look at nothing again before the apply.
AuthorityReady(c, live, captured, p) ==
  c.kind = "snapshot" => verify_selected(live, p.before) /\ ProtectedUnchanged(live, captured)

\* The live aliases of the access scope; both halves of maintenance over the captured
\* entitlements.
AccessReadback(live, p) == \A u \in {"entitlements", "recovery"} : live[u] = p.after[u]
MaintenanceReadback(live, captured) ==
  live["entitlements"] = captured["entitlements"] /\ live["recovery"] /\ live["rule"]
AuthorityReadback(c, live, captured, p) ==
  CASE c.kind = "access" -> AccessReadback(live, p)
    [] c.kind = "snapshot" -> verify_selected(live, p.after) /\ ProtectedUnchanged(live, captured)
    [] c.kind = "maintenance" -> MaintenanceReadback(live, captured)
    [] OTHER -> TRUE
=============================================================================

------------------------------ MODULE ApiRelease ------------------------------
(***************************************************************************)
(* The releases of terraform/api, as operators: the retirement of the      *)
(* analysis function and its single-policy correction                      *)
(* (analysis-retirement-dev.yml), the research migration (research-migrate-*)
(* api of deploy.yml) and the ordinary deployment.  DevRelease runs them.  *)
(*                                                                         *)
(* Retired analysis answers from its replay evidence through a qualified   *)
(* alias, with read-only policies.  Campaign participation stands for the  *)
(* other functions of the migration.  view is what the analysis role shows *)
(* of its policies and stage the deployment pointer of the API stage:      *)
(* computed by AWS, they lag in the state and are never set.               *)
(***************************************************************************)
EXTENDS Release

Packages == {"old", "new"}
RetirementUnits == {"runtime", "history", "analysis", "alias", "integration", "permission", "period"}
ApiUnits == RetirementUnits \union {"participation", "view", "stage"}
Analysis == [code : Packages, env : {"legacy", "replay"}, open : BOOLEAN]
\* The version that the retired alias serves, none when its env is.
Served == [code : Packages, env : {"none", "legacy", "replay"}]
ApiValues(u) ==
  CASE u = "runtime" -> {"legacy", "before-kms", "replay"}
    [] u = "history" -> {"legacy", "replay"}
    [] u = "analysis" -> Analysis
    [] u = "alias" -> Served
    [] u \in {"integration", "permission", "stage"} -> {"unqualified", "retired"}
    [] u = "period" -> BOOLEAN
    [] u = "participation" -> [code : Packages, open : BOOLEAN]
    [] u = "view" -> [history : {"legacy", "replay"}, period : BOOLEAN, foreign : BOOLEAN]

Version(code, env) == [code |-> code, env |-> env]
Deployment(code, fence, open, route, env, runtime) ==
  [runtime |-> runtime, history |-> env, analysis |-> [code |-> code, env |-> env, open |-> open],
   alias |-> Version(code, IF env = "legacy" THEN "none" ELSE env),
   integration |-> route, permission |-> route, period |-> env = "legacy",
   participation |-> [code |-> fence, open |-> open],
   view |-> [history |-> env, period |-> env = "legacy", foreign |-> FALSE], stage |-> route]
\* Not retired yet, or retired with the first form of its runtime policy.
ApiInit ==
  {Deployment(code, code, open, "unqualified", "legacy", "legacy") : code \in Packages, open \in BOOLEAN}
    \union {Deployment(code, code, TRUE, "retired", "replay", "before-kms") : code \in Packages}

ApiChoices == [kind : {"retirement", "repair", "research", "api"}, mode : {"apply"}]
ApiStack == ApiUnits

\* The committed tfvars pin the packages, of one migration release or each by its own
\* selection, and say whether the functions may run; a pinned package selects retirement.
Pins == [code : Packages, fence : Packages, open : BOOLEAN]
ApiTarget(live, committed) ==
  LET t == Deployment(committed.code, committed.fence, committed.open, "retired", "replay", "replay")
  IN [t EXCEPT !["view"] = live["view"], !["stage"] = live["stage"]]

-----------------------------------------------------------------------------
\* automatic_stage_readback and post_role_readback: the view shows exactly the retired
\* policies now and showed exactly the policies of before retirement.
RetiredView(p) ==
  /\ p.before["view"] = [history |-> "replay", period |-> FALSE, foreign |-> FALSE]
  /\ p.was["view"] = [history |-> "legacy", period |-> TRUE, foreign |-> FALSE]
  /\ p.after["history"] = p.before["history"] /\ p.after["runtime"] = "replay"
AdmittedDrift(p, retired) ==
  /\ Drift(p) \subseteq {"stage"} \union (IF retired THEN {"view"} ELSE {})
  /\ "view" \in Drift(p) => RetiredView(p)
\* bounded_shapes: besides the drift, the code and concurrency that stay.
BoundedShapes(p, retired) ==
  /\ AdmittedDrift(p, retired)
  /\ \A f \in {"code", "open"} : p.before["analysis"][f] = p.after["analysis"][f]

Required == {"runtime", "analysis", "alias", "integration", "permission"}
\* Mutants: any part of it will do; the package may change with it.
RetirementReviewPartial(p) ==
  /\ Changed(p) # {} /\ Changed(p) \subseteq RetirementUnits /\ BoundedShapes(p, FALSE)
RetirementReviewAnyCode(p) ==
  /\ Required \union {"history"} \subseteq Changed(p) /\ Changed(p) \subseteq RetirementUnits
  /\ Drift(p) \subseteq {"stage"} /\ p.before["permission"] = "unqualified"
\* Everything or nothing.
RetirementReview(p) ==
  /\ Required \union {"history"} \subseteq Changed(p) /\ Changed(p) \subseteq RetirementUnits
  /\ p.before["permission"] = "unqualified"
  /\ BoundedShapes(p, FALSE)
RepairReview(p) ==
  /\ Changed(p) = {"runtime"} /\ p.before["runtime"] = "before-kms" /\ BoundedShapes(p, TRUE)
RetiredReadback(p) == Changed(p) = {} /\ BoundedShapes(p, TRUE)

ResearchUnits == {"analysis", "participation", "runtime"}
\* verify_research_release.py: what is put in is put in closed.
ResearchReview(p, committed) ==
  /\ committed.fence = committed.code
  /\ Changed(p) \subseteq ResearchUnits
  /\ p.before["analysis"].env = p.after["analysis"].env
  /\ committed.open =>
       \A f \in {"analysis", "participation"} : p.before[f].code = p.after[f].code
ordinary_guard(p) == Changed(p) \intersect RetirementUnits = {}
ApiReview(c, p, committed) ==
  CASE c.kind = "retirement" -> RetirementReview(p)
    [] c.kind = "repair" -> RepairReview(p)
    [] c.kind = "research" -> ResearchReview(p, committed)
    [] c.kind = "api" -> ordinary_guard(p)

\* The drift check of the migration; the retirement reviews a plan of what there is now.
ApiReadback(c, now) ==
  /\ c.kind \in {"retirement", "repair"} => RetiredReadback(now)
  /\ c.kind = "research" => Changed(now) = {}

ApiAfter(u) ==
  CASE u = "analysis" -> {"runtime", "history"}
    [] u = "alias" -> {"runtime", "history", "analysis"}
    [] u \in {"integration", "permission"} -> {"runtime", "history", "analysis", "alias"}
    [] OTHER -> {}
\* AWS computes the view and, the stage deploying itself, the pointer.
ApiSettled(live) ==
  [live EXCEPT !["view"].history = live["history"], !["view"].period = live["period"],
               !["stage"] = live["integration"]]
=============================================================================

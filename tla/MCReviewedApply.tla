--------------------------- MODULE MCReviewedApply ----------------------------
(* What the small instance starts from: the candidate installed inactive,  *)
(* active with History, or left between the engineering and History modes. *)
EXTENDS ReviewedApply

MCPinned == [r \in Revisions |-> IF r = 1 THEN "c1" ELSE "c2"]
MCGates ==
  {[u \in {"consumer", "evaluator"} |-> "inactive"],
   [u \in {"consumer", "evaluator"} |-> IF u = "consumer" THEN "history" ELSE "rules"],
   [u \in {"consumer", "evaluator"} |-> IF u = "consumer" THEN "history" ELSE "engineering"]}
===============================================================================

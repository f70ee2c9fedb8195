---------------------------- MODULE HistoryRelease ----------------------------
(***************************************************************************)
(* The governed History releases, as operators: governed-history-dev.yml   *)
(* with scope index (foundation), reader (governed-history) and message    *)
(* (message-consumer, whose own review is in ReviewedApply), and the guard *)
(* that keeps the ordinary deployment of foundation off the index.         *)
(* DevRelease runs them.                                                   *)
(*                                                                         *)
(* The reader is a function with a role of its own.  view is what the role *)
(* resource shows of its inline policies: Terraform reads it, never sets   *)
(* it, so that it lags the policy resource.  grant is a permission that no *)
(* stack knows of: another policy attached to the role, or another         *)
(* statement that may invoke the function.                                 *)
(***************************************************************************)
EXTENDS Release

ReaderModes == {"inactive", "list", "detail", "both"}
HistoryUnits == {"index", "policy", "reader", "invoke", "settlement", "view", "grant"}
HistoryValues(u) ==
  CASE u \in {"index", "invoke", "settlement", "grant"} -> BOOLEAN
    [] u = "policy" -> Subjects \union {Nobody}
    [] u = "reader" -> [mode : ReaderModes, subject : Subjects \union {Nobody}]
    [] u = "view" -> [policy : Subjects \union {Nobody}, foreign : BOOLEAN]

\* An inactive reader, or one that serves somebody.
HistoryInit ==
  {[index |-> i, policy |-> s, reader |-> [mode |-> IF s = Nobody THEN "inactive" ELSE "list", subject |-> s],
    invoke |-> TRUE, settlement |-> FALSE, view |-> [policy |-> s, foreign |-> FALSE], grant |-> FALSE] :
     i \in BOOLEAN, s \in Subjects \union {Nobody}}

Scopes == [index |-> {"active", "inactive"}, reader |-> ReaderModes,
           message |-> {"inactive", "rules-only", "rules-only-history"}, foundation |-> {"apply"}]
\* One subject for an active reader, none otherwise.
HistoryChoices ==
  {c \in UNION {[kind : {k}, mode : Scopes[k], subject : Subjects \union {Nobody}] : k \in DOMAIN Scopes} :
     (c.subject # Nobody) <=> (c.kind = "reader" /\ c.mode # "inactive")}
ActiveReader(c) == c.kind = "reader" /\ c.mode # "inactive"
OverIndex(c) == ActiveReader(c) \/ (c.kind = "message" /\ c.mode = "rules-only-history")

HistoryStack(c) ==
  CASE c.kind \in {"index", "foundation"} -> {"index"}
    [] c.kind = "message" -> {"settlement"}
    [] c.kind = "reader" -> {"policy", "reader", "invoke", "view"}

ReaderTarget(c, live) ==
  [policy |-> c.subject, reader |-> [mode |-> c.mode, subject |-> c.subject],
   invoke |-> TRUE, view |-> live["view"]]
HistoryTarget(c, live, committed) ==
  CASE c.kind = "index" -> [index |-> c.mode = "active"]
    [] c.kind = "foundation" -> [index |-> committed]
    [] c.kind = "message" -> [settlement |-> c.mode = "rules-only-history"]
    [] c.kind = "reader" -> ReaderTarget(c, live)

-----------------------------------------------------------------------------
verify_index(live) == live["index"]
\* verify_reader_role_exclusivity and verify_reader_invoke_boundary: the role has its
\* one policy and nothing else may invoke; only an inactive reader may lack the routes.
RoleIsExclusive(live) == ~ live["grant"] /\ ~ live["view"].foreign
InvokeBoundary(live, allow_missing) == ~ live["grant"] /\ (live["invoke"] \/ allow_missing)
verify_reader_preflight(c, live) ==
  RoleIsExclusive(live) /\ InvokeBoundary(live, c.mode = "inactive")

\* Mutant: the index is not asked for.
HistoryPreparedUnindexed(c, live) == c.kind = "reader" => verify_reader_preflight(c, live)
HistoryPrepared(c, live) ==
  /\ c.kind = "reader" => verify_reader_preflight(c, live)
  /\ OverIndex(c) => verify_index(live)

\* owned_inline_policy_readback: the view lags, from the present policy or the next one,
\* and what it shows now is the policy resource alone.
OwnedView(p) ==
  /\ p.before["view"] = [policy |-> p.before["policy"], foreign |-> FALSE]
  /\ ~ p.was["view"].foreign /\ p.was["view"].policy \in {p.before["policy"], p.after["policy"]}
IndexReview(p) == Drift(p) = {} /\ Changed(p) \subseteq {"index"}
\* The reader's only drift, when it is the one of its own policy.
verify_drift(p) == Drift(p) \subseteq {"view"} /\ (Drift(p) # {} => OwnedView(p))
\* The complete reader, bound to the selected subject and mode.
ReaderReview(c, p) == verify_drift(p) /\ p.after = ReaderTarget(c, p.before)
\* reject_ordinary_governed_index_transition.py
OrdinaryIndexReview(p) == "index" \notin Changed(p)
HistoryReview(c, p) ==
  CASE c.kind = "index" -> IndexReview(p)
    [] c.kind = "reader" -> ReaderReview(c, p)
    [] c.kind = "message" -> Drift(p) = {}
    [] c.kind = "foundation" -> OrdinaryIndexReview(p)

\* The preflight again, just before the apply; the index is not looked at again.
HistoryReady(c, live) == c.kind = "reader" => verify_reader_preflight(c, live)

HistoryReadback(c, live, p) ==
  /\ c.kind = "index" => live["index"] = p.after["index"]
  /\ OverIndex(c) => verify_index(live)
  /\ c.kind = "reader" => /\ RoleIsExclusive(live) /\ InvokeBoundary(live, FALSE)
                          /\ \A u \in {"policy", "reader"} : live[u] = p.after[u]

\* The function depends on the policy, the routes on the function.
HistoryAfter(u) ==
  CASE u = "reader" -> {"policy"} [] u = "invoke" -> {"policy", "reader"} [] OTHER -> {}
\* What the role shows follows the policy at once.
HistorySettled(live) == [live EXCEPT !["view"].policy = live["policy"]]
=============================================================================

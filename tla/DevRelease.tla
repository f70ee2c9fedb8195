------------------------------- MODULE DevRelease ------------------------------
(***************************************************************************)
(* The reviewed releases of the Dev environment at work.  A run captures   *)
(* what its preparation reads, saves a plan, has the plan reviewed and     *)
(* either publishes the digest or, given the digest that was approved      *)
(* last, applies the saved plan resource by resource and reads back what   *)
(* came of it.  All workflows of a world share the concurrency group       *)
(* terraform-dev: there is one run at a time.  Around it people change AWS *)
(* by hand or with scripts/terraform.sh, an apply fails or its runner dies *)
(* between two resources, and AWS computes what it computes.               *)
(*                                                                         *)
(* The worlds are four groups of stacks whose releases look at each        *)
(* other's units and at no other world's; each behaviour is of one.  A     *)
(* refused run leaves nothing behind.  The lock of the state and a saved   *)
(* plan gone stale are in ReviewedApply.                                   *)
(***************************************************************************)
EXTENDS PlayRelease, AuthorityRelease, HistoryRelease, ApiRelease

Worlds == {"play", "authority", "history", "api"}
CONSTANTS MaxRuns, MaxTroubles   \* bounds, for each world
ASSUME WorldsAssumption == MaxRuns \in [Worlds -> Nat] /\ MaxTroubles \in [Worlds -> Nat]

VARIABLES world,
          live, recorded,   \* the units as AWS and as the Terraform states have them
          committed,        \* what the committed tfvars of the branch say
          run, pc,          \* the selected inputs and the control point of the run
          captured, plan, done,   \* what it read first, its saved plan, what is applied
          approved,         \* the digest that the reviewer approved last
          hand, since,      \* history: units changed by hand ever, and since the saved plan
          report,           \* how the last run ended
          runs, troubles

vars == <<world, live, recorded, committed, run, pc, captured, plan, done, approved, hand, since,
          report, runs, troubles>>

None == [none |-> TRUE]
NoRun == [choice |-> [kind |-> "none"], apply |-> FALSE]
NoPlan == [before |-> <<>>, after |-> <<>>, was |-> <<>>]

Units ==
  CASE world = "play" -> BillingUnits [] world = "authority" -> AuthorityUnits
    [] world = "history" -> HistoryUnits [] world = "api" -> ApiUnits
ValuesOf(u) ==
  CASE world = "play" -> BillingValues(u) [] world = "authority" -> AuthorityValues(u)
    [] world = "history" -> HistoryValues(u) [] world = "api" -> ApiValues(u)
Inits(w) ==
  CASE w = "play" -> BillingInit [] w = "authority" -> AuthorityInit
    [] w = "history" -> HistoryInit [] w = "api" -> ApiInit
Choices ==
  CASE world = "play" -> BillingChoices \union CleanupChoices
    [] world = "authority" -> AuthorityChoices
    [] world = "history" -> HistoryChoices [] world = "api" -> ApiChoices
\* The committed tfvars follow what is deployed, or lead it: in api, and with the
\* package of the operator, which its release installs.
CommittedAfter(w, units) ==
  CASE w = "play" -> {units["deletion"].admitted}
    [] w = "authority" ->
         [release : {units["entitlements"].release, "operator"}, sweep : {units["recovery"]}]
    [] w = "history" -> {units["index"]}
    [] w = "api" -> Pins

c == run.choice
Stack ==
  CASE world = "play" -> BillingStack(c) [] world = "authority" -> AuthorityStack
    [] world = "history" -> HistoryStack(c) [] world = "api" -> ApiStack
Target ==
  CASE world = "play" -> BillingTarget(c, live, captured, committed)
    [] world = "authority" -> AuthorityTarget(c, live, captured, committed)
    [] world = "history" -> HistoryTarget(c, live, committed)
    [] world = "api" -> ApiTarget(live, committed)
PlanNow == PlanOver(Stack, live, Target, recorded)
Prepared(choice) ==
  CASE world = "play" -> BillingPrepared(choice, live)
    [] world = "authority" -> AuthorityPrepared(choice, live)
    [] world = "history" -> HistoryPrepared(choice, live) [] world = "api" -> TRUE
review ==
  CASE world = "play" -> BillingReview(c, captured, plan)
    [] world = "authority" -> AuthorityReview(c, captured, plan)
    [] world = "history" -> HistoryReview(c, plan)
    [] world = "api" -> ApiReview(c, plan, committed)
Verified == world = "play" => BillingVerified(c, live, captured, plan)
Ready ==
  CASE world = "play" -> BillingReady(c, live, captured, plan)
    [] world = "authority" -> AuthorityReady(c, live, captured, plan)
    [] world = "history" -> HistoryReady(c, live) [] world = "api" -> TRUE
Readback ==
  CASE world = "play" -> BillingReadback(c, live, captured, plan)
    [] world = "authority" -> AuthorityReadback(c, live, captured, plan)
    [] world = "history" -> HistoryReadback(c, live, plan)
    [] world = "api" -> ApiReadback(c, PlanNow)
After(u) ==
  CASE world = "play" -> BillingAfter(u) [] world = "history" -> HistoryAfter(u)
    [] world = "api" -> ApiAfter(u) [] OTHER -> {}
Settled(units) ==
  CASE world = "history" -> HistorySettled(units) [] world = "api" -> ApiSettled(units)
    [] OTHER -> units

Protected == IF world = "play" THEN BillingSnapshot(c) ELSE {}
\* What some stack sets; the rest only AWS has.
Managed == Units \ {"storage", "grant", "mirror", "view", "stage"}
\* The stacks that scripts/terraform.sh applies: all but that of the reader.
LocalStacks ==
  CASE world = "play" -> {{"handoff", "mirror"}, {"ingress", "worker", "schedule", "deletion", "mapping"}}
    [] world = "authority" -> {AuthorityStack} [] world = "history" -> {{"index"}, {"settlement"}}
    [] world = "api" -> {ApiStack}
\* A hand changes one field of a unit, and never back into a recorded version.
OneField(a, b) == \E f \in DOMAIN a : b = [a EXCEPT ![f] = b[f]]
HandValues(u) ==
  CASE u = "entitlements" ->
         LET e == [live[u] EXCEPT !.numbered18 = FALSE]
         IN {[e EXCEPT !.subjects = a] : a \in SUBSET Accounts}
              \union {[e EXCEPT !.extra = a] : a \in SUBSET Accounts} \union {[e EXCEPT !.trial = ~ @]}
    [] u \in {"handoff", "deletion", "analysis"} -> {v \in ValuesOf(u) : OneField(live[u], v)}
    [] OTHER -> ValuesOf(u)

\* The ordinary deployment applies what it plans; every other run wants a digest.
Ordinary(choice) == choice.kind \in {"foundation", "api"}
Digest == [choice |-> c, rev |-> committed, plan |-> plan]

Init ==
  /\ world \in Worlds
  /\ live \in Inits(world)
  /\ recorded \in IF world = "play" THEN {live, [live EXCEPT !["mirror"] = "older"]} ELSE {live}
  /\ committed \in CommittedAfter(world, live)
  /\ run = NoRun /\ pc = "idle" /\ captured = live /\ plan = NoPlan /\ done = {}
  /\ approved = None /\ hand = {} /\ since = {} /\ report = "none" /\ runs = 0 /\ troubles = 0

-----------------------------------------------------------------------------
Dispatch(choice, apply) ==
  /\ pc = "idle" /\ runs < MaxRuns[world]
  /\ apply \/ runs + 1 < MaxRuns[world]   \* a bound: nothing is reviewed for no apply
  /\ Prepared(choice)
  /\ apply /\ ~ Ordinary(choice) => approved # None /\ approved.choice = choice
  /\ run' = [choice |-> choice, apply |-> apply] /\ captured' = live
  /\ pc' = "prepared" /\ report' = "none" /\ runs' = runs + 1
  /\ UNCHANGED <<world, live, recorded, committed, plan, done, approved, hand, since, troubles>>

SavePlan ==
  /\ pc = "prepared" /\ pc' = "saved" /\ plan' = PlanNow
  /\ UNCHANGED <<world, live, recorded, committed, run, captured, done, approved, hand, since,
                 report, runs, troubles>>

\* Mutant: the next run starts with what this one applied.
EndedKeepingDone(verdict) ==
  /\ pc' = "idle" /\ run' = NoRun /\ plan' = NoPlan /\ done' = done /\ captured' = live /\ since' = {}
  /\ report' = verdict
  /\ UNCHANGED <<world, live, recorded, committed, hand, runs>>
Ended(verdict) ==
  /\ pc' = "idle" /\ run' = NoRun /\ plan' = NoPlan /\ done' = {} /\ captured' = live /\ since' = {}
  /\ report' = verdict
  /\ UNCHANGED <<world, live, recorded, committed, hand, runs>>

Publish ==
  /\ pc = "saved" /\ ~ run.apply /\ review /\ Verified
  /\ approved' = Digest /\ Ended("reviewed") /\ UNCHANGED troubles

\* Mutant: an apply trusts its own review.
AuthorizedUncompared == review /\ Ready
\* The digest is compared, then the preconditions are read again.
Authorized == review /\ (Ordinary(c) \/ Digest = approved) /\ Ready

Refuse ==
  /\ pc = "saved" /\ ~ IF run.apply THEN Authorized ELSE review /\ Verified
  /\ Ended("refused") /\ UNCHANGED <<approved, troubles>>

\* Terraform writes what its plan read to the state before it changes anything;
\* billing takes a snapshot of the runtimes it must not touch.
Authorize ==
  /\ pc = "saved" /\ run.apply /\ Authorized
  /\ pc' = "applying"
  /\ recorded' = [u \in Units |-> IF u \in Stack THEN plan.before[u] ELSE recorded[u]]
  /\ captured' = [u \in Units |-> IF u \in Protected THEN live[u] ELSE captured[u]]
  /\ UNCHANGED <<world, live, committed, run, plan, done, approved, hand, since, report, runs,
                 troubles>>

ApplyUnit(u) ==
  /\ pc = "applying" /\ u \in Changed(plan) \ done /\ After(u) \intersect Changed(plan) \subseteq done
  /\ live' = Settled([live EXCEPT ![u] = plan.after[u]])
  /\ recorded' = [recorded EXCEPT ![u] = plan.after[u]]
  /\ done' = done \union {u}
  /\ UNCHANGED <<world, committed, run, pc, captured, plan, approved, hand, since, report, runs,
                 troubles>>

\* Mutant: no second plan.
PassesUnplanned == Readback
\* What was applied is read back and planned again; the ordinary deployment and the
\* documented cohort procedure leave it at the apply.
Passes == Ordinary(c) \/ c.kind = "cohort" \/ (Readback /\ Changed(PlanNow) = {})
Finish ==
  /\ pc = "applying" /\ done = Changed(plan)
  /\ Ended(IF Passes THEN "passed" ELSE "failed") /\ UNCHANGED <<approved, troubles>>

\* The bounds: so many troubles, and none after the last run.
Trouble ==
  /\ troubles < MaxTroubles[world] /\ troubles' = troubles + 1
  /\ pc = "idle" => runs < MaxRuns[world]

\* Terraform fails at a resource, or the runner dies.
ApplyFails ==
  /\ pc = "applying" /\ done # Changed(plan) /\ Trouble /\ Ended("failed") /\ UNCHANGED approved

\* Somebody changes a unit.
Touched(u, value) ==
  /\ live' = Settled([live EXCEPT ![u] = value]) /\ live' # live
  /\ hand' = hand \union {u}
  /\ since' = IF pc \in {"idle", "prepared"} THEN {} ELSE since \union {u}
  /\ captured' = IF pc = "idle" THEN live' ELSE captured
  /\ UNCHANGED <<world, committed, run, pc, plan, done, approved, report, runs>>

\* In AWS, behind the state.
ByHand(u, value) == Touched(u, value) /\ UNCHANGED recorded

\* With scripts/terraform.sh apply under variables of his own: it refreshes, so that the
\* state has the whole stack as AWS has it, not only what he changed. (One that changes
\* several units is several such steps.) The lock, or the saved plan that it would
\* make stale, keeps it off the stack of a run from the plan on.
Unlocked(stack) == pc \in {"saved", "applying"} => stack \intersect Stack = {}
Refreshed(stack, units) == [u \in Units |-> IF u \in stack THEN units[u] ELSE recorded[u]]
LocalApply(stack, u, value) ==
  /\ Unlocked(stack) /\ u \in stack \intersect Managed
  /\ Touched(u, value) /\ recorded' = Refreshed(stack, live')

\* One that finds nothing to change still takes up what changed behind the state.
LocalRefresh(stack) ==
  /\ Unlocked(stack) /\ (pc = "idle" => runs < MaxRuns[world])
  /\ recorded' = Refreshed(stack, live) /\ recorded' # recorded
  /\ UNCHANGED <<world, live, committed, run, pc, captured, plan, done, approved, hand, since,
                 report, runs, troubles>>

\* AWS stamps the event source mapping anew.
Restamp ==
  /\ world = "play" /\ Trouble
  /\ live' = [live EXCEPT !["mapping"].stamp = 1 - @]
  /\ captured' = IF pc = "idle" THEN live' ELSE captured
  /\ UNCHANGED <<world, recorded, committed, run, pc, plan, done, approved, hand, since, report, runs>>

\* The branch takes up what is deployed, or pins something new.
Merge ==
  /\ pc = "idle" /\ runs < MaxRuns[world]
  /\ committed' \in CommittedAfter(world, live) /\ committed' # committed
  /\ UNCHANGED <<world, live, recorded, run, pc, captured, plan, done, approved, hand, since,
                 report, runs, troubles>>

DispatchAny == \E choice \in Choices, apply \in BOOLEAN : Dispatch(choice, apply)
ApplyAny == \E u \in Units : ApplyUnit(u)
ByHandAny ==
  Trouble /\ \E u \in Units : \E value \in HandValues(u) :
    ByHand(u, value) \/ \E stack \in LocalStacks : LocalApply(stack, u, value)
LocalRefreshAny == \E stack \in LocalStacks : LocalRefresh(stack)
Next ==
  \/ DispatchAny \/ SavePlan \/ Publish \/ Refuse \/ Authorize \/ ApplyAny \/ Finish
  \/ ApplyFails \/ ByHandAny \/ LocalRefreshAny \/ Restamp \/ Merge

Spec == Init /\ [][Next]_vars

-----------------------------------------------------------------------------
\* Every variable has its type; a saved plan is over the stack of its run.
TypeOK ==
  /\ world \in Worlds /\ DOMAIN live = Units /\ DOMAIN recorded = Units /\ DOMAIN captured = Units
  /\ \A u \in Units : live[u] \in ValuesOf(u) /\ recorded[u] \in ValuesOf(u) /\ captured[u] \in ValuesOf(u)
  /\ pc \in {"idle", "prepared", "saved", "applying"} /\ (pc # "idle" => c \in Choices)
  /\ pc \in {"saved", "applying"} => DOMAIN plan.before = Stack /\ DOMAIN plan.after = Stack
  /\ done \subseteq Changed(plan) /\ hand \subseteq Units /\ since \subseteq hand
  /\ report \in {"none", "reviewed", "refused", "passed", "failed"}
  /\ runs \in 0..MaxRuns[world] /\ troubles \in 0..MaxTroubles[world]

\* Play: whoever billing admits, in the handoff, the ingress or the background worker,
\* is admitted by a running token deletion, whatever runs were refused, failed half-way
\* or were reviewed over stale tfvars; only a hand on one of the four can undo it
\* (verify_billing_cleanup_prerequisite.py, prepare_billing_cleanup_dev.py).
BilledAreErasable ==
  world = "play" /\ hand \intersect {"handoff", "ingress", "worker", "deletion"} = {} =>
    \A s \in Billed(live) : CoversErasure(live, s)

\* Api: once a retirement was left half applied, no run of any of the four kinds changes
\* the stack again: retirement wants everything unchanged, the correction everything
\* done, the migration and the ordinary deployment nothing of it in their plan.
Begun(u) ==
  CASE u = "runtime" -> live[u] # "legacy" [] u = "history" -> live[u] = "replay"
    [] u = "analysis" -> live[u].env = "replay" [] u = "alias" -> live[u].env # "none"
    [] OTHER -> live[u] = "retired"
HalfAppliedNeedsAHand ==
  world = "api" /\ hand = {} /\ pc = "applying" /\ done = {} =>
    LET begun == {u \in Required \union {"history"} : Begun(u)}
    IN begun = {} \/ begun = Required \union {"history"}

-----------------------------------------------------------------------------
Applies(u) == pc = "applying" /\ u \in done' \ done

\* A reviewed run changes a unit only to what the approved digest says, from what the
\* reviewer saw, unless somebody changed it after the plan was saved: Terraform's state,
\* the branch and AWS may all have moved between the review and the apply.
OverwritesWhatWasReviewed ==
  [][\A u \in Units : Applies(u) /\ ~ Ordinary(c) =>
       /\ approved.choice = c /\ u \in Changed(approved.plan) /\ live'[u] = approved.plan.after[u]
       /\ live[u] = approved.plan.before[u] \/ u \in since]_vars

\* A run that reports success left every unit it changed as approved, although it reads
\* only some of them back (message, trial and operator runs none): the second plan sees
\* what somebody undid behind the apply.
PassedIsDeployed ==
  [][pc = "applying" /\ report' = "passed" /\ ~ Ordinary(c) /\ c.kind # "cohort" =>
       \A u \in Changed(plan) : live[u] = approved.plan.after[u]]_vars

\* Authority: tfvars that lag what is deployed take nothing away. Only the legacy trial
\* run and the first operator release, which set the environment whole, stop the recovery
\* sweep, go back to an older package or drop the read-only account; the others refuse.
StaleTfvarsTakeNothing ==
  [][\A u \in {"entitlements", "recovery"} : world = "authority" /\ Applies(u) /\ u \notin since
       /\ c.kind \notin {"trial", "operator"} =>
       /\ live["recovery"] => live'["recovery"]
       /\ live["entitlements"].release = "snapshot" => live'["entitlements"].release = "snapshot"
       /\ live["entitlements"].extra \subseteq live'["entitlements"].extra \union live'["entitlements"].subjects]_vars

\* Api: the four kinds of run hold each other off the package of the analysis function:
\* a retired function's alias would have to follow it, which only a retirement may
\* change, and that keeps the package.
AnalysisPackageStays ==
  [][world = "api" /\ pc = "applying" /\ hand = {} =>
       live'["analysis"].code = live["analysis"].code \/ hand' # {}]_vars

\* History: settlement and an active reader begin over a live index, whichever run built
\* or removed it in between; only a hand can take it from under them.
BeginsOverIndex ==
  [][\A u \in {"reader", "settlement"} : world = "history" /\ Applies(u) /\ "index" \notin hand =>
       LET on == IF u = "reader" THEN live'[u].mode # "inactive" ELSE live'[u] IN on => live["index"]]_vars

\* A role or function with a grant that nobody reviewed is not released over: a reader
\* while another policy or statement exists, a handoff while its role shows another
\* policy, even one that came after the plan had been reviewed (reader) or that hides
\* behind the drift that verifiers admit (handoff, until a plan saw it); nor does the
\* handoff write such a policy into the state, where no later review would see it.
\* A local apply does, and the handoff is then released over it.
NoForeignGrant ==
  [][pc = "saved" /\ pc' = "applying" =>
       /\ c.kind = "reader" => ~ live["grant"] /\ ~ live["view"].foreign
       /\ c.kind = "handoff" /\ recorded["mirror"] # "foreign" =>
            /\ live["mirror"] # "foreign" \/ "mirror" \in since
            /\ recorded'["mirror"] # "foreign"]_vars
=============================================================================

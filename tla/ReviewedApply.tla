---------------------------- MODULE ReviewedApply -----------------------------
(***************************************************************************)
(* The reviewed changes of the Dev message-consumer stack: the message-    *)
(* consumer and preserved-dev jobs of .github/workflows/deploy.yml and the *)
(* message scope of governed-history-dev.yml.  A run plans, verifies the   *)
(* plan and either publishes its digest or, given a digest that a reviewer *)
(* approved, applies the saved plan.  The three share one concurrency      *)
(* group, so there is one run at a time; scripts/terraform.sh on somebody's*)
(* machine and changes by hand are outside it.                             *)
(*                                                                         *)
(* A unit is a function of the stack with its live alias: its package, its *)
(* gates (env) and whether the alias serves the newest version.  A digest  *)
(* is the record of what is hashed.  Terraform and its backend are         *)
(* external: a saved plan is refused when the state has changed since, and *)
(* an update sends the fields that the plan changes.                       *)
(***************************************************************************)
EXTENDS Naturals

CONSTANTS Codes, Revisions,
          Pinned,        \* the package that environments/dev pins at a revision
          Candidate,     \* the package pinned by MESSAGE_CANDIDATE3_DEPLOYMENT_JSON
          Installable,   \* the releases the preserved job is asked to install
          Gates,         \* the gates that the functions may have to begin with
          MaxRuns, MaxTroubles   \* bounds on the runs and on what goes wrong

ASSUME PackagesAssumption ==
  /\ Revisions # {} /\ "keep" \notin Codes
  /\ Pinned \in [Revisions -> Codes] /\ Candidate \in Codes /\ Installable \subseteq Codes
ASSUME GatesAssumption ==
  Gates \subseteq [{"consumer", "evaluator"} -> {"inactive", "engineering", "rules", "history"}]
ASSUME BoundsAssumption == MaxRuns \in Nat /\ MaxTroubles \in Nat

VARIABLES live,      \* the functions as AWS has them
          recorded,  \* the functions as the Terraform state has them
          locked,    \* the lock object of the state exists
          current,   \* the state has not changed since the run's plan
          approved,  \* the digest that the reviewer approved last
          run, pc,   \* the selected inputs and the control point of the run
          base, plan,\* its baseline plan and its saved plan
          done,      \* the addresses applied so far
          since,     \* history: units changed by hand since the run last looked
          runs, troubles

vars == <<live, recorded, locked, current, approved, run, pc, base, plan, done,
          since, runs, troubles>>

Units == {"consumer", "evaluator"}
Envs == {"inactive", "engineering", "rules", "history"}
Config == [Units -> [code : Codes, env : Envs, served : BOOLEAN]]
\* History settlement is a gate of the consumer only.
Gate(u, e) == IF u = "evaluator" /\ e = "history" THEN "rules" ELSE e
Uniform(c, e) == [u \in Units |-> [code |-> c, env |-> Gate(u, e), served |-> TRUE]]

Addresses == Units \X {"function", "alias"}
TRANSITION_ADDRESSES == Addresses

\* What a run is dispatched for: the job and its mode, or the release to install.
Choices ==
  [kind : {"transition"}, mode : {"inactive", "engineering"}]
    \union [kind : {"candidate3"}, mode : {"inactive", "rules", "history"}]
    \union [kind : {"preserved"}, mode : Installable \union {"keep"}]
Plan == [before : Config, after : Config, drift : SUBSET Units]
Digest == [choice : Choices, rev : Revisions, plan : Plan]
None == [choice |-> "none"]
Run == [choice : Choices, rev : Revisions, apply : BOOLEAN, digest : Digest \union {None}]

NoPlan == [before |-> Uniform(Candidate, "inactive"), after |-> Uniform(Candidate, "inactive"),
           drift |-> {}]
NoRun == [choice |-> [kind |-> "transition", mode |-> "inactive"],
          rev |-> CHOOSE r \in Revisions : TRUE, apply |-> FALSE, digest |-> None]

\* Deployed long ago, or left half-applied by a run that failed.
Init ==
  /\ \E c \in Codes, gates \in Gates :
       live = [u \in Units |-> [code |-> c, env |-> gates[u], served |-> TRUE]]
  /\ recorded = live /\ locked = FALSE /\ current = TRUE /\ approved = None
  /\ run = NoRun /\ pc = "idle" /\ base = NoPlan /\ plan = NoPlan /\ done = {} /\ since = {}
  /\ runs = 0 /\ troubles = 0

-----------------------------------------------------------------------------
\* What Terraform makes of a target, and which addresses it would update.
PlanFor(target) ==
  [before |-> live, after |-> target, drift |-> {u \in Units : recorded[u] # live[u]}]
NewVersion(p, u) == p.before[u].code # p.after[u].code \/ p.before[u].env # p.after[u].env
Changes(p) ==
  {a \in Addresses : NewVersion(p, a[1]) \/ (a[2] = "alias" /\ ~ p.before[a[1]].served)}

\* The configuration a run plans for: the committed tfvars under the mode, the
\* pinned candidate, or what is deployed with another package.
Target ==
  IF run.choice.kind = "transition" THEN Uniform(Pinned[run.rev], run.choice.mode)
  ELSE IF run.choice.kind = "candidate3" THEN Uniform(Candidate, run.choice.mode)
  ELSE [u \in Units |->
          [code |-> IF run.choice.mode = "keep" THEN base.before[u].code ELSE run.choice.mode,
           env |-> Gate(u, "history"), served |-> TRUE]]

\* prepare.capture(): the baseline describes the deployed functions, whose
\* aliases serve their newest versions.
Capturable(p) == \A u \in Units : live[u] = p.before[u] /\ live[u].served

\* Mutants: the candidate verifier demands the whole set of addresses; the
\* verifier of packages forgets the gates.
ReviewCandidate3Exact == plan.drift = {} /\ Changes(plan) \in {{}, TRANSITION_ADDRESSES}
ReviewPreservedAnyGate ==
  plan.drift = {} /\ plan.before = base.before /\ \A u \in Units : plan.before[u].served

\* review(), one per verifier.
ReviewTransition == plan.drift = {} /\ Changes(plan) \in {{}, TRANSITION_ADDRESSES}
ReviewCandidate3 == plan.drift = {} /\ Changes(plan) \subseteq TRANSITION_ADDRESSES
ReviewPreserved ==
  /\ plan.drift = {} /\ plan.before = base.before
  /\ \A u \in Units : plan.before[u].served
  /\ \A u \in Units : plan.before[u].env = Gate(u, "history") /\ plan.after[u].env = Gate(u, "history")
review ==
  /\ run.choice.kind = "transition" => ReviewTransition
  /\ run.choice.kind = "candidate3" => ReviewCandidate3
  /\ run.choice.kind = "preserved" => ReviewPreserved

reviewedPlanDigest == [choice |-> run.choice, rev |-> run.rev, plan |-> plan]
\* Mutant: an apply plans again and trusts its own review.
AuthorizedToApplyUncompared == run.choice.kind = "preserved" => Capturable(base)

\* The digest is compared on apply only; the preserved job also reads AWS again.
AuthorizedToApply ==
  /\ run.digest = reviewedPlanDigest
  /\ run.choice.kind = "preserved" => Capturable(base)

-----------------------------------------------------------------------------
\* A run is dispatched, or an earlier one is run again at its own commit.
Dispatch(choice, rev, apply) ==
  /\ pc = "idle"
  /\ run' = [choice |-> choice, rev |-> rev, apply |-> apply,
             digest |-> IF apply THEN approved ELSE None]
  /\ apply => approved # None
  /\ pc' = "selected"
  /\ UNCHANGED <<live, recorded, locked, current, approved, base, plan, done, since, troubles>>

DispatchAny ==
  /\ runs < MaxRuns /\ runs' = runs + 1
  /\ \E choice \in Choices, rev \in Revisions, apply \in BOOLEAN : Dispatch(choice, rev, apply)

\* What is left of a run that is over: nothing but the approval.
Ended ==
  /\ pc' = "idle" /\ run' = NoRun /\ base' = NoPlan /\ plan' = NoPlan /\ done' = {}
  /\ since' = {} /\ current' = TRUE

\* preserved-dev: the baseline plan of the committed tfvars, then the capture.
PlanBaseline ==
  /\ pc = "selected" /\ run.choice.kind = "preserved" /\ ~ locked
  /\ base' = PlanFor(Uniform(Pinned[run.rev], "inactive"))
  /\ pc' = "based"
  /\ UNCHANGED <<live, recorded, locked, current, approved, run, plan, done, since, runs, troubles>>

Capture ==
  /\ pc = "based"
  /\ base.drift = {} /\ Capturable(base)
  /\ base.before["consumer"].env = "history"
  /\ pc' = "captured"
  /\ UNCHANGED <<live, recorded, locked, current, approved, run, base, plan, done, since, runs, troubles>>

\* Terraform's plan of the stack, saved and shown.
SavePlan ==
  /\ pc = (IF run.choice.kind = "preserved" THEN "captured" ELSE "selected") /\ ~ locked
  /\ plan' = PlanFor(Target)
  /\ current' = TRUE /\ since' = {}
  /\ pc' = "planned"
  /\ UNCHANGED <<live, recorded, locked, approved, run, base, done, runs, troubles>>

\* The verifier in plan mode: its digest goes to the reviewer, who may approve it.
Publish ==
  /\ pc = "planned" /\ ~ run.apply /\ review
  /\ approved' \in {approved, reviewedPlanDigest}
  /\ Ended
  /\ UNCHANGED <<live, recorded, locked, runs, troubles>>

\* The verifier in apply mode.
Verify ==
  /\ pc = "planned" /\ run.apply /\ review /\ AuthorizedToApply
  /\ since' = IF run.choice.kind = "preserved" THEN {} ELSE since
  /\ pc' = "verified"
  /\ UNCHANGED <<live, recorded, locked, current, approved, run, base, plan, done, runs, troubles>>

\* terraform apply of the saved plan: under the lock, and only if the state is
\* the one that was planned against.
StartApply ==
  /\ pc = "verified" /\ ~ locked /\ current
  /\ locked' = TRUE
  /\ pc' = "applying"
  /\ UNCHANGED <<live, recorded, current, approved, run, base, plan, done, since, runs, troubles>>

\* The provider sends what the plan changes; an alias follows its function.  If
\* somebody touched the function by hand the alias may miss the newest version.
Update(u, part) ==
  /\ pc = "applying"
  /\ <<u, part>> \in Changes(plan) \ done
  /\ part = "alias" => <<u, "function">> \in done \/ <<u, "function">> \notin Changes(plan)
  /\ done' = done \union {<<u, part>>}
  /\ \E newest \in BOOLEAN :
       /\ newest => part = "alias"
       /\ part = "alias" /\ u \notin since => newest
       /\ live' = [live EXCEPT ![u] =
            [code |-> IF part = "function" /\ plan.before[u].code # plan.after[u].code
                      THEN plan.after[u].code ELSE @.code,
             env |-> IF part = "function" /\ plan.before[u].env # plan.after[u].env
                     THEN plan.after[u].env ELSE @.env,
             served |-> newest]]
  /\ UNCHANGED <<recorded, locked, current, approved, run, pc, base, plan, since, runs, troubles>>

\* The state after the addresses in done: what the provider read back.
Persisted ==
  [u \in Units |-> IF done \intersect ({u} \X {"function", "alias"}) # {} THEN live[u] ELSE recorded[u]]

FinishApply ==
  /\ pc = "applying" /\ Changes(plan) \subseteq done
  /\ recorded' = Persisted
  /\ locked' = FALSE
  /\ pc' = "applied"
  /\ UNCHANGED <<live, current, approved, run, base, plan, done, since, runs, troubles>>

\* The deployed contract or configuration, then a plan that must be empty.
CheckDeployed ==
  /\ pc = "applied" /\ ~ locked /\ live = plan.after
  /\ Ended
  /\ UNCHANGED <<live, recorded, locked, approved, runs, troubles>>

\* A step whose check fails ends the run.
Reject ==
  /\ \/ pc \in {"selected", "captured", "verified", "applied"} /\ locked
     \/ pc = "based" /\ ~ (base.drift = {} /\ Capturable(base) /\ base.before["consumer"].env = "history")
     \/ pc = "planned" /\ ~ (review /\ (run.apply => AuthorizedToApply))
     \/ pc = "verified" /\ ~ current
     \/ pc = "applied" /\ live # plan.after
  /\ Ended
  /\ UNCHANGED <<live, recorded, locked, approved, runs, troubles>>

Step ==
  \/ PlanBaseline \/ Capture \/ SavePlan \/ Publish \/ Verify \/ StartApply
  \/ \E u \in Units, part \in {"function", "alias"} : Update(u, part)
  \/ FinishApply \/ CheckDeployed \/ Reject

-----------------------------------------------------------------------------
\* One of the bounded number of things that go wrong.
Trouble == troubles < MaxTroubles /\ troubles' = troubles + 1

\* An AWS error: Terraform records what it did and releases the lock.
ApplyFails ==
  /\ pc = "applying" /\ Trouble
  /\ recorded' = Persisted /\ locked' = FALSE
  /\ Ended
  /\ UNCHANGED <<live, approved, runs>>

\* The runner dies, times out or is cancelled: a plan may leave its lock behind,
\* an apply leaves its lock and perhaps an old state.
RunnerDies ==
  /\ pc # "idle" /\ Trouble
  /\ locked' \in {locked, locked \/ pc \in {"selected", "captured"}}
  /\ recorded' \in {recorded, IF pc = "applying" THEN Persisted ELSE recorded}
  /\ Ended
  /\ UNCHANGED <<live, approved, runs>>

\* An operator removes a lock whose owner is gone.
ForceUnlock ==
  /\ locked /\ pc # "applying"
  /\ locked' = FALSE
  /\ UNCHANGED <<live, recorded, current, approved, run, pc, base, plan, done, since, runs, troubles>>

\* scripts/terraform.sh apply dev message-consumer on somebody's machine.
LocalApply ==
  /\ ~ locked /\ Trouble
  /\ \E rev \in Revisions : live' = Uniform(Pinned[rev], "inactive")
  /\ recorded' = live'
  /\ current' = (current /\ live' = live /\ recorded' = recorded)
  /\ UNCHANGED <<locked, approved, run, pc, base, plan, done, since, runs>>

\* Somebody changes a function or its alias in the console.
ChangeByHand ==
  /\ Trouble
  /\ \E u \in Units : \E value \in [code : Codes, env : Envs, served : BOOLEAN] :
       /\ live' = [live EXCEPT ![u] = value] /\ live' # live
       /\ since' = IF pc = "idle" THEN {} ELSE since \union {u}
  /\ UNCHANGED <<recorded, locked, current, approved, run, pc, base, plan, done, runs>>

\* The way back from a half-applied change: the candidate workflow, inactive.
Repair == [kind |-> "candidate3", mode |-> "inactive"]
PlanRepair == \E rev \in Revisions : Dispatch(Repair, rev, FALSE) /\ UNCHANGED runs
ApplyRepair ==
  /\ approved # None /\ approved.choice = Repair
  /\ Dispatch(Repair, approved.rev, TRUE) /\ UNCHANGED runs

Next ==
  \/ DispatchAny \/ PlanRepair \/ ApplyRepair \/ Step
  \/ ApplyFails \/ RunnerDies \/ ForceUnlock \/ LocalApply \/ ChangeByHand

Spec == Init /\ [][Next]_vars

\* Runs go on by themselves; operators keep at the repair and approve it.
Approve == Publish /\ approved' = reviewedPlanDigest /\ run.choice = Repair
Fairness ==
  /\ WF_vars(Step) /\ WF_vars(ForceUnlock)
  /\ SF_vars(PlanRepair) /\ SF_vars(ApplyRepair) /\ SF_vars(Approve)
FairSpec == Spec /\ Fairness

-----------------------------------------------------------------------------
\* The types of the variables.
TypeOK ==
  /\ live \in Config /\ recorded \in Config /\ locked \in BOOLEAN /\ current \in BOOLEAN
  /\ approved \in Digest \union {None} /\ run \in Run
  /\ pc \in {"idle", "selected", "based", "captured", "planned", "verified", "applying", "applied"}
  /\ base \in Plan /\ plan \in Plan /\ done \in SUBSET Addresses /\ since \in SUBSET Units
  /\ runs \in 0 .. MaxRuns /\ troubles \in 0 .. MaxTroubles

\* What a run applies is what the reviewer saw in an earlier run: every package
\* or gate it writes is the approved one, and replaces the one the review named,
\* unless somebody changed that function by hand after this run's last look.
Overwrites(u, field) ==
  live'[u][field] # live[u][field] /\ pc = "applying" /\ done' # done
ReviewedOverwrites ==
  [][\A u \in Units, field \in {"code", "env"} : Overwrites(u, field) =>
       /\ run.digest # None
       /\ live'[u][field] = run.digest.plan.after[u][field]
       /\ u \notin since => live[u][field] = run.digest.plan.before[u][field]]_vars

\* Installing a package never moves a gate, whatever the committed tfvars say
\* and whatever happened to the stack since the baseline.
PreservedKeepsGates ==
  [][\A u \in Units :
       Overwrites(u, "env") => run.choice.kind # "preserved"]_vars

\* A change that stopped half-way is finished or taken back by runs alone, although
\* one may be refused or fail over it, except where between two runs a function
\* differs from what the state records: that needs somebody's hands.  (Within an
\* apply the two differ anyway, which excuses nothing.)
Split == ~ \E c \in Codes, e \in Envs : live = Uniform(c, e)
OutOfStep == pc = "idle" /\ recorded # live
HalfAppliedIsRepaired == Split ~> (~ Split \/ OutOfStep)
=============================================================================

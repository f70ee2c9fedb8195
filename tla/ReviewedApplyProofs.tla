------------------------- MODULE ReviewedApplyProofs --------------------------
(***************************************************************************)
(* What holds of ReviewedApply for any packages, revisions and number of   *)
(* runs and disturbances.  Two facts carry it from the plan to the apply:  *)
(* a verified run holds the digest of its own reviewed plan, and while the *)
(* state has not changed a function that nobody touched is as planned.     *)
(***************************************************************************)
EXTENDS ReviewedApply, TLAPS

Planned == {"planned", "verified", "applying"}

\* A run that is verified applies the plan that its digest names.
HoldsItsDigest ==
  pc \in {"verified", "applying"} => run.digest = reviewedPlanDigest /\ review

\* What is not updated yet and was not changed by hand is as the plan saw it.
AsPlanned ==
  pc \in Planned /\ current =>
    \A u \in Units : u \notin since /\ <<u, "function">> \notin done =>
      live[u].code = plan.before[u].code /\ live[u].env = plan.before[u].env

Inv ==
  /\ TypeOK /\ HoldsItsDigest /\ AsPlanned
  /\ pc = "applying" => locked /\ current

-----------------------------------------------------------------------------
LEMMA UniformType ==
  ASSUME NEW c \in Codes, NEW e \in Envs PROVE Uniform(c, e) \in Config
BY DEF Uniform, Config, Gate, Envs, Units

LEMMA NoPlanType == NoPlan \in Plan
BY UniformType, PackagesAssumption DEF NoPlan, Plan, Envs

LEMMA NoRunType == NoRun \in Run
BY PackagesAssumption DEF NoRun, Run, Choices, None

LEMMA PlanForType ==
  ASSUME TypeOK, NEW target \in Config PROVE PlanFor(target) \in Plan
BY DEF PlanFor, Plan, TypeOK

LEMMA TargetType ==
  ASSUME TypeOK PROVE Target \in Config
<1> USE DEF TypeOK
<1>1. run.rev \in Revisions /\ run.choice \in Choices
  BY DEF Run
<1>2. CASE run.choice.kind = "transition"
  <2>1. run.choice.mode \in Envs /\ Pinned[run.rev] \in Codes
    BY <1>1, <1>2, PackagesAssumption DEF Choices, Envs
  <2>2. Target = Uniform(Pinned[run.rev], run.choice.mode)
    BY <1>2 DEF Target
  <2>3. QED
    BY <2>1, <2>2, UniformType
<1>3. CASE run.choice.kind = "candidate3"
  <2>1. run.choice.mode \in Envs /\ Candidate \in Codes
    BY <1>1, <1>3, PackagesAssumption DEF Choices, Envs
  <2>2. Target = Uniform(Candidate, run.choice.mode)
    BY <1>3 DEF Target
  <2>3. QED
    BY <2>1, <2>2, UniformType
<1>4. CASE run.choice.kind = "preserved"
  <2>1. run.choice.mode = "keep" \/ run.choice.mode \in Codes
    BY <1>1, <1>4, PackagesAssumption DEF Choices
  <2>2. \A u \in Units : base.before[u].code \in Codes /\ Gate(u, "history") \in Envs
    BY DEF Plan, Config, Gate, Envs
  <2>3. Target = [u \in Units |->
            [code |-> IF run.choice.mode = "keep" THEN base.before[u].code ELSE run.choice.mode,
             env |-> Gate(u, "history"), served |-> TRUE]]
    BY <1>4 DEF Target
  <2>4. QED
    BY <2>1, <2>2, <2>3 DEF Config
<1>5. QED
  BY <1>1, <1>2, <1>3, <1>4 DEF Choices

LEMMA PersistedType ==
  ASSUME TypeOK PROVE Persisted \in Config
BY DEF TypeOK, Persisted, Config

LEMMA DigestType ==
  ASSUME TypeOK PROVE reviewedPlanDigest \in Digest
BY DEF TypeOK, reviewedPlanDigest, Digest, Run

\* A run that is over leaves nothing to say about plans.
LEMMA EndedInv ==
  ASSUME Inv, Ended, live' \in Config, recorded' \in Config, locked' \in BOOLEAN,
         approved' \in Digest \union {None}, runs' \in 0 .. MaxRuns, troubles' \in 0 .. MaxTroubles
  PROVE  Inv'
BY NoPlanType, NoRunType DEF Inv, TypeOK, Ended, HoldsItsDigest, AsPlanned, Planned

LEMMA TroubleType ==
  ASSUME Inv, Trouble PROVE troubles' \in 0 .. MaxTroubles
BY BoundsAssumption DEF Inv, TypeOK, Trouble

-----------------------------------------------------------------------------
LEMMA InitInv == Init => Inv
<1> SUFFICES ASSUME Init PROVE Inv
  OBVIOUS
<1>1. live \in Config
  <2>1. PICK c \in Codes, gates \in Gates :
          live = [u \in Units |-> [code |-> c, env |-> gates[u], served |-> TRUE]]
    BY DEF Init
  <2>2. \A u \in Units : gates[u] \in Envs
    BY GatesAssumption DEF Units, Envs
  <2>3. QED
    BY <2>1, <2>2 DEF Config
<1>2. live \in Config /\ recorded \in Config /\ run \in Run /\ base \in Plan /\ plan \in Plan
  BY <1>1, NoPlanType, NoRunType DEF Init
<1>3. TypeOK
  <2>1. runs \in 0 .. MaxRuns /\ troubles \in 0 .. MaxTroubles
    BY BoundsAssumption DEF Init
  <2>2. locked \in BOOLEAN /\ current \in BOOLEAN
    BY DEF Init
  <2>3. approved \in Digest \union {None}
    BY Zenon DEF Init
  <2>4. done \in SUBSET Addresses /\ since \in SUBSET Units
    BY DEF Init
  <2>5. pc = "idle"
    BY DEF Init
  <2>6. QED
    BY <1>2, <2>1, <2>2, <2>3, <2>4, <2>5 DEF TypeOK
<1>4. HoldsItsDigest /\ AsPlanned /\ (pc = "applying" => locked /\ current)
  BY DEF Init, HoldsItsDigest, AsPlanned, Planned
<1>5. QED
  BY <1>3, <1>4 DEF Inv

LEMMA DispatchInv ==
  ASSUME Inv, NEW choice \in Choices, NEW rev \in Revisions, NEW apply \in BOOLEAN,
         Dispatch(choice, rev, apply), runs' \in 0 .. MaxRuns
  PROVE  Inv'
<1>1. run' \in Run
  BY DEF Dispatch, Run, Inv, TypeOK
<1>2. QED
  BY <1>1 DEF Dispatch, Inv, TypeOK, HoldsItsDigest, AsPlanned, Planned

LEMMA StepInv ==
  ASSUME Inv, Step PROVE Inv'
<1> USE DEF Inv, TypeOK
<1>1. CASE PlanBaseline
  <2>1. Uniform(Pinned[run.rev], "inactive") \in Config
    BY UniformType, PackagesAssumption DEF Run, Envs
  <2>2. base' \in Plan
    BY <1>1, <2>1, PlanForType DEF PlanBaseline
  <2>3. QED
    BY <1>1, <2>2 DEF PlanBaseline, HoldsItsDigest, AsPlanned, Planned
<1>2. CASE Capture
  BY <1>2 DEF Capture, HoldsItsDigest, AsPlanned, Planned
<1>3. CASE SavePlan
  <2>1. plan' \in Plan /\ plan'.before = live
    BY <1>3, PlanForType, TargetType DEF SavePlan, PlanFor
  <2>2. AsPlanned'
    BY <1>3, <2>1 DEF SavePlan, AsPlanned
  <2>3. QED
    BY <1>3, <2>1, <2>2 DEF SavePlan, HoldsItsDigest
<1>4. CASE Publish
  BY <1>4, EndedInv, DigestType DEF Publish
<1>5. CASE Verify
  <2>1. AsPlanned'
    <3>1. CASE run.choice.kind = "preserved"
      BY <1>5, <3>1 DEF Verify, AsPlanned, AuthorizedToApply, Capturable, review, ReviewPreserved
    <3>2. CASE run.choice.kind # "preserved"
      BY <1>5, <3>2 DEF Verify, AsPlanned, Planned
    <3>3. QED
      BY <3>1, <3>2
  <2>2. HoldsItsDigest'
    BY <1>5 DEF Verify, HoldsItsDigest, AuthorizedToApply, reviewedPlanDigest, review,
       ReviewTransition, ReviewCandidate3, ReviewPreserved, Changes, NewVersion
  <2>3. QED
    BY <1>5, <2>1, <2>2 DEF Verify
<1>6. CASE StartApply
  <2>1. HoldsItsDigest'
    BY <1>6 DEF StartApply, HoldsItsDigest, reviewedPlanDigest, review,
       ReviewTransition, ReviewCandidate3, ReviewPreserved, Changes, NewVersion
  <2>2. QED
    BY <1>6, <2>1 DEF StartApply, AsPlanned, Planned
<1>7. ASSUME NEW u \in Units, NEW part \in {"function", "alias"}, Update(u, part) PROVE Inv'
  <2>1. PICK newest \in BOOLEAN :
          live' = [live EXCEPT ![u] =
            [code |-> IF part = "function" /\ plan.before[u].code # plan.after[u].code
                      THEN plan.after[u].code ELSE @.code,
             env |-> IF part = "function" /\ plan.before[u].env # plan.after[u].env
                     THEN plan.after[u].env ELSE @.env,
             served |-> newest]]
    BY <1>7 DEF Update
  <2>2. plan.after[u] \in [code : Codes, env : Envs, served : BOOLEAN]
    BY DEF Plan, Config
  <2>3. live' \in Config
    BY <2>1, <2>2 DEF Config
  <2>4. done' \in SUBSET Addresses
    BY <1>7 DEF Update, Addresses
  <2>5. AsPlanned'
    BY <1>7, <2>1 DEF Update, AsPlanned, Planned, Config
  <2>6. HoldsItsDigest'
    BY <1>7 DEF Update, HoldsItsDigest, reviewedPlanDigest, review,
       ReviewTransition, ReviewCandidate3, ReviewPreserved, Changes, NewVersion
  <2>7. QED
    BY <1>7, <2>3, <2>4, <2>5, <2>6 DEF Update
<1>8. CASE FinishApply
  BY <1>8, PersistedType DEF FinishApply, HoldsItsDigest, AsPlanned, Planned
<1>9. CASE CheckDeployed
  BY <1>9, EndedInv DEF CheckDeployed
<1>10. CASE Reject
  BY <1>10, EndedInv DEF Reject
<1>11. QED
  BY <1>1, <1>2, <1>3, <1>4, <1>5, <1>6, <1>7, <1>8, <1>9, <1>10 DEF Step

LEMMA NextInv ==
  ASSUME Inv, Next PROVE Inv'
<1> USE DEF Inv, TypeOK
<1>1. CASE DispatchAny
  <2>1. runs' \in 0 .. MaxRuns
    BY <1>1, BoundsAssumption DEF DispatchAny
  <2>2. QED
    BY <1>1, <2>1, DispatchInv DEF DispatchAny
<1>2. CASE PlanRepair
  <2>1. Repair \in Choices
    BY DEF Repair, Choices
  <2>2. QED
    BY <1>2, <2>1, DispatchInv DEF PlanRepair
<1>3. CASE ApplyRepair
  <2>1. Repair \in Choices /\ approved.rev \in Revisions
    BY <1>3 DEF Repair, Choices, ApplyRepair, Digest
  <2>2. QED
    BY <1>3, <2>1, DispatchInv DEF ApplyRepair
<1>4. CASE Step
  BY <1>4, StepInv
<1>5. CASE ApplyFails
  BY <1>5, EndedInv, PersistedType, TroubleType DEF ApplyFails
<1>6. CASE RunnerDies
  <2>1. recorded' \in Config
    BY <1>6, PersistedType DEF RunnerDies
  <2>2. locked' \in BOOLEAN
    BY <1>6, Zenon DEF RunnerDies
  <2>3. QED
    BY <1>6, <2>1, <2>2, EndedInv, TroubleType DEF RunnerDies
<1>7. CASE ForceUnlock
  <2>1. HoldsItsDigest'
    BY <1>7 DEF ForceUnlock, HoldsItsDigest, reviewedPlanDigest, review,
       ReviewTransition, ReviewCandidate3, ReviewPreserved, Changes, NewVersion
  <2>2. QED
    BY <1>7, <2>1 DEF ForceUnlock, AsPlanned
<1>8. CASE LocalApply
  <2>1. PICK rev \in Revisions : live' = Uniform(Pinned[rev], "inactive")
    BY <1>8 DEF LocalApply
  <2>2. live' \in Config
    BY <2>1, UniformType, PackagesAssumption DEF Envs
  <2>3. pc # "applying"
    BY <1>8 DEF LocalApply
  <2>4. HoldsItsDigest'
    BY <1>8 DEF LocalApply, HoldsItsDigest, reviewedPlanDigest, review,
       ReviewTransition, ReviewCandidate3, ReviewPreserved, Changes, NewVersion
  <2>5. AsPlanned' /\ current' \in BOOLEAN
    BY <1>8 DEF LocalApply, AsPlanned
  <2>6. QED
    BY <1>8, <2>2, <2>3, <2>4, <2>5, TroubleType DEF LocalApply
<1>9. CASE ChangeByHand
  <2>1. PICK u \in Units : \E value \in [code : Codes, env : Envs, served : BOOLEAN] :
          /\ live' = [live EXCEPT ![u] = value]
          /\ since' = IF pc = "idle" THEN {} ELSE since \union {u}
    BY <1>9 DEF ChangeByHand
  <2>2. live' \in Config /\ since' \in SUBSET Units
    BY <2>1 DEF Config
  <2>3. AsPlanned'
    BY <1>9, <2>1 DEF ChangeByHand, AsPlanned, Planned, Config
  <2>4. HoldsItsDigest'
    BY <1>9 DEF ChangeByHand, HoldsItsDigest, reviewedPlanDigest, review,
       ReviewTransition, ReviewCandidate3, ReviewPreserved, Changes, NewVersion
  <2>5. QED
    BY <1>9, <2>2, <2>3, <2>4, TroubleType DEF ChangeByHand
<1>10. QED
  BY <1>1, <1>2, <1>3, <1>4, <1>5, <1>6, <1>7, <1>8, <1>9 DEF Next

LEMMA StutterInv ==
  ASSUME Inv, UNCHANGED vars PROVE Inv'
BY DEF vars, Inv, TypeOK, HoldsItsDigest, AsPlanned, reviewedPlanDigest, review,
   ReviewTransition, ReviewCandidate3, ReviewPreserved, Changes, NewVersion

LEMMA InvAlways == Spec => []Inv
<1>1. Inv /\ [Next]_vars => Inv'
  BY NextInv, StutterInv
<1>2. QED
  BY <1>1, InitInv, PTL DEF Spec

-----------------------------------------------------------------------------
\* The only step of an apply that changes a function is Update.
LEMMA OverwritesUpdates ==
  ASSUME Inv, [Next]_vars, NEW u \in Units, NEW field \in {"code", "env"}, Overwrites(u, field)
  PROVE  \E part \in {"function", "alias"} : Update(u, part)
<1> USE DEF Overwrites
<1>1. live' # live /\ done' # done /\ pc = "applying"
  OBVIOUS
<1>2. Next
  BY <1>1 DEF vars
<1>3. Step
  BY <1>1, <1>2 DEF Next, DispatchAny, PlanRepair, ApplyRepair, Dispatch, ApplyFails, RunnerDies,
     ForceUnlock, LocalApply, ChangeByHand
<1>4. PICK v \in Units, part \in {"function", "alias"} : Update(v, part)
  BY <1>1, <1>3 DEF Step, PlanBaseline, Capture, SavePlan, Publish, Verify, StartApply, FinishApply,
     CheckDeployed, Reject
<1>5. v = u
  BY <1>4 DEF Update, Inv, TypeOK, Config
<1>6. QED
  BY <1>4, <1>5

\* An update writes the planned field over the planned one.
LEMMA UpdatesAsPlanned ==
  ASSUME Inv, NEW u \in Units, NEW part \in {"function", "alias"}, Update(u, part),
         NEW field \in {"code", "env"}, live'[u][field] # live[u][field]
  PROVE  /\ live'[u][field] = plan.after[u][field]
         /\ plan.before[u][field] # plan.after[u][field]
         /\ u \notin since => live[u][field] = plan.before[u][field]
<1>1. PICK newest \in BOOLEAN :
        live' = [live EXCEPT ![u] =
          [code |-> IF part = "function" /\ plan.before[u].code # plan.after[u].code
                    THEN plan.after[u].code ELSE @.code,
           env |-> IF part = "function" /\ plan.before[u].env # plan.after[u].env
                   THEN plan.after[u].env ELSE @.env,
           served |-> newest]]
  BY DEF Update
<1>2. u \in DOMAIN live
  BY DEF Inv, TypeOK, Config
<1>3. CASE field = "code"
  <2>1. part = "function" /\ plan.before[u].code # plan.after[u].code /\ live'[u].code = plan.after[u].code
    BY <1>1, <1>2, <1>3
  <2>2. <<u, "function">> \notin done /\ pc = "applying"
    BY <2>1 DEF Update
  <2>3. u \notin since => live[u].code = plan.before[u].code
    BY <2>2 DEF Inv, AsPlanned, Planned
  <2>4. QED
    BY <1>3, <2>1, <2>3
<1>4. CASE field = "env"
  <2>1. part = "function" /\ plan.before[u].env # plan.after[u].env /\ live'[u].env = plan.after[u].env
    BY <1>1, <1>2, <1>4
  <2>2. <<u, "function">> \notin done /\ pc = "applying"
    BY <2>1 DEF Update
  <2>3. u \notin since => live[u].env = plan.before[u].env
    BY <2>2 DEF Inv, AsPlanned, Planned
  <2>4. QED
    BY <1>4, <2>1, <2>3
<1>5. QED
  BY <1>3, <1>4

\* Whatever a run writes, the digest that the reviewer approved names it and
\* what it replaces, but for functions changed by hand since the last look.
THEOREM AppliesWhatWasReviewed == Spec => ReviewedOverwrites
<1>1. ASSUME Inv, [Next]_vars, NEW u \in Units, NEW field \in {"code", "env"}, Overwrites(u, field)
      PROVE  /\ run.digest # None
             /\ live'[u][field] = run.digest.plan.after[u][field]
             /\ u \notin since => live[u][field] = run.digest.plan.before[u][field]
  <2>1. PICK part \in {"function", "alias"} : Update(u, part)
    BY <1>1, OverwritesUpdates
  <2>2. run.digest = reviewedPlanDigest
    BY <1>1 DEF Overwrites, Inv, HoldsItsDigest
  <2>3. run.digest.plan = plan /\ DOMAIN run.digest = {"choice", "rev", "plan"}
    BY <2>2 DEF reviewedPlanDigest
  <2>4. DOMAIN None = {"choice"}
    BY DEF None
  <2>5. run.digest # None
    BY <2>3, <2>4
  <2>6. QED
    BY <1>1, <2>1, <2>3, <2>5, UpdatesAsPlanned DEF Overwrites
<1>2. Inv /\ [Next]_vars =>
        [\A u \in Units, field \in {"code", "env"} : Overwrites(u, field) =>
           /\ run.digest # None
           /\ live'[u][field] = run.digest.plan.after[u][field]
           /\ u \notin since => live[u][field] = run.digest.plan.before[u][field]]_vars
  BY <1>1
<1>3. QED
  BY <1>2, InvAlways, PTL DEF Spec, ReviewedOverwrites

\* A run that installs a package leaves every gate where it is.
THEOREM InstallingKeepsGates == Spec => PreservedKeepsGates
<1>1. ASSUME Inv, [Next]_vars, NEW u \in Units, Overwrites(u, "env")
      PROVE  run.choice.kind # "preserved"
  <2>1. PICK part \in {"function", "alias"} : Update(u, part)
    BY <1>1, OverwritesUpdates
  <2>2. plan.before[u].env # plan.after[u].env
    BY <1>1, <2>1, UpdatesAsPlanned DEF Overwrites
  <2>3. review
    BY <1>1 DEF Overwrites, Inv, HoldsItsDigest
  <2>4. QED
    BY <2>2, <2>3 DEF review, ReviewPreserved
<1>2. Inv /\ [Next]_vars =>
        [\A u \in Units : Overwrites(u, "env") => run.choice.kind # "preserved"]_vars
  BY <1>1
<1>3. QED
  BY <1>2, InvAlways, PTL DEF Spec, PreservedKeepsGates

\* The variables of a run keep their types, however many runs and failures.
THEOREM RunsAreTyped == Spec => []TypeOK
<1>1. Inv => TypeOK
  BY DEF Inv
<1>2. QED
  BY <1>1, InvAlways, PTL
=============================================================================

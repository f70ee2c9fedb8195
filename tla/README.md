# A verification of TrustCheckRadar Cloud Infrastructure

The repository holds no server of its own. It declares AWS resources with
Terraform, and around them it keeps the programs that change a live system by
hand or by workflow: operators that make a key, a baseline or a keyring once and
for all, disposable fixtures that must be removed whatever happens, and
workflows that apply only what a person has reviewed. Each is a short sequential
script, and each is exposed to the same things: it can be killed between any two
of its lines, the answer to a call can be lost while the call is executed, now or
after the script has given up, and somebody else acts at the same time. That is
what the modules here are about. The Lambda functions behind the resources are
built elsewhere and appear only as environment.

Contents: [inventory](#inventory), [modules](#modules), [runs](#runs-and-bounds),
[fairness](#fairness), [proofs](#proofs), [findings](#findings),
[what is not modelled](#what-is-not-modelled), [plan](#plan).

## Inventory

| Component | Code | State it keeps | What is hard |
|---|---|---|---|
| Period key operator | `scripts/provision_campaign_period_key.py` | plan file, journal, `.pending` temporary; KMS keys and tags | keys have no name, a create must not be repeated, recovery by discovery |
| Period-work bootstrap | `scripts/bootstrap_campaign_period_work.py` | plan, approval, intent journal, result; the pipeline table | a scan that is not a snapshot, absence cannot be a condition, draining of writers |
| Period-work IAM executor | `scripts/execute_campaign_period_work_iam.py` | journal with one entry per resource; tables, roles | late creations, evidence of absence, repeated clean-up |
| Permission qualifications | `scripts/qualify_campaign_{writer,producer,completion,recovery,period_work}_iam.py` | names in memory, a report; tables, roles with policies | the same without a journal; the role that is exercised must decide as the live one |
| Export-cursor initialisation | `scripts/initialize_export_cursor.py` | versions and stage labels of a secret | check-then-put race, late requests |
| Campaign fixtures | `scripts/campaign_*_fixture.py` | JSON journals; tables, key, pool with user, role, function | keys and pools without names, a journal rewritten in place |
| Re-registration fixture | `scripts/prepare_account_reregistration_fixture.py` | exclusive journal; a user | a creation whose answer is lost |
| Message-consumer changes | `deploy.yml`, `governed-history-dev.yml`, `scripts/verify_message_consumer_transition.py`, `verify_candidate3_rules_plan.py`, `*_preserved_deployment.py` | Terraform state and lock, saved plan, approved digest | staleness between review and apply, partial applies |
| Billing releases | `billing-dev.yml`, `billing-cleanup-dev.yml`, `scripts/*billing*.py` | as above; who is admitted by which function | two stacks that must agree, each released alone |
| Authority releases | jobs of `deploy.yml`, `governed-history-dev.yml`, `access-snapshot-dev.yml`, `complimentary-operator-release.yml` | as above; subjects, read-only account, packages | six kinds of run over one function, tfvars that lag |
| Governed-history releases | `governed-history-dev.yml` and its scripts | as above; index, reader and its role | the scopes depend on each other; drift that must be admitted |
| Api releases | `analysis-retirement-dev.yml`, research jobs of `deploy.yml`, the ordinary step | as above | all-or-nothing reviews over a half-applied change |
| Ordinary deployment | `deploy.yml` job `deploy` | eight Terraform states | order, abort in the middle, rollback in the same order |
| Resolver, inventory-access, message releases | their workflows | one stack each | - |
| User-pool update | `terraform/identity-workflows/scripts/update_user_pool_lambda_config.py` | the user pool | read-modify-write |
| Audits, plan helpers, guardrails | `scripts/audit_*`, `summarize_*`, ... | none | - |
| Terraform stacks, policy website, CI | `terraform/`, `bootstrap/`, `website/` | declarations | - |

How they meet. The key operator makes the key that the period registry row later
names; the registry initialiser writes that row and is outside this repository,
so it is an environment action of `PeriodKey`. The bootstrap runs while the
writer functions of the campaign stacks are closed; their closing and opening are
deployments and console actions, the environment of `PeriodWorkBootstrap`. The
three workflow jobs that change the message consumer share one concurrency group,
one Terraform state with one lock, and one reviewer, and are one module. All Dev
releases share that group and look at each other's functions before they apply;
`DevRelease` composes them. The period-work qualification prepares the policies
that the period-work executor gives to its roles.
`scripts/terraform.sh` on somebody's machine shares the state and the lock but not
the group. The journals are not shared: each script has its own, and each is meant
to be worked on by one operator at a time.

For each component, correctness means:

- **Key operator**: at most one request under a journal; whatever was sent is on
  disk first; a journal is never stranded, never moves to another key, and
  journals verified for one period name one key; a key that was made is found
  again.
- **Bootstrap**: the committed inventory has every row of the table; no second
  baseline; writers have drained before the transaction.
- **Executor**: nothing it made is forgotten; "complete" means gone for good; what
  it made is removed.
- **Campaign fixtures**: whatever exists is in a readable journal; a finished
  clean-up leaves neither key nor pool; clean-up stops for good only where a person
  has to decide; the code under test is invoked at most once.
- **Export cursor**: the current keyring is set once; repeated attempts make no
  second one; what a failed attempt left is recognisable.
- **Qualifications**: the fixture role decides about the copies as the live role
  about the tables; a clean-up that reports success left nothing.
- **Releases**: what is applied is what was approved, over what was reviewed; success
  means that it is deployed; nobody is billed whom deletion does not cover; stale
  tfvars take nothing away; a reader begins over an index; a half-applied retirement
  is not built upon; no grant slips in behind the drift
  that a review admits.
- **Message-consumer changes**: what is applied is what was reviewed, over what was
  reviewed; installing a package opens no gate; a half-applied change can be
  finished by reviewed runs alone.

## Modules

`WriteAhead` is the abstract specification that the journals implement: an
intent is durable before the call, the call is made at most once and only under
its intent, an outcome is recorded once. `SetOnce` is the abstract specification
of an initialisation that must not replace what is there.

| Module | Models | Implements |
|---|---|---|
| `PeriodKey` (`MCPeriodKey`, `PeriodKeyProofs`) | the key operator, KMS, the registry | `WriteAhead` |
| `PeriodWorkBootstrap` (`MCPeriodWorkBootstrap`, `PeriodWorkBootstrapProofs`) | the bootstrap, the writer fleet, DynamoDB | `WriteAhead` |
| `WorkFixture` (`WorkFixtureProofs`) | the IAM executor with its clean-up runs | `WriteAhead` |
| `CampaignFixture` (`CampaignFixtureProofs`) | the completion (with and without Cognito), retirement and lifecycle fixtures | `WriteAhead` (the two whose journal is renamed) |
| `PolicyProjection` | what the qualifications keep of a role's policies | |
| `QualificationHarness` (`MCQualificationHarness`, `QualificationHarnessProofs`) | the qualifications that create fixtures | |
| `ExportCursor` (`ExportCursorProofs`) | the export-cursor initialisation | `SetOnce` |
| `ReviewedApply` (`MCReviewedApply`, `ReviewedApplyProofs`) | reviewed changes of the message consumer | |
| `Release` | plans, changes and drift, shared by the next four | |
| `PlayRelease`, `AuthorityRelease`, `HistoryRelease`, `ApiRelease` | the units, targets, reviews and read-backs of each group of releases, as operators | |
| `DevRelease` (`MCDevRelease`, `DevReleaseProofs`) | the releases at work: runs, digests, applies, hands, merges | |

Conventions. A process is a control point `pc` and the values it holds in memory;
a crash resets the control point and leaves files and requests. A request that
another party executes is first put in flight and executed, lost or answered by
separate actions, so that its sender may be gone by then. A check that raises has
one action for all of its reasons (`Raise`, `Stop`, `Reject`), whose guard is the
negation of the checks where the difference matters. Variables marked *history*
appear in properties only. Definitions commented as mutants are the code with a
plausible mistake; nothing uses them except the sensitivity checks that
`PROJECT.json` lists, each of which breaks the property it is listed for.

### PeriodKey

A journal `j` is a reviewed plan with the journal file it is applied under and the
process that works on them. Keys are numbered in order of creation; the complete
listing `discover()` obtains is a prefix of them, examined one by one while keys
may still change. `disk` is the journal file, `Missing` or `Torn` until
`fresh_journal` is written; `pending` is the `.pending` temporary of
`save_journal`, which every later run refuses. The control points follow
`apply()`: `fresh`, `check` (registry), `list` and `examine` (discovery), `create`,
`await`, `final`; `save` and `replace` are the two halves of a save, and `after`
says where it returns. `CreateRaises` is the `except` clause of lines 167-172,
which also covers a save that fails after the response. A clock check is part of
the request or the save it stands next to.

Abstracted: the four tags and the description are "the tags of period p"; STS,
region and deadline checks are refusals without conditions of their own; a
deadline is a `Crash`.

### PeriodWorkBootstrap

A plan is one planner run and its file, an attempt one apply and its journal path.
`capture()` is read step by step: resources, each writer (`ReadWriter`), each page
(`ReadPage`), within a read budget. After `WriteIntent` the boundary is read again
(`stage = "final"`), and `Send` puts the transaction in flight; `Commit` checks
its conditions, `Cancel` loses it. The table is a set of rows with a marker;
`Conditions` says what the transaction can condition, rows that were seen and the
absence of the marker. The fleet is the environment: functions are invoked while
open, run for at most `TIMEOUT`, write rows, and are opened, closed or deployed;
`Ungated` is `campaign_review`, which has no gate in its configuration. `trusted`
and `late` record which reopenings no reread could notice, and so what a committed
inventory may lack. `Boundaries` says which of the runbook's promises a behaviour may
keep (`boundary`, chosen at the start): that privileged work is serialized, or
nothing; `ClosedFirst` is the promise that writers are paused before planning.

### WorkFixture

Resource `i` is the i-th created, tables before roles, removed backwards. The
journal has four facts per resource; `Evidence` is line 174, on which accepting
"not found" rests. `Load` is a `--cleanup-only` process; processes work on a journal
one at a time, as the documentation asks and nothing enforces. `Adopt` is somebody
attaching a policy to a role, which must then be left alone.

### PolicyProjection and QualificationHarness

A policy is a set of statements, and a statement is what IAM makes of it: effect,
actions, resources, the partitions that a `LeadingKeys` condition admits, whether it
wants a transaction or no return values, and `more` for any other condition. The
scripts keep those about the tables they copy in one of two ways. `project` of the
period-work script cuts each statement of every planned source to the two tables,
where a `Deny` on `*` counts for both, and refuses what it cannot bound. The other
four know every statement in advance: `validate_policy` (writer) admits these and no
other statement about tables, `project_policy` (producer) classifies every resource,
`load_union` (completion, recovery) adds a candidate to the installed ones. `synthetic`
writes the copies' names over the live ones. `Authorized` is IAM: an `Allow` and no
`Deny`. An action is a value and has no spelling: IAM compares action names without
regard to case, the script asks `startswith('dynamodb:')`
(`qualify_campaign_period_work_iam.py` 184), and the model knows only the spelling that
the planned policies have.

`QualificationHarness` is `qualify()`: `kind` says whose validation was passed,
`policy` what the plan and audit hold, `granted` what each role of the fixture has.
It is the older shape of `WorkFixture`, without journal or evidence: names are kept
in memory and "not found" counts as removed. `Covered` is what a harness answers for.
The writer's report is about the policies of its plan; the other four bind every
source of the role, though at the time of the audit.

### CampaignFixture

`fixture` says which of the four fixtures the behaviour is about; `Creation` and
`Removal` are its orders, and `at` is the place in them. Tables, role and function
are found under their names whether the journal lists them or not; `attempted` and
`known` are what it says of the pool and the key, which only AWS can name
(`keyCreateAttempted`, `keyArn`). `Save` is `durable_journal`, one atomic step, or,
`InPlace`, the `save()` of the completion fixture, which leaves the file `Torn`
until `Written`. `StartCleanup` has the gate of the period fixtures, which refuse
while a key is asked for and unidentified; the completion fixture goes on and looks
for it by its tags at the end (`Identify`, `Ambiguous`), after the tables. `Refuse`
is every check that raises, and a creation that is not answered in time; a request
may still be executed after that. `RecoverByHand` is the operator whom the
comment at line 197 of the retirement fixture sends to find the key. Two tables stand for two,
five or more; the user of the pool lives and dies with it; reading back keys, tags
and backups after a creation only adds ways to raise.

### ExportCursor

An attempt is one execution of `initialize()`; its version and its `INIT_` label
bear its name. Secrets Manager executes puts and promotions at any time after
they are sent; the first version may become current unasked; a label that another
version holds moves only when `RemoveFromVersionId` names the holder, which the
code never does.

### ReviewedApply

A unit is one of the two functions with its alias: package, gates, and whether the
alias serves the newest version. A run goes `selected`, (`based`, `captured` for
the preserved job), `planned`, `verified`, `applying`, `applied`. `PlanFor` is a
refreshing plan: it starts from what is live and lists as drift what differs from
the state. `review` is the verifier of the run's kind; `Publish` shows the digest
and the reviewer may approve it; `Verify` compares the digest and, in the
preserved job, reads AWS again. `Update` sends one function or alias at a time and
only the fields that the plan changes. `ApplyFails`, `RunnerDies`, `LocalApply` and
`ChangeByHand` are what goes wrong; `PlanRepair` and `ApplyRepair` dispatch the
candidate workflow in its inactive mode, the one verifier that accepts any part of
the transition's addresses.

### DevRelease and its four groups

A unit is what one Terraform resource is set to, or a function with its alias:
`live` in AWS and `recorded` in the state. Four `world`s stand for four groups of
stacks (billing, authority, governed history, api) whose releases look at each other's
units and at no other group's. `Dispatch` is a workflow run with its inputs and what
it prepares; `SavePlan` plans from `live` and lists as drift what differs from
`recorded`; `Publish` and `Refuse` are its end when it only plans, `Authorize` the
comparison with the digest approved last and everything that is read again before
the apply; `ApplyUnit` follows the dependencies of the stack; `Finish` reads back and
plans again. `ApplyFails`, `ByHand` (in AWS, behind the state), `Restamp` (AWS renews a
computed field) and `Merge` (the branch takes up what is deployed, or pins something
new) come in between, and so does `scripts/terraform.sh apply` on a stack without a
saved plan: it refreshes, so `LocalApply` changes a unit and records the whole stack
as it is live, and `LocalRefresh` finds nothing to change and only records. The
reader's stack is not among the script's and has neither. A refused run leaves nothing
behind.

The group modules hold what differs by kind of run, under the scripts' names:
`Prepared`, `Target` (what the run's variables and the committed tfvars ask for),
`review` with the drift that it admits, `Ready` and `Readback`. Abstracted: whatever
the scripts pin to one value that no run can choose (roles, memory, catalogues,
artifact fields), and the order in which they compare fields. The role policy of the
billing worker and the package overrides of ingress and worker
(`verify_billing_dev_plan.py` 109-110, 151-166) are no units either, so the model lets
a clean-up or lifecycle run through that the scripts would refuse; it has more
behaviours for that, not fewer. A clean-up reads back only the deletion
(`verify_billing_cleanup_dev_readback.py` 52-73); that the rest is as planned is for the
second plan to find.

What the model shows beside its properties, for whoever works on these releases:

- The token-storage audit gates inactive billing applies too, but the deletion
  prerequisite is skipped for them. A lifecycle review refuses any drift, so a restamped
  deletion mapping blocks it until a clean-up apply has refreshed the state; clean-up
  planning in turn refuses while lifecycle billing is active. Nothing stops a later
  handoff run from going inactive, or to another subject, while the lifecycle is active.
- The legacy trial and the operator run set the whole entitlements environment, without
  a look at what it was or at drift, and so may undo governed subjects, the read-only
  account and maintenance; `StaleTfvarsTakeNothing` excepts these two. After maintenance
  is active the access scope refuses until the tfvars say so.
- The index may be made inactive while a reader is active: `BeginsOverIndex` is about
  beginnings. The reader's index is read when the run is prepared and not again.
- A half-applied retirement cannot be finished by any workflow
  (`HalfAppliedNeedsAHand`), a new analysis package cannot be installed once retirement
  is selected, and an ordinary api deployment absorbs a foreign grant on the analysis
  role into the state, after which it is no drift any more.
- A local apply of play-verification takes a policy that somebody attached to the
  handoff role into the state. The next handoff plan has no drift on it,
  `declared_handoff_policy_mirror` returns at once (`verify_billing_dev_plan.py`
  24-26), and the handoff is released over it. `NoForeignGrant` therefore states what
  does hold: as long as no local apply has done so the plan shows the policy, and no
  reviewed handoff takes it into the state.
- The research drift check plans without the overlay that its apply may have used; no
  overlay is committed, so the two plans are the same at present.

## Runs and bounds

Every action, and every disjunct of every next-state relation, occurs in some
passing run. `CHECK_DEADLOCK FALSE` is given everywhere because every component
ends: scripts finish, attempts, clocks and disturbances are bounded.

| Run | Instance | Shows |
|---|---|---|
| `period_key_race` | two journals, one kill, no clock | `OneCreatePerJournal`, `JournalsValid`, `VerifiedAgree` with racing operators, `SerializedUnique` without |
| `period_key_outside` | one journal, an outside key, keys spoiled, a roll-over, KMS clock one unit behind | `TypeOK`, `ClaimIsPlausible`, `BindingStable` |
| `period_key_recovery` | one journal, two kills, a roll-over | `AttemptIsDurable`, `ImplementsWriteAhead`, and under fairness `RecoveryCompletes` |
| `bootstrap` | one plan, two attempts, two rows, a gated and an ungated writer; the boundary kept, or broken by deployments and a restore | `MissedIsExcused` (nothing is missed within the boundary, and otherwise only what no reread could notice), `BaselineIsFinal`, `ImplementsWriteAhead` |
| `bootstrap_drain` | writers paused at any time before the capture looks | `DrainedBeforeSend` is violated (a finding) |
| `fixture` | two tables, one role, a runner and a cleaner, two kills | the five properties of `WorkFixture` |
| `campaign_fixture` | the four fixtures, three kills or errors, any number of refused, late or unanswered creations | the five properties of `CampaignFixture` |
| `harness_answered` | two tables, one role, no response lost; five hundred pairs of policies under each of four validations | `CompleteWhenAnswered`, `FixtureDecidesAsLive` |
| `harness_lost` | the same, a response may be lost | `LostCreatesAreCleaned` is violated (a finding) |
| `cursor_race` | three attempts | the three properties of `ExportCursor` |
| `reviewed_apply` | two packages, two selected runs of any kind, any number of repair runs, one disturbance | the three properties of `ReviewedApply` |
| `dev_release` | four groups of stacks, each under up to four runs of every kind, one trouble | the nine properties of `DevRelease` |

Why the bounds are enough to mean something:

- Two journals, one kill and one lost answer are the least that make two operators
  see different listings; with one period there is nothing to tell two apart, so
  time stands still there, and the run with time has one journal and an outside
  creator in place of the second. A period is three ticks and the grace one, so a
  key can be inside and outside the grace within one period.
- `TIMEOUT = MARGIN = 1` with the budget between them keeps the order that the
  code's 120 s, 60 s and 30 s have against a drain interval; `bootstrap_drain`
  doubles all of them to let an invocation outlive the interval by less than the
  capture took. Two rows, one expected and one not, are a row that is seen and one
  that slips in; a second row of either kind behaves alike.
  With the boundary two attempts run, and as they are alike `a1` begins first;
  without it one attempt, under an approval that does not run out, is enough for
  a change to slip past.
- Two tables and one role give a clean-up something before, at and after the
  resource where a run stopped. Two kills are one in the creation and one in the
  clean-up of what it left.
- The campaign fixtures have every resource whose handling differs and a second
  table to be waiting behind the first. Three kills are one in creation, one in a
  clean-up and one in its repetition; `Adopt` and late executions need no kill.
- Three attempts are two that race and one that comes afterwards.
- A selected run that is reviewed and a second that applies; a disturbance between
  any two of their steps. Two packages distinguish the pinned one from the
  installed one.

- The policies of `harness_answered` are made of every kind of statement that the
  validations tell apart: expected ones, a `Deny` on everything, on a mixture and on a
  condition, mixed actions, an `Allow` on everything, another table, another service,
  an unknown condition; singly, in pairs within a policy, and across candidate and
  installed. One role is enough: roles share nothing but the list of names.
- Four runs of a world are a reviewed and applied one, and another one that was reviewed
  before, between or after; the last run of a behaviour is an apply, since a review
  without an apply changes nothing. Three accounts under a limit of two, of which
  none is special, are one too many. The one trouble is a hand, a local apply that
  changes something, a failed apply or a restamp, anywhere. A local apply that only
  refreshes is no trouble: it follows from one, and after it there is nothing left to
  refresh. A hand changes one field of a record and cannot restore a
  published version, which AWS numbers anew.

`MaxTime`, `MaxCrashes`, `MaxOutsideKeys`, `MaxWrites`, `MaxDeploys`,
`MaxRestores`, `MaxRuns` and `MaxTroubles` are the bounds; each is a guard of the
action it bounds.

Assumed of AWS and Terraform, since the code relies on it: a KMS listing that
completes contains every key that existed when it began; DynamoDB reads are strong
and its transactions atomic; a read-back of IAM sees the present state;
`UpdateSecretVersionStage` without a source never takes a label from a version; a
saved plan is refused after the state has changed; the provider updates the fields
a plan changes. `VerifiedAgree` and `SerializedUnique` further assume that nobody
strips the tags of a campaign key (`Spoils` without `"other"`), which
`period_key_outside` does not assume.

## Fairness

Only six properties need it.

- `PeriodKey.RecoveryCompletes`: a running process goes on (`WF` of `Step`), and an
  interrupted apply is run again (`WF` of `StartApply`), which is what the runbook
  tells the operator to do. Nothing makes KMS execute a request.
- `WorkFixture.RemovedEventually`, `CleanupCompletes`: a process goes on and a
  clean-up is repeated, as its `cleanupComplete: false` asks; DynamoDB finishes
  deletions; and, strongly, a delete or a read-back that is tried over and over is
  answered at last, because AWS errors are not permanent. No creation is assumed to
  be executed.
- `CampaignFixture.CleanupCompletes`, `TablesAreRemoved`: a process goes on, an
  unfinished clean-up is repeated, as the message of a failed run asks
  (`cleanupRequired`), an operator writes a recoverable key into the journal,
  deletions finish, and a request does not stay in flight for ever. It may be lost:
  nothing makes AWS execute a creation.
- `ReviewedApply.HalfAppliedIsRepaired`: runs go on, a lock without owner is removed,
  and operators keep dispatching the repair and approving it. The latter are strong
  because other runs come in between; the disturbances are bounded. The property
  excuses a state that differs from AWS while nothing is applying (`OutOfStep`, after a
  hand or a killed runner): the repair's own review refuses that drift. What differs
  while an apply is under way excuses nothing, so an apply that ends half-done over a
  correct state has to be followed by one that does not.

## Proofs

TLAPS proves for every value of the constants what TLC checks on the instances
above: every invariant, every action property and every refinement that a passing
run lists. Eight modules hold theorems, one beside each module with a behaviour. In
each the argument is an inductive invariant `Inv` of named parts that TLC has checked
too; a part is there because some property cannot be carried from one step to the
next without it.

`PeriodKeyProofs`: `TypeCorrect`, `OneCreate`, `NoJournalIsStranded`,
`KeyIsNeverReplaced`, `NoTwoVerifiedKeys`, `JournalIsWriteAhead`, `AttemptsAreDurable`,
`ClaimsArePlausible`, `SerializedKeysAreUnique`. The invariant ties
the control point to the document in memory, the document to the file, and the
file to the requests: a process at `create` has its attempt on disk and no request
made; the document in memory is the file's or the file's successor; a request
count above zero means that an attempt is on disk. None of the properties is
inductive without this, since each speaks of the file while the steps speak of the
memory. `NoTwoVerifiedKeys` needs one thing more: a process past its last
discovery has seen every key up to its horizon and found its own the only tagged
one, so every verified key is the first tagged key of its period, a fact that
survives as long as tags are not removed. That is why it holds without any
assumption on serialization. The other three add what the world of KMS knows of a
journal: a request under way, and a key made by one, have their attempt recorded
(`RequestsInv`); a key in a document was tagged for the planned period no earlier than
the clocks allow, wherever the document has got to (`ClaimsInv`); and, of operators
that never ran side by side, one at most is running, its listing holds every
acknowledged key, and if it decided to create, then none of these has its period
(`SerialInv`). The last part says what serializing buys: the listing that the decision
rests on is not out of date when the key is made.

`ExportCursorProofs`: `SparesStayLabelled`, `NoSecondKeyring`,
`CurrentKeyringIsSetOnce`. The invariant says where the version of an attempt is
for every control point, and, for attempts that do not overlap and leave no request
behind, that an attempt which is about to put found the secret empty.

`ReviewedApplyProofs`: `RunsAreTyped`, `AppliesWhatWasReviewed`,
`InstallingKeepsGates`. The invariant: a run past verification holds the digest of
the very plan it applies; every function nobody touched since the run last looked
is as the plan's starting point or, for the addresses done, as its target; and an
apply holds the lock on a state that has not moved.

`WorkFixtureProofs`: `NothingIsForgotten`, `CompleteIsGone`, `EntriesAreWriteAhead`,
`FixtureIsTyped`. The invariant: one process is at work and holds the journal of the
disk; the creation goes through the resources in order, those after the present one
being untouched; what the journal says of a resource is true of AWS (named if it exists
or may come to exist, not on its way once acknowledged, gone once absent); and a
clean-up that has left nothing outstanding has left nothing behind it. The third part is
what makes `Evidence` sufficient, the fourth what makes "complete" true at its end.

`CampaignFixtureProofs`: `CampaignFixtureIsTyped`, `NothingIsForgotten`, `RemovedIsGone`,
`FixtureJournalIsWriteAhead`. The same idea for a journal that may be torn. The document
that counts is the one in memory while a process works and the one on disk when none
does; while a journal is rewritten in place there is only the former (`Synced`).
Whichever it is speaks of every pool and key that exists or may come to exist
(`Journalled`); the creation and the removal go through their two orders, and what
the removal has passed is gone or was asked for before it and executed after
(`InOrder`, `Swept`). The refinement is for the fixtures whose journal is renamed, as
`ImplementsWriteAhead` says.

`PeriodWorkBootstrapProofs`: `BootstrapIsTyped`, `MissesAreExcused`,
`BaselineStaysFinal`, `PausingFirstDrains`, `AttemptsAreWriteAhead`. A commit compares a
table with rows read long before it, so the invariant accounts for every change since:
it is late (made by an invocation that was trusted, or by a restore after the marker
was read) or the second reading will still find it out, by a marker or a revision that
it has not read (`AttemptInv`). Every invocation that could make another change is
trusted or will be found out in the same way, because an attempt begins only `TIMEOUT + MARGIN` after its
plan and no invocation lives longer than `TIMEOUT` (`FleetInv`, `PlanInv`). With the
boundary of the runbook nothing is open and nothing changes (`BoundaryInv`), so that
`MissedIsExcused` leaves no excuse. `PausingFirstDrains` states the positive side of the
finding below: `DrainedBeforeSend` follows from `Spec` and `ClosedFirst`, writers paused
before a plan begins.

`QualificationHarnessProofs`: `AcceptedIsFaithful`, `ExercisedIsFaithful`,
`CleanupIsComplete`, `HarnessIsTyped`. The first is about policies only: for each of
the four validations, what is kept *stands for* the policy on the tables (it grants
and denies the same requests), and rewriting keeps that. The invariant then says that
roles exist for accepted policies only, and, when no answer is lost, that nothing is on
its way once the clean-up starts and that what exists is still to be visited or among
the failures.

`DevReleaseProofs`: `ReleasesAreTyped`, `WhatWasReviewedIsApplied`,
`WhatPassedIsDeployed`, `WhoeverIsBilledIsErasable`, `StaleTfvarsAreHarmless`,
`NoRunReplacesAnalysis`, `HalfAppliedIsLeftToAHand`, `ReadersBeginOverIndex`,
`NothingForeignIsReleasedOver`. The common part of the invariant follows a plan through
its apply (`PlanInv`): each unit of the stack is as planned if it is done, as the plan
saw it if not, or was changed by hand since; and what the plan is for is still what the
run asks for, since that depends on nothing that moves during an apply (`AskedStays`).
What is being applied has passed its review and is the digest approved (`ReviewInv`;
`ReviewStays` is why the snapshot taken in between does not matter). Each world adds
what its reviews are for, stated as lemmas about what a reviewed plan can contain
(`PlayPlan`, `ChangedIsUnnumbered`, `ApiPlan`, `ApiReviewed`):

- play (`PlayInv`): what the saved plan of a handoff found recorded for its role is
  what the state still has, since no local apply gets past the lock of a saved plan,
  and an apply of billing has its account covered as long as no hand is on the deletion,
  whose own runs only add accounts;
- history (`HistoryInv`): a run that needs the index has it for as long as it lasts,
  because only runs of other kinds and hands change it;
- api (`ApiInv`): an alias stands for a retirement complete but for its routes and serves
  the package of its function (`Consistent`). This survives any prefix of an apply, as
  the order of the resources is closed under it, and with it every review finds all of
  a retirement or nothing in its plan;
- authority needs no more than the common part: a run that changes the entitlements
  publishes a version that no record names, which is why "nothing left to plan" and "as
  approved" are the same in `WhatPassedIsDeployed`.

The assumptions are the named `ASSUME`s of the modules: what is known of names
being different, bounds being numbers, a fixture having a resource and a bootstrap a
plan, and `Spoils`, `Pinned` and `Gates` having
the right types. One is more than a type: `MarginAssumption`, that the 60 seconds which
`bootstrap_campaign_period_work.py` line 244 adds to the longest timeout are not zero,
without which an invocation may end at the instant an attempt begins. TLC evaluates all of
them in every run.

Only model-checked: the six liveness properties, `RecoveryCompletes`,
`RemovedEventually`, `CleanupCompletes` (of both fixtures), `TablesAreRemoved` and
`HalfAppliedIsRepaired`, since the fairness they need speaks of `ENABLED`, which the
prover does not handle. The two findings are refutations, which are TLC's to give.

## Findings

1. `bootstrap_drain`. `docs/CAMPAIGN-PERIOD-OPERATIONS.md` lines 29-31 requires "a
   drained interval of the maximum published function timeout plus 60 seconds". The
   code measures it from `observedAtEpoch`, taken before the capture has looked at
   the writers, a capture that may take 120 s. A function without gates that is
   paused while the capture runs can have an invocation that outlives the interval,
   and the transaction is sent beside it. When writers are paused before planning
   begins (`ClosedFirst`), the interval suffices, which `bootstrap` shows.
2. `harness_lost`. The comment in `scripts/qualify_campaign_writer_iam.py` line 384
   says that lost create responses still receive clean-up. "Not found" counts as
   removed there, so a creation executed after the clean-up looked stays behind a
   report of `cleanupComplete`. The later executor asks for evidence first (line
   174 there), and `fixture` shows that this is enough.

## What is not modelled

- Most of what a verifier compares. It is a long conjunction over one plan or read-back;
  the modules keep the fields that runs can differ in and that other components depend
  on, and leave out those that the script pins to one value.
- Six of the eight stacks of the ordinary deployment, and the order of the eight. The
  order exists because one Lambda package reads what another writes; those packages are
  built elsewhere, so that nothing in this repository says which order is right, and a
  model of it could only restate it. The steps of foundation and api, whose guards and
  targets are here, are runs of `DevRelease`.
- The resolver, inventory-access and message releases, and the message-ai mode of
  `deploy.yml`: one stack each, no other run to meet, and a control that is the one of
  `ReviewedApply`.
- The user-pool update, which reads, changes and writes back a record that offers no
  condition, and the re-registration fixture, whose user goes with its pool.
- The qualifications that only simulate policies or compare documents, and the profile
  one, which repeats the writer's fixture with one table.
- Eventual consistency of IAM, two processes saving one `WorkFixture` journal, and what
  else `PROJECT.json` lists under `hazards` with a note. Nothing in the code handles
  these; an assumption is made instead, and named above.
- The audits, plan helpers, the policy website and CI, which change no state, and
  the Lambda code, which is not here.

## Plan

The components that keep state are modelled, and what the runs check is proved but for
liveness. What is left, in order of what matters most:

1. The safety half of the liveness properties: that from every state in which a journal
   or a half-applied plan is left, the step that resumes it is not refused, and each
   resumed step shrinks what is left (a variant), as invariants and action properties.
2. `DevRelease` over `ReviewedApply`: that an apply of either is the same chain of plan,
   digest and approval, stated once as an abstract specification of a reviewed change
   that both implement.
3. The hazards that `PROJECT.json` lists with a note, where the code comes to handle
   them.

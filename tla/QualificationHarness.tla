------------------------ MODULE QualificationHarness -------------------------
(***************************************************************************)
(* qualify() of scripts/qualify_campaign_writer_iam.py: copies of the live *)
(* tables and up to four roles with the policies of live ones are created, *)
(* exercised and removed by one process, which keeps what it tried to      *)
(* create in memory only.  The producer, completion and recovery harnesses *)
(* do the same, and validate_plans of qualify_campaign_period_work_iam.py  *)
(* prepares the policies for an executor that does: kind says whose        *)
(* validation a role's policy went through (PolicyProjection).             *)
(*                                                                         *)
(* Resource i is the i-th to be created, the tables before the roles, and  *)
(* they are removed backwards.                                             *)
(***************************************************************************)
EXTENDS PolicyProjection, Naturals, FiniteSets

CONSTANTS Roles,        \* how many
          Lossy,        \* whether the response to a creation can be lost
          Specs, OldSpecs,  \* what the code expects of a candidate, of an installed policy
          Policies      \* what a live role may have: candidate, the rest installed

ASSUME CountsAssumption == IsFiniteSet(TABLES) /\ Roles \in Nat
ASSUME LossyAssumption == Lossy \in BOOLEAN

ASSUME SpecsAssumption == Specified(Specs) /\ Specified(OldSpecs)
ASSUME PoliciesAssumption ==
  Policies \subseteq [candidate : SUBSET Statement, installed : SUBSET Statement]

Tables == Cardinality(TABLES)
Last == Tables + Roles
Resources == 1 .. Last
Kinds == {"writer", "producer", "completion", "period_work"}


VARIABLES kind, policy,  \* the harness, and the plan and audit that it is given
          granted,   \* what the fixture policy of each role holds, if it has one
          made,      \* resources that exist
          fading,    \* tables that are being deleted
          inflight,  \* resources whose creation is requested, not executed
          adopted,   \* roles to which somebody attached a policy
          pc, at,    \* control point; the resource worked on
          tracked,   \* the names appended to tables and roles
          failures,  \* resources cleanup could not remove
          passed,    \* report["passed"]
          complete   \* report["cleanupComplete"]

given == <<kind, policy>>
aws == <<granted, made, fading, inflight, adopted>>
vars == <<kind, policy, granted, made, fading, inflight, adopted, pc, at, tracked, failures, passed, complete>>

\* What the harness answers for: the writer's its plan alone, the others' the whole role.
Covered == policy.candidate \union (IF kind = "writer" THEN {} ELSE policy.installed)
Accepted ==
  CASE kind = "writer" -> validate_policy(policy.candidate, Specs)
    [] kind = "producer" -> project_policy(policy.candidate, Specs) /\ Ancillary(policy.installed)
    [] kind = "completion" -> policy.candidate = Specs /\ project_policy(policy.installed, OldSpecs)
    [] kind = "period_work" -> Projectable(Covered)
fixture ==
  synthetic(CASE kind \in {"writer", "producer"} -> Specs
              [] kind = "completion" -> load_union(policy.candidate, policy.installed)
              [] kind = "period_work" -> project(Covered))

Init ==
  /\ kind \in Kinds /\ policy \in Policies /\ granted = <<>>
  /\ made = {} /\ fading = {} /\ inflight = {} /\ adopted = {}
  /\ pc = "validate" /\ at = 1
  /\ tracked = {} /\ failures = {} /\ passed = FALSE /\ complete = FALSE

\* Nothing is created for a policy that is refused.
Validate ==
  /\ pc = "validate"
  /\ pc' = IF Accepted THEN "create" ELSE "end"
  /\ UNCHANGED <<given, aws, at, tracked, failures, passed, complete>>

CleanUp == pc' = "remove" /\ at' = Last

\* The name is remembered, then the request is made.
Create ==
  /\ pc = "create" /\ at <= Last
  /\ tracked' = tracked \union {at}
  /\ inflight' = inflight \union {at}
  /\ pc' = "await"
  /\ UNCHANGED <<given, granted, made, fading, adopted, at, failures, passed, complete>>

\* The response, and the checks of what was created.
Created ==
  /\ pc = "await" /\ at \in made
  /\ IF at <= Tables THEN at' = at + 1 /\ pc' = "create" ELSE at' = at /\ pc' = "policy"
  /\ UNCHANGED <<given, aws, tracked, failures, passed, complete>>

\* The role gets its policy, which is read back.
PutPolicy ==
  /\ pc = "policy" /\ at \in made
  /\ granted' = [r \in DOMAIN granted \union {at} |-> IF r = at THEN fixture ELSE granted[r]]
  /\ pc' = "exercise"
  /\ UNCHANGED <<given, made, fading, inflight, adopted, at, tracked, failures, passed, complete>>

\* The role is assumed and every case ends as it should.
Exercise ==
  /\ pc = "exercise"
  /\ at' = at + 1 /\ pc' = "create"
  /\ UNCHANGED <<given, aws, tracked, failures, passed, complete>>

\* Every role was exercised with the results it should have.
Pass ==
  /\ pc = "create" /\ at > Last
  /\ passed' = TRUE
  /\ CleanUp
  /\ UNCHANGED <<given, aws, tracked, failures, complete>>

\* A refused call, a failed check or case, or a response that does not come.
Fail ==
  /\ \/ pc \in {"create", "policy", "exercise"}
     \/ pc = "await" /\ (at \notin inflight \/ Lossy)
  /\ CleanUp
  /\ UNCHANGED <<given, aws, tracked, failures, passed, complete>>

Skip ==
  /\ pc = "remove" /\ at > 0 /\ at \notin tracked
  /\ at' = at - 1
  /\ UNCHANGED <<given, aws, pc, tracked, failures, passed, complete>>

\* A role or table that is not found needs no removal.
NotFound ==
  /\ pc \in {"remove", "gone"} /\ at \in tracked \ made
  /\ at' = at - 1 /\ pc' = "remove"
  /\ UNCHANGED <<given, aws, tracked, failures, passed, complete>>

\* The fixture policy goes before its role, and DeleteRole refuses a role with another; a table is first DELETING.
Remove ==
  /\ pc = "remove" /\ at \in (tracked \intersect made) \ adopted
  /\ IF at <= Tables
       THEN fading' = fading \union {at} /\ UNCHANGED made
       ELSE made' = made \ {at} /\ UNCHANGED fading
  /\ granted' = [r \in DOMAIN granted \ {at} |-> granted[r]]
  /\ pc' = "gone"
  /\ UNCHANGED <<given, inflight, adopted, at, tracked, failures, passed, complete>>

\* Mutant: a removal that fails is passed over.
RemoveFailsUnnoticed ==
  /\ pc \in {"remove", "gone"} /\ at \in tracked
  /\ at' = at - 1 /\ pc' = "remove"
  /\ UNCHANGED <<given, aws, tracked, failures, passed, complete>>
\* Any other error, or a table that is not gone in time.
RemoveFails ==
  /\ pc \in {"remove", "gone"} /\ at \in tracked
  /\ failures' = failures \union {at}
  /\ granted' \in {granted, [r \in DOMAIN granted \ {at} |-> granted[r]]}
  /\ at' = at - 1 /\ pc' = "remove"
  /\ UNCHANGED <<given, made, fading, inflight, adopted, tracked, passed, complete>>

Report ==
  /\ pc = "remove" /\ at = 0
  /\ complete' = (failures = {})
  /\ pc' = "end"
  /\ UNCHANGED <<given, aws, at, tracked, failures, passed>>

Execute(r) ==
  /\ r \in inflight
  /\ inflight' = inflight \ {r}
  /\ made' \in {made, made \union {r}}
  /\ UNCHANGED <<given, granted, fading, adopted, pc, at, tracked, failures, passed, complete>>

FinishDelete(r) ==
  /\ r \in fading
  /\ made' = made \ {r} /\ fading' = fading \ {r}
  /\ UNCHANGED <<given, granted, inflight, adopted, pc, at, tracked, failures, passed, complete>>

Adopt(r) ==
  /\ r \in made \ adopted /\ r > Tables
  /\ adopted' = adopted \union {r}
  /\ UNCHANGED <<given, granted, made, fading, inflight, pc, at, tracked, failures, passed, complete>>

Next ==
  \/ Validate \/ Create \/ Created \/ PutPolicy \/ Exercise \/ Pass \/ Fail
  \/ Skip \/ NotFound \/ Remove \/ RemoveFails \/ Report
  \/ \E r \in Resources : Execute(r) \/ FinishDelete(r) \/ Adopt(r)

Spec == Init /\ [][Next]_vars

-----------------------------------------------------------------------------
(* Properties *)

\* Every variable has its type; the clean-up ends with the first resource, only
\* resources that exist are being deleted, and what roles have been granted is
\* the fixture policy of an accepted one.
TypeOK ==
  /\ kind \in Kinds /\ policy \in Policies
  /\ DOMAIN granted \subseteq Resources /\ \A r \in DOMAIN granted : granted[r] = fixture /\ Accepted
  /\ made \subseteq Resources /\ fading \subseteq made /\ inflight \subseteq Resources
  /\ adopted \subseteq Resources /\ tracked \subseteq Resources /\ failures \subseteq Resources
  /\ pc \in {"validate", "create", "await", "policy", "exercise", "remove", "gone", "end"} /\ at \in 0 .. Last + 1
  /\ passed \in BOOLEAN /\ complete \in BOOLEAN

\* These statements may do to a copy what the live role may do to the table, whoever
\* asks, and nothing to anything else.
DecidesAsLive(grants) ==
  /\ \A t \in TABLES, met \in BOOLEAN : \A q \in Requests({Live(t)}) :
       q.action \in TableActions =>
         (Authorized(grants, [q EXCEPT !.resource = Copy(t), !.more = met])
            <=> Authorized(Covered, q))
  /\ \A q \in Requests(LiveTables \union {Other(x) : x \in Elsewhere}) :
       ~ Authorized(grants, q)
\* A role that is exercised decides about the copies as the live one does about the
\* tables: the refusals leave no policy whose dropped part could have decided
\* otherwise, and no live resource stays in what the role is granted.
FixtureDecidesAsLive == pc = "exercise" => at \in DOMAIN granted /\ DecidesAsLive(granted[at])

\* A report that says "cleanupComplete" leaves nothing behind as long as every
\* creation was answered, however the exercise and the removals went.
CompleteWhenAnswered == ~Lossy /\ complete => made \union inflight = {}

\* "Lost create responses still receive tag-checked cleanup": and so, when the
\* report says that the cleanup is complete, nothing is left or still to come.
LostCreatesAreCleaned == complete => made \union inflight = {}
=============================================================================

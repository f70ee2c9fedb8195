----------------------- MODULE QualificationHarnessProofs ----------------------
(***************************************************************************)
(* What holds of the harnesses for any tables, statements and policies:    *)
(* a fixture decides as the live role for every policy that the validation *)
(* accepts, whatever it says of other resources, and a cleanup that        *)
(* reports success is complete when every creation was answered.           *)
(***************************************************************************)
EXTENDS QualificationHarness, FiniteSetTheorems, TLAPS

Moved(q, t, met) == [q EXCEPT !.resource = Copy(t), !.more = met]

LEMMA Distinct ==
  ASSUME NEW t, NEW u, NEW x
  PROVE  /\ Copy(t) = Copy(u) => t = u
         /\ Live(t) = Live(u) => t = u
         /\ Live(t) # Any /\ Copy(t) # Any /\ Copy(t) # Live(u)
         /\ Copy(t) # Other(x) /\ Live(t) # Other(x)
BY DEF Live, Copy, Other, Any

-----------------------------------------------------------------------------
(* Policies *)

\* Over the copies, statements that are about live tables only and whose conditions
\* a harness can meet grant what they grant on the tables.
LEMMA SyntheticGrants ==
  ASSUME NEW S \in SUBSET Statement,
         \A st \in S : st.resources \subseteq LiveTables /\ ~ st.more,
         NEW t \in TABLES, NEW met \in BOOLEAN, NEW q \in Requests({Live(t)}), NEW effect
  PROVE  Grants(synthetic(S), effect, Moved(q, t, met)) <=> Grants(S, effect, q)
<1> DEFINE Copied(st) == {Copy(v) : v \in {u \in TABLES : Live(u) \in st.resources}}
           Image(st) == [st EXCEPT !.resources = Copied(st)]
<1>1. synthetic(S) = {Image(st) : st \in S}
  BY DEF synthetic
<1>2. q.resource = Live(t) /\ Moved(q, t, met).resource = Copy(t)
      /\ Moved(q, t, met).action = q.action /\ Moved(q, t, met).keys = q.keys
      /\ Moved(q, t, met).tx = q.tx /\ Moved(q, t, met).none = q.none
  BY DEF Moved, Requests
<1>3. ASSUME NEW st \in S PROVE Image(st).effect = st.effect
        /\ (Applies(Image(st), Moved(q, t, met)) <=> Applies(st, q))
  <2>1. st \in Statement /\ st.resources \subseteq LiveTables /\ ~ st.more
    BY <1>3
  <2>2. /\ Image(st).effect = st.effect /\ Image(st).actions = st.actions
        /\ Image(st).resources = Copied(st) /\ Image(st).keys = st.keys
        /\ Image(st).tx = st.tx /\ Image(st).none = st.none /\ Image(st).more = st.more
    BY <2>1 DEF Statement
  <2>3. Any \notin st.resources /\ Any \notin Copied(st)
    BY <2>1, Distinct DEF LiveTables
  <2>4. Copy(t) \in Copied(st) <=> Live(t) \in st.resources
    BY Distinct
  <2>5. QED
    BY <1>2, <2>1, <2>2, <2>3, <2>4 DEF Applies
<1> HIDE DEF Image
<1>4. QED
  BY <1>1, <1>3 DEF Grants

\* The projected statements decide what the policy decides about the live tables.
LEMMA ProjectGrants ==
  ASSUME NEW P \in SUBSET Statement, NEW t \in TABLES, NEW q \in Requests({Live(t)}),
         q.action \in TableActions, NEW effect
  PROVE  Grants(project(P), effect, q) <=> Grants(P, effect, q)
<1> DEFINE Cut(st) == [st EXCEPT !.actions = @ \intersect TableActions, !.resources = Here(st)]
<1>1. project(P) = {Cut(st) : st \in Kept(P)}
  BY DEF project
<1>2. q.resource = Live(t) /\ Live(t) \in LiveTables
  BY DEF Requests, LiveTables
<1>3. ASSUME NEW st \in P PROVE Cut(st).effect = st.effect /\ (Applies(Cut(st), q) <=> Applies(st, q))
  <2>1. st \in Statement
    OBVIOUS
  <2>2. /\ Cut(st).effect = st.effect /\ Cut(st).actions = st.actions \intersect TableActions
        /\ Cut(st).resources = Here(st) /\ Cut(st).keys = st.keys
        /\ Cut(st).tx = st.tx /\ Cut(st).none = st.none /\ Cut(st).more = st.more
    BY <2>1 DEF Statement
  <2>3. Any \notin Here(st)
    BY Distinct DEF Here, LiveTables
  <2>4. Live(t) \in Here(st) <=> Live(t) \in st.resources \/ Any \in st.resources
    BY <1>2 DEF Here
  <2>5. QED
    BY <1>2, <2>2, <2>3, <2>4 DEF Applies
<1>4. ASSUME NEW st \in P, Applies(st, q) PROVE st \in Kept(P)
  BY <1>2, <1>4 DEF Applies, Kept, OfTables, Here
<1>5. Kept(P) \subseteq P
  BY DEF Kept
<1> HIDE DEF Cut
<1>6. QED
  BY <1>1, <1>3, <1>4, <1>5 DEF Grants

\* Statements that cannot apply to the request may be left out.
LEMMA OthersDoNotMatter ==
  ASSUME NEW S, NEW P, NEW q, NEW effect, S \subseteq P, \A st \in P \ S : ~ Applies(st, q)
  PROVE  Grants(S, effect, q) <=> Grants(P, effect, q)
BY DEF Grants

\* No statement over the copies is about anything else.
LEMMA CopiesOnly ==
  ASSUME NEW S \in SUBSET Statement, NEW q,
         q.resource \in LiveTables \union {Other(x) : x \in Elsewhere}
  PROVE  ~ Authorized(synthetic(S), q)
<1>1. ASSUME NEW st \in synthetic(S) PROVE st.resources \subseteq Copies
  BY <1>1 DEF synthetic, Statement, Copies
<1>2. q.resource \notin Copies /\ Any \notin Copies
  BY Distinct DEF Copies, LiveTables
<1>3. QED
  BY <1>1, <1>2 DEF Authorized, Grants, Applies

-----------------------------------------------------------------------------
(* The four validations *)

\* A set of statements that stands for what a policy says of the live tables.
StandsFor(S, P) ==
  /\ S \in SUBSET Statement
  /\ \A st \in S : st.resources \subseteq LiveTables /\ ~ st.more
  /\ \A t \in TABLES : \A q \in Requests({Live(t)}) : q.action \in TableActions =>
       \A effect \in {"Allow", "Deny"} : Grants(S, effect, q) <=> Grants(P, effect, q)

LEMMA LiveRequest ==
  ASSUME NEW t \in TABLES, NEW q \in Requests({Live(t)}), NEW st, Applies(st, q),
         q.action \in TableActions
  PROVE  OfTables(st) /\ st.resources \intersect (LiveTables \union {Any}) # {}
<1>1. q.resource = Live(t) /\ Live(t) \in LiveTables
  BY DEF Requests, LiveTables
<1>2. QED
  BY <1>1 DEF Applies, OfTables

LEMMA WriterStands ==
  ASSUME NEW P \in SUBSET Statement, NEW specs, Specified(specs), validate_policy(P, specs)
  PROVE  StandsFor(specs, P)
<1>1. specs \in SUBSET Statement /\ \A st \in specs : st.resources \subseteq LiveTables /\ ~ st.more
  BY DEF Specified
<1>2. specs = {st \in P : OfTables(st)}
  BY DEF validate_policy
<1>3. ASSUME NEW t \in TABLES, NEW q \in Requests({Live(t)}), q.action \in TableActions, NEW effect
      PROVE  Grants(specs, effect, q) <=> Grants(P, effect, q)
  BY <1>2, <1>3, LiveRequest DEF Grants
<1>4. QED
  BY <1>1, <1>3 DEF StandsFor

\* The statements that touch no live table have nothing to say.
LEMMA ClassifiedStands ==
  ASSUME NEW P \in SUBSET Statement, NEW specs, Specified(specs), project_policy(P, specs)
  PROVE  StandsFor(specs, P)
<1>1. specs \in SUBSET Statement /\ \A st \in specs : st.resources \subseteq LiveTables /\ ~ st.more
  BY DEF Specified
<1>2. specs = {st \in P : OfTables(st) /\ st.resources \intersect LiveTables # {}}
  BY DEF project_policy
<1>3. ASSUME NEW t \in TABLES, NEW q \in Requests({Live(t)}), q.action \in TableActions, NEW effect
      PROVE  Grants(specs, effect, q) <=> Grants(P, effect, q)
  <2>1. ASSUME NEW st \in P, Applies(st, q) PROVE st \in specs
    <3>1. OfTables(st) /\ st.resources \intersect (LiveTables \union {Any}) # {}
      BY <1>3, <2>1, LiveRequest
    <3>2. st.resources \subseteq LiveTables
      BY <3>1 DEF project_policy
    <3>3. st.resources \intersect LiveTables # {}
      BY <3>1, <3>2
    <3>4. QED
      BY <1>2, <3>1, <3>3
  <2>2. QED
    BY <1>2, <2>1 DEF Grants
<1>4. QED
  BY <1>1, <1>3 DEF StandsFor

LEMMA AncillaryAdds ==
  ASSUME NEW S, NEW P, NEW R, StandsFor(S, P), Ancillary(R)
  PROVE  StandsFor(S, P \union R)
<1>1. ASSUME NEW t \in TABLES, NEW q \in Requests({Live(t)}), q.action \in TableActions, NEW effect
      PROVE  ~ Grants(R, effect, q)
  BY <1>1, LiveRequest DEF Grants, Ancillary
<1>2. QED
  BY <1>1 DEF StandsFor, Grants

LEMMA UnionStands ==
  ASSUME NEW S, NEW P, NEW T, NEW R, StandsFor(S, P), StandsFor(T, R)
  PROVE  StandsFor(S \union T, P \union R)
<1>1. S \union T \in SUBSET Statement
      /\ \A st \in S \union T : st.resources \subseteq LiveTables /\ ~ st.more
  BY DEF StandsFor
<1>2. QED
  BY <1>1 DEF StandsFor, Grants

LEMMA ProjectionStands ==
  ASSUME NEW P \in SUBSET Statement, Projectable(P)
  PROVE  StandsFor(project(P), P)
<1>1. ASSUME NEW st \in Kept(P), NEW out,
             out = [st EXCEPT !.actions = @ \intersect TableActions, !.resources = Here(st)]
      PROVE  out \in Statement /\ out.resources \subseteq LiveTables /\ ~ out.more
  <2>1. st \in Statement /\ ~ st.more
    BY DEF Kept, Projectable
  <2>2. Here(st) \subseteq LiveTables
    BY DEF Here
  <2>3. QED
    BY <1>1, <2>1, <2>2 DEF Statement
<1>2. project(P) \in SUBSET Statement
      /\ \A st \in project(P) : st.resources \subseteq LiveTables /\ ~ st.more
  BY <1>1 DEF project
<1>3. QED
  BY <1>2, ProjectGrants DEF StandsFor

\* What the fixture is a copy of.
Base == CASE kind \in {"writer", "producer"} -> Specs
          [] kind = "completion" -> load_union(policy.candidate, policy.installed)
          [] kind = "period_work" -> project(Covered)

\* For every policy that a harness accepts, its fixture decides about the copies what
\* the roles decide about the tables, whatever the policy says of anything else.
THEOREM AcceptedIsFaithful ==
  ASSUME kind \in Kinds, policy \in Policies, Accepted
  PROVE  DecidesAsLive(fixture)
<1>1. policy.candidate \in SUBSET Statement /\ policy.installed \in SUBSET Statement
  BY PoliciesAssumption
<1>2. StandsFor(Base, Covered)
  <2>1. CASE kind = "writer"
    BY <1>1, <2>1, SpecsAssumption, WriterStands DEF Accepted, Covered, Base
  <2>2. CASE kind = "producer"
    BY <1>1, <2>2, SpecsAssumption, ClassifiedStands, AncillaryAdds DEF Accepted, Covered, Base
  <2>3. CASE kind = "completion"
    <3>1. policy.candidate = Specs /\ project_policy(policy.installed, OldSpecs)
      BY <2>3 DEF Accepted
    <3>2. StandsFor(OldSpecs, policy.installed)
      BY <1>1, <3>1, SpecsAssumption, ClassifiedStands
    <3>3. StandsFor(Specs, Specs)
      BY SpecsAssumption DEF Specified, StandsFor
    <3>4. Base = Specs \union OldSpecs
      BY <2>3, <3>1 DEF load_union, project_policy, Base
    <3>5. Covered = Specs \union policy.installed
      BY <2>3, <3>1 DEF Covered
    <3>6. StandsFor(Specs \union OldSpecs, Specs \union policy.installed)
      BY <3>2, <3>3, UnionStands
    <3>7. QED
      BY <3>4, <3>5, <3>6
  <2>4. CASE kind = "period_work"
    <3>1. Covered \in SUBSET Statement
      BY <1>1 DEF Covered
    <3>2. QED
      BY <2>4, <3>1, ProjectionStands DEF Accepted, Base
  <2>5. QED
    BY <2>1, <2>2, <2>3, <2>4 DEF Kinds
<1>3. fixture = synthetic(Base)
  BY DEF fixture, Base
<1>4. ASSUME NEW t \in TABLES, NEW met \in BOOLEAN, NEW q \in Requests({Live(t)}), q.action \in TableActions
      PROVE  Authorized(fixture, [q EXCEPT !.resource = Copy(t), !.more = met]) <=> Authorized(Covered, q)
  <2>1. ASSUME NEW effect \in {"Allow", "Deny"}
        PROVE  Grants(fixture, effect, Moved(q, t, met)) <=> Grants(Covered, effect, q)
    BY <1>2, <1>3, <1>4, SyntheticGrants DEF StandsFor
  <2>2. QED
    BY <2>1 DEF Authorized, Moved
<1>5. ASSUME NEW q \in Requests(LiveTables \union {Other(x) : x \in Elsewhere})
      PROVE  ~ Authorized(fixture, q)
  BY <1>2, <1>3, CopiesOnly DEF StandsFor, Requests
<1>6. QED
  BY <1>4, <1>5 DEF DecidesAsLive

-----------------------------------------------------------------------------
(* The run *)

\* Roles are made for an accepted policy only, and exercised with its fixture;
\* resources are counted from 1, and only tables take time to go.
Prepared ==
  /\ pc \in {"validate", "create", "await", "policy", "exercise"} => at >= 1
  /\ fading \subseteq 1 .. Tables
  /\ pc \in {"create", "await", "policy", "exercise"} => Accepted
  /\ pc = "exercise" => at \in DOMAIN granted

\* Without a lost answer, nothing is on its way when the clean-up starts, and what
\* exists has its removal still to come, or is among the failures.
Accounted ==
  /\ made \union inflight \subseteq tracked /\ made \intersect inflight = {}
  /\ pc \in {"validate", "create"} => tracked \subseteq 1 .. at - 1
  /\ pc \in {"await", "policy", "exercise"} => at \in Resources /\ tracked \subseteq 1 .. at
  /\ inflight \subseteq (IF pc = "await" THEN {at} ELSE {})
  /\ pc \in {"remove", "gone"} => made \subseteq 1 .. at \union failures
  /\ complete => pc = "end" /\ made = {}

Inv == TypeOK /\ Prepared /\ (~ Lossy => Accounted)

LEMMA CountsType == Tables \in Nat /\ Last \in Nat /\ Tables <= Last
BY CountsAssumption, FS_CardinalityType DEF Tables, Last

LEMMA FixtureKept ==
  ASSUME UNCHANGED given PROVE fixture' = fixture /\ Accepted' = Accepted
BY DEF given, fixture, Accepted, Covered

LEMMA InitInv == Init => Inv
<1> SUFFICES ASSUME Init PROVE Inv
  OBVIOUS
<1> USE CountsType DEF Init
<1>1. DOMAIN granted = {}
  OBVIOUS
<1>2. kind \in Kinds /\ policy \in Policies /\ passed \in BOOLEAN /\ complete \in BOOLEAN
  BY Zenon
<1>3. \A r \in DOMAIN granted : granted[r] = fixture /\ Accepted
  BY <1>1
<1>4. TypeOK
  <2>1. at \in 0 .. Last + 1
    OBVIOUS
  <2>2. QED
    BY <1>1, <1>2, <1>3, <2>1 DEF TypeOK
<1>5. Prepared
  BY DEF Prepared
<1>6. Accounted
  BY DEF Accounted
<1>7. QED
  BY <1>4, <1>5, <1>6 DEF Inv

LEMMA TypeStep ==
  ASSUME TypeOK, Prepared, [Next]_vars PROVE TypeOK'
<1> USE CountsType DEF TypeOK, Prepared, Resources
<1>1. UNCHANGED given => fixture' = fixture /\ Accepted' = Accepted
  BY FixtureKept
<1>2. CASE Validate
  BY <1>1, <1>2 DEF Validate, given, aws
<1>3. CASE Create
  BY <1>1, <1>3 DEF Create, given
<1>4. CASE Created
  BY <1>1, <1>4 DEF Created, given, aws
<1>5. CASE PutPolicy
  BY <1>1, <1>5 DEF PutPolicy, given
<1>6. CASE Exercise
  BY <1>1, <1>6 DEF Exercise, given, aws
<1>7. CASE Pass
  BY <1>1, <1>7 DEF Pass, CleanUp, given, aws
<1>8. CASE Fail
  BY <1>1, <1>8 DEF Fail, CleanUp, given, aws
<1>9. CASE Skip
  BY <1>1, <1>9 DEF Skip, given, aws
<1>10. CASE NotFound
  BY <1>1, <1>10 DEF NotFound, given, aws
<1>11. CASE Remove
  <2>1. granted' = [r \in DOMAIN granted \ {at} |-> granted[r]] /\ fixture' = fixture /\ Accepted' = Accepted
    BY <1>1, <1>11 DEF Remove
  <2>2. DOMAIN granted' \subseteq Resources /\ \A r \in DOMAIN granted' : granted'[r] = fixture' /\ Accepted'
    BY <2>1
  <2>3. fading' \subseteq made' /\ made' \subseteq Resources
    <3>1. CASE at <= Tables
      <4>1. made' = made /\ fading' = fading \union {at} /\ at \in made
        BY <1>11, <3>1 DEF Remove
      <4>2. QED
        BY <4>1
    <3>2. CASE ~ (at <= Tables)
      <4>1. made' = made \ {at} /\ fading' = fading
        BY <1>11, <3>2 DEF Remove
      <4>2. at \notin fading
        BY <3>2
      <4>3. QED
        BY <4>1, <4>2
    <3>3. QED
      BY <3>1, <3>2
  <2>4. QED
    BY <1>11, <2>2, <2>3 DEF Remove, given
<1>12. CASE RemoveFails
  BY <1>1, <1>12 DEF RemoveFails, given
<1>13. CASE Report
  BY <1>1, <1>13 DEF Report, given, aws
<1>14. ASSUME NEW r \in Resources, Execute(r) PROVE TypeOK'
  BY <1>1, <1>14 DEF Execute, given
<1>15. ASSUME NEW r \in Resources, FinishDelete(r) PROVE TypeOK'
  BY <1>1, <1>15 DEF FinishDelete, given
<1>16. ASSUME NEW r \in Resources, Adopt(r) PROVE TypeOK'
  BY <1>1, <1>16 DEF Adopt, given
<1>17. CASE UNCHANGED vars
  BY <1>1, <1>17 DEF vars, given
<1>18. QED
  BY <1>2, <1>3, <1>4, <1>5, <1>6, <1>7, <1>8, <1>9, <1>10, <1>11, <1>12, <1>13, <1>14, <1>15, <1>16, <1>17 DEF Next

LEMMA PreparedStep ==
  ASSUME TypeOK, Prepared, [Next]_vars PROVE Prepared'
<1> USE CountsType DEF Prepared, TypeOK, Resources
<1>1. UNCHANGED given => Accepted' = Accepted
  BY FixtureKept
<1>2. CASE Validate
  BY <1>1, <1>2 DEF Validate, given, aws
<1>3. CASE Create
  BY <1>1, <1>3 DEF Create, given
<1>4. CASE Created
  BY <1>1, <1>4 DEF Created, given, aws
<1>5. CASE PutPolicy
  BY <1>1, <1>5 DEF PutPolicy, given
<1>6. CASE Exercise
  BY <1>1, <1>6 DEF Exercise, given, aws
<1>7. CASE Pass \/ Fail
  BY <1>7 DEF Pass, Fail, CleanUp, aws
<1>8. CASE Skip \/ NotFound \/ Remove \/ RemoveFails \/ Report
  BY <1>8 DEF Skip, NotFound, Remove, RemoveFails, Report, aws
<1>9. ASSUME NEW r \in Resources, Execute(r) \/ FinishDelete(r) \/ Adopt(r) PROVE Prepared'
  BY <1>1, <1>9 DEF Execute, FinishDelete, Adopt, given
<1>10. CASE UNCHANGED vars
  BY <1>1, <1>10 DEF vars, given
<1>11. QED
  BY <1>2, <1>3, <1>4, <1>5, <1>6, <1>7, <1>8, <1>9, <1>10 DEF Next

LEMMA AccountedStep ==
  ASSUME TypeOK, Prepared, ~ Lossy, Accounted, [Next]_vars PROVE Accounted'
<1> USE CountsType DEF TypeOK, Prepared, Accounted, Resources
<1>1. CASE Validate
  BY <1>1 DEF Validate, given, aws
<1>2. CASE Create
  BY <1>2 DEF Create, given
<1>3. CASE Created
  BY <1>3 DEF Created, given, aws
<1>4. CASE PutPolicy
  BY <1>4 DEF PutPolicy, given
<1>5. CASE Exercise
  BY <1>5 DEF Exercise, given, aws
<1>6. CASE Pass
  BY <1>6 DEF Pass, CleanUp, given, aws
<1>7. CASE Fail
  BY <1>7 DEF Fail, CleanUp, given, aws
<1>8. CASE Skip
  BY <1>8 DEF Skip, given, aws
<1>9. CASE NotFound
  BY <1>9 DEF NotFound, given, aws
<1>10. CASE Remove
  BY <1>10 DEF Remove, given
<1>11. CASE RemoveFails
  BY <1>11 DEF RemoveFails, given
<1>12. CASE Report
  BY <1>12 DEF Report, given, aws
<1>13. ASSUME NEW r \in Resources, Execute(r) PROVE Accounted'
  BY <1>13 DEF Execute, given
<1>14. ASSUME NEW r \in Resources, FinishDelete(r) PROVE Accounted'
  BY <1>14 DEF FinishDelete, given
<1>15. ASSUME NEW r \in Resources, Adopt(r) PROVE Accounted'
  BY <1>15 DEF Adopt, given
<1>16. CASE UNCHANGED vars
  BY <1>16 DEF vars, given
<1>17. QED
  BY <1>1, <1>2, <1>3, <1>4, <1>5, <1>6, <1>7, <1>8, <1>9, <1>10, <1>11, <1>12, <1>13, <1>14, <1>15, <1>16 DEF Next

LEMMA InvStep == Inv /\ [Next]_vars => Inv'
BY TypeStep, PreparedStep, AccountedStep DEF Inv

LEMMA Invariance == Spec => []Inv
BY InitInv, InvStep, PTL DEF Spec

\* Every variable has its type, and a role holds the fixture of an accepted policy.
THEOREM HarnessIsTyped == Spec => []TypeOK
<1>1. Inv => TypeOK
  BY DEF Inv
<1>2. QED
  BY Invariance, <1>1, PTL

\* The roles that are exercised decide about the copies as the live ones do about the
\* tables, and about nothing else.
THEOREM ExercisedIsFaithful == Spec => []FixtureDecidesAsLive
<1>1. Inv => FixtureDecidesAsLive
  <2> SUFFICES ASSUME Inv, pc = "exercise" PROVE at \in DOMAIN granted /\ DecidesAsLive(granted[at])
    BY DEF FixtureDecidesAsLive
  <2>1. at \in DOMAIN granted /\ granted[at] = fixture /\ Accepted /\ kind \in Kinds /\ policy \in Policies
    BY DEF Inv, Prepared, TypeOK
  <2>2. DecidesAsLive(fixture)
    BY <2>1, AcceptedIsFaithful
  <2>3. QED
    BY <2>1, <2>2
<1>2. QED
  BY Invariance, <1>1, PTL

\* A clean-up that reports success left nothing when no answer was lost.
THEOREM CleanupIsComplete == Spec => []CompleteWhenAnswered
<1>1. Inv => CompleteWhenAnswered
  BY DEF Inv, Accounted, CompleteWhenAnswered
<1>2. QED
  BY Invariance, <1>1, PTL
=============================================================================

-------------------------- MODULE DevReleaseProofs ---------------------------
(***************************************************************************)
(* What holds of DevRelease for any accounts and any number of runs and    *)
(* troubles.  A reviewed run is a chain: what is applied is the saved      *)
(* plan, which is the approved one, which passed its review and is over    *)
(* what AWS had when it was made.  The chain is followed through an apply: *)
(* a unit of the stack is as planned where the run has come, as it was     *)
(* where it has not, or somebody changed it since.  What each world adds   *)
(* follows from its reviews.                                               *)
(***************************************************************************)
EXTENDS DevRelease, TLAPS

\* What AWS computes; the role mirror of the handoff too, which only a hand changes.
Computed == {"mapping", "view", "stage"}
Unplanned == {"view", "stage", "mirror"}
Planning == pc \in {"saved", "applying"}

\* What the branch may come to say.
Committable ==
  CASE world = "play" -> SUBSET Subjects
    [] world = "authority" -> [release : {"baseline", "operator", "snapshot"}, sweep : BOOLEAN]
    [] world = "history" -> BOOLEAN
    [] world = "api" -> Pins
CommittedOK == committed \in Committable

\* The entitlements that a run of the authority asks for, before it is known whether
\* a version is published for them.
Wanted ==
  LET was == captured["entitlements"]
  IN CASE c.kind \in {"trial", "operator", "access"} ->
            Environment(committed.release, c.subjects, {}, c.mode = "trial")
       [] c.kind = "snapshot" -> Environment("snapshot", was.subjects, c.subjects, TRUE)
       [] c.kind = "cohort" -> Environment(was.release, c.subjects, {}, was.trial)
       [] c.kind = "maintenance" -> was

\* A saved plan: of the types of its units, to what the run asks for, and over what
\* AWS had, of which the run has replaced what is done.
PlanInv ==
  /\ pc # "applying" => done = {}
  /\ pc \in {"idle", "prepared"} => since = {}
  /\ Planning =>
       /\ DOMAIN plan.was = Stack
       /\ \A u \in Stack :
            /\ plan.before[u] \in ValuesOf(u) /\ plan.after[u] \in ValuesOf(u)
            /\ u \in Unplanned => plan.after[u] = plan.before[u]
            /\ u \notin Unplanned \union {"mapping", "entitlements"} => plan.after[u] = Target[u]
            /\ u \notin Computed /\ u \notin since =>
                 live[u] = IF u \in done THEN plan.after[u] ELSE plan.before[u]
       /\ "entitlements" \in Changed(plan) => plan.after["entitlements"] = Wanted

\* What is being applied has been reviewed and, if it needs to be, approved.
ReviewInv == pc = "applying" =>
  /\ review /\ (Ordinary(c) \/ approved = Digest)
  /\ \A u \in done : After(u) \intersect Changed(plan) \subseteq done
  /\ "entitlements" \in done => ~ live["entitlements"].numbered18

\* Play: billing is turned to nobody whom token deletion does not erase, and what the
\* saved plan of a handoff took for the recorded role is what the state still has.
PlayInv == world = "play" =>
  /\ pc = "saved" /\ c.kind = "handoff" => plan.was["mirror"] = recorded["mirror"]
  /\ pc = "applying" /\ c.kind # "cleanup" /\ c.subject # Nobody /\ "deletion" \notin hand =>
       CoversErasure(live, c.subject)
  /\ BilledAreErasable

\* History: a run that needs the index has it for as long as it is under way.
HistoryInv ==
  world = "history" /\ "index" \notin hand /\ pc # "idle" /\ OverIndex(c) => live["index"]

\* Api: an alias stands for a retirement that is complete but for its routes, and
\* serves the package of the function; the first form of the runtime policy is found
\* with retired functions only.
Consistent(units) ==
  /\ units["alias"].env # "none" =>
       /\ units["history"] = "replay" /\ units["runtime"] # "legacy"
       /\ units["analysis"].env = "replay" /\ units["alias"].code = units["analysis"].code
  /\ units["runtime"] = "before-kms" => units["history"] = "replay"
ApiInv == world = "api" /\ hand = {} => Consistent(live) /\ (Planning => Consistent(plan.before))

\* A run has not reported before it ends.
ReportInv == pc # "idle" => report = "none"

Inv == /\ TypeOK /\ CommittedOK /\ PlanInv /\ ReviewInv /\ ReportInv
       /\ PlayInv /\ HistoryInv /\ ApiInv

-----------------------------------------------------------------------------
(* The types of the units, one by one *)

LEMMA BillingTypes ==
  /\ BillingValues("handoff") = Handoff /\ BillingValues("deletion") = Deletion
  /\ BillingValues("ingress") = Subjects \union {Nobody}
  /\ BillingValues("worker") = Subjects \union {Nobody}
  /\ BillingValues("schedule") = BOOLEAN /\ BillingValues("storage") = BOOLEAN
  /\ BillingValues("mirror") = {"older", "declared", "foreign"}
  /\ BillingValues("mapping") = [stamp : {0, 1}, configured : BOOLEAN]
  BY DEF BillingValues

LEMMA AuthorityTypes ==
  /\ AuthorityValues("entitlements") = Entitlements
  /\ AuthorityValues("recovery") = BOOLEAN /\ AuthorityValues("rule") = BOOLEAN
  /\ AuthorityValues("operator") = BOOLEAN /\ AuthorityValues("reader") = SUBSET Accounts
  BY DEF AuthorityValues

LEMMA HistoryTypes ==
  /\ HistoryValues("index") = BOOLEAN /\ HistoryValues("invoke") = BOOLEAN
  /\ HistoryValues("settlement") = BOOLEAN /\ HistoryValues("grant") = BOOLEAN
  /\ HistoryValues("policy") = Subjects \union {Nobody}
  /\ HistoryValues("reader") = [mode : ReaderModes, subject : Subjects \union {Nobody}]
  /\ HistoryValues("view") = [policy : Subjects \union {Nobody}, foreign : BOOLEAN]
  BY DEF HistoryValues

LEMMA ApiTypes ==
  /\ ApiValues("runtime") = {"legacy", "before-kms", "replay"}
  /\ ApiValues("history") = {"legacy", "replay"}
  /\ ApiValues("analysis") = Analysis /\ ApiValues("alias") = Served
  /\ ApiValues("integration") = {"unqualified", "retired"}
  /\ ApiValues("permission") = {"unqualified", "retired"}
  /\ ApiValues("stage") = {"unqualified", "retired"}
  /\ ApiValues("period") = BOOLEAN
  /\ ApiValues("participation") = [code : Packages, open : BOOLEAN]
  /\ ApiValues("view") = [history : {"legacy", "replay"}, period : BOOLEAN, foreign : BOOLEAN]
  BY DEF ApiValues

LEMMA MappingConfigured ==
  ASSUME NEW m \in [stamp : {0, 1}, configured : BOOLEAN]
  PROVE  [m EXCEPT !.configured = TRUE] \in [stamp : {0, 1}, configured : BOOLEAN]
  OBVIOUS

LEMMA MappingStamped ==
  ASSUME NEW m \in [stamp : {0, 1}, configured : BOOLEAN]
  PROVE  [m EXCEPT !.stamp = 1 - @] \in [stamp : {0, 1}, configured : BOOLEAN]
  OBVIOUS

LEMMA ReaderSeen ==
  ASSUME NEW view \in [policy : Subjects \union {Nobody}, foreign : BOOLEAN],
         NEW policy \in Subjects \union {Nobody}
  PROVE  [view EXCEPT !.policy = policy] \in [policy : Subjects \union {Nobody}, foreign : BOOLEAN]
  OBVIOUS

LEMMA AnalysisSeen ==
  ASSUME NEW view \in [history : {"legacy", "replay"}, period : BOOLEAN, foreign : BOOLEAN],
         NEW history \in {"legacy", "replay"}, NEW period \in BOOLEAN
  PROVE  [view EXCEPT !.history = history, !.period = period]
           \in [history : {"legacy", "replay"}, period : BOOLEAN, foreign : BOOLEAN]
  OBVIOUS

-----------------------------------------------------------------------------
(* The worlds *)

LEMMA InPlay ==
  ASSUME world = "play"
  PROVE  /\ Units = BillingUnits /\ \A u : ValuesOf(u) = BillingValues(u)
         /\ Choices = BillingChoices \union CleanupChoices
         /\ Stack = BillingStack(c) /\ Target = BillingTarget(c, live, captured, committed)
         /\ \A u : After(u) = BillingAfter(u)
         /\ \A x : Settled(x) = x
         /\ Protected = BillingSnapshot(c)
  BY DEF Units, ValuesOf, Choices, Stack, Target, After, Settled, Protected

LEMMA InAuthority ==
  ASSUME world = "authority"
  PROVE  /\ Units = AuthorityUnits /\ \A u : ValuesOf(u) = AuthorityValues(u)
         /\ Choices = AuthorityChoices
         /\ Stack = AuthorityStack /\ Target = AuthorityTarget(c, live, captured, committed)
         /\ \A u : After(u) = {}
         /\ \A x : Settled(x) = x
         /\ Protected = {}
  BY DEF Units, ValuesOf, Choices, Stack, Target, After, Settled, Protected

LEMMA InHistory ==
  ASSUME world = "history"
  PROVE  /\ Units = HistoryUnits /\ \A u : ValuesOf(u) = HistoryValues(u)
         /\ Choices = HistoryChoices
         /\ Stack = HistoryStack(c) /\ Target = HistoryTarget(c, live, committed)
         /\ \A u : After(u) = HistoryAfter(u)
         /\ \A x : Settled(x) = HistorySettled(x)
         /\ Protected = {}
  BY DEF Units, ValuesOf, Choices, Stack, Target, After, Settled, Protected

LEMMA InApi ==
  ASSUME world = "api"
  PROVE  /\ Units = ApiUnits /\ \A u : ValuesOf(u) = ApiValues(u)
         /\ Choices = ApiChoices
         /\ Stack = ApiStack /\ Target = ApiTarget(live, committed)
         /\ \A u : After(u) = ApiAfter(u)
         /\ \A x : Settled(x) = ApiSettled(x)
         /\ Protected = {}
  BY DEF Units, ValuesOf, Choices, Stack, Target, After, Settled, Protected

\* What the scripts refuse, world by world.
LEMMA Reviews ==
  /\ world = "play" =>
       /\ review <=> BillingReview(c, captured, plan)
       /\ Verified <=> BillingVerified(c, live, captured, plan)
       /\ Ready <=> BillingReady(c, live, captured, plan)
  /\ world = "authority" =>
       /\ review <=> AuthorityReview(c, captured, plan)
       /\ Ready <=> AuthorityReady(c, live, captured, plan)
  /\ world = "history" =>
       /\ review <=> HistoryReview(c, plan)
       /\ Ready <=> HistoryReady(c, live)
       /\ \A choice : Prepared(choice) <=> HistoryPrepared(choice, live)
  /\ world = "api" => (review <=> ApiReview(c, plan, committed))
  BY DEF review, Verified, Ready, Prepared

-----------------------------------------------------------------------------
(* The units of a stack and what a run asks for *)

UnitsTyped(x) == DOMAIN x = Units /\ \A u \in Units : x[u] \in ValuesOf(u)

LEMMA StackIsOfUnits == ASSUME world \in Worlds, c \in Choices PROVE Stack \subseteq Units
<1>1. CASE world = "play"
  BY <1>1, InPlay DEF BillingStack, BillingUnits
<1>2. CASE world = "authority"
  BY <1>2, InAuthority DEF AuthorityStack, AuthorityUnits
<1>3. CASE world = "history"
  BY <1>3, InHistory DEF HistoryStack, HistoryUnits, HistoryChoices, Scopes
<1>4. CASE world = "api"
  BY <1>4, InApi DEF ApiStack, ApiUnits
<1> QED BY <1>1, <1>2, <1>3, <1>4 DEF Worlds

\* What AWS computes after a change is of its type, and the rest stays.
LEMMA SettledIsTyped ==
  ASSUME world \in Worlds, NEW x, UnitsTyped(x)
  PROVE  UnitsTyped(Settled(x)) /\ \A u \in Units \ Computed : Settled(x)[u] = x[u]
<1>1. CASE world \in {"play", "authority"}
  BY <1>1, InPlay, InAuthority
<1>2. CASE world = "history"
  <2>1. /\ DOMAIN x = HistoryUnits /\ \A u \in HistoryUnits : x[u] \in HistoryValues(u)
        /\ {"policy", "view"} \subseteq HistoryUnits
    BY <1>2, InHistory DEF UnitsTyped, HistoryUnits
  <2>2. [x["view"] EXCEPT !.policy = x["policy"]] \in HistoryValues("view")
    <3>1. x["view"] \in HistoryValues("view") /\ x["policy"] \in HistoryValues("policy")
      BY <2>1
    <3> QED BY <3>1, HistoryTypes, ReaderSeen
  <2>3. Settled(x) = [x EXCEPT !["view"] = [x["view"] EXCEPT !.policy = x["policy"]]]
    BY <1>2, <2>1, InHistory DEF HistorySettled
  <2> QED BY <1>2, <2>1, <2>2, <2>3, InHistory DEF UnitsTyped, Computed
<1>3. CASE world = "api"
  <2>1. /\ DOMAIN x = ApiUnits /\ \A u \in ApiUnits : x[u] \in ApiValues(u)
        /\ {"history", "period", "view", "integration", "stage"} \subseteq ApiUnits
    BY <1>3, InApi DEF UnitsTyped, ApiUnits, RetirementUnits
  <2> DEFINE seen == [x["view"] EXCEPT !.history = x["history"], !.period = x["period"]]
  <2>2. seen \in ApiValues("view") /\ x["integration"] \in ApiValues("stage")
    <3>1. /\ x["view"] \in ApiValues("view") /\ x["history"] \in ApiValues("history")
          /\ x["period"] \in ApiValues("period") /\ x["integration"] \in ApiValues("integration")
      BY <2>1
    <3>2. /\ x["view"] \in [history : {"legacy", "replay"}, period : BOOLEAN, foreign : BOOLEAN]
          /\ x["history"] \in {"legacy", "replay"} /\ x["period"] \in BOOLEAN
      BY <3>1, ApiTypes, Zenon
    <3>3. seen \in [history : {"legacy", "replay"}, period : BOOLEAN, foreign : BOOLEAN]
      BY <3>2, AnalysisSeen
    <3>4. seen \in ApiValues("view")
      BY <3>3, ApiTypes, Zenon
    <3> QED BY <3>1, <3>4, ApiTypes
  <2>3. Settled(x) = [x EXCEPT !["view"] = seen, !["stage"] = x["integration"]]
    BY <1>3, <2>1, InApi DEF ApiSettled
  <2> HIDE DEF seen
  <2> QED BY <1>3, <2>1, <2>2, <2>3, InApi DEF UnitsTyped, Computed
<1> QED BY <1>1, <1>2, <1>3 DEF Worlds

\* What changes a unit changes that unit and what AWS computes, of its types.
LEMMA OneUnit ==
  ASSUME world \in Worlds, UnitsTyped(live), NEW u \in Units, NEW value \in ValuesOf(u)
  PROVE  LET after == Settled([live EXCEPT ![u] = value])
         IN /\ UnitsTyped(after)
            /\ \A v \in Units \ Computed : after[v] = IF v = u THEN value ELSE live[v]
<1>1. UnitsTyped([live EXCEPT ![u] = value])
  BY DEF UnitsTyped
<1> QED BY <1>1, SettledIsTyped DEF UnitsTyped

LEMMA HandIsTyped ==
  ASSUME world \in Worlds, UnitsTyped(live), NEW u \in Units
  PROVE  HandValues(u) \subseteq ValuesOf(u)
<1>1. CASE u = "entitlements"
  <2>1. world = "authority"
    BY <1>1, InPlay, InHistory, InApi
    DEF Worlds, BillingUnits, HistoryUnits, ApiUnits, RetirementUnits
  <2>2. live[u] \in Entitlements /\ ValuesOf(u) = Entitlements
    BY <1>1, <2>1, InAuthority DEF UnitsTyped, AuthorityValues
  <2>3. PICK e \in Entitlements : e = [live["entitlements"] EXCEPT !.numbered18 = FALSE]
    BY <1>1, <2>2 DEF Entitlements
  <2>4. /\ \A a \in SUBSET Accounts : [e EXCEPT !.subjects = a] \in Entitlements
        /\ \A a \in SUBSET Accounts : [e EXCEPT !.extra = a] \in Entitlements
        /\ [e EXCEPT !.trial = ~ @] \in Entitlements
    BY DEF Entitlements
  <2>5. HandValues(u) = {[e EXCEPT !.subjects = a] : a \in SUBSET Accounts}
          \union {[e EXCEPT !.extra = a] : a \in SUBSET Accounts} \union {[e EXCEPT !.trial = ~ @]}
    BY <1>1, <2>3 DEF HandValues
  <2> QED BY <2>2, <2>4, <2>5
<1>2. CASE u # "entitlements"
  BY <1>2 DEF HandValues
<1> QED BY <1>1, <1>2

LEMMA PublishedIsTyped ==
  ASSUME NEW x, x["entitlements"] \in Entitlements, NEW ent \in Entitlements
  PROVE  Published(ent, x) \in Entitlements
  BY DEF Published

\* The plan of a run is over its stack, of its types, and asks for nothing that it
\* would have AWS compute.
LEMMA TargetIsTyped ==
  ASSUME world \in Worlds, c \in Choices, CommittedOK, UnitsTyped(live), UnitsTyped(captured)
  PROVE  /\ DOMAIN Target = Stack
         /\ \A u \in Stack : /\ Target[u] \in ValuesOf(u)
                             /\ u \in Unplanned => Target[u] = live[u]
<1>1. CASE world = "play"
  <2>1. /\ committed \in SUBSET Subjects /\ c \in BillingChoices \union CleanupChoices
        /\ \A u \in BillingUnits : live[u] \in BillingValues(u) /\ captured[u] \in BillingValues(u)
    BY <1>1, InPlay DEF CommittedOK, Committable, UnitsTyped
  <2>2. CASE c.kind = "handoff"
    <3>1. /\ c.mode \in {"inactive", "preparation", "verification"}
          /\ c.subject \in Subjects \union {Nobody}
      BY <2>1, <2>2 DEF BillingChoices, CleanupChoices, MODES
    <3>2. /\ Target = [handoff |-> [pinned |-> TRUE, mode |-> c.mode, subject |-> c.subject],
                       mirror |-> live["mirror"]]
          /\ Stack = {"handoff", "mirror"}
      BY <1>1, <2>2, InPlay DEF BillingTarget, HandoffTarget, BillingStack
    <3>3. Target["handoff"] \in Handoff /\ live["mirror"] \in BillingValues("mirror")
      BY <2>1, <3>1, <3>2 DEF Handoff, BillingUnits
    <3> QED BY <1>1, <3>2, <3>3, InPlay, BillingTypes DEF Unplanned
  <2>3. ASSUME NEW ingress \in Subjects \union {Nobody}, NEW worker \in Subjects \union {Nobody},
               NEW admitted \in SUBSET Subjects, c.kind # "handoff",
               Target = Lifecycle(ingress, worker, admitted, live)
        PROVE  /\ DOMAIN Target = Stack
               /\ \A u \in Stack : /\ Target[u] \in ValuesOf(u)
                                   /\ u \in Unplanned => Target[u] = live[u]
    <3>1. /\ Target = [ingress |-> ingress, worker |-> worker, schedule |-> worker # Nobody,
                       deletion |-> [admitted |-> admitted, running |-> TRUE],
                       mapping |-> [live["mapping"] EXCEPT !.configured = TRUE]]
          /\ Stack = {"ingress", "worker", "schedule", "deletion", "mapping"}
      BY <1>1, <2>3, InPlay DEF Lifecycle, BillingStack
    <3>2. Target["deletion"] \in Deletion
      BY <3>1 DEF Deletion
    <3>3. Target["mapping"] \in BillingValues("mapping")
      <4>1. live["mapping"] \in BillingValues("mapping")
        BY <2>1 DEF BillingUnits
      <4> QED BY <3>1, <4>1, BillingTypes, MappingConfigured
    <3>4. Target["schedule"] \in BOOLEAN
      BY <3>1
    <3>5. \A u \in Stack : u \notin Unplanned
      BY <3>1 DEF Unplanned
    <3>6. /\ Target["deletion"] \in BillingValues("deletion")
          /\ Target["ingress"] \in BillingValues("ingress")
          /\ Target["worker"] \in BillingValues("worker")
      BY <3>1, <3>2, BillingTypes
    <3>7. Target["schedule"] \in BillingValues("schedule")
      BY <3>4, BillingTypes, Zenon
    <3> QED BY <1>1, <3>1, <3>3, <3>5, <3>6, <3>7, InPlay
  <2>4. CASE c.kind = "lifecycle"
    <3>1. c.subject \in Subjects \union {Nobody}
      BY <2>1, <2>4 DEF BillingChoices, CleanupChoices
    <3> QED BY <1>1, <2>1, <2>3, <2>4, <3>1, InPlay DEF BillingTarget
  <2>5. CASE c.kind = "cleanup"
    <3>1. c.subject \in Subjects /\ captured["deletion"].admitted \in SUBSET Subjects
      BY <2>1, <2>5 DEF BillingChoices, CleanupChoices, BillingUnits, BillingValues, Deletion
    <3> QED BY <1>1, <2>1, <2>3, <2>5, <3>1, InPlay DEF BillingTarget, CleanupUnion
  <2> QED BY <2>1, <2>2, <2>4, <2>5 DEF BillingChoices, CleanupChoices
<1>2. CASE world = "authority"
  <2>1. /\ committed.release \in {"baseline", "operator", "snapshot"} /\ committed.sweep \in BOOLEAN
        /\ c.kind \in {"trial", "access", "operator", "cohort", "snapshot", "maintenance"}
        /\ c.subjects \in SUBSET Accounts
        /\ \A u \in AuthorityUnits : /\ live[u] \in AuthorityValues(u)
                                     /\ captured[u] \in AuthorityValues(u)
    BY <1>2, InAuthority DEF CommittedOK, Committable, UnitsTyped, AuthorityChoices, TRIAL_COHORT, Accounts
  <2>2. live["entitlements"] \in Entitlements /\ captured["entitlements"] \in Entitlements
    BY <2>1 DEF AuthorityUnits, AuthorityValues
  <2>3. ASSUME NEW release \in {"baseline", "operator", "snapshot"}, NEW subjects \in SUBSET Accounts,
               NEW extra \in SUBSET Accounts, NEW trial \in BOOLEAN
        PROVE  Environment(release, subjects, extra, trial) \in Entitlements
    BY DEF Environment, Entitlements
  <2>4. ASSUME NEW ent \in Entitlements, NEW sweep \in BOOLEAN
        PROVE  /\ DOMAIN AuthorityBase(Published(ent, live), sweep) = AuthorityStack
               /\ \A u \in AuthorityStack :
                    AuthorityBase(Published(ent, live), sweep)[u] \in AuthorityValues(u)
    <3>1. Published(ent, live) \in Entitlements
      BY <2>2, PublishedIsTyped
    <3>2. AuthorityStack = {"entitlements", "recovery", "rule", "operator"}
      BY DEF AuthorityStack, AuthorityUnits
    <3> DEFINE base == AuthorityBase(Published(ent, live), sweep)
    <3>3. /\ base["recovery"] \in BOOLEAN /\ base["rule"] \in BOOLEAN
          /\ base["operator"] \in BOOLEAN /\ base["entitlements"] \in Entitlements
          /\ DOMAIN base = {"entitlements", "recovery", "rule", "operator"}
      BY <3>1 DEF AuthorityBase
    <3> HIDE DEF base
    <3>4. /\ base["recovery"] \in AuthorityValues("recovery")
          /\ base["rule"] \in AuthorityValues("rule")
          /\ base["operator"] \in AuthorityValues("operator")
          /\ base["entitlements"] \in AuthorityValues("entitlements")
      BY <3>3, AuthorityTypes, Zenon
    <3>5. DOMAIN base = AuthorityStack /\ \A u \in AuthorityStack : base[u] \in AuthorityValues(u)
      BY <3>2, <3>3, <3>4
    <3> QED BY <3>5 DEF base
  <2>5. AuthorityStack \intersect Unplanned = {}
    BY DEF AuthorityStack, AuthorityUnits, Unplanned
  <2>6. CASE c.kind \in {"trial", "operator", "access", "snapshot"}
    <3>1. /\ captured["entitlements"].subjects \in SUBSET Accounts
      BY <2>2 DEF Entitlements
    <3>2. PICK ent \in Entitlements, sweep \in BOOLEAN :
            Target = AuthorityBase(Published(ent, live), sweep)
      <4>1. CASE c.kind = "snapshot"
        BY <1>2, <2>1, <2>3, <3>1, <4>1, InAuthority DEF AuthorityTarget
      <4>2. CASE c.kind = "trial"
        BY <1>2, <2>1, <2>3, <4>2, InAuthority DEF AuthorityTarget
      <4>3. CASE c.kind \in {"operator", "access"}
        BY <1>2, <2>1, <2>3, <4>3, InAuthority DEF AuthorityTarget
      <4> QED BY <2>6, <4>1, <4>2, <4>3
    <3> QED BY <1>2, <2>4, <2>5, <3>2, InAuthority
  <2>7. CASE c.kind = "cohort"
    <3>1. /\ captured["entitlements"].release \in {"baseline", "operator", "snapshot"}
          /\ captured["entitlements"].trial \in BOOLEAN
      BY <2>2 DEF Entitlements
    <3>2. Published(Environment(captured["entitlements"].release, c.subjects, {},
                                captured["entitlements"].trial), live) \in Entitlements
      BY <2>1, <2>2, <2>3, <3>1, PublishedIsTyped
    <3> QED BY <1>2, <2>1, <2>5, <2>7, <3>2, InAuthority
            DEF AuthorityTarget, AuthorityStack, AuthorityUnits, AuthorityValues
  <2>8. CASE c.kind = "maintenance"
    <3>1. captured["operator"] \in BOOLEAN
      BY <2>1 DEF AuthorityUnits, AuthorityValues
    <3> DEFINE base == AuthorityBase(Published(captured["entitlements"], live), TRUE)
    <3>2. Target = [base EXCEPT !["operator"] = captured["operator"]]
      BY <1>2, <2>8, InAuthority DEF AuthorityTarget
    <3>3. DOMAIN base = AuthorityStack /\ \A u \in AuthorityStack : base[u] \in AuthorityValues(u)
      BY <2>2, <2>4
    <3> HIDE DEF base
    <3>4. \A u \in AuthorityStack : Target[u] \in AuthorityValues(u)
      BY <3>1, <3>2, <3>3, AuthorityTypes
    <3> QED BY <1>2, <2>5, <3>2, <3>3, <3>4, InAuthority
  <2> QED BY <2>1, <2>6, <2>7, <2>8
<1>3. CASE world = "history"
  <2>1. /\ committed \in BOOLEAN /\ c \in HistoryChoices
        /\ \A u \in HistoryUnits : live[u] \in HistoryValues(u)
    BY <1>3, InHistory DEF CommittedOK, Committable, UnitsTyped
  <2>2. /\ c.kind \in {"index", "reader", "message", "foundation"}
        /\ c.subject \in Subjects \union {Nobody}
        /\ c.kind = "reader" => c.mode \in ReaderModes
    BY <2>1 DEF HistoryChoices, Scopes
  <2>3. CASE c.kind = "reader"
    <3>1. /\ Target = [policy |-> c.subject, reader |-> [mode |-> c.mode, subject |-> c.subject],
                       invoke |-> TRUE, view |-> live["view"]]
          /\ Stack = {"policy", "reader", "invoke", "view"}
      BY <1>3, <2>3, InHistory DEF HistoryTarget, ReaderTarget, HistoryStack
    <3>2. live["view"] \in HistoryValues("view")
      BY <2>1 DEF HistoryUnits
    <3>3. Target["reader"] \in HistoryValues("reader")
      BY <2>2, <2>3, <3>1, HistoryTypes
    <3>4. Target["invoke"] \in BOOLEAN /\ DOMAIN Target = Stack
      BY <3>1
    <3>5. Target["policy"] = c.subject /\ Target["view"] = live["view"]
      BY <3>1
    <3> QED BY <1>3, <2>2, <3>1, <3>2, <3>3, <3>4, <3>5, InHistory, HistoryTypes DEF Unplanned
  <2>4. CASE c.kind # "reader"
    <3>1. CASE c.kind = "message"
      <4>1. Target = [settlement |-> c.mode = "rules-only-history"] /\ Stack = {"settlement"}
        BY <1>3, <3>1, InHistory DEF HistoryTarget, HistoryStack
      <4>2. Target["settlement"] \in BOOLEAN /\ DOMAIN Target = Stack
        BY <4>1
      <4>3. Target["settlement"] \in HistoryValues("settlement")
        BY <4>2, HistoryTypes, Zenon
      <4> QED BY <1>3, <4>1, <4>2, <4>3, InHistory DEF Unplanned
    <3>2. CASE c.kind \in {"index", "foundation"}
      <4>1. Stack = {"index"}
        BY <1>3, <3>2, InHistory DEF HistoryStack
      <4>2. CASE c.kind = "index"
        <5>1. Target = [index |-> c.mode = "active"]
          BY <1>3, <4>2, InHistory DEF HistoryTarget
        <5>2. Target["index"] \in BOOLEAN /\ DOMAIN Target = Stack
          BY <4>1, <5>1
        <5> QED BY <1>3, <4>1, <5>2, InHistory, HistoryTypes DEF Unplanned
      <4>3. CASE c.kind = "foundation"
        <5>1. Target = [index |-> committed]
          BY <1>3, <4>3, InHistory DEF HistoryTarget
        <5>2. Target["index"] \in BOOLEAN /\ DOMAIN Target = Stack
          BY <2>1, <4>1, <5>1
        <5> QED BY <1>3, <4>1, <5>2, InHistory, HistoryTypes DEF Unplanned
      <4> QED BY <3>2, <4>2, <4>3
    <3> QED BY <2>2, <2>4, <3>1, <3>2
  <2> QED BY <2>3, <2>4
<1>4. CASE world = "api"
  <2>1. committed \in Pins /\ \A u \in ApiUnits : live[u] \in ApiValues(u)
    BY <1>4, InApi DEF CommittedOK, Committable, UnitsTyped
  <2> DEFINE t == Deployment(committed.code, committed.fence, committed.open, "retired",
                              "replay", "replay")
  <2>2. DOMAIN t = ApiUnits /\ \A u \in ApiUnits \ {"view", "stage"} : t[u] \in ApiValues(u)
    <3>1. ApiUnits = {"runtime", "history", "analysis", "alias", "integration", "permission",
                      "period", "participation", "view", "stage"}
      BY DEF ApiUnits, RetirementUnits
    <3>2. committed.code \in Packages /\ committed.fence \in Packages /\ committed.open \in BOOLEAN
      BY <2>1 DEF Pins
    <3>3. /\ t["analysis"] \in Analysis /\ t["alias"] \in Served
          /\ t["participation"] \in [code : Packages, open : BOOLEAN]
      BY <3>2 DEF Deployment, Version, Analysis, Served
    <3>4. /\ t["runtime"] = "replay" /\ t["history"] = "replay" /\ t["integration"] = "retired"
          /\ t["permission"] = "retired" /\ t["period"] = FALSE
      BY DEF Deployment
    <3>5. DOMAIN t = ApiUnits
      BY <3>1 DEF Deployment
    <3> HIDE DEF t
    <3> QED BY <3>1, <3>3, <3>4, <3>5, ApiTypes
  <2>3. Target = [t EXCEPT !["view"] = live["view"], !["stage"] = live["stage"]]
    BY <1>4, InApi DEF ApiTarget
  <2>4. "view" \in ApiUnits /\ "stage" \in ApiUnits /\ "mirror" \notin ApiUnits
    BY DEF ApiUnits, RetirementUnits
  <2> HIDE DEF t
  <2> QED BY <1>4, <2>1, <2>2, <2>3, <2>4, InApi DEF ApiStack, Unplanned
<1> QED BY <1>1, <1>2, <1>3, <1>4 DEF Worlds

-----------------------------------------------------------------------------
(* The steps of a world *)

LEMMA WorldIsKept == [Next]_vars => world' = world
  BY DEF Next, DispatchAny, Dispatch, SavePlan, Publish, Refuse, Ended, Authorize, ApplyAny,
         ApplyUnit, Finish, ApplyFails, ByHandAny, ByHand, LocalApply,
         Touched, LocalRefreshAny, LocalRefresh, Restamp, Merge, vars

LEMMA SameWorld ==
  ASSUME world' = world
  PROVE  /\ Units' = Units /\ Choices' = Choices /\ \A u : ValuesOf(u)' = ValuesOf(u)
         /\ run' = run => c' = c /\ Stack' = Stack
         /\ \A u : After(u)' = After(u)
  BY DEF Units, Choices, ValuesOf, Stack, After, c

LEMMA TypedUnits ==
  ASSUME TypeOK
  PROVE  UnitsTyped(live) /\ UnitsTyped(recorded) /\ UnitsTyped(captured)
  BY DEF TypeOK, UnitsTyped

LEMMA EndedIsTyped ==
  ASSUME TypeOK, world' = world, NEW verdict \in {"reviewed", "refused", "passed", "failed"},
         Ended(verdict), troubles' \in 0..MaxTroubles[world]'
  PROVE  TypeOK'
<1>1. Changed(plan') = {}
  BY DEF Ended, Changed, NoPlan
<1> QED BY <1>1, SameWorld DEF TypeOK, Ended

\* A plan made now is over the stack of the run.
LEMMA PlanNowIsTyped ==
  ASSUME TypeOK, CommittedOK, pc # "idle"
  PROVE  /\ DOMAIN PlanNow.before = Stack /\ DOMAIN PlanNow.after = Stack
         /\ DOMAIN PlanNow.was = Stack /\ PlanNow.after = Target
         /\ \A u \in Stack : /\ PlanNow.before[u] = live[u] /\ PlanNow.was[u] = recorded[u]
                             /\ live[u] \in ValuesOf(u) /\ Target[u] \in ValuesOf(u)
                             /\ u \in Unplanned => Target[u] = live[u]
<1>1. world \in Worlds /\ c \in Choices
  BY DEF TypeOK
<1>2. Stack \subseteq Units
  BY <1>1, StackIsOfUnits
<1>3. /\ DOMAIN Target = Stack
      /\ \A u \in Stack : /\ Target[u] \in ValuesOf(u)
                          /\ u \in Unplanned => Target[u] = live[u]
  BY <1>1, TypedUnits, TargetIsTyped
<1>4. \A u \in Stack : live[u] \in ValuesOf(u)
  BY <1>2 DEF TypeOK
<1> QED BY <1>3, <1>4 DEF PlanNow, PlanOver

\* A refresh puts into the state what is live.
LEMMA RefreshedIsTyped ==
  ASSUME UnitsTyped(recorded), NEW units, UnitsTyped(units), NEW stack
  PROVE  UnitsTyped(Refreshed(stack, units))
  BY DEF UnitsTyped, Refreshed

LEMMA TypeStep == Inv /\ [Next]_vars => TypeOK'
<1> SUFFICES ASSUME Inv, [Next]_vars PROVE TypeOK'
  OBVIOUS
<1>i. TypeOK /\ CommittedOK /\ PlanInv
  BY DEF Inv
<1>w. world' = world
  BY WorldIsKept
<1>s. /\ Units' = Units /\ Choices' = Choices /\ \A u : ValuesOf(u)' = ValuesOf(u)
      /\ run' = run => c' = c /\ Stack' = Stack
  BY <1>w, SameWorld
<1>n. world \in Worlds /\ MaxRuns[world] \in Nat /\ MaxTroubles[world] \in Nat
  BY <1>i, WorldsAssumption DEF TypeOK
<1>t. Trouble => troubles' \in 0..MaxTroubles[world]
  BY <1>i, <1>n DEF Trouble, TypeOK
<1>1. ASSUME NEW choice \in Choices, NEW apply \in BOOLEAN, Dispatch(choice, apply) PROVE TypeOK'
  <2>1. runs' \in 0..MaxRuns[world]'
    BY <1>1, <1>i, <1>w, <1>n DEF Dispatch, TypeOK
  <2>2. c' \in Choices'
    BY <1>1, <1>s DEF Dispatch, c
  <2> QED BY <1>1, <1>i, <1>w, <1>s, <2>1, <2>2 DEF Dispatch, TypeOK
<1>2. ASSUME SavePlan PROVE TypeOK'
  <2>1. plan' = PlanNow /\ pc = "prepared" /\ done = {} /\ run' = run
    BY <1>2, <1>i DEF SavePlan, PlanInv
  <2>2. DOMAIN plan'.before = Stack' /\ DOMAIN plan'.after = Stack'
    BY <2>1, <1>i, <1>s, PlanNowIsTyped
  <2> QED BY <1>2, <1>i, <1>w, <1>s, <2>1, <2>2 DEF SavePlan, TypeOK
<1>3. ASSUME NEW verdict \in {"reviewed", "refused", "passed", "failed"}, Ended(verdict),
             UNCHANGED troubles \/ Trouble
      PROVE  TypeOK'
  <2>1. troubles' \in 0..MaxTroubles[world]'
    BY <1>3, <1>i, <1>t, <1>w DEF TypeOK
  <2> QED BY <1>3, <1>i, <1>w, <2>1, EndedIsTyped
<1>4. ASSUME Authorize PROVE TypeOK'
  <2>1. /\ recorded' = [u \in Units |-> IF u \in Stack THEN plan.before[u] ELSE recorded[u]]
        /\ captured' = [u \in Units |-> IF u \in Protected THEN live[u] ELSE captured[u]]
        /\ run' = run /\ pc = "saved"
    BY <1>4 DEF Authorize
  <2>2. \A u \in Stack : plan.before[u] \in ValuesOf(u)
    BY <1>i, <2>1 DEF PlanInv, Planning
  <2>3. \A u \in Units : recorded'[u] \in ValuesOf(u) /\ captured'[u] \in ValuesOf(u)
    BY <1>i, <2>1, <2>2 DEF TypeOK
  <2> QED BY <1>4, <1>i, <1>w, <1>s, <2>1, <2>3 DEF Authorize, TypeOK
<1>5. ASSUME NEW u \in Units, ApplyUnit(u) PROVE TypeOK'
  <2>1. /\ live' = Settled([live EXCEPT ![u] = plan.after[u]])
        /\ recorded' = [recorded EXCEPT ![u] = plan.after[u]]
        /\ u \in Changed(plan) /\ pc = "applying" /\ run' = run
    BY <1>5 DEF ApplyUnit
  <2>2. plan.after[u] \in ValuesOf(u)
    BY <1>i, <2>1 DEF PlanInv, Planning, Changed, TypeOK
  <2>4. UnitsTyped(live')
    BY <1>i, <1>n, <2>1, <2>2, OneUnit, TypedUnits
  <2>5. UnitsTyped(recorded')
    BY <1>i, <2>1, <2>2 DEF UnitsTyped, TypeOK
  <2>6. done' \subseteq Changed(plan)
    BY <1>5, <1>i DEF ApplyUnit, TypeOK
  <2> QED BY <1>5, <1>i, <1>w, <1>s, <2>1, <2>4, <2>5, <2>6 DEF ApplyUnit, TypeOK, UnitsTyped
<1>6. ASSUME Trouble, NEW u \in Units, NEW value \in HandValues(u), Touched(u, value),
             recorded' = recorded \/ \E stack \in LocalStacks : recorded' = Refreshed(stack, live')
      PROVE  TypeOK'
  <2>1. /\ live' = Settled([live EXCEPT ![u] = value])
        /\ captured' = IF pc = "idle" THEN live' ELSE captured
        /\ hand' = hand \union {u} /\ run' = run
        /\ since' = IF pc \in {"idle", "prepared"} THEN {} ELSE since \union {u}
    BY <1>6 DEF Touched
  <2>2. value \in ValuesOf(u)
    BY <1>i, <1>n, HandIsTyped, TypedUnits
  <2>4. UnitsTyped(live')
    BY <1>i, <1>n, <2>1, <2>2, OneUnit, TypedUnits
  <2>5. UnitsTyped(recorded')
    BY <1>6, <1>i, <2>4, TypedUnits, RefreshedIsTyped
  <2>6. UnitsTyped(captured')
    BY <1>i, <2>1, <2>4, TypedUnits
  <2>7. hand' \subseteq Units /\ since' \subseteq hand' /\ troubles' \in 0..MaxTroubles[world]
    BY <1>6, <1>i, <1>t, <2>1 DEF TypeOK
  <2> QED BY <1>6, <1>i, <1>w, <1>s, <2>1, <2>4, <2>5, <2>6, <2>7 DEF Touched, TypeOK, UnitsTyped
<1>7. ASSUME Restamp PROVE TypeOK'
  <2>1. /\ live' = [live EXCEPT !["mapping"].stamp = 1 - @] /\ world = "play"
        /\ captured' = IF pc = "idle" THEN live' ELSE captured
        /\ troubles' \in 0..MaxTroubles[world]
    BY <1>7, <1>t DEF Restamp
  <2>2. "mapping" \in Units /\ ValuesOf("mapping") = [stamp : {0, 1}, configured : BOOLEAN]
    BY <2>1, InPlay, BillingTypes DEF BillingUnits
  <2>3. live["mapping"] \in ValuesOf("mapping")
    BY <1>i, <2>2 DEF TypeOK
  <2>4. [live["mapping"] EXCEPT !.stamp = 1 - @] \in ValuesOf("mapping")
    BY <2>2, <2>3, MappingStamped
  <2>5. live' = [live EXCEPT !["mapping"] = [live["mapping"] EXCEPT !.stamp = 1 - @]]
    BY <2>1
  <2>6. UnitsTyped(live')
    BY <1>i, <2>4, <2>5 DEF UnitsTyped, TypeOK
  <2>7. UnitsTyped(captured')
    BY <1>i, <2>1, <2>6, TypedUnits
  <2> QED BY <1>7, <1>i, <1>w, <1>s, <2>1, <2>6, <2>7 DEF Restamp, TypeOK, UnitsTyped
<1>8. ASSUME Merge PROVE TypeOK'
  BY <1>8, <1>i, <1>w, <1>s DEF Merge, TypeOK
<1>9. CASE UNCHANGED vars
  BY <1>9, <1>i, <1>s DEF vars, TypeOK
<1>10. ASSUME NEW stack \in LocalStacks, LocalRefresh(stack) PROVE TypeOK'
  <2>1. UnitsTyped(recorded')
    BY <1>10, <1>i, TypedUnits, RefreshedIsTyped DEF LocalRefresh
  <2> QED BY <1>10, <1>i, <1>s, <2>1 DEF LocalRefresh, TypeOK, UnitsTyped
<1> QED
  BY <1>1, <1>2, <1>3, <1>4, <1>5, <1>6, <1>7, <1>8, <1>9, <1>10
  DEF Next, DispatchAny, Publish, Refuse, ApplyAny, Finish, ApplyFails, ByHandAny, ByHand,
      LocalApply, LocalRefreshAny

LEMMA CommittedIsTyped ==
  ASSUME world \in Worlds, UnitsTyped(live)
  PROVE  CommittedAfter(world, live) \subseteq Committable
<1>t. \A u \in Units : live[u] \in ValuesOf(u)
  BY DEF UnitsTyped
<1>1. CASE world = "play"
  <2>1. live["deletion"] \in Deletion
    BY <1>1, <1>t, InPlay, BillingTypes DEF BillingUnits
  <2> QED BY <1>1, <2>1 DEF CommittedAfter, Committable, Deletion
<1>2. CASE world = "authority"
  <2>1. live["entitlements"] \in Entitlements /\ live["recovery"] \in BOOLEAN
    BY <1>2, <1>t, InAuthority, AuthorityTypes DEF AuthorityUnits
  <2>2. {live["entitlements"].release, "operator"} \subseteq {"baseline", "operator", "snapshot"}
    BY <2>1 DEF Entitlements
  <2>3. {live["recovery"]} \subseteq BOOLEAN
    BY <2>1
  <2>4. /\ CommittedAfter(world, live) = [release : {live["entitlements"].release, "operator"},
                                         sweep : {live["recovery"]}]
        /\ Committable = [release : {"baseline", "operator", "snapshot"}, sweep : BOOLEAN]
    BY <1>2 DEF CommittedAfter, Committable
  <2> QED BY <2>2, <2>3, <2>4
<1>3. CASE world = "history"
  <2>1. live["index"] \in HistoryValues("index")
    BY <1>3, <1>t, InHistory DEF HistoryUnits
  <2> QED BY <1>3, <2>1, HistoryTypes DEF CommittedAfter, Committable
<1>4. CASE world = "api"
  BY <1>4 DEF CommittedAfter, Committable
<1> QED BY <1>1, <1>2, <1>3, <1>4 DEF Worlds

LEMMA CommittedStep == Inv /\ [Next]_vars => CommittedOK'
<1> SUFFICES ASSUME Inv, [Next]_vars PROVE CommittedOK'
  OBVIOUS
<1>w. Committable' = Committable
  BY WorldIsKept DEF Committable
<1>1. CASE committed' = committed
  BY <1>1, <1>w DEF Inv, CommittedOK
<1>2. CASE committed' \in CommittedAfter(world, live)
  BY <1>2, <1>w, CommittedIsTyped, TypedUnits DEF Inv, TypeOK, CommittedOK
<1> QED
  BY <1>1, <1>2 DEF Next, DispatchAny, Dispatch, SavePlan, Publish, Refuse, Ended, Authorize,
     ApplyAny, ApplyUnit, Finish, ApplyFails, ByHandAny, ByHand, LocalApply,
     Touched, LocalRefreshAny, LocalRefresh, Restamp, Merge, vars

-----------------------------------------------------------------------------
(* A saved plan *)

\* What is asked of a unit does not depend on what it is meanwhile, nor on the
\* snapshot that billing takes before its apply.
LEMMA AskedStays ==
  ASSUME TypeOK, pc # "idle", UNCHANGED <<world, run, committed>>,
         \A u \in Units : u \notin Protected => captured'[u] = captured[u]
  PROVE  /\ \A u \in Stack : u \notin Unplanned \union {"mapping", "entitlements"} =>
              Target'[u] = Target[u]
         /\ world = "authority" => Wanted' = Wanted
<1>t. world \in Worlds /\ c \in Choices /\ c' = c
  BY DEF TypeOK, c
<1>1. CASE world = "play"
  <2>1. /\ Stack = BillingStack(c) /\ Target = BillingTarget(c, live, captured, committed)
        /\ Target' = BillingTarget(c, live', captured', committed)
        /\ Protected = BillingSnapshot(c) /\ c \in BillingChoices \union CleanupChoices
        /\ "deletion" \in Units
    BY <1>1, <1>t, InPlay DEF Target, BillingUnits
  <2>2. CASE c.kind = "handoff"
    <3>1. Stack = {"handoff", "mirror"} /\ "mirror" \in Unplanned
      BY <2>1, <2>2 DEF BillingStack, Unplanned
    <3>2. Target["handoff"] = [pinned |-> TRUE, mode |-> c.mode, subject |-> c.subject]
      BY <2>1, <2>2 DEF BillingTarget, HandoffTarget
    <3>3. Target'["handoff"] = [pinned |-> TRUE, mode |-> c.mode, subject |-> c.subject]
      BY <2>1, <2>2 DEF BillingTarget, HandoffTarget
    <3> QED BY <1>1, <3>1, <3>2, <3>3
  <2>3. ASSUME NEW ingress, NEW worker, NEW admitted, NEW x, NEW t,
               t = Lifecycle(ingress, worker, admitted, x)
        PROVE  /\ t["ingress"] = ingress /\ t["worker"] = worker
               /\ t["schedule"] = (worker # Nobody)
               /\ t["deletion"] = [admitted |-> admitted, running |-> TRUE]
    BY <2>3 DEF Lifecycle
  <2>4. ASSUME NEW ingress, NEW worker, NEW admitted, c.kind # "handoff",
               Target = Lifecycle(ingress, worker, admitted, live),
               Target' = Lifecycle(ingress, worker, admitted, live')
        PROVE  \A u \in Stack : u # "mapping" => Target'[u] = Target[u]
    <3>1. Stack = {"ingress", "worker", "schedule", "deletion", "mapping"}
      BY <2>1, <2>4 DEF BillingStack
    <3>2. /\ Target["ingress"] = ingress /\ Target["worker"] = worker
          /\ Target["schedule"] = (worker # Nobody)
          /\ Target["deletion"] = [admitted |-> admitted, running |-> TRUE]
      BY <2>3, <2>4
    <3>3. /\ Target'["ingress"] = ingress /\ Target'["worker"] = worker
          /\ Target'["schedule"] = (worker # Nobody)
          /\ Target'["deletion"] = [admitted |-> admitted, running |-> TRUE]
      BY <2>3, <2>4
    <3> QED BY <3>1, <3>2, <3>3
  <2>5. CASE c.kind = "lifecycle"
    <3>1. \A u \in Stack : u # "mapping" => Target'[u] = Target[u]
      BY <2>1, <2>4, <2>5 DEF BillingTarget
    <3> QED BY <1>1, <3>1
  <2>6. CASE c.kind = "cleanup"
    <3>1. captured'["deletion"] = captured["deletion"]
      BY <2>1, <2>6 DEF BillingSnapshot
    <3>2. CleanupUnion(c, captured') = CleanupUnion(c, captured)
      BY <3>1 DEF CleanupUnion
    <3>3. \A u \in Stack : u # "mapping" => Target'[u] = Target[u]
      BY <2>1, <2>4, <2>6, <3>2 DEF BillingTarget
    <3> QED BY <1>1, <3>3
  <2> QED BY <2>1, <2>2, <2>5, <2>6 DEF BillingChoices, CleanupChoices
<1>2. CASE world = "authority"
  <2>1. /\ Stack = AuthorityStack /\ Target = AuthorityTarget(c, live, captured, committed)
        /\ Target' = AuthorityTarget(c, live', captured', committed)
        /\ c.kind \in {"trial", "access", "operator", "cohort", "snapshot", "maintenance"}
        /\ AuthorityStack = {"entitlements", "recovery", "rule", "operator"}
    BY <1>2, <1>t, InAuthority DEF Target, AuthorityUnits, AuthorityStack, AuthorityChoices
  <2>2. \A u \in {"entitlements", "recovery", "rule", "operator"} : captured'[u] = captured[u]
    BY <1>2, InAuthority DEF AuthorityUnits
  <2>3. Wanted' = Wanted
    BY <1>t, <2>2 DEF Wanted
  <2>4. CASE c.kind = "cohort"
    BY <2>1, <2>2, <2>3, <2>4 DEF AuthorityTarget
  <2>5. ASSUME NEW ent, NEW sweep, NEW t, t = AuthorityBase(ent, sweep)
        PROVE  /\ DOMAIN t = AuthorityStack
               /\ t["recovery"] = sweep /\ t["rule"] = sweep /\ t["operator"] = TRUE
    BY <2>1, <2>5 DEF AuthorityBase
  <2>6. CASE c.kind = "maintenance"
    <3> DEFINE t1 == AuthorityBase(Published(captured["entitlements"], live), TRUE)
               t2 == AuthorityBase(Published(captured["entitlements"], live'), TRUE)
    <3>1. Target = [t1 EXCEPT !["operator"] = captured["operator"]]
      BY <2>1, <2>6 DEF AuthorityTarget
    <3>2. Target' = [t2 EXCEPT !["operator"] = captured["operator"]]
      BY <2>1, <2>2, <2>6 DEF AuthorityTarget
    <3>3. DOMAIN t1 = AuthorityStack /\ t1["recovery"] = TRUE /\ t1["rule"] = TRUE
      BY <2>5
    <3>4. DOMAIN t2 = AuthorityStack /\ t2["recovery"] = TRUE /\ t2["rule"] = TRUE
      BY <2>5
    <3> HIDE DEF t1, t2
    <3>5. Target["recovery"] = TRUE /\ Target["rule"] = TRUE
          /\ Target["operator"] = captured["operator"]
      BY <2>1, <3>1, <3>3
    <3>6. Target'["recovery"] = TRUE /\ Target'["rule"] = TRUE
          /\ Target'["operator"] = captured["operator"]
      BY <2>1, <3>2, <3>4
    <3>7. \A u \in Stack : u # "entitlements" => u \in {"recovery", "rule", "operator"}
      BY <2>1
    <3> QED BY <2>3, <3>5, <3>6, <3>7
  <2>7. CASE c.kind \in {"trial", "access", "operator", "snapshot"}
    <3>0. PICK sweep : sweep = IF c.kind = "trial" THEN c.mode = "trial" \/ committed.sweep
                               ELSE committed.sweep
      OBVIOUS
    <3>1. PICK e1 : Target = AuthorityBase(e1, sweep)
      <4>1. CASE c.kind = "trial"
        BY <2>1, <3>0, <4>1 DEF AuthorityTarget
      <4>2. CASE c.kind \in {"operator", "access"}
        BY <2>1, <3>0, <4>2 DEF AuthorityTarget
      <4>3. CASE c.kind = "snapshot"
        BY <2>1, <3>0, <4>3 DEF AuthorityTarget
      <4> QED BY <2>7, <4>1, <4>2, <4>3
    <3>2. PICK e2 : Target' = AuthorityBase(e2, sweep)
      <4>1. CASE c.kind = "trial"
        BY <2>1, <3>0, <4>1 DEF AuthorityTarget
      <4>2. CASE c.kind \in {"operator", "access"}
        BY <2>1, <3>0, <4>2 DEF AuthorityTarget
      <4>3. CASE c.kind = "snapshot"
        BY <2>1, <3>0, <4>3 DEF AuthorityTarget
      <4> QED BY <2>7, <4>1, <4>2, <4>3
    <3>3. /\ Target["recovery"] = sweep /\ Target["rule"] = sweep /\ Target["operator"] = TRUE
      BY <3>1 DEF AuthorityBase
    <3>4. /\ Target'["recovery"] = sweep /\ Target'["rule"] = sweep /\ Target'["operator"] = TRUE
      BY <3>2 DEF AuthorityBase
    <3> QED BY <2>1, <2>3, <3>3, <3>4
  <2> QED BY <2>1, <2>4, <2>6, <2>7
<1>3. CASE world = "history"
  <2>1. /\ Stack = HistoryStack(c) /\ Target = HistoryTarget(c, live, committed)
        /\ Target' = HistoryTarget(c, live', committed)
        /\ c.kind \in {"index", "reader", "message", "foundation"}
    BY <1>3, <1>t, InHistory DEF Target, HistoryChoices, Scopes
  <2>2. CASE c.kind = "reader"
    <3>1. Stack = {"policy", "reader", "invoke", "view"} /\ "view" \in Unplanned
      BY <2>1, <2>2 DEF HistoryStack, Unplanned
    <3>2. \A u \in {"policy", "reader", "invoke"} : Target'[u] = Target[u]
      BY <2>1, <2>2 DEF HistoryTarget, ReaderTarget
    <3> QED BY <1>3, <3>1, <3>2
  <2>3. CASE c.kind # "reader"
    BY <1>3, <2>1, <2>3 DEF HistoryTarget
  <2> QED BY <2>2, <2>3
<1>4. CASE world = "api"
  <2> DEFINE t == Deployment(committed.code, committed.fence, committed.open, "retired",
                              "replay", "replay")
  <2>1. Target = [t EXCEPT !["view"] = live["view"], !["stage"] = live["stage"]]
    BY <1>4, <1>t, InApi DEF ApiTarget
  <2>2. Target' = [t EXCEPT !["view"] = live'["view"], !["stage"] = live'["stage"]]
    BY <1>4, <1>t, InApi DEF ApiTarget, Target
  <2>3. Stack = ApiUnits /\ DOMAIN t = ApiUnits
    BY <1>4, InApi DEF ApiStack, Deployment, ApiUnits, RetirementUnits
  <2> HIDE DEF t
  <2> QED BY <1>4, <2>1, <2>2, <2>3 DEF Unplanned
<1> QED BY <1>t, <1>1, <1>2, <1>3, <1>4 DEF Worlds

\* Where a plan publishes a version, it is of what the run wants.
LEMMA PublishedIsWanted ==
  ASSUME TypeOK, pc # "idle", world = "authority"
  PROVE  Target["entitlements"] = Published(Wanted, live)
<1>1. /\ Target = AuthorityTarget(c, live, captured, committed)
      /\ c.kind \in {"trial", "access", "operator", "cohort", "snapshot", "maintenance"}
  BY InAuthority DEF TypeOK, AuthorityChoices
<1>2. CASE c.kind \in {"trial", "operator", "access"}
  BY <1>1, <1>2 DEF AuthorityTarget, AuthorityBase, Wanted
<1>3. CASE c.kind = "snapshot"
  BY <1>1, <1>3 DEF AuthorityTarget, AuthorityBase, Wanted
<1>4. CASE c.kind = "cohort"
  BY <1>1, <1>4 DEF AuthorityTarget, AuthorityStack, AuthorityUnits, Wanted
<1>5. CASE c.kind = "maintenance"
  BY <1>1, <1>5 DEF AuthorityTarget, AuthorityBase, Wanted
<1> QED BY <1>1, <1>2, <1>3, <1>4, <1>5

LEMMA EntitlementsAreOfAuthority ==
  ASSUME world \in Worlds, c \in Choices, "entitlements" \in Stack
  PROVE  world = "authority"
  BY InPlay, InHistory, InApi, StackIsOfUnits
  DEF Worlds, BillingUnits, HistoryUnits, ApiUnits, RetirementUnits

\* A saved plan stays what it is, as long as what was done is as planned.
LEMMA PlanKept ==
  ASSUME TypeOK, PlanInv, Planning, Planning', UNCHANGED <<world, run, committed, plan>>,
         \A u \in Units : u \notin Protected => captured'[u] = captured[u],
         pc' # "applying" => done' = {},
         \A u \in Stack : u \notin Computed /\ u \notin since' =>
           live'[u] = IF u \in done' THEN plan.after[u] ELSE plan.before[u]
  PROVE  PlanInv'
<1>1. /\ Stack' = Stack /\ \A u : ValuesOf(u)' = ValuesOf(u)
      /\ pc' \notin {"idle", "prepared"} /\ pc # "idle"
  BY SameWorld DEF Planning
<1>2. /\ \A u \in Stack : u \notin Unplanned \union {"mapping", "entitlements"} =>
           Target'[u] = Target[u]
      /\ world = "authority" => Wanted' = Wanted
  BY <1>1, AskedStays
<1>3. /\ DOMAIN plan.was = Stack
      /\ \A u \in Stack :
            /\ plan.before[u] \in ValuesOf(u) /\ plan.after[u] \in ValuesOf(u)
            /\ u \in Unplanned => plan.after[u] = plan.before[u]
            /\ u \notin Unplanned \union {"mapping", "entitlements"} => plan.after[u] = Target[u]
      /\ "entitlements" \in Changed(plan) => plan.after["entitlements"] = Wanted
  BY DEF PlanInv
<1>4. "entitlements" \in Changed(plan) => world = "authority"
  <2>1. Changed(plan) \subseteq Stack /\ world \in Worlds /\ c \in Choices
    BY <1>1 DEF Changed, TypeOK, Planning
  <2> QED BY <2>1, EntitlementsAreOfAuthority
<1>5. Changed(plan)' = Changed(plan)
  BY DEF Changed
<1> QED BY <1>1, <1>2, <1>3, <1>4, <1>5 DEF PlanInv

LEMMA SaveStep == TypeOK /\ CommittedOK /\ PlanInv /\ SavePlan => PlanInv'
<1> SUFFICES ASSUME TypeOK, CommittedOK, PlanInv, SavePlan PROVE PlanInv'
  OBVIOUS
<1>1. /\ plan' = PlanNow /\ pc = "prepared" /\ pc' = "saved" /\ done' = {} /\ since' = {}
      /\ UNCHANGED <<world, live, committed, run, captured>>
  BY DEF SavePlan, PlanInv
<1>2. /\ Stack' = Stack /\ \A u : ValuesOf(u)' = ValuesOf(u)
  BY <1>1, SameWorld
<1>3. Target' = Target /\ Wanted' = Wanted
  BY <1>1 DEF Target, Wanted, c
<1>4. /\ DOMAIN PlanNow.before = Stack /\ DOMAIN PlanNow.was = Stack /\ PlanNow.after = Target
      /\ \A u \in Stack : /\ PlanNow.before[u] = live[u]
                          /\ live[u] \in ValuesOf(u) /\ Target[u] \in ValuesOf(u)
                          /\ u \in Unplanned => Target[u] = live[u]
  BY <1>1, PlanNowIsTyped
<1>5. "entitlements" \in Changed(PlanNow) => Target["entitlements"] = Wanted
  <2> SUFFICES ASSUME "entitlements" \in Changed(PlanNow) PROVE Target["entitlements"] = Wanted
    OBVIOUS
  <2>1. "entitlements" \in Stack /\ Target["entitlements"] # live["entitlements"]
    BY <1>4 DEF Changed
  <2>2. world = "authority"
    BY <1>1, <2>1, EntitlementsAreOfAuthority DEF TypeOK
  <2>3. Target["entitlements"] = Published(Wanted, live)
    BY <1>1, <2>2, PublishedIsWanted
  <2> QED BY <2>1, <2>3 DEF Published
<1>6. Changed(plan)' = Changed(PlanNow)
  BY <1>1 DEF Changed
<1> QED BY <1>1, <1>2, <1>3, <1>4, <1>5, <1>6 DEF PlanInv

LEMMA PlanStep == Inv /\ [Next]_vars => PlanInv'
<1> SUFFICES ASSUME Inv, [Next]_vars PROVE PlanInv'
  OBVIOUS
<1>i. TypeOK /\ CommittedOK /\ PlanInv
  BY DEF Inv
<1>n. world \in Worlds /\ UnitsTyped(live) /\ UnitsTyped(captured)
  BY <1>i, TypedUnits DEF TypeOK
<1>l. Planning => /\ Stack \subseteq Units
                  /\ \A u \in Stack : u \notin Computed /\ u \notin since =>
                       live[u] = IF u \in done THEN plan.after[u] ELSE plan.before[u]
  BY <1>i, StackIsOfUnits DEF PlanInv, Planning, TypeOK
<1>1. ASSUME NEW choice \in Choices, NEW apply \in BOOLEAN, Dispatch(choice, apply) PROVE PlanInv'
  BY <1>1, <1>i DEF Dispatch, PlanInv, Planning
<1>2. ASSUME SavePlan PROVE PlanInv'
  BY <1>2, <1>i, SaveStep
<1>3. ASSUME NEW verdict, Ended(verdict) PROVE PlanInv'
  BY <1>3 DEF Ended, PlanInv, Planning
<1>4. ASSUME Authorize PROVE PlanInv'
  <2>1. /\ UNCHANGED <<world, run, committed, plan, live, done, since>>
        /\ pc = "saved" /\ pc' = "applying"
        /\ captured' = [u \in Units |-> IF u \in Protected THEN live[u] ELSE captured[u]]
    BY <1>4 DEF Authorize
  <2>2. \A u \in Units : u \notin Protected => captured'[u] = captured[u]
    BY <2>1
  <2>3. Planning /\ Planning'
    BY <2>1 DEF Planning
  <2> QED BY <1>i, <1>l, <2>1, <2>2, <2>3, PlanKept
<1>5. ASSUME NEW u \in Units, ApplyUnit(u) PROVE PlanInv'
  <2>1. /\ UNCHANGED <<world, run, committed, plan, captured, since, pc>> /\ pc = "applying"
        /\ live' = Settled([live EXCEPT ![u] = plan.after[u]]) /\ done' = done \union {u}
        /\ u \in Changed(plan)
    BY <1>5 DEF ApplyUnit
  <2>2. Planning /\ Planning' /\ u \in Stack
    BY <1>i, <2>1 DEF Planning, Changed, TypeOK
  <2>3. plan.after[u] \in ValuesOf(u)
    BY <1>i, <2>2 DEF PlanInv
  <2>4. \A v \in Units \ Computed : live'[v] = IF v = u THEN plan.after[u] ELSE live[v]
    BY <1>n, <2>1, <2>3, OneUnit
  <2> QED BY <1>i, <1>l, <2>1, <2>2, <2>4, PlanKept
<1>6. ASSUME NEW u \in Units, NEW value \in HandValues(u), Touched(u, value) PROVE PlanInv'
  <2>1. /\ UNCHANGED <<world, run, committed, plan, done, pc>>
        /\ live' = Settled([live EXCEPT ![u] = value])
        /\ captured' = IF pc = "idle" THEN live' ELSE captured
        /\ since' = IF pc \in {"idle", "prepared"} THEN {} ELSE since \union {u}
    BY <1>6 DEF Touched
  <2>2. CASE ~ Planning
    BY <1>i, <2>1, <2>2 DEF PlanInv, Planning
  <2>3. CASE Planning
    <3>1. pc \notin {"idle", "prepared"} /\ Planning' /\ captured' = captured
      BY <2>1, <2>3 DEF Planning
    <3>2. value \in ValuesOf(u)
      BY <1>n, HandIsTyped
    <3>3. \A v \in Units \ Computed : v # u => live'[v] = live[v]
      BY <1>n, <2>1, <3>2, OneUnit
    <3>4. pc' # "applying" => done' = {}
      BY <1>i, <2>1 DEF PlanInv
    <3> QED BY <1>i, <1>l, <2>1, <2>3, <3>1, <3>3, <3>4, PlanKept
  <2> QED BY <2>2, <2>3
<1>7. ASSUME Restamp PROVE PlanInv'
  <2>1. /\ UNCHANGED <<world, run, committed, plan, done, pc, since>>
        /\ live' = [live EXCEPT !["mapping"].stamp = 1 - @]
        /\ captured' = IF pc = "idle" THEN live' ELSE captured
    BY <1>7 DEF Restamp
  <2>2. CASE ~ Planning
    BY <1>i, <2>1, <2>2 DEF PlanInv, Planning
  <2>3. CASE Planning
    <3>1. Planning' /\ captured' = captured
      BY <2>1, <2>3 DEF Planning
    <3>2. \A v \in Units \ Computed : live'[v] = live[v]
      BY <2>1 DEF Computed
    <3>3. pc' # "applying" => done' = {}
      BY <1>i, <2>1 DEF PlanInv
    <3> QED BY <1>i, <1>l, <2>1, <2>3, <3>1, <3>2, <3>3, PlanKept
  <2> QED BY <2>2, <2>3
<1>8. ASSUME Merge PROVE PlanInv'
  BY <1>8, <1>i DEF Merge, PlanInv, Planning
<1>9. CASE LocalRefreshAny \/ UNCHANGED vars
  <2>1. UNCHANGED <<world, run, committed, plan, done, pc, since, live, captured>>
    BY <1>9 DEF LocalRefreshAny, LocalRefresh, vars
  <2>2. CASE ~ Planning
    BY <1>i, <2>1, <2>2 DEF PlanInv, Planning
  <2>3. CASE Planning
    <3>1. Planning' /\ (pc' # "applying" => done' = {})
      BY <1>i, <2>1, <2>3 DEF Planning, PlanInv
    <3> QED BY <1>i, <1>l, <2>1, <2>3, <3>1, PlanKept
  <2> QED BY <2>2, <2>3
<1> QED
  BY <1>1, <1>2, <1>3, <1>4, <1>5, <1>6, <1>7, <1>8, <1>9
  DEF Next, DispatchAny, Publish, Refuse, ApplyAny, Finish, ApplyFails, ByHandAny, ByHand,
      LocalApply

-----------------------------------------------------------------------------
(* The review of what is applied *)

\* A review is of the plan and of what was captured first: what comes after it does
\* not touch it.
LEMMA ReviewStays ==
  ASSUME TypeOK, pc # "idle", review, UNCHANGED <<world, run, committed, plan>>,
         \A u \in Units : u \notin Protected => captured'[u] = captured[u]
  PROVE  review'
<1>t. world \in Worlds /\ c \in Choices /\ c' = c
  BY DEF TypeOK, c
<1>1. CASE world = "play"
  <2>1. /\ BillingReview(c, captured, plan) /\ (review' <=> BillingReview(c, captured', plan))
        /\ Protected = BillingSnapshot(c) /\ "deletion" \in Units
        /\ c \in BillingChoices \union CleanupChoices
    BY <1>1, <1>t, InPlay, Reviews DEF review, BillingUnits
  <2>2. CASE c.kind = "cleanup"
    <3>1. captured'["deletion"] = captured["deletion"]
      BY <2>1, <2>2 DEF BillingSnapshot
    <3> QED BY <2>1, <2>2, <3>1 DEF BillingReview, CleanupReview, CleanupUnion
  <2>3. CASE c.kind \in {"handoff", "lifecycle"}
    BY <2>1, <2>3 DEF BillingReview
  <2> QED BY <2>1, <2>2, <2>3 DEF BillingChoices, CleanupChoices
<1>2. CASE world = "authority"
  <2>1. /\ AuthorityReview(c, captured, plan) /\ (review' <=> AuthorityReview(c, captured', plan))
        /\ c.kind \in {"trial", "access", "operator", "cohort", "snapshot", "maintenance"}
        /\ \A u \in AuthorityUnits : captured'[u] = captured[u]
    BY <1>2, <1>t, InAuthority, Reviews DEF review, AuthorityChoices
  <2>2. /\ \A u \in AuthorityStack : captured'[u] = captured[u]
        /\ captured'["entitlements"] = captured["entitlements"]
    BY <2>1 DEF AuthorityStack, AuthorityUnits
  <2>3. CASE c.kind = "cohort"
    BY <2>1, <2>2, <2>3 DEF AuthorityReview, CohortReview
  <2>4. CASE c.kind = "maintenance"
    BY <2>1, <2>2, <2>4 DEF AuthorityReview, MaintenanceReview
  <2>5. CASE c.kind \in {"trial", "access", "operator", "snapshot"}
    BY <2>1, <2>5 DEF AuthorityReview
  <2> QED BY <2>1, <2>3, <2>4, <2>5
<1>3. CASE world = "history"
  BY <1>3, <1>t DEF review
<1>4. CASE world = "api"
  BY <1>4, <1>t DEF review
<1> QED BY <1>t, <1>1, <1>2, <1>3, <1>4 DEF Worlds

\* A run that changes the entitlements publishes a version that no record names.
LEMMA ChangedIsUnnumbered ==
  ASSUME TypeOK, PlanInv, Planning, review, "entitlements" \in Changed(plan)
  PROVE  /\ world = "authority" /\ plan.after["entitlements"] = Wanted
         /\ ~ plan.after["entitlements"].numbered18
<1>1. /\ world \in Worlds /\ c \in Choices /\ "entitlements" \in Stack
      /\ plan.after["entitlements"] = Wanted
  BY DEF TypeOK, PlanInv, Planning, Changed
<1>2. world = "authority"
  BY <1>1, EntitlementsAreOfAuthority
<1>3. c.kind # "maintenance"
  <2>1. AuthorityReview(c, captured, plan)
    BY <1>2, Reviews
  <2> QED BY <2>1 DEF AuthorityReview, MaintenanceReview
<1>4. c.kind \in {"trial", "access", "operator", "cohort", "snapshot"}
  BY <1>1, <1>2, <1>3, InAuthority DEF AuthorityChoices
<1>5. ~ Wanted.numbered18
  <2>1. CASE c.kind \in {"trial", "operator", "access"}
    BY <2>1 DEF Wanted, Environment
  <2>2. CASE c.kind = "snapshot"
    BY <2>2 DEF Wanted, Environment
  <2>3. CASE c.kind = "cohort"
    BY <2>3 DEF Wanted, Environment
  <2> QED BY <1>4, <2>1, <2>2, <2>3
<1> QED BY <1>1, <1>2, <1>5

LEMMA HandIsUnnumbered ==
  ASSUME UnitsTyped(live), world = "authority", NEW value \in HandValues("entitlements")
  PROVE  ~ value.numbered18
<1>1. live["entitlements"] \in Entitlements
  BY InAuthority, AuthorityTypes DEF UnitsTyped, AuthorityUnits
<1>e. ASSUME NEW x \in Entitlements
      PROVE  /\ [x EXCEPT !.numbered18 = FALSE] \in Entitlements
             /\ [x EXCEPT !.numbered18 = FALSE].numbered18 = FALSE
  BY DEF Entitlements
<1>2. PICK e \in Entitlements :
        e = [live["entitlements"] EXCEPT !.numbered18 = FALSE] /\ e.numbered18 = FALSE
  BY <1>1, <1>e
<1>3. HandValues("entitlements") = {[e EXCEPT !.subjects = a] : a \in SUBSET Accounts}
        \union {[e EXCEPT !.extra = a] : a \in SUBSET Accounts} \union {[e EXCEPT !.trial = ~ @]}
  BY <1>2 DEF HandValues
<1>4. /\ \A a \in SUBSET Accounts : ~ [e EXCEPT !.subjects = a].numbered18
      /\ \A a \in SUBSET Accounts : ~ [e EXCEPT !.extra = a].numbered18
      /\ ~ [e EXCEPT !.trial = ~ @].numbered18
  BY <1>2 DEF Entitlements
<1> QED BY <1>3, <1>4

LEMMA ReviewStep == Inv /\ [Next]_vars => ReviewInv'
<1> SUFFICES ASSUME Inv, [Next]_vars PROVE ReviewInv'
  OBVIOUS
<1>i. TypeOK /\ CommittedOK /\ PlanInv /\ ReviewInv
  BY DEF Inv
<1>n. world \in Worlds /\ UnitsTyped(live) /\ UnitsTyped(captured)
  BY <1>i, TypedUnits DEF TypeOK
<1>1. CASE pc' # "applying"
  BY <1>1 DEF ReviewInv
<1>d. ASSUME UNCHANGED <<world, run, committed, plan>>
      PROVE  /\ Digest' = Digest /\ c' = c /\ \A u : After(u)' = After(u)
             /\ Changed(plan)' = Changed(plan)
  BY <1>d, SameWorld DEF Digest, c, Changed
<1>k. ASSUME UNCHANGED <<world, run, committed, plan, captured, approved>>, pc = "applying"
      PROVE  /\ review' /\ (Ordinary(c') \/ approved' = Digest')
             /\ \A u \in done : (After(u) \intersect Changed(plan))' \subseteq done
  BY <1>k, <1>i, <1>d, ReviewStays DEF ReviewInv
<1>2. CASE Authorize
  <2>1. /\ UNCHANGED <<world, run, committed, plan, approved, done>> /\ done = {}
        /\ pc = "saved" /\ review /\ (Ordinary(c) \/ Digest = approved)
        /\ captured' = [u \in Units |-> IF u \in Protected THEN live[u] ELSE captured[u]]
    BY <1>2, <1>i DEF Authorize, Authorized, PlanInv
  <2>2. review'
    BY <1>i, <2>1, ReviewStays
  <2>3. Ordinary(c') \/ approved' = Digest'
    BY <1>d, <2>1
  <2> QED BY <2>1, <2>2, <2>3 DEF ReviewInv
<1>3. ASSUME NEW u \in Units, ApplyUnit(u) PROVE ReviewInv'
  <2>1. /\ UNCHANGED <<world, run, committed, plan, captured, approved>> /\ pc = "applying"
        /\ live' = Settled([live EXCEPT ![u] = plan.after[u]]) /\ done' = done \union {u}
        /\ u \in Changed(plan) /\ After(u) \intersect Changed(plan) \subseteq done
    BY <1>3 DEF ApplyUnit
  <2>2. review' /\ (Ordinary(c') \/ approved' = Digest')
    BY <1>k, <2>1
  <2>3. \A v \in done' : (After(v) \intersect Changed(plan))' \subseteq done'
    BY <1>d, <1>k, <2>1
  <2>4. ASSUME "entitlements" \in done' PROVE ~ live'["entitlements"].numbered18
    <3>1. "entitlements" \in Changed(plan) /\ Planning /\ review
      BY <1>i, <2>1, <2>4 DEF TypeOK, Planning, ReviewInv
    <3>2. ~ plan.after["entitlements"].numbered18 /\ "entitlements" \in Units \ Computed
      BY <1>i, <3>1, ChangedIsUnnumbered, InAuthority DEF AuthorityUnits, Computed
    <3>3. plan.after[u] \in ValuesOf(u)
      BY <1>i, <2>1, <3>1 DEF PlanInv, Changed, TypeOK, Planning
    <3>4. live'["entitlements"] = IF u = "entitlements" THEN plan.after[u] ELSE live["entitlements"]
      BY <1>n, <2>1, <3>2, <3>3, OneUnit
    <3> QED BY <1>i, <2>1, <2>4, <3>2, <3>4 DEF ReviewInv
  <2> QED BY <2>2, <2>3, <2>4 DEF ReviewInv
<1>4. ASSUME NEW u \in Units, NEW value \in HandValues(u), Touched(u, value), pc' = "applying"
      PROVE  ReviewInv'
  <2>1. /\ UNCHANGED <<world, run, committed, plan, captured, approved, done>> /\ pc = "applying"
        /\ live' = Settled([live EXCEPT ![u] = value])
    BY <1>4 DEF Touched
  <2>2. /\ review' /\ (Ordinary(c') \/ approved' = Digest')
        /\ \A v \in done' : (After(v) \intersect Changed(plan))' \subseteq done'
    BY <1>k, <2>1
  <2>3. ASSUME "entitlements" \in done' PROVE ~ live'["entitlements"].numbered18
    <3>1. "entitlements" \in Changed(plan) /\ Planning /\ review
      BY <1>i, <2>1, <2>3 DEF TypeOK, Planning, ReviewInv
    <3>2. world = "authority" /\ "entitlements" \in Units \ Computed
      BY <1>i, <3>1, ChangedIsUnnumbered, InAuthority DEF AuthorityUnits, Computed
    <3>3. value \in ValuesOf(u)
      BY <1>n, HandIsTyped
    <3>4. live'["entitlements"] = IF u = "entitlements" THEN value ELSE live["entitlements"]
      BY <1>n, <2>1, <3>2, <3>3, OneUnit
    <3>5. u = "entitlements" => ~ value.numbered18
      BY <1>n, <3>2, HandIsUnnumbered
    <3> QED BY <1>i, <2>1, <2>3, <3>4, <3>5 DEF ReviewInv
  <2> QED BY <2>2, <2>3 DEF ReviewInv
<1>5. CASE Restamp /\ pc' = "applying"
  <2>1. /\ UNCHANGED <<world, run, committed, plan, captured, approved, done>> /\ pc = "applying"
        /\ world = "play"
    BY <1>5 DEF Restamp
  <2>2. /\ review' /\ (Ordinary(c') \/ approved' = Digest')
        /\ \A v \in done' : (After(v) \intersect Changed(plan))' \subseteq done'
    BY <1>k, <2>1
  <2>3. "entitlements" \notin done'
    BY <1>i, <2>1, ChangedIsUnnumbered DEF TypeOK, Planning, ReviewInv
  <2> QED BY <2>2, <2>3 DEF ReviewInv
<1>6. CASE (LocalRefreshAny \/ UNCHANGED vars) /\ pc' = "applying"
  <2>1. /\ UNCHANGED <<world, run, committed, plan, captured, approved, done, live>>
        /\ pc = "applying"
    BY <1>6 DEF LocalRefreshAny, LocalRefresh, vars
  <2> QED BY <1>i, <1>k, <2>1 DEF ReviewInv
<1>7. ASSUME pc' = "applying"
      PROVE  \/ Authorize \/ ApplyAny \/ (Restamp /\ pc' = "applying")
             \/ ((LocalRefreshAny \/ UNCHANGED vars) /\ pc' = "applying")
             \/ \E u \in Units : \E value \in HandValues(u) : Touched(u, value)
  BY <1>7 DEF Next, DispatchAny, Dispatch, SavePlan, Publish, Refuse, Finish, ApplyFails, Ended,
              ByHandAny, ByHand, LocalApply, Merge
<1> QED BY <1>1, <1>2, <1>3, <1>4, <1>5, <1>6, <1>7 DEF ApplyAny

-----------------------------------------------------------------------------
(* Play: billing and the token deletion *)

\* What a reviewed plan of billing or of token deletion does.
LEMMA PlayPlan ==
  ASSUME TypeOK, PlanInv, Planning, review, world = "play"
  PROVE  /\ c.kind \in {"handoff", "lifecycle", "cleanup"}
         /\ c.kind = "handoff" => /\ Changed(plan) \subseteq {"handoff"}
                                  /\ Stack = {"handoff", "mirror"}
                                  /\ plan.after["handoff"].subject = c.subject
         /\ c.kind = "lifecycle" => /\ Changed(plan) \subseteq {"ingress", "worker", "schedule"}
                                    /\ plan.after["ingress"] = c.subject
                                    /\ plan.after["worker"] \in {c.subject, Nobody}
         /\ c.kind = "cleanup" => /\ Changed(plan) \subseteq {"deletion"}
                                  /\ plan.after["deletion"].running
                                  /\ plan.before["deletion"].admitted
                                       \subseteq plan.after["deletion"].admitted
         /\ c.kind # "handoff" => Stack = {"ingress", "worker", "schedule", "deletion", "mapping"}
<1>1. /\ c \in BillingChoices \union CleanupChoices /\ BillingReview(c, captured, plan)
      /\ Stack = BillingStack(c) /\ Target = BillingTarget(c, live, captured, committed)
  BY InPlay, Reviews DEF TypeOK, Planning
<1>2. \A u \in Stack : u \notin Unplanned \union {"mapping", "entitlements"} =>
        plan.after[u] = Target[u]
  BY DEF PlanInv
<1>3. CASE c.kind = "handoff"
  <2>1. Stack = {"handoff", "mirror"} /\ Changed(plan) \subseteq {"handoff"}
    BY <1>1, <1>3 DEF BillingStack, BillingReview, HandoffReview
  <2>2. plan.after["handoff"] = Target["handoff"]
    BY <1>2, <2>1 DEF Unplanned
  <2>3. Target["handoff"].subject = c.subject
    BY <1>1, <1>3 DEF BillingTarget, HandoffTarget
  <2> QED BY <1>3, <2>1, <2>2, <2>3
<1>4. CASE c.kind = "lifecycle"
  <2>1. /\ Stack = {"ingress", "worker", "schedule", "deletion", "mapping"}
        /\ Changed(plan) \subseteq {"ingress", "worker", "schedule"}
    BY <1>1, <1>4 DEF BillingStack, BillingReview, LifecycleReview
  <2>2. plan.after["ingress"] = Target["ingress"] /\ plan.after["worker"] = Target["worker"]
    BY <1>2, <2>1 DEF Unplanned
  <2>3. Target["ingress"] = c.subject /\ Target["worker"] \in {c.subject, Nobody}
    BY <1>1, <1>4 DEF BillingTarget, Lifecycle
  <2> QED BY <1>4, <2>1, <2>2, <2>3
<1>5. CASE c.kind = "cleanup"
  <2>1. /\ Stack = {"ingress", "worker", "schedule", "deletion", "mapping"}
        /\ Changed(plan) \subseteq {"deletion"} /\ plan.before["deletion"] = captured["deletion"]
    BY <1>1, <1>5 DEF BillingStack, BillingReview, CleanupReview
  <2>2. plan.after["deletion"] = Target["deletion"]
    BY <1>2, <2>1 DEF Unplanned
  <2>3. Target["deletion"] = [admitted |-> CleanupUnion(c, captured), running |-> TRUE]
    BY <1>1, <1>5 DEF BillingTarget, Lifecycle
  <2> QED BY <1>5, <2>1, <2>2, <2>3 DEF CleanupUnion
<1> QED BY <1>1, <1>3, <1>4, <1>5 DEF BillingChoices, CleanupChoices

LEMMA PlayStep == Inv /\ [Next]_vars => PlayInv'
<1> SUFFICES ASSUME Inv, [Next]_vars, world = "play" PROVE PlayInv'
  BY WorldIsKept DEF PlayInv
<1>i. TypeOK /\ PlanInv /\ ReviewInv /\ PlayInv
  BY DEF Inv
<1>n. /\ Units = BillingUnits /\ \A x : Settled(x) = x
      /\ \A u \in BillingUnits : live[u] \in BillingValues(u)
      /\ DOMAIN live = BillingUnits /\ DOMAIN recorded = BillingUnits
      /\ since \subseteq hand
  BY <1>i, InPlay DEF TypeOK
<1>m. "mirror" \notin Managed /\ {"mirror", "mapping"} \subseteq BillingUnits
  BY DEF Managed, BillingUnits
<1>p. world' = world
  BY WorldIsKept
<1>r. BilledAreErasable
  BY <1>i DEF PlayInv
\* Nothing of it depends on more than the deletion and the three functions of billing.
<1>b. ASSUME \A u \in {"handoff", "ingress", "worker", "deletion"} : live'[u] = live[u],
             hand \subseteq hand'
      PROVE  BilledAreErasable'
  BY <1>b, <1>r, <1>p DEF BilledAreErasable, Billed, CoversErasure
<1>q. ASSUME pc' \notin {"saved", "applying"}, BilledAreErasable' PROVE PlayInv'
  BY <1>q DEF PlayInv
\* Under way, as long as neither the deletion nor, under a saved plan, what the state
\* shows of the role changes.
<1>k. ASSUME UNCHANGED <<run, plan, pc>>, BilledAreErasable', hand \subseteq hand',
             pc = "saved" /\ c.kind = "handoff" => recorded'["mirror"] = recorded["mirror"],
             live'["deletion"] = live["deletion"] \/ c.kind = "cleanup" \/ "deletion" \in hand'
      PROVE  PlayInv'
  BY <1>k, <1>i DEF PlayInv, CoversErasure, c
<1>1. ASSUME NEW choice \in Choices, NEW apply \in BOOLEAN, Dispatch(choice, apply) PROVE PlayInv'
  <2>1. live' = live /\ hand' = hand /\ pc' = "prepared"
    BY <1>1 DEF Dispatch
  <2> QED BY <1>b, <1>q, <1>r, <2>1
<1>2. ASSUME SavePlan PROVE PlayInv'
  <2>1. /\ UNCHANGED <<live, recorded, hand, run>> /\ pc' = "saved" /\ pc = "prepared"
        /\ plan' = PlanNow
    BY <1>2 DEF SavePlan
  <2>2. c.kind = "handoff" => plan'.was["mirror"] = recorded["mirror"]
    BY <2>1, InPlay DEF PlanNow, PlanOver, BillingStack
  <2> QED BY <1>b, <1>r, <2>1, <2>2 DEF PlayInv, c
<1>3. ASSUME NEW verdict, Ended(verdict) PROVE PlayInv'
  <2>1. live' = live /\ hand' = hand /\ pc' = "idle"
    BY <1>3 DEF Ended
  <2> QED BY <1>b, <1>q, <1>r, <2>1
<1>4. ASSUME Authorize PROVE PlayInv'
  <2>1. UNCHANGED <<live, hand, run>> /\ pc' = "applying" /\ Ready
    BY <1>4 DEF Authorize, Authorized
  <2>2. c.kind # "cleanup" /\ c.subject # Nobody => CoversErasure(live, c.subject)
    BY <2>1, Reviews DEF BillingReady, BillingVerified, CleanupPrerequisite
  <2> QED BY <1>b, <2>1, <2>2 DEF PlayInv, CoversErasure, c
<1>5. ASSUME NEW u \in Units, ApplyUnit(u) PROVE PlayInv'
  <2>1. /\ UNCHANGED <<run, plan, pc, hand>> /\ pc = "applying" /\ u \in Changed(plan) \ done
        /\ live' = [live EXCEPT ![u] = plan.after[u]]
    BY <1>5, <1>n DEF ApplyUnit
  <2>2. Planning /\ review /\ u \in Stack
    BY <1>i, <2>1 DEF Planning, ReviewInv, Changed, TypeOK
  <2>5. CASE c.kind = "cleanup"
    <3>1. u = "deletion" /\ plan.after[u].running
          /\ plan.before[u].admitted \subseteq plan.after[u].admitted
      BY <1>i, <2>1, <2>2, <2>5, PlayPlan
    <3>2. u \notin since => live[u] = plan.before[u]
      BY <1>i, <2>1, <2>2, <3>1 DEF PlanInv, Computed
    <3>3. Billed(live') = Billed(live)
      BY <2>1, <3>1 DEF Billed
    <3>4. live'["deletion"] = plan.after[u]
      BY <1>n, <2>1, <3>1 DEF BillingUnits
    <3>5. BilledAreErasable'
      <4> SUFFICES ASSUME hand \intersect {"handoff", "ingress", "worker", "deletion"} = {},
                          NEW s \in Billed(live)
                   PROVE  CoversErasure(live', s)
        BY <2>1, <3>3 DEF BilledAreErasable
      <4>1. CoversErasure(live, s)
        BY <1>r DEF BilledAreErasable
      <4>2. live[u] = plan.before[u]
        BY <1>n, <3>1, <3>2
      <4> QED BY <3>1, <3>4, <4>1, <4>2 DEF CoversErasure
    <3> QED BY <1>k, <2>1, <2>5, <3>5
  <2>6. CASE c.kind \in {"handoff", "lifecycle"}
    <3>1. u \in {"handoff", "ingress", "worker", "schedule"}
      BY <1>i, <2>1, <2>2, <2>6, PlayPlan
    <3>2. live'["deletion"] = live["deletion"]
      BY <2>1, <3>1
    <3>3. c.subject # Nobody /\ "deletion" \notin hand => CoversErasure(live, c.subject)
      BY <1>i, <2>1, <2>6 DEF PlayInv
    <3>4. ASSUME NEW s \in Billed(live') PROVE s \in Billed(live) \/ (s = c.subject /\ s # Nobody)
      <4>0. \A v \in Units : live'[v] = IF v = u THEN plan.after[u] ELSE live[v]
        BY <1>n, <2>1
      <4>1. CASE u = "handoff"
        <5>1. c.kind = "handoff"
          BY <1>i, <2>1, <2>2, <2>6, <4>1, PlayPlan
        <5>2. live'["handoff"].subject = c.subject
          BY <1>i, <1>n, <2>1, <2>2, <4>1, <5>1, PlayPlan DEF BillingUnits
        <5> QED BY <2>1, <3>4, <4>1, <5>2 DEF Billed
      <4>2. CASE u \in {"ingress", "worker"}
        <5>1. c.kind = "lifecycle"
          BY <1>i, <2>1, <2>2, <2>6, <4>2, PlayPlan
        <5>2. live'[u] \in {c.subject, Nobody}
          BY <1>i, <1>n, <2>1, <2>2, <4>2, <5>1, PlayPlan DEF BillingUnits
        <5> QED BY <2>1, <3>4, <4>2, <5>2 DEF Billed
      <4>3. CASE u = "schedule"
        BY <2>1, <3>4, <4>3 DEF Billed
      <4> QED BY <3>1, <4>1, <4>2, <4>3
    <3>5. BilledAreErasable'
      <4> SUFFICES ASSUME hand \intersect {"handoff", "ingress", "worker", "deletion"} = {},
                          NEW s \in Billed(live')
                   PROVE  CoversErasure(live', s)
        BY <2>1 DEF BilledAreErasable
      <4>1. CoversErasure(live, s)
        BY <1>r, <3>3, <3>4 DEF BilledAreErasable
      <4> QED BY <3>2, <4>1 DEF CoversErasure
    <3> QED BY <1>k, <2>1, <3>2, <3>5
  <2> QED BY <1>i, <2>2, <2>5, <2>6, PlayPlan
\* What a local apply may take up while a handoff is planned.
<1>l. ASSUME NEW stack, NEW units, Unlocked(stack), recorded' = Refreshed(stack, units)
      PROVE  pc = "saved" /\ c.kind = "handoff" => recorded'["mirror"] = recorded["mirror"]
  BY <1>l, <1>m, <1>n, InPlay DEF Unlocked, Refreshed, BillingStack
<1>6. ASSUME NEW u \in Units, NEW value \in HandValues(u), Touched(u, value),
             pc = "saved" /\ c.kind = "handoff" => recorded'["mirror"] = recorded["mirror"]
      PROVE  PlayInv'
  <2>1. /\ UNCHANGED <<run, plan, pc>> /\ hand' = hand \union {u}
        /\ live' = [live EXCEPT ![u] = value]
    BY <1>6, <1>n DEF Touched
  <2>3. BilledAreErasable'
    <3>1. CASE u \in {"handoff", "ingress", "worker", "deletion"}
      BY <2>1, <3>1 DEF BilledAreErasable
    <3>2. CASE u \notin {"handoff", "ingress", "worker", "deletion"}
      BY <1>b, <2>1, <3>2
    <3> QED BY <3>1, <3>2
  <2>4. live'["deletion"] = live["deletion"] \/ "deletion" \in hand'
    BY <2>1
  <2> QED BY <1>6, <1>k, <2>1, <2>3, <2>4
<1>7. ASSUME Restamp PROVE PlayInv'
  <2>1. /\ UNCHANGED <<run, plan, pc, hand, recorded>>
        /\ live' = [live EXCEPT !["mapping"].stamp = 1 - @]
    BY <1>7 DEF Restamp
  <2>2. \A u \in {"handoff", "ingress", "worker", "deletion"} : live'[u] = live[u]
    BY <2>1
  <2> QED BY <1>b, <1>k, <2>1, <2>2
<1>8. ASSUME Merge \/ UNCHANGED vars PROVE PlayInv'
  <2>1. UNCHANGED <<run, plan, pc, hand, recorded, live>>
    BY <1>8 DEF Merge, vars
  <2> QED BY <1>b, <1>k, <2>1
<1>9. ASSUME NEW stack \in LocalStacks, LocalRefresh(stack) PROVE PlayInv'
  <2>1. UNCHANGED <<run, plan, pc, hand, live>> /\ recorded' = Refreshed(stack, live) /\ Unlocked(stack)
    BY <1>9 DEF LocalRefresh
  <2> QED BY <1>b, <1>k, <1>l, <2>1
<1>10. ASSUME ByHandAny PROVE PlayInv'
  <2>0. PICK u \in Units : \E value \in HandValues(u) :
          ByHand(u, value) \/ \E stack \in LocalStacks : LocalApply(stack, u, value)
    BY <1>10 DEF ByHandAny
  <2>1. PICK value \in HandValues(u) :
          ByHand(u, value) \/ \E stack \in LocalStacks : LocalApply(stack, u, value)
    BY <2>0
  <2>2. /\ Touched(u, value)
        /\ \/ recorded' = recorded
           \/ \E stack : Unlocked(stack) /\ recorded' = Refreshed(stack, live')
    BY <2>1 DEF ByHand, LocalApply
  <2> QED BY <1>6, <1>l, <2>2
<1> QED
  BY <1>1, <1>2, <1>3, <1>4, <1>5, <1>7, <1>8, <1>9, <1>10
  DEF Next, DispatchAny, Publish, Refuse, ApplyAny, Finish, ApplyFails, LocalRefreshAny

-----------------------------------------------------------------------------
(* History: the index and those who read it *)

LEMMA HistoryStep == Inv /\ [Next]_vars => HistoryInv'
<1> SUFFICES ASSUME Inv, [Next]_vars, world = "history" PROVE HistoryInv'
  BY WorldIsKept DEF HistoryInv
<1>i. TypeOK /\ PlanInv /\ HistoryInv /\ UnitsTyped(live) /\ world \in Worlds
  BY TypedUnits DEF Inv, TypeOK
<1>u. "index" \in Units \ Computed
  BY InHistory DEF HistoryUnits, Computed
<1>k. ASSUME UNCHANGED <<run, pc>>, live'["index"] = live["index"], hand \subseteq hand'
      PROVE  HistoryInv'
  BY <1>k, <1>i DEF HistoryInv, c
<1>1. ASSUME NEW choice \in Choices, NEW apply \in BOOLEAN, Dispatch(choice, apply)
      PROVE  HistoryInv'
  <2>1. Prepared(choice) /\ c' = choice /\ live' = live
    BY <1>1 DEF Dispatch, c
  <2>2. OverIndex(choice) => live["index"]
    BY <2>1, Reviews DEF HistoryPrepared, verify_index
  <2> QED BY <2>1, <2>2 DEF HistoryInv
<1>2. ASSUME SavePlan \/ Authorize PROVE HistoryInv'
  BY <1>2, <1>i DEF SavePlan, Authorize, HistoryInv, c
<1>3. ASSUME NEW verdict, Ended(verdict) PROVE HistoryInv'
  BY <1>3 DEF Ended, HistoryInv
<1>4. ASSUME NEW u \in Units, ApplyUnit(u) PROVE HistoryInv'
  <2>1. /\ UNCHANGED <<run, pc, hand>> /\ pc = "applying" /\ u \in Changed(plan)
        /\ live' = Settled([live EXCEPT ![u] = plan.after[u]])
    BY <1>4 DEF ApplyUnit
  <2>2. u \in Stack /\ Stack = HistoryStack(c) /\ plan.after[u] \in ValuesOf(u)
    BY <1>i, <2>1, InHistory DEF PlanInv, Planning, Changed, TypeOK
  <2>4. u # "index" => live'["index"] = live["index"]
    BY <1>i, <1>u, <2>1, <2>2, OneUnit
  <2>5. CASE OverIndex(c)
    <3>1. u # "index"
      BY <2>2, <2>5 DEF OverIndex, ActiveReader, HistoryStack
    <3> QED BY <1>k, <2>1, <2>4, <3>1
  <2>6. CASE ~ OverIndex(c)
    BY <2>1, <2>6 DEF HistoryInv, c
  <2> QED BY <2>5, <2>6
<1>5. ASSUME NEW u \in Units, NEW value \in HandValues(u), Touched(u, value) PROVE HistoryInv'
  <2>1. /\ UNCHANGED <<run, pc>> /\ hand' = hand \union {u}
        /\ live' = Settled([live EXCEPT ![u] = value])
    BY <1>5 DEF Touched
  <2>2. value \in ValuesOf(u)
    BY <1>i, HandIsTyped
  <2>3. u # "index" => live'["index"] = live["index"]
    BY <1>i, <1>u, <2>1, <2>2, OneUnit
  <2>4. CASE u = "index"
    BY <2>1, <2>4 DEF HistoryInv
  <2> QED BY <1>k, <2>1, <2>3, <2>4
<1>6. ASSUME Merge \/ LocalRefreshAny \/ UNCHANGED vars PROVE HistoryInv'
  <2>1. UNCHANGED <<run, pc, hand, live>>
    BY <1>6 DEF Merge, LocalRefreshAny, LocalRefresh, vars
  <2> QED BY <1>k, <2>1
<1>7. ~ Restamp
  BY DEF Restamp
<1> QED
  BY <1>1, <1>2, <1>3, <1>4, <1>5, <1>6, <1>7
  DEF Next, DispatchAny, Publish, Refuse, ApplyAny, Finish, ApplyFails, ByHandAny, ByHand,
      LocalApply

LEMMA ReportStep == Inv /\ [Next]_vars => ReportInv'
<1> SUFFICES ASSUME ReportInv, [Next]_vars PROVE ReportInv'
  BY DEF Inv
<1> QED
  BY DEF ReportInv, Next, DispatchAny, Dispatch, SavePlan, Publish, Refuse, Ended, Authorize,
     ApplyAny, ApplyUnit, Finish, ApplyFails, ByHandAny, ByHand, LocalApply,
     Touched, LocalRefreshAny, LocalRefresh, Restamp, Merge, vars

-----------------------------------------------------------------------------
(* Api: what is retired *)

\* Everything that a release of the api can plan is retired, of the committed packages.
LEMMA ApiPlan ==
  ASSUME TypeOK, PlanInv, Planning, world = "api"
  PROVE  /\ plan.after["runtime"] = "replay" /\ plan.after["history"] = "replay"
         /\ plan.after["analysis"] =
              [code |-> committed.code, env |-> "replay", open |-> committed.open]
         /\ plan.after["alias"] = [code |-> committed.code, env |-> "replay"]
         /\ plan.after["integration"] = "retired" /\ plan.after["permission"] = "retired"
         /\ \A u \in ApiUnits : /\ u \notin Changed(plan) => plan.after[u] = plan.before[u]
                                /\ u \in Changed(plan) => plan.after[u] # plan.before[u]
                                /\ plan.before[u] \in ApiValues(u)
         /\ Stack = ApiUnits
         /\ c.kind \in {"retirement", "repair", "research", "api"}
<1> DEFINE t == Deployment(committed.code, committed.fence, committed.open, "retired",
                           "replay", "replay")
<1>1. Target = [t EXCEPT !["view"] = live["view"], !["stage"] = live["stage"]]
  BY InApi DEF ApiTarget
<1>2. /\ DOMAIN t = ApiUnits /\ t["runtime"] = "replay" /\ t["history"] = "replay"
      /\ t["analysis"] = [code |-> committed.code, env |-> "replay", open |-> committed.open]
      /\ t["alias"] = [code |-> committed.code, env |-> "replay"]
      /\ t["integration"] = "retired" /\ t["permission"] = "retired"
  BY DEF Deployment, Version, ApiUnits, RetirementUnits
<1> HIDE DEF t
<1>3. Stack = ApiUnits /\ c \in ApiChoices
  BY InApi DEF ApiStack, TypeOK, Planning
<1>4. \A u \in {"runtime", "history", "analysis", "alias", "integration", "permission"} :
        Target[u] = t[u] /\ u \in ApiUnits /\ u \notin Unplanned \union {"mapping", "entitlements"}
  BY <1>1, <1>2 DEF ApiUnits, RetirementUnits, Unplanned
<1>5. \A u \in {"runtime", "history", "analysis", "alias", "integration", "permission"} :
        plan.after[u] = t[u]
  BY <1>3, <1>4 DEF PlanInv
<1>6. \A u \in ApiUnits : /\ u \notin Changed(plan) => plan.after[u] = plan.before[u]
                          /\ u \in Changed(plan) => plan.after[u] # plan.before[u]
                          /\ plan.before[u] \in ApiValues(u)
  BY <1>3, InApi DEF Changed, TypeOK, Planning, PlanInv
<1> QED BY <1>2, <1>3, <1>5, <1>6 DEF ApiChoices

\* What a reviewed plan leaves as it was: a retirement plans it all, the other kinds
\* neither the alias nor the history nor the way that analysis answers.
LEMMA ApiReviewed ==
  ASSUME TypeOK, PlanInv, Planning, review, world = "api", Consistent(plan.before)
  PROVE  /\ c.kind = "retirement" =>
              /\ \A u \in Required \union {"history"} : u \in Changed(plan)
              /\ plan.before["history"] = "legacy" /\ plan.before["runtime"] = "legacy"
              /\ plan.before["alias"].env = "none" /\ plan.before["analysis"].env # "replay"
              /\ plan.before["integration"] # "retired" /\ plan.before["permission"] # "retired"
         /\ c.kind # "retirement" =>
              /\ plan.before["history"] = "replay" /\ plan.before["runtime"] # "legacy"
              /\ plan.before["alias"] = plan.after["alias"]
              /\ plan.before["analysis"].env = "replay"
              /\ plan.before["integration"] = "retired" /\ plan.before["permission"] = "retired"
         /\ plan.before["analysis"].code = plan.after["analysis"].code
<1>1. /\ ApiReview(c, plan, committed)
      /\ {"runtime", "history", "analysis", "alias", "integration", "permission"} \subseteq ApiUnits
  BY Reviews DEF ApiUnits, RetirementUnits
<1>2. /\ plan.before["history"] \in {"legacy", "replay"}
      /\ plan.before["runtime"] \in {"legacy", "before-kms", "replay"}
      /\ plan.before["analysis"] \in Analysis
  BY <1>1, ApiPlan, ApiTypes
<1>3. CASE c.kind = "retirement"
  <2>1. /\ \A u \in Required \union {"history"} : u \in Changed(plan)
        /\ \A f \in {"code", "open"} : plan.before["analysis"][f] = plan.after["analysis"][f]
    BY <1>1, <1>3 DEF ApiReview, RetirementReview, BoundedShapes
  <2>2. /\ plan.before["history"] = "legacy"
        /\ plan.before["integration"] # "retired" /\ plan.before["permission"] # "retired"
        /\ plan.before["runtime"] # "replay" /\ plan.before["analysis"] # plan.after["analysis"]
    BY <1>1, <1>2, <2>1, ApiPlan DEF Required
  <2>3. plan.before["alias"].env = "none" /\ plan.before["runtime"] = "legacy"
    BY <1>2, <2>2 DEF Consistent
  <2>4. plan.before["analysis"].env # "replay"
    <3>1. PICK a \in Analysis : a = plan.before["analysis"]
      BY <1>2
    <3>2. /\ a.code = committed.code /\ a.open = committed.open
          /\ a # [code |-> committed.code, env |-> "replay", open |-> committed.open]
      BY <2>1, <2>2, <3>1, ApiPlan
    <3>3. a.env # "replay"
      BY <3>2 DEF Analysis
    <3> QED BY <3>1, <3>3
  <2> QED BY <1>3, <2>1, <2>2, <2>3, <2>4
<1>4. ASSUME \A u \in {"history", "alias", "integration", "permission"} : u \notin Changed(plan),
             plan.before["analysis"].env = plan.after["analysis"].env, c.kind # "retirement"
      PROVE  /\ plan.before["history"] = "replay" /\ plan.before["runtime"] # "legacy"
             /\ plan.before["alias"] = plan.after["alias"]
             /\ plan.before["analysis"].env = "replay"
             /\ plan.before["integration"] = "retired" /\ plan.before["permission"] = "retired"
             /\ plan.before["analysis"].code = plan.after["analysis"].code
  <2>1. /\ plan.before["history"] = "replay" /\ plan.before["alias"] = plan.after["alias"]
        /\ plan.before["integration"] = "retired" /\ plan.before["permission"] = "retired"
        /\ plan.before["analysis"].env = "replay" /\ plan.before["alias"].env = "replay"
        /\ plan.before["alias"].code = committed.code /\ plan.after["analysis"].code = committed.code
    BY <1>1, <1>4, ApiPlan
  <2> QED BY <2>1 DEF Consistent
<1>5. CASE c.kind = "repair"
  <2>1. Changed(plan) = {"runtime"}
    BY <1>1, <1>5 DEF ApiReview, RepairReview
  <2>2. plan.before["analysis"].env = plan.after["analysis"].env
    BY <1>1, <2>1, ApiPlan
  <2> QED BY <1>4, <1>5, <2>1, <2>2
<1>6. CASE c.kind = "research"
  BY <1>1, <1>4, <1>6 DEF ApiReview, ResearchReview, ResearchUnits
<1>7. CASE c.kind = "api"
  <2>1. Changed(plan) \intersect RetirementUnits = {}
    BY <1>1, <1>7 DEF ApiReview, ordinary_guard
  <2>2. plan.before["analysis"].env = plan.after["analysis"].env
    BY <1>1, <2>1, ApiPlan DEF RetirementUnits
  <2> QED BY <1>4, <1>7, <2>1, <2>2 DEF RetirementUnits
<1> QED BY <1>3, <1>5, <1>6, <1>7, ApiPlan

LEMMA ApiStep == Inv /\ [Next]_vars => ApiInv'
<1> SUFFICES ASSUME Inv, [Next]_vars, world = "api", hand' = {} PROVE ApiInv'
  BY WorldIsKept DEF ApiInv
<1>i. TypeOK /\ PlanInv /\ ReviewInv /\ ApiInv /\ UnitsTyped(live) /\ world \in Worlds
  BY TypedUnits DEF Inv, TypeOK
<1>h. hand = {}
  BY DEF Next, DispatchAny, Dispatch, SavePlan, Publish, Refuse, Ended, Authorize, ApplyAny,
         ApplyUnit, Finish, ApplyFails, ByHandAny, ByHand, LocalApply,
         Touched, LocalRefreshAny, LocalRefresh, Restamp, Merge, vars
<1>c. Consistent(live) /\ (Planning => Consistent(plan.before))
  BY <1>i, <1>h DEF ApiInv
<1>1. CASE live' = live /\ ((plan' = plan /\ (Planning' => Planning)) \/ ~ Planning')
  BY <1>1, <1>c DEF ApiInv
<1>2. CASE SavePlan
  <2>1. live' = live /\ plan' = PlanNow /\ Stack = ApiUnits
    BY <1>2, InApi DEF SavePlan, ApiStack
  <2>2. \A u \in {"alias", "history", "runtime", "analysis"} : plan'.before[u] = live[u]
    BY <2>1 DEF PlanNow, PlanOver, ApiUnits, RetirementUnits
  <2>3. Consistent(plan'.before)
    BY <1>c, <2>2 DEF Consistent
  <2> QED BY <1>c, <2>1, <2>3 DEF ApiInv
<1>3. ASSUME NEW u \in Units, ApplyUnit(u) PROVE ApiInv'
  <2>1. /\ UNCHANGED plan /\ pc = "applying" /\ u \in Changed(plan) \ done
        /\ live' = Settled([live EXCEPT ![u] = plan.after[u]])
        /\ After(u) \intersect Changed(plan) \subseteq done /\ done' = done \union {u}
    BY <1>3 DEF ApplyUnit
  <2>2. /\ Planning /\ review /\ Stack = ApiUnits /\ Units = ApiUnits
        /\ plan.after[u] \in ValuesOf(u) /\ since = {} /\ Consistent(plan.before)
    BY <1>c, <1>h, <1>i, <2>1, InApi
    DEF PlanInv, Planning, Changed, TypeOK, ApiStack, ReviewInv
  <2> DEFINE Four == {"runtime", "history", "analysis", "alias"}
  <2>3. Four \subseteq Units \ Computed /\ Four \subseteq Stack
    BY <2>2 DEF ApiUnits, RetirementUnits, Computed
  <2>4. \A v \in Four : live'[v] = IF v \in done' THEN plan.after[v] ELSE plan.before[v]
    <3>1. \A v \in Four : live[v] = IF v \in done THEN plan.after[v] ELSE plan.before[v]
      BY <1>i, <2>2, <2>3 DEF PlanInv
    <3>2. \A v \in Four : live'[v] = IF v = u THEN plan.after[u] ELSE live[v]
      BY <1>i, <2>1, <2>2, <2>3, OneUnit
    <3> QED BY <2>1, <3>1, <3>2
  <2>5. Consistent(live')
    <3>1. CASE c.kind = "retirement"
      <4>1. "alias" \in done' => \A v \in {"runtime", "history", "analysis"} : v \in done'
        <5>1. After("alias") = {"runtime", "history", "analysis"}
          BY InApi DEF ApiAfter
        <5>2. {"runtime", "history", "analysis"} \subseteq Changed(plan)
          BY <1>i, <2>2, <3>1, ApiReviewed DEF Required
        <5> QED BY <1>i, <2>1, <5>1, <5>2 DEF ReviewInv
      <4>2. /\ plan.before["alias"].env = "none" /\ plan.before["runtime"] = "legacy"
            /\ plan.after["runtime"] = "replay" /\ plan.after["history"] = "replay"
            /\ plan.after["analysis"].env = "replay"
            /\ plan.after["alias"].code = plan.after["analysis"].code
        BY <1>i, <2>2, <3>1, ApiReviewed, ApiPlan
      <4> QED BY <2>4, <4>1, <4>2 DEF Consistent
    <3>2. CASE c.kind # "retirement"
      <4>1. /\ plan.before["history"] = "replay" /\ plan.before["runtime"] # "legacy"
            /\ plan.before["alias"] = plan.after["alias"]
            /\ plan.before["analysis"].env = "replay"
            /\ plan.before["analysis"].code = plan.after["analysis"].code
            /\ plan.after["runtime"] = "replay" /\ plan.after["history"] = "replay"
            /\ plan.after["analysis"].env = "replay"
            /\ plan.after["alias"].code = plan.after["analysis"].code
        BY <1>i, <2>2, <3>2, ApiReviewed, ApiPlan
      <4> QED BY <2>4, <4>1 DEF Consistent
    <3> QED BY <3>1, <3>2
  <2> QED BY <2>1, <2>2, <2>5 DEF ApiInv
<1>4. ASSUME NEW choice \in Choices, NEW apply \in BOOLEAN, Dispatch(choice, apply) PROVE ApiInv'
  BY <1>1, <1>4 DEF Dispatch, Planning
<1>5. ASSUME NEW verdict, Ended(verdict) PROVE ApiInv'
  BY <1>1, <1>5 DEF Ended, Planning
<1>6. ASSUME Authorize \/ Merge \/ LocalRefreshAny \/ UNCHANGED vars PROVE ApiInv'
  BY <1>1, <1>6 DEF Authorize, Merge, LocalRefreshAny, LocalRefresh, vars, Planning
<1>7. ~ Restamp /\ ~ ByHandAny
  BY DEF Restamp, ByHandAny, ByHand, LocalApply, Touched
<1> QED
  BY <1>2, <1>3, <1>4, <1>5, <1>6, <1>7
  DEF Next, DispatchAny, Publish, Refuse, ApplyAny, Finish, ApplyFails

-----------------------------------------------------------------------------
(* The invariant *)

LEMMA StartIsTyped ==
  ASSUME Init
  PROVE  /\ world \in Worlds /\ UnitsTyped(live)
         /\ world = "play" => \A s \in Billed(live) : CoversErasure(live, s)
         /\ world = "api" => Consistent(live)
<1>1. world \in Worlds /\ live \in Inits(world)
  BY DEF Init
<1>2. CASE world = "play"
  <2>1. PICK s \in Subjects, b \in BOOLEAN :
          live = [handoff |-> [pinned |-> TRUE, mode |-> IF b THEN "verification" ELSE "inactive",
                               subject |-> IF b THEN s ELSE Nobody],
                  mirror |-> "declared", ingress |-> Nobody, worker |-> Nobody, schedule |-> FALSE,
                  deletion |-> [admitted |-> {s}, running |-> TRUE],
                  mapping |-> [stamp |-> 0, configured |-> TRUE], storage |-> TRUE]
    BY <1>1, <1>2 DEF Inits, BillingInit
  <2>2. DOMAIN live = BillingUnits /\ live["mirror"] = "declared"
    BY <2>1 DEF BillingUnits
  <2>3. /\ live["handoff"] \in Handoff /\ live["deletion"] \in Deletion
        /\ live["mapping"] \in [stamp : {0, 1}, configured : BOOLEAN]
    BY <2>1 DEF Handoff, Deletion
  <2>4. live["schedule"] \in BOOLEAN /\ live["storage"] \in BOOLEAN
    BY <2>1
  <2>5. live["ingress"] = Nobody /\ live["worker"] = Nobody
    BY <2>1
  <2>6. /\ live["handoff"] \in BillingValues("handoff") /\ live["mirror"] \in BillingValues("mirror")
        /\ live["deletion"] \in BillingValues("deletion")
        /\ live["mapping"] \in BillingValues("mapping")
        /\ live["ingress"] \in BillingValues("ingress") /\ live["worker"] \in BillingValues("worker")
    BY <2>2, <2>3, <2>5, BillingTypes
  <2>7. live["schedule"] \in BillingValues("schedule") /\ live["storage"] \in BillingValues("storage")
    BY <2>4, BillingTypes, Zenon
  <2>8. UnitsTyped(live)
    BY <1>2, <2>2, <2>6, <2>7, InPlay DEF UnitsTyped, BillingUnits
  <2>9. \A x \in Billed(live) : CoversErasure(live, x)
    BY <2>1 DEF Billed, CoversErasure
  <2> QED BY <1>1, <1>2, <2>2, <2>8, <2>9 DEF BillingUnits
<1>3. CASE world = "authority"
  <2>1. PICK e \in Entitlements :
          live = [entitlements |-> e, recovery |-> FALSE, rule |-> FALSE,
                  operator |-> e.release # "baseline", reader |-> {Member}]
    BY <1>1, <1>3 DEF Inits, AuthorityInit, Entitlements, Accounts
  <2>2. /\ DOMAIN live = AuthorityUnits /\ live["entitlements"] \in Entitlements
        /\ live["reader"] \in SUBSET Accounts
        /\ live["recovery"] \in BOOLEAN /\ live["rule"] \in BOOLEAN /\ live["operator"] \in BOOLEAN
    BY <2>1 DEF AuthorityUnits, Accounts
  <2>3. /\ live["entitlements"] \in AuthorityValues("entitlements")
        /\ live["reader"] \in AuthorityValues("reader")
        /\ live["recovery"] \in AuthorityValues("recovery")
        /\ live["rule"] \in AuthorityValues("rule")
        /\ live["operator"] \in AuthorityValues("operator")
    BY <2>2, AuthorityTypes, Zenon
  <2> QED BY <1>1, <1>3, <2>2, <2>3, InAuthority DEF UnitsTyped, AuthorityUnits
<1>4. CASE world = "history"
  <2>1. PICK i \in BOOLEAN, s \in Subjects \union {Nobody} :
          live = [index |-> i, policy |-> s,
                  reader |-> [mode |-> IF s = Nobody THEN "inactive" ELSE "list", subject |-> s],
                  invoke |-> TRUE, settlement |-> FALSE,
                  view |-> [policy |-> s, foreign |-> FALSE], grant |-> FALSE]
    BY <1>1, <1>4 DEF Inits, HistoryInit
  <2>2. /\ DOMAIN live = HistoryUnits
        /\ live["policy"] \in Subjects \union {Nobody}
        /\ live["reader"] \in [mode : ReaderModes, subject : Subjects \union {Nobody}]
        /\ live["view"] \in [policy : Subjects \union {Nobody}, foreign : BOOLEAN]
    BY <2>1 DEF HistoryUnits, ReaderModes
  <2>3. /\ live["index"] \in BOOLEAN /\ live["invoke"] \in BOOLEAN
        /\ live["settlement"] \in BOOLEAN /\ live["grant"] \in BOOLEAN
    BY <2>1
  <2>4. /\ live["index"] \in HistoryValues("index") /\ live["invoke"] \in HistoryValues("invoke")
        /\ live["settlement"] \in HistoryValues("settlement")
        /\ live["grant"] \in HistoryValues("grant")
    BY <2>3, HistoryTypes, Zenon
  <2>5. /\ live["policy"] \in HistoryValues("policy") /\ live["reader"] \in HistoryValues("reader")
        /\ live["view"] \in HistoryValues("view")
    BY <2>2, HistoryTypes, Zenon
  <2> QED BY <1>1, <1>4, <2>2, <2>4, <2>5, InHistory DEF UnitsTyped, HistoryUnits
<1>5. CASE world = "api"
  <2>1. PICK code \in Packages, open \in BOOLEAN, env \in {"legacy", "replay"},
             route \in {"unqualified", "retired"}, runtime \in {"legacy", "before-kms"} :
          /\ live = Deployment(code, code, open, route, env, runtime)
          /\ runtime = "before-kms" => env = "replay"
          /\ env = "replay" => runtime # "legacy"
    <3>0. live \in ApiInit
      BY <1>1, <1>5 DEF Inits
    <3>1. \/ \E code \in Packages, open \in BOOLEAN :
               live = Deployment(code, code, open, "unqualified", "legacy", "legacy")
          \/ \E code \in Packages :
               live = Deployment(code, code, TRUE, "retired", "replay", "before-kms")
      BY <3>0 DEF ApiInit, Deployment, Version
    <3>2. CASE \E code \in Packages, open \in BOOLEAN :
                 live = Deployment(code, code, open, "unqualified", "legacy", "legacy")
      BY <3>2
    <3>3. CASE \E code \in Packages :
                 live = Deployment(code, code, TRUE, "retired", "replay", "before-kms")
      <4>1. TRUE \in BOOLEAN
        OBVIOUS
      <4> QED BY <3>3, <4>1
    <3> QED BY <3>1, <3>2, <3>3
  <2>2. /\ DOMAIN live = ApiUnits /\ live["runtime"] = runtime /\ live["history"] = env
        /\ live["analysis"] = [code |-> code, env |-> env, open |-> open]
        /\ live["alias"] = [code |-> code, env |-> IF env = "legacy" THEN "none" ELSE env]
        /\ live["integration"] = route /\ live["permission"] = route /\ live["stage"] = route
        /\ live["participation"] = [code |-> code, open |-> open]
        /\ live["view"] = [history |-> env, period |-> env = "legacy", foreign |-> FALSE]
    BY <2>1 DEF Deployment, Version, ApiUnits, RetirementUnits
  <2>3. live["period"] \in BOOLEAN
    BY <2>1 DEF Deployment
  <2>4. /\ live["analysis"] \in Analysis /\ live["alias"] \in Served
        /\ live["participation"] \in [code : Packages, open : BOOLEAN]
        /\ live["view"] \in [history : {"legacy", "replay"}, period : BOOLEAN, foreign : BOOLEAN]
    BY <2>2 DEF Analysis, Served
  <2>5. /\ live["period"] \in ApiValues("period") /\ live["analysis"] \in ApiValues("analysis")
        /\ live["alias"] \in ApiValues("alias") /\ live["view"] \in ApiValues("view")
        /\ live["participation"] \in ApiValues("participation")
    BY <2>3, <2>4, ApiTypes, Zenon
  <2>6. /\ live["runtime"] \in ApiValues("runtime") /\ live["history"] \in ApiValues("history")
        /\ live["integration"] \in ApiValues("integration")
        /\ live["permission"] \in ApiValues("permission") /\ live["stage"] \in ApiValues("stage")
    BY <2>2, ApiTypes
  <2>7. UnitsTyped(live)
    <3>1. ApiUnits = {"runtime", "history", "analysis", "alias", "integration", "permission",
                      "period", "participation", "view", "stage"}
      BY DEF ApiUnits, RetirementUnits
    <3>2. \A u \in ApiUnits : live[u] \in ApiValues(u)
      BY <2>5, <2>6, <3>1
    <3> QED BY <1>5, <2>2, <3>2, InApi DEF UnitsTyped
  <2>8. Consistent(live)
    BY <2>1, <2>2 DEF Consistent
  <2> QED BY <1>1, <1>5, <2>7, <2>8
<1> QED BY <1>1, <1>2, <1>3, <1>4, <1>5 DEF Worlds

LEMMA InvInit == Init => Inv
<1> SUFFICES ASSUME Init PROVE Inv
  OBVIOUS
<1>1. /\ run = NoRun /\ pc = "idle" /\ captured = live /\ plan = NoPlan /\ done = {}
      /\ approved = None /\ hand = {} /\ since = {} /\ report = "none" /\ runs = 0 /\ troubles = 0
      /\ recorded \in IF world = "play" THEN {live, [live EXCEPT !["mirror"] = "older"]} ELSE {live}
      /\ committed \in CommittedAfter(world, live)
  BY DEF Init
<1>2. UnitsTyped(recorded)
  <2>1. CASE recorded = live
    BY <2>1, StartIsTyped
  <2>2. CASE world = "play" /\ recorded = [live EXCEPT !["mirror"] = "older"]
    <3>1. "older" \in ValuesOf("mirror")
      BY <2>2, InPlay, BillingTypes
    <3> QED BY <2>2, <3>1, StartIsTyped DEF UnitsTyped
  <2> QED BY <1>1, <2>1, <2>2
<1>3. TypeOK
  <2>1. Changed(plan) = {}
    BY <1>1 DEF Changed, NoPlan
  <2>2. runs \in 0..MaxRuns[world] /\ troubles \in 0..MaxTroubles[world]
    BY <1>1, StartIsTyped, WorldsAssumption
  <2> QED BY <1>1, <1>2, <2>1, <2>2, StartIsTyped DEF TypeOK, UnitsTyped
<1>4. CommittedOK
  BY <1>1, StartIsTyped, CommittedIsTyped DEF CommittedOK
<1>5. PlanInv /\ ReviewInv /\ ReportInv /\ HistoryInv
  BY <1>1 DEF PlanInv, ReviewInv, ReportInv, HistoryInv, Planning
<1>6. PlayInv
  BY <1>1, StartIsTyped DEF PlayInv, BilledAreErasable
<1>7. ApiInv
  BY <1>1, StartIsTyped DEF ApiInv, Planning
<1> QED BY <1>3, <1>4, <1>5, <1>6, <1>7 DEF Inv

LEMMA InvStep == Inv /\ [Next]_vars => Inv'
  BY TypeStep, CommittedStep, PlanStep, ReviewStep, ReportStep, PlayStep, HistoryStep, ApiStep
  DEF Inv

LEMMA Invariance == Spec => []Inv
  BY InvInit, InvStep, PTL DEF Spec

-----------------------------------------------------------------------------
(* What holds of the releases *)

\* Every variable has its type; a saved plan is over the stack of its run.
THEOREM ReleasesAreTyped == Spec => []TypeOK
<1>1. Inv => TypeOK
  BY DEF Inv
<1> QED BY <1>1, Invariance, PTL

\* Whoever billing admits is admitted by a running token deletion, unless a hand
\* changed one of the four functions.
THEOREM WhoeverIsBilledIsErasable == Spec => []BilledAreErasable
<1>1. Inv => BilledAreErasable
  BY DEF Inv, PlayInv, BilledAreErasable
<1> QED BY <1>1, Invariance, PTL

\* No run of the api begins to apply over a retirement that is half applied.
THEOREM HalfAppliedIsLeftToAHand == Spec => []HalfAppliedNeedsAHand
<1>1. Inv => HalfAppliedNeedsAHand
  <2> SUFFICES ASSUME Inv, world = "api", hand = {}, pc = "applying", done = {}
               PROVE  \/ \A u \in Required \union {"history"} : ~ Begun(u)
                      \/ \A u \in Required \union {"history"} : Begun(u)
    BY DEF HalfAppliedNeedsAHand
  <2>1. /\ TypeOK /\ PlanInv /\ Planning /\ review /\ Consistent(plan.before) /\ since = {}
    BY DEF Inv, ReviewInv, ApiInv, Planning, TypeOK
  <2>2. \A u \in Required \union {"history"} : live[u] = plan.before[u]
    <3>1. Stack = ApiUnits
      BY <2>1, ApiPlan
    <3> QED BY <2>1, <3>1 DEF PlanInv, Required, Computed, ApiUnits, RetirementUnits
  <2>3. CASE c.kind = "retirement"
    <3>1. /\ plan.before["history"] = "legacy" /\ plan.before["runtime"] = "legacy"
          /\ plan.before["alias"].env = "none" /\ plan.before["analysis"].env # "replay"
          /\ plan.before["integration"] # "retired" /\ plan.before["permission"] # "retired"
      BY <2>1, <2>3, ApiReviewed
    <3> QED BY <2>2, <3>1 DEF Begun, Required
  <2>4. CASE c.kind # "retirement"
    <3>1. /\ plan.before["history"] = "replay" /\ plan.before["runtime"] # "legacy"
          /\ plan.before["alias"].env = "replay" /\ plan.before["analysis"].env = "replay"
          /\ plan.before["integration"] = "retired" /\ plan.before["permission"] = "retired"
      BY <2>1, <2>4, ApiReviewed, ApiPlan
    <3> QED BY <2>2, <3>1 DEF Begun, Required
  <2> QED BY <2>3, <2>4
<1> QED BY <1>1, Invariance, PTL

LEMMA AppliesAUnit ==
  ASSUME [Next]_vars, NEW u, Applies(u)
  PROVE  u \in Units /\ ApplyUnit(u)
<1>1. PICK v \in Units : ApplyUnit(v)
  BY DEF Applies, Next, DispatchAny, Dispatch, SavePlan, Publish, Refuse, Ended, Authorize,
         ApplyAny, Finish, ApplyFails, ByHandAny, ByHand, LocalApply,
         Touched, LocalRefreshAny, LocalRefresh, Restamp, Merge, vars
<1> QED BY <1>1 DEF Applies, ApplyUnit

\* The event source mapping is in a plan for what AWS computes of it alone.
LEMMA MappingIsNotChanged ==
  ASSUME TypeOK, PlanInv, Planning, review
  PROVE  "mapping" \notin Changed(plan) /\ Changed(plan) \intersect Unplanned = {}
<1>1. Changed(plan) \subseteq Stack /\ Stack \subseteq Units /\ world \in Worlds /\ c \in Choices
  BY StackIsOfUnits DEF TypeOK, Planning, Changed
<1>2. Changed(plan) \intersect Unplanned = {}
  BY <1>1 DEF PlanInv, Changed
<1>3. CASE world = "play"
  BY <1>2, <1>3, PlayPlan
<1>4. CASE world # "play"
  BY <1>1, <1>2, <1>4, InAuthority, InHistory, InApi
  DEF Worlds, AuthorityUnits, HistoryUnits, ApiUnits, RetirementUnits
<1> QED BY <1>3, <1>4

\* A unit is applied as planned, over what the plan saw, unless it was changed since.
LEMMA AppliedAsPlanned ==
  ASSUME Inv, [Next]_vars, NEW u, Applies(u)
  PROVE  /\ u \in Changed(plan) /\ u \in Stack /\ u \in Units
         /\ u \notin Computed
         /\ live'[u] = plan.after[u]
         /\ live[u] = plan.before[u] \/ u \in since
         /\ review /\ (Ordinary(c) \/ approved = Digest)
         /\ \A v \in Units \ Computed : v # u => live'[v] = live[v]
<1>1. /\ TypeOK /\ PlanInv /\ ReviewInv /\ UnitsTyped(live) /\ world \in Worlds
      /\ u \in Units /\ ApplyUnit(u)
  BY AppliesAUnit, TypedUnits DEF Inv, TypeOK
<1>2. /\ pc = "applying" /\ u \in Changed(plan) \ done
      /\ live' = Settled([live EXCEPT ![u] = plan.after[u]])
  BY <1>1 DEF ApplyUnit
<1>3. /\ Planning /\ review /\ (Ordinary(c) \/ approved = Digest)
      /\ u \in Stack /\ plan.after[u] \in ValuesOf(u)
  BY <1>1, <1>2 DEF Planning, ReviewInv, TypeOK, PlanInv, Changed
<1>4. u \notin Computed
  BY <1>1, <1>2, <1>3, MappingIsNotChanged DEF Computed, Unplanned
<1>5. live[u] = plan.before[u] \/ u \in since
  BY <1>1, <1>2, <1>3, <1>4 DEF PlanInv
<1>6. \A v \in Units \ Computed : live'[v] = IF v = u THEN plan.after[u] ELSE live[v]
  BY <1>1, <1>2, <1>3, OneUnit
<1> QED BY <1>1, <1>2, <1>3, <1>4, <1>5, <1>6

\* A reviewed run changes a unit to what the approved digest says, from what the
\* reviewer saw, unless somebody changed it after the plan was saved.
THEOREM WhatWasReviewedIsApplied == Spec => OverwritesWhatWasReviewed
<1>1. ASSUME Inv, [Next]_vars, NEW u, Applies(u), ~ Ordinary(c)
      PROVE  /\ approved.choice = c /\ u \in Changed(approved.plan)
             /\ live'[u] = approved.plan.after[u]
             /\ live[u] = approved.plan.before[u] \/ u \in since
  <2>1. approved.choice = c /\ approved.plan = plan
    BY <1>1, AppliedAsPlanned DEF Digest
  <2> QED BY <1>1, <2>1, AppliedAsPlanned
<1>2. Inv /\ [Next]_vars =>
        [\A u \in Units : Applies(u) /\ ~ Ordinary(c) =>
           /\ approved.choice = c /\ u \in Changed(approved.plan) /\ live'[u] = approved.plan.after[u]
           /\ live[u] = approved.plan.before[u] \/ u \in since]_vars
  BY <1>1
<1> QED BY <1>2, Invariance, PTL DEF Spec, OverwritesWhatWasReviewed

\* A run reports success only where everything it changed is as approved.
THEOREM WhatPassedIsDeployed == Spec => PassedIsDeployed
<1>1. ASSUME Inv, [Next]_vars, pc = "applying", report' = "passed", ~ Ordinary(c),
             c.kind # "cohort", NEW u \in Changed(plan)
      PROVE  live[u] = approved.plan.after[u]
  <2>1. Finish /\ Changed(PlanNow) = {} /\ done = Changed(plan)
    <3>1. Finish
      BY <1>1 DEF Inv, ReportInv, Next, DispatchAny, Dispatch, SavePlan, Publish, Refuse,
                  Authorize, ApplyAny, ApplyUnit, ApplyFails, Ended, ByHandAny, ByHand, LocalApply,
                  Touched, LocalRefreshAny, LocalRefresh, Restamp, Merge, vars
    <3>2. Passes
      BY <1>1, <3>1 DEF Finish, Ended
    <3> QED BY <1>1, <3>1, <3>2 DEF Passes, Finish
  <2>2. /\ TypeOK /\ CommittedOK /\ PlanInv /\ ReviewInv /\ Planning /\ review
        /\ u \in Stack /\ u \in done
    BY <1>1, <2>1 DEF Inv, ReviewInv, Planning, TypeOK, Changed
  <2>3. approved.plan = plan
    BY <1>1, <2>2 DEF ReviewInv, Digest
  <2>4. live[u] = Target[u]
    BY <1>1, <2>1, <2>2, PlanNowIsTyped DEF Changed
  <2>5. u \notin Unplanned \union {"mapping"}
    BY <1>1, <2>2, MappingIsNotChanged
  <2>6. CASE u # "entitlements"
    BY <2>2, <2>3, <2>4, <2>5, <2>6 DEF PlanInv
  <2>7. CASE u = "entitlements"
    <3>1. /\ world = "authority" /\ plan.after[u] = Wanted /\ ~ plan.after[u].numbered18
          /\ ~ live[u].numbered18
      BY <1>1, <2>2, <2>7, ChangedIsUnnumbered DEF ReviewInv
    <3>2. live[u] \in Entitlements /\ Wanted \in Entitlements
      BY <2>2, <2>7, <3>1, InAuthority, AuthorityTypes, StackIsOfUnits
      DEF TypeOK, PlanInv, Planning
    <3>3. live[u] = Published(Wanted, live)
      BY <1>1, <2>2, <2>4, <2>7, <3>1, PublishedIsWanted
    <3>4. PICK e \in Entitlements, w \in Entitlements :
            e = live[u] /\ w = Wanted /\ e.numbered18 = FALSE /\ w.numbered18 = FALSE
      BY <3>1, <3>2 DEF Entitlements
    <3>5. [w EXCEPT !.numbered18 = e.numbered18] = w
      BY <3>4 DEF Entitlements
    <3>6. e = w
      BY <2>7, <3>3, <3>4, <3>5 DEF Published
    <3> QED BY <2>3, <3>1, <3>4, <3>6
  <2> QED BY <2>6, <2>7
<1>2. Inv /\ [Next]_vars =>
        [pc = "applying" /\ report' = "passed" /\ ~ Ordinary(c) /\ c.kind # "cohort" =>
           \A u \in Changed(plan) : live[u] = approved.plan.after[u]]_vars
  BY <1>1
<1> QED BY <1>2, Invariance, PTL DEF Spec, PassedIsDeployed

\* Tfvars that lag what is deployed take nothing from the authority, but in the two
\* kinds of run that set its environment whole.
THEOREM StaleTfvarsAreHarmless == Spec => StaleTfvarsTakeNothing
<1>1. ASSUME Inv, [Next]_vars, NEW u \in {"entitlements", "recovery"}, world = "authority",
             Applies(u), u \notin since, c.kind \notin {"trial", "operator"}
      PROVE  /\ live["recovery"] => live'["recovery"]
             /\ live["entitlements"].release = "snapshot"
                  => live'["entitlements"].release = "snapshot"
             /\ live["entitlements"].extra
                  \subseteq live'["entitlements"].extra \union live'["entitlements"].subjects
  <2>1. /\ TypeOK /\ PlanInv /\ Planning /\ u \in Changed(plan) /\ u \in Stack
        /\ live'[u] = plan.after[u] /\ live[u] = plan.before[u] /\ review
        /\ \A v \in Units \ Computed : v # u => live'[v] = live[v]
    BY <1>1, AppliedAsPlanned DEF Inv, Planning, Applies
  <2>2. /\ AuthorityReview(c, captured, plan)
        /\ c.kind \in {"access", "cohort", "snapshot", "maintenance"}
        /\ Target = AuthorityTarget(c, live, captured, committed)
        /\ {"entitlements", "recovery"} \subseteq Units \ Computed
    BY <1>1, <2>1, Reviews, InAuthority
    DEF TypeOK, Planning, AuthorityChoices, AuthorityUnits, Computed
  <2>3. CASE u = "recovery"
    <3>1. c.kind = "maintenance"
      BY <2>1, <2>2, <2>3 DEF AuthorityReview, AccessReview, CohortReview, SnapshotReview
    <3>2. Target["recovery"] = TRUE
      <4> DEFINE base == AuthorityBase(Published(captured["entitlements"], live), TRUE)
      <4>1. Target = [base EXCEPT !["operator"] = captured["operator"]]
        BY <2>2, <3>1 DEF AuthorityTarget
      <4>2. "recovery" \in DOMAIN base /\ base["recovery"] = TRUE
        BY DEF AuthorityBase
      <4> HIDE DEF base
      <4> QED BY <4>1, <4>2
    <3>3. live'["recovery"] = TRUE
      BY <2>1, <2>3, <3>2 DEF PlanInv, Unplanned
    <3>4. live'["entitlements"] = live["entitlements"]
      BY <2>1, <2>2, <2>3
    <3> QED BY <3>3, <3>4
  <2>4. CASE u = "entitlements"
    <3>1. live'["recovery"] = live["recovery"]
      BY <2>1, <2>2, <2>4
    <3> DEFINE before == plan.before["entitlements"]
               after == plan.after["entitlements"]
    <3>2. before \in Entitlements /\ after \in Entitlements
      BY <1>1, <2>1, <2>4, InAuthority, AuthorityTypes DEF PlanInv
    <3>3. /\ before.release = "snapshot" => after.release = "snapshot"
          /\ before.extra \subseteq after.extra \union after.subjects
      <4>1. CASE c.kind = "access"
        BY <2>2, <4>1 DEF AuthorityReview, AccessReview
      <4>2. CASE c.kind = "cohort"
        <5>1. /\ after = [before EXCEPT !.subjects = c.subjects, !.extra = {}, !.numbered18 = FALSE]
              /\ c.subjects = before.subjects \union before.extra
          BY <2>2, <4>2 DEF AuthorityReview, CohortReview
        <5> HIDE DEF before, after
        <5>2. after.release = before.release /\ after.subjects = c.subjects
          BY <3>2, <5>1 DEF Entitlements
        <5> QED BY <5>1, <5>2
      <4>3. CASE c.kind = "snapshot"
        BY <2>2, <4>3 DEF AuthorityReview, SnapshotReview
      <4>4. CASE c.kind = "maintenance"
        BY <2>1, <2>2, <2>4, <4>4 DEF AuthorityReview, MaintenanceReview
      <4> QED BY <2>2, <4>1, <4>2, <4>3, <4>4
    <3> QED BY <2>1, <2>4, <3>1, <3>3
  <2> QED BY <2>3, <2>4
<1>2. Inv /\ [Next]_vars =>
        [\A u \in {"entitlements", "recovery"} : world = "authority" /\ Applies(u) /\ u \notin since
           /\ c.kind \notin {"trial", "operator"} =>
           /\ live["recovery"] => live'["recovery"]
           /\ live["entitlements"].release = "snapshot" => live'["entitlements"].release = "snapshot"
           /\ live["entitlements"].extra \subseteq live'["entitlements"].extra \union live'["entitlements"].subjects]_vars
  BY <1>1
<1> QED BY <1>2, Invariance, PTL DEF Spec, StaleTfvarsTakeNothing

\* As long as no hand interferes, no run of the api changes the package of analysis.
THEOREM NoRunReplacesAnalysis == Spec => AnalysisPackageStays
<1>1. ASSUME Inv, [Next]_vars, world = "api", pc = "applying", hand = {}, hand' = {}
      PROVE  live'["analysis"].code = live["analysis"].code
  <2>1. /\ TypeOK /\ PlanInv /\ Planning /\ review /\ Consistent(plan.before) /\ since = {}
        /\ "analysis" \in Units \ Computed
    BY <1>1, InApi
    DEF Inv, ReviewInv, ApiInv, Planning, TypeOK, ApiUnits, RetirementUnits, Computed
  <2>2. CASE ApplyAny
    <3>1. PICK u \in Units : Applies(u)
      BY <1>1, <2>2 DEF ApplyAny, ApplyUnit, Applies
    <3>2. CASE u = "analysis"
      <4>1. live'[u] = plan.after[u] /\ live[u] = plan.before[u]
        BY <1>1, <2>1, <3>1, AppliedAsPlanned
      <4>2. plan.before["analysis"].code = plan.after["analysis"].code
        BY <1>1, <2>1, ApiReviewed
      <4> QED BY <3>2, <4>1, <4>2
    <3>3. CASE u # "analysis"
      BY <1>1, <2>1, <3>1, <3>3, AppliedAsPlanned
    <3> QED BY <3>2, <3>3
  <2>3. CASE ~ ApplyAny
    BY <1>1, <2>3 DEF Next, DispatchAny, Dispatch, SavePlan, Publish, Refuse, Authorize, Finish,
       ApplyFails, Ended, ByHandAny, ByHand, LocalApply,
       Touched, LocalRefreshAny, LocalRefresh, Restamp, Merge, vars
  <2> QED BY <2>2, <2>3
<1>2. Inv /\ [Next]_vars =>
        [world = "api" /\ pc = "applying" /\ hand = {} =>
           live'["analysis"].code = live["analysis"].code \/ hand' # {}]_vars
  BY <1>1
<1> QED BY <1>2, Invariance, PTL DEF Spec, AnalysisPackageStays

\* Settlement and an active reader are released over a live index, unless a hand is on it.
THEOREM ReadersBeginOverIndex == Spec => BeginsOverIndex
<1>1. ASSUME Inv, [Next]_vars, NEW u \in {"reader", "settlement"}, world = "history", Applies(u),
             "index" \notin hand, IF u = "reader" THEN live'[u].mode # "inactive" ELSE live'[u]
      PROVE  live["index"]
  <2>1. /\ TypeOK /\ PlanInv /\ Planning /\ u \in Stack /\ live'[u] = plan.after[u]
        /\ pc # "idle" /\ HistoryInv
    BY <1>1, AppliedAsPlanned DEF Inv, Planning, Applies
  <2>2. /\ Stack = HistoryStack(c) /\ Target = HistoryTarget(c, live, committed)
        /\ c.kind \in {"index", "reader", "message", "foundation"}
    BY <1>1, <2>1, InHistory DEF TypeOK, HistoryChoices, Scopes
  <2>3. plan.after[u] = Target[u]
    BY <2>1 DEF PlanInv, Unplanned
  <2>4. OverIndex(c)
    <3>1. CASE u = "reader"
      <4>1. c.kind = "reader"
        BY <2>1, <2>2, <3>1 DEF HistoryStack
      <4>2. Target[u].mode = c.mode
        BY <2>2, <3>1, <4>1 DEF HistoryTarget, ReaderTarget
      <4> QED BY <1>1, <2>1, <2>3, <3>1, <4>1, <4>2 DEF OverIndex, ActiveReader
    <3>2. CASE u = "settlement"
      <4>1. c.kind = "message"
        BY <2>1, <2>2, <3>2 DEF HistoryStack
      <4>2. Target[u] = (c.mode = "rules-only-history")
        BY <2>2, <3>2, <4>1 DEF HistoryTarget
      <4> QED BY <1>1, <2>1, <2>3, <3>2, <4>1, <4>2 DEF OverIndex
    <3> QED BY <3>1, <3>2
  <2> QED BY <1>1, <2>1, <2>4 DEF HistoryInv
<1>2. Inv /\ [Next]_vars =>
        [\A u \in {"reader", "settlement"} : world = "history" /\ Applies(u) /\ "index" \notin hand =>
           LET on == IF u = "reader" THEN live'[u].mode # "inactive" ELSE live'[u] IN on => live["index"]]_vars
  BY <1>1
<1> QED BY <1>2, Invariance, PTL DEF Spec, BeginsOverIndex

\* No reader is released while there is a grant that nobody reviewed, and no handoff
\* over a policy that its plan could see and that no local apply has put into the
\* state; nor does the handoff put one there.
THEOREM NothingForeignIsReleasedOver == Spec => NoForeignGrant
<1>1. ASSUME Inv, [Next]_vars, pc = "saved", pc' = "applying"
      PROVE  /\ c.kind = "reader" => ~ live["grant"] /\ ~ live["view"].foreign
             /\ c.kind = "handoff" /\ recorded["mirror"] # "foreign" =>
                  /\ live["mirror"] # "foreign" \/ "mirror" \in since
                  /\ recorded'["mirror"] # "foreign"
  <2>1. Authorize
    BY <1>1 DEF Next, DispatchAny, Dispatch, SavePlan, Publish, Refuse, ApplyAny, ApplyUnit, Finish,
       ApplyFails, Ended, ByHandAny, ByHand, LocalApply,
       Touched, LocalRefreshAny, LocalRefresh, Restamp, Merge, vars
  <2>2. /\ review /\ Ready /\ TypeOK /\ PlanInv /\ PlayInv /\ Planning
        /\ world \in Worlds /\ c \in Choices
    BY <1>1, <2>1 DEF Authorize, Authorized, Inv, Planning, TypeOK
  <2>p. world = "play" => c.kind \in {"handoff", "lifecycle", "cleanup"}
    BY <2>2, PlayPlan
  <2>a. world = "authority" =>
          c.kind \in {"trial", "access", "operator", "cohort", "snapshot", "maintenance"}
    BY <2>2, InAuthority DEF AuthorityChoices
  <2>h. world = "history" => c.kind \in {"index", "reader", "message", "foundation"}
    BY <2>2, InHistory DEF HistoryChoices, Scopes
  <2>i. world = "api" => c.kind \in {"retirement", "repair", "research", "api"}
    BY <2>2, ApiPlan
  <2>3. CASE c.kind = "reader"
    <3>1. world = "history"
      BY <2>2, <2>3, <2>p, <2>a, <2>i DEF Worlds
    <3> QED BY <2>2, <2>3, <3>1, Reviews DEF HistoryReady, verify_reader_preflight, RoleIsExclusive
  <2>4. CASE c.kind = "handoff" /\ recorded["mirror"] # "foreign"
    <3>1. world = "play" /\ "mirror" \in Units
      BY <2>2, <2>4, <2>a, <2>h, <2>i, InPlay DEF Worlds, BillingUnits
    <3>2. Stack = {"handoff", "mirror"} /\ DeclaredMirror(plan) /\ DOMAIN plan.before = Stack
      BY <2>2, <2>4, <3>1, PlayPlan, Reviews DEF BillingReview, HandoffReview, TypeOK, Planning
    <3>3. plan.before["mirror"] # "foreign"
      BY <1>1, <2>2, <2>4, <3>1, <3>2 DEF DeclaredMirror, Drift, PlayInv
    <3>4. "mirror" \notin since => live["mirror"] = plan.before["mirror"]
      BY <1>1, <2>2, <3>2 DEF PlanInv, Computed
    <3>5. recorded'["mirror"] = plan.before["mirror"]
      BY <2>1, <3>1, <3>2 DEF Authorize
    <3> QED BY <2>4, <3>3, <3>4, <3>5
  <2> QED BY <2>3, <2>4
<1>2. Inv /\ [Next]_vars =>
        [pc = "saved" /\ pc' = "applying" =>
           /\ c.kind = "reader" => ~ live["grant"] /\ ~ live["view"].foreign
           /\ c.kind = "handoff" /\ recorded["mirror"] # "foreign" =>
                /\ live["mirror"] # "foreign" \/ "mirror" \in since
                /\ recorded'["mirror"] # "foreign"]_vars
  BY <1>1
<1> QED BY <1>2, Invariance, PTL DEF Spec, NoForeignGrant
=============================================================================

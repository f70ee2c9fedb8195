------------------------------ MODULE PeriodKey ------------------------------
(***************************************************************************)
(* The create-only HMAC key operator, scripts/provision_campaign_period_   *)
(* key.py.  Every journal j stands for one reviewed plan file, the journal *)
(* file it is applied under, and the operator process working on them; the *)
(* process may stop at any point and be run again.  KMS, the period        *)
(* registry and the other users of the account are the environment.        *)
(*                                                                         *)
(* KMS keys are numbered in the order in which they come to exist, so a    *)
(* complete listing is a prefix 1..n of the keys, and NoKey is None.       *)
(* A clock() call before or after a request is a guard of that request.    *)
(***************************************************************************)
EXTENDS Integers, Sequences, FiniteSets

CONSTANTS Journals,         \* plan / journal pairs in use
          PERIOD_SECONDS,   \* length of a campaign period
          GRACE,            \* clock skew allowed to a recovered key (5 s)
          MaxTime,          \* bound on the clock
          MaxOutsideKeys,   \* bound on the keys others create
          Spoils,           \* what others may make of an eligible key
          MaxCrashes        \* bound on processes killed or out of time

ASSUME PeriodAssumption == PERIOD_SECONDS \in Nat \ {0}
ASSUME JournalsAssumption == "outsider" \notin Journals
ASSUME GraceAssumption == GRACE \in Nat
ASSUME SpoilsAssumption == Spoils \subseteq {"ineligible", "other"}
ASSUME BoundsAssumption == {MaxTime, MaxOutsideKeys, MaxCrashes} \subseteq Nat

VARIABLES now,        \* epoch seconds, one clock for all hosts
          keys,       \* KMS: customer keys in order of creation
          registry,   \* periods that have an HMAC_KEY row
          inflight,   \* journals whose CreateKey is sent and not yet executed
          requests,   \* history: CreateKey calls made under each journal
          acked,      \* history: journals whose CreateKey was acknowledged
          crashes,    \* processes killed so far
          overlapped, \* history: whether two operators ran at once
          plan,       \* the reviewed plan of each journal, or NoPlan
          disk,       \* the journal file
          pending,    \* whether the ".pending" temporary exists
          pc, after,  \* control point; where a save() returns to
          stage,      \* which call of discover() is running
          period,     \* the period the process works for
          doc,        \* the journal in the memory of the process
          horizon,    \* length of the listing discover() obtained
          seen,       \* listed keys discover() has examined
          match       \* keys discover() has accepted

world == <<now, keys, registry, inflight, requests, acked>>
memory == <<pc, after, stage, period, doc, horizon, seen, match>>
faults == <<crashes, overlapped>>
vars == <<now, keys, registry, inflight, requests, acked, crashes, overlapped, plan,
          disk, pending, pc, after, stage, period, doc, horizon, seen, match>>

-----------------------------------------------------------------------------
(* Plans, journals and key metadata *)

NoKey == 0
NoTime == -1
NoPlan == [mode |-> "none", period |-> 0, candidate |-> NoKey]
Outsider == "outsider"

Modes == {"none", "create", "reuse", "selection_required"}
Statuses == {"prepared", "create_attempted", "ambiguous", "key_identified", "verified"}
Kinds == {"eligible", "ineligible", "other"}
Plan == [mode : Modes, period : Nat, candidate : Nat]
Doc == [createAttempted : BOOLEAN, attemptedAt : Int, keyArn : Nat, status : Statuses]
Key == [kind : Kinds, period : Nat, created : Nat, by : Journals \union {Outsider}]

Labels == {"idle", "fresh", "check", "list", "examine", "create", "await",
           "final", "save", "replace"}
Returns == {"idle", "create", "created", "confirm", "list"}
Stages == {"plan", "first", "recover", "confirm"}

PeriodOf(t) == t \div PERIOD_SECONDS

fresh_journal == [createAttempted |-> FALSE, attemptedAt |-> NoTime,
                  keyArn |-> NoKey, status |-> "prepared"]

\* A journal path with nothing at it, or with a document cut short.
Missing == [fresh_journal EXCEPT !.status = "missing"]
Torn == [fresh_journal EXCEPT !.status = "torn"]
File == Doc \union {Missing, Torn}

\* The updates apply() makes to a journal.
Attempted(d, t) ==
  [d EXCEPT !.createAttempted = TRUE, !.attemptedAt = t, !.status = "create_attempted"]
Identified(d, k) == [d EXCEPT !.keyArn = k, !.status = "key_identified"]
WithStatus(d, s) == [d EXCEPT !.status = s]

\* What validate_journal accepts of a document bound to plan p.
validate_journal(d, p) ==
  /\ IF d.createAttempted
       THEN /\ p.mode = "create"
            /\ d.attemptedAt >= 0 /\ PeriodOf(d.attemptedAt) = p.period
            /\ d.status # "prepared"
       ELSE /\ d.attemptedAt = NoTime
            /\ d.status \in {"prepared", "key_identified", "verified"}
  /\ IF d.keyArn # NoKey
       THEN /\ d.status \in {"key_identified", "verified"}
            /\ d.createAttempted \/ (p.mode = "reuse" /\ d.keyArn = p.candidate)
       ELSE d.status \notin {"key_identified", "verified"}

\* A key carries the four tags of a period, possibly among others.
Tagged(k, p) == keys[k].kind # "other" /\ keys[k].period = p
\* validate_metadata: enabled, of the right type, and with no further tag.
Eligible(k) == keys[k].kind = "eligible"

Written(j) == disk[j].status \notin {"missing", "torn"}

clock(j) == PeriodOf(now) = period[j]
registry_absent(j) == clock(j) /\ period[j] \notin registry

\* Mutants: a recovery that ignores the creation time, or the known key.
RecoveredAnyAge(j, k) ==
  match[j] = {k} /\ doc[j].keyArn \in {NoKey, k}
RecoveredAnyKey(j, k) ==
  match[j] = {k} /\ keys[k].created >= doc[j].attemptedAt - GRACE

\* The key a retried or failed creation may claim (lines 152-154, 171-172).
Recovered(j, k) ==
  /\ match[j] = {k}
  /\ keys[k].created >= doc[j].attemptedAt - GRACE
  /\ doc[j].keyArn \in {NoKey, k}

-----------------------------------------------------------------------------
Init ==
  /\ now = 0 /\ keys = <<>> /\ registry = {} /\ inflight = {} /\ acked = {}
  /\ crashes = 0 /\ overlapped = FALSE
  /\ requests = [j \in Journals |-> 0]
  /\ plan = [j \in Journals |-> NoPlan]
  /\ disk = [j \in Journals |-> Missing]
  /\ pending = [j \in Journals |-> FALSE]
  /\ pc = [j \in Journals |-> "idle"]
  /\ after = [j \in Journals |-> "idle"]
  /\ stage = [j \in Journals |-> "plan"]
  /\ period = [j \in Journals |-> 0]
  /\ doc = [j \in Journals |-> fresh_journal]
  /\ horizon = [j \in Journals |-> 0]
  /\ seen = [j \in Journals |-> {}]
  /\ match = [j \in Journals |-> {}]

Goto(j, label) == pc' = [pc EXCEPT ![j] = label]

\* Set the in-memory journal and call save(), which returns to label.
Save(j, d, label) ==
  /\ doc' = [doc EXCEPT ![j] = d]
  /\ after' = [after EXCEPT ![j] = label]
  /\ Goto(j, "save")

\* Another process starts, perhaps beside one that runs.
Start ==
  /\ overlapped' = (overlapped \/ \E i \in Journals : pc[i] # "idle")
  /\ UNCHANGED crashes

-----------------------------------------------------------------------------
(* main(): a dry run that writes a plan, or the start of an apply *)

StartPlan(j) ==
  /\ pc[j] = "idle" /\ plan[j] = NoPlan /\ Start
  /\ period' = [period EXCEPT ![j] = PeriodOf(now)]
  /\ stage' = [stage EXCEPT ![j] = "plan"]
  /\ Goto(j, "check")
  /\ UNCHANGED <<world, plan, disk, pending, after, doc, horizon, seen, match>>

\* Lines 207-214: the plan is fixed by its digest; a leftover temporary or an
\* unreadable journal refuses the run.
StartApply(j) ==
  /\ pc[j] = "idle" /\ plan[j].mode \in {"create", "reuse"} /\ ~pending[j] /\ Start
  /\ period' = [period EXCEPT ![j] = plan[j].period]
  /\ stage' = [stage EXCEPT ![j] = "first"]
  /\ \/ /\ disk[j] = Missing
        /\ disk' = [disk EXCEPT ![j] = Torn]
        /\ Goto(j, "fresh")
        /\ UNCHANGED doc
     \/ /\ Written(j) /\ validate_journal(disk[j], plan[j])
        /\ doc' = [doc EXCEPT ![j] = disk[j]]
        /\ Goto(j, "check")
        /\ UNCHANGED disk
  /\ UNCHANGED <<world, plan, pending, after, horizon, seen, match>>

WriteFresh(j) ==
  /\ pc[j] = "fresh"
  /\ doc' = [doc EXCEPT ![j] = fresh_journal]
  /\ disk' = [disk EXCEPT ![j] = fresh_journal]
  /\ Goto(j, "check")
  /\ UNCHANGED <<world, faults, plan, pending, after, stage, period, horizon, seen, match>>

-----------------------------------------------------------------------------
(* registry_absent() and discover() *)

CheckRegistry(j) ==
  /\ pc[j] = "check" /\ registry_absent(j)
  /\ Goto(j, "list")
  /\ UNCHANGED <<world, faults, plan, disk, pending, after, stage, period, doc,
                 horizon, seen, match>>

ListKeys(j) ==
  /\ pc[j] = "list" /\ clock(j)
  /\ horizon' = [horizon EXCEPT ![j] = Len(keys)]
  /\ seen' = [seen EXCEPT ![j] = {}]
  /\ match' = [match EXCEPT ![j] = {}]
  /\ Goto(j, "examine")
  /\ UNCHANGED <<world, faults, plan, disk, pending, after, stage, period, doc>>

\* Mutant: the first match is taken and a second one passed over.
ExamineFirst(j, k) ==
  /\ pc[j] = "examine" /\ clock(j)
  /\ k \in (1 .. horizon[j]) \ seen[j]
  /\ seen' = [seen EXCEPT ![j] = @ \union {k}]
  /\ match' = [match EXCEPT ![j] = IF Tagged(k, period[j]) /\ Eligible(k) /\ @ = {}
                                   THEN {k} ELSE @]
  /\ UNCHANGED <<world, faults, plan, disk, pending, pc, after, stage, period, doc, horizon>>

\* A tagged key that is not eligible, or a second match, raises instead.
Examine(j, k) ==
  /\ pc[j] = "examine" /\ clock(j)
  /\ k \in (1 .. horizon[j]) \ seen[j]
  /\ seen' = [seen EXCEPT ![j] = @ \union {k}]
  /\ \/ ~Tagged(k, period[j]) /\ UNCHANGED match
     \/ /\ Tagged(k, period[j]) /\ Eligible(k) /\ match[j] = {}
        /\ match' = [match EXCEPT ![j] = {k}]
  /\ UNCHANGED <<world, faults, plan, disk, pending, pc, after, stage, period, doc, horizon>>

Discovered(j, s) ==
  pc[j] = "examine" /\ stage[j] = s /\ seen[j] = 1 .. horizon[j]

-----------------------------------------------------------------------------
(* The rest of plan() and apply() *)

\* Lines 137-144; reuse is the key named on the command line, if any.
WritePlan(j) ==
  /\ Discovered(j, "plan") /\ registry_absent(j)
  /\ \E mode \in {"create", "reuse", "selection_required"}, candidate \in match[j] \union {NoKey} :
       /\ mode = "create" <=> match[j] = {}
       /\ candidate = NoKey <=> match[j] = {}
       /\ plan' = [plan EXCEPT ![j] = [mode |-> mode, period |-> period[j],
                                       candidate |-> candidate]]
  /\ Goto(j, "idle")
  /\ UNCHANGED <<world, faults, disk, pending, after, stage, period, doc, horizon, seen, match>>

\* Lines 150-155: an attempted creation is only ever looked for.
ResumeAttempted(j) ==
  /\ Discovered(j, "first") /\ doc[j].createAttempted
  /\ \E k \in match[j] :
       /\ Recovered(j, k)
       /\ Save(j, Identified(doc[j], k), "confirm")
  /\ UNCHANGED <<world, faults, plan, disk, pending, stage, period, horizon, seen, match>>

Reuse(j) ==
  /\ Discovered(j, "first") /\ ~doc[j].createAttempted /\ plan[j].mode = "reuse"
  /\ match[j] = {plan[j].candidate}
  /\ Save(j, Identified(doc[j], plan[j].candidate), "confirm")
  /\ UNCHANGED <<world, faults, plan, disk, pending, stage, period, horizon, seen, match>>

\* Mutants: the request goes out before the record is saved; a key found by
\* discovery does not stop the creation.
RecordAttemptLate(j) ==
  /\ Discovered(j, "first") /\ ~doc[j].createAttempted /\ plan[j].mode = "create"
  /\ match[j] = {} /\ doc[j].keyArn = NoKey /\ registry_absent(j)
  /\ doc' = [doc EXCEPT ![j] = Attempted(@, now)]
  /\ Goto(j, "create")
  /\ UNCHANGED <<world, faults, plan, disk, pending, after, stage, period, horizon, seen, match>>
RecordAttemptOverMatch(j) ==
  /\ Discovered(j, "first") /\ ~doc[j].createAttempted /\ plan[j].mode = "create"
  /\ doc[j].keyArn = NoKey /\ registry_absent(j)
  /\ Save(j, Attempted(doc[j], now), "create")
  /\ UNCHANGED <<world, faults, plan, disk, pending, stage, period, horizon, seen, match>>

\* Lines 160-162: the attempt is recorded before the request is made.
RecordAttempt(j) ==
  /\ Discovered(j, "first") /\ ~doc[j].createAttempted /\ plan[j].mode = "create"
  /\ match[j] = {} /\ doc[j].keyArn = NoKey /\ registry_absent(j)
  /\ Save(j, Attempted(doc[j], now), "create")
  /\ UNCHANGED <<world, faults, plan, disk, pending, stage, period, horizon, seen, match>>

SendCreate(j) ==
  /\ pc[j] = "create" /\ clock(j)
  /\ requests' = [requests EXCEPT ![j] = @ + 1]
  /\ inflight' = inflight \union {j}
  /\ Goto(j, "await")
  /\ UNCHANGED <<now, keys, registry, acked, faults, plan, disk, pending, after,
                 stage, period, doc, horizon, seen, match>>

\* The response names the key; saving it is still inside the try block.
Acknowledge(j) ==
  /\ pc[j] = "await"
  /\ \E k \in 1 .. Len(keys) :
       /\ keys[k].by = j
       /\ Save(j, Identified(doc[j], k), "created")
  /\ acked' = acked \union {j}
  /\ UNCHANGED <<now, keys, registry, inflight, requests, faults, plan, disk,
                 pending, stage, period, horizon, seen, match>>

\* Mutants: a failed creation is forgotten so that it can be retried; it is
\* called ambiguous though its key is known; it gets a status of its own.
CreateRaisesForgets(j) ==
  /\ pc[j] = "await" \/ (pc[j] \in {"save", "replace"} /\ after[j] = "created")
  /\ Save(j, fresh_journal, "list")
  /\ stage' = [stage EXCEPT ![j] = "recover"]
  /\ UNCHANGED <<world, faults, plan, disk, pending, period, horizon, seen, match>>
CreateRaisesAmbiguous(j) ==
  /\ pc[j] = "await" \/ (pc[j] \in {"save", "replace"} /\ after[j] = "created")
  /\ Save(j, WithStatus(doc[j], "ambiguous"), "list")
  /\ stage' = [stage EXCEPT ![j] = "recover"]
  /\ UNCHANGED <<world, faults, plan, disk, pending, period, horizon, seen, match>>
CreateRaisesFailed(j) ==
  /\ pc[j] = "await" \/ (pc[j] \in {"save", "replace"} /\ after[j] = "created")
  /\ Save(j, WithStatus(doc[j], "failed"), "list")
  /\ stage' = [stage EXCEPT ![j] = "recover"]
  /\ UNCHANGED <<world, faults, plan, disk, pending, period, horizon, seen, match>>

\* Lines 167-170: a lost or late response, or a save that raises.
CreateRaises(j) ==
  /\ pc[j] = "await" \/ (pc[j] \in {"save", "replace"} /\ after[j] = "created")
  /\ Save(j, WithStatus(doc[j], IF doc[j].keyArn # NoKey
                                THEN "key_identified" ELSE "ambiguous"), "list")
  /\ stage' = [stage EXCEPT ![j] = "recover"]
  /\ UNCHANGED <<world, faults, plan, disk, pending, period, horizon, seen, match>>

RecoverCreated(j) ==
  /\ Discovered(j, "recover")
  /\ \E k \in match[j] :
       /\ Recovered(j, k)
       /\ Save(j, Identified(doc[j], k), "confirm")
  /\ UNCHANGED <<world, faults, plan, disk, pending, stage, period, horizon, seen, match>>

\* Lines 175-176: the local comparison and the second metadata read.
ConfirmKey(j) ==
  /\ Discovered(j, "confirm") /\ clock(j)
  /\ match[j] = {doc[j].keyArn} /\ Eligible(doc[j].keyArn)
  /\ Goto(j, "final")
  /\ UNCHANGED <<world, faults, plan, disk, pending, after, stage, period, doc,
                 horizon, seen, match>>

Verify(j) ==
  /\ pc[j] = "final" /\ registry_absent(j)
  /\ Save(j, WithStatus(doc[j], "verified"), "idle")
  /\ UNCHANGED <<world, faults, plan, disk, pending, stage, period, horizon, seen, match>>

-----------------------------------------------------------------------------
(* save_journal(): exclusive creation of the temporary, then the rename *)

OpenPending(j) ==
  /\ pc[j] = "save" /\ ~pending[j]
  /\ pending' = [pending EXCEPT ![j] = TRUE]
  /\ Goto(j, "replace")
  /\ UNCHANGED <<world, faults, plan, disk, after, stage, period, doc, horizon, seen, match>>

Replace(j) ==
  /\ pc[j] = "replace"
  /\ disk' = [disk EXCEPT ![j] = doc[j]]
  /\ pending' = [pending EXCEPT ![j] = FALSE]
  /\ IF after[j] \in {"created", "confirm"}
       THEN Goto(j, "check") /\ stage' = [stage EXCEPT ![j] = "confirm"]
       ELSE Goto(j, after[j]) /\ UNCHANGED stage
  /\ UNCHANGED <<world, faults, plan, after, period, doc, horizon, seen, match>>

-----------------------------------------------------------------------------
(* Processes that end early *)

\* The conditions under which the next check of the code raises.
Refused(j) ==
  \/ pc[j] \in {"check", "final"} /\ ~registry_absent(j)
  \/ pc[j] \in {"list", "examine", "create"} /\ ~clock(j)
  \/ pc[j] = "save" /\ pending[j]
  \/ /\ pc[j] = "examine"
     /\ \E k \in (1 .. horizon[j]) \ seen[j] :
          Tagged(k, period[j]) /\ ~(Eligible(k) /\ match[j] = {})
  \/ Discovered(j, "plan") /\ ~registry_absent(j)
  \/ /\ Discovered(j, "first") \/ Discovered(j, "recover")
     /\ doc[j].createAttempted
     /\ ~\E k \in match[j] : Recovered(j, k)
  \/ /\ Discovered(j, "first") /\ ~doc[j].createAttempted
     /\ IF plan[j].mode = "reuse"
          THEN match[j] # {plan[j].candidate}
          ELSE match[j] # {} \/ doc[j].keyArn # NoKey \/ ~registry_absent(j)
  \/ /\ Discovered(j, "confirm")
     /\ ~(match[j] = {doc[j].keyArn} /\ Eligible(doc[j].keyArn))

\* An exception leaves main(); the files stay as they are.
Raise(j) ==
  /\ Refused(j)
  /\ ~(pc[j] = "save" /\ after[j] = "created")
  /\ Goto(j, "idle")
  /\ UNCHANGED <<world, faults, plan, disk, pending, after, stage, period, doc,
                 horizon, seen, match>>

\* The process is killed, its host stops, or its deadline passes.
Crash(j) ==
  /\ pc[j] # "idle" /\ crashes < MaxCrashes
  /\ crashes' = crashes + 1
  /\ Goto(j, "idle")
  /\ UNCHANGED <<world, overlapped, plan, disk, pending, after, stage, period, doc,
                 horizon, seen, match>>

-----------------------------------------------------------------------------
(* The environment *)

Tick ==
  /\ now < MaxTime
  /\ now' = now + 1
  /\ UNCHANGED <<keys, registry, inflight, requests, acked, faults, plan, disk,
                 pending, memory>>

CreateKey(kind, p, created, by) ==
  keys' = Append(keys, [kind |-> kind, period |-> p, created |-> created, by |-> by])

\* KMS executes a request, perhaps after its caller gave up; its clock may be
\* behind the caller's by GRACE.
ExecuteCreate(j) ==
  /\ j \in inflight
  /\ \E created \in {t \in 0 .. now : now - GRACE <= t} :
       CreateKey("eligible", plan[j].period, created, j)
  /\ inflight' = inflight \ {j}
  /\ UNCHANGED <<now, registry, requests, acked, faults, plan, disk, pending, memory>>

LoseCreate(j) ==
  /\ j \in inflight
  /\ inflight' = inflight \ {j}
  /\ UNCHANGED <<now, keys, registry, requests, acked, faults, plan, disk, pending, memory>>

OutsideKeys == {k \in 1 .. Len(keys) : keys[k].by = Outsider}

\* Someone else creates a key, or spoils an eligible one: disabled or given a
\* further tag it is "ineligible", deleted or without the four tags "other".
CreateOutside ==
  /\ Cardinality(OutsideKeys) < MaxOutsideKeys
  /\ \E kind \in Kinds : CreateKey(kind, PeriodOf(now), now, Outsider)
  /\ UNCHANGED <<now, registry, inflight, requests, acked, faults, plan, disk, pending, memory>>

SpoilKey(k) ==
  /\ keys[k].kind = "eligible"
  /\ \E kind \in Spoils : keys' = [keys EXCEPT ![k].kind = kind]
  /\ UNCHANGED <<now, registry, inflight, requests, acked, faults, plan, disk, pending, memory>>

\* The separate initializer writes the registry row of the current period.
Register ==
  /\ PeriodOf(now) \notin registry
  /\ registry' = registry \union {PeriodOf(now)}
  /\ UNCHANGED <<now, keys, inflight, requests, acked, faults, plan, disk, pending, memory>>

-----------------------------------------------------------------------------
Step(j) ==
  \/ WriteFresh(j) \/ CheckRegistry(j) \/ ListKeys(j)
  \/ \E k \in 1 .. horizon[j] : Examine(j, k)
  \/ WritePlan(j) \/ ResumeAttempted(j) \/ Reuse(j) \/ RecordAttempt(j)
  \/ SendCreate(j) \/ Acknowledge(j) \/ CreateRaises(j) \/ RecoverCreated(j)
  \/ ConfirmKey(j) \/ Verify(j)
  \/ OpenPending(j) \/ Replace(j) \/ Raise(j)

Environment ==
  \/ Tick \/ CreateOutside \/ Register
  \/ \E k \in 1 .. Len(keys) : SpoilKey(k)
  \/ \E j \in Journals : ExecuteCreate(j) \/ LoseCreate(j)

Next ==
  \/ \E j \in Journals : StartPlan(j) \/ StartApply(j) \/ Step(j) \/ Crash(j)
  \/ Environment

Spec == Init /\ [][Next]_vars

\* A running process keeps running, and an interrupted apply is run again.
Fairness == \A j \in Journals : WF_vars(Step(j)) /\ WF_vars(StartApply(j))
FairSpec == Spec /\ Fairness

-----------------------------------------------------------------------------
(* Properties *)

\* Every variable has its type; in particular save() never writes a status that
\* is not one of the journal's.
TypeOK ==
  /\ now \in Nat /\ keys \in Seq(Key) /\ registry \subseteq Nat
  /\ inflight \subseteq Journals /\ acked \subseteq Journals
  /\ crashes \in Nat /\ overlapped \in BOOLEAN
  /\ requests \in [Journals -> Nat]
  /\ plan \in [Journals -> Plan]
  /\ disk \in [Journals -> File]
  /\ pending \in [Journals -> BOOLEAN]
  /\ pc \in [Journals -> Labels] /\ after \in [Journals -> Returns]
  /\ stage \in [Journals -> Stages] /\ period \in [Journals -> Nat]
  /\ doc \in [Journals -> Doc] /\ horizon \in [Journals -> Nat]
  /\ seen \in [Journals -> SUBSET Nat] /\ match \in [Journals -> SUBSET Nat]

\* "One SDK CreateKey attempt per journal": however often the operator is
\* killed and run again, and whatever happened to the response, a journal never
\* leads to a second CreateKey request.
OneCreatePerJournal == \A j \in Journals : requests[j] <= 1

\* The attempt is durable before the request leaves, so a request in flight, or
\* a key it made, can never outlive the only record that it was attempted.
AttemptIsDurable ==
  \A j \in Journals :
    (j \in inflight \/ \E k \in 1 .. Len(keys) : keys[k].by = j)
      => Written(j) /\ disk[j].createAttempted

\* Every document the operator leaves on disk is one that its own
\* validate_journal accepts, so no run strands the next one.
JournalsValid ==
  \A j \in Journals : Written(j) => validate_journal(disk[j], plan[j])

\* A key claimed after an attempt carries the tags of the planned period and
\* was not created before the attempt, up to the allowed skew.
ClaimIsPlausible ==
  \A j \in Journals :
    Written(j) /\ disk[j].createAttempted /\ disk[j].keyArn # NoKey =>
      /\ disk[j].keyArn <= Len(keys)
      /\ keys[disk[j].keyArn].period = plan[j].period
      /\ keys[disk[j].keyArn].created >= disk[j].attemptedAt - GRACE

Verified(j) == Written(j) /\ disk[j].status = "verified"

\* "The helper detects a later visible collision": no two journals are verified
\* for one period with different keys, even when the operators are not
\* serialized and others create keys too, because a complete listing taken
\* after both keys exist contains both.  It takes that nobody removes the tags
\* of a key.
VerifiedAgree ==
  "other" \notin Spoils => \A i, j \in Journals :
    Verified(i) /\ Verified(j) /\ plan[i].period = plan[j].period
      => disk[i].keyArn = disk[j].keyArn

\* What serializing the operators buys: two of them make keys for one period
\* only if a creation went unacknowledged.
SerializedUnique ==
  ~overlapped /\ "other" \notin Spoils =>
    \A k, l \in 1 .. Len(keys) :
      /\ k # l /\ Outsider \notin {keys[k].by, keys[l].by}
      /\ keys[k].period = keys[l].period
      => ~({keys[k].by, keys[l].by} \subseteq acked)

\* A run never replaces the key its journal names.
BindingStable ==
  [][\A j \in Journals :
       Written(j) /\ disk[j].keyArn # NoKey =>
         disk[j]'.keyArn = disk[j].keyArn]_vars

MadeKey(j) == \E k \in 1 .. Len(keys) : keys[k].by = j

\* What stops a recovery for good: the period or the registry has moved on, the
\* key is disabled or not alone, or a process died between creating the
\* ".pending" file and renaming it, which no later run can get past.
Obstructed(j) ==
  \/ PeriodOf(now) # plan[j].period \/ plan[j].period \in registry
  \/ pending[j] /\ pc[j] = "idle"
  \/ \E k \in 1 .. Len(keys) :
       Tagged(k, plan[j].period) /\ (keys[k].by # j \/ ~Eligible(k))

\* A key that was made, even when its acknowledgement was lost or its process
\* killed, is in the end identified and verified unless something obstructs it.
RecoveryCompletes ==
  \A j \in Journals : MadeKey(j) ~> (Verified(j) \/ Obstructed(j))

\* A journal is a write-ahead record of one CreateKey call.
Promise == INSTANCE WriteAhead WITH
  Ops <- Journals, Unknown <- NoKey,
  intent <- {j \in Journals : disk[j].createAttempted},
  calls <- requests,
  outcome <- [j \in Journals |-> IF disk[j].createAttempted THEN disk[j].keyArn ELSE NoKey]
ImplementsWriteAhead == Promise!Spec

============================================================================

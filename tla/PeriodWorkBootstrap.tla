------------------------- MODULE PeriodWorkBootstrap -------------------------
(***************************************************************************)
(* The inventory bootstrap, scripts/bootstrap_campaign_period_work.py: a   *)
(* planner writes a plan file, and after a drain interval and a review an  *)
(* apply commits the work inventory for the rows the plan saw, in one      *)
(* conditional transaction.  The transaction cannot condition the absence  *)
(* of rows nobody saw, so everything rests on closed and drained writers.  *)
(*                                                                         *)
(* A plan p stands for one planner run and its file, an attempt a for one  *)
(* apply and its journal path.  A reread of the same kind of state is one  *)
(* action, told apart by stage.  The Lambda functions, the people who open *)
(* and close them and DynamoDB are the environment.                        *)
(***************************************************************************)
EXTENDS Integers, FiniteSets

CONSTANTS Plans, Attempts,
          Data,           \* keys a pipeline row may have
          Marker,         \* the key of the inventory marker
          Baseline,       \* rows the manifest expects (expectedCounts)
          Values,         \* contents a row may have, apart from Absent
          Writers,        \* the functions of FUNCTIONS
          Ungated,        \* those with no gate in GATES (campaign_review)
          TIMEOUT,        \* the longest function timeout
          MARGIN,         \* 60 s added to it
          LIMIT,          \* 3600 s, the age a plan or approval may reach
          BUDGET, FINAL,  \* the read budgets of 120 s and 30 s
          FRESH,          \* 60 s from the start of apply to the transaction
          Boundaries,     \* whether privileged work is serialized through apply
          ClosedFirst,    \* with it, writers are paused before a plan is begun
          MaxTime, MaxWrites, MaxDeploys, MaxRestores

Absent == 0
Rows == Data \union {Marker}
Processes == Plans \union Attempts

ASSUME NamesAssumption ==
  Plans # {} /\ Plans \intersect Attempts = {} /\ Marker \notin Data \union Writers
ASSUME BaselineAssumption == Baseline \subseteq Data /\ IsFiniteSet(Data)
ASSUME ValuesAssumption == Absent \notin Values /\ 1 \in Values
ASSUME WritersAssumption == Ungated \subseteq Writers
ASSUME TimesAssumption ==
  {TIMEOUT, MARGIN, LIMIT, BUDGET, FINAL, FRESH, MaxTime, MaxWrites, MaxDeploys, MaxRestores}
    \subseteq Nat
ASSUME MarginAssumption == MARGIN # 0
ASSUME BoundaryAssumption == Boundaries \subseteq BOOLEAN /\ ClosedFirst \in BOOLEAN

VARIABLES now,       \* one clock for operators and functions
          admits,    \* writers whose reserved concurrency is not 0
          gated,     \* writers whose gates are "false"
          revision,  \* how often each was deployed since the manifest
          busy,      \* the running invocation of each writer
          table,     \* the pipeline table
          tableId,   \* 0 for the table of the manifest
          flight,    \* attempts whose transaction is neither executed nor lost
          writes,    \* rows written so far
          plan,      \* the plan files
          expiry,    \* the approval of each plan
          journal,   \* the intent journal of each attempt
          output,    \* attempts whose result file says acknowledged
          pc, stage, \* control point; first or final reading
          using,     \* the plan a process works on
          stamp,     \* its clock reading on start
          deadline,  \* of the read budget it is in
          unread,    \* writers closed_writers() has yet to read
          unseen,    \* rows scan() has yet to read
          snap,      \* the rows it has read
          boundary,  \* history: the operators keep the runbook's boundary
          requests,  \* history: transactions sent by each attempt
          trusted,   \* history: what a process will not learn to have reopened
          late,      \* history: rows that slipped past that
          missed     \* history: rows each commit had no inventory for

fleet == <<admits, gated, revision, busy>>
database == <<table, tableId, flight, writes>>
files == <<plan, expiry, journal, output>>
memory == <<pc, stage, using, stamp, deadline, unread, unseen, snap>>
history == <<requests, trusted, late, missed>>
vars == <<now, fleet, database, files, memory, history, boundary>>

-----------------------------------------------------------------------------
Idle == [since |-> -1, trust |-> {}]
NoSnapshot == [r \in Rows |-> Absent]
NoPlan == [at |-> -1, base |-> NoSnapshot]

Init ==
  /\ boundary \in Boundaries
  /\ now = 0 /\ tableId = 0 /\ flight = {} /\ writes = 0
  /\ admits \in SUBSET Writers /\ gated = Writers \ Ungated
  /\ revision = [w \in Writers |-> 0]
  /\ busy \in [Writers -> {Idle, [Idle EXCEPT !.since = 0]}]
  /\ table = [r \in Rows |-> IF r \in Baseline THEN 1 ELSE Absent]
  /\ plan = [p \in Plans |-> NoPlan] /\ expiry = [p \in Plans |-> -1]
  /\ journal = [a \in Attempts |-> "none"] /\ output = {}
  /\ pc = [x \in Processes |-> "idle"] /\ stage = [x \in Processes |-> "first"]
  /\ using = [x \in Processes |-> IF x \in Plans THEN x ELSE CHOOSE p \in Plans : TRUE]
  /\ stamp = [x \in Processes |-> 0] /\ deadline = [x \in Processes |-> 0]
  /\ unread = [x \in Processes |-> {}] /\ unseen = [x \in Processes |-> {}]
  /\ snap = [x \in Processes |-> NoSnapshot]
  /\ requests = [a \in Attempts |-> 0]
  /\ trusted = [x \in Processes |-> {}]
  /\ late = [x \in Processes |-> {}] /\ missed = [a \in Attempts |-> {}]

Goto(x, label) == pc' = [pc EXCEPT ![x] = label]

\* The process ends; what it was doing is forgotten, what it sent is not.
Finish(x) ==
  /\ Goto(x, "idle")
  /\ stage' = [stage EXCEPT ![x] = "first"]
  /\ stamp' = [stamp EXCEPT ![x] = 0]
  /\ deadline' = [deadline EXCEPT ![x] = 0]
  /\ unread' = [unread EXCEPT ![x] = {}]
  /\ unseen' = [unseen EXCEPT ![x] = {}]
  /\ UNCHANGED <<using, snap>>

\* What main() and reviewed_apply() do first: stamp, then begin to capture().
Begin(x, p) ==
  /\ using' = [using EXCEPT ![x] = p]
  /\ stamp' = [stamp EXCEPT ![x] = now]
  /\ stage' = [stage EXCEPT ![x] = "first"]
  /\ Goto(x, "resources")
  /\ UNCHANGED <<now, fleet, database, files, deadline, unread, unseen, snap, requests, missed>>

\* An ungated writer reopened and closed again leaves no trace, from here on.
StartPlan(p) ==
  /\ pc[p] = "idle" /\ plan[p] = NoPlan
  /\ boundary /\ ClosedFirst => admits = {}
  /\ Begin(p, p)
  /\ trusted' = [trusted EXCEPT ![p] = Ungated]
  /\ late' = [late EXCEPT ![p] = {}]

\* A reviewer approves the plan; the approval names an expiry.
Approve(p) ==
  /\ plan[p] # NoPlan /\ expiry[p] = -1
  /\ \E t \in now .. MaxTime : expiry' = [expiry EXCEPT ![p] = t]
  /\ UNCHANGED <<now, fleet, database, plan, journal, output, memory, history>>

\* The writer_drain_interval check of reviewed_apply().
Age(p) == now - plan[p].at
\* Mutant: the margin alone is waited for, and not the longest invocation.
MarginAlone(p) == plan[p] # NoPlan /\ MARGIN <= Age(p) /\ Age(p) <= LIMIT
Drained(p) == plan[p] # NoPlan /\ TIMEOUT + MARGIN <= Age(p) /\ Age(p) <= LIMIT

\* Lines 238-245 and, in main(), the refusal of an existing journal or output.
StartApply(a, p) ==
  /\ pc[a] = "idle" /\ journal[a] = "none" /\ a \notin output
  /\ now <= expiry[p] /\ expiry[p] <= now + LIMIT
  /\ Drained(p)
  /\ Begin(a, p)
  /\ trusted' = [trusted EXCEPT ![a] = trusted[p]]
  /\ late' = [late EXCEPT ![a] = late[p]]

-----------------------------------------------------------------------------
(* resources(), closed_writers() and scan(), each read within a budget *)

Learned(x, thing) ==
  trusted' = [trusted EXCEPT ![x] = IF stage[x] = "final" THEN @ \union {thing} ELSE @]

ReadResources(x) ==
  /\ pc[x] = "resources" /\ tableId = 0
  /\ deadline' = [deadline EXCEPT ![x] = now + IF stage[x] = "final" THEN FINAL ELSE BUDGET]
  /\ unread' = [unread EXCEPT ![x] = Writers]
  /\ Learned(x, Marker)
  /\ Goto(x, "writers")
  /\ UNCHANGED <<now, fleet, database, files, stage, using, stamp, unseen, snap,
                 requests, late, missed>>

\* Reserved concurrency 0, gates "false", and the configuration of the manifest.
Closed(w) == w \notin admits /\ w \in gated \union Ungated /\ revision[w] = 0

ReadWriter(x, w) ==
  /\ pc[x] = "writers" /\ now < deadline[x]
  /\ w \in unread[x] /\ Closed(w)
  /\ unread' = [unread EXCEPT ![x] = @ \ {w}]
  /\ Learned(x, w)
  /\ UNCHANGED <<now, fleet, database, files, pc, stage, using, stamp, deadline,
                 unseen, snap, requests, late, missed>>

StartScan(x) ==
  /\ pc[x] = "writers" /\ stage[x] = "first" /\ unread[x] = {}
  /\ unseen' = [unseen EXCEPT ![x] = Rows]
  /\ snap' = [snap EXCEPT ![x] = NoSnapshot]
  /\ Goto(x, "scan")
  /\ UNCHANGED <<now, fleet, database, files, stage, using, stamp, deadline, unread, history>>

\* A page is read strongly, but pages are read one after another.
ReadPage(x, r) ==
  /\ pc[x] = "scan" /\ now < deadline[x]
  /\ r \in unseen[x]
  /\ unseen' = [unseen EXCEPT ![x] = @ \ {r}]
  /\ snap' = [snap EXCEPT ![x][r] = table[r]]
  /\ UNCHANGED <<now, fleet, database, files, pc, stage, using, stamp, deadline,
                 unread, history>>

\* classify(): no record of an unknown kind, such as an earlier marker, and the
\* counts of the manifest.
Classified(x) ==
  /\ pc[x] = "scan" /\ unseen[x] = {}
  /\ snap[x][Marker] = Absent
  /\ Cardinality({r \in Data : snap[x][r] # Absent}) = Cardinality(Baseline)

WritePlan(p) ==
  /\ p \in Plans /\ Classified(p) /\ plan[p] = NoPlan
  /\ plan' = [plan EXCEPT ![p] = [at |-> stamp[p], base |-> snap[p]]]
  /\ Finish(p)
  /\ UNCHANGED <<now, fleet, database, expiry, journal, output, history>>

-----------------------------------------------------------------------------
(* The rest of reviewed_apply() *)

\* fresh_snapshot_changed, then the exclusive creation in write_new().
OpenJournal(a) ==
  /\ a \in Attempts /\ Classified(a) /\ journal[a] = "none"
  /\ snap[a] = plan[using[a]].base
  /\ journal' = [journal EXCEPT ![a] = "torn"]
  /\ Goto(a, "intent")
  /\ UNCHANGED <<now, fleet, database, plan, expiry, output, stage, using, stamp,
                 deadline, unread, unseen, snap, history>>

\* Mutant: the intent is not flushed before the transaction is sent.
WriteIntentBuffered(a) ==
  /\ pc[a] = "intent"
  /\ stage' = [stage EXCEPT ![a] = "final"]
  /\ Goto(a, "resources")
  /\ UNCHANGED <<now, fleet, database, files, using, stamp, deadline, unread,
                 unseen, snap, history>>

\* Lines 249-253: the intent is durable, and the boundary is read once more.
WriteIntent(a) ==
  /\ pc[a] = "intent"
  /\ journal' = [journal EXCEPT ![a] = "intent"]
  /\ stage' = [stage EXCEPT ![a] = "final"]
  /\ Goto(a, "resources")
  /\ UNCHANGED <<now, fleet, database, plan, expiry, output, using, stamp, deadline,
                 unread, unseen, snap, history>>

\* Lines 256-257: freshness, then the one call.
Send(a) ==
  /\ pc[a] = "writers" /\ stage[a] = "final" /\ unread[a] = {}
  /\ now - stamp[a] <= FRESH
  /\ flight' = flight \union {a}
  /\ requests' = [requests EXCEPT ![a] = @ + 1]
  /\ Goto(a, "await")
  /\ UNCHANGED <<now, fleet, table, tableId, writes, files, stage, using, stamp,
                 deadline, unread, unseen, snap, trusted, late, missed>>

\* The response arrives and main() writes the result file.
Acknowledge(a) ==
  /\ pc[a] = "await" /\ a \notin flight /\ table[Marker] = a
  /\ output' = output \union {a}
  /\ Finish(a)
  /\ UNCHANGED <<now, fleet, database, plan, expiry, journal, history>>

\* A refusal, an SDK error or a kill: the files stay as they are.
Stop(x) ==
  /\ pc[x] # "idle"
  /\ Finish(x)
  /\ UNCHANGED <<now, fleet, database, files, history>>

-----------------------------------------------------------------------------
(* DynamoDB *)

\* Mutant: the marker is put without attribute_not_exists.
ConditionsWithoutMarker(a) ==
  \A r \in Data : snap[a][r] # Absent => table[r] = snap[a][r]
\* The conditions of the transaction: rows that were seen are as they were
\* seen, and there is no marker.
Conditions(a) ==
  /\ table[Marker] = Absent
  /\ \A r \in Data : snap[a][r] # Absent => table[r] = snap[a][r]

\* The request may be executed after its caller gave up.
Commit(a) ==
  /\ a \in flight /\ Conditions(a)
  /\ table' = [table EXCEPT ![Marker] = a]
  /\ flight' = flight \ {a}
  /\ missed' = [missed EXCEPT ![a] = {r \in Data : table[r] # snap[a][r]}]
  /\ UNCHANGED <<now, fleet, tableId, writes, files, memory, requests, trusted, late>>

\* The transaction is cancelled, throttled or lost.
Cancel(a) ==
  /\ a \in flight
  /\ flight' = flight \ {a}
  /\ UNCHANGED <<now, fleet, table, tableId, writes, files, memory, history>>

-----------------------------------------------------------------------------
(* The functions and the people who run them *)

\* Lambda ends an invocation at its timeout.
Tick ==
  /\ now < MaxTime
  /\ \A w \in Writers : busy[w] = Idle \/ now < busy[w].since + TIMEOUT
  /\ now' = now + 1
  /\ UNCHANGED <<fleet, database, files, memory, history>>

Invoke(w) ==
  /\ busy[w] = Idle /\ w \in admits \ gated
  /\ busy' = [busy EXCEPT ![w] = [since |-> now,
                                  trust |-> {x \in Processes : w \in trusted[x]}]]
  /\ UNCHANGED <<now, admits, gated, revision, database, files, memory, history>>

Return(w) ==
  /\ busy[w] # Idle
  /\ busy' = [busy EXCEPT ![w] = Idle]
  /\ UNCHANGED <<now, admits, gated, revision, database, files, memory, history>>

\* The rows a write slips past a process, because it trusts in the source.
Slipped(trusting, changed) ==
  late' = [x \in Processes |-> IF {x, using[x]} \intersect trusting # {}
                                 THEN late[x] \union changed ELSE late[x]]

\* A running invocation inserts, updates or deletes a row.  Its work ends with
\* the bootstrap: from then on the marker makes writers maintain the inventory.
WriteRow(w, r) ==
  /\ busy[w] # Idle /\ writes < MaxWrites /\ table[Marker] = Absent
  /\ \E v \in (Values \union {Absent}) \ {table[r]} : table' = [table EXCEPT ![r] = v]
  /\ writes' = writes + 1
  /\ Slipped(busy[w].trust, {r})
  /\ UNCHANGED <<now, fleet, tableId, flight, files, memory, requests, trusted, missed>>

\* Whether the boundary leaves the privileged operators free to act.
Unserialized ==
  boundary => /\ \A p \in Plans : plan[p] = NoPlan
              /\ \A x \in Processes : pc[x] = "idle"

Admit(w) ==
  /\ w \notin admits /\ Unserialized
  /\ admits' = admits \union {w}
  /\ UNCHANGED <<now, gated, revision, busy, database, files, memory, history>>

Pause(w) ==
  /\ w \in admits
  /\ admits' = admits \ {w}
  /\ UNCHANGED <<now, gated, revision, busy, database, files, memory, history>>

\* A deployment that turns the gates of a writer; every one has a RevisionId.
Deploy(w) ==
  /\ w \notin Ungated /\ revision[w] < MaxDeploys /\ Unserialized
  /\ gated' = IF w \in gated THEN gated \ {w} ELSE gated \union {w}
  /\ revision' = [revision EXCEPT ![w] = @ + 1]
  /\ UNCHANGED <<now, admits, busy, database, files, memory, history>>

\* The table is replaced by a copy from some other time.
Restore ==
  /\ tableId < MaxRestores /\ Unserialized
  /\ \E copy \in [Data -> Values \union {Absent}] :
       /\ table' = [r \in Rows |-> IF r = Marker THEN Absent ELSE copy[r]]
       /\ Slipped({x \in Processes : Marker \in trusted[x]}, {r \in Data : copy[r] # table[r]})
  /\ tableId' = tableId + 1
  /\ UNCHANGED <<now, fleet, flight, writes, files, memory, requests, trusted, missed>>

-----------------------------------------------------------------------------
Capture(x) ==
  \/ ReadResources(x) \/ StartScan(x)
  \/ \E w \in Writers : ReadWriter(x, w)
  \/ \E r \in Rows : ReadPage(x, r)

Apply(a) ==
  \/ \E p \in Plans : StartApply(a, p)
  \/ OpenJournal(a) \/ WriteIntent(a) \/ Send(a) \/ Acknowledge(a)
  \/ Commit(a) \/ Cancel(a)

Fleet(w) ==
  \/ Invoke(w) \/ Return(w) \/ Admit(w) \/ Pause(w) \/ Deploy(w)
  \/ \E r \in Data : WriteRow(w, r)

Step ==
  \/ \E x \in Processes : Capture(x) \/ Stop(x)
  \/ \E p \in Plans : StartPlan(p) \/ WritePlan(p) \/ Approve(p)
  \/ \E a \in Attempts : Apply(a)
  \/ \E w \in Writers : Fleet(w)
  \/ Tick \/ Restore

Next == Step /\ UNCHANGED boundary

Spec == Init /\ [][Next]_vars

-----------------------------------------------------------------------------
(* Properties *)

Snapshot == [Rows -> Values \union {Absent} \union Attempts]

\* Every variable has its type; in particular a journal is missing, torn or an
\* intent, whenever its process is killed.
TypeOK ==
  /\ boundary \in BOOLEAN
  /\ now \in Nat /\ tableId \in Nat /\ writes \in Nat
  /\ admits \subseteq Writers /\ gated \subseteq Writers /\ flight \subseteq Attempts
  /\ revision \in [Writers -> Nat]
  /\ busy \in [Writers -> [since : Int, trust : SUBSET Processes]]
  /\ table \in Snapshot /\ snap \in [Processes -> Snapshot]
  /\ plan \in [Plans -> [at : Int, base : Snapshot]] /\ expiry \in [Plans -> Int]
  /\ journal \in [Attempts -> {"none", "torn", "intent"}] /\ output \subseteq Attempts
  /\ pc \in [Processes -> {"idle", "resources", "writers", "scan", "intent", "await"}]
  /\ stage \in [Processes -> {"first", "final"}]
  /\ using \in [Processes -> Plans]
  /\ stamp \in [Processes -> Nat] /\ deadline \in [Processes -> Nat]
  /\ unread \in [Processes -> SUBSET Writers] /\ unseen \in [Processes -> SUBSET Rows]
  /\ requests \in [Attempts -> Nat]
  /\ trusted \in [Processes -> SUBSET (Writers \union {Marker})]
  /\ late \in [Processes -> SUBSET Data] /\ missed \in [Attempts -> SUBSET Data]

\* "EXACT_ALL_TARGETS_INDEXED": while writers are paused before planning and
\* privileged work is serialized through apply, the committed inventory has
\* every row there is.  An invocation that was running when its writer was
\* closed is given the drain interval to end before the second capture.
NothingMissed ==
  boundary /\ ClosedFirst => \A a \in Attempts : missed[a] = {}

\* What the checks are worth when nobody keeps the boundary: a committed
\* inventory lacks only rows that no read of this procedure could reveal, those
\* written by a writer reopened, or with a table restored, after the last
\* reread of it, or by an ungated writer reopened after the plan was begun.
\* The rows it has are all as they were seen.
OnlyLateMissed ==
  \A a \in Attempts : missed[a] \subseteq late[a]
                       /\ \A r \in missed[a] : snap[a][r] = Absent

\* The two together: what a committed inventory lacks is nothing with the boundary
\* kept, and without it only what nobody could have seen.
MissedIsExcused == NothingMissed /\ OnlyLateMissed

\* However many attempts are made under one plan or several, and however their
\* responses are lost, no transaction replaces the baseline another committed.
BaselineIsFinal ==
  [][table[Marker] # Absent => table'[Marker] \in {table[Marker], Absent}]_vars

\* The runbook: an apply "requires [...] a drained interval of the maximum
\* published function timeout plus 60 seconds", so that with no writer reopened
\* since planning began none is still running when the transaction is sent.
DrainedBeforeSend ==
  [][boundary => \A a \in Attempts : requests'[a] # requests[a] =>
       \A w \in Writers : busy[w] = Idle]_vars

\* An attempt is a write-ahead record of one transaction.
Promise == INSTANCE WriteAhead WITH
  Ops <- Attempts, Unknown <- "unknown",
  intent <- {a \in Attempts : journal[a] = "intent"},
  calls <- requests,
  outcome <- [a \in Attempts |-> IF a \in output THEN "acknowledged" ELSE "unknown"]
ImplementsWriteAhead == Promise!Spec
=============================================================================

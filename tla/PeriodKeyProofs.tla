-------------------------- MODULE PeriodKeyProofs ---------------------------
(***************************************************************************)
(* Theorems about PeriodKey for every set of journals and every value of   *)
(* its bounds, whether or not the operators are serialized.                *)
(***************************************************************************)
EXTENDS PeriodKey, TLAPS

-----------------------------------------------------------------------------
(* Type correctness *)

LEMMA FreshTypes ==
  /\ fresh_journal \in Doc /\ Missing \in File /\ Torn \in File /\ NoPlan \in Plan
BY DEF fresh_journal, Missing, Torn, File, Doc, Statuses, NoKey, NoTime, NoPlan, Plan, Modes

\* The length of a campaign period is positive, so a time has a period.
LEMMA PeriodType == ASSUME NEW t \in Nat PROVE PeriodOf(t) \in Nat
BY PeriodAssumption DEF PeriodOf

LEMMA TypeInit == Init => TypeOK
<1> SUFFICES ASSUME Init PROVE TypeOK
  OBVIOUS
<1>0. overlapped \in BOOLEAN
  BY Zenon DEF Init
<1>1. keys \in Seq(Key) /\ crashes \in Nat
  BY DEF Init
<1>2. /\ now \in Nat /\ registry \subseteq Nat
      /\ inflight \subseteq Journals /\ acked \subseteq Journals
      /\ requests \in [Journals -> Nat] /\ plan \in [Journals -> Plan]
      /\ disk \in [Journals -> File] /\ pending \in [Journals -> BOOLEAN]
  BY FreshTypes DEF Init
<1>3. /\ pc \in [Journals -> Labels] /\ after \in [Journals -> Returns]
      /\ stage \in [Journals -> Stages] /\ period \in [Journals -> Nat]
      /\ doc \in [Journals -> Doc] /\ horizon \in [Journals -> Nat]
      /\ seen \in [Journals -> SUBSET Nat] /\ match \in [Journals -> SUBSET Nat]
  BY FreshTypes DEF Init, Labels, Returns, Stages
<1> QED
  BY <1>0, <1>1, <1>2, <1>3 DEF TypeOK

\* The updates of a document, field by field, and why they keep it valid.
LEMMA IdentifiedDoc ==
  ASSUME NEW d \in Doc, NEW k \in Nat
  PROVE  /\ Identified(d, k) \in Doc
         /\ Identified(d, k).createAttempted = d.createAttempted
         /\ Identified(d, k).attemptedAt = d.attemptedAt
         /\ Identified(d, k).keyArn = k
         /\ Identified(d, k).status = "key_identified"
<1>1. "key_identified" \in Statuses
  BY DEF Statuses
<1> QED
  BY <1>1 DEF Doc, Identified

LEMMA AttemptedDoc ==
  ASSUME NEW d \in Doc, NEW t \in Nat
  PROVE  /\ Attempted(d, t) \in Doc
         /\ Attempted(d, t).createAttempted = TRUE
         /\ Attempted(d, t).attemptedAt = t
         /\ Attempted(d, t).keyArn = d.keyArn
         /\ Attempted(d, t).status = "create_attempted"
<1>1. t \in Int /\ "create_attempted" \in Statuses
  BY DEF Statuses
<1> QED
  BY <1>1 DEF Doc, Attempted

LEMMA WithStatusDoc ==
  ASSUME NEW d \in Doc, NEW s \in Statuses
  PROVE  /\ WithStatus(d, s) \in Doc
         /\ WithStatus(d, s).createAttempted = d.createAttempted
         /\ WithStatus(d, s).attemptedAt = d.attemptedAt
         /\ WithStatus(d, s).keyArn = d.keyArn
         /\ WithStatus(d, s).status = s
BY DEF Doc, WithStatus

LEMMA IdentifiedValid ==
  ASSUME NEW d \in Doc, NEW k \in Nat \ {NoKey}, NEW p \in Plan, validate_journal(d, p),
         d.createAttempted \/ (p.mode = "reuse" /\ k = p.candidate)
  PROVE  validate_journal(Identified(d, k), p)
BY IdentifiedDoc DEF validate_journal

LEMMA WithStatusValid ==
  ASSUME NEW d \in Doc, NEW p \in Plan, validate_journal(d, p),
         NEW s \in IF d.keyArn # NoKey THEN {"key_identified", "verified"} ELSE {"ambiguous"},
         d.keyArn # NoKey \/ d.createAttempted
  PROVE  s \in Statuses /\ validate_journal(WithStatus(d, s), p)
<1>1. s \in Statuses
  BY DEF Statuses
<1> QED
  BY <1>1, WithStatusDoc DEF validate_journal

LEMMA SaveTypes ==
  ASSUME TypeOK, NEW j \in Journals, NEW d \in Doc, NEW label \in Returns, Save(j, d, label)
  PROVE  /\ pc' \in [Journals -> Labels] /\ after' \in [Journals -> Returns]
         /\ doc' \in [Journals -> Doc]
BY DEF TypeOK, Save, Goto, Labels, Returns

\* What the process of one journal may do to the types.
LEMMA TypeStep ==
  ASSUME TypeOK, NEW j \in Journals, Step(j) PROVE TypeOK'
<1> USE DEF TypeOK, Stages, memory, world, faults, Goto
<1>0. /\ now \in Nat /\ doc[j] \in Doc /\ match[j] \subseteq Nat /\ plan[j].candidate \in Nat
      /\ {"key_identified", "verified", "ambiguous", "create_attempted"} \subseteq Statuses
      /\ {"confirm", "create", "created", "list", "idle"} \subseteq Returns
  BY DEF Plan, Statuses, Returns
<1>1. CASE WriteFresh(j)
  BY <1>1, FreshTypes DEF WriteFresh, File, Labels
<1>2. CASE CheckRegistry(j)
  BY <1>2 DEF CheckRegistry, Labels
<1>3. CASE ListKeys(j)
  BY <1>3 DEF ListKeys, Labels
<1>4. ASSUME NEW k \in 1 .. horizon[j], Examine(j, k) PROVE TypeOK'
  <2>1. k \in Nat
    OBVIOUS
  <2>2. seen' \in [Journals -> SUBSET Nat]
    BY <1>4, <2>1 DEF Examine
  <2>3. match' \in [Journals -> SUBSET Nat]
    <3>1. match' = match \/ match' = [match EXCEPT ![j] = {k}]
      BY <1>4 DEF Examine
    <3>2. {k} \in SUBSET Nat
      BY <2>1
    <3> QED
      BY <3>1, <3>2
  <2> QED
    BY <1>4, <2>2, <2>3 DEF Examine
<1>5. CASE WritePlan(j)
  <2>1. PICK mode \in {"create", "reuse", "selection_required"}, candidate \in match[j] \union {NoKey} :
          plan' = [plan EXCEPT ![j] = [mode |-> mode, period |-> period[j], candidate |-> candidate]]
    BY <1>5 DEF WritePlan
  <2>2. [mode |-> mode, period |-> period[j], candidate |-> candidate] \in Plan
    BY DEF Plan, Modes, NoKey
  <2>3. plan' \in [Journals -> Plan]
    BY <2>1, <2>2
  <2> QED
    BY <1>5, <2>3 DEF WritePlan, Labels
<1>6. CASE ResumeAttempted(j)
  <2>1. PICK k \in match[j] :
          Save(j, Identified(doc[j], k), "confirm")
    BY <1>6 DEF ResumeAttempted
  <2>2. Identified(doc[j], k) \in Doc
    BY <1>0, IdentifiedDoc
  <2> QED
    BY <1>6, <1>0, <2>1, <2>2, SaveTypes DEF ResumeAttempted
<1>7. CASE Reuse(j)
  <2>1. Identified(doc[j], plan[j].candidate) \in Doc
    BY <1>0, IdentifiedDoc
  <2> QED
    BY <1>7, <1>0, <2>1, SaveTypes DEF Reuse
<1>8. CASE RecordAttempt(j)
  <2>1. Attempted(doc[j], now) \in Doc
    <3> HIDE DEF TypeOK
    <3> QED
      BY <1>0, AttemptedDoc
  <2> QED
    BY <1>8, <1>0, <2>1, SaveTypes DEF RecordAttempt
<1>9. CASE SendCreate(j)
  BY <1>9 DEF SendCreate, Labels
<1>10. CASE Acknowledge(j)
  <2>1. PICK k \in 1 .. Len(keys) :
          Save(j, Identified(doc[j], k), "created")
    BY <1>10 DEF Acknowledge
  <2>a. k \in Nat
    OBVIOUS
  <2>2. Identified(doc[j], k) \in Doc
    BY <1>0, <2>a, IdentifiedDoc
  <2> QED
    BY <1>10, <1>0, <2>1, <2>2, SaveTypes DEF Acknowledge
<1>11. CASE CreateRaises(j)
  <2> DEFINE s == IF doc[j].keyArn # NoKey THEN "key_identified" ELSE "ambiguous"
  <2>1. s \in Statuses
    BY <1>0
  <2>2. WithStatus(doc[j], s) \in Doc
    BY <1>0, <2>1, WithStatusDoc
  <2>3. Save(j, WithStatus(doc[j], s), "list")
    BY <1>11 DEF CreateRaises
  <2> HIDE DEF s
  <2> QED
    BY <1>11, <1>0, <2>2, <2>3, SaveTypes DEF CreateRaises
<1>12. CASE RecoverCreated(j)
  <2>1. PICK k \in match[j] :
          Save(j, Identified(doc[j], k), "confirm")
    BY <1>12 DEF RecoverCreated
  <2>2. Identified(doc[j], k) \in Doc
    BY <1>0, IdentifiedDoc
  <2> QED
    BY <1>12, <1>0, <2>1, <2>2, SaveTypes DEF RecoverCreated
<1>13. CASE ConfirmKey(j)
  BY <1>13 DEF ConfirmKey, Labels
<1>14. CASE Verify(j)
  <2>1. WithStatus(doc[j], "verified") \in Doc
    BY <1>0, WithStatusDoc
  <2> QED
    BY <1>14, <1>0, <2>1, SaveTypes DEF Verify
<1>15. CASE OpenPending(j)
  BY <1>15 DEF OpenPending, Labels
<1>16. CASE Replace(j)
  BY <1>16 DEF Replace, File, Labels, Returns
<1>17. CASE Raise(j)
  BY <1>17 DEF Raise, Labels
<1> QED
  BY <1>1, <1>2, <1>3, <1>4, <1>5, <1>6, <1>7, <1>8, <1>9, <1>10, <1>11, <1>12,
     <1>13, <1>14, <1>15, <1>16, <1>17 DEF Step

\* Appending a key or marking one ineligible keeps the sequence of keys typed.
LEMMA TypeEnvironment ==
  ASSUME TypeOK, Environment PROVE TypeOK'
<1> USE DEF TypeOK, memory, faults
<1>1. CASE Tick
  BY <1>1 DEF Tick
<1>2. CASE CreateOutside
  <2>1. PICK kind \in Kinds : CreateKey(kind, PeriodOf(now), now, Outsider)
    BY <1>2 DEF CreateOutside
  <2>2. [kind |-> kind, period |-> PeriodOf(now), created |-> now, by |-> Outsider] \in Key
    BY PeriodType DEF Key
  <2>3. keys' \in Seq(Key)
    BY <2>1, <2>2 DEF CreateKey
  <2> QED
    BY <1>2, <2>3 DEF CreateOutside
<1>3. CASE Register
  BY <1>3, PeriodType DEF Register
<1>4. ASSUME NEW k \in 1 .. Len(keys), SpoilKey(k) PROVE TypeOK'
  <2>1. keys[k] \in Key
    OBVIOUS
  <2>a. PICK kind \in Spoils : keys' = [keys EXCEPT ![k].kind = kind]
    BY <1>4 DEF SpoilKey
  <2>2. [keys[k] EXCEPT !.kind = kind] \in Key
    BY <2>1, SpoilsAssumption DEF Key, Kinds
  <2>3. keys' \in Seq(Key)
    BY <2>a, <2>2
  <2> QED
    BY <1>4, <2>3 DEF SpoilKey
<1>5. ASSUME NEW j \in Journals, ExecuteCreate(j) PROVE TypeOK'
  <2>1. PICK created \in 0 .. now : CreateKey("eligible", plan[j].period, created, j)
    BY <1>5 DEF ExecuteCreate
  <2>2. [kind |-> "eligible", period |-> plan[j].period, created |-> created, by |-> j] \in Key
    BY DEF Key, Kinds, Plan
  <2>3. keys' \in Seq(Key)
    BY <2>1, <2>2 DEF CreateKey
  <2> QED
    BY <1>5, <2>3 DEF ExecuteCreate
<1>6. ASSUME NEW j \in Journals, LoseCreate(j) PROVE TypeOK'
  BY <1>6 DEF LoseCreate
<1> QED
  BY <1>1, <1>2, <1>3, <1>4, <1>5, <1>6 DEF Environment

LEMMA TypeNext == TypeOK /\ [Next]_vars => TypeOK'
<1> SUFFICES ASSUME TypeOK, [Next]_vars PROVE TypeOK'
  OBVIOUS
<1> USE DEF TypeOK, Labels, Stages, memory, world, faults, Start, Goto
<1>1. ASSUME NEW j \in Journals, StartPlan(j) PROVE TypeOK'
  BY <1>1, PeriodType DEF StartPlan
<1>2. ASSUME NEW j \in Journals, StartApply(j) PROVE TypeOK'
  <2>1. plan[j].period \in Nat
    BY DEF Plan
  <2>2. Written(j) => disk[j] \in Doc
    BY DEF Written, File, Missing, Torn, fresh_journal
  <2>3. disk' \in [Journals -> File]
    BY <1>2, FreshTypes DEF StartApply
  <2>4. doc' \in [Journals -> Doc]
    BY <1>2, <2>2 DEF StartApply
  <2>5. pc' \in [Journals -> Labels] /\ stage' \in [Journals -> Stages]
        /\ period' \in [Journals -> Nat]
    BY <1>2, <2>1 DEF StartApply
  <2> QED
    BY <1>2, <2>3, <2>4, <2>5 DEF StartApply
<1>3. ASSUME NEW j \in Journals, Crash(j) PROVE TypeOK'
  BY <1>3 DEF Crash
<1>4. CASE UNCHANGED vars
  BY <1>4 DEF vars, faults
<1> QED
  BY <1>1, <1>2, <1>3, <1>4, TypeStep, TypeEnvironment DEF Next

\* Every variable keeps the type the code gives it: in particular a journal on
\* disk is a whole document, the torn first write of main(), or absent.
THEOREM TypeCorrect == Spec => []TypeOK
<1> QED
  BY TypeInit, TypeNext, PTL DEF Spec

-----------------------------------------------------------------------------
(* The inductive invariant *)

Planned(j) == plan[j].mode \in {"create", "reuse"}

\* The process holds a journal and is applying a plan under it.
Applying(j) == pc[j] \notin {"idle", "fresh"} /\ stage[j] # "plan"

\* The process is saving, and will go on at one of the given points.
Saving(j, labels) == pc[j] \in {"save", "replace"} /\ after[j] \in labels

\* The journal file is whole and valid, follows a plan that can be applied, and
\* records the attempt of every request made.
DiskInv(j) ==
  /\ plan[j].mode = "reuse" => plan[j].candidate # NoKey
  /\ ~Planned(j) => disk[j] = Missing
  /\ pc[j] # "idle" /\ stage[j] = "plan" => plan[j] = NoPlan
  /\ stage[j] = "plan" => pc[j] \in {"idle", "check", "list", "examine"}
  /\ pc[j] = "fresh" => disk[j] = Torn /\ Planned(j) /\ stage[j] = "first" /\ period[j] = plan[j].period
  /\ ~Written(j) => disk[j] \in {Missing, Torn}
  /\ Written(j) => disk[j] \in Doc /\ validate_journal(disk[j], plan[j])
  /\ requests[j] <= 1
  /\ requests[j] > 0 => Written(j) /\ disk[j].createAttempted

\* The journal in memory is valid and at most one unsaved step ahead of the file.
MemoryInv(j) ==
  Applying(j) =>
    /\ Planned(j) /\ period[j] = plan[j].period /\ Written(j)
    /\ validate_journal(doc[j], plan[j])
    /\ disk[j].createAttempted =>
         doc[j].createAttempted /\ doc[j].attemptedAt = disk[j].attemptedAt
    /\ disk[j].keyArn # NoKey => doc[j].keyArn = disk[j].keyArn
    /\ doc[j].createAttempted /\ ~disk[j].createAttempted => Saving(j, {"create"})
    /\ Saving(j, {"create"}) =>
         ~disk[j].createAttempted /\ doc[j].createAttempted /\ doc[j].keyArn = NoKey
    /\ pc[j] \in {"create", "await"} => doc[j].createAttempted /\ doc[j].keyArn = NoKey
    /\ pc[j] = "create" => requests[j] = 0
    /\ stage[j] = "recover" \/ Saving(j, {"created"}) => doc[j].createAttempted
    /\ stage[j] = "confirm" => doc[j].keyArn # NoKey
    /\ Saving(j, {"created", "confirm", "idle"}) => doc[j].keyArn # NoKey
    /\ pc[j] = "final" => doc[j].keyArn # NoKey

\* discover() holds the tagged keys among those it has examined.
DiscoveryInv(j) ==
  pc[j] = "examine" =>
    /\ horizon[j] <= Len(keys)
    /\ seen[j] \subseteq 1 .. horizon[j]
    /\ match[j] \subseteq seen[j]
    /\ \A k \in match[j] : keys[k].period = period[j]
    /\ \A k \in seen[j] : Tagged(k, period[j]) => match[j] = {k}

\* What no other actor changes of journal i.
Untouched(i) ==
  /\ requests'[i] = requests[i] /\ plan'[i] = plan[i] /\ disk'[i] = disk[i]
  /\ pc'[i] = pc[i] /\ after'[i] = after[i] /\ stage'[i] = stage[i]
  /\ period'[i] = period[i] /\ doc'[i] = doc[i]
  /\ horizon'[i] = horizon[i] /\ seen'[i] = seen[i] /\ match'[i] = match[i]

\* KMS never forgets a key, and never gives one the tags of a period.
KeysGrow ==
  /\ Len(keys') \in Nat /\ Len(keys) <= Len(keys')
  /\ \A k \in 1 .. Len(keys) :
       /\ keys'[k].period = keys[k].period /\ keys'[k].created = keys[k].created
       /\ keys'[k].by = keys[k].by
       /\ keys[k].kind = "other" => keys'[k].kind = "other"
       /\ keys[k].kind # "other" /\ "other" \notin Spoils => keys'[k].kind # "other"

LocalStep(j) == StartPlan(j) \/ StartApply(j) \/ Step(j) \/ Crash(j)

LEMMA LocalFrame ==
  ASSUME TypeOK, NEW j \in Journals, LocalStep(j)
  PROVE  /\ \A i \in Journals \ {j} : Untouched(i)
         /\ UNCHANGED <<now, keys>>
<1> USE DEF TypeOK, Untouched, world, memory, Goto, Save
<1>1. CASE StartPlan(j) \/ StartApply(j) \/ Crash(j)
  BY <1>1 DEF StartPlan, StartApply, Crash
<1>2. CASE WriteFresh(j) \/ CheckRegistry(j) \/ ListKeys(j)
  BY <1>2 DEF WriteFresh, CheckRegistry, ListKeys
<1>3. ASSUME NEW k \in 1 .. horizon[j], Examine(j, k)
      PROVE  (\A i \in Journals \ {j} : Untouched(i)) /\ UNCHANGED <<now, keys>>
  BY <1>3 DEF Examine
<1>4. CASE WritePlan(j)
  BY <1>4 DEF WritePlan
<1>5. CASE ResumeAttempted(j)
  BY <1>5 DEF ResumeAttempted
<1>a. CASE RecoverCreated(j)
  BY <1>a DEF RecoverCreated
<1>b. CASE Acknowledge(j)
  BY <1>b DEF Acknowledge
<1>6. CASE Reuse(j) \/ RecordAttempt(j) \/ SendCreate(j) \/ Verify(j)
  BY <1>6 DEF Reuse, RecordAttempt, SendCreate, Verify
<1>7. CASE CreateRaises(j)
  BY <1>7 DEF CreateRaises
<1>8. CASE ConfirmKey(j) \/ OpenPending(j) \/ Replace(j) \/ Raise(j)
  BY <1>8 DEF ConfirmKey, OpenPending, Replace, Raise
<1> QED
  BY <1>1, <1>2, <1>3, <1>4, <1>5, <1>a, <1>b, <1>6, <1>7, <1>8 DEF LocalStep, Step

LEMMA EnvironmentFrame ==
  ASSUME TypeOK, Environment
  PROVE  /\ \A i \in Journals : Untouched(i)
         /\ KeysGrow /\ now <= now'
<1> USE DEF TypeOK, Untouched, memory
<1>1. CASE Tick \/ Register
  BY <1>1 DEF Tick, Register, KeysGrow
<1>2. CASE CreateOutside
  <2>1. PICK kind \in Kinds : CreateKey(kind, PeriodOf(now), now, Outsider)
    BY <1>2 DEF CreateOutside
  <2>2. KeysGrow
    BY <2>1 DEF CreateKey, KeysGrow
  <2> QED
    BY <1>2, <2>2 DEF CreateOutside
<1>3. ASSUME NEW k \in 1 .. Len(keys), SpoilKey(k)
      PROVE  (\A i \in Journals : Untouched(i)) /\ KeysGrow /\ now <= now'
  <2>1. PICK kind \in Spoils : keys' = [keys EXCEPT ![k].kind = kind]
    BY <1>3 DEF SpoilKey
  <2>2. keys[k].kind = "eligible" /\ \A l \in 1 .. Len(keys) : keys[l] \in Key
    BY <1>3 DEF SpoilKey
  <2>3. KeysGrow
    <3>1. Len(keys') = Len(keys) /\ Len(keys) \in Nat
      BY <2>1
    <3>2. ASSUME NEW l \in 1 .. Len(keys)
          PROVE  keys'[l] = IF l = k THEN [keys[k] EXCEPT !.kind = kind] ELSE keys[l]
      BY <2>1, <3>2
    <3> DEFINE spoiled == [keys[k] EXCEPT !.kind = kind]
    <3>3. /\ spoiled.kind = kind /\ spoiled.period = keys[k].period
          /\ spoiled.created = keys[k].created /\ spoiled.by = keys[k].by
      BY <2>2 DEF Key
    <3>4. \A l \in 1 .. Len(keys) : keys'[l] = IF l = k THEN spoiled ELSE keys[l]
      BY <3>2
    <3> HIDE DEF spoiled
    <3> QED
      BY <2>1, <2>2, <3>1, <3>3, <3>4 DEF KeysGrow
  <2> QED
    BY <1>3, <2>3 DEF SpoilKey
<1>4. ASSUME NEW j \in Journals, ExecuteCreate(j)
      PROVE  (\A i \in Journals : Untouched(i)) /\ KeysGrow /\ now <= now'
  <2>1. PICK created \in 0 .. now : CreateKey("eligible", plan[j].period, created, j)
    BY <1>4 DEF ExecuteCreate
  <2>2. KeysGrow
    BY <2>1 DEF CreateKey, KeysGrow
  <2> QED
    BY <1>4, <2>2 DEF ExecuteCreate
<1>5. ASSUME NEW j \in Journals, LoseCreate(j)
      PROVE  (\A i \in Journals : Untouched(i)) /\ KeysGrow /\ now <= now'
  BY <1>5 DEF LoseCreate, KeysGrow
<1> QED
  BY <1>1, <1>2, <1>3, <1>4, <1>5 DEF Environment

JournalInv(j) == DiskInv(j) /\ MemoryInv(j) /\ DiscoveryInv(j)

\* The invariant of a journal survives any step that leaves it alone.
LEMMA UntouchedInv ==
  ASSUME TypeOK, NEW i \in Journals, JournalInv(i), Untouched(i), KeysGrow
  PROVE  JournalInv(i)'
<1>1. DiskInv(i)'
  BY DEF JournalInv, Untouched, DiskInv, Planned, Written, validate_journal
<1>2. MemoryInv(i)'
  BY DEF JournalInv, Untouched, MemoryInv, Applying, Planned, Saving, Written, validate_journal
<1>3. DiscoveryInv(i)'
  <2>1. CASE pc[i] = "examine"
    <3>1. /\ horizon[i] <= Len(keys) /\ seen[i] \subseteq 1 .. horizon[i]
          /\ match[i] \subseteq seen[i]
          /\ \A k \in match[i] : keys[k].period = period[i]
          /\ \A k \in seen[i] :
               keys[k].kind # "other" /\ keys[k].period = period[i] => match[i] = {k}
      BY <2>1 DEF JournalInv, DiscoveryInv, Tagged
    <3>2. horizon[i] \in Nat /\ Len(keys) \in Nat /\ Len(keys') \in Nat
      BY DEF TypeOK, KeysGrow
    <3>3. \A k \in seen[i] :
            /\ keys'[k].period = keys[k].period
            /\ keys[k].kind = "other" => keys'[k].kind = "other"
      BY <3>1, <3>2 DEF KeysGrow
    <3>4. \A k \in match[i] : keys'[k].period = period[i]
      BY <3>1, <3>3
    <3>5. horizon[i] <= Len(keys')
      BY <3>1, <3>2 DEF KeysGrow
    <3> QED
      BY <2>1, <3>1, <3>3, <3>4, <3>5 DEF DiscoveryInv, Untouched, Tagged
  <2> QED
    BY <2>1 DEF DiscoveryInv, Untouched
<1> QED
  BY <1>1, <1>2, <1>3 DEF JournalInv

LEMMA DiskStep ==
  ASSUME TypeOK, NEW j \in Journals, JournalInv(j), LocalStep(j)
  PROVE  DiskInv(j)'
<1> USE DEF JournalInv, TypeOK, Goto, world, memory
<1>0. DiskInv(j) /\ MemoryInv(j)
  OBVIOUS
<1>1. CASE StartPlan(j)
  BY <1>1 DEF StartPlan, DiskInv, Planned, Written, validate_journal
<1>2. CASE StartApply(j)
  <2>1. /\ Planned(j) /\ plan' = plan /\ requests' = requests
        /\ stage'[j] = "first" /\ period'[j] = plan[j].period
    BY <1>2 DEF StartApply, Planned
  <2>2. CASE disk[j] = Missing /\ disk'[j] = Torn
    <3>1. ~Written(j) /\ ~Written(j)'
      BY <2>2 DEF Written, Missing, Torn
    <3> QED
      BY <2>1, <2>2, <3>1 DEF DiskInv, Planned
  <2>3. CASE disk' = disk /\ Written(j) /\ pc'[j] = "check"
    BY <2>1, <2>3 DEF DiskInv, Planned, Written, validate_journal
  <2> QED
    BY <1>2, <2>2, <2>3 DEF StartApply
<1>3. CASE Crash(j) \/ Raise(j)
  BY <1>3 DEF Crash, Raise, DiskInv, Planned, Written, validate_journal
<1>4. CASE WriteFresh(j)
  BY <1>4, FreshTypes DEF WriteFresh, DiskInv, Planned, Written, validate_journal, Torn, fresh_journal,
     NoKey, NoTime
<1>5. CASE CheckRegistry(j) \/ ListKeys(j) \/ ConfirmKey(j) \/ OpenPending(j)
  BY <1>5 DEF CheckRegistry, ListKeys, ConfirmKey, OpenPending, Discovered, DiskInv, Planned,
     Written, validate_journal
<1>6. ASSUME NEW k \in 1 .. horizon[j], Examine(j, k) PROVE DiskInv(j)'
  BY <1>6 DEF Examine, DiskInv, Planned, Written, validate_journal
<1>7. CASE WritePlan(j)
  <2>1. plan[j] = NoPlan /\ disk[j] = Missing /\ ~Written(j)
    <3>1. pc[j] # "idle" /\ stage[j] = "plan"
      BY <1>7 DEF WritePlan, Discovered
    <3>2. plan[j] = NoPlan
      BY <1>0, <3>1 DEF DiskInv
    <3>3. ~Planned(j)
      BY <3>2 DEF Planned, NoPlan
    <3>4. disk[j] = Missing
      BY <1>0, <3>3 DEF DiskInv
    <3> QED
      BY <3>2, <3>4 DEF Written, Missing, fresh_journal
  <2>2. disk' = disk /\ requests' = requests /\ pc'[j] = "idle" /\ stage' = stage
    BY <1>7 DEF WritePlan
  <2>3. plan'[j].mode = "reuse" => plan'[j].candidate # NoKey
    BY <1>7 DEF WritePlan
  <2> QED
    <3>1. requests[j] <= 1 /\ ~(requests[j] > 0)
      BY <2>1, <1>0 DEF DiskInv
    <3>2. ~Written(j)' /\ disk'[j] = Missing
      BY <2>1, <2>2 DEF Written
    <3> HIDE DEF TypeOK, JournalInv
    <3> QED
      BY <2>2, <2>3, <3>1, <3>2 DEF DiskInv, Planned
<1>8. CASE ResumeAttempted(j) \/ RecoverCreated(j) \/ Acknowledge(j) \/ Reuse(j) \/ RecordAttempt(j)
           \/ CreateRaises(j) \/ Verify(j)
  <2>1. /\ stage[j] # "plan" /\ stage'[j] # "plan" /\ pc[j] \notin {"idle", "fresh"}
        /\ pc'[j] = "save"
    BY <1>8 DEF ResumeAttempted, RecoverCreated, Acknowledge, Reuse, RecordAttempt, CreateRaises,
       Verify, Save, Discovered, DiskInv
  <2>2. plan' = plan /\ disk' = disk /\ requests' = requests
    BY <1>8 DEF ResumeAttempted, RecoverCreated, Acknowledge, Reuse, RecordAttempt, CreateRaises, Verify
  <2> QED
    BY <2>1, <2>2 DEF DiskInv, Planned, Written, validate_journal
<1>9. CASE SendCreate(j)
  <2>1. /\ requests[j] = 0 /\ disk[j].createAttempted /\ Written(j)
    BY <1>9 DEF SendCreate, DiskInv, MemoryInv, Applying, Saving
  <2> QED
    BY <1>9, <2>1 DEF SendCreate, DiskInv, Planned, Written, validate_journal
<1>10. CASE Replace(j)
  <2>1. /\ Planned(j) /\ validate_journal(doc[j], plan[j])
        /\ disk[j].createAttempted => doc[j].createAttempted
    BY <1>10 DEF Replace, DiskInv, MemoryInv, Applying
  <2>2. disk'[j] = doc[j] /\ plan' = plan /\ requests' = requests
    BY <1>10 DEF Replace
  <2>3. stage[j] # "plan" /\ stage'[j] # "plan" /\ pc'[j] # "fresh"
    BY <1>10 DEF Replace, DiskInv, Returns
  <2>4. doc[j] \in Doc /\ doc[j].status \notin {"missing", "torn"}
    BY DEF Doc, Statuses
  <2> QED
    BY <2>1, <2>2, <2>3, <2>4 DEF DiskInv, Planned, Written, validate_journal
<1> QED
  BY <1>1, <1>2, <1>3, <1>4, <1>5, <1>6, <1>7, <1>8, <1>9, <1>10 DEF LocalStep, Step

LEMMA MemoryStep ==
  ASSUME TypeOK, NEW j \in Journals, JournalInv(j), LocalStep(j)
  PROVE  MemoryInv(j)'
<1> USE DEF JournalInv, TypeOK, Goto, world, memory
<1>0. DiskInv(j) /\ MemoryInv(j)
  OBVIOUS
<1>1. CASE StartPlan(j) \/ Crash(j) \/ Raise(j) \/ WritePlan(j)
  BY <1>1 DEF StartPlan, Crash, Raise, WritePlan, MemoryInv, Applying
<1>2. CASE StartApply(j)
  <2>1. CASE pc'[j] = "fresh"
    BY <2>1 DEF MemoryInv, Applying
  <2>2. CASE /\ disk' = disk /\ Written(j) /\ validate_journal(disk[j], plan[j])
             /\ doc'[j] = disk[j] /\ pc'[j] = "check"
    <3>1. Planned(j) /\ plan' = plan /\ stage'[j] = "first" /\ period'[j] = plan[j].period
      BY <1>2 DEF StartApply, Planned
    <3> QED
      BY <2>2, <3>1 DEF MemoryInv, Applying, Planned, Written, Saving, validate_journal
  <2> QED
    BY <1>2, <2>1, <2>2 DEF StartApply
<1>3. CASE WriteFresh(j)
  <2>1. Planned(j) /\ period[j] = plan[j].period /\ stage[j] = "first"
    BY <1>3 DEF WriteFresh, DiskInv
  <2> QED
    BY <1>3, <2>1 DEF WriteFresh, MemoryInv, Applying, Planned, Written, Saving,
       validate_journal, fresh_journal, NoKey, NoTime
<1>4. CASE CheckRegistry(j) \/ ListKeys(j) \/ ConfirmKey(j)
  BY <1>4 DEF CheckRegistry, ListKeys, ConfirmKey, Discovered, MemoryInv, Applying, Planned,
     Written, Saving, validate_journal
<1>5. CASE OpenPending(j)
  BY <1>5 DEF OpenPending, MemoryInv, Applying, Planned, Written, Saving, validate_journal
<1>6. ASSUME NEW k \in 1 .. horizon[j], Examine(j, k) PROVE MemoryInv(j)'
  BY <1>6 DEF Examine, MemoryInv, Applying, Planned, Written, Saving, validate_journal
<1>7. ASSUME Applying(j), NEW d \in Doc, NEW label \in Returns \ {"create"}, Save(j, d, label),
             pc[j] \notin {"create"}, ~Saving(j, {"create"}),
             plan' = plan, disk' = disk, requests' = requests, period' = period,
             stage'[j] \in {stage[j], "recover"},
             validate_journal(d, plan[j]),
             doc[j].createAttempted => d.createAttempted /\ d.attemptedAt = doc[j].attemptedAt,
             d.createAttempted => doc[j].createAttempted,
             doc[j].keyArn # NoKey => d.keyArn = doc[j].keyArn,
             stage'[j] = "recover" \/ label = "created" => d.createAttempted,
             label # "list" => d.keyArn # NoKey,
             stage'[j] = "confirm" => d.keyArn # NoKey
      PROVE  MemoryInv(j)'
  BY <1>0, <1>7 DEF Save, MemoryInv, Applying, Planned, Written, Saving, Returns
<1>a. doc[j] \in Doc /\ plan[j] \in Plan
  OBVIOUS
<1>b. \A k \in match[j] : pc[j] = "examine" => k \in Nat \ {NoKey}
  BY DEF DiscoveryInv, NoKey
<1>8. CASE ResumeAttempted(j)
  <2>1. PICK k \in match[j] : Recovered(j, k) /\ Save(j, Identified(doc[j], k), "confirm")
    BY <1>8 DEF ResumeAttempted
  <2>2. /\ Applying(j) /\ doc[j].createAttempted /\ pc[j] = "examine" /\ stage[j] = "first"
        /\ k \in Nat \ {NoKey} /\ doc[j].keyArn \in {NoKey, k}
        /\ UNCHANGED <<plan, disk, requests, period, stage>>
    BY <1>8, <1>b, <2>1 DEF ResumeAttempted, Discovered, Applying, Recovered
  <2>3. validate_journal(doc[j], plan[j]) /\ ~Saving(j, {"create"})
    BY <1>0, <2>2 DEF MemoryInv, Saving
  <2>4. validate_journal(Identified(doc[j], k), plan[j])
    BY <1>a, <2>2, <2>3, IdentifiedValid
  <2> HIDE DEF TypeOK, JournalInv
  <2> QED
    BY <1>a, <1>7, <2>1, <2>2, <2>3, <2>4, IdentifiedDoc DEF Returns
<1>9. CASE RecoverCreated(j)
  <2>1. PICK k \in match[j] : Recovered(j, k) /\ Save(j, Identified(doc[j], k), "confirm")
    BY <1>9 DEF RecoverCreated
  <2>2. /\ Applying(j) /\ pc[j] = "examine" /\ stage[j] = "recover"
        /\ k \in Nat \ {NoKey} /\ doc[j].keyArn \in {NoKey, k}
        /\ UNCHANGED <<plan, disk, requests, period, stage>>
    BY <1>9, <1>b, <2>1 DEF RecoverCreated, Discovered, Applying, Recovered
  <2>3. validate_journal(doc[j], plan[j]) /\ ~Saving(j, {"create"}) /\ doc[j].createAttempted
    BY <1>0, <2>2 DEF MemoryInv, Saving
  <2>4. validate_journal(Identified(doc[j], k), plan[j])
    BY <1>a, <2>2, <2>3, IdentifiedValid
  <2> HIDE DEF TypeOK, JournalInv
  <2> QED
    BY <1>a, <1>7, <2>1, <2>2, <2>3, <2>4, IdentifiedDoc DEF Returns
<1>10. CASE Acknowledge(j)
  <2>1. PICK k \in 1 .. Len(keys) : Save(j, Identified(doc[j], k), "created")
    BY <1>10 DEF Acknowledge
  <2>2. /\ Applying(j) /\ pc[j] = "await" /\ k \in Nat \ {NoKey}
        /\ UNCHANGED <<plan, disk, requests, period, stage>>
    BY <1>0, <1>10 DEF Acknowledge, DiskInv, Applying, NoKey
  <2> HIDE DEF TypeOK, JournalInv
  <2>3. /\ validate_journal(doc[j], plan[j]) /\ ~Saving(j, {"create"})
        /\ doc[j].createAttempted /\ doc[j].keyArn = NoKey /\ stage[j] # "confirm"
    BY <1>0, <2>2 DEF MemoryInv, Saving
  <2>4. validate_journal(Identified(doc[j], k), plan[j])
    BY <1>a, <2>2, <2>3, IdentifiedValid
  <2> HIDE DEF TypeOK, JournalInv
  <2> QED
    BY <1>a, <1>7, <2>1, <2>2, <2>3, <2>4, IdentifiedDoc DEF Returns
<1>11. CASE Reuse(j)
  <2> DEFINE k == plan[j].candidate
  <2>1. Save(j, Identified(doc[j], k), "confirm")
    BY <1>11 DEF Reuse
  <2>2. /\ Applying(j) /\ pc[j] = "examine" /\ stage[j] = "first" /\ plan[j].mode = "reuse"
        /\ ~doc[j].createAttempted
        /\ UNCHANGED <<plan, disk, requests, period, stage>>
    BY <1>11 DEF Reuse, Discovered, Applying
  <2>3. /\ k \in Nat \ {NoKey} /\ validate_journal(doc[j], plan[j]) /\ ~Saving(j, {"create"})
    BY <1>0, <2>2 DEF DiskInv, MemoryInv, Saving, Plan
  <2>4. doc[j].keyArn \in {NoKey, k}
    BY <2>2, <2>3 DEF validate_journal
  <2> HIDE DEF k
  <2>5. validate_journal(Identified(doc[j], k), plan[j])
    BY <1>a, <2>2, <2>3, IdentifiedValid DEF k
  <2> HIDE DEF TypeOK, JournalInv
  <2> QED
    BY <1>a, <1>7, <2>1, <2>2, <2>3, <2>4, <2>5, IdentifiedDoc DEF Returns
<1>12. CASE CreateRaises(j)
  <2> DEFINE s == IF doc[j].keyArn # NoKey THEN "key_identified" ELSE "ambiguous"
  <2>1. Save(j, WithStatus(doc[j], s), "list")
    BY <1>12 DEF CreateRaises
  <2>2. /\ Applying(j) /\ pc[j] # "create" /\ ~Saving(j, {"create"}) /\ stage'[j] = "recover"
        /\ UNCHANGED <<plan, disk, requests, period>>
    BY <1>0, <1>12 DEF CreateRaises, Applying, Saving, DiskInv
  <2>3. validate_journal(doc[j], plan[j]) /\ doc[j].createAttempted
    BY <1>0, <1>12, <2>2 DEF MemoryInv, Saving, CreateRaises
  <2> HIDE DEF TypeOK, JournalInv
  <2>4. s \in Statuses /\ validate_journal(WithStatus(doc[j], s), plan[j])
    BY <1>a, <2>3, WithStatusValid
  <2> HIDE DEF s
  <2> QED
    BY <1>a, <1>7, <2>1, <2>2, <2>3, <2>4, WithStatusDoc DEF Returns
<1>13. CASE Verify(j)
  <2>1. Save(j, WithStatus(doc[j], "verified"), "idle")
    BY <1>13 DEF Verify
  <2>2. /\ Applying(j) /\ pc[j] = "final" /\ ~Saving(j, {"create"})
        /\ UNCHANGED <<plan, disk, requests, period, stage>>
    BY <1>0, <1>13 DEF Verify, Applying, Saving, DiskInv
  <2> HIDE DEF TypeOK, JournalInv
  <2>3. /\ validate_journal(doc[j], plan[j]) /\ doc[j].keyArn # NoKey
        /\ stage[j] = "recover" => doc[j].createAttempted
    BY <1>0, <2>2 DEF MemoryInv
  <2>4. "verified" \in Statuses /\ validate_journal(WithStatus(doc[j], "verified"), plan[j])
    BY <1>a, <2>3, WithStatusValid
  <2> QED
    BY <1>a, <1>7, <2>1, <2>2, <2>3, <2>4, WithStatusDoc DEF Returns
<1>14. CASE RecordAttempt(j)
  <2> DEFINE d == Attempted(doc[j], now)
  <2>1. /\ Applying(j) /\ doc[j].keyArn = NoKey /\ stage[j] = "first" /\ pc[j] = "examine"
        /\ ~doc[j].createAttempted /\ plan[j].mode = "create" /\ PeriodOf(now) = period[j]
        /\ UNCHANGED <<plan, disk, requests, period, stage>>
        /\ Save(j, d, "create")
    BY <1>14 DEF RecordAttempt, Discovered, Applying, registry_absent, clock
  <2>2. /\ Planned(j) /\ Written(j) /\ period[j] = plan[j].period
        /\ ~disk[j].createAttempted /\ disk[j].keyArn = NoKey
    BY <1>0, <2>1 DEF MemoryInv
  <2>3. /\ now \in Nat
    OBVIOUS
  <2> HIDE DEF TypeOK, JournalInv
  <2>4. d \in Doc /\ validate_journal(d, plan[j]) /\ d.createAttempted /\ d.keyArn = NoKey
    <3>1. /\ d \in Doc /\ d.createAttempted = TRUE /\ d.attemptedAt = now
          /\ d.keyArn = doc[j].keyArn /\ d.status = "create_attempted"
      BY <1>a, <2>3, AttemptedDoc
    <3> HIDE DEF d
    <3> QED
      BY <2>1, <2>2, <2>3, <3>1 DEF validate_journal
  <2>5. doc'[j] = d /\ pc'[j] = "save" /\ after'[j] = "create"
    BY <2>1 DEF Save, Goto, TypeOK
  <2> HIDE DEF d
  <2> QED
    BY <2>1, <2>2, <2>4, <2>5 DEF MemoryInv, Applying, Planned, Written, Saving
<1>15. CASE SendCreate(j)
  BY <1>15 DEF SendCreate, MemoryInv, Applying, Planned, Written, Saving, validate_journal
<1>16. CASE Replace(j)
  <2>1. /\ Applying(j) /\ Planned(j) /\ period[j] = plan[j].period
        /\ validate_journal(doc[j], plan[j]) /\ doc[j] \in Doc
    BY <1>16 DEF Replace, DiskInv, MemoryInv, Applying
  <2>2. disk'[j] = doc[j] /\ doc' = doc /\ plan' = plan /\ requests' = requests /\ period' = period
    BY <1>16 DEF Replace
  <2>3. Written(j)'
    BY <2>1, <2>2 DEF Written, Doc, Statuses
  <2>4. CASE after[j] = "create"
    <3>1. pc[j] = "replace" /\ pc'[j] = "create" /\ stage' = stage
      BY <1>16, <2>4 DEF Replace
    <3>2. ~disk[j].createAttempted /\ doc[j].createAttempted /\ doc[j].keyArn = NoKey
      BY <2>1, <2>4, <3>1, <1>0 DEF MemoryInv, Saving
    <3>3. requests[j] = 0 /\ stage[j] \notin {"plan", "confirm"}
      BY <2>1, <2>4, <3>1, <3>2, <1>0 DEF DiskInv, MemoryInv, Applying
    <3> QED
      BY <2>1, <2>2, <2>3, <3>1, <3>2, <3>3 DEF MemoryInv, Planned, Applying, Saving
  <2>5. CASE after[j] \in {"created", "confirm"}
    <3>0. pc[j] = "replace" /\ pc'[j] = "check" /\ stage'[j] = "confirm"
      BY <1>16, <2>5 DEF Replace
    <3>1. doc[j].keyArn # NoKey
      BY <2>1, <2>5, <3>0, <1>0 DEF MemoryInv, Saving
    <3> QED
      BY <2>1, <2>2, <2>3, <3>0, <3>1 DEF MemoryInv, Planned, Applying, Saving
  <2>6. CASE after[j] = "list"
    <3>1. pc'[j] = "list" /\ stage' = stage
      BY <1>16, <2>6 DEF Replace
    <3> QED
      BY <2>1, <2>2, <2>3, <3>1, <1>0 DEF MemoryInv, Planned, Applying, Saving
  <2>7. CASE after[j] = "idle"
    BY <1>16, <2>7 DEF Replace, MemoryInv, Applying
  <2> QED
    BY <2>4, <2>5, <2>6, <2>7 DEF Returns
<1> QED
  BY <1>1, <1>2, <1>3, <1>4, <1>5, <1>6, <1>8, <1>9, <1>10, <1>11, <1>12, <1>13, <1>14,
     <1>15, <1>16 DEF LocalStep, Step

LEMMA DiscoveryStep ==
  ASSUME TypeOK, NEW j \in Journals, JournalInv(j), LocalStep(j)
  PROVE  DiscoveryInv(j)'
<1> USE DEF JournalInv, TypeOK, Goto, world, memory
<1>1. CASE ListKeys(j)
  BY <1>1 DEF ListKeys, DiscoveryInv
<1>2. ASSUME NEW k \in 1 .. horizon[j], Examine(j, k) PROVE DiscoveryInv(j)'
  <2>1. /\ pc[j] = "examine" /\ k \in (1 .. horizon[j]) \ seen[j]
        /\ seen'[j] = seen[j] \union {k} /\ UNCHANGED <<pc, keys, horizon, period>>
    BY <1>2 DEF Examine
  <2>2. /\ horizon[j] <= Len(keys) /\ seen[j] \subseteq 1 .. horizon[j]
        /\ match[j] \subseteq seen[j]
        /\ \A l \in match[j] : keys[l].period = period[j]
        /\ \A l \in seen[j] : Tagged(l, period[j]) => match[j] = {l}
    BY <2>1 DEF DiscoveryInv
  <2>3. CASE ~Tagged(k, period[j]) /\ match' = match
    BY <2>1, <2>2, <2>3 DEF DiscoveryInv, Tagged
  <2>4. CASE Tagged(k, period[j]) /\ match[j] = {} /\ match' = [match EXCEPT ![j] = {k}]
    <3>1. \A l \in seen[j] : ~Tagged(l, period[j])
      BY <2>2, <2>4
    <3>2. match'[j] = {k} /\ keys[k].period = period[j]
      BY <2>4 DEF Tagged
    <3> QED
      BY <2>1, <2>2, <3>1, <3>2 DEF DiscoveryInv, Tagged
  <2> QED
    BY <1>2, <2>3, <2>4 DEF Examine
<1>3. CASE ~ListKeys(j) /\ ~\E k \in 1 .. horizon[j] : Examine(j, k)
  <2>1. pc'[j] # "examine"
    <3>1. CASE StartPlan(j) \/ StartApply(j) \/ Crash(j) \/ Raise(j) \/ WriteFresh(j)
               \/ CheckRegistry(j) \/ WritePlan(j) \/ SendCreate(j) \/ ConfirmKey(j) \/ OpenPending(j)
      BY <3>1 DEF StartPlan, StartApply, Crash, Raise, WriteFresh, CheckRegistry, WritePlan,
         SendCreate, ConfirmKey, OpenPending
    <3>2. CASE ResumeAttempted(j) \/ RecoverCreated(j) \/ Acknowledge(j)
      BY <3>2 DEF ResumeAttempted, RecoverCreated, Acknowledge, Save
    <3>3. CASE Reuse(j) \/ RecordAttempt(j) \/ CreateRaises(j) \/ Verify(j)
      BY <3>3 DEF Reuse, RecordAttempt, CreateRaises, Verify, Save
    <3>4. CASE Replace(j)
      BY <3>4 DEF Replace, Returns
    <3> QED
      BY <1>3, <3>1, <3>2, <3>3, <3>4 DEF LocalStep, Step
  <2> QED
    BY <2>1 DEF DiscoveryInv
<1> QED
  BY <1>1, <1>2, <1>3

JournalsInv == \A j \in Journals : JournalInv(j)

LEMMA JournalsInit == Init => JournalsInv
BY DEF Init, JournalsInv, JournalInv, DiskInv, MemoryInv, DiscoveryInv, Planned, Written,
   Applying, NoPlan, Missing, fresh_journal

\* A step is the environment's, or that of one process.
LEMMA StepKinds ==
  ASSUME [Next]_vars
  PROVE  (\E j \in Journals : LocalStep(j)) \/ Environment \/ UNCHANGED vars
BY DEF Next, LocalStep

LEMMA JournalsNext ==
  TypeOK /\ JournalsInv /\ [Next]_vars => JournalsInv'
<1> SUFFICES ASSUME TypeOK, JournalsInv, [Next]_vars, NEW i \in Journals
             PROVE  JournalInv(i)'
  BY DEF JournalsInv
<1>0. JournalInv(i)
  BY DEF JournalsInv
<1>1. ASSUME NEW j \in Journals, LocalStep(j) PROVE JournalInv(i)'
  <2>1. CASE i = j
    BY <1>0, <1>1, <2>1, DiskStep, MemoryStep, DiscoveryStep DEF JournalInv
  <2>2. CASE i # j
    <3>1. Untouched(i) /\ UNCHANGED <<now, keys>>
      BY <1>1, <2>2, LocalFrame
    <3>2. KeysGrow
      BY <3>1 DEF KeysGrow, TypeOK
    <3> QED
      BY <1>0, <3>1, <3>2, UntouchedInv
  <2> QED
    BY <2>1, <2>2
<1>2. CASE Environment
  BY <1>0, <1>2, EnvironmentFrame, UntouchedInv
<1>3. CASE UNCHANGED vars
  <2>1. Untouched(i) /\ KeysGrow
    BY <1>3 DEF vars, faults, Untouched, KeysGrow, TypeOK
  <2> QED
    BY <1>0, <2>1, UntouchedInv
<1> QED
  BY <1>1, <1>2, <1>3, StepKinds

LEMMA JournalsInvariant == Spec => [](TypeOK /\ JournalsInv)
<1>1. Init => TypeOK /\ JournalsInv
  BY TypeInit, JournalsInit
<1>2. TypeOK /\ JournalsInv /\ [Next]_vars => (TypeOK /\ JournalsInv)'
  BY TypeNext, JournalsNext
<1> QED
  BY <1>1, <1>2, PTL DEF Spec

-----------------------------------------------------------------------------
(* What follows from it *)

\* No journal leads to a second CreateKey request, whatever is killed or lost.
THEOREM OneCreate == Spec => []OneCreatePerJournal
<1>1. TypeOK /\ JournalsInv => OneCreatePerJournal
  BY DEF JournalsInv, JournalInv, DiskInv, OneCreatePerJournal
<1> QED
  BY <1>1, JournalsInvariant, PTL

\* Every journal on disk is one the next run accepts.
THEOREM NoJournalIsStranded == Spec => []JournalsValid
<1>1. TypeOK /\ JournalsInv => JournalsValid
  BY DEF JournalsInv, JournalInv, DiskInv, JournalsValid
<1> QED
  BY <1>1, JournalsInvariant, PTL

\* What one step may do to a journal on disk: write the next recorded state.
LEMMA DiskChange ==
  ASSUME TypeOK, JournalsInv, [Next]_vars, NEW j \in Journals, Written(j)
  PROVE  /\ plan'[j] = plan[j]
         /\ \/ disk'[j] = disk[j]
            \/ Replace(j) /\ disk'[j] = doc[j] /\ Applying(j)
<1>0. JournalInv(j) /\ Planned(j) /\ pc[j] # "fresh" /\ disk[j] # Missing
  BY DEF JournalsInv, JournalInv, DiskInv, Written, Missing, Torn, fresh_journal
<1>1. CASE Environment \/ UNCHANGED vars
  BY <1>1, EnvironmentFrame DEF vars, faults, Untouched
<1>2. ASSUME NEW i \in Journals, LocalStep(i), i # j PROVE plan'[j] = plan[j] /\ disk'[j] = disk[j]
  BY <1>2, LocalFrame DEF Untouched
<1>3. CASE Replace(j)
  <2>1. disk'[j] = doc[j] /\ plan' = plan
    BY <1>3 DEF Replace, TypeOK
  <2>2. Applying(j)
    BY <1>0, <1>3 DEF Replace, Applying, JournalInv, DiskInv
  <2> QED
    BY <1>3, <2>1, <2>2
<1>4. CASE LocalStep(j) /\ ~Replace(j)
  <2>1. plan[j] # NoPlan
    BY <1>0 DEF Planned, NoPlan
  <2>2. ~WritePlan(j) /\ ~WriteFresh(j)
    BY <1>0, <2>1 DEF WritePlan, WriteFresh, Discovered, JournalInv, DiskInv
  <2>3. CASE StartPlan(j) \/ StartApply(j) \/ Crash(j) \/ Raise(j) \/ CheckRegistry(j) \/ ListKeys(j)
    BY <1>0, <2>3 DEF StartPlan, StartApply, Crash, Raise, CheckRegistry, ListKeys
  <2>4. CASE ResumeAttempted(j) \/ RecoverCreated(j) \/ Acknowledge(j) \/ Reuse(j) \/ RecordAttempt(j)
             \/ CreateRaises(j) \/ Verify(j)
    BY <2>4 DEF ResumeAttempted, RecoverCreated, Acknowledge, Reuse, RecordAttempt, CreateRaises, Verify
  <2>5. CASE SendCreate(j) \/ ConfirmKey(j) \/ OpenPending(j) \/ \E k \in 1 .. horizon[j] : Examine(j, k)
    BY <2>5 DEF SendCreate, ConfirmKey, OpenPending, Examine
  <2> QED
    BY <1>4, <2>2, <2>3, <2>4, <2>5 DEF LocalStep, Step
<1> QED
  BY <1>1, <1>2, <1>3, <1>4, StepKinds

\* A run never replaces the key its journal names.
THEOREM KeyIsNeverReplaced == Spec => BindingStable
<1>1. ASSUME TypeOK, JournalsInv, [Next]_vars, NEW j \in Journals,
             Written(j), disk[j].keyArn # NoKey
      PROVE  disk'[j].keyArn = disk[j].keyArn
  BY <1>1, DiskChange DEF JournalsInv, JournalInv, MemoryInv
<1>2. TypeOK /\ JournalsInv /\ [Next]_vars =>
        [\A j \in Journals : Written(j) /\ disk[j].keyArn # NoKey =>
           disk[j]'.keyArn = disk[j].keyArn]_vars
  BY <1>1
<1> QED
  BY <1>2, JournalsInvariant, PTL DEF Spec, BindingStable

-----------------------------------------------------------------------------
(* No two verified keys: the key of a verified journal is the first one that
   was ever given the tags of its period *)

FirstTagged(k, p) ==
  /\ k \in 1 .. Len(keys)
  /\ \A l \in 1 .. Len(keys) : l < k => ~Tagged(l, p)
  /\ "other" \notin Spoils => Tagged(k, p)

VerifiedInv(j) ==
  /\ Verified(j) => FirstTagged(disk[j].keyArn, plan[j].period)
  /\ Applying(j) /\ pc[j] = "final" => FirstTagged(doc[j].keyArn, period[j])
  /\ Applying(j) /\ pc[j] \in {"save", "replace"} /\ doc[j].status = "verified"
       => FirstTagged(doc[j].keyArn, period[j])

\* Being first among the tagged keys is never lost: later keys get later numbers.
LEMMA FirstTaggedStable ==
  ASSUME TypeOK, KeysGrow, NEW k, NEW p, FirstTagged(k, p)
  PROVE  k \in 1 .. Len(keys') /\ FirstTagged(k, p)'
<1>1. /\ k \in 1 .. Len(keys) /\ Len(keys) \in Nat /\ Len(keys') \in Nat /\ Len(keys) <= Len(keys')
      /\ \A l \in 1 .. Len(keys) : l < k => ~Tagged(l, p)
  BY DEF TypeOK, KeysGrow, FirstTagged
<1>2. k \in 1 .. Len(keys')
  BY <1>1
<1>3. ASSUME NEW l \in 1 .. Len(keys'), l < k PROVE ~Tagged(l, p)'
  <2>1. l \in 1 .. Len(keys)
    BY <1>1, <1>3
  <2>2. ~Tagged(l, p)
    BY <1>1, <1>3, <2>1
  <2> QED
    BY <2>1, <2>2 DEF Tagged, KeysGrow
<1>4. "other" \notin Spoils => Tagged(k, p)'
  BY <1>1 DEF FirstTagged, Tagged, KeysGrow
<1> QED
  BY <1>2, <1>3, <1>4 DEF FirstTagged

\* A complete discovery that found only k found the first tagged key.
LEMMA ConfirmedIsFirst ==
  ASSUME TypeOK, NEW j \in Journals, JournalInv(j), ConfirmKey(j)
  PROVE  FirstTagged(doc[j].keyArn, period[j])
<1> DEFINE k == doc[j].keyArn
<1>1. /\ pc[j] = "examine" /\ seen[j] = 1 .. horizon[j] /\ match[j] = {k} /\ keys[k].kind = "eligible"
  BY DEF ConfirmKey, Discovered, Eligible
<1>2. /\ horizon[j] <= Len(keys) /\ k \in 1 .. horizon[j] /\ keys[k].period = period[j]
      /\ \A l \in 1 .. horizon[j] : Tagged(l, period[j]) => match[j] = {l}
  BY <1>1 DEF JournalInv, DiscoveryInv
<1>3. horizon[j] \in Nat /\ Len(keys) \in Nat
  BY DEF TypeOK
<1>4. k \in 1 .. Len(keys)
  BY <1>2, <1>3
<1>5. ASSUME NEW l \in 1 .. Len(keys), l < k PROVE ~Tagged(l, period[j])
  <2>1. l \in 1 .. horizon[j] /\ l # k
    BY <1>2, <1>3, <1>4, <1>5
  <2> QED
    BY <1>1, <1>2, <2>1
<1>6. Tagged(k, period[j])
  BY <1>1, <1>2 DEF Tagged
<1> QED
  BY <1>4, <1>5, <1>6 DEF FirstTagged

LEMMA VerifiedStep ==
  ASSUME TypeOK, TypeOK', JournalsInv, NEW j \in Journals, VerifiedInv(j), LocalStep(j)
  PROVE  VerifiedInv(j)'
<1>0. JournalInv(j) /\ [Next]_vars
  BY DEF JournalsInv, Next, LocalStep
<1>1. UNCHANGED keys
  BY LocalFrame
<1>2. \A k, p : FirstTagged(k, p) => FirstTagged(k, p)'
  BY <1>1 DEF FirstTagged, Tagged
<1>3. Verified(j)' => FirstTagged(disk[j].keyArn, plan[j].period)'
  <2>1. CASE ~Written(j)
    <3>1. ASSUME Written(j)' PROVE disk'[j] = fresh_journal
      <4>1. CASE WriteFresh(j)
        BY <4>1 DEF WriteFresh, TypeOK
      <4>2. CASE StartApply(j) /\ disk' # disk
        BY <2>1, <3>1, <4>2 DEF StartApply, Written, Torn, fresh_journal, TypeOK
      <4>3. CASE Replace(j)
        BY <1>0, <2>1, <4>3 DEF Replace, JournalInv, MemoryInv, DiskInv, Applying
      <4>4. CASE ~WriteFresh(j) /\ ~Replace(j) /\ ~(StartApply(j) /\ disk' # disk)
        <5>1. disk' = disk
          BY <4>4 DEF LocalStep, Step, StartPlan, StartApply, Crash, CheckRegistry, ListKeys, Examine,
             WritePlan, ResumeAttempted, Reuse, RecordAttempt, SendCreate, Acknowledge,
             CreateRaises, RecoverCreated, ConfirmKey, Verify, OpenPending, Raise
        <5> QED
          BY <2>1, <3>1, <5>1 DEF Written
      <4> QED
        BY <4>1, <4>2, <4>3, <4>4
    <3> QED
      BY <3>1 DEF Verified, fresh_journal, Written
  <2>2. CASE Written(j)
    <3>1. CASE disk'[j] = disk[j] /\ plan'[j] = plan[j]
      BY <1>2, <3>1 DEF Verified, Written, VerifiedInv
    <3>2. CASE Replace(j) /\ disk'[j] = doc[j] /\ Applying(j) /\ plan'[j] = plan[j]
      <4>1. pc[j] = "replace" /\ period[j] = plan[j].period
        BY <1>0, <3>2 DEF Replace, JournalInv, MemoryInv
      <4> QED
        BY <1>2, <3>2, <4>1 DEF Verified, VerifiedInv
    <3> QED
      BY <1>0, <2>2, <3>1, <3>2, DiskChange
  <2> QED
    BY <2>1, <2>2
<1>4. /\ Applying(j)' /\ pc'[j] = "final" => FirstTagged(doc[j].keyArn, period[j])'
      /\ Applying(j)' /\ pc'[j] \in {"save", "replace"} /\ doc'[j].status = "verified"
           => FirstTagged(doc[j].keyArn, period[j])'
  <2> USE DEF TypeOK, Goto
  <2>1. CASE ConfirmKey(j)
    <3>1. FirstTagged(doc[j].keyArn, period[j]) /\ UNCHANGED <<doc, period>> /\ pc'[j] = "final"
      BY <1>0, <2>1, ConfirmedIsFirst DEF ConfirmKey
    <3> QED
      BY <1>2, <3>1
  <2>2. CASE Verify(j)
    <3>1. pc[j] = "final" /\ Applying(j) /\ UNCHANGED period /\ pc'[j] = "save"
      BY <1>0, <2>2 DEF Verify, Applying, JournalInv, DiskInv, Save
    <3>2. FirstTagged(doc[j].keyArn, period[j])
      BY <3>1 DEF VerifiedInv
    <3>3. doc'[j] = WithStatus(doc[j], "verified") /\ doc[j] \in Doc /\ "verified" \in Statuses
      BY <2>2 DEF Verify, Save, Statuses
    <3>4. doc'[j].keyArn = doc[j].keyArn
      BY <3>3, WithStatusDoc
    <3> QED
      BY <1>2, <3>1, <3>2, <3>4
  <2>3. CASE OpenPending(j)
    BY <1>2, <2>3 DEF OpenPending, VerifiedInv, Applying
  <2>4. CASE ResumeAttempted(j) \/ RecoverCreated(j) \/ Acknowledge(j) \/ Reuse(j)
    <3>1. PICK k : Save(j, Identified(doc[j], k), "confirm") \/ Save(j, Identified(doc[j], k), "created")
      BY <2>4 DEF ResumeAttempted, RecoverCreated, Acknowledge, Reuse
    <3>2. doc'[j] = Identified(doc[j], k) /\ doc[j] \in Doc /\ pc'[j] = "save"
      BY <3>1 DEF Save
    <3> QED
      BY <3>2 DEF Identified, Doc
  <2>5. CASE RecordAttempt(j)
    <3>1. doc'[j] = Attempted(doc[j], now) /\ doc[j] \in Doc /\ pc'[j] = "save"
      BY <2>5 DEF RecordAttempt, Save
    <3> QED
      BY <3>1 DEF Attempted, Doc
  <2>6. CASE CreateRaises(j)
    <3>1. PICK s \in {"key_identified", "ambiguous"} : Save(j, WithStatus(doc[j], s), "list")
      BY <2>6 DEF CreateRaises
    <3>2. doc'[j] = WithStatus(doc[j], s) /\ doc[j] \in Doc /\ pc'[j] = "save"
      BY <3>1 DEF Save
    <3> QED
      BY <3>2 DEF WithStatus, Doc
  <2>7. CASE StartPlan(j) \/ StartApply(j) \/ Crash(j) \/ Raise(j) \/ WriteFresh(j) \/ CheckRegistry(j)
             \/ ListKeys(j) \/ WritePlan(j) \/ SendCreate(j)
    <3>1. pc'[j] \notin {"final", "save", "replace"}
      BY <2>7 DEF StartPlan, StartApply, Crash, Raise, WriteFresh, CheckRegistry, ListKeys, WritePlan, SendCreate
    <3> QED
      BY <3>1
  <2>8. ASSUME NEW k \in 1 .. horizon[j], Examine(j, k) PROVE pc'[j] \notin {"final", "save", "replace"}
    BY <2>8 DEF Examine
  <2>9. CASE Replace(j)
    <3>1. after[j] \in {"idle", "create", "created", "confirm", "list"}
      BY DEF Returns
    <3>2. pc'[j] \notin {"final", "save", "replace"}
      BY <2>9, <3>1 DEF Replace
    <3> QED
      BY <3>2
  <2> QED
    BY <2>1, <2>2, <2>3, <2>4, <2>5, <2>6, <2>7, <2>8, <2>9 DEF LocalStep, Step
<1> QED
  BY <1>3, <1>4 DEF VerifiedInv

VerifiedJournalsInv == \A j \in Journals : VerifiedInv(j)

LEMMA VerifiedInit == Init => VerifiedJournalsInv
BY DEF Init, VerifiedJournalsInv, VerifiedInv, Verified, Applying, Missing, fresh_journal, Written

LEMMA VerifiedFrame ==
  ASSUME TypeOK, NEW i \in Journals, VerifiedInv(i), Untouched(i), KeysGrow
  PROVE  VerifiedInv(i)'
<1>1. \A k, p : FirstTagged(k, p) => FirstTagged(k, p)'
  BY FirstTaggedStable
<1> QED
  BY <1>1 DEF Untouched, VerifiedInv, Verified, Written, Applying

LEMMA VerifiedNext ==
  TypeOK /\ TypeOK' /\ JournalsInv /\ VerifiedJournalsInv /\ [Next]_vars => VerifiedJournalsInv'
<1> SUFFICES ASSUME TypeOK, TypeOK', JournalsInv, VerifiedJournalsInv, [Next]_vars, NEW i \in Journals
             PROVE  VerifiedInv(i)'
  BY DEF VerifiedJournalsInv
<1>0. VerifiedInv(i)
  BY DEF VerifiedJournalsInv
<1>1. ASSUME NEW j \in Journals, LocalStep(j) PROVE VerifiedInv(i)'
  <2>1. CASE i = j
    BY <1>0, <1>1, <2>1, VerifiedStep
  <2>2. CASE i # j
    <3>1. Untouched(i) /\ UNCHANGED <<now, keys>>
      BY <1>1, <2>2, LocalFrame
    <3>2. KeysGrow
      BY <3>1 DEF KeysGrow, TypeOK
    <3> QED
      BY <1>0, <3>1, <3>2, VerifiedFrame
  <2> QED
    BY <2>1, <2>2
<1>2. CASE Environment
  BY <1>0, <1>2, EnvironmentFrame, VerifiedFrame
<1>3. CASE UNCHANGED vars
  <2>1. Untouched(i) /\ KeysGrow
    BY <1>3 DEF vars, faults, Untouched, KeysGrow, TypeOK
  <2> QED
    BY <1>0, <2>1, VerifiedFrame
<1> QED
  BY <1>1, <1>2, <1>3, StepKinds

\* No two journals of one period are verified with different keys, however many
\* operators run at once and whatever keys others create, as long as nobody
\* takes the tags off a key: each of the two keys would be the first.
THEOREM NoTwoVerifiedKeys == Spec => []VerifiedAgree
<1>1. TypeOK /\ VerifiedJournalsInv => VerifiedAgree
  <2> SUFFICES ASSUME TypeOK, VerifiedJournalsInv, "other" \notin Spoils,
                      NEW i \in Journals, NEW j \in Journals,
                      Verified(i), Verified(j), plan[i].period = plan[j].period
               PROVE  disk[i].keyArn = disk[j].keyArn
    BY DEF VerifiedAgree
  <2> DEFINE p == plan[i].period
  <2>1. FirstTagged(disk[i].keyArn, p) /\ FirstTagged(disk[j].keyArn, p)
    BY DEF VerifiedJournalsInv, VerifiedInv
  <2>2. Len(keys) \in Nat
    BY DEF TypeOK
  <2> HIDE DEF p
  <2> QED
    BY <2>1, <2>2 DEF FirstTagged
<1>2. Init => VerifiedJournalsInv
  BY VerifiedInit
<1> QED
  BY <1>1, <1>2, VerifiedNext, JournalsInvariant, PTL DEF Spec

-----------------------------------------------------------------------------
(* The journal implements the write-ahead promise *)

LEMMA FileAttempted == \A f \in File : f.createAttempted \in BOOLEAN
BY DEF File, Doc, Missing, Torn, fresh_journal

LEMMA PromiseInit == Init => Promise!Init
BY DEF Init, Promise!Init, Missing, fresh_journal, NoKey

\* The journals of one process step map to one step of the promise or none.
LEMMA PromiseStep ==
  TypeOK /\ JournalsInv /\ [Next]_vars => [Promise!Next]_(Promise!vars)
<1> SUFFICES ASSUME TypeOK, JournalsInv, [Next]_vars
             PROVE  [Promise!Next]_(Promise!vars)
  OBVIOUS
<1> DEFINE att(j) == disk[j].createAttempted
           out(j) == IF att(j) THEN disk[j].keyArn ELSE NoKey
<1>0. \A j \in Journals : att(j) \in BOOLEAN /\ att(j)' \in BOOLEAN
  BY FileAttempted, TypeNext DEF TypeOK
<1>1. CASE requests' = requests /\ \A j \in Journals : att(j)' = att(j) /\ out(j)' = out(j)
  <2>1. {j \in Journals : att(j)'} = {j \in Journals : att(j)}
    BY <1>1
  <2>2. [j \in Journals |-> out(j)'] = [j \in Journals |-> out(j)]
    BY <1>1
  <2> QED
    BY <1>1, <2>1, <2>2 DEF Promise!vars
<1>2. CASE disk' = disk /\ requests' = requests
  BY <1>1, <1>2
<1>3. ASSUME NEW j \in Journals, SendCreate(j) PROVE Promise!Next
  <2>1. /\ pc[j] = "create" /\ requests' = [requests EXCEPT ![j] = @ + 1] /\ UNCHANGED disk
    BY <1>3 DEF SendCreate
  <2>2. requests[j] = 0 /\ att(j)
    BY <2>1 DEF JournalsInv, JournalInv, DiskInv, MemoryInv, Applying, Saving
  <2>3. requests' = [requests EXCEPT ![j] = 1]
    BY <2>1, <2>2
  <2> QED
    BY <2>1, <2>2, <2>3 DEF Promise!Next, Promise!Call
<1>4. ASSUME NEW j \in Journals, Replace(j) PROVE [Promise!Next]_(Promise!vars)
  <2>a. /\ pc[j] = "replace" /\ disk' = [disk EXCEPT ![j] = doc[j]] /\ UNCHANGED requests
    BY <1>4 DEF Replace, world
  <2>b. JournalInv(j) /\ Applying(j)
    BY <2>a DEF JournalsInv, JournalInv, DiskInv, Applying
  <2>1. /\ JournalInv(j) /\ Applying(j) /\ pc[j] = "replace" /\ disk' = [disk EXCEPT ![j] = doc[j]]
        /\ UNCHANGED requests /\ disk'[j] = doc[j]
    BY <2>a, <2>b DEF TypeOK
  <2>2. \A i \in Journals \ {j} : att(i)' = att(i) /\ out(i)' = out(i)
    BY <2>1 DEF TypeOK
  <2>3. /\ att(j) => doc[j].createAttempted
        /\ disk[j].keyArn # NoKey => doc[j].keyArn = disk[j].keyArn
        /\ doc[j].createAttempted /\ ~att(j) => doc[j].keyArn = NoKey
    BY <2>1 DEF JournalInv, MemoryInv
  <2>4. CASE ~att(j) /\ doc[j].createAttempted
    <3>1. att(j)' /\ out(j)' = out(j)
      BY <2>1, <2>3, <2>4
    <3>2. {i \in Journals : att(i)'} = {i \in Journals : att(i)} \union {j}
      BY <2>2, <3>1
    <3>3. [i \in Journals |-> out(i)'] = [i \in Journals |-> out(i)]
      BY <2>2, <3>1
    <3>4. Promise!Intend(j)
      BY <2>1, <2>4, <3>2, <3>3 DEF Promise!Intend
    <3> QED
      BY <3>4 DEF Promise!Next
  <2>5. CASE att(j) /\ disk[j].keyArn = NoKey /\ doc[j].keyArn # NoKey
    <3>1. att(j)' /\ out(j) = NoKey /\ out(j)' = doc[j].keyArn
      BY <2>1, <2>3, <2>5
    <3>2. {i \in Journals : att(i)'} = {i \in Journals : att(i)}
      BY <2>2, <2>5, <3>1
    <3>3. [i \in Journals |-> out(i)'] = [[i \in Journals |-> out(i)] EXCEPT ![j] = doc[j].keyArn]
      BY <2>2, <3>1
    <3>4. Promise!Settle(j)
      BY <2>1, <2>5, <3>1, <3>2, <3>3 DEF Promise!Settle
    <3> QED
      BY <3>4 DEF Promise!Next
  <2>6. CASE att(j) /\ doc[j].keyArn = disk[j].keyArn
    <3>1. att(j)' = att(j) /\ out(j)' = out(j)
      BY <1>0, <2>1, <2>3, <2>6
    <3>2. \A i \in Journals : att(i)' = att(i) /\ out(i)' = out(i)
      BY <2>2, <3>1
    <3> QED
      BY <1>1, <2>1, <3>2
  <2>7. CASE ~att(j) /\ ~doc[j].createAttempted
    <3>1. att(j)' = att(j) /\ out(j)' = out(j)
      BY <1>0, <2>1, <2>7
    <3>2. \A i \in Journals : att(i)' = att(i) /\ out(i)' = out(i)
      BY <2>2, <3>1
    <3> QED
      BY <1>1, <2>1, <3>2
  <2> QED
    BY <2>3, <2>4, <2>5, <2>6, <2>7
<1>5. ASSUME NEW j \in Journals, WriteFresh(j) \/ StartApply(j) PROVE [Promise!Next]_(Promise!vars)
  <2>1. CASE disk' # disk
    <3>1. /\ disk[j] \in {Missing, Torn} /\ disk'[j] \in {Torn, fresh_journal} /\ UNCHANGED requests
          /\ \A i \in Journals \ {j} : disk'[i] = disk[i]
      BY <1>5, <2>1 DEF WriteFresh, StartApply, JournalsInv, JournalInv, DiskInv, TypeOK, world
    <3>2. ~att(j) /\ ~att(j)'
      BY <3>1 DEF Missing, Torn, fresh_journal
    <3>3. att(j)' = att(j) /\ out(j)' = out(j)
      BY <1>0, <3>2
    <3>4. \A i \in Journals : att(i)' = att(i) /\ out(i)' = out(i)
      BY <3>1, <3>3
    <3> QED
      BY <1>1, <3>1, <3>4
  <2>2. CASE disk' = disk
    BY <1>2, <1>5, <2>2 DEF WriteFresh, StartApply, world
  <2> QED
    BY <2>1, <2>2
<1>6. ASSUME NEW j \in Journals, LocalStep(j), ~SendCreate(j), ~Replace(j), ~WriteFresh(j), ~StartApply(j)
      PROVE  disk' = disk /\ requests' = requests
  <2>1. CASE StartPlan(j) \/ Crash(j) \/ Raise(j) \/ CheckRegistry(j) \/ ListKeys(j) \/ WritePlan(j)
             \/ ConfirmKey(j) \/ OpenPending(j)
    BY <2>1 DEF StartPlan, Crash, Raise, CheckRegistry, ListKeys, WritePlan, ConfirmKey, OpenPending, world
  <2>2. CASE ResumeAttempted(j) \/ RecoverCreated(j) \/ Acknowledge(j) \/ Reuse(j) \/ RecordAttempt(j)
             \/ CreateRaises(j) \/ Verify(j)
    BY <2>2 DEF ResumeAttempted, RecoverCreated, Acknowledge, Reuse, RecordAttempt, CreateRaises, Verify, world
  <2>3. ASSUME NEW k \in 1 .. horizon[j], Examine(j, k) PROVE disk' = disk /\ requests' = requests
    BY <2>3 DEF Examine, world
  <2> QED
    BY <1>6, <2>1, <2>2, <2>3 DEF LocalStep, Step
<1>7. CASE Environment
  BY <1>2, <1>7 DEF Environment, Tick, CreateOutside, Register, SpoilKey, ExecuteCreate, LoseCreate
<1>8. CASE UNCHANGED vars
  BY <1>2, <1>8 DEF vars, faults
<1> QED
  BY <1>2, <1>3, <1>4, <1>5, <1>6, <1>7, <1>8, StepKinds

\* A journal records its CreateKey ahead of the request, makes the request at
\* most once, and never alters the key it recorded: it implements WriteAhead.
THEOREM JournalIsWriteAhead == Spec => ImplementsWriteAhead
<1>1. Spec => Promise!Init /\ [][Promise!Next]_(Promise!vars)
  BY PromiseInit, PromiseStep, JournalsInvariant, PTL DEF Spec
<1> QED
  BY <1>1 DEF ImplementsWriteAhead, Promise!Spec

-----------------------------------------------------------------------------
(* The keys of a journal: one request makes one key at most *)

RequestInv(j) ==
  /\ j \in inflight => requests[j] > 0 /\ ~MadeKey(j)
  /\ MadeKey(j) => requests[j] > 0
  /\ \A k, l \in 1 .. Len(keys) : keys[k].by = j /\ keys[l].by = j => k = l
  /\ j \in acked => MadeKey(j)

RequestsInv == \A j \in Journals : RequestInv(j)

\* The key was tagged for the planned period, and no earlier than the clocks allow.
Claim(j, d) ==
  d.createAttempted /\ d.keyArn # NoKey =>
    /\ d.keyArn \in 1 .. Len(keys)
    /\ keys[d.keyArn].period = plan[j].period
    /\ keys[d.keyArn].created >= d.attemptedAt - GRACE

ClaimInv(j) ==
  /\ disk[j].createAttempted => disk[j].attemptedAt <= now
  /\ Applying(j) /\ doc[j].createAttempted => doc[j].attemptedAt <= now
  /\ \A k \in 1 .. Len(keys) : keys[k].by = j =>
       keys[k].period = plan[j].period /\ keys[k].created >= disk[j].attemptedAt - GRACE
  /\ Claim(j, disk[j])
  /\ Applying(j) => Claim(j, doc[j])

ClaimsInv == \A j \in Journals : ClaimInv(j)

\* Operators that never ran side by side: one at most is running.  What it lists
\* holds every acknowledged key, and if it decided to create, then no acknowledged
\* key has the period of its plan.
Alone == \A i, j \in Journals : pc[i] # "idle" /\ pc[j] # "idle" => i = j
Committed(j) == Applying(j) /\ (Saving(j, {"create"}) \/ pc[j] \in {"create", "await"})
SerialInv == ~overlapped /\ "other" \notin Spoils =>
  /\ Alone
  /\ \A k \in 1 .. Len(keys) : keys[k].by \in Journals => keys[k].kind # "other"
  /\ \A j \in Journals, k \in 1 .. Len(keys) : keys[k].by \in acked =>
       /\ pc[j] = "examine" => k <= horizon[j]
       /\ Committed(j) => keys[k].period # plan[j].period
  /\ \A k, l \in 1 .. Len(keys) :
       {keys[k].by, keys[l].by} \subseteq acked /\ keys[k].period = keys[l].period => k = l

\* What one process does to the requests and the keys.
LEMMA LocalWorld ==
  ASSUME TypeOK, NEW j \in Journals, LocalStep(j)
  PROVE  /\ UNCHANGED keys
         /\ \/ UNCHANGED <<inflight, requests, acked>>
            \/ SendCreate(j)
            \/ Acknowledge(j)
         /\ \/ pc[j] # "idle" /\ UNCHANGED overlapped
            \/ StartPlan(j) \/ StartApply(j)
<1> USE DEF world, faults
<1>1. CASE StartPlan(j) \/ StartApply(j)
  BY <1>1 DEF StartPlan, StartApply
<1>2. CASE Crash(j)
  BY <1>2 DEF Crash
<1>3. CASE WriteFresh(j) \/ CheckRegistry(j) \/ ListKeys(j)
  BY <1>3 DEF WriteFresh, CheckRegistry, ListKeys
<1>4. ASSUME NEW k \in 1 .. horizon[j], Examine(j, k)
      PROVE  pc[j] # "idle" /\ UNCHANGED <<keys, inflight, requests, acked, overlapped>>
  BY <1>4 DEF Examine
<1>5. CASE WritePlan(j) \/ ConfirmKey(j) \/ OpenPending(j) \/ Replace(j)
  BY <1>5 DEF WritePlan, ConfirmKey, OpenPending, Replace, Discovered
<1>6. CASE ResumeAttempted(j) \/ Reuse(j) \/ RecordAttempt(j) \/ RecoverCreated(j)
  BY <1>6 DEF ResumeAttempted, Reuse, RecordAttempt, RecoverCreated, Discovered
<1>7. CASE CreateRaises(j) \/ Verify(j)
  BY <1>7 DEF CreateRaises, Verify
<1>8. CASE SendCreate(j) \/ Acknowledge(j)
  BY <1>8 DEF SendCreate, Acknowledge
<1>9. CASE Raise(j)
  BY <1>9 DEF Raise, Refused, Discovered
<1> QED
  BY <1>1, <1>2, <1>3, <1>4, <1>5, <1>6, <1>7, <1>8, <1>9 DEF LocalStep, Step

\* A key that comes to exist is an outsider's, or the one asked for by a request.
NewKey(by) == Len(keys') = Len(keys) + 1 /\ keys'[Len(keys) + 1].by = by
Executed(j) ==
  /\ j \in inflight /\ inflight' = inflight \ {j} /\ NewKey(j)
  /\ keys'[Len(keys) + 1].period = plan[j].period
  /\ keys'[Len(keys) + 1].created >= now - GRACE /\ keys'[Len(keys) + 1].kind = "eligible"

LEMMA EnvironmentWorld ==
  ASSUME TypeOK, Environment
  PROVE  /\ UNCHANGED <<requests, acked, overlapped, plan, disk, pc, after, doc, stage, horizon>>
         /\ inflight' \subseteq inflight
         /\ \/ Len(keys') = Len(keys)
            \/ NewKey(Outsider)
            \/ \E j \in Journals : Executed(j)
<1> USE DEF TypeOK, memory, faults
<1>1. CASE Tick \/ Register
  BY <1>1 DEF Tick, Register
<1>2. CASE CreateOutside
  <2>1. PICK kind \in Kinds : CreateKey(kind, PeriodOf(now), now, Outsider)
    BY <1>2 DEF CreateOutside
  <2>2. NewKey(Outsider)
    BY <2>1 DEF CreateKey, NewKey
  <2> QED
    BY <1>2, <2>2 DEF CreateOutside
<1>3. ASSUME NEW k \in 1 .. Len(keys), SpoilKey(k)
      PROVE  /\ UNCHANGED <<requests, acked, overlapped, plan, disk, pc, after, doc, stage, horizon>>
             /\ inflight' = inflight /\ Len(keys') = Len(keys)
  BY <1>3 DEF SpoilKey
<1>4. ASSUME NEW j \in Journals, ExecuteCreate(j)
      PROVE  /\ UNCHANGED <<requests, acked, overlapped, plan, disk, pc, after, doc, stage, horizon>>
             /\ Executed(j)
  <2>1. PICK created \in {t \in 0 .. now : now - GRACE <= t} :
          CreateKey("eligible", plan[j].period, created, j)
    BY <1>4 DEF ExecuteCreate
  <2>2. created >= now - GRACE
    BY GraceAssumption
  <2>3. /\ NewKey(j) /\ keys'[Len(keys) + 1].period = plan[j].period
        /\ keys'[Len(keys) + 1].created >= now - GRACE /\ keys'[Len(keys) + 1].kind = "eligible"
    BY <2>1, <2>2 DEF CreateKey, NewKey
  <2> QED
    BY <1>4, <2>3 DEF ExecuteCreate, Executed
<1>5. ASSUME NEW j \in Journals, LoseCreate(j)
      PROVE  /\ UNCHANGED <<requests, acked, overlapped, plan, disk, pc, after, doc, stage, horizon>>
             /\ inflight' \subseteq inflight /\ Len(keys') = Len(keys)
  BY <1>5 DEF LoseCreate
<1>6. \A j \in Journals : Executed(j) => inflight' \subseteq inflight
  BY DEF Executed
<1> QED
  BY <1>1, <1>2, <1>3, <1>4, <1>5, <1>6 DEF Environment

LEMMA RequestsNext ==
  TypeOK /\ JournalsInv /\ RequestsInv /\ [Next]_vars => RequestsInv'
<1> SUFFICES ASSUME TypeOK, JournalsInv, RequestsInv, [Next]_vars, NEW i \in Journals
             PROVE  RequestInv(i)'
  BY DEF RequestsInv
<1>0. RequestInv(i) /\ requests[i] \in Nat
  BY DEF RequestsInv, TypeOK
<1>1. ASSUME NEW j \in Journals, LocalStep(j) PROVE RequestInv(i)'
  <2>1. UNCHANGED keys /\ MadeKey(i)' = MadeKey(i)
    BY <1>1, LocalWorld DEF MadeKey
  <2>2. CASE UNCHANGED <<inflight, requests, acked>>
    BY <1>0, <2>1, <2>2 DEF RequestInv
  <2>3. CASE SendCreate(j)
    <3>1. /\ inflight' = inflight \union {j} /\ acked' = acked /\ pc[j] = "create"
          /\ requests' = [requests EXCEPT ![j] = @ + 1]
      BY <2>3 DEF SendCreate
    <3>2. requests[j] = 0
      BY <3>1 DEF JournalsInv, JournalInv, DiskInv, MemoryInv, Applying
    <3>3. i = j => ~MadeKey(i) /\ requests'[i] = 1
      BY <1>0, <3>1, <3>2 DEF RequestInv, TypeOK
    <3>4. i # j => requests'[i] = requests[i]
      BY <3>1 DEF TypeOK
    <3> QED
      BY <1>0, <2>1, <3>1, <3>3, <3>4 DEF RequestInv
  <2>4. CASE Acknowledge(j)
    <3>1. acked' = acked \union {j} /\ UNCHANGED <<inflight, requests>> /\ MadeKey(j)
      BY <2>4 DEF Acknowledge, MadeKey
    <3> QED
      BY <1>0, <2>1, <3>1 DEF RequestInv
  <2> QED
    BY <1>1, <2>2, <2>3, <2>4, LocalWorld
<1>2. CASE Environment
  <2>1. UNCHANGED <<requests, acked>> /\ inflight' \subseteq inflight /\ KeysGrow /\ Len(keys) \in Nat
    BY <1>2, EnvironmentWorld, EnvironmentFrame DEF TypeOK
  <2>2. \A k \in 1 .. Len(keys) : k \in 1 .. Len(keys') /\ keys'[k].by = keys[k].by
    BY <2>1 DEF KeysGrow
  <2>3. CASE Len(keys') = Len(keys) \/ (NewKey(Outsider) \/ \E j \in Journals \ {i} : Executed(j))
    <3>1. \A k \in 1 .. Len(keys') : keys'[k].by = i => k \in 1 .. Len(keys) /\ keys[k].by = i
      BY <2>1, <2>2, <2>3, JournalsAssumption DEF NewKey, Executed, Outsider
    <3>2. MadeKey(i)' <=> MadeKey(i)
      BY <2>2, <3>1 DEF MadeKey
    <3> QED
      BY <1>0, <2>1, <3>1, <3>2 DEF RequestInv
  <2>4. CASE Executed(i)
    <3>1. requests[i] > 0 /\ ~MadeKey(i) /\ i \notin inflight'
      BY <1>0, <2>4 DEF RequestInv, Executed
    <3>2. /\ Len(keys') = Len(keys) + 1 /\ keys'[Len(keys')].by = i
          /\ \A k \in 1 .. Len(keys') : keys'[k].by = i => k = Len(keys')
      BY <2>1, <2>2, <2>4, <3>1 DEF Executed, NewKey, MadeKey
    <3>3. MadeKey(i)'
      BY <2>1, <3>2 DEF MadeKey
    <3> QED
      BY <2>1, <3>1, <3>2, <3>3 DEF RequestInv
  <2> QED
    BY <1>2, <2>3, <2>4, EnvironmentWorld
<1>3. CASE UNCHANGED vars
  BY <1>0, <1>3 DEF vars, faults, RequestInv, MadeKey
<1> QED
  BY <1>1, <1>2, <1>3, StepKinds

LEMMA RequestsInvariant == Spec => [](TypeOK /\ JournalsInv /\ RequestsInv)
<1>1. Init => RequestsInv
  BY DEF Init, RequestsInv, RequestInv, MadeKey
<1> QED
  BY <1>1, RequestsNext, JournalsInvariant, PTL DEF Spec

\* A request that is under way, or a key that it made, has its attempt on record.
THEOREM AttemptsAreDurable == Spec => []AttemptIsDurable
<1>1. JournalsInv /\ RequestsInv => AttemptIsDurable
  BY DEF JournalsInv, JournalInv, DiskInv, RequestsInv, RequestInv, MadeKey, AttemptIsDurable
<1> QED
  BY <1>1, RequestsInvariant, PTL

-----------------------------------------------------------------------------
(* What a journal claims *)

\* A claim survives as long as the plan and the keys behind it do.
LEMMA ClaimStable ==
  ASSUME TypeOK, KeysGrow, NEW j \in Journals, NEW d, plan'[j] = plan[j], Claim(j, d)
  PROVE  d.createAttempted /\ d.keyArn # NoKey =>
           /\ d.keyArn \in 1 .. Len(keys') /\ keys'[d.keyArn].period = plan'[j].period
           /\ keys'[d.keyArn].created >= d.attemptedAt - GRACE
BY DEF TypeOK, KeysGrow, Claim

\* What may become of the journal in memory: it is kept, loaded, or updated with a
\* key or an attempt for which there is reason.
Updated(j) ==
  \/ doc'[j] = doc[j] /\ Applying(j)
  \/ doc'[j] = disk[j] /\ Written(j)
  \/ doc'[j] = fresh_journal
  \/ \E k \in match[j] : /\ doc'[j] = Identified(doc[j], k) /\ Applying(j)
                         /\ Recovered(j, k) /\ pc[j] = "examine"
  \/ \E k \in Nat : doc'[j] = Identified(doc[j], k) /\ ~doc[j].createAttempted
  \/ doc'[j] = Attempted(doc[j], now) /\ doc[j].keyArn = NoKey
  \/ \E k \in 1 .. Len(keys) : /\ doc'[j] = Identified(doc[j], k) /\ Applying(j)
                               /\ keys[k].by = j /\ pc[j] = "await"
  \/ \E s \in Statuses : doc'[j] = WithStatus(doc[j], s) /\ Applying(j)

LEMMA LocalUpdate ==
  ASSUME TypeOK, NEW j \in Journals, JournalInv(j), LocalStep(j), Applying(j)'
  PROVE  Updated(j)
<1> USE DEF TypeOK, Goto
<1>0. /\ pc[j] # "idle" /\ stage[j] = "plan" => plan[j] = NoPlan
      /\ stage[j] = "plan" => pc[j] \in {"idle", "check", "list", "examine"}
      /\ pc'[j] \notin {"idle", "fresh"} /\ stage'[j] # "plan"
  BY DEF JournalInv, DiskInv, Applying
<1>1. CASE StartPlan(j) \/ Crash(j) \/ Raise(j) \/ WritePlan(j)
  BY <1>0, <1>1 DEF StartPlan, Crash, Raise, WritePlan
<1>2. CASE StartApply(j)
  BY <1>0, <1>2 DEF StartApply, Updated
<1>3. CASE WriteFresh(j)
  BY <1>3 DEF WriteFresh, Updated
<1>4. CASE CheckRegistry(j) \/ ListKeys(j) \/ ConfirmKey(j) \/ SendCreate(j) \/ OpenPending(j)
           \/ \E k \in 1 .. horizon[j] : Examine(j, k)
  <2>1. pc[j] \notin {"idle", "fresh"} /\ UNCHANGED <<doc, stage>>
    BY <1>4 DEF CheckRegistry, ListKeys, ConfirmKey, SendCreate, OpenPending, Examine, Discovered
  <2> QED
    BY <1>0, <2>1 DEF Updated, Applying
<1>5. CASE Replace(j)
  <2>1. pc[j] = "replace" /\ UNCHANGED doc
    BY <1>5 DEF Replace
  <2> QED
    BY <1>0, <2>1 DEF Updated, Applying
<1>6. CASE ResumeAttempted(j) \/ RecoverCreated(j)
  <2>1. PICK k \in match[j] : Recovered(j, k) /\ Save(j, Identified(doc[j], k), "confirm")
    BY <1>6 DEF ResumeAttempted, RecoverCreated
  <2>2. pc[j] = "examine" /\ stage[j] # "plan"
    BY <1>6 DEF ResumeAttempted, RecoverCreated, Discovered
  <2> QED
    BY <2>1, <2>2 DEF Updated, Applying, Save
<1>7. CASE Reuse(j)
  BY <1>7 DEF Reuse, Updated, Save, Plan
<1>8. CASE RecordAttempt(j)
  BY <1>8 DEF RecordAttempt, Updated, Save
<1>9. CASE Acknowledge(j)
  <2>1. PICK k \in 1 .. Len(keys) : keys[k].by = j /\ Save(j, Identified(doc[j], k), "created")
    BY <1>9 DEF Acknowledge
  <2>2. pc[j] = "await"
    BY <1>9 DEF Acknowledge
  <2> QED
    BY <1>0, <2>1, <2>2 DEF Updated, Applying, Save
<1>10. CASE CreateRaises(j)
  <2>1. PICK s \in {"key_identified", "ambiguous"} : Save(j, WithStatus(doc[j], s), "list")
    BY <1>10 DEF CreateRaises
  <2>2. pc[j] \in {"await", "save", "replace"} /\ s \in Statuses
    BY <1>10 DEF CreateRaises, Statuses
  <2> QED
    BY <1>0, <2>1, <2>2 DEF Updated, Applying, Save
<1>11. CASE Verify(j)
  <2>1. pc[j] = "final" /\ Save(j, WithStatus(doc[j], "verified"), "idle") /\ "verified" \in Statuses
    BY <1>11 DEF Verify, Statuses
  <2> QED
    BY <1>0, <2>1 DEF Updated, Applying, Save
<1> QED
  BY <1>1, <1>2, <1>3, <1>4, <1>5, <1>6, <1>7, <1>8, <1>9, <1>10, <1>11 DEF LocalStep, Step

LEMMA ClaimStep ==
  ASSUME TypeOK, TypeOK', JournalsInv, RequestsInv, ClaimsInv, NEW j \in Journals, LocalStep(j)
  PROVE  ClaimInv(j)'
<1>0. /\ JournalInv(j) /\ RequestInv(j) /\ ClaimInv(j) /\ [Next]_vars
      /\ UNCHANGED <<now, keys>> /\ now \in Nat /\ GRACE \in Nat /\ doc[j] \in Doc /\ disk[j] \in File
  BY LocalFrame, GraceAssumption DEF JournalsInv, RequestsInv, ClaimsInv, Next, LocalStep, TypeOK
<1>a. doc[j] \in Doc /\ now \in Nat
  BY <1>0
\* The file becomes the journal in memory, or stays as it is, or says nothing.
<1>1. \/ disk'[j] = disk[j]
      \/ ~disk'[j].createAttempted /\ ~Written(j)
      \/ disk'[j] = doc[j] /\ Applying(j) /\ Written(j)
  <2>1. CASE Written(j)
    BY <1>0, <2>1, DiskChange
  <2>2. CASE ~Written(j) /\ (WriteFresh(j) \/ StartApply(j))
    <3>1. ~fresh_journal.createAttempted /\ ~Torn.createAttempted
      BY DEF fresh_journal, Torn
    <3>2. disk'[j] \in {fresh_journal, Torn}
      BY <2>2 DEF WriteFresh, StartApply, TypeOK
    <3> QED
      BY <2>2, <3>1, <3>2
  <2>3. CASE ~Written(j) /\ ~WriteFresh(j) /\ ~StartApply(j)
    <3>1. ~Replace(j)
      BY <1>0, <2>3 DEF Replace, JournalInv, MemoryInv, DiskInv, Applying
    <3>2. disk' = disk
      BY <2>3, <3>1 DEF LocalStep, Step, StartPlan, Crash, CheckRegistry, ListKeys, Examine,
         WritePlan, ResumeAttempted, Reuse, RecordAttempt, SendCreate, Acknowledge,
         CreateRaises, RecoverCreated, ConfirmKey, Verify, OpenPending, Raise
    <3> QED
      BY <3>2
  <2> QED
    BY <2>1, <2>2, <2>3
<1>2. Written(j) => plan'[j] = plan[j]
  BY <1>0, DiskChange
\* A plan is written before there is a journal or a request.
<1>3. plan'[j] = plan[j] \/ WritePlan(j)
  BY DEF LocalStep, Step, StartPlan, StartApply, WriteFresh, Replace, Crash, CheckRegistry, ListKeys,
     Examine, ResumeAttempted, Reuse, RecordAttempt, SendCreate, Acknowledge,
     CreateRaises, RecoverCreated, ConfirmKey, Verify, OpenPending, Raise
<1>4. WritePlan(j) => disk'[j] = Missing /\ disk[j] = Missing /\ ~Applying(j)'
  <2>1. WritePlan(j) => plan[j] = NoPlan /\ disk' = disk /\ pc'[j] = "idle"
    BY <1>0 DEF WritePlan, Discovered, JournalInv, DiskInv, Goto, TypeOK
  <2> QED
    BY <1>0, <2>1 DEF JournalInv, DiskInv, Planned, NoPlan, Applying
<1>5. Missing.createAttempted = FALSE
  BY DEF Missing, fresh_journal
<1>6. /\ disk'[j].createAttempted => disk'[j].attemptedAt <= now'
      /\ Claim(j, disk[j])'
  <2>1. CASE WritePlan(j)
    BY <1>4, <1>5, <2>1 DEF Claim
  <2>2. CASE plan'[j] = plan[j]
    BY <1>0, <1>1, <2>2 DEF ClaimInv, Claim
  <2> QED
    BY <1>3, <2>1, <2>2
<1>7. \A k \in 1 .. Len(keys') : keys'[k].by = j =>
        keys'[k].period = plan'[j].period /\ keys'[k].created >= disk'[j].attemptedAt - GRACE
  <2> SUFFICES ASSUME NEW k \in 1 .. Len(keys), keys[k].by = j
               PROVE  keys[k].period = plan'[j].period /\ keys[k].created >= disk'[j].attemptedAt - GRACE
    BY <1>0
  <2>1. Written(j) /\ disk[j].createAttempted
    BY <1>0 DEF JournalInv, DiskInv, RequestInv, MadeKey
  <2>2. disk'[j].attemptedAt = disk[j].attemptedAt
    BY <1>0, <1>1, <2>1 DEF JournalInv, MemoryInv
  <2> QED
    BY <1>0, <1>2, <2>1, <2>2 DEF ClaimInv
<1>8. ASSUME Applying(j)'
      PROVE  /\ doc'[j].createAttempted => doc'[j].attemptedAt <= now'
             /\ Claim(j, doc[j])'
  <2>0. Updated(j) /\ plan'[j] = plan[j]
    BY <1>0, <1>3, <1>4, <1>8, LocalUpdate
  <2>1. CASE doc'[j] = doc[j] /\ Applying(j)
    BY <1>0, <2>0, <2>1 DEF ClaimInv, Claim
  <2>2. CASE doc'[j] = disk[j] /\ Written(j)
    BY <1>0, <2>0, <2>2 DEF ClaimInv, Claim
  <2>3. CASE doc'[j] = fresh_journal
    BY <2>3 DEF Claim, fresh_journal
  <2>4. ASSUME NEW k \in match[j], doc'[j] = Identified(doc[j], k), Applying(j),
               Recovered(j, k), pc[j] = "examine"
        PROVE  /\ doc'[j].createAttempted => doc'[j].attemptedAt <= now'
               /\ Claim(j, doc[j])'
    <3>1. k \in 1 .. Len(keys) /\ keys[k].period = plan[j].period /\ k \in Nat
      BY <1>0, <2>4 DEF JournalInv, DiscoveryInv, MemoryInv, TypeOK
    <3>2. keys[k].created >= doc[j].attemptedAt - GRACE
      BY <2>4 DEF Recovered
    <3>3. /\ doc'[j].keyArn = k /\ doc'[j].attemptedAt = doc[j].attemptedAt
          /\ doc'[j].createAttempted = doc[j].createAttempted
      BY <1>0, <2>4, <3>1, IdentifiedDoc
    <3> QED
      BY <1>0, <2>0, <2>4, <3>1, <3>2, <3>3 DEF ClaimInv, Claim
  <2>5. ASSUME NEW k \in Nat, doc'[j] = Identified(doc[j], k), ~doc[j].createAttempted
        PROVE  ~doc'[j].createAttempted
    BY <1>0, <2>5, IdentifiedDoc
  <2>6. CASE doc'[j] = Attempted(doc[j], now) /\ doc[j].keyArn = NoKey
    <3>1. /\ Attempted(doc[j], now).attemptedAt = now
          /\ Attempted(doc[j], now).keyArn = doc[j].keyArn
      BY <1>a, AttemptedDoc
    <3>2. doc'[j].keyArn = NoKey /\ doc'[j].attemptedAt = now
      BY <2>6, <3>1
    <3> QED
      BY <1>0, <3>2 DEF Claim
  <2>7. ASSUME NEW k \in 1 .. Len(keys), doc'[j] = Identified(doc[j], k), Applying(j),
               keys[k].by = j, pc[j] = "await"
        PROVE  /\ doc'[j].createAttempted => doc'[j].attemptedAt <= now'
               /\ Claim(j, doc[j])'
    <3>0. k \in Nat
      BY DEF TypeOK
    <3>a. /\ Identified(doc[j], k).keyArn = k
          /\ Identified(doc[j], k).attemptedAt = doc[j].attemptedAt
          /\ Identified(doc[j], k).createAttempted = doc[j].createAttempted
      BY <1>a, <3>0, IdentifiedDoc
    <3>1. /\ doc'[j].keyArn = k /\ doc'[j].attemptedAt = doc[j].attemptedAt
          /\ doc'[j].createAttempted = doc[j].createAttempted
      BY <2>7, <3>a
    <3>2. Written(j) /\ disk[j].createAttempted
      BY <1>0, <2>7 DEF JournalInv, DiskInv, RequestInv, MadeKey
    <3>3. doc[j].attemptedAt = disk[j].attemptedAt
      BY <1>0, <2>7, <3>2 DEF JournalInv, MemoryInv
    <3> QED
      BY <1>0, <2>0, <2>7, <3>1, <3>3 DEF ClaimInv, Claim
  <2>8. ASSUME NEW s \in Statuses, doc'[j] = WithStatus(doc[j], s), Applying(j)
        PROVE  /\ doc'[j].createAttempted => doc'[j].attemptedAt <= now'
               /\ Claim(j, doc[j])'
    <3>1. /\ doc'[j].keyArn = doc[j].keyArn /\ doc'[j].attemptedAt = doc[j].attemptedAt
          /\ doc'[j].createAttempted = doc[j].createAttempted
      BY <1>0, <2>8, WithStatusDoc
    <3> QED
      BY <1>0, <2>0, <2>8, <3>1 DEF ClaimInv, Claim
  <2> QED
    BY <2>0, <2>1, <2>2, <2>3, <2>4, <2>5, <2>6, <2>7, <2>8 DEF Updated, Claim
<1> QED
  BY <1>6, <1>7, <1>8 DEF ClaimInv

LEMMA CreatedType ==
  ASSUME NEW s \in Seq(Key), NEW k \in 1 .. Len(s) PROVE s[k].created \in Nat
<1>1. s[k] \in Key
  OBVIOUS
<1> QED
  BY <1>1 DEF Key

LEMMA FileTime == \A f \in File : f.attemptedAt \in Int
<1>1. \A f \in Doc : f.attemptedAt \in Int
  BY DEF Doc
<1>2. Missing.attemptedAt = NoTime /\ Torn.attemptedAt = NoTime
  BY DEF Missing, Torn, fresh_journal
<1>3. NoTime \in Int
  BY DEF NoTime
<1> QED
  BY <1>1, <1>2, <1>3 DEF File

\* Other processes leave the claims of a journal alone; what KMS adds is no claim,
\* and the key it makes for a request is made no earlier than the attempt.
LEMMA ClaimFrame ==
  ASSUME TypeOK, NEW i \in Journals, JournalInv(i), RequestInv(i), ClaimInv(i),
         Untouched(i), KeysGrow, now <= now', TypeOK',
         Len(keys') = Len(keys) \/ NewKey(Outsider) \/ \E j \in Journals : Executed(j)
  PROVE  ClaimInv(i)'
<1>t. /\ now \in Nat /\ now' \in Nat /\ keys \in Seq(Key) /\ keys' \in Seq(Key)
      /\ disk[i] \in File /\ doc[i] \in Doc
  BY DEF TypeOK
<1>0. /\ GRACE \in Nat /\ Len(keys) \in Nat /\ disk[i].attemptedAt \in Int
      /\ doc[i].attemptedAt \in Int
  <2>1. GRACE \in Nat
    BY GraceAssumption
  <2>2. disk[i].attemptedAt \in Int
    BY <1>t, FileTime
  <2>3. doc[i].attemptedAt \in Int
    BY <1>t DEF Doc
  <2> QED
    BY <1>t, <2>1, <2>2, <2>3
<1>1. UNCHANGED <<plan[i], disk[i], doc[i]>> /\ (Applying(i)' <=> Applying(i))
  BY DEF Untouched, Applying
<1>2. Claim(i, disk[i])' /\ (Applying(i)' => Claim(i, doc[i])')
  BY <1>1, ClaimStable DEF ClaimInv, Claim
<1>3. /\ disk'[i].createAttempted => disk'[i].attemptedAt <= now'
      /\ Applying(i)' /\ doc'[i].createAttempted => doc'[i].attemptedAt <= now'
  BY <1>t, <1>0, <1>1 DEF ClaimInv
<1>4. ASSUME NEW k \in 1 .. Len(keys'), keys'[k].by = i
      PROVE  keys'[k].period = plan'[i].period /\ keys'[k].created >= disk'[i].attemptedAt - GRACE
  <2>1. CASE k \in 1 .. Len(keys)
    BY <1>1, <1>4, <2>1 DEF KeysGrow, ClaimInv
  <2>2. CASE k \notin 1 .. Len(keys)
    <3>0. Len(keys') = Len(keys) + 1 /\ k = Len(keys) + 1
      <4>1. Len(keys') = Len(keys) \/ Len(keys') = Len(keys) + 1
        BY DEF NewKey, Executed
      <4> QED
        BY <1>0, <1>4, <2>2, <4>1
    <3>1. Executed(i)
      <4>1. NewKey(Outsider) \/ \E j \in Journals : Executed(j)
        BY <1>0, <3>0
      <4>2. keys'[Len(keys) + 1].by = i
        BY <1>4, <3>0
      <4>3. ~ NewKey(Outsider)
        BY <4>2, JournalsAssumption DEF NewKey, Outsider
      <4>4. ASSUME NEW j \in Journals, Executed(j) PROVE j = i
        BY <4>2, <4>4 DEF Executed, NewKey
      <4> QED
        BY <4>1, <4>3, <4>4
    <3>2. keys'[k].period = plan[i].period /\ keys'[k].created >= now - GRACE
      BY <3>0, <3>1 DEF Executed
    <3>3. keys'[k].created \in Nat
      BY <1>t, <1>4, CreatedType
    <3>4. disk[i].attemptedAt <= now
      BY <3>1 DEF Executed, RequestInv, JournalInv, DiskInv, ClaimInv
    <3> QED
      BY <1>t, <1>0, <1>1, <3>2, <3>3, <3>4
  <2> QED
    BY <2>1, <2>2
<1> QED
  BY <1>2, <1>3, <1>4 DEF ClaimInv

LEMMA ClaimsNext ==
  TypeOK /\ TypeOK' /\ JournalsInv /\ RequestsInv /\ ClaimsInv /\ [Next]_vars => ClaimsInv'
<1> SUFFICES ASSUME TypeOK, TypeOK', JournalsInv, RequestsInv, ClaimsInv, [Next]_vars,
                    NEW i \in Journals
             PROVE  ClaimInv(i)'
  BY DEF ClaimsInv
<1>0. JournalInv(i) /\ RequestInv(i) /\ ClaimInv(i) /\ now \in Nat
  BY DEF JournalsInv, RequestsInv, ClaimsInv, TypeOK
<1>1. ASSUME NEW j \in Journals, LocalStep(j) PROVE ClaimInv(i)'
  <2>1. CASE i = j
    BY <1>1, <2>1, ClaimStep
  <2>2. CASE i # j
    <3>1. Untouched(i) /\ UNCHANGED <<now, keys>>
      BY <1>1, <2>2, LocalFrame
    <3>2. KeysGrow
      BY <3>1 DEF KeysGrow, TypeOK
    <3> QED
      BY <1>0, <3>1, <3>2, ClaimFrame
  <2> QED
    BY <2>1, <2>2
<1>2. CASE Environment
  BY <1>0, <1>2, EnvironmentFrame, EnvironmentWorld, ClaimFrame
<1>3. CASE UNCHANGED vars
  <2>1. Untouched(i) /\ KeysGrow /\ UNCHANGED <<now, keys>>
    BY <1>3 DEF vars, faults, Untouched, KeysGrow, TypeOK
  <2> QED
    BY <1>0, <2>1, ClaimFrame
<1> QED
  BY <1>1, <1>2, <1>3, StepKinds

\* Whoever claims a key after an attempt claims one that was made for the planned
\* period and after the attempt, up to the skew allowed between the clocks.
THEOREM ClaimsArePlausible == Spec => []ClaimIsPlausible
<1>1. TypeOK /\ ClaimsInv => ClaimIsPlausible
  <2> SUFFICES ASSUME TypeOK, ClaimsInv, NEW j \in Journals,
                      disk[j].createAttempted, disk[j].keyArn # NoKey
               PROVE  /\ disk[j].keyArn <= Len(keys)
                      /\ keys[disk[j].keyArn].period = plan[j].period
                      /\ keys[disk[j].keyArn].created >= disk[j].attemptedAt - GRACE
    BY DEF ClaimIsPlausible
  <2>1. Claim(j, disk[j])
    BY DEF ClaimsInv, ClaimInv
  <2> QED
    BY <2>1 DEF Claim
<1>2. Init => ClaimsInv
  BY DEF Init, ClaimsInv, ClaimInv, Claim, Applying, Missing, fresh_journal
<1> QED
  BY <1>1, <1>2, ClaimsNext, RequestsInvariant, PTL DEF Spec

-----------------------------------------------------------------------------
(* Operators one after the other *)

Serial == ~overlapped /\ "other" \notin Spoils

\* What the environment makes is not acknowledged yet, and not taken for listed.
LEMMA SerialEnvironment ==
  ASSUME TypeOK, JournalsInv, RequestsInv, SerialInv, Environment
  PROVE  SerialInv'
<1> SUFFICES ASSUME Serial
             PROVE  SerialInv'
  BY EnvironmentWorld DEF SerialInv, Serial
<1>1. /\ UNCHANGED <<acked, plan, pc, after, horizon>> /\ KeysGrow
      /\ Len(keys) \in Nat /\ acked \subseteq Journals
      /\ \A j \in Journals : (Committed(j)' <=> Committed(j))
  <2>1. /\ UNCHANGED <<acked, plan, pc, after, horizon, stage>> /\ KeysGrow
        /\ Len(keys) \in Nat /\ acked \subseteq Journals
    BY EnvironmentWorld, EnvironmentFrame DEF TypeOK
  <2> QED
    BY <2>1 DEF Committed, Applying, Saving
<1>2. ASSUME NEW k \in 1 .. Len(keys'), k \notin 1 .. Len(keys)
      PROVE  /\ keys'[k].by \notin acked
             /\ keys'[k].by \in Journals => keys'[k].kind # "other"
  <2>1. k = Len(keys) + 1 /\ (NewKey(Outsider) \/ \E j \in Journals : Executed(j))
    BY <1>1, <1>2, EnvironmentWorld DEF NewKey, Executed
  <2>2. CASE NewKey(Outsider)
    BY <1>1, <2>1, <2>2, JournalsAssumption DEF NewKey, Outsider
  <2>3. ASSUME NEW j \in Journals, Executed(j)
        PROVE  keys'[k].by \notin acked /\ keys'[k].kind # "other"
    BY <2>1, <2>3 DEF Executed, NewKey, RequestsInv, RequestInv
  <2> QED
    BY <2>1, <2>2, <2>3
<1>3. ASSUME NEW k \in 1 .. Len(keys)
      PROVE  /\ k \in 1 .. Len(keys') /\ keys'[k].by = keys[k].by /\ keys'[k].period = keys[k].period
             /\ keys[k].kind # "other" => keys'[k].kind # "other"
  BY <1>1 DEF KeysGrow, Serial
<1>4. /\ Alone
      /\ \A k \in 1 .. Len(keys) : keys[k].by \in Journals => keys[k].kind # "other"
      /\ \A j \in Journals, k \in 1 .. Len(keys) : keys[k].by \in acked =>
           /\ pc[j] = "examine" => k <= horizon[j]
           /\ Committed(j) => keys[k].period # plan[j].period
      /\ \A k, l \in 1 .. Len(keys) :
           {keys[k].by, keys[l].by} \subseteq acked /\ keys[k].period = keys[l].period => k = l
  BY DEF SerialInv, Serial
<1>5. Alone' /\ \A k \in 1 .. Len(keys') : keys'[k].by \in Journals => keys'[k].kind # "other"
  BY <1>1, <1>2, <1>3, <1>4 DEF Alone
<1>6. \A j \in Journals, k \in 1 .. Len(keys') : keys'[k].by \in acked' =>
        /\ pc'[j] = "examine" => k <= horizon'[j]
        /\ Committed(j)' => keys'[k].period # plan'[j].period
  BY <1>1, <1>2, <1>3, <1>4
<1>7. \A k, l \in 1 .. Len(keys') :
        {keys'[k].by, keys'[l].by} \subseteq acked' /\ keys'[k].period = keys'[l].period => k = l
  BY <1>1, <1>2, <1>3, <1>4
<1> QED
  BY <1>5, <1>6, <1>7 DEF SerialInv

LEMMA SerialLocal ==
  ASSUME TypeOK, TypeOK', JournalsInv, RequestsInv, RequestsInv', ClaimsInv, SerialInv,
         NEW j \in Journals, LocalStep(j)
  PROVE  SerialInv'
<1> SUFFICES ASSUME ~overlapped', "other" \notin Spoils
             PROVE  SerialInv'
  BY DEF SerialInv
<1>0. /\ JournalInv(j) /\ UNCHANGED keys /\ [Next]_vars
      /\ Len(keys) \in Nat /\ acked \subseteq Journals /\ pc \in [Journals -> Labels]
      /\ \A i \in Journals \ {j} :
           /\ pc'[i] = pc[i] /\ after'[i] = after[i] /\ stage'[i] = stage[i]
           /\ horizon'[i] = horizon[i] /\ plan'[i] = plan[i]
  <2>1. JournalInv(j) /\ Len(keys) \in Nat /\ acked \subseteq Journals /\ pc \in [Journals -> Labels]
    BY DEF JournalsInv, TypeOK
  <2>2. UNCHANGED keys /\ \A i \in Journals \ {j} : Untouched(i)
    BY LocalFrame
  <2>3. [Next]_vars
    BY DEF Next, LocalStep
  <2> QED
    BY <2>1, <2>2, <2>3 DEF Untouched
\* The others are idle, before and after.
<1>1. ~overlapped /\ \A i \in Journals \ {j} : pc[i] = "idle" /\ pc'[i] = "idle"
  <2>1. CASE pc[j] # "idle" /\ UNCHANGED overlapped
    BY <1>0, <2>1 DEF SerialInv, Alone
  <2>2. CASE StartPlan(j) \/ StartApply(j)
    <3>1. ~overlapped /\ \A i \in Journals : pc[i] = "idle"
      BY <2>2 DEF StartPlan, StartApply, Start
    <3> QED
      BY <1>0, <3>1
  <2> QED
    BY <2>1, <2>2, LocalWorld
<1>2. /\ \A k \in 1 .. Len(keys) : keys[k].by \in Journals => keys[k].kind # "other"
      /\ \A k \in 1 .. Len(keys) : keys[k].by \in acked =>
           /\ pc[j] = "examine" => k <= horizon[j]
           /\ Committed(j) => keys[k].period # plan[j].period
      /\ \A k, l \in 1 .. Len(keys) :
           {keys[k].by, keys[l].by} \subseteq acked /\ keys[k].period = keys[l].period => k = l
  BY <1>1 DEF SerialInv
<1>3. Alone'
  BY <1>1 DEF Alone
<1>4. \A i \in Journals \ {j} : ~Committed(i)' /\ pc'[i] # "examine"
  BY <1>1 DEF Committed, Applying
\* The acknowledged key is the only one of its period.
<1>5. CASE Acknowledge(j)
  <2>1. /\ pc[j] = "await" /\ acked' = acked \union {j} /\ pc'[j] = "save" /\ after'[j] = "created"
    BY <1>5 DEF Acknowledge, Save, Goto, TypeOK
  <2>2. Committed(j) /\ ~Committed(j)' /\ pc'[j] # "examine"
    BY <1>0, <2>1 DEF Committed, Applying, Saving, JournalInv, DiskInv
  <2>3. \A k \in 1 .. Len(keys) : keys[k].by \in acked => keys[k].period # plan[j].period
    BY <1>2, <2>2
  <2>4. \A k \in 1 .. Len(keys) : keys[k].by = j => keys[k].period = plan[j].period
    BY DEF ClaimsInv, ClaimInv
  <2>5. \A k, l \in 1 .. Len(keys) : keys[k].by = j /\ keys[l].by = j => k = l
    BY DEF RequestsInv, RequestInv
  <2>6. \A k, l \in 1 .. Len(keys) :
          {keys[k].by, keys[l].by} \subseteq acked' /\ keys[k].period = keys[l].period => k = l
    BY <1>2, <2>1, <2>3, <2>4, <2>5
  <2> QED
    BY <1>0, <1>2, <1>3, <1>4, <2>1, <2>2, <2>6 DEF SerialInv
<1>6. CASE acked' = acked
  <2> SUFFICES ASSUME NEW k \in 1 .. Len(keys), keys[k].by \in acked
               PROVE  /\ pc'[j] = "examine" => k <= horizon'[j]
                      /\ Committed(j)' => keys[k].period # plan'[j].period
    BY <1>0, <1>2, <1>3, <1>4, <1>6 DEF SerialInv
  <2> USE DEF TypeOK, Goto
  <2>1. CASE ListKeys(j)
    BY <2>1 DEF ListKeys, Committed, Saving
  <2>2. CASE RecordAttempt(j)
    <3>1. /\ pc[j] = "examine" /\ stage[j] = "first" /\ match[j] = {} /\ seen[j] = 1 .. horizon[j]
          /\ pc'[j] = "save" /\ plan' = plan
      BY <2>2 DEF RecordAttempt, Discovered, Save
    <3>2. k \in seen[j]
      BY <1>2, <3>1
    <3>3. ~Tagged(k, period[j]) /\ period[j] = plan[j].period
      BY <1>0, <3>1, <3>2 DEF JournalInv, DiscoveryInv, MemoryInv, Applying
    <3>4. keys[k].kind # "other"
      BY <1>0, <1>2
    <3> QED
      BY <3>1, <3>3, <3>4 DEF Tagged
  <2>3. CASE SendCreate(j) \/ OpenPending(j)
    <3>1. /\ \/ pc[j] = "create" /\ pc'[j] = "await"
             \/ pc[j] = "save" /\ pc'[j] = "replace"
          /\ UNCHANGED <<plan, after, stage>>
      <4>1. ASSUME SendCreate(j) PROVE pc[j] = "create" /\ pc'[j] = "await" /\ UNCHANGED <<plan, after, stage>>
        BY <4>1 DEF SendCreate
      <4>2. ASSUME OpenPending(j) PROVE pc[j] = "save" /\ pc'[j] = "replace" /\ UNCHANGED <<plan, after, stage>>
        BY <4>2 DEF OpenPending
      <4> QED
        BY <2>3, <4>1, <4>2
    <3>2. Committed(j)' => Committed(j)
      BY <3>1 DEF Committed, Applying, Saving
    <3> QED
      BY <1>2, <3>1, <3>2
  <2>4. CASE Replace(j)
    <3>1. /\ pc[j] = "replace" /\ UNCHANGED <<plan, after>>
          /\ after[j] \in {"idle", "create", "created", "confirm", "list"}
          /\ after[j] \in {"created", "confirm"} => pc'[j] = "check"
          /\ after[j] \notin {"created", "confirm"} => pc'[j] = after[j]
      BY <2>4 DEF Replace, Returns
    <3>2. Applying(j)
      BY <1>0, <3>1 DEF Applying, JournalInv, DiskInv
    <3>3. Committed(j)' => Committed(j)
      BY <3>1, <3>2 DEF Committed, Saving
    <3> QED
      BY <1>2, <3>1, <3>3
  <2>5. ASSUME NEW l \in 1 .. horizon[j], Examine(j, l)
        PROVE  /\ pc'[j] = "examine" => k <= horizon'[j]
               /\ Committed(j)' => keys[k].period # plan'[j].period
    <3>1. pc[j] = "examine" /\ pc' = pc /\ horizon' = horizon
      BY <2>5 DEF Examine
    <3> QED
      BY <1>2, <3>1 DEF Committed, Saving
  <2>6. CASE ResumeAttempted(j) \/ Reuse(j) \/ CreateRaises(j) \/ RecoverCreated(j) \/ Verify(j)
    <3>1. pc'[j] = "save"
      BY <2>6 DEF ResumeAttempted, Reuse, CreateRaises, RecoverCreated, Verify, Save
    <3>2. after'[j] # "create"
      BY <2>6 DEF ResumeAttempted, Reuse, CreateRaises, RecoverCreated, Verify, Save
    <3> QED
      BY <3>1, <3>2 DEF Committed, Saving
  <2>7. CASE StartPlan(j) \/ StartApply(j) \/ Crash(j) \/ Raise(j) \/ WriteFresh(j)
             \/ CheckRegistry(j) \/ WritePlan(j) \/ ConfirmKey(j)
    <3>1. pc'[j] \in {"idle", "fresh", "check", "list", "final"}
      BY <2>7 DEF StartPlan, StartApply, Crash, Raise, WriteFresh, CheckRegistry, WritePlan, ConfirmKey
    <3> QED
      BY <3>1 DEF Committed, Saving
  <2>8. CASE Acknowledge(j)
    BY <1>5, <2>8, <1>6, <1>0 DEF SerialInv, Acknowledge, Save, Committed, Saving
  <2> QED
    BY <2>1, <2>2, <2>3, <2>4, <2>5, <2>6, <2>7, <2>8 DEF LocalStep, Step
<1> QED
  BY <1>5, <1>6, LocalWorld DEF SendCreate

LEMMA SerialNext ==
  TypeOK /\ TypeOK' /\ JournalsInv /\ RequestsInv /\ RequestsInv' /\ ClaimsInv /\ SerialInv
    /\ [Next]_vars => SerialInv'
<1> SUFFICES ASSUME TypeOK, TypeOK', JournalsInv, RequestsInv, RequestsInv', ClaimsInv, SerialInv,
                    [Next]_vars
             PROVE  SerialInv'
  OBVIOUS
<1>1. CASE UNCHANGED vars
  BY <1>1 DEF vars, faults, SerialInv, Alone, Committed, Applying, Saving
<1> QED
  BY <1>1, SerialLocal, SerialEnvironment, StepKinds

\* When no operator was started beside another and nobody takes the tags off a key,
\* two keys of one period were not both acknowledged to those who asked for them.
THEOREM SerializedKeysAreUnique == Spec => []SerializedUnique
<1>1. TypeOK /\ SerialInv => SerializedUnique
  BY DEF SerialInv, SerializedUnique
<1>2. Init => ClaimsInv /\ SerialInv
  BY DEF Init, ClaimsInv, ClaimInv, Claim, Applying, Missing, fresh_journal, SerialInv, Alone
<1> QED
  BY <1>1, <1>2, ClaimsNext, SerialNext, RequestsInvariant, PTL DEF Spec
=============================================================================

---------------------- MODULE PeriodWorkBootstrapProofs ----------------------
(***************************************************************************)
(* What holds of PeriodWorkBootstrap for any sets of plans, attempts, rows *)
(* and writers and for all intervals.  A committed inventory is compared   *)
(* with the rows its attempt read; what has changed since then is either   *)
(* late, or will be found out by the second reading.  That no old          *)
(* invocation is left is what the drain interval is for, and it takes a    *)
(* margin that is not zero: an invocation may end at the very instant of   *)
(* its timeout.                                                            *)
(***************************************************************************)
EXTENDS PeriodWorkBootstrap, TLAPS

Running(w) == busy[w] # Idle
Planned(p) == plan[p] # NoPlan

\* An invocation runs no longer than its timeout.  A writer with gates is invoked
\* only after a deployment, and leaves its revision behind.
FleetInv ==
  /\ gated \intersect Ungated = {}
  /\ \A w \in Writers :
       /\ Running(w) => /\ 0 <= busy[w].since /\ busy[w].since <= now
                        /\ now <= busy[w].since + TIMEOUT
       /\ w \notin Ungated /\ w \notin gated => revision[w] # 0
       /\ w \notin Ungated /\ Running(w) => revision[w] # 0 \/ busy[w].since = 0

\* A planner trusts in the writers without gates.  An invocation of one of them is
\* older than the plan, or slips past it.
PlanPart(p) ==
  /\ using[p] = p /\ stage[p] = "first" /\ pc[p] \in {"idle", "resources", "writers", "scan"}
  /\ Planned(p) => 0 <= plan[p].at /\ plan[p].at <= now /\ trusted[p] = Ungated
  /\ pc[p] # "idle" => stamp[p] <= now /\ trusted[p] = Ungated
  /\ \A w \in Ungated : Running(w) =>
       /\ Planned(p) => p \in busy[w].trust \/ busy[w].since <= plan[p].at
       /\ pc[p] # "idle" => p \in busy[w].trust \/ busy[w].since <= stamp[p]

\* How the journal goes with the control of the attempt.
ControlPart(a) ==
  /\ pc[a] = "intent" => journal[a] = "torn" /\ stage[a] = "first" /\ unseen[a] = {}
  /\ stage[a] = "final" => journal[a] = "intent" /\ pc[a] \in {"resources", "writers", "await"}
  /\ pc[a] \in {"resources", "writers", "scan"} /\ stage[a] = "first" => journal[a] = "none"
  /\ pc[a] = "await" => stage[a] = "final"
  /\ journal[a] # "none" => unseen[a] = {}
  /\ pc[a] \in {"resources", "writers"} /\ stage[a] = "final" => requests[a] = 0
  /\ requests[a] <= 1 /\ (requests[a] = 1 => journal[a] = "intent")
  /\ a \in flight => journal[a] = "intent"
  /\ a \in output => journal[a] = "intent" /\ pc[a] = "idle"

Started(a) == pc[a] # "idle" \/ journal[a] # "none"
Snapped(a) == pc[a] \in {"scan", "intent"} \/ journal[a] # "none"
Changed(a) == {r \in Data \ unseen[a] : table[r] # snap[a][r]}

\* What the second reading will still find out, and what it has not yet read.
Undetected(a) ==
  \/ tableId # 0 /\ Marker \notin trusted[a]
  \/ \E w \in Writers \ trusted[a] : revision[w] # 0

\* Every change since the snapshot is late or will be found out, and every
\* invocation that could make one is trusted in or will be found out.
AttemptPart(a) ==
  /\ Started(a) =>
       /\ Planned(using[a]) /\ TIMEOUT + MARGIN <= Age(using[a])
       /\ Ungated \subseteq trusted[a]
       /\ \A w \in Writers : Running(w) =>
            \/ {a, using[a]} \intersect busy[w].trust # {}
            \/ w \notin trusted[a] /\ revision[w] # 0
  /\ Snapped(a) => Changed(a) \subseteq late[a] \/ Undetected(a)
  /\ pc[a] = "writers" /\ stage[a] = "final" =>
       Marker \in trusted[a] /\ Writers \ unread[a] \subseteq trusted[a]
  /\ a \in flight => Writers \union {Marker} \subseteq trusted[a]

MissedPart(a) ==
  /\ missed[a] # {} => journal[a] = "intent"
  /\ missed[a] \subseteq late[a] /\ \A r \in missed[a] : snap[a][r] = Absent

\* With the boundary kept no writer is open, what runs is older than any plan, and
\* nothing changes under an attempt.
Active == (\E p \in Plans : Planned(p)) \/ \E x \in Processes : pc[x] # "idle"
BoundaryInv == boundary /\ ClosedFirst =>
  /\ Active => admits = {}
  /\ \A p \in Plans, w \in Writers : Running(w) =>
       /\ Planned(p) => busy[w].since <= plan[p].at
       /\ pc[p] # "idle" => busy[w].since <= stamp[p]
  /\ \A a \in Attempts : /\ Snapped(a) => Changed(a) = {}
                         /\ missed[a] = {}

PlanInv == \A p \in Plans : PlanPart(p)
ControlInv == \A a \in Attempts : ControlPart(a)
AttemptInv == \A a \in Attempts : AttemptPart(a)
MissedInv == \A a \in Attempts : MissedPart(a)
Inv == TypeOK /\ FleetInv /\ PlanInv /\ ControlInv /\ AttemptInv /\ MissedInv /\ BoundaryInv

-----------------------------------------------------------------------------
(* The types *)

LEMMA TypeInit == Init => TypeOK
<1> SUFFICES ASSUME Init PROVE TypeOK
  OBVIOUS
<1>1. (CHOOSE p \in Plans : TRUE) \in Plans
  BY NamesAssumption
<1>2. /\ boundary \in BOOLEAN
      /\ now \in Nat /\ tableId \in Nat /\ writes \in Nat
      /\ admits \subseteq Writers /\ gated \subseteq Writers /\ flight \subseteq Attempts
      /\ revision \in [Writers -> Nat]
      /\ table \in Snapshot
      /\ journal \in [Attempts -> {"none", "torn", "intent"}] /\ output \subseteq Attempts
      /\ expiry \in [Plans -> Int]
  BY BoundaryAssumption, ValuesAssumption DEF Init, Snapshot, Absent, Rows
<1>3. busy \in [Writers -> [since : Int, trust : SUBSET Processes]]
  <2>1. {Idle, [Idle EXCEPT !.since = 0]} \subseteq [since : Int, trust : SUBSET Processes]
    BY DEF Idle
  <2> QED BY <2>1 DEF Init
<1>4. /\ snap \in [Processes -> Snapshot]
      /\ plan \in [Plans -> [at : Int, base : Snapshot]]
  <2>1. NoSnapshot \in Snapshot
    BY DEF NoSnapshot, Snapshot, Absent
  <2> QED BY <2>1 DEF Init, NoPlan
<1>5. using \in [Processes -> Plans]
  BY <1>1 DEF Init, Processes
<1>6. /\ pc \in [Processes -> {"idle", "resources", "writers", "scan", "intent", "await"}]
      /\ stage \in [Processes -> {"first", "final"}]
      /\ stamp \in [Processes -> Nat] /\ deadline \in [Processes -> Nat]
      /\ unread \in [Processes -> SUBSET Writers] /\ unseen \in [Processes -> SUBSET Rows]
      /\ requests \in [Attempts -> Nat]
      /\ trusted \in [Processes -> SUBSET (Writers \union {Marker})]
      /\ late \in [Processes -> SUBSET Data] /\ missed \in [Attempts -> SUBSET Data]
  BY DEF Init
<1> QED BY <1>2, <1>3, <1>4, <1>5, <1>6 DEF TypeOK

LEMMA FinishIsTyped == ASSUME TypeOK, NEW x \in Processes, Finish(x)
                       PROVE  /\ pc' \in [Processes -> {"idle", "resources", "writers", "scan",
                                                        "intent", "await"}]
                              /\ stage' \in [Processes -> {"first", "final"}]
                              /\ using' \in [Processes -> Plans]
                              /\ stamp' \in [Processes -> Nat]
                              /\ deadline' \in [Processes -> Nat]
                              /\ unread' \in [Processes -> SUBSET Writers]
                              /\ unseen' \in [Processes -> SUBSET Rows]
                              /\ snap' \in [Processes -> Snapshot]
  BY DEF TypeOK, Finish, Goto

LEMMA SlippedIsTyped == ASSUME TypeOK, NEW trusting, NEW changed \in SUBSET Data,
                               Slipped(trusting, changed)
                        PROVE  late' \in [Processes -> SUBSET Data]
  BY DEF TypeOK, Slipped

LEMMA BeginIsTyped == ASSUME TypeOK, NEW x \in Processes, NEW p \in Plans, Begin(x, p)
                      PROVE  /\ pc' \in [Processes -> {"idle", "resources", "writers", "scan",
                                                       "intent", "await"}]
                             /\ stage' \in [Processes -> {"first", "final"}]
                             /\ using' \in [Processes -> Plans]
                             /\ stamp' \in [Processes -> Nat]
  BY DEF TypeOK, Begin, Goto

LEMMA TypeStep == TypeOK /\ [Next]_vars => TypeOK'
<1> SUFFICES ASSUME TypeOK, [Next]_vars PROVE TypeOK'
  OBVIOUS
<1> USE DEF fleet, database, files, memory, history
<1>1. ASSUME NEW x \in Processes, boundary' = boundary, ReadResources(x) PROVE TypeOK'
  BY <1>1, TimesAssumption DEF TypeOK, ReadResources, Goto, Learned
<1>2. ASSUME NEW x \in Processes, boundary' = boundary, StartScan(x) PROVE TypeOK'
  <2>1. NoSnapshot \in Snapshot
    BY DEF NoSnapshot, Snapshot, Absent
  <2> QED BY <1>2, <2>1 DEF TypeOK, StartScan, Goto
<1>3. ASSUME NEW x \in Processes, NEW w \in Writers, boundary' = boundary, ReadWriter(x, w)
      PROVE  TypeOK'
  BY <1>3 DEF TypeOK, ReadWriter, Learned
<1>4. ASSUME NEW x \in Processes, NEW r \in Rows, boundary' = boundary, ReadPage(x, r)
      PROVE  TypeOK'
  <2>1. snap' \in [Processes -> Snapshot]
    BY <1>4 DEF TypeOK, ReadPage, Snapshot
  <2> QED BY <1>4, <2>1 DEF TypeOK, ReadPage
<1>5. ASSUME NEW x \in Processes, boundary' = boundary, Stop(x) PROVE TypeOK'
  BY <1>5, FinishIsTyped DEF TypeOK, Stop
<1>6. ASSUME NEW p \in Plans, boundary' = boundary, StartPlan(p) PROVE TypeOK'
  <2>1. Begin(p, p) /\ p \in Processes
    BY <1>6 DEF StartPlan, Processes
  <2>2. /\ trusted' \in [Processes -> SUBSET (Writers \union {Marker})]
        /\ late' \in [Processes -> SUBSET Data]
    BY <1>6, WritersAssumption DEF TypeOK, StartPlan
  <2> QED BY <1>6, <2>1, <2>2, BeginIsTyped DEF TypeOK, Begin
<1>7. ASSUME NEW p \in Plans, boundary' = boundary, WritePlan(p) PROVE TypeOK'
  <2>1. Finish(p) /\ p \in Processes
    BY <1>7 DEF WritePlan, Processes
  <2>2. plan' \in [Plans -> [at : Int, base : Snapshot]]
    BY <1>7 DEF TypeOK, WritePlan, Processes
  <2> QED BY <1>7, <2>1, <2>2, FinishIsTyped DEF TypeOK, WritePlan
<1>8. ASSUME NEW p \in Plans, boundary' = boundary, Approve(p) PROVE TypeOK'
  BY <1>8, TimesAssumption DEF TypeOK, Approve
<1>9. ASSUME NEW a \in Attempts, NEW p \in Plans, boundary' = boundary, StartApply(a, p)
      PROVE  TypeOK'
  <2>1. Begin(a, p) /\ a \in Processes
    BY <1>9 DEF StartApply, Processes
  <2>2. /\ trusted' \in [Processes -> SUBSET (Writers \union {Marker})]
        /\ late' \in [Processes -> SUBSET Data]
    BY <1>9 DEF TypeOK, StartApply, Processes
  <2> QED BY <1>9, <2>1, <2>2, BeginIsTyped DEF TypeOK, Begin
<1>10. ASSUME NEW a \in Attempts, boundary' = boundary, OpenJournal(a) PROVE TypeOK'
  BY <1>10 DEF TypeOK, OpenJournal, Goto
<1>11. ASSUME NEW a \in Attempts, boundary' = boundary, WriteIntent(a) PROVE TypeOK'
  BY <1>11 DEF TypeOK, WriteIntent, Goto
<1>12. ASSUME NEW a \in Attempts, boundary' = boundary, Send(a) PROVE TypeOK'
  <2>1. pc' \in [Processes -> {"idle", "resources", "writers", "scan", "intent", "await"}]
    BY <1>12 DEF TypeOK, Send, Goto
  <2>2. requests' \in [Attempts -> Nat] /\ flight' \subseteq Attempts
    BY <1>12 DEF TypeOK, Send
  <2> QED BY <1>12, <2>1, <2>2 DEF TypeOK, Send
<1>13. ASSUME NEW a \in Attempts, boundary' = boundary, Acknowledge(a) PROVE TypeOK'
  <2>1. Finish(a) /\ a \in Processes
    BY <1>13 DEF Acknowledge, Processes
  <2> QED BY <1>13, <2>1, FinishIsTyped DEF TypeOK, Acknowledge
<1>14. ASSUME NEW a \in Attempts, boundary' = boundary, Commit(a) PROVE TypeOK'
  <2>1. table' \in Snapshot
    BY <1>14 DEF TypeOK, Commit, Snapshot
  <2>2. missed' \in [Attempts -> SUBSET Data]
    BY <1>14 DEF TypeOK, Commit
  <2> QED BY <1>14, <2>1, <2>2 DEF TypeOK, Commit
<1>15. ASSUME NEW a \in Attempts, boundary' = boundary, Cancel(a) PROVE TypeOK'
  BY <1>15 DEF TypeOK, Cancel
<1>16. ASSUME NEW w \in Writers, boundary' = boundary, Invoke(w) PROVE TypeOK'
  <2>1. busy' \in [Writers -> [since : Int, trust : SUBSET Processes]]
    BY <1>16 DEF TypeOK, Invoke
  <2> QED BY <1>16, <2>1 DEF TypeOK, Invoke
<1>17. ASSUME NEW w \in Writers, boundary' = boundary, Return(w) PROVE TypeOK'
  <2>1. busy' \in [Writers -> [since : Int, trust : SUBSET Processes]]
    BY <1>17 DEF TypeOK, Return, Idle
  <2> QED BY <1>17, <2>1 DEF TypeOK, Return
<1>18. ASSUME NEW w \in Writers, boundary' = boundary, Admit(w) \/ Pause(w) \/ Deploy(w)
       PROVE  TypeOK'
  <2>1. CASE Admit(w)
    BY <2>1, <1>18 DEF TypeOK, Admit
  <2>2. CASE Pause(w)
    BY <2>2, <1>18 DEF TypeOK, Pause
  <2>3. CASE Deploy(w)
    <3>1. revision' \in [Writers -> Nat] /\ gated' \subseteq Writers
      BY <2>3 DEF TypeOK, Deploy
    <3> QED BY <2>3, <1>18, <3>1 DEF TypeOK, Deploy
  <2> QED BY <1>18, <2>1, <2>2, <2>3
<1>19. ASSUME NEW w \in Writers, NEW r \in Data, boundary' = boundary, WriteRow(w, r)
       PROVE  TypeOK'
  <2>1. table' \in Snapshot
    BY <1>19 DEF TypeOK, WriteRow, Snapshot, Rows
  <2>2. late' \in [Processes -> SUBSET Data]
    BY <1>19, SlippedIsTyped DEF WriteRow
  <2> QED BY <1>19, <2>1, <2>2 DEF TypeOK, WriteRow
<1>20. ASSUME boundary' = boundary, Tick PROVE TypeOK'
  BY <1>20 DEF TypeOK, Tick
<1>21. ASSUME boundary' = boundary, Restore PROVE TypeOK'
  <2>1. PICK copy \in [Data -> Values \union {Absent}] :
          /\ table' = [r \in Rows |-> IF r = Marker THEN Absent ELSE copy[r]]
          /\ Slipped({x \in Processes : Marker \in trusted[x]},
                     {r \in Data : copy[r] # table[r]})
    BY <1>21 DEF Restore
  <2>2. table' \in Snapshot
    BY <2>1 DEF Snapshot, Rows
  <2>3. late' \in [Processes -> SUBSET Data]
    BY <2>1, SlippedIsTyped
  <2> QED BY <1>21, <2>2, <2>3 DEF TypeOK, Restore
<1>22. CASE UNCHANGED vars
  BY <1>22 DEF TypeOK, vars
<1> QED
  BY <1>1, <1>2, <1>3, <1>4, <1>5, <1>6, <1>7, <1>8, <1>9, <1>10, <1>11, <1>12, <1>13, <1>14,
     <1>15, <1>16, <1>17, <1>18, <1>19, <1>20, <1>21, <1>22
  DEF Next, Step, Capture, Apply, Fleet, Processes

-----------------------------------------------------------------------------
(* What a process leaves alone *)

\* The own variables of a process.
Kept(y) ==
  /\ pc'[y] = pc[y] /\ stage'[y] = stage[y] /\ using'[y] = using[y] /\ stamp'[y] = stamp[y]
  /\ unread'[y] = unread[y] /\ unseen'[y] = unseen[y] /\ snap'[y] = snap[y]
  /\ trusted'[y] = trusted[y] /\ late'[y] = late[y]

Acts(x) ==
  \/ Capture(x) \/ Stop(x)
  \/ x \in Plans /\ (StartPlan(x) \/ WritePlan(x))
  \/ x \in Attempts /\ Apply(x)

\* A process changes no function, and of others nothing but the table's marker.
LEMMA OthersAreKept ==
  ASSUME TypeOK, NEW x \in Processes, Acts(x)
  PROVE  /\ UNCHANGED <<now, admits, gated, revision, busy, tableId>>
         /\ \A y \in Processes \ {x} : Kept(y)
         /\ \A p \in Plans \ {x} : plan'[p] = plan[p]
         /\ \A p \in Plans : Planned(p) => plan'[p] = plan[p]
         /\ \A a \in Attempts \ {x} : /\ journal'[a] = journal[a] /\ requests'[a] = requests[a]
                                      /\ missed'[a] = missed[a]
                                      /\ a \in flight' <=> a \in flight
                                      /\ a \in output' <=> a \in output
         /\ \A r \in Data : table'[r] = table[r]
<1> DEFINE Goal ==
         /\ UNCHANGED <<now, admits, gated, revision, busy, tableId>>
         /\ \A y \in Processes \ {x} : Kept(y)
         /\ \A p \in Plans \ {x} : plan'[p] = plan[p]
         /\ \A p \in Plans : Planned(p) => plan'[p] = plan[p]
         /\ \A a \in Attempts \ {x} : /\ journal'[a] = journal[a] /\ requests'[a] = requests[a]
                                      /\ missed'[a] = missed[a]
                                      /\ a \in flight' <=> a \in flight
                                      /\ a \in output' <=> a \in output
         /\ \A r \in Data : table'[r] = table[r]
<1> USE DEF fleet, database, files, memory, history
<1>1. ASSUME ReadResources(x) PROVE Goal
  BY <1>1 DEF TypeOK, Kept, ReadResources, Learned, Goto
<1>2. ASSUME StartScan(x) PROVE Goal
  BY <1>2 DEF TypeOK, Kept, StartScan, Goto
<1>3. ASSUME NEW w \in Writers, ReadWriter(x, w) PROVE Goal
  BY <1>3 DEF TypeOK, Kept, ReadWriter, Learned
<1>4. ASSUME NEW r \in Rows, ReadPage(x, r) PROVE Goal
  BY <1>4 DEF TypeOK, Kept, ReadPage
<1>5. ASSUME Stop(x) PROVE Goal
  BY <1>5 DEF TypeOK, Kept, Stop, Finish, Goto
<1>6. ASSUME StartPlan(x) PROVE Goal
  BY <1>6 DEF TypeOK, Kept, StartPlan, Begin, Goto
<1>7. ASSUME WritePlan(x) PROVE Goal
  BY <1>7 DEF TypeOK, Kept, WritePlan, Finish, Goto, Planned
<1>8. ASSUME NEW p \in Plans, StartApply(x, p) PROVE Goal
  BY <1>8 DEF TypeOK, Kept, StartApply, Begin, Goto
<1>9. ASSUME OpenJournal(x) PROVE Goal
  BY <1>9 DEF TypeOK, Kept, OpenJournal, Goto
<1>10. ASSUME WriteIntent(x) PROVE Goal
  BY <1>10 DEF TypeOK, Kept, WriteIntent, Goto
<1>11. ASSUME Send(x) PROVE Goal
  BY <1>11 DEF TypeOK, Kept, Send, Goto
<1>12. ASSUME Acknowledge(x) PROVE Goal
  BY <1>12 DEF TypeOK, Kept, Acknowledge, Finish, Goto
<1>13. ASSUME Commit(x) PROVE Goal
  BY <1>13, NamesAssumption DEF TypeOK, Kept, Commit, Snapshot
<1>14. ASSUME Cancel(x) PROVE Goal
  BY <1>14 DEF TypeOK, Kept, Cancel
<1> QED
  BY <1>1, <1>2, <1>3, <1>4, <1>5, <1>6, <1>7, <1>8, <1>9, <1>10, <1>11, <1>12, <1>13, <1>14
  DEF Acts, Capture, Apply

LEMMA Actors ==
  ASSUME [Next]_vars
  PROVE  /\ UNCHANGED boundary
         /\ \/ \E x \in Processes : Acts(x)
            \/ \E p \in Plans : Approve(p)
            \/ \E w \in Writers : Fleet(w)
            \/ Tick \/ Restore \/ UNCHANGED vars
  BY DEF Next, Step, Acts, Processes, vars

\* The fleet and the time change without them.
LEMMA FleetKept ==
  ASSUME TypeOK, [Next]_vars
  PROVE  \/ UNCHANGED <<now, gated, revision, busy>>
         \/ Tick
         \/ \E w \in Writers : Invoke(w) \/ Return(w) \/ Deploy(w)
<1>1. ASSUME NEW x \in Processes, Acts(x) PROVE UNCHANGED <<now, gated, revision, busy>>
  BY <1>1, OthersAreKept
<1>2. ASSUME NEW p \in Plans, Approve(p) PROVE UNCHANGED <<now, gated, revision, busy>>
  BY <1>2 DEF Approve, fleet
<1>3. ASSUME NEW w \in Writers, Fleet(w)
      PROVE  UNCHANGED <<now, gated, revision, busy>> \/ Invoke(w) \/ Return(w) \/ Deploy(w)
  BY <1>3 DEF Fleet, Admit, Pause, WriteRow, fleet
<1>4. ASSUME Restore PROVE UNCHANGED <<now, gated, revision, busy>>
  BY <1>4 DEF Restore, fleet
<1>5. CASE UNCHANGED vars
  BY <1>5 DEF vars, fleet
<1> QED BY <1>1, <1>2, <1>3, <1>4, <1>5, Actors

LEMMA FleetStep == TypeOK /\ FleetInv /\ [Next]_vars => FleetInv'
<1> SUFFICES ASSUME TypeOK, FleetInv, [Next]_vars PROVE FleetInv'
  OBVIOUS
<1>1. CASE UNCHANGED <<now, gated, revision, busy>>
  BY <1>1 DEF FleetInv, Running
<1>2. CASE Tick
  <2>1. UNCHANGED <<gated, revision, busy>> /\ now' = now + 1
    BY <1>2 DEF Tick, fleet
  <2>2. \A w \in Writers : Running(w) => now < busy[w].since + TIMEOUT
    BY <1>2 DEF Tick, Running
  <2>3. /\ now \in Nat /\ TIMEOUT \in Nat
        /\ \A w \in Writers : busy[w].since \in Int
    BY TimesAssumption DEF TypeOK
  <2> QED BY <2>1, <2>2, <2>3 DEF FleetInv, Running
<1>3. ASSUME NEW v \in Writers, Invoke(v) PROVE FleetInv'
  <2>1. UNCHANGED <<now, gated, revision>> /\ v \notin gated /\ now \in Nat /\ TIMEOUT \in Nat
    BY <1>3, TimesAssumption DEF Invoke, TypeOK
  <2>2. /\ busy'[v].since = now
        /\ \A w \in Writers : w # v => busy'[w] = busy[w]
    BY <1>3 DEF Invoke, TypeOK
  <2> QED BY <2>1, <2>2 DEF FleetInv, Running
<1>4. ASSUME NEW v \in Writers, Return(v) PROVE FleetInv'
  <2>1. UNCHANGED <<now, gated, revision>>
    BY <1>4 DEF Return
  <2>2. /\ busy'[v] = Idle
        /\ \A w \in Writers : w # v => busy'[w] = busy[w]
    BY <1>4 DEF Return, TypeOK
  <2> QED BY <2>1, <2>2 DEF FleetInv, Running
<1>5. ASSUME NEW v \in Writers, Deploy(v) PROVE FleetInv'
  <2>1. UNCHANGED <<now, busy>> /\ v \notin Ungated
    BY <1>5 DEF Deploy
  <2>2. /\ revision'[v] # 0
        /\ \A w \in Writers : w # v => revision'[w] = revision[w]
        /\ \A w \in Writers : w # v => (w \in gated' <=> w \in gated)
        /\ gated' \subseteq gated \union {v}
    BY <1>5 DEF Deploy, TypeOK
  <2> QED BY <2>1, <2>2 DEF FleetInv, Running
<1> QED BY <1>1, <1>2, <1>3, <1>4, <1>5, FleetKept

\* Nor do the others change anything that a process keeps, but for late.
LEMMA FilesAreKept ==
  ASSUME NEW w, NEW p, Fleet(w) \/ Tick \/ Restore \/ Approve(p)
  PROVE  UNCHANGED <<memory, plan, journal, output, flight, requests, trusted, missed>>
<1> USE DEF fleet, database, files, history
<1>1. CASE Fleet(w)
  <2>1. CASE Invoke(w) \/ Return(w) \/ Admit(w) \/ Pause(w) \/ Deploy(w)
    BY <2>1 DEF Invoke, Return, Admit, Pause, Deploy
  <2>2. ASSUME NEW r \in Data, WriteRow(w, r)
        PROVE  UNCHANGED <<memory, plan, journal, output, flight, requests, trusted, missed>>
    BY <2>2 DEF WriteRow
  <2> QED BY <1>1, <2>1, <2>2 DEF Fleet
<1>2. CASE Tick
  BY <1>2 DEF Tick
<1>3. CASE Restore
  BY <1>3 DEF Restore
<1>4. CASE Approve(p)
  BY <1>4 DEF Approve
<1> QED BY <1>1, <1>2, <1>3, <1>4

-----------------------------------------------------------------------------
(* Plans and invocations *)

LEMMA PlanStep == TypeOK /\ FleetInv /\ PlanInv /\ [Next]_vars => PlanInv'
<1> SUFFICES ASSUME TypeOK, FleetInv, PlanInv, [Next]_vars, NEW p \in Plans PROVE PlanPart(p)'
  BY DEF PlanInv
<1>t. /\ now \in Nat /\ stamp[p] \in Nat /\ plan[p].at \in Int
      /\ \A w \in Writers : busy[w].since \in Int
      /\ Ungated \subseteq Writers
      /\ p \in Processes /\ p \notin Attempts /\ NoPlan.at = -1
  BY WritersAssumption, NamesAssumption DEF TypeOK, Processes, NoPlan
<1>p. PlanPart(p)
  BY DEF PlanInv
<1>f. \A w \in Writers : Running(w) => busy[w].since <= now
  BY DEF FleetInv
<1>1. CASE /\ pc'[p] = pc[p] /\ stage'[p] = stage[p] /\ using'[p] = using[p]
           /\ stamp'[p] = stamp[p] /\ trusted'[p] = trusted[p] /\ plan'[p] = plan[p]
           /\ UNCHANGED <<now, busy>>
  BY <1>1, <1>p DEF PlanPart, Planned, Running
<1>2. ASSUME NEW x \in Processes, Acts(x), x # p PROVE PlanPart(p)'
  BY <1>1, <1>2, <1>t, OthersAreKept DEF Kept
<1>3. ASSUME Acts(p) PROVE PlanPart(p)'
  <2>k. UNCHANGED <<now, busy>> /\ (Planned(p) => plan'[p] = plan[p])
    BY <1>3, <1>t, OthersAreKept
  <2>1. ASSUME ReadResources(p) \/ StartScan(p) PROVE PlanPart(p)'
    <3>1. /\ pc'[p] \in {"writers", "scan"} /\ pc[p] # "idle" /\ stage'[p] = stage[p]
          /\ using'[p] = using[p] /\ stamp'[p] = stamp[p] /\ plan'[p] = plan[p]
      BY <2>1, <1>t DEF ReadResources, StartScan, Goto, files, TypeOK
    <3>2. trusted'[p] = trusted[p]
      BY <2>1, <1>t, <1>p DEF ReadResources, StartScan, Learned, PlanPart, TypeOK, history
    <3> QED BY <2>k, <3>1, <3>2, <1>p DEF PlanPart, Planned, Running
  <2>2. ASSUME NEW w \in Writers, ReadWriter(p, w) PROVE PlanPart(p)'
    <3>1. trusted'[p] = trusted[p]
      BY <2>2, <1>t, <1>p DEF ReadWriter, Learned, PlanPart, TypeOK
    <3> QED BY <2>2, <3>1, <2>k, <1>1 DEF ReadWriter, files
  <2>3. ASSUME NEW r \in Rows, ReadPage(p, r) PROVE PlanPart(p)'
    BY <2>3, <2>k, <1>1 DEF ReadPage, files, history
  <2>4. ASSUME Stop(p) PROVE PlanPart(p)'
    <3>1. /\ pc'[p] = "idle" /\ stage'[p] = "first" /\ using'[p] = using[p]
          /\ UNCHANGED <<plan, trusted>>
      BY <2>4, <1>t DEF Stop, Finish, Goto, files, history, TypeOK
    <3> QED BY <2>k, <3>1, <1>p DEF PlanPart, Planned, Running
  <2>5. ASSUME StartPlan(p) PROVE PlanPart(p)'
    <3>1. /\ pc'[p] = "resources" /\ stage'[p] = "first" /\ using'[p] = p
          /\ stamp'[p] = now /\ trusted'[p] = Ungated /\ ~ Planned(p) /\ plan' = plan
      BY <2>5, <1>t DEF StartPlan, Begin, Goto, files, TypeOK, Planned
    <3> QED BY <2>k, <3>1, <1>p, <1>f, <1>t DEF PlanPart, Planned, Running
  <2>6. ASSUME WritePlan(p) PROVE PlanPart(p)'
    <3>1. /\ pc'[p] = "idle" /\ stage'[p] = "first" /\ using'[p] = using[p]
          /\ pc[p] = "scan" /\ trusted' = trusted
      BY <2>6, <1>t DEF WritePlan, Classified, Finish, Goto, history, TypeOK
    <3>2. plan'[p].at = stamp[p]
      BY <2>6, <1>t DEF WritePlan, TypeOK
    <3> QED BY <2>k, <3>1, <3>2, <1>p, <1>f, <1>t DEF PlanPart, Planned, Running
  <2> QED BY <1>3, <1>t, <2>1, <2>2, <2>3, <2>4, <2>5, <2>6 DEF Acts, Capture
<1>4. ASSUME NEW q \in Plans, Approve(q) PROVE PlanPart(p)'
  BY <1>4, <1>1 DEF Approve, memory, history, fleet
<1>5. ASSUME NEW v \in Writers, Fleet(v) PROVE PlanPart(p)'
  <2>1. UNCHANGED <<memory, plan, trusted>>
    BY <1>5, FilesAreKept
  <2>2. ASSUME Invoke(v) PROVE PlanPart(p)'
    <3>1. /\ now' = now
          /\ busy'[v] = [since |-> now, trust |-> {x \in Processes : v \in trusted[x]}]
          /\ \A w \in Writers : w # v => busy'[w] = busy[w]
      BY <2>2 DEF Invoke, TypeOK
    <3>2. busy'[v].since = now /\ (v \in trusted[p] => p \in busy'[v].trust)
      BY <3>1, <1>t
    <3> QED BY <2>1, <3>1, <3>2, <1>t, <1>p DEF PlanPart, Planned, Running, memory
  <2>3. ASSUME Return(v) PROVE PlanPart(p)'
    <3>1. /\ now' = now /\ busy'[v] = Idle
          /\ \A w \in Writers : w # v => busy'[w] = busy[w]
      BY <2>3 DEF Return, TypeOK
    <3> QED BY <2>1, <3>1, <1>t, <1>p DEF PlanPart, Planned, Running, memory
  <2>4. CASE UNCHANGED <<now, busy>>
    BY <2>1, <2>4, <1>1 DEF memory
  <2> QED BY <1>5, <2>2, <2>3, <2>4 DEF Fleet, Admit, Pause, Deploy, WriteRow, fleet
<1>6. ASSUME Tick PROVE PlanPart(p)'
  <2>1. UNCHANGED <<memory, plan, trusted, busy>> /\ now' = now + 1
    BY <1>6 DEF Tick, fleet, files, history
  <2> QED BY <2>1, <1>t, <1>p DEF PlanPart, Planned, Running, memory
<1>7. ASSUME Restore PROVE PlanPart(p)'
  BY <1>7, <1>1 DEF Restore, memory, files, fleet
<1>8. CASE UNCHANGED vars
  BY <1>8, <1>1 DEF vars, memory, files, fleet, history
<1> QED BY <1>2, <1>3, <1>4, <1>5, <1>6, <1>7, <1>8, Actors

-----------------------------------------------------------------------------
(* Journals and transactions *)

LEMMA ControlStep == TypeOK /\ ControlInv /\ [Next]_vars => ControlInv'
<1> SUFFICES ASSUME TypeOK, ControlInv, [Next]_vars, NEW a \in Attempts PROVE ControlPart(a)'
  BY DEF ControlInv
<1>t. /\ a \in Processes /\ a \notin Plans /\ requests[a] \in Nat
      /\ pc[a] \in {"idle", "resources", "writers", "scan", "intent", "await"}
      /\ stage[a] \in {"first", "final"} /\ journal[a] \in {"none", "torn", "intent"}
  BY NamesAssumption DEF TypeOK, Processes
<1>c. ControlPart(a)
  BY DEF ControlInv
<1>1. CASE /\ pc'[a] = pc[a] /\ stage'[a] = stage[a] /\ unseen'[a] = unseen[a]
           /\ journal'[a] = journal[a] /\ requests'[a] = requests[a]
           /\ (a \in flight' => a \in flight) /\ (a \in output' <=> a \in output)
  BY <1>1, <1>c DEF ControlPart
<1>2. ASSUME NEW x \in Processes, Acts(x), x # a PROVE ControlPart(a)'
  BY <1>1, <1>2, <1>t, OthersAreKept DEF Kept
<1>3. ASSUME Acts(a) PROVE ControlPart(a)'
  <2> USE DEF database, files, memory, history
  <2>1. ASSUME ReadResources(a) PROVE ControlPart(a)'
    BY <2>1, <1>t, <1>c DEF ControlPart, ReadResources, Goto, TypeOK
  <2>2. ASSUME StartScan(a) PROVE ControlPart(a)'
    BY <2>2, <1>t, <1>c DEF ControlPart, StartScan, Goto, TypeOK
  <2>3. ASSUME NEW w \in Writers, ReadWriter(a, w) PROVE ControlPart(a)'
    BY <2>3, <1>1 DEF ReadWriter
  <2>4. ASSUME NEW r \in Rows, ReadPage(a, r) PROVE ControlPart(a)'
    BY <2>4, <1>t, <1>c DEF ControlPart, ReadPage, TypeOK
  <2>5. ASSUME Stop(a) PROVE ControlPart(a)'
    BY <2>5, <1>t, <1>c DEF ControlPart, Stop, Finish, Goto, TypeOK
  <2>6. ASSUME NEW p \in Plans, StartApply(a, p) PROVE ControlPart(a)'
    BY <2>6, <1>t, <1>c DEF ControlPart, StartApply, Begin, Goto, TypeOK
  <2>7. ASSUME OpenJournal(a) PROVE ControlPart(a)'
    BY <2>7, <1>t, <1>c DEF ControlPart, OpenJournal, Classified, Goto, TypeOK
  <2>8. ASSUME WriteIntent(a) PROVE ControlPart(a)'
    <3>1. /\ pc[a] = "intent" /\ pc'[a] = "resources" /\ stage'[a] = "final"
          /\ journal'[a] = "intent" /\ unseen' = unseen /\ output' = output
          /\ requests' = requests /\ flight' = flight
      BY <2>8, <1>t DEF WriteIntent, Goto, TypeOK
    <3>2. requests[a] = 0
      BY <3>1, <1>t, <1>c DEF ControlPart
    <3> QED BY <3>1, <3>2, <1>t, <1>c DEF ControlPart
  <2>9. ASSUME Send(a) PROVE ControlPart(a)'
    <3>1. /\ pc[a] = "writers" /\ stage[a] = "final" /\ pc'[a] = "await" /\ stage'[a] = "final"
          /\ unseen' = unseen /\ journal' = journal /\ output' = output
      BY <2>9, <1>t DEF Send, Goto, TypeOK
    <3>2. requests'[a] = requests[a] + 1
      BY <2>9 DEF Send, TypeOK
    <3> QED BY <3>1, <3>2, <1>t, <1>c DEF ControlPart
  <2>10. ASSUME Acknowledge(a) PROVE ControlPart(a)'
    BY <2>10, <1>t, <1>c DEF ControlPart, Acknowledge, Finish, Goto, TypeOK
  <2>11. ASSUME Commit(a) \/ Cancel(a) PROVE ControlPart(a)'
    BY <2>11, <1>1 DEF Commit, Cancel
  <2> QED
    BY <1>3, <1>t, <2>1, <2>2, <2>3, <2>4, <2>5, <2>6, <2>7, <2>8, <2>9, <2>10, <2>11
    DEF Acts, Capture, Apply
<1>4. CASE UNCHANGED <<memory, plan, journal, output, flight, requests, trusted, missed>>
  BY <1>4, <1>1 DEF memory
<1>5. CASE UNCHANGED vars
  BY <1>5, <1>4 DEF vars, database, files, history
<1>6. CASE /\ ~ \E x \in Processes : Acts(x)
           /\ ~ UNCHANGED vars
  <2>1. \A w \in Writers, p \in Plans : Fleet(w) \/ Approve(p) =>
          UNCHANGED <<memory, plan, journal, output, flight, requests, trusted, missed>>
    BY FilesAreKept
  <2>2. Tick \/ Restore =>
          UNCHANGED <<memory, plan, journal, output, flight, requests, trusted, missed>>
    BY DEF Tick, Restore, database, files, history
  <2>3. \A p \in Plans : Approve(p) =>
          UNCHANGED <<memory, plan, journal, output, flight, requests, trusted, missed>>
    BY DEF Approve, database, files, history
  <2> QED BY <1>4, <1>6, <2>1, <2>2, <2>3, Actors, NamesAssumption
<1> QED BY <1>2, <1>3, <1>5, <1>6

-----------------------------------------------------------------------------
(* What changes under an attempt *)

\* Nothing an attempt depends on has changed.
LEMMA AttemptIsKept ==
  ASSUME NEW a \in Attempts, AttemptPart(a), Kept(a),
         Started(a) => plan'[using[a]] = plan[using[a]],
         journal'[a] = journal[a], a \in flight' => a \in flight,
         UNCHANGED <<now, revision, busy, tableId>>, \A r \in Data : table'[r] = table[r]
  PROVE  AttemptPart(a)'
<1>1. Changed(a)' = Changed(a)
  BY DEF Changed, Kept
<1>2. Undetected(a)' <=> Undetected(a)
  BY DEF Undetected, Kept
<1>3. (Started(a)' <=> Started(a)) /\ (Snapped(a)' <=> Snapped(a))
  BY DEF Started, Snapped, Kept
<1>4. \A w \in Writers : Running(w)' <=> Running(w)
  BY DEF Running
<1> QED BY <1>1, <1>2, <1>3, <1>4 DEF AttemptPart, Kept, Planned, Age

\* With the plan and the functions as they were, what an attempt knows of the rows
\* and of the fleet may have changed by its own step.
LEMMA AttemptGoesOn ==
  ASSUME NEW a \in Attempts, AttemptPart(a), Started(a),
         using'[a] = using[a], Planned(using[a]) => plan'[using[a]] = plan[using[a]],
         UNCHANGED <<now, revision, busy, tableId>>,
         trusted[a] \subseteq trusted'[a],
         \A w \in Writers : w \in trusted'[a] => w \in trusted[a] \/ revision[w] = 0
  PROVE  /\ Planned(using[a])' /\ (TIMEOUT + MARGIN <= Age(using[a]))'
         /\ Ungated \subseteq trusted'[a]
         /\ \A w \in Writers : Running(w)' =>
              \/ {a, using'[a]} \intersect busy'[w].trust # {}
              \/ w \notin trusted'[a] /\ revision'[w] # 0
<1>1. Planned(using[a])' /\ (TIMEOUT + MARGIN <= Age(using[a]))'
  BY DEF AttemptPart, Planned, Age
<1> QED BY <1>1 DEF AttemptPart, Running

\* Nor has anything that it would still find out been lost.
LEMMA UndetectedStays ==
  ASSUME NEW a \in Attempts, Undetected(a), UNCHANGED <<revision, tableId>>,
         Marker \in trusted'[a] => Marker \in trusted[a] \/ tableId = 0,
         \A w \in Writers : w \in trusted'[a] => w \in trusted[a] \/ revision[w] = 0
  PROVE  Undetected(a)'
  BY DEF Undetected

\* A fresh attempt: no invocation is left that the plan has not seen the end of.
LEMMA StartedAfterDrain ==
  ASSUME TypeOK, FleetInv, PlanInv, ControlInv, NEW a \in Attempts, NEW p \in Plans,
         StartApply(a, p), a \in Processes
  PROVE  AttemptPart(a)'
<1>t. /\ now \in Nat /\ plan[p].at \in Int /\ TIMEOUT \in Nat /\ MARGIN \in Nat /\ MARGIN # 0
      /\ \A w \in Writers : busy[w].since \in Int
  BY TimesAssumption, MarginAssumption DEF TypeOK
<1>1. /\ Planned(p) /\ TIMEOUT + MARGIN <= Age(p)
      /\ UNCHANGED <<now, revision, busy, plan, journal, flight>> /\ journal[a] = "none"
  BY DEF StartApply, Drained, Planned, Begin, fleet, database, files
<1>2. pc'[a] = "resources" /\ stage'[a] = "first" /\ using'[a] = p /\ trusted'[a] = trusted[p]
  BY DEF StartApply, Begin, Goto, TypeOK
<1>3. trusted'[a] = Ungated /\ 0 <= plan[p].at
  BY <1>1, <1>2 DEF PlanInv, PlanPart
<1>4. ASSUME NEW w \in Writers, Running(w)
      PROVE  p \in busy[w].trust \/ (w \notin Ungated /\ revision[w] # 0)
  <2>1. plan[p].at + TIMEOUT < now /\ now <= busy[w].since + TIMEOUT
    BY <1>1, <1>t, <1>4 DEF Age, FleetInv
  <2>2. CASE w \in Ungated
    BY <1>1, <1>4, <2>1, <2>2, <1>t DEF PlanInv, PlanPart
  <2>3. CASE w \notin Ungated
    BY <1>3, <1>4, <2>1, <2>3, <1>t DEF FleetInv
  <2> QED BY <2>2, <2>3
<1>5. a \notin flight /\ ~ Snapped(a)'
  BY <1>1, <1>2 DEF ControlInv, ControlPart, Snapped
<1>6. \A w \in Writers : Running(w)' => Running(w)
  BY <1>1 DEF Running
<1> QED BY <1>1, <1>2, <1>3, <1>4, <1>5, <1>6 DEF AttemptPart, Planned, Age

\* What an attempt has read agrees with the table no less after its own steps.
LEMMA SnapshotActs ==
  ASSUME TypeOK, ControlInv, NEW a \in Attempts, a \in Processes, Acts(a)
  PROVE  Snapped(a)' => Changed(a)' = {} \/ (Snapped(a) /\ Changed(a)' \subseteq Changed(a))
<1> DEFINE Goal == Snapped(a)' =>
                     Changed(a)' = {} \/ (Snapped(a) /\ Changed(a)' \subseteq Changed(a))
<1>t. ControlPart(a) /\ a \notin Plans
  BY NamesAssumption DEF ControlInv
<1>k. \A r \in Data : table'[r] = table[r]
  BY OthersAreKept
<1> USE DEF database, files, memory, history
<1>1. ASSUME UNCHANGED <<unseen, snap>>, Snapped(a)' => Snapped(a) PROVE Goal
  BY <1>1, <1>k DEF Changed
<1>2. ASSUME ReadResources(a) \/ OpenJournal(a) \/ WriteIntent(a) \/ Send(a) PROVE Goal
  BY <1>1, <1>2, <1>t DEF ReadResources, OpenJournal, WriteIntent, Send, Classified, Goto,
                          Snapped, ControlPart, TypeOK
<1>3. ASSUME NEW v \in Writers, ReadWriter(a, v) PROVE Goal
  BY <1>1, <1>3 DEF ReadWriter, Snapped
<1>4. ASSUME StartScan(a) PROVE Goal
  BY <1>4 DEF StartScan, Changed, Rows, TypeOK
<1>5. ASSUME NEW r \in Rows, ReadPage(a, r) PROVE Goal
  <2>1. /\ pc[a] = "scan" /\ unseen'[a] = unseen[a] \ {r}
        /\ snap'[a][r] = table[r] /\ \A q \in Rows : q # r => snap'[a][q] = snap[a][q]
    BY <1>5 DEF ReadPage, TypeOK, Snapshot
  <2> QED BY <1>k, <2>1 DEF Changed, Rows, Snapped
<1>6. ASSUME Stop(a) \/ Acknowledge(a) PROVE Goal
  <2>1. pc'[a] = "idle" /\ unseen'[a] = {} /\ UNCHANGED <<snap, journal>>
    BY <1>6 DEF Stop, Acknowledge, Finish, Goto, TypeOK
  <2> QED BY <1>k, <1>t, <2>1 DEF Changed, Snapped, ControlPart
<1>7. ASSUME NEW p \in Plans, StartApply(a, p) PROVE Goal
  BY <1>7 DEF StartApply, Begin, Goto, Snapped, TypeOK
<1>8. ASSUME Commit(a) \/ Cancel(a) PROVE Goal
  BY <1>1, <1>8 DEF Commit, Cancel, Snapped
<1> QED
  BY <1>t, <1>2, <1>3, <1>4, <1>5, <1>6, <1>7, <1>8 DEF Acts, Capture, Apply

\* What an attempt itself does, but for its first step.
LEMMA AttemptActs ==
  ASSUME TypeOK, ControlInv, AttemptInv, NEW a \in Attempts, a \in Processes,
         Acts(a), ~ \E p \in Plans : StartApply(a, p)
  PROVE  AttemptPart(a)'
<1>p. AttemptPart(a) /\ ControlPart(a)
  BY DEF AttemptInv, ControlInv
<1>t. /\ pc[a] \in {"idle", "resources", "writers", "scan", "intent", "await"}
      /\ stage[a] \in {"first", "final"} /\ journal[a] \in {"none", "torn", "intent"}
      /\ a \notin Plans /\ using[a] \in Plans
      /\ Marker \notin Writers /\ Marker \notin Data
  BY NamesAssumption DEF TypeOK
<1>k. /\ UNCHANGED <<now, revision, busy, tableId>>
      /\ \A p \in Plans : Planned(p) => plan'[p] = plan[p]
      /\ \A r \in Data : table'[r] = table[r]
  BY OthersAreKept
<1> USE DEF database, files, memory, history
<1> DEFINE Goes == /\ Planned(using[a])' /\ (TIMEOUT + MARGIN <= Age(using[a]))'
                   /\ Ungated \subseteq trusted'[a]
                   /\ \A w \in Writers : Running(w)' =>
                        \/ {a, using'[a]} \intersect busy'[w].trust # {}
                        \/ w \notin trusted'[a] /\ revision'[w] # 0
<1>g. ASSUME Started(a), using'[a] = using[a], trusted[a] \subseteq trusted'[a],
             \A w \in Writers : w \in trusted'[a] => w \in trusted[a] \/ revision[w] = 0
      PROVE  Goes
  BY <1>g, <1>p, <1>t, <1>k, AttemptGoesOn
<1> HIDE DEF Goes
<1>e. ASSUME Goes, late'[a] = late[a], Undetected(a) => Undetected(a)',
             (pc[a] = "writers" /\ stage[a] = "final" =>
                Marker \in trusted[a] /\ Writers \ unread[a] \subseteq trusted[a])',
             (a \in flight => Writers \union {Marker} \subseteq trusted[a])'
      PROVE  AttemptPart(a)'
  BY <1>e, <1>p, SnapshotActs DEF AttemptPart, Goes
<1>s. ASSUME trusted' = trusted
      PROVE  Undetected(a) => Undetected(a)'
  BY <1>s, <1>k DEF Undetected
<1>1. ASSUME ReadResources(a) PROVE AttemptPart(a)'
  <2>1. /\ pc[a] = "resources" /\ pc'[a] = "writers" /\ tableId = 0
        /\ unread'[a] = Writers
        /\ UNCHANGED <<stage, using, unseen, snap, late, journal, flight>>
    BY <1>1 DEF ReadResources, Goto, TypeOK
  <2>2. trusted'[a] = IF stage[a] = "final" THEN trusted[a] \union {Marker} ELSE trusted[a]
    BY <1>1 DEF ReadResources, Learned, TypeOK
  <2>3. Goes
    BY <1>g, <1>t, <2>1, <2>2 DEF Started
  <2>4. Undetected(a) => Undetected(a)'
    BY <1>t, <1>k, <2>1, <2>2 DEF Undetected
  <2>5. a \in flight' => Writers \union {Marker} \subseteq trusted'[a]
    BY <1>p, <2>1, <2>2 DEF AttemptPart
  <2> QED BY <1>e, <1>p, <2>1, <2>2, <2>3, <2>4, <2>5 DEF AttemptPart
<1>2. ASSUME \/ StartScan(a) \/ OpenJournal(a) \/ WriteIntent(a) \/ Stop(a) \/ Acknowledge(a)
             \/ \E r \in Rows : ReadPage(a, r)
      PROVE  AttemptPart(a)'
  <2>1. /\ pc[a] # "idle" /\ pc'[a] # "writers"
        /\ UNCHANGED <<using, late, flight, trusted>>
    BY <1>2 DEF StartScan, OpenJournal, Classified, WriteIntent, Stop, Acknowledge, Finish,
                ReadPage, Goto, TypeOK
  <2>2. Goes
    BY <1>g, <2>1 DEF Started
  <2> QED BY <1>e, <1>p, <1>s, <2>1, <2>2 DEF AttemptPart
<1>3. ASSUME NEW v \in Writers, ReadWriter(a, v) PROVE AttemptPart(a)'
  <2>1. /\ pc[a] = "writers" /\ pc' = pc /\ revision[v] = 0
        /\ unread'[a] = unread[a] \ {v}
        /\ UNCHANGED <<stage, using, unseen, snap, late, journal, flight>>
    BY <1>3 DEF ReadWriter, Closed, TypeOK
  <2>2. trusted'[a] = IF stage[a] = "final" THEN trusted[a] \union {v} ELSE trusted[a]
    BY <1>3 DEF ReadWriter, Learned, TypeOK
  <2>3. Goes
    BY <1>g, <1>t, <2>1, <2>2 DEF Started
  <2>4. Undetected(a) => Undetected(a)'
    BY <1>t, <1>k, <2>1, <2>2 DEF Undetected
  <2>5. a \in flight' => Writers \union {Marker} \subseteq trusted'[a]
    BY <1>p, <2>1, <2>2 DEF AttemptPart
  <2>6. pc'[a] = "writers" /\ stage'[a] = "final" =>
          Marker \in trusted'[a] /\ Writers \ unread'[a] \subseteq trusted'[a]
    BY <1>p, <2>1, <2>2 DEF AttemptPart
  <2> QED BY <1>e, <1>p, <2>1, <2>2, <2>3, <2>4, <2>5, <2>6 DEF AttemptPart
<1>4. ASSUME Send(a) PROVE AttemptPart(a)'
  <2>1. /\ pc[a] = "writers" /\ stage[a] = "final" /\ unread[a] = {} /\ pc'[a] = "await"
        /\ UNCHANGED <<using, unseen, snap, late, journal, trusted>>
    BY <1>4 DEF Send, Goto, TypeOK
  <2>2. Goes
    BY <1>g, <2>1 DEF Started
  <2>3. Writers \union {Marker} \subseteq trusted'[a]
    BY <1>p, <2>1 DEF AttemptPart
  <2> QED BY <1>e, <1>p, <1>s, <2>1, <2>2, <2>3 DEF AttemptPart
<1>5. ASSUME Commit(a) \/ Cancel(a) PROVE AttemptPart(a)'
  <2>1. UNCHANGED <<memory, trusted, late, plan, journal>> /\ flight' \subseteq flight
    BY <1>5 DEF Commit, Cancel
  <2> QED BY <1>p, <1>k, <2>1, AttemptIsKept DEF Kept
<1> QED
  BY <1>t, <1>1, <1>2, <1>3, <1>4, <1>5 DEF Acts, Capture, Apply

\* What the functions and the people who run them do to an attempt.
LEMMA AttemptIsOvertaken ==
  ASSUME TypeOK, FleetInv, PlanInv, AttemptInv, NEW a \in Attempts, a \in Processes,
         NEW v, (v \in Writers /\ Fleet(v)) \/ Tick \/ Restore
  PROVE  AttemptPart(a)'
<1>p. AttemptPart(a)
  BY DEF AttemptInv
<1>t. /\ now \in Nat /\ TIMEOUT \in Nat /\ MARGIN \in Nat /\ tableId \in Nat
      /\ \A p \in Plans : plan[p].at \in Int
      /\ using[a] \in Plans /\ using[a] \in Processes
      /\ Marker \notin Writers /\ Marker \notin Data
  BY TimesAssumption, NamesAssumption DEF TypeOK, Processes
<1>k. UNCHANGED <<memory, plan, journal, flight, trusted>>
  BY FilesAreKept
<1> USE DEF memory
<1>e. ASSUME Planned(using[a]) => (TIMEOUT + MARGIN <= Age(using[a]))',
             Started(a) => \A w \in Writers : Running(w)' =>
                        \/ {a, using[a]} \intersect busy'[w].trust # {}
                        \/ w \notin trusted[a] /\ revision'[w] # 0,
             Snapped(a) => (Changed(a) \subseteq late[a] \/ Undetected(a))'
      PROVE  AttemptPart(a)'
  <2>1. (Started(a)' <=> Started(a)) /\ (Snapped(a)' <=> Snapped(a))
    BY <1>k DEF Started, Snapped
  <2> QED BY <1>e, <1>p, <1>k, <2>1 DEF AttemptPart, Planned
<1>o. UNCHANGED now /\ (Planned(using[a]) => TIMEOUT + MARGIN <= Age(using[a])) =>
        (Planned(using[a]) => (TIMEOUT + MARGIN <= Age(using[a]))')
  BY <1>k DEF Age
<1>a. Started(a) => TIMEOUT + MARGIN <= Age(using[a])
  BY <1>p DEF AttemptPart
<1>1. CASE UNCHANGED <<now, revision, busy, table, tableId, late>>
  BY <1>1, <1>p, <1>k, AttemptIsKept DEF Kept
<1>i. ASSUME ~ Started(a) PROVE AttemptPart(a)'
  BY <1>i, <1>p, <1>k DEF AttemptPart, Started, Snapped
<1>2. ASSUME Tick, Started(a) PROVE AttemptPart(a)'
  <2>1. now' = now + 1 /\ UNCHANGED <<revision, busy, table, tableId, late>>
    BY <1>2 DEF Tick, fleet, database, history
  <2>2. (TIMEOUT + MARGIN <= Age(using[a]))'
    BY <2>1, <1>2, <1>a, <1>k, <1>t DEF Age
  <2>3. Changed(a)' = Changed(a) /\ (Undetected(a)' <=> Undetected(a))
    BY <2>1, <1>k DEF Changed, Undetected
  <2> QED BY <1>e, <1>p, <2>1, <2>2, <2>3, <1>2 DEF AttemptPart, Running
<1>3. ASSUME v \in Writers, Invoke(v), Started(a) PROVE AttemptPart(a)'
  <2>1. UNCHANGED <<now, revision, table, tableId, late>> /\ v \notin gated
    BY <1>3 DEF Invoke, database, history
  <2>2. /\ busy'[v].trust = {x \in Processes : v \in trusted[x]}
        /\ \A w \in Writers : w # v => busy'[w] = busy[w]
    BY <1>3 DEF Invoke, TypeOK
  <2>3. v \in trusted[a] \/ revision[v] # 0
    BY <1>p, <1>3, <2>1 DEF AttemptPart, FleetInv
  <2>4. v \in trusted[a] => a \in busy'[v].trust
    BY <2>2
  <2>5. Changed(a)' = Changed(a) /\ (Undetected(a)' <=> Undetected(a))
    BY <2>1, <1>k DEF Changed, Undetected
  <2>6. \A w \in Writers : w # v => (Running(w)' <=> Running(w))
    BY <2>2 DEF Running
  <2>7. (TIMEOUT + MARGIN <= Age(using[a]))'
    BY <1>3, <1>a, <2>1, <1>k DEF Age
  <2> QED BY <1>e, <1>p, <1>3, <2>1, <2>2, <2>3, <2>4, <2>5, <2>6, <2>7 DEF AttemptPart
<1>4. ASSUME v \in Writers, Return(v), Started(a) PROVE AttemptPart(a)'
  <2>1. UNCHANGED <<now, revision, table, tableId, late>>
    BY <1>4 DEF Return, database, history
  <2>2. /\ ~ Running(v)'
        /\ \A w \in Writers : w # v => busy'[w] = busy[w] /\ (Running(w)' <=> Running(w))
    BY <1>4 DEF Return, TypeOK, Running
  <2>3. Changed(a)' = Changed(a) /\ (Undetected(a)' <=> Undetected(a))
    BY <2>1, <1>k DEF Changed, Undetected
  <2>4. (TIMEOUT + MARGIN <= Age(using[a]))'
    BY <1>4, <1>a, <2>1, <1>k DEF Age
  <2> QED BY <1>e, <1>p, <1>4, <2>1, <2>2, <2>3, <2>4 DEF AttemptPart
<1>5. ASSUME v \in Writers, Deploy(v), Started(a) PROVE AttemptPart(a)'
  <2>1. UNCHANGED <<now, busy, table, tableId, late>>
    BY <1>5 DEF Deploy, database, history
  <2>2. /\ revision'[v] # 0
        /\ \A w \in Writers : w # v => revision'[w] = revision[w]
    BY <1>5 DEF Deploy, TypeOK
  <2>3. Changed(a)' = Changed(a) /\ (Undetected(a) => Undetected(a)')
    BY <2>1, <2>2, <1>k DEF Changed, Undetected
  <2>4. (TIMEOUT + MARGIN <= Age(using[a]))'
    BY <1>5, <1>a, <2>1, <1>k DEF Age
  <2> QED BY <1>e, <1>p, <1>5, <2>1, <2>2, <2>3, <2>4 DEF AttemptPart, Running
<1>6. ASSUME v \in Writers, NEW r \in Data, WriteRow(v, r), Started(a) PROVE AttemptPart(a)'
  <2>1. UNCHANGED <<now, revision, busy, tableId>> /\ Running(v)
    BY <1>6 DEF WriteRow, fleet, Running
  <2>2. \A q \in Data : q # r => table'[q] = table[q]
    BY <1>6 DEF WriteRow, TypeOK, Snapshot, Rows
  <2>3. /\ late[a] \subseteq late'[a]
        /\ {a, using[a]} \intersect busy[v].trust # {} => r \in late'[a]
    BY <1>6 DEF WriteRow, Slipped, TypeOK
  <2>4. Changed(a)' \subseteq Changed(a) \union {r}
    BY <2>2, <1>k DEF Changed
  <2>5. Undetected(a)' <=> Undetected(a)
    BY <2>1, <1>k DEF Undetected
  <2>6. r \in late'[a] \/ Undetected(a)
    BY <1>p, <1>6, <2>1, <2>3 DEF AttemptPart, Undetected
  <2>7. (TIMEOUT + MARGIN <= Age(using[a]))'
    BY <1>6, <1>a, <2>1, <1>k DEF Age
  <2> QED BY <1>e, <1>p, <1>6, <2>1, <2>3, <2>4, <2>5, <2>6, <2>7 DEF AttemptPart, Running
<1>7. ASSUME Restore, Started(a) PROVE AttemptPart(a)'
  <2>1. PICK copy \in [Data -> Values \union {Absent}] :
          /\ table' = [r \in Rows |-> IF r = Marker THEN Absent ELSE copy[r]]
          /\ Slipped({x \in Processes : Marker \in trusted[x]},
                     {r \in Data : copy[r] # table[r]})
    BY <1>7 DEF Restore
  <2>2. UNCHANGED <<now, revision, busy>> /\ tableId' # 0 /\ \A r \in Data : table'[r] = copy[r]
    BY <1>7, <1>t, <2>1 DEF Restore, fleet, Rows
  <2>3. /\ late[a] \subseteq late'[a]
        /\ Marker \in trusted[a] => {r \in Data : copy[r] # table[r]} \subseteq late'[a]
    BY <2>1 DEF Slipped, TypeOK
  <2>4. Changed(a)' \subseteq Changed(a) \union {r \in Data : copy[r] # table[r]}
    BY <2>2, <1>k DEF Changed
  <2>5. /\ Undetected(a) => Undetected(a)'
        /\ Marker \notin trusted[a] => Undetected(a)'
    BY <2>2, <1>k DEF Undetected
  <2>6. (TIMEOUT + MARGIN <= Age(using[a]))'
    BY <1>7, <1>a, <2>2, <1>k DEF Age
  <2> QED BY <1>e, <1>p, <1>7, <2>2, <2>3, <2>4, <2>5, <2>6 DEF AttemptPart, Running
<1>8. CASE Admit(v) \/ Pause(v)
  BY <1>8, <1>1 DEF Admit, Pause, database, history
<1> QED BY <1>i, <1>2, <1>3, <1>4, <1>5, <1>6, <1>7, <1>8 DEF Fleet

LEMMA AttemptStep == Inv /\ [Next]_vars => AttemptInv'
<1> SUFFICES ASSUME Inv, [Next]_vars, NEW a \in Attempts PROVE AttemptPart(a)'
  BY DEF AttemptInv
<1>t. a \in Processes /\ using[a] \in Plans
  BY DEF Inv, TypeOK, Processes
<1>p. AttemptPart(a)
  BY DEF Inv, AttemptInv
<1>1. ASSUME NEW x \in Processes, Acts(x), x # a PROVE AttemptPart(a)'
  <2>1. Started(a) => Planned(using[a])
    BY <1>p DEF AttemptPart
  <2> QED BY <1>1, <1>t, <1>p, <2>1, OthersAreKept, AttemptIsKept DEF Inv
<1>2. ASSUME Acts(a) PROVE AttemptPart(a)'
  BY <1>2, <1>t, StartedAfterDrain, AttemptActs DEF Inv
<1>3. ASSUME NEW w \in Writers, Fleet(w) PROVE AttemptPart(a)'
  BY <1>3, <1>t, AttemptIsOvertaken DEF Inv
<1>4. ASSUME Tick \/ Restore PROVE AttemptPart(a)'
  BY <1>4, <1>t, AttemptIsOvertaken DEF Inv
<1>5. ASSUME NEW p \in Plans, Approve(p) PROVE AttemptPart(a)'
  BY <1>5, <1>p, AttemptIsKept DEF Approve, Kept, fleet, database, memory, history
<1>6. CASE UNCHANGED vars
  BY <1>6, <1>p, AttemptIsKept DEF vars, Kept, fleet, database, memory, history, files
<1> QED BY <1>1, <1>2, <1>3, <1>4, <1>5, <1>6, Actors

-----------------------------------------------------------------------------
(* What a commit has missed *)

LEMMA CommitMisses ==
  ASSUME TypeOK, ControlInv, NEW a \in Attempts, Commit(a)
  PROVE  /\ missed'[a] = Changed(a) /\ Snapped(a)
         /\ \A r \in missed'[a] : snap[a][r] = Absent
         /\ UNCHANGED <<snap, late, journal, busy>> /\ journal[a] = "intent"
<1>1. /\ missed'[a] = {r \in Data : table[r] # snap[a][r]} /\ Conditions(a)
      /\ UNCHANGED <<snap, late, journal, busy>>
  BY DEF Commit, TypeOK, memory, files, fleet
<1>2. journal[a] = "intent" /\ unseen[a] = {}
  BY DEF Commit, ControlInv, ControlPart
<1> QED BY <1>1, <1>2 DEF Changed, Snapped, Conditions

\* An attempt that has a journal keeps what it read.
LEMMA SnapIsKept ==
  ASSUME TypeOK, ControlInv, NEW a \in Attempts, a \in Processes, Acts(a), ~ Commit(a)
  PROVE  /\ missed'[a] = missed[a]
         /\ journal[a] # "none" => /\ journal'[a] # "none" /\ snap'[a] = snap[a]
                                   /\ late'[a] = late[a]
                                   /\ journal[a] = "intent" => journal'[a] = "intent"
<1>t. ControlPart(a) /\ a \notin Plans
  BY NamesAssumption DEF ControlInv
<1> USE DEF database, files, memory, history
<1>1. ASSUME ReadResources(a) \/ StartScan(a) PROVE UNCHANGED <<missed, journal, late>>
  BY <1>1 DEF ReadResources, StartScan
<1>2. ASSUME NEW w \in Writers, ReadWriter(a, w)
      PROVE  UNCHANGED <<missed, journal, late, snap>>
  BY <1>2 DEF ReadWriter
<1>3. ReadResources(a) => UNCHANGED snap
  BY DEF ReadResources
<1>4. StartScan(a) \/ (\E r \in Rows : ReadPage(a, r)) => journal[a] = "none" /\ missed' = missed
  BY <1>t DEF StartScan, ReadPage, ControlPart, TypeOK
<1>5. (\E p \in Plans : StartApply(a, p)) => journal[a] = "none" /\ missed' = missed
  BY DEF StartApply, Begin
<1>6. OpenJournal(a) => journal[a] = "none" /\ missed' = missed
  BY DEF OpenJournal
<1>7. WriteIntent(a) => journal'[a] = "intent" /\ UNCHANGED <<missed, snap, late>>
  BY DEF WriteIntent, TypeOK
<1>8. Stop(a) \/ Acknowledge(a) \/ Send(a) \/ Cancel(a) =>
        UNCHANGED <<missed, journal, late, snap>>
  BY DEF Stop, Acknowledge, Send, Cancel, Finish
<1> QED
  BY <1>t, <1>1, <1>2, <1>3, <1>4, <1>5, <1>6, <1>7, <1>8 DEF Acts, Capture, Apply

LEMMA LateGrows ==
  ASSUME TypeOK, NEW a \in Attempts, a \in Processes, NEW v, Fleet(v) \/ Tick \/ Restore
  PROVE  late[a] \subseteq late'[a]
<1>1. CASE Invoke(v) \/ Return(v) \/ Admit(v) \/ Pause(v) \/ Deploy(v) \/ Tick
  BY <1>1 DEF Invoke, Return, Admit, Pause, Deploy, Tick, history
<1>2. ASSUME NEW r \in Data, WriteRow(v, r) PROVE late[a] \subseteq late'[a]
  BY <1>2 DEF WriteRow, Slipped, TypeOK
<1>3. CASE Restore
  BY <1>3 DEF Restore, Slipped, TypeOK
<1> QED BY <1>1, <1>2, <1>3 DEF Fleet

LEMMA MissedStep == Inv /\ [Next]_vars => MissedInv'
<1> SUFFICES ASSUME Inv, [Next]_vars, NEW a \in Attempts PROVE MissedPart(a)'
  BY DEF MissedInv
<1>t. a \in Processes /\ MissedPart(a) /\ AttemptPart(a)
  BY DEF Inv, Processes, MissedInv, AttemptInv
<1>1. CASE /\ missed'[a] = missed[a] /\ journal'[a] = journal[a] /\ snap'[a] = snap[a]
           /\ late[a] \subseteq late'[a]
  BY <1>1, <1>t DEF MissedPart
<1>2. ASSUME NEW x \in Processes, Acts(x), x # a PROVE MissedPart(a)'
  BY <1>1, <1>2, <1>t, OthersAreKept DEF Inv, Kept
<1>3. ASSUME Commit(a) PROVE MissedPart(a)'
  <2>1. ~ Undetected(a)
    BY <1>3, <1>t DEF Commit, AttemptPart, Undetected
  <2>2. Changed(a) \subseteq late[a]
    BY <1>3, <1>t, <2>1, CommitMisses DEF Inv, AttemptPart
  <2> QED BY <1>3, <2>2, CommitMisses DEF Inv, MissedPart
<1>4. ASSUME Acts(a), ~ Commit(a) PROVE MissedPart(a)'
  <2>1. CASE missed[a] = {}
    BY <1>4, <1>t, <2>1, SnapIsKept DEF Inv, MissedPart
  <2>2. CASE missed[a] # {}
    BY <1>4, <1>t, <2>2, SnapIsKept DEF Inv, MissedPart
  <2> QED BY <2>1, <2>2
<1>5. ASSUME NEW w, Fleet(w) \/ Tick \/ Restore PROVE MissedPart(a)'
  <2>1. UNCHANGED <<memory, journal, missed>>
    BY <1>5, FilesAreKept
  <2>2. late[a] \subseteq late'[a]
    BY <1>5, <1>t, LateGrows DEF Inv
  <2> QED BY <1>1, <2>1, <2>2 DEF memory
<1>6. ASSUME NEW p \in Plans, Approve(p) PROVE MissedPart(a)'
  BY <1>6, <1>1 DEF Approve, memory, history
<1>7. CASE UNCHANGED vars
  BY <1>7, <1>1 DEF vars, files, memory, history
<1> QED BY <1>2, <1>3, <1>4, <1>5, <1>6, <1>7, Actors

-----------------------------------------------------------------------------
(* The boundary *)

\* A process starts only with a plan, or to make one, and then its stamp is set.
LEMMA ActiveStays ==
  ASSUME TypeOK, NEW x \in Processes, Acts(x)
  PROVE  Active' => Active \/ (x \in Plans /\ StartPlan(x))
<1>1. ASSUME pc[x] # "idle" PROVE Active
  BY <1>1 DEF Active
<1>2. ASSUME NEW w, NEW r,
             \/ ReadResources(x) \/ StartScan(x) \/ ReadWriter(x, w) \/ ReadPage(x, r)
             \/ Stop(x) \/ WritePlan(x) \/ OpenJournal(x) \/ WriteIntent(x) \/ Send(x)
             \/ Acknowledge(x)
      PROVE  Active
  BY <1>1, <1>2 DEF ReadResources, StartScan, ReadWriter, ReadPage, Stop, WritePlan,
                    OpenJournal, Classified, WriteIntent, Send, Acknowledge
<1>3. ASSUME NEW p \in Plans, StartApply(x, p) PROVE Active
  BY <1>3 DEF StartApply, Drained, Active, Planned
<1>4. ASSUME Commit(x) \/ Cancel(x) PROVE Active' = Active
  BY <1>4 DEF Commit, Cancel, memory, files, Active, Planned
<1> QED BY <1>2, <1>3, <1>4 DEF Acts, Capture, Apply, Rows

\* The drain interval: once an attempt has started nothing is left that runs.
LEMMA NothingRuns ==
  ASSUME Inv, boundary, ClosedFirst, NEW a \in Attempts, Started(a), NEW w \in Writers
  PROVE  ~ Running(w)
<1>1. /\ using[a] \in Plans /\ plan[using[a]].at \in Int /\ busy[w].since \in Int
      /\ now \in Nat /\ TIMEOUT \in Nat /\ MARGIN \in Nat /\ MARGIN # 0
      /\ a \in Processes
  BY TimesAssumption, MarginAssumption DEF Inv, TypeOK, Processes
<1>2. Planned(using[a]) /\ TIMEOUT + MARGIN <= now - plan[using[a]].at
  BY DEF Inv, AttemptInv, AttemptPart, Age
<1>3. Running(w) => busy[w].since <= plan[using[a]].at /\ now <= busy[w].since + TIMEOUT
  BY <1>1, <1>2 DEF Inv, BoundaryInv, FleetInv
<1> QED BY <1>1, <1>2, <1>3

LEMMA BoundaryStep == Inv /\ [Next]_vars => BoundaryInv'
<1> SUFFICES ASSUME Inv, [Next]_vars, boundary, ClosedFirst PROVE BoundaryInv'
  BY Actors DEF BoundaryInv
<1>b. /\ Active => admits = {}
      /\ \A p \in Plans, w \in Writers : Running(w) =>
           /\ Planned(p) => busy[w].since <= plan[p].at
           /\ pc[p] # "idle" => busy[w].since <= stamp[p]
      /\ \A a \in Attempts : (Snapped(a) => Changed(a) = {}) /\ missed[a] = {}
  BY DEF Inv, BoundaryInv
<1>o. TypeOK /\ ControlInv
  BY DEF Inv
<1>s. \A a \in Attempts : Snapped(a) => Started(a)
  BY DEF Snapped, Started
<1>a. \A a \in Attempts : Started(a) => Active
  BY DEF Inv, TypeOK, Processes, AttemptInv, AttemptPart, Active
<1>u. Unserialized <=> ~ Active
  BY DEF Unserialized, Active, Planned
<1>1. (Active => admits = {})'
  <2>1. ASSUME NEW x \in Processes, Acts(x) PROVE (Active => admits = {})'
    <3>1. x \in Plans /\ StartPlan(x) => admits = {}
      BY DEF StartPlan
    <3> QED BY <1>b, <1>o, <2>1, <3>1, ActiveStays, OthersAreKept
  <2>2. ASSUME NEW w, Fleet(w) \/ Tick \/ Restore PROVE (Active => admits = {})'
    <3>1. UNCHANGED <<pc, plan>>
      BY <2>2, FilesAreKept DEF memory
    <3>2. admits' \subseteq admits \/ ~ Active
      BY <1>u, <2>2 DEF Fleet, Invoke, Return, Admit, Pause, Deploy, WriteRow, Tick, Restore,
                        fleet
    <3> QED BY <1>b, <3>1, <3>2 DEF Active, Planned
  <2>3. ASSUME NEW p \in Plans, Approve(p) PROVE (Active => admits = {})'
    BY <1>b, <2>3 DEF Approve, Active, Planned, fleet, memory
  <2>4. CASE UNCHANGED vars
    BY <1>b, <2>4 DEF vars, Active, Planned, fleet, memory, files
  <2> QED BY <2>1, <2>2, <2>3, <2>4, Actors
<1>2. ASSUME NEW p \in Plans, NEW w \in Writers, Running(w)'
      PROVE  /\ Planned(p)' => busy'[w].since <= plan'[p].at
             /\ pc'[p] # "idle" => busy'[w].since <= stamp'[p]
  <2> DEFINE Goal == /\ Planned(p)' => busy'[w].since <= plan'[p].at
                     /\ pc'[p] # "idle" => busy'[w].since <= stamp'[p]
  <2>t. p \in Processes /\ p \notin Attempts
    BY NamesAssumption DEF Processes
  <2>1. CASE /\ plan'[p] = plan[p] /\ busy'[w] = busy[w]
             /\ pc'[p] # "idle" => pc[p] # "idle" /\ stamp'[p] = stamp[p]
    BY <1>b, <1>2, <2>1 DEF Planned, Running
  <2>2. ASSUME NEW x \in Processes, Acts(x), x # p PROVE Goal
    BY <1>o, <2>1, <2>2, <2>t, OthersAreKept DEF Kept
  <2>3. ASSUME Acts(p) PROVE Goal
    <3>k. UNCHANGED <<now, busy>> /\ (Planned(p) => plan'[p] = plan[p])
      BY <1>o, <2>3, <2>t, OthersAreKept
    <3>1. ASSUME NEW v, NEW r,
                 ReadResources(p) \/ StartScan(p) \/ ReadWriter(p, v) \/ ReadPage(p, r) \/ Stop(p)
          PROVE  Goal
      <4>1. UNCHANGED plan /\ (pc'[p] # "idle" => pc[p] # "idle" /\ stamp'[p] = stamp[p])
        BY <1>o, <2>t, <3>1 DEF ReadResources, StartScan, ReadWriter, ReadPage, Stop, Finish,
                                Goto, files, TypeOK
      <4> QED BY <2>1, <3>k, <4>1
    <3>2. ASSUME WritePlan(p) PROVE Goal
      <4>1. pc'[p] = "idle" /\ plan'[p].at = stamp[p] /\ pc[p] # "idle"
        BY <1>o, <2>t, <3>2 DEF WritePlan, Classified, Finish, Goto, TypeOK
      <4> QED BY <1>b, <1>2, <3>k, <4>1 DEF Running
    <3>3. ASSUME StartPlan(p) PROVE Goal
      <4>1. stamp'[p] = now /\ ~ Planned(p) /\ plan' = plan
        BY <1>o, <2>t, <3>3 DEF StartPlan, Begin, TypeOK, Planned, files
      <4> QED BY <1>2, <3>k, <4>1 DEF Inv, FleetInv, Running, Planned
    <3> QED BY <2>3, <2>t, <3>1, <3>2, <3>3 DEF Acts, Capture
  <2>4. ASSUME NEW v, (v \in Writers /\ Fleet(v)) \/ Tick \/ Restore PROVE Goal
    <3>1. UNCHANGED <<pc, stamp, plan>>
      BY <2>4, FilesAreKept DEF memory
    <3>2. CASE busy'[w] = busy[w]
      BY <2>1, <3>1, <3>2
    <3>3. CASE v \in Writers /\ Invoke(v)
      <4>1. ~ Active
        BY <1>b, <3>3 DEF Invoke
      <4> QED BY <2>t, <3>1, <4>1 DEF Active, Planned
    <3>4. CASE v \in Writers /\ Return(v)
      <4>1. v # w => busy'[w] = busy[w]
        BY <3>4 DEF Return
      <4>2. ~ Running(v)'
        BY <1>o, <3>4 DEF Return, Running, TypeOK
      <4> QED BY <1>2, <3>2, <4>1, <4>2
    <3> QED BY <2>4, <3>2, <3>3, <3>4
            DEF Fleet, Admit, Pause, Deploy, WriteRow, Tick, Restore, fleet
  <2>5. ASSUME NEW q \in Plans, Approve(q) PROVE Goal
    BY <2>1, <2>5 DEF Approve, memory, fleet
  <2>6. CASE UNCHANGED vars
    BY <2>1, <2>6 DEF vars, memory, fleet, files
  <2> QED BY <2>2, <2>3, <2>4, <2>5, <2>6, Actors
<1>3. ASSUME NEW a \in Attempts PROVE (Snapped(a) => Changed(a) = {})'
  <2>t. a \in Processes
    BY DEF Processes
  <2>1. CASE UNCHANGED <<pc, journal, unseen, snap, table>>
    BY <1>b, <2>1 DEF Snapped, Changed
  <2>2. ASSUME NEW x \in Processes, Acts(x), x # a PROVE (Snapped(a) => Changed(a) = {})'
    BY <1>b, <1>o, <2>2, <2>t, OthersAreKept DEF Kept, Snapped, Changed
  <2>3. ASSUME Acts(a) PROVE (Snapped(a) => Changed(a) = {})'
    BY <1>b, <1>o, <2>3, <2>t, SnapshotActs
  <2>4. ASSUME NEW v, (v \in Writers /\ Fleet(v)) \/ Tick \/ Restore
        PROVE  (Snapped(a) => Changed(a) = {})'
    <3>1. UNCHANGED <<pc, journal, unseen, snap>>
      BY <2>4, FilesAreKept DEF memory
    <3>2. ASSUME NEW r \in Data, v \in Writers, WriteRow(v, r) PROVE ~ Started(a)
      BY <3>2, NothingRuns DEF WriteRow, Running
    <3>3. Restore => ~ Started(a)
      BY <1>a, <1>u DEF Restore
    <3>4. UNCHANGED table \/ ~ Started(a)
      BY <2>4, <3>2, <3>3 DEF Fleet, Invoke, Return, Admit, Pause, Deploy, Tick, database
    <3>5. Snapped(a)' => Snapped(a)
      BY <3>1 DEF Snapped
    <3> QED BY <1>s, <2>1, <3>1, <3>4, <3>5
  <2>5. ASSUME NEW p \in Plans, Approve(p) PROVE (Snapped(a) => Changed(a) = {})'
    BY <2>1, <2>5 DEF Approve, memory, database
  <2>6. CASE UNCHANGED vars
    BY <2>1, <2>6 DEF vars, memory, database, files
  <2> QED BY <2>2, <2>3, <2>4, <2>5, <2>6, Actors
<1>4. ASSUME NEW a \in Attempts PROVE missed'[a] = {}
  <2>t. a \in Processes
    BY DEF Processes
  <2>1. ASSUME NEW x \in Processes, Acts(x), x # a PROVE missed'[a] = {}
    BY <1>b, <1>o, <2>1, OthersAreKept
  <2>2. ASSUME Acts(a) PROVE missed'[a] = {}
    BY <1>b, <1>o, <2>2, <2>t, SnapIsKept, CommitMisses
  <2>3. ASSUME ~ \E x \in Processes : Acts(x) PROVE missed' = missed
    BY <2>3, Actors, FilesAreKept DEF vars, history
  <2> QED BY <1>b, <2>1, <2>2, <2>3
<1> QED BY <1>1, <1>2, <1>3, <1>4 DEF BoundaryInv

-----------------------------------------------------------------------------
(* The theorems *)

LEMMA InvInit == Init => Inv
<1> SUFFICES ASSUME Init PROVE Inv
  OBVIOUS
<1>1. TypeOK
  BY TypeInit
<1>2. /\ \A w \in Writers : Running(w) => busy[w].since = 0
      /\ \A p \in Plans : ~ Planned(p) /\ pc[p] = "idle" /\ stage[p] = "first" /\ using[p] = p
      /\ \A a \in Attempts : /\ pc[a] = "idle" /\ journal[a] = "none" /\ stage[a] = "first"
                             /\ requests[a] = 0 /\ a \notin flight /\ a \notin output
                             /\ missed[a] = {}
      /\ now = 0 /\ gated = Writers \ Ungated
  BY DEF Init, Running, Planned, Processes, Idle
<1>3. FleetInv
  BY <1>2, TimesAssumption DEF FleetInv
<1>4. PlanInv
  BY <1>2 DEF PlanInv, PlanPart
<1>5. ControlInv
  BY <1>2 DEF ControlInv, ControlPart, Init, Processes
<1>6. AttemptInv /\ MissedInv
  BY <1>2 DEF AttemptInv, AttemptPart, MissedInv, MissedPart, Started, Snapped
<1>7. BoundaryInv
  <2>1. ~ Active
    BY <1>2 DEF Active, Init
  <2> QED BY <1>2, <2>1 DEF BoundaryInv, Snapped
<1> QED BY <1>1, <1>3, <1>4, <1>5, <1>6, <1>7 DEF Inv

LEMMA Invariance == Spec => []Inv
<1>1. Inv /\ [Next]_vars => Inv'
  BY TypeStep, FleetStep, PlanStep, ControlStep, AttemptStep, MissedStep, BoundaryStep DEF Inv
<1> QED BY InvInit, <1>1, PTL DEF Spec

\* The variables keep their types, whenever a planner or an apply is killed.
THEOREM BootstrapIsTyped == Spec => []TypeOK
<1>1. Inv => TypeOK
  BY DEF Inv
<1> QED BY <1>1, Invariance, PTL

\* However planners, attempts, functions and operators interleave, and however late
\* a transaction is executed: with the runbook's boundary a committed inventory
\* lacks no row, and without it only rows that no reread could have revealed.
THEOREM MissesAreExcused == Spec => []MissedIsExcused
<1>1. Inv => MissedIsExcused
  BY DEF Inv, BoundaryInv, MissedInv, MissedPart, MissedIsExcused, NothingMissed, OnlyLateMissed
<1> QED BY <1>1, Invariance, PTL

LEMMA BaselineStep ==
  TypeOK /\ [Next]_vars =>
    [table[Marker] # Absent => table'[Marker] \in {table[Marker], Absent}]_vars
<1> SUFFICES ASSUME TypeOK, [Next]_vars, table[Marker] # Absent
             PROVE  table'[Marker] \in {table[Marker], Absent}
  OBVIOUS
<1> USE DEF fleet, database, files, memory, history
<1>1. ASSUME NEW a \in Attempts, Apply(a) PROVE UNCHANGED table
  BY <1>1 DEF Apply, StartApply, Begin, OpenJournal, WriteIntent, Send, Acknowledge,
              Commit, Conditions, Cancel
<1>2. ASSUME NEW x \in Processes, Capture(x) \/ Stop(x) PROVE UNCHANGED table
  BY <1>2 DEF Capture, ReadResources, StartScan, ReadWriter, ReadPage, Stop
<1>3. ASSUME NEW p \in Plans, StartPlan(p) \/ WritePlan(p) \/ Approve(p) PROVE UNCHANGED table
  BY <1>3 DEF StartPlan, Begin, WritePlan, Approve
<1>4. ASSUME NEW w \in Writers, Fleet(w) PROVE UNCHANGED table
  BY <1>4 DEF Fleet, Invoke, Return, Admit, Pause, Deploy, WriteRow
<1>5. CASE Restore
  BY <1>5 DEF Restore, Rows
<1>6. CASE Tick \/ UNCHANGED vars
  BY <1>6 DEF Tick, vars
<1> QED BY <1>1, <1>2, <1>3, <1>4, <1>5, <1>6 DEF Next, Step

\* A baseline is committed once for a table: no attempt replaces another's.
THEOREM BaselineStaysFinal == Spec => BaselineIsFinal
<1> QED BY BaselineStep, BootstrapIsTyped, PTL DEF Spec, BaselineIsFinal

LEMMA OnlySendRequests ==
  ASSUME TypeOK, [Next]_vars, NEW a \in Attempts, requests'[a] # requests[a]
  PROVE  Send(a)
<1> USE DEF files, memory, history
<1>1. ASSUME NEW x \in Processes, Acts(x) PROVE x = a
  BY <1>1, OthersAreKept
<1>2. Capture(a) \/ Stop(a) => UNCHANGED requests
  BY DEF Capture, ReadResources, StartScan, ReadWriter, ReadPage, Stop
<1>3. Apply(a) => UNCHANGED requests \/ Send(a)
  BY DEF Apply, StartApply, Begin, OpenJournal, WriteIntent, Acknowledge, Commit, Cancel
<1>4. Acts(a) => Send(a)
  BY <1>2, <1>3, NamesAssumption DEF Acts
<1>5. \E x \in Processes : Acts(x)
  BY FilesAreKept, Actors DEF vars
<1> QED BY <1>1, <1>4, <1>5

LEMMA DrainStep ==
  Inv /\ ClosedFirst /\ [Next]_vars =>
    [boundary => \A a \in Attempts : requests'[a] # requests[a] =>
       \A w \in Writers : busy[w] = Idle]_vars
<1> SUFFICES ASSUME Inv, ClosedFirst, [Next]_vars, boundary,
                    NEW a \in Attempts, requests'[a] # requests[a], NEW w \in Writers
             PROVE  busy[w] = Idle
  OBVIOUS
<1>1. Send(a)
  BY OnlySendRequests DEF Inv
<1>2. Started(a)
  BY <1>1 DEF Send, Started
<1> QED BY <1>2, NothingRuns DEF Running

\* What the drain interval promises holds if the writers are paused before a plan is
\* begun, which the code leaves to the runbook: no invocation is left when the
\* transaction is sent.
THEOREM PausingFirstDrains == ClosedFirst /\ Spec => DrainedBeforeSend
<1>1. SUFFICES ASSUME ClosedFirst PROVE Spec => DrainedBeforeSend
  OBVIOUS
<1>2. Inv /\ [Next]_vars =>
        [boundary => \A a \in Attempts : requests'[a] # requests[a] =>
           \A w \in Writers : busy[w] = Idle]_vars
  BY <1>1, DrainStep
<1> QED BY <1>2, Invariance, PTL DEF Spec, DrainedBeforeSend

LEMMA PromiseStep == Inv /\ [Next]_vars => [Promise!Next]_(Promise!vars)
<1> SUFFICES ASSUME Inv, [Next]_vars PROVE [Promise!Next]_(Promise!vars)
  OBVIOUS
<1>o. TypeOK /\ ControlInv
  BY DEF Inv
<1>1. ASSUME UNCHANGED <<journal, requests, output>> PROVE UNCHANGED Promise!vars
  BY <1>1 DEF Promise!vars
<1>2. ASSUME NEW a \in Attempts, WriteIntent(a) PROVE Promise!Intend(a)
  <2>1. /\ journal[a] # "intent" /\ journal' = [journal EXCEPT ![a] = "intent"]
        /\ UNCHANGED <<requests, output>>
    BY <1>o, <1>2 DEF WriteIntent, ControlInv, ControlPart, history
  <2> QED BY <1>o, <2>1 DEF Promise!Intend, TypeOK
<1>3. ASSUME NEW a \in Attempts, Send(a) PROVE Promise!Call(a)
  <2>1. /\ journal[a] = "intent" /\ requests[a] = 0
        /\ requests' = [requests EXCEPT ![a] = requests[a] + 1]
        /\ UNCHANGED <<journal, output>>
    BY <1>o, <1>3 DEF Send, files, ControlInv, ControlPart
  <2>2. requests' = [requests EXCEPT ![a] = 1]
    BY <2>1
  <2> QED BY <2>1, <2>2 DEF Promise!Call
<1>4. ASSUME NEW a \in Attempts, Acknowledge(a) PROVE Promise!Settle(a)
  <2>1. /\ journal[a] = "intent" /\ a \notin output
    BY <1>o, <1>4 DEF Acknowledge, ControlInv, ControlPart
  <2>2. output' = output \union {a} /\ UNCHANGED <<journal, requests>>
    BY <1>4 DEF Acknowledge, history
  <2> QED BY <2>1, <2>2 DEF Promise!Settle
<1>5. ASSUME NEW a \in Attempts, OpenJournal(a) PROVE UNCHANGED Promise!vars
  <2>1. /\ journal[a] = "none" /\ journal' = [journal EXCEPT ![a] = "torn"]
        /\ UNCHANGED <<requests, output>>
    BY <1>5 DEF OpenJournal, history
  <2> QED BY <1>o, <2>1 DEF Promise!vars, TypeOK
<1> USE DEF files, memory, history
<1>6. ASSUME NEW a \in Attempts, NEW p, StartApply(a, p) \/ Commit(a) \/ Cancel(a)
      PROVE  UNCHANGED <<journal, requests, output>>
  BY <1>6 DEF StartApply, Begin, Commit, Cancel
<1>7. ASSUME NEW x \in Processes, Capture(x) \/ Stop(x)
      PROVE  UNCHANGED <<journal, requests, output>>
  BY <1>7 DEF Capture, ReadResources, StartScan, ReadWriter, ReadPage, Stop
<1>8. ASSUME NEW p \in Plans, StartPlan(p) \/ WritePlan(p)
      PROVE  UNCHANGED <<journal, requests, output>>
  BY <1>8 DEF StartPlan, Begin, WritePlan
<1>9. ASSUME NEW w, NEW p, Fleet(w) \/ Tick \/ Restore \/ Approve(p)
      PROVE  UNCHANGED <<journal, requests, output>>
  BY <1>9, FilesAreKept
<1>10. ASSUME UNCHANGED vars PROVE UNCHANGED <<journal, requests, output>>
  BY <1>10 DEF vars
<1>11. ASSUME NEW a \in Attempts, Apply(a) PROVE [Promise!Next]_(Promise!vars)
  BY <1>1, <1>2, <1>3, <1>4, <1>5, <1>6, <1>11 DEF Apply, Promise!Next
<1> QED
  BY <1>1, <1>7, <1>8, <1>9, <1>10, <1>11 DEF Next, Step

\* An attempt sends one transaction, under an intent that is durable, and what it
\* acknowledges is never altered.
THEOREM AttemptsAreWriteAhead == Spec => ImplementsWriteAhead
<1>1. Init => Promise!Init
  BY DEF Init, Promise!Init
<1>2. Spec => Promise!Init /\ [][Promise!Next]_(Promise!vars)
  BY <1>1, PromiseStep, Invariance, PTL DEF Spec
<1> QED
  BY <1>2 DEF ImplementsWriteAhead, Promise!Spec
=============================================================================

--------------------------- MODULE WorkFixtureProofs ---------------------------
(***************************************************************************)
(* What holds of WorkFixture for any number of tables, roles, clean-up     *)
(* processes and kills.  Whoever is at work has the journal of the disk in *)
(* its hands, so that what the journal says can be compared with what AWS  *)
(* has or is about to make, resource by resource.                          *)
(***************************************************************************)
EXTENDS WorkFixture, TLAPS

Active(x) == pc[x] \notin {"idle", "done"}
Removing == {"find", "delete", "readback"}
Tried == [Untried EXCEPT !.attempted = TRUE]
Fresh(r) == disk.resources[r] = Untried /\ r \notin made \union inflight /\ creates[r] = 0

\* One process at a time, and only the runner creates.
OneAtWork ==
  /\ \A x, y \in Processes : Active(x) /\ Active(y) => x = y
  /\ \A x \in Processes : pc[x] \in {"begin"} \union Creating => x = Runner

\* It works on what is on disk; before there is a journal there is nothing.
Works(x) == Active(x) /\ pc[x] # "begin" => doc[x] = disk /\ disk.state = "written"
Synced ==
  /\ \A x \in Processes : Works(x)
  /\ pc[Runner] = "begin" => disk.state = "torn"
  /\ disk.state # "written" => ~ disk.complete /\ \A r \in Resources : Fresh(r)

\* The creation goes through the resources in order.
InOrder ==
  /\ pc[Runner] \in Creating => at[Runner] \in Resources /\ ~ disk.complete
  /\ pc[Runner] \in Creating => \A r \in Resources : r > at[Runner] => Fresh(r)
  /\ pc[Runner] = "attempt" => Fresh(at[Runner])
  /\ pc[Runner] \in {"send", "await"} => disk.resources[at[Runner]] = Tried
  /\ pc[Runner] = "send" => at[Runner] \notin made \union inflight /\ creates[at[Runner]] = 0

\* What the journal says of a resource is true of AWS.
Honest(r) ==
  /\ r \in made \union inflight => disk.resources[r].attempted
  /\ disk.resources[r].absent => r \notin made \union inflight
  /\ disk.resources[r].acknowledged => r \notin inflight
  /\ disk.resources[r].rejected => r \notin made \union inflight
Truthful ==
  /\ made \intersect inflight = {} /\ fading \subseteq 1 .. Tables
  /\ \A r \in Resources : Honest(r)

\* A clean-up that has left nothing outstanding has left nothing behind it.
Sees(x) == found[x] => pc[x] \in {"delete", "readback"}
Deletes(x) == pc[x] \in {"delete", "readback"} =>
  /\ found[x] /\ at[x] \in Resources /\ at[x] \notin inflight
  /\ disk.resources[at[x]].attempted
LeavesNothing(x) == pc[x] \in Removing /\ ~ outstanding[x] =>
  \A r \in Resources : r > at[x] => r \notin made \union inflight
Swept ==
  /\ \A x \in Processes : Sees(x) /\ Deletes(x) /\ LeavesNothing(x)
  /\ disk.complete => made \union inflight = {}

Inv == TypeOK /\ OneAtWork /\ Synced /\ InOrder /\ Truthful /\ Swept

-----------------------------------------------------------------------------
LEMMA Counts ==
  /\ Tables \in Nat /\ Roles \in Nat /\ MaxCrashes \in Nat /\ Last \in Nat /\ Tables <= Last
  /\ Last > 0 /\ Runner \in Processes
BY CountsAssumption DEF Last, Processes

LEMMA Documents ==
  /\ Untried \in Status /\ Tried \in Status
  /\ base_journal \in Doc /\ Missing \in Doc /\ Torn \in Doc
  /\ base_journal.state = "written" /\ Missing.state = "missing" /\ Torn.state = "torn"
  /\ ~ base_journal.complete /\ ~ Missing.complete /\ ~ Torn.complete
  /\ \A r \in Resources : /\ base_journal.resources[r] = Untried
                          /\ Missing.resources[r] = Untried /\ Torn.resources[r] = Untried
BY DEF Untried, Tried, Status, base_journal, Missing, Torn, Doc

\* A mark changes one field of one entry.
LEMMA MarkedType ==
  ASSUME NEW d \in Doc, NEW r \in Resources, NEW field \in {"acknowledged", "rejected", "absent"}
  PROVE  /\ Marked(d, r, field) \in Doc
         /\ Marked(d, r, field).state = d.state /\ (Marked(d, r, field).complete <=> d.complete)
         /\ \A s \in Resources \ {r} : Marked(d, r, field).resources[s] = d.resources[s]
         /\ Marked(d, r, field).resources[r].attempted <=> d.resources[r].attempted
         /\ field # "acknowledged" =>
              (Marked(d, r, field).resources[r].acknowledged <=> d.resources[r].acknowledged)
         /\ field # "rejected" => (Marked(d, r, field).resources[r].rejected <=> d.resources[r].rejected)
         /\ field # "absent" => (Marked(d, r, field).resources[r].absent <=> d.resources[r].absent)
         /\ field = "acknowledged" => Marked(d, r, field).resources[r].acknowledged
         /\ field = "rejected" => Marked(d, r, field).resources[r].rejected
BY DEF Marked, Doc, Status

LEMMA MarkedElsewhere ==
  ASSUME NEW d \in Doc, NEW r \in Resources, NEW field, NEW q \in Resources \ {r}
  PROVE  Marked(d, r, field).resources[q] = d.resources[q]
BY DEF Marked, Doc

LEMMA MarkedDocument ==
  ASSUME NEW d \in Doc, NEW r, NEW field
  PROVE  Marked(d, r, field).state = d.state /\ Marked(d, r, field).complete = d.complete
BY DEF Marked, Doc

\* The entry of a resource that is about to be created.
LEMMA AnnouncedType ==
  ASSUME NEW d \in Doc, NEW r \in Resources
  PROVE  LET e == [d EXCEPT !.resources[r] = [Untried EXCEPT !.attempted = TRUE]] IN
         /\ e \in Doc /\ e.state = d.state /\ e.complete = d.complete
         /\ e.resources[r] = Tried
         /\ \A q \in Resources \ {r} : e.resources[q] = d.resources[q]
BY Documents DEF Doc, Tried

\* What a save leaves on disk and in memory.
LEMMA Saving ==
  ASSUME doc \in [Processes -> Doc], NEW x \in Processes, NEW d \in Doc, Save(x, d)
  PROVE  /\ doc' \in [Processes -> Doc] /\ disk' \in Doc
         /\ disk' = d /\ doc'[x] = disk'
         /\ \A y \in Processes \ {x} : doc'[y] = doc[y]
BY DEF Save

\* A mark that is saved, with what it leaves alone.
LEMMA Marking ==
  ASSUME doc \in [Processes -> Doc], disk \in Doc, NEW x \in Processes, NEW r \in Resources,
         NEW field \in {"acknowledged", "rejected", "absent"}, Save(x, Marked(disk, r, field))
  PROVE  /\ doc' \in [Processes -> Doc] /\ disk' \in Doc /\ doc'[x] = disk'
         /\ \A y \in Processes \ {x} : doc'[y] = doc[y]
         /\ disk'.state = disk.state /\ (disk'.complete <=> disk.complete)
         /\ \A q \in Resources \ {r} : disk'.resources[q] = disk.resources[q]
         /\ disk'.resources[r].attempted <=> disk.resources[r].attempted
         /\ field = "acknowledged" => disk'.resources[r].acknowledged
         /\ field = "rejected" => disk'.resources[r].rejected
         /\ field # "acknowledged" => (disk'.resources[r].acknowledged <=> disk.resources[r].acknowledged)
         /\ field # "rejected" => (disk'.resources[r].rejected <=> disk.resources[r].rejected)
         /\ field # "absent" => (disk'.resources[r].absent <=> disk.resources[r].absent)
<1>1. Marked(disk, r, field) \in Doc
  BY MarkedType
<1>2. /\ doc' \in [Processes -> Doc] /\ disk' \in Doc /\ doc'[x] = disk'
      /\ \A y \in Processes \ {x} : doc'[y] = doc[y]
      /\ disk' = Marked(disk, r, field)
  BY <1>1, Saving
<1>3. QED
  <2> DEFINE e == Marked(disk, r, field)
  <2>1. e.state = disk.state /\ (e.complete <=> disk.complete)
    BY MarkedDocument
  <2>9. ASSUME NEW q \in Resources \ {r} PROVE e.resources[q] = disk.resources[q]
    BY MarkedElsewhere
  <2>2. /\ e.resources[r].attempted <=> disk.resources[r].attempted
    BY MarkedType
  <2>3. field # "acknowledged" => (e.resources[r].acknowledged <=> disk.resources[r].acknowledged)
    BY MarkedType
  <2>4. field # "rejected" => (e.resources[r].rejected <=> disk.resources[r].rejected)
    BY MarkedType
  <2>5. field # "absent" => (e.resources[r].absent <=> disk.resources[r].absent)
    BY MarkedType
  <2>8. /\ field = "acknowledged" => e.resources[r].acknowledged
        /\ field = "rejected" => e.resources[r].rejected
    BY MarkedType
  <2> HIDE DEF e
  <2>6. disk' = e
    BY <1>2 DEF e
  <2>7. QED
    BY <1>2, <2>1, <2>2, <2>3, <2>4, <2>5, <2>6, <2>8, <2>9

LEMMA InitInv == Init => Inv
<1> SUFFICES ASSUME Init PROVE Inv
  OBVIOUS
<1>1. TypeOK
  BY Counts, Documents DEF Init, TypeOK, Labels
<1>2. OneAtWork /\ Swept
  BY Documents DEF Init, OneAtWork, Swept, Sees, Deletes, LeavesNothing, Active, Creating,
     Removing
<1>3. Synced
  BY Documents DEF Init, Synced, Works, Active, Fresh, Processes
<1>4. InOrder
  BY DEF Init, InOrder, Creating, Processes
<1>5. Truthful
  BY Documents DEF Init, Truthful, Honest, Untried
<1>6. QED
  BY <1>1, <1>2, <1>3, <1>4, <1>5 DEF Inv

LEMMA OpenStep ==
  ASSUME Inv, OpenJournal PROVE Inv'
<1> USE Counts DEF Inv
<1>1. TypeOK'
  BY Documents DEF OpenJournal, Free, Goto, aws, TypeOK, Resources, Labels, Creating, Processes
<1>2. OneAtWork'
  BY DEF OpenJournal, Free, Goto, aws, OneAtWork, Active, TypeOK, Creating
<1>3. Synced'
  BY Documents DEF OpenJournal, Free, Goto, aws, Resources, TypeOK, OneAtWork, Synced, Works,
     InOrder, Truthful, Honest, Active, Fresh, Creating, Processes
<1>4. InOrder'
  BY DEF OpenJournal, Free, Goto, aws, OneAtWork, InOrder, Active, Fresh, TypeOK, Creating
<1>5. Truthful'
  BY Documents DEF OpenJournal, Free, Goto, aws, Resources, TypeOK, OneAtWork, Synced, Works,
     InOrder, Truthful, Honest, Swept, Sees, Deletes, LeavesNothing, Active, Fresh, Creating,
     Processes
<1>6. Swept'
  BY Documents DEF OpenJournal, Free, Goto, aws, Resources, TypeOK, OneAtWork, Synced, Works,
     InOrder, Truthful, Honest, Swept, Sees, Deletes, LeavesNothing, Active, Fresh, Removing,
     Creating, Processes
<1>7. QED
  BY <1>1, <1>2, <1>3, <1>4, <1>5, <1>6

LEMMA WriteStep ==
  ASSUME Inv, WriteJournal PROVE Inv'
<1> USE Counts DEF Inv
<1>a. pc[Runner] = "begin" /\ disk.state = "torn"
  BY DEF WriteJournal, Synced, Works
<1>b. /\ doc' \in [Processes -> Doc] /\ disk' \in Doc /\ disk' = base_journal /\ doc'[Runner] = disk'
      /\ \A y \in Processes \ {Runner} : doc'[y] = doc[y]
  BY Documents, Saving DEF WriteJournal, TypeOK
<1>c. /\ disk'.state = "written" /\ ~ disk'.complete
      /\ \A r \in Resources : disk'.resources[r] = Untried
  BY <1>b, Documents
<1>d. /\ UNCHANGED <<made, fading, inflight, adopted, creates, crashes, found, outstanding>>
      /\ at' = [at EXCEPT ![Runner] = 1]
      /\ pc' = [pc EXCEPT ![Runner] = "attempt"]
  BY DEF WriteJournal, Goto, aws
<1>o. \A y \in Processes \ {Runner} : pc[y] \in {"idle", "done"} /\ ~ found[y]
  BY <1>a DEF TypeOK, OneAtWork, Active, Swept, Sees, Removing
<1>p. \A y \in Processes \ {Runner} : /\ pc'[y] \in {"idle", "done"} /\ ~ found'[y]
  BY <1>o, <1>d DEF TypeOK
<1>1. TypeOK'
  BY <1>a, <1>b, <1>c, <1>d DEF TypeOK, Resources, Labels, Creating
<1>2. OneAtWork'
  BY <1>a, <1>b, <1>c, <1>d, <1>p DEF TypeOK, OneAtWork, Active, Creating
<1>3. Synced'
  BY <1>a, <1>b, <1>c, <1>d, <1>p DEF TypeOK, Synced, Works, Active, Fresh
<1>4. InOrder'
  <2>1. pc'[Runner] = "attempt" /\ at'[Runner] \in Resources /\ ~ disk'.complete
    BY <1>a, <1>b, <1>c, <1>d DEF TypeOK, Resources
  <2>2. ASSUME NEW r \in Resources, r >= at'[Runner] PROVE Fresh(r)'
    BY <2>2, <1>a, <1>b, <1>c, <1>d DEF TypeOK, Resources, InOrder, Creating, Fresh, Synced
  <2>4. QED
    BY <2>1, <2>2 DEF InOrder, Creating, Resources
<1>5. Truthful'
  BY <1>a, <1>b, <1>c, <1>d DEF TypeOK, Truthful, Honest, Synced, Fresh, Untried
<1>6. Swept'
  <2>1. ASSUME NEW y \in Processes \ {Runner} PROVE (Sees(y) /\ Deletes(y) /\ LeavesNothing(y))'
    BY <2>1, <1>p DEF Sees, Deletes, LeavesNothing, Removing
  <2>2. Sees(Runner)' /\ Deletes(Runner)'
    BY <1>a, <1>b, <1>c, <1>d DEF TypeOK, Swept, Sees, Deletes
  <2>3. LeavesNothing(Runner)'
    BY <1>a, <1>b, <1>c, <1>d DEF TypeOK, Resources, Swept, Deletes, LeavesNothing, Removing
  <2>4. (disk.complete => made \union inflight = {})'
    BY <1>a, <1>b, <1>c, <1>d DEF TypeOK, Swept
  <2>5. QED
    BY <2>1, <2>2, <2>3, <2>4 DEF Swept
<1>7. QED
  BY <1>1, <1>2, <1>3, <1>4, <1>5, <1>6

LEMMA AttemptStep ==
  ASSUME Inv, RecordAttempt PROVE Inv'
<1> USE Counts DEF Inv
<1>a. /\ pc[Runner] = "attempt" /\ at[Runner] \in Resources /\ doc[Runner] = disk /\ disk \in Doc
      /\ disk.state = "written" /\ ~ disk.complete /\ Fresh(at[Runner])
  BY DEF RecordAttempt, TypeOK, InOrder, Synced, Works, Active, Creating
<1>b. LET e == [disk EXCEPT !.resources[at[Runner]] = [Untried EXCEPT !.attempted = TRUE]]
     IN  e \in Doc /\ Save(Runner, e)
  BY <1>a, AnnouncedType DEF RecordAttempt
<1>c. /\ doc' \in [Processes -> Doc] /\ disk' \in Doc /\ doc'[Runner] = disk'
      /\ \A y \in Processes \ {Runner} : doc'[y] = doc[y]
  BY <1>b, Saving DEF TypeOK
<1>d. /\ disk'.state = "written" /\ ~ disk'.complete /\ disk'.resources[at[Runner]] = Tried
      /\ \A q \in Resources \ {at[Runner]} : disk'.resources[q] = disk.resources[q]
  BY <1>a, <1>b, AnnouncedType DEF Save
<1>e. /\ UNCHANGED <<made, fading, inflight, adopted, creates, crashes, at, found, outstanding>>
      /\ pc' = [pc EXCEPT ![Runner] = "send"]
  BY DEF RecordAttempt, Goto, aws
<1>o. \A y \in Processes \ {Runner} : pc[y] \in {"idle", "done"} /\ ~ found[y]
  BY <1>a DEF TypeOK, OneAtWork, Active, Swept, Sees, Removing
<1>p. \A y \in Processes \ {Runner} : /\ pc'[y] \in {"idle", "done"} /\ ~ found'[y]
  BY <1>o, <1>e DEF TypeOK
<1>1. TypeOK'
  BY <1>a, <1>b, <1>c, <1>d, <1>e DEF TypeOK, Resources, Labels, Creating
<1>2. OneAtWork'
  BY <1>a, <1>b, <1>c, <1>d, <1>e, <1>p DEF TypeOK, OneAtWork, Active, Creating
<1>3. Synced'
  BY <1>a, <1>b, <1>c, <1>d, <1>e, <1>p DEF TypeOK, Synced, Works, Active, Fresh
<1>4. InOrder'
  <2>1. pc'[Runner] = "send" /\ at'[Runner] \in Resources /\ ~ disk'.complete
    BY <1>a, <1>b, <1>c, <1>d, <1>e DEF TypeOK, Resources
  <2>2. ASSUME NEW r \in Resources, r > at'[Runner] PROVE Fresh(r)'
    BY <2>2, <1>a, <1>b, <1>c, <1>d, <1>e DEF TypeOK, Resources, InOrder, Creating, Fresh
  <2>3. disk'.resources[at'[Runner]] = Tried /\ at'[Runner] \notin (made \union inflight)' /\ creates'[at'[Runner]] = 0
    BY <1>a, <1>b, <1>c, <1>d, <1>e DEF TypeOK, Fresh
  <2>4. QED
    BY <2>1, <2>2, <2>3 DEF InOrder, Creating, Resources
<1>5. Truthful'
  <2>1. (made \intersect inflight = {} /\ fading \subseteq 1 .. Tables)'
    BY <1>a, <1>b, <1>c, <1>d, <1>e DEF Resources, TypeOK, Truthful, Fresh
  <2>2. ASSUME NEW r \in Resources, r # at[Runner] PROVE Honest(r)'
    BY <2>2, <1>a, <1>b, <1>c, <1>d, <1>e DEF TypeOK, Truthful, Honest
  <2>3. ASSUME NEW r \in Resources, r = at[Runner] PROVE Honest(r)'
    BY <2>3, <1>a, <1>b, <1>c, <1>d, <1>e DEF Truthful, Honest, Fresh, Tried, Untried
  <2>4. QED
    BY <2>1, <2>2, <2>3 DEF Truthful
<1>6. Swept'
  <2>1. ASSUME NEW y \in Processes \ {Runner} PROVE (Sees(y) /\ Deletes(y) /\ LeavesNothing(y))'
    BY <2>1, <1>p DEF Sees, Deletes, LeavesNothing, Removing
  <2>2. Sees(Runner)' /\ Deletes(Runner)'
    BY <1>a, <1>b, <1>c, <1>d, <1>e DEF TypeOK, Swept, Sees, Deletes
  <2>3. LeavesNothing(Runner)'
    BY <1>a, <1>b, <1>c, <1>d, <1>e DEF TypeOK, Resources, Swept, Deletes, LeavesNothing,
       Removing
  <2>4. (disk.complete => made \union inflight = {})'
    BY <1>a, <1>b, <1>c, <1>d, <1>e DEF TypeOK, Swept
  <2>5. QED
    BY <2>1, <2>2, <2>3, <2>4 DEF Swept
<1>7. QED
  BY <1>1, <1>2, <1>3, <1>4, <1>5, <1>6

LEMMA SendStep ==
  ASSUME Inv, SendCreate PROVE Inv'
<1> USE Counts DEF Inv
<1>a. /\ pc[Runner] = "send" /\ at[Runner] \in Resources
      /\ disk.resources[at[Runner]].attempted /\ ~ disk.resources[at[Runner]].absent
      /\ ~ disk.resources[at[Runner]].acknowledged /\ ~ disk.resources[at[Runner]].rejected
      /\ at[Runner] \notin made \union inflight /\ ~ disk.complete
  BY DEF SendCreate, InOrder, Creating, Tried, Untried
<1>b. /\ inflight' = inflight \union {at[Runner]} /\ creates' = [creates EXCEPT ![at[Runner]] = @ + 1]
      /\ pc' = [pc EXCEPT ![Runner] = "await"]
      /\ UNCHANGED <<made, fading, adopted, crashes, disk, at, doc, found, outstanding>>
  BY DEF SendCreate, Goto
<1>o. \A y \in Processes \ {Runner} : pc[y] \in {"idle", "done"} /\ ~ found[y]
  BY <1>a DEF TypeOK, OneAtWork, Active, Swept, Sees, Removing
<1>p. \A y \in Processes \ {Runner} : /\ pc'[y] \in {"idle", "done"} /\ ~ found'[y]
  BY <1>o, <1>b DEF TypeOK
<1>1. TypeOK'
  <2>1. (creates \in [Resources -> Nat] /\ at \in [Processes -> 0 .. Last])'
    BY <1>a, <1>b DEF TypeOK
  <2>2. (pc \in [Processes -> Labels] /\ outstanding \in [Processes -> BOOLEAN])'
    BY <1>a, <1>b DEF TypeOK, Labels, Creating
  <2>3. QED
    BY <2>1, <2>2, <1>a, <1>b DEF TypeOK
<1>2. OneAtWork'
  BY <1>a, <1>b, <1>p DEF TypeOK, OneAtWork, Active, Creating
<1>3. Synced'
  BY <1>a, <1>b, <1>p DEF TypeOK, Synced, Works, Active, Fresh
<1>4. InOrder'
  BY <1>a, <1>b, <1>p DEF TypeOK, Resources, OneAtWork, InOrder, Fresh, Creating
<1>5. Truthful'
  <2>1. (made \intersect inflight = {} /\ fading \subseteq 1 .. Tables)'
    BY <1>a, <1>b DEF Resources, TypeOK, Truthful, Fresh
  <2>2. ASSUME NEW r \in Resources, r # at[Runner] PROVE Honest(r)'
    BY <2>2, <1>a, <1>b DEF TypeOK, Truthful, Honest
  <2>3. ASSUME NEW r \in Resources, r = at[Runner] PROVE Honest(r)'
    BY <2>3, <1>a, <1>b DEF Truthful, Honest, Fresh, Tried, Untried
  <2>4. QED
    BY <2>1, <2>2, <2>3 DEF Truthful
<1>6. Swept'
  <2>1. ASSUME NEW y \in Processes \ {Runner} PROVE (Sees(y) /\ Deletes(y) /\ LeavesNothing(y))'
    BY <2>1, <1>p DEF Sees, Deletes, LeavesNothing, Removing
  <2>2. Sees(Runner)' /\ Deletes(Runner)'
    BY <1>a, <1>b DEF TypeOK, Swept, Sees, Deletes
  <2>3. LeavesNothing(Runner)'
    BY <1>a, <1>b DEF TypeOK, Resources, Swept, Deletes, LeavesNothing, Removing
  <2>4. (disk.complete => made \union inflight = {})'
    BY <1>a, <1>b DEF TypeOK, Swept
  <2>5. QED
    BY <2>1, <2>2, <2>3, <2>4 DEF Swept
<1>7. QED
  BY <1>1, <1>2, <1>3, <1>4, <1>5, <1>6

LEMMA AcknowledgeStep ==
  ASSUME Inv, Acknowledge PROVE Inv'
<1> USE Counts DEF Inv
<1>a. /\ pc[Runner] = "await" /\ at[Runner] \in Resources /\ doc[Runner] = disk /\ disk \in Doc
      /\ disk.state = "written" /\ ~ disk.complete /\ disk.resources[at[Runner]].attempted
      /\ ~ disk.resources[at[Runner]].absent /\ ~ disk.resources[at[Runner]].rejected
      /\ at[Runner] \in made /\ at[Runner] \notin inflight
  BY DEF Acknowledge, TypeOK, InOrder, Synced, Works, Truthful, Honest, Active, Creating,
     Tried, Untried
<1>b. Save(Runner, Marked(disk, at[Runner], "acknowledged"))
  BY <1>a DEF Acknowledge
<1>c. /\ doc' \in [Processes -> Doc] /\ disk' \in Doc /\ doc'[Runner] = disk'
      /\ \A y \in Processes \ {Runner} : doc'[y] = doc[y]
      /\ disk'.state = disk.state /\ (disk'.complete <=> disk.complete)
      /\ \A q \in Resources \ {at[Runner]} : disk'.resources[q] = disk.resources[q]
      /\ (disk'.resources[at[Runner]].attempted <=> disk.resources[at[Runner]].attempted)
      /\ (disk'.resources[at[Runner]].rejected <=> disk.resources[at[Runner]].rejected)
      /\ (disk'.resources[at[Runner]].absent <=> disk.resources[at[Runner]].absent)
  BY <1>a, <1>b, Marking DEF TypeOK
<1>d. /\ UNCHANGED <<made, fading, inflight, adopted, creates, crashes, at, found, outstanding>>
      /\ pc' = [pc EXCEPT ![Runner] = "use"]
  BY DEF Acknowledge, Goto, aws
<1>e. pc' \in [Processes -> Labels]
  BY <1>d DEF TypeOK, Labels, Creating
<1>o. \A y \in Processes \ {Runner} : pc[y] \in {"idle", "done"} /\ ~ found[y]
  BY <1>a DEF TypeOK, OneAtWork, Active, Swept, Sees, Removing
<1>p. \A y \in Processes \ {Runner} : /\ pc'[y] \in {"idle", "done"} /\ ~ found'[y]
  BY <1>o, <1>d DEF TypeOK
<1>1. TypeOK'
  BY <1>c, <1>d, <1>e DEF TypeOK
<1>2. OneAtWork'
  BY <1>a, <1>c, <1>d, <1>p DEF TypeOK, OneAtWork, Active, Creating
<1>3. Synced'
  BY <1>a, <1>c, <1>d, <1>p DEF TypeOK, Synced, Works, Active, Fresh
<1>4. InOrder'
  <2>1. pc'[Runner] = "use" /\ at'[Runner] = at[Runner] /\ ~ disk'.complete
    BY <1>a, <1>c, <1>d DEF TypeOK
  <2>2. ASSUME NEW r \in Resources, r > at[Runner] PROVE Fresh(r)'
    <3>1. r \in Resources \ {at[Runner]} /\ Fresh(r)
      BY <1>a, <2>2 DEF InOrder, Creating, Resources
    <3> QED
      BY <1>c, <1>d, <3>1 DEF Fresh
  <2> QED
    BY <1>a, <2>1, <2>2 DEF InOrder
<1>5. Truthful'
  <2>1. (made \intersect inflight = {} /\ fading \subseteq 1 .. Tables)'
    BY <1>a, <1>c, <1>d DEF Resources, TypeOK, Truthful, Fresh
  <2>2. ASSUME NEW r \in Resources, r # at[Runner] PROVE Honest(r)'
    BY <2>2, <1>a, <1>c, <1>d DEF TypeOK, Truthful, Honest
  <2>3. ASSUME NEW r \in Resources, r = at[Runner] PROVE Honest(r)'
    BY <2>3, <1>a, <1>c, <1>d DEF Truthful, Honest, Fresh, Tried, Untried
  <2>4. QED
    BY <2>1, <2>2, <2>3 DEF Truthful
<1>6. Swept'
  <2>1. ASSUME NEW y \in Processes \ {Runner} PROVE (Sees(y) /\ Deletes(y) /\ LeavesNothing(y))'
    BY <2>1, <1>p DEF Sees, Deletes, LeavesNothing, Removing
  <2>2. Sees(Runner)' /\ Deletes(Runner)'
    BY <1>a, <1>c, <1>d DEF TypeOK, Swept, Sees, Deletes
  <2>3. LeavesNothing(Runner)'
    BY <1>a, <1>c, <1>d DEF TypeOK, Resources, Swept, Deletes, LeavesNothing, Removing
  <2>4. (disk.complete => made \union inflight = {})'
    BY <1>a, <1>c, <1>d DEF TypeOK, Swept
  <2>5. QED
    BY <2>1, <2>2, <2>3, <2>4 DEF Swept
<1>7. QED
  BY <1>1, <1>2, <1>3, <1>4, <1>5, <1>6

LEMMA RejectedStep ==
  ASSUME Inv, Rejected PROVE Inv'
<1> USE Counts DEF Inv
<1>a. /\ pc[Runner] = "await" /\ at[Runner] \in Resources /\ doc[Runner] = disk /\ disk \in Doc
      /\ disk.state = "written" /\ ~ disk.complete /\ disk.resources[at[Runner]].attempted
      /\ ~ disk.resources[at[Runner]].absent /\ ~ disk.resources[at[Runner]].acknowledged
      /\ at[Runner] \in inflight /\ at[Runner] \notin made
  BY DEF Rejected, TypeOK, InOrder, Synced, Works, Truthful, Honest, Active, Creating, Tried,
     Untried
<1>b. Save(Runner, Marked(disk, at[Runner], "rejected"))
  BY <1>a DEF Rejected
<1>c. /\ doc' \in [Processes -> Doc] /\ disk' \in Doc /\ doc'[Runner] = disk'
      /\ \A y \in Processes \ {Runner} : doc'[y] = doc[y]
      /\ disk'.state = disk.state /\ (disk'.complete <=> disk.complete)
      /\ \A q \in Resources \ {at[Runner]} : disk'.resources[q] = disk.resources[q]
      /\ (disk'.resources[at[Runner]].attempted <=> disk.resources[at[Runner]].attempted)
      /\ (disk'.resources[at[Runner]].acknowledged <=> disk.resources[at[Runner]].acknowledged)
      /\ (disk'.resources[at[Runner]].absent <=> disk.resources[at[Runner]].absent)
  BY <1>a, <1>b, Marking DEF TypeOK
<1>d. /\ UNCHANGED <<made, fading, adopted, creates, crashes, found>>
      /\ inflight' = inflight \ {at[Runner]} /\ at' = [at EXCEPT ![Runner] = Last]
      /\ pc' = [pc EXCEPT ![Runner] = "find"] /\ outstanding' = [outstanding EXCEPT ![Runner] = FALSE]
  BY DEF Rejected, CleanUp, Goto
<1>o. \A y \in Processes \ {Runner} : pc[y] \in {"idle", "done"} /\ ~ found[y]
  BY <1>a DEF TypeOK, OneAtWork, Active, Swept, Sees, Removing
<1>p. \A y \in Processes \ {Runner} : /\ pc'[y] \in {"idle", "done"} /\ ~ found'[y]
  BY <1>o, <1>d DEF TypeOK
<1>1. TypeOK'
  <2>1. (creates \in [Resources -> Nat] /\ at \in [Processes -> 0 .. Last])'
    BY <1>a, <1>c, <1>d DEF TypeOK
  <2>2. (pc \in [Processes -> Labels] /\ outstanding \in [Processes -> BOOLEAN])'
    BY <1>a, <1>c, <1>d DEF TypeOK, Labels, Creating
  <2>3. QED
    BY <2>1, <2>2, <1>a, <1>c, <1>d DEF TypeOK
<1>2. OneAtWork'
  BY <1>a, <1>c, <1>d, <1>p DEF TypeOK, OneAtWork, Active, Creating
<1>3. Synced'
  BY <1>a, <1>c, <1>d, <1>p DEF TypeOK, Synced, Works, Active, Fresh
<1>4. InOrder'
  BY <1>a, <1>c, <1>d, <1>p DEF TypeOK, Resources, OneAtWork, InOrder, Fresh, Creating
<1>5. Truthful'
  <2>1. (made \intersect inflight = {} /\ fading \subseteq 1 .. Tables)'
    BY <1>a, <1>c, <1>d DEF Resources, TypeOK, Truthful, Fresh
  <2>2. ASSUME NEW r \in Resources, r # at[Runner] PROVE Honest(r)'
    BY <2>2, <1>a, <1>c, <1>d DEF TypeOK, Truthful, Honest
  <2>3. ASSUME NEW r \in Resources, r = at[Runner] PROVE Honest(r)'
    BY <2>3, <1>a, <1>c, <1>d DEF Truthful, Honest, Fresh, Tried, Untried
  <2>4. QED
    BY <2>1, <2>2, <2>3 DEF Truthful
<1>6. Swept'
  <2>1. ASSUME NEW y \in Processes \ {Runner} PROVE (Sees(y) /\ Deletes(y) /\ LeavesNothing(y))'
    BY <2>1, <1>p DEF Sees, Deletes, LeavesNothing, Removing
  <2>2. Sees(Runner)' /\ Deletes(Runner)'
    BY <1>a, <1>c, <1>d DEF TypeOK, Swept, Sees, Deletes
  <2>3. LeavesNothing(Runner)'
    BY <1>a, <1>c, <1>d DEF TypeOK, Resources, Swept, Deletes, LeavesNothing, Removing
  <2>4. (disk.complete => made \union inflight = {})'
    BY <1>a, <1>c, <1>d DEF TypeOK, Swept
  <2>5. QED
    BY <2>1, <2>2, <2>3, <2>4 DEF Swept
<1>7. QED
  BY <1>1, <1>2, <1>3, <1>4, <1>5, <1>6

LEMMA NextStep ==
  ASSUME Inv, NextResource PROVE Inv'
<1> USE Counts DEF Inv
<1>1. TypeOK'
  BY DEF NextResource, Goto, aws, TypeOK, Labels, Creating, Resources
<1>2. OneAtWork'
  BY DEF NextResource, Goto, aws, OneAtWork, Active, TypeOK, Creating
<1>3. Synced'
  BY DEF NextResource, Goto, aws, OneAtWork, Synced, Works, Active, Fresh, TypeOK
<1>4. InOrder'
  BY Documents DEF NextResource, Goto, aws, Resources, TypeOK, OneAtWork, Synced, Works,
     InOrder, Truthful, Honest, Active, Fresh, Creating, Processes
<1>5. Truthful'
  BY DEF NextResource, Goto, aws, Truthful, Honest, TypeOK
<1>6. Swept'
  BY DEF NextResource, Goto, aws, OneAtWork, Swept, Sees, Deletes, LeavesNothing, Active,
     Removing, TypeOK
<1>7. QED
  BY <1>1, <1>2, <1>3, <1>4, <1>5, <1>6

LEMMA ConcludeStep ==
  ASSUME Inv, Conclude PROVE Inv'
<1> USE Counts DEF Inv
<1>1. TypeOK'
  BY DEF Conclude, CleanUp, Goto, aws, TypeOK, Labels, Creating, Resources
<1>2. OneAtWork'
  BY DEF Conclude, CleanUp, Goto, aws, OneAtWork, Active, TypeOK, Creating
<1>3. Synced'
  BY DEF Conclude, CleanUp, Goto, aws, OneAtWork, Synced, Works, Active, Fresh, TypeOK
<1>4. InOrder'
  BY DEF Conclude, CleanUp, Goto, aws, OneAtWork, InOrder, Active, Fresh, TypeOK, Creating
<1>5. Truthful'
  BY DEF Conclude, CleanUp, Goto, aws, Truthful, Honest, TypeOK
<1>6. Swept'
  BY Documents DEF Conclude, CleanUp, Goto, aws, Resources, TypeOK, OneAtWork, Synced, Works,
     InOrder, Truthful, Honest, Swept, Sees, Deletes, LeavesNothing, Active, Fresh, Removing,
     Creating, Processes
<1>7. QED
  BY <1>1, <1>2, <1>3, <1>4, <1>5, <1>6

LEMMA LoadStep ==
  ASSUME Inv, NEW x \in Processes, Load(x) PROVE Inv'
<1> USE Counts DEF Inv
<1>1. TypeOK'
  BY DEF Load, Free, CleanUp, Goto, aws, TypeOK, Labels, Creating, Resources
<1>2. OneAtWork'
  BY DEF Load, Free, CleanUp, Goto, aws, OneAtWork, Active, TypeOK, Creating
<1>3. Synced'
  BY DEF Load, Free, CleanUp, Goto, aws, OneAtWork, Synced, Works, Active, Fresh, TypeOK
<1>4. InOrder'
  BY DEF Load, Free, CleanUp, Goto, aws, OneAtWork, InOrder, Active, Fresh, TypeOK, Creating
<1>5. Truthful'
  BY DEF Load, Free, CleanUp, Goto, aws, Truthful, Honest, TypeOK
<1>6. Swept'
  BY Documents DEF Load, Free, CleanUp, Goto, aws, Resources, TypeOK, OneAtWork, Synced, Works,
     InOrder, Truthful, Honest, Swept, Sees, Deletes, LeavesNothing, Active, Fresh, Removing,
     Creating, Processes
<1>7. QED
  BY <1>1, <1>2, <1>3, <1>4, <1>5, <1>6

LEMMA SkipStep ==
  ASSUME Inv, NEW x \in Processes, Skip(x) PROVE Inv'
<1> USE Counts DEF Inv
<1>a. /\ pc[x] = "find" /\ at[x] \in Resources /\ ~ disk.resources[at[x]].attempted
      /\ at[x] \notin made \union inflight
  BY DEF Skip, Here, Resources, TypeOK, Synced, Works, Truthful, Honest, Active
<1>b. /\ UNCHANGED <<made, fading, inflight, adopted, creates, crashes, disk, pc, doc, found, outstanding>>
      /\ at' = [at EXCEPT ![x] = @ - 1]
  BY DEF Skip, Step, aws
<1>o. \A y \in Processes \ {x} : pc[y] \in {"idle", "done"} /\ ~ found[y]
  BY <1>a DEF TypeOK, OneAtWork, Active, Swept, Sees, Removing
<1>p. \A y \in Processes \ {x} : /\ pc'[y] \in {"idle", "done"} /\ ~ found'[y]
  BY <1>o, <1>b DEF TypeOK
<1>1. TypeOK'
  BY <1>a, <1>b DEF TypeOK, Resources, Labels, Creating
<1>2. OneAtWork'
  BY <1>a, <1>b, <1>p DEF TypeOK, OneAtWork, Active, Creating
<1>3. Synced'
  BY <1>a, <1>b, <1>p DEF TypeOK, Synced, Works, Active, Fresh
<1>4. InOrder'
  BY <1>a, <1>b, <1>p DEF TypeOK, Resources, OneAtWork, InOrder, Fresh, Creating
<1>5. Truthful'
  BY <1>a, <1>b DEF TypeOK, Truthful, Honest
<1>6. Swept'
  <2>1. ASSUME NEW y \in Processes \ {x} PROVE (Sees(y) /\ Deletes(y) /\ LeavesNothing(y))'
    BY <2>1, <1>p DEF Sees, Deletes, LeavesNothing, Removing
  <2>2. Sees(x)' /\ Deletes(x)'
    BY <1>a, <1>b DEF TypeOK, Swept, Sees, Deletes
  <2>3. LeavesNothing(x)'
    BY <1>a, <1>b DEF TypeOK, Resources, Swept, Deletes, LeavesNothing, Removing
  <2>4. (disk.complete => made \union inflight = {})'
    BY <1>a, <1>b DEF TypeOK, Swept
  <2>5. QED
    BY <2>1, <2>2, <2>3, <2>4 DEF Swept
<1>7. QED
  BY <1>1, <1>2, <1>3, <1>4, <1>5, <1>6

LEMMA FindStep ==
  ASSUME Inv, NEW x \in Processes, Find(x) PROVE Inv'
<1> USE Counts DEF Inv
<1>1. TypeOK'
  BY DEF Find, Here, Goto, aws, TypeOK, Labels, Creating, Resources
<1>2. OneAtWork'
  BY DEF Find, Here, Goto, aws, OneAtWork, Active, TypeOK, Creating
<1>3. Synced'
  BY DEF Find, Here, Goto, aws, OneAtWork, Synced, Works, Active, Fresh, TypeOK
<1>4. InOrder'
  BY DEF Find, Here, Goto, aws, OneAtWork, InOrder, Active, Fresh, TypeOK, Creating
<1>5. Truthful'
  BY DEF Find, Here, Goto, aws, Truthful, Honest, TypeOK
<1>6. Swept'
  BY Documents DEF Find, Here, Goto, aws, Resources, TypeOK, OneAtWork, Synced, Works, InOrder,
     Truthful, Honest, Swept, Sees, Deletes, LeavesNothing, Active, Fresh, Removing, Creating,
     Processes
<1>7. QED
  BY <1>1, <1>2, <1>3, <1>4, <1>5, <1>6

LEMMA LeaveStep ==
  ASSUME Inv, NEW x \in Processes, LeaveForReview(x) PROVE Inv'
<1> USE Counts DEF Inv
<1>a. pc[x] \in Removing /\ at[x] \in Resources /\ doc[x] \in Doc /\ doc[x] = disk
  BY DEF LeaveForReview, TypeOK, Swept, Sees, Deletes, LeavesNothing, Synced, Works, Active,
     Removing
<1>b. /\ UNCHANGED <<made, fading, inflight, adopted, creates, crashes, doc>> /\ disk' = doc[x]
      /\ at' = [at EXCEPT ![x] = @ - 1] /\ found' = [found EXCEPT ![x] = FALSE]
      /\ outstanding' = [outstanding EXCEPT ![x] = TRUE] /\ pc' = [pc EXCEPT ![x] = "find"]
  BY DEF LeaveForReview, Outstanding, Step, Goto, aws
<1>o. \A y \in Processes \ {x} : pc[y] \in {"idle", "done"} /\ ~ found[y]
  BY <1>a DEF TypeOK, OneAtWork, Active, Swept, Sees, Removing
<1>p. \A y \in Processes \ {x} : /\ pc'[y] \in {"idle", "done"} /\ ~ found'[y]
  BY <1>o, <1>b DEF TypeOK
<1>1. TypeOK'
  BY <1>a, <1>b DEF TypeOK, Resources, Labels, Creating
<1>2. OneAtWork'
  BY <1>a, <1>b, <1>p DEF TypeOK, OneAtWork, Active, Creating
<1>3. Synced'
  BY <1>a, <1>b, <1>p DEF TypeOK, Synced, Works, Active, Fresh, Removing
<1>4. InOrder'
  BY <1>a, <1>b, <1>p DEF TypeOK, Resources, OneAtWork, InOrder, Fresh, Creating
<1>5. Truthful'
  BY <1>a, <1>b DEF TypeOK, Truthful, Honest
<1>6. Swept'
  <2>1. ASSUME NEW y \in Processes \ {x} PROVE (Sees(y) /\ Deletes(y) /\ LeavesNothing(y))'
    BY <2>1, <1>p DEF Sees, Deletes, LeavesNothing, Removing
  <2>2. Sees(x)' /\ Deletes(x)'
    BY <1>a, <1>b DEF TypeOK, Swept, Sees, Deletes
  <2>3. LeavesNothing(x)'
    BY <1>a, <1>b DEF TypeOK, Resources, Swept, Deletes, LeavesNothing, Removing
  <2>4. (disk.complete => made \union inflight = {})'
    BY <1>a, <1>b DEF TypeOK, Swept
  <2>5. QED
    BY <2>1, <2>2, <2>3, <2>4 DEF Swept
<1>7. QED
  BY <1>1, <1>2, <1>3, <1>4, <1>5, <1>6

LEMMA ConfirmStep ==
  ASSUME Inv, NEW x \in Processes, Confirm(x) PROVE Inv'
<1> USE Counts DEF Inv
<1>a. /\ pc[x] \in Removing /\ at[x] \in Resources /\ doc[x] = disk /\ disk \in Doc
      /\ disk.state = "written" /\ disk.resources[at[x]].attempted
  <2>1. pc[x] \in Removing /\ at[x] \in 0 .. Last /\ at[x] > 0 /\ Here(x).attempted
    BY DEF Confirm, TypeOK, Removing
  <2>2. doc[x] = disk /\ disk.state = "written" /\ disk \in Doc
    BY <2>1 DEF TypeOK, Synced, Works, Active, Removing
  <2>3. QED
    BY <2>1, <2>2 DEF Here, Resources
<1>b. Save(x, Marked(disk, at[x], "absent"))
  BY <1>a DEF Confirm
<1>c. /\ doc' \in [Processes -> Doc] /\ disk' \in Doc /\ doc'[x] = disk'
      /\ \A y \in Processes \ {x} : doc'[y] = doc[y]
      /\ disk'.state = disk.state /\ (disk'.complete <=> disk.complete)
      /\ \A q \in Resources \ {at[x]} : disk'.resources[q] = disk.resources[q]
      /\ (disk'.resources[at[x]].attempted <=> disk.resources[at[x]].attempted)
      /\ (disk'.resources[at[x]].acknowledged <=> disk.resources[at[x]].acknowledged)
      /\ (disk'.resources[at[x]].rejected <=> disk.resources[at[x]].rejected)
  BY <1>a, <1>b, Marking DEF TypeOK
<1>d. at[x] \notin made \union inflight
  BY <1>a DEF Confirm, Evidence, Here, TypeOK, Truthful, Honest, Swept, Sees, Deletes,
     LeavesNothing
<1>e. /\ UNCHANGED <<made, fading, inflight, adopted, creates, crashes, outstanding>>
      /\ at' = [at EXCEPT ![x] = @ - 1] /\ found' = [found EXCEPT ![x] = FALSE]
      /\ pc' = [pc EXCEPT ![x] = "find"]
  BY DEF Confirm, Step, Goto, aws
<1>o. \A y \in Processes \ {x} : pc[y] \in {"idle", "done"} /\ ~ found[y]
  BY <1>a DEF TypeOK, OneAtWork, Active, Swept, Sees, Removing
<1>p. \A y \in Processes \ {x} : /\ pc'[y] \in {"idle", "done"} /\ ~ found'[y]
  BY <1>o, <1>e DEF TypeOK
<1>f. /\ pc' \in [Processes -> Labels] /\ at' \in [Processes -> 0 .. Last]
      /\ found' \in [Processes -> BOOLEAN]
  <2>1. pc' \in [Processes -> Labels]
    BY <1>e DEF TypeOK, Labels
  <2>2. at[x] - 1 \in 0 .. Last
    BY <1>a DEF Resources
  <2>3. at' \in [Processes -> 0 .. Last] /\ found' \in [Processes -> BOOLEAN]
    BY <1>e, <2>2 DEF TypeOK
  <2> QED
    BY <2>1, <2>3
<1>1. TypeOK'
  BY <1>c, <1>e, <1>f DEF TypeOK
<1>2. OneAtWork'
  BY <1>a, <1>c, <1>d, <1>e, <1>p DEF TypeOK, OneAtWork, Active, Creating
<1>3. Synced'
  BY <1>a, <1>c, <1>d, <1>e, <1>p DEF TypeOK, Synced, Works, Active, Fresh
<1>4. InOrder'
  BY <1>a, <1>c, <1>d, <1>e, <1>p DEF TypeOK, Resources, OneAtWork, InOrder, Fresh, Creating
<1>5. Truthful'
  <2>1. (made \intersect inflight = {} /\ fading \subseteq 1 .. Tables)'
    BY <1>a, <1>c, <1>d, <1>e DEF Resources, TypeOK, Truthful, Fresh
  <2>2. ASSUME NEW r \in Resources, r # at[x] PROVE Honest(r)'
    BY <2>2, <1>a, <1>c, <1>d, <1>e DEF TypeOK, Truthful, Honest
  <2>3. ASSUME NEW r \in Resources, r = at[x] PROVE Honest(r)'
    BY <2>3, <1>a, <1>c, <1>d, <1>e DEF Truthful, Honest, Fresh, Tried, Untried
  <2>4. QED
    BY <2>1, <2>2, <2>3 DEF Truthful
<1>6. Swept'
  <2>1. ASSUME NEW y \in Processes \ {x} PROVE (Sees(y) /\ Deletes(y) /\ LeavesNothing(y))'
    BY <2>1, <1>p DEF Sees, Deletes, LeavesNothing, Removing
  <2>2. Sees(x)' /\ Deletes(x)'
    BY <1>a, <1>c, <1>d, <1>e DEF TypeOK, Swept, Sees, Deletes
  <2>3. LeavesNothing(x)'
    BY <1>a, <1>c, <1>d, <1>e DEF TypeOK, Resources, Swept, Deletes, LeavesNothing, Removing
  <2>4. (disk.complete => made \union inflight = {})'
    BY <1>a, <1>c, <1>d, <1>e DEF TypeOK, Swept
  <2>5. QED
    BY <2>1, <2>2, <2>3, <2>4 DEF Swept
<1>7. QED
  BY <1>1, <1>2, <1>3, <1>4, <1>5, <1>6

LEMMA UnconfirmedStep ==
  ASSUME Inv, NEW x \in Processes, Unconfirmed(x) PROVE Inv'
<1> USE Counts DEF Inv
<1>1. TypeOK'
  <2>1. /\ UNCHANGED <<made, fading, inflight, adopted, creates, crashes, doc>> /\ disk' = doc[x]
        /\ pc' = [pc EXCEPT ![x] = "find"] /\ at' = [at EXCEPT ![x] = @ - 1] /\ at[x] > 0
        /\ found' = [found EXCEPT ![x] = FALSE]
        /\ outstanding' = [outstanding EXCEPT ![x] = TRUE]
    BY DEF Unconfirmed, Outstanding, Step, Goto, aws
  <2>2. pc' \in [Processes -> Labels]
    BY <2>1 DEF TypeOK, Labels
  <2>3. at[x] \in 0 .. Last /\ at[x] - 1 \in 0 .. Last
    BY <2>1 DEF TypeOK
  <2>4. at' \in [Processes -> 0 .. Last]
    BY <2>1, <2>3 DEF TypeOK
  <2>5. found' \in [Processes -> BOOLEAN] /\ outstanding' \in [Processes -> BOOLEAN]
    BY <2>1 DEF TypeOK
  <2>6. disk' \in Doc
    BY <2>1 DEF TypeOK
  <2> QED
    BY <2>1, <2>2, <2>4, <2>5, <2>6 DEF TypeOK
<1>2. OneAtWork'
  BY DEF Unconfirmed, Outstanding, Here, Step, Goto, aws, OneAtWork, Active, TypeOK, Creating
<1>3. Synced'
  BY DEF Unconfirmed, Outstanding, Here, Step, Goto, aws, OneAtWork, Synced, Works, Active,
     Fresh, TypeOK
<1>4. InOrder'
  BY DEF Unconfirmed, Outstanding, Here, Step, Goto, aws, OneAtWork, InOrder, Active, Fresh,
     TypeOK, Creating
<1>5. Truthful'
  BY Documents DEF Unconfirmed, Outstanding, Here, Step, Goto, aws, Resources, TypeOK,
     OneAtWork, Synced, Works, InOrder, Truthful, Honest, Swept, Sees, Deletes, LeavesNothing,
     Active, Fresh, Creating, Processes
<1>6. Swept'
  BY Documents DEF Unconfirmed, Outstanding, Here, Step, Goto, aws, Resources, TypeOK,
     OneAtWork, Synced, Works, InOrder, Truthful, Honest, Swept, Sees, Deletes, LeavesNothing,
     Active, Fresh, Removing, Creating, Processes
<1>7. QED
  BY <1>1, <1>2, <1>3, <1>4, <1>5, <1>6

LEMMA DeleteStep ==
  ASSUME Inv, NEW x \in Processes, Delete(x) PROVE Inv'
<1> USE Counts DEF Inv
<1>a. /\ pc[x] = "delete" /\ at[x] \in Resources /\ at[x] \in made /\ at[x] \notin inflight
      /\ fading \subseteq 1 .. Tables
  BY DEF Delete, TypeOK, Truthful, Honest, Swept, Sees, Deletes, LeavesNothing
<1>b. /\ UNCHANGED <<inflight, adopted, creates, crashes, disk, at, doc, found, outstanding>>
      /\ pc' = [pc EXCEPT ![x] = "readback"]
  BY DEF Delete, Goto
<1>c. \/ at[x] \in 1 .. Tables /\ fading' = fading \union {at[x]} /\ made' = made
      \/ at[x] > Tables /\ made' = made \ {at[x]} /\ fading' = fading /\ at[x] \notin fading
  BY <1>a DEF Delete, TypeOK, Resources
<1>o. \A y \in Processes \ {x} : pc[y] \in {"idle", "done"} /\ ~ found[y]
  BY <1>a DEF TypeOK, OneAtWork, Active, Swept, Sees, Removing
<1>p. \A y \in Processes \ {x} : /\ pc'[y] \in {"idle", "done"} /\ ~ found'[y]
  BY <1>o, <1>b DEF TypeOK
<1>1. TypeOK'
  BY <1>a, <1>b, <1>c DEF TypeOK, Resources, Labels, Creating
<1>2. OneAtWork'
  BY <1>a, <1>b, <1>c, <1>p DEF TypeOK, OneAtWork, Active, Creating
<1>3. Synced'
  BY <1>a, <1>b, <1>c, <1>p DEF TypeOK, Synced, Works, Active, Fresh
<1>4. InOrder'
  BY <1>a, <1>b, <1>c, <1>p DEF TypeOK, Resources, OneAtWork, InOrder, Fresh, Creating
<1>5. Truthful'
  <2>1. (made \intersect inflight = {} /\ fading \subseteq 1 .. Tables)'
    BY <1>a, <1>b, <1>c DEF Resources, TypeOK, Truthful, Fresh
  <2>2. ASSUME NEW r \in Resources, r # at[x] PROVE Honest(r)'
    BY <2>2, <1>a, <1>b, <1>c DEF TypeOK, Truthful, Honest
  <2>3. ASSUME NEW r \in Resources, r = at[x] PROVE Honest(r)'
    BY <2>3, <1>a, <1>b, <1>c DEF Truthful, Honest, Fresh, Tried, Untried
  <2>4. QED
    BY <2>1, <2>2, <2>3 DEF Truthful
<1>6. Swept'
  <2>1. ASSUME NEW y \in Processes \ {x} PROVE (Sees(y) /\ Deletes(y) /\ LeavesNothing(y))'
    BY <2>1, <1>p DEF Sees, Deletes, LeavesNothing, Removing
  <2>2. Sees(x)' /\ Deletes(x)'
    BY <1>a, <1>b, <1>c DEF TypeOK, Swept, Sees, Deletes
  <2>3. LeavesNothing(x)'
    BY <1>a, <1>b, <1>c DEF TypeOK, Resources, Swept, Deletes, LeavesNothing, Removing
  <2>4. (disk.complete => made \union inflight = {})'
    BY <1>a, <1>b, <1>c DEF TypeOK, Swept
  <2>5. QED
    BY <2>1, <2>2, <2>3, <2>4 DEF Swept
<1>7. QED
  BY <1>1, <1>2, <1>3, <1>4, <1>5, <1>6

LEMMA FinishStep ==
  ASSUME Inv, NEW x \in Processes, FinishCleanup(x) PROVE Inv'
<1> USE Counts DEF Inv
<1>a. /\ pc[x] = "find" /\ at[x] = 0 /\ doc[x] = disk /\ disk \in Doc
      /\ disk.state = "written" /\ outstanding[x] \in BOOLEAN
  BY DEF FinishCleanup, TypeOK, Synced, Works, Active
<1>b. /\ \A r \in Resources : r > at[x]
      /\ ~ outstanding[x] => made \union inflight = {}
  BY <1>a DEF Swept, Sees, Deletes, LeavesNothing, TypeOK, Resources, Removing
<1>c. LET e == [disk EXCEPT !.complete = ~ outstanding[x]] IN
      /\ e \in Doc /\ e.state = disk.state /\ e.resources = disk.resources
      /\ e.complete = ~ outstanding[x] /\ Save(x, e)
  BY <1>a DEF FinishCleanup, Doc
<1>d. /\ doc' \in [Processes -> Doc] /\ disk' \in Doc /\ doc'[x] = disk'
      /\ \A y \in Processes \ {x} : doc'[y] = doc[y]
      /\ disk'.state = "written" /\ disk'.resources = disk.resources
      /\ disk'.complete = ~ outstanding[x]
  BY <1>a, <1>c, Saving DEF TypeOK
<1>e. /\ UNCHANGED <<made, fading, inflight, adopted, creates, crashes, at, found, outstanding>>
      /\ pc' = [pc EXCEPT ![x] = "done"]
  BY DEF FinishCleanup, Goto, aws
<1>o. \A y \in Processes \ {x} : pc[y] \in {"idle", "done"} /\ ~ found[y]
  BY <1>a DEF TypeOK, OneAtWork, Active, Swept, Sees, Removing
<1>p. \A y \in Processes \ {x} : /\ pc'[y] \in {"idle", "done"} /\ ~ found'[y]
  BY <1>o, <1>e DEF TypeOK
<1>1. TypeOK'
  BY <1>a, <1>b, <1>c, <1>d, <1>e DEF TypeOK, Resources, Labels, Creating
<1>2. OneAtWork'
  BY <1>a, <1>b, <1>c, <1>d, <1>e, <1>p DEF TypeOK, OneAtWork, Active, Creating
<1>3. Synced'
  BY <1>a, <1>b, <1>c, <1>d, <1>e, <1>p DEF TypeOK, Synced, Works, Active, Fresh
<1>4. InOrder'
  BY <1>a, <1>b, <1>c, <1>d, <1>e, <1>p DEF TypeOK, Resources, OneAtWork, InOrder, Fresh,
     Creating
<1>5. Truthful'
  BY <1>a, <1>b, <1>c, <1>d, <1>e DEF TypeOK, Truthful, Honest, Synced, Fresh, Untried
<1>6. Swept'
  <2>1. ASSUME NEW y \in Processes \ {x} PROVE (Sees(y) /\ Deletes(y) /\ LeavesNothing(y))'
    BY <2>1, <1>p DEF Sees, Deletes, LeavesNothing, Removing
  <2>2. Sees(x)' /\ Deletes(x)'
    BY <1>a, <1>b, <1>c, <1>d, <1>e DEF TypeOK, Swept, Sees, Deletes
  <2>3. LeavesNothing(x)'
    BY <1>a, <1>b, <1>c, <1>d, <1>e DEF TypeOK, Resources, Swept, Deletes, LeavesNothing,
       Removing
  <2>4. (disk.complete => made \union inflight = {})'
    BY <1>a, <1>b, <1>c, <1>d, <1>e DEF TypeOK, Swept
  <2>5. QED
    BY <2>1, <2>2, <2>3, <2>4 DEF Swept
<1>7. QED
  BY <1>1, <1>2, <1>3, <1>4, <1>5, <1>6

LEMMA CrashStep ==
  ASSUME Inv, NEW x \in Processes, Crash(x) PROVE Inv'
<1> USE Counts DEF Inv
<1>1. TypeOK'
  BY DEF Crash, Goto, aws, TypeOK, Labels, Creating, Resources
<1>2. OneAtWork'
  BY DEF Crash, Goto, aws, OneAtWork, Active, TypeOK, Creating
<1>3. Synced'
  BY DEF Crash, Goto, aws, OneAtWork, Synced, Works, Active, Fresh, TypeOK
<1>4. InOrder'
  BY DEF Crash, Goto, aws, OneAtWork, InOrder, Active, Fresh, TypeOK, Creating
<1>5. Truthful'
  BY DEF Crash, Goto, aws, Truthful, Honest, TypeOK
<1>6. Swept'
  BY DEF Crash, Goto, aws, OneAtWork, Swept, Sees, Deletes, LeavesNothing, Active, Removing,
     TypeOK
<1>7. QED
  BY <1>1, <1>2, <1>3, <1>4, <1>5, <1>6

LEMMA ExecuteStep ==
  ASSUME Inv, NEW res \in Resources, ExecuteCreate(res) PROVE Inv'
<1> USE Counts DEF Inv
<1>1. TypeOK'
  BY DEF ExecuteCreate, TypeOK, Labels, Creating, Resources
<1>2. OneAtWork'
  BY DEF ExecuteCreate, OneAtWork, Active, TypeOK, Creating
<1>3. Synced'
  BY DEF ExecuteCreate, OneAtWork, Synced, Works, Active, Fresh, TypeOK
<1>4. InOrder'
  BY DEF ExecuteCreate, OneAtWork, InOrder, Active, Fresh, TypeOK, Creating
<1>5. Truthful'
  BY DEF ExecuteCreate, Truthful, Honest, TypeOK
<1>6. Swept'
  BY DEF ExecuteCreate, OneAtWork, Swept, Sees, Deletes, LeavesNothing, Active, Removing, TypeOK
<1>7. QED
  BY <1>1, <1>2, <1>3, <1>4, <1>5, <1>6

LEMMA LoseStep ==
  ASSUME Inv, NEW res \in Resources, LoseCreate(res) PROVE Inv'
<1> USE Counts DEF Inv
<1>1. TypeOK'
  BY DEF LoseCreate, TypeOK, Labels, Creating, Resources
<1>2. OneAtWork'
  BY DEF LoseCreate, OneAtWork, Active, TypeOK, Creating
<1>3. Synced'
  BY DEF LoseCreate, OneAtWork, Synced, Works, Active, Fresh, TypeOK
<1>4. InOrder'
  BY DEF LoseCreate, OneAtWork, InOrder, Active, Fresh, TypeOK, Creating
<1>5. Truthful'
  BY DEF LoseCreate, Truthful, Honest, TypeOK
<1>6. Swept'
  BY DEF LoseCreate, OneAtWork, Swept, Sees, Deletes, LeavesNothing, Active, Removing, TypeOK
<1>7. QED
  BY <1>1, <1>2, <1>3, <1>4, <1>5, <1>6

LEMMA GoneStep ==
  ASSUME Inv, NEW res \in Resources, FinishDelete(res) PROVE Inv'
<1> USE Counts DEF Inv
<1>1. TypeOK'
  BY DEF FinishDelete, TypeOK, Labels, Creating, Resources
<1>2. OneAtWork'
  BY DEF FinishDelete, OneAtWork, Active, TypeOK, Creating
<1>3. Synced'
  BY DEF FinishDelete, OneAtWork, Synced, Works, Active, Fresh, TypeOK
<1>4. InOrder'
  BY DEF FinishDelete, OneAtWork, InOrder, Active, Fresh, TypeOK, Creating
<1>5. Truthful'
  BY DEF FinishDelete, Truthful, Honest, TypeOK
<1>6. Swept'
  BY DEF FinishDelete, OneAtWork, Swept, Sees, Deletes, LeavesNothing, Active, Removing, TypeOK
<1>7. QED
  BY <1>1, <1>2, <1>3, <1>4, <1>5, <1>6

LEMMA AdoptStep ==
  ASSUME Inv, NEW res \in Resources, Adopt(res) PROVE Inv'
<1> USE Counts DEF Inv
<1>1. TypeOK'
  BY DEF Adopt, TypeOK, Labels, Creating, Resources
<1>2. OneAtWork'
  BY DEF Adopt, OneAtWork, Active, TypeOK, Creating
<1>3. Synced'
  BY DEF Adopt, OneAtWork, Synced, Works, Active, Fresh, TypeOK
<1>4. InOrder'
  BY DEF Adopt, OneAtWork, InOrder, Active, Fresh, TypeOK, Creating
<1>5. Truthful'
  BY DEF Adopt, Truthful, Honest, TypeOK
<1>6. Swept'
  BY DEF Adopt, OneAtWork, Swept, Sees, Deletes, LeavesNothing, Active, Removing, TypeOK
<1>7. QED
  BY <1>1, <1>2, <1>3, <1>4, <1>5, <1>6

LEMMA StutterStep ==
  ASSUME Inv, UNCHANGED vars PROVE Inv'
<1> USE Counts DEF Inv
<1>1. TypeOK'
  BY DEF vars, aws, TypeOK, Labels, Creating, Resources
<1>2. OneAtWork'
  BY DEF vars, aws, OneAtWork, Active, TypeOK, Creating
<1>3. Synced'
  BY DEF vars, aws, OneAtWork, Synced, Works, Active, Fresh, TypeOK
<1>4. InOrder'
  BY DEF vars, aws, OneAtWork, InOrder, Active, Fresh, TypeOK, Creating
<1>5. Truthful'
  BY DEF vars, aws, Truthful, Honest, TypeOK
<1>6. Swept'
  BY DEF vars, aws, OneAtWork, Swept, Sees, Deletes, LeavesNothing, Active, Removing, TypeOK
<1>7. QED
  BY <1>1, <1>2, <1>3, <1>4, <1>5, <1>6

LEMMA InvStep == Inv /\ [Next]_vars => Inv'
<1> SUFFICES ASSUME Inv, [Next]_vars PROVE Inv'
  OBVIOUS
<1>1. CASE OpenJournal
  BY <1>1, OpenStep
<1>2. ASSUME NEW x \in Processes, Progress(x) PROVE Inv'
  <2>1. CASE Create
    BY <2>1, WriteStep, AttemptStep, SendStep, AcknowledgeStep, RejectedStep, NextStep,
       ConcludeStep DEF Create
  <2>2. CASE ~ Create
    BY <1>2, <2>2, SkipStep, FindStep, LeaveStep, ConfirmStep, UnconfirmedStep, DeleteStep,
       FinishStep DEF Progress
  <2>3. QED
    BY <2>1, <2>2
<1>3. ASSUME NEW x \in Processes, Load(x) \/ Crash(x) PROVE Inv'
  BY <1>3, LoadStep, CrashStep
<1>4. ASSUME NEW r \in Resources, Service(r) PROVE Inv'
  BY <1>4, ExecuteStep, LoseStep, GoneStep, AdoptStep DEF Service
<1>5. CASE UNCHANGED vars
  BY <1>5, StutterStep
<1>6. QED
  BY <1>1, <1>2, <1>3, <1>4, <1>5 DEF Next

LEMMA AlwaysInv == Spec => []Inv
BY InitInv, InvStep, PTL DEF Spec

-----------------------------------------------------------------------------
\* The journal is missing, torn or complete at every instant, and the other
\* variables are of their types.
THEOREM FixtureIsTyped == Spec => []TypeOK
<1>1. Inv => TypeOK
  BY DEF Inv
<1>2. QED
  BY <1>1, AlwaysInv, PTL

\* Wherever a run is killed, the journal names what exists or may come to exist.
THEOREM NothingIsForgotten == Spec => []NothingForgotten
<1>1. Inv => NothingForgotten
  BY DEF Inv, TypeOK, Truthful, Honest, NothingForgotten
<1>2. QED
  BY <1>1, AlwaysInv, PTL

\* A journal that says "complete" speaks of an account without the fixture.
THEOREM CompleteIsGone == Spec => []CompleteMeansGone
<1>1. Inv => CompleteMeansGone
  BY DEF Inv, Swept, CompleteMeansGone
<1>2. QED
  BY <1>1, AlwaysInv, PTL

-----------------------------------------------------------------------------
(* The entries of the journal are write-ahead records. *)

Att(r) == disk.resources[r].attempted
Out(r) == IF disk.resources[r].acknowledged THEN "acknowledged"
          ELSE IF disk.resources[r].rejected THEN "rejected" ELSE "unknown"

\* A step that changes neither the calls nor what the journal says of them.
LEMMA PromiseStutters ==
  ASSUME creates' = creates, \A r \in Resources : (Att(r)' <=> Att(r)) /\ Out(r)' = Out(r)
  PROVE  UNCHANGED Promise!vars
<1>1. {r \in Resources : Att(r)'} = {r \in Resources : Att(r)}
  OBVIOUS
<1>2. [r \in Resources |-> Out(r)'] = [r \in Resources |-> Out(r)]
  OBVIOUS
<1>3. QED
  BY <1>1, <1>2 DEF Promise!vars, Att, Out

LEMMA AttemptIntends == Inv /\ RecordAttempt => Promise!Next
<1> SUFFICES ASSUME Inv, RecordAttempt PROVE Promise!Next
  OBVIOUS
<1> USE DEF Inv
<1>1. PICK r \in Resources : /\ r = at[Runner] /\ disk.resources[r] = Untried
                              /\ doc[Runner] = disk /\ disk \in Doc
  BY Counts DEF RecordAttempt, TypeOK, InOrder, Synced, Works, Active, Creating, Fresh
<1>2. /\ disk'.resources[r] = Tried
      /\ \A q \in Resources \ {r} : disk'.resources[q] = disk.resources[q]
  BY <1>1, AnnouncedType DEF RecordAttempt, Save
<1>3. ~ Att(r) /\ Att(r)' /\ Out(r)' = Out(r)
  BY <1>1, <1>2 DEF Att, Out, Tried, Untried
<1>4. \A q \in Resources \ {r} : (Att(q)' <=> Att(q)) /\ Out(q)' = Out(q)
  BY <1>2 DEF Att, Out
<1>5. {s \in Resources : Att(s)'} = {s \in Resources : Att(s)} \union {r}
  BY <1>1, <1>3, <1>4
<1>6. [s \in Resources |-> Out(s)'] = [s \in Resources |-> Out(s)]
  BY <1>1, <1>3, <1>4
<1>7. Promise!Intend(r)
  <2>1. creates' = creates
    BY DEF RecordAttempt
  <2>2. QED
    BY <1>1, <1>3, <1>5, <1>6, <2>1 DEF Promise!Intend, Att, Out
<1>8. QED
  BY <1>1, <1>7 DEF Promise!Next

LEMMA SendCalls == Inv /\ SendCreate => Promise!Next
<1> SUFFICES ASSUME Inv, SendCreate PROVE Promise!Next
  OBVIOUS
<1>1. PICK r \in Resources : r = at[Runner] /\ disk.resources[r] = Tried /\ creates[r] = 0
  BY DEF Inv, SendCreate, InOrder, Creating
<1>2. disk' = disk /\ creates' = [creates EXCEPT ![r] = 1]
  BY <1>1 DEF SendCreate
<1>3. Promise!Call(r)
  BY <1>1, <1>2 DEF Promise!Call, Tried, Untried
<1>4. QED
  BY <1>1, <1>3 DEF Promise!Next

\* An answer is recorded for a creation that had none.
LEMMA AnswerSettles == Inv /\ (Acknowledge \/ Rejected) => Promise!Next
<1> SUFFICES ASSUME Inv, Acknowledge \/ Rejected PROVE Promise!Next
  OBVIOUS
<1> USE DEF Inv
<1>1. PICK r \in Resources : /\ r = at[Runner] /\ disk.resources[r] = Tried
                              /\ doc[Runner] = disk /\ disk \in Doc
  BY Counts DEF Acknowledge, Rejected, TypeOK, InOrder, Synced, Works, Active, Creating
<1>2. PICK field \in {"acknowledged", "rejected"} : Save(Runner, Marked(disk, r, field))
  BY <1>1 DEF Acknowledge, Rejected
<1>3. /\ \A q \in Resources \ {r} : disk'.resources[q] = disk.resources[q]
      /\ disk'.resources[r].attempted <=> disk.resources[r].attempted
      /\ field = "acknowledged" => disk'.resources[r].acknowledged
      /\ field = "rejected" => disk'.resources[r].rejected
  BY <1>1, <1>2, Counts, Marking DEF TypeOK
<1>4. Att(r) /\ Att(r)' /\ Out(r) = "unknown" /\ Out(r)' # "unknown"
  BY <1>1, <1>2, <1>3 DEF Att, Out, Tried, Untried
<1>5. \A q \in Resources \ {r} : (Att(q)' <=> Att(q)) /\ Out(q)' = Out(q)
  BY <1>3 DEF Att, Out
<1>6. {s \in Resources : Att(s)'} = {s \in Resources : Att(s)}
  BY <1>4, <1>5
<1>7. [s \in Resources |-> Out(s)'] =
        [[s \in Resources |-> Out(s)] EXCEPT ![r] = Out(r)']
  BY <1>1, <1>5
<1>8. Promise!Settle(r)
  <2>1. creates' = creates
    BY DEF Acknowledge, Rejected
  <2>2. QED
    BY <1>1, <1>4, <1>6, <1>7, <2>1 DEF Promise!Settle, Att, Out
<1>9. QED
  BY <1>1, <1>8 DEF Promise!Next

\* Clean-up adds nothing to what the journal says of attempts and answers.
LEMMA OthersStutter ==
  ASSUME Inv, [Next]_vars, ~ RecordAttempt, ~ SendCreate, ~ Acknowledge, ~ Rejected
  PROVE  UNCHANGED Promise!vars
<1> USE DEF Inv
<1>1. CASE OpenJournal \/ WriteJournal
  <2>1. creates' = creates /\ disk.state # "written" /\ disk' \in {Torn, base_journal}
    BY <1>1, Documents DEF OpenJournal, WriteJournal, Save, Synced
  <2>2. \A r \in Resources : disk.resources[r] = Untried /\ disk'.resources[r] = Untried
    BY <2>1, Documents DEF Synced, Fresh
  <2>3. QED
    BY <2>1, <2>2, PromiseStutters DEF Att, Out
<1>2. CASE creates' = creates /\ disk' = disk
  BY <1>2, PromiseStutters DEF Att, Out
<1>3. ASSUME NEW x \in Processes, Confirm(x) PROVE UNCHANGED Promise!vars
  <2>1. /\ pc[x] \in Removing /\ at[x] \in 0 .. Last /\ at[x] > 0 /\ creates' = creates
        /\ Save(x, Marked(doc[x], at[x], "absent"))
    BY <1>3 DEF Confirm, TypeOK, Removing
  <2>2. doc[x] = disk /\ disk \in Doc /\ at[x] \in Resources
    <3>1. pc[x] \notin {"idle", "done", "begin"}
      BY <2>1 DEF Removing
    <3>2. QED
      BY <2>1, <3>1 DEF TypeOK, Synced, Works, Active, Resources
  <2>3. Save(x, Marked(disk, at[x], "absent"))
    BY <2>1, <2>2
  <2>4. /\ \A q \in Resources \ {at[x]} : disk'.resources[q] = disk.resources[q]
        /\ disk'.resources[at[x]].attempted <=> disk.resources[at[x]].attempted
        /\ disk'.resources[at[x]].acknowledged <=> disk.resources[at[x]].acknowledged
        /\ disk'.resources[at[x]].rejected <=> disk.resources[at[x]].rejected
    BY <2>2, <2>3, Marking DEF TypeOK
  <2>5. \A r \in Resources : (Att(r)' <=> Att(r)) /\ Out(r)' = Out(r)
    BY <2>4 DEF Att, Out
  <2>6. QED
    BY <2>1, <2>5, PromiseStutters
<1>4. ASSUME NEW x \in Processes, LeaveForReview(x) \/ Unconfirmed(x)
      PROVE  creates' = creates /\ disk' = disk
  BY <1>4 DEF LeaveForReview, Unconfirmed, Outstanding, Synced, Works, Active
<1>5. ASSUME NEW x \in Processes, FinishCleanup(x) PROVE UNCHANGED Promise!vars
  <2>1. creates' = creates /\ doc[x] = disk /\ disk' = [disk EXCEPT !.complete = ~ outstanding[x]]
    BY <1>5 DEF FinishCleanup, Save, Synced, Works, Active
  <2>2. disk'.resources = disk.resources
    BY <2>1 DEF TypeOK, Doc
  <2>3. QED
    BY <2>1, <2>2, PromiseStutters DEF Att, Out
<1>6. ASSUME NEW x \in Processes,
             NextResource \/ Conclude \/ Skip(x) \/ Find(x) \/ Delete(x) \/ Load(x) \/ Crash(x)
      PROVE  creates' = creates /\ disk' = disk
  BY <1>6 DEF NextResource, Conclude, Skip, Find, Delete, Load, Crash
<1>7. ASSUME NEW r \in Resources, Service(r) PROVE creates' = creates /\ disk' = disk
  BY <1>7 DEF Service, ExecuteCreate, LoseCreate, FinishDelete, Adopt
<1>8. CASE UNCHANGED vars
  BY <1>8, <1>2 DEF vars
<1>9. QED
  BY <1>1, <1>2, <1>3, <1>4, <1>5, <1>6, <1>7, <1>8 DEF Next, Progress, Create

\* The entry of a resource is durable before its creation is asked for, which
\* happens once, and an answer is recorded once.
THEOREM EntriesAreWriteAhead == Spec => ImplementsWriteAhead
<1>1. Init => Promise!Init
  BY Documents DEF Init, Promise!Init, Untried
<1>2. Inv /\ [Next]_vars => [Promise!Next]_(Promise!vars)
  BY AttemptIntends, SendCalls, AnswerSettles, OthersStutter
<1>3. Spec => Promise!Init /\ [][Promise!Next]_(Promise!vars)
  BY <1>1, <1>2, AlwaysInv, PTL DEF Spec
<1>4. QED
  BY <1>3 DEF ImplementsWriteAhead, Promise!Spec
=============================================================================

------------------------- MODULE CampaignFixtureProofs -------------------------
(***************************************************************************)
(* What holds of CampaignFixture for every kind of fixture and any number  *)
(* of kills.  The journal that counts is the one of the process while it   *)
(* works, the one on disk when none does; in between, a save in place has  *)
(* only the former.  The invariant compares it with what AWS has or is     *)
(* about to make, and with the places in the two orders.                   *)
(***************************************************************************)
EXTENDS CampaignFixture, FiniteSetTheorems, TLAPS

Existing == made \union inflight
Making == {"attempt", "send", "await"}
Cleaning == {"remove", "wait"}
\* Where the process stands, or will once it has finished writing its journal.
Going == IF pc = "saving" THEN then ELSE pc
Places == 1 .. Len(Creation)
Turns == 1 .. Len(Removal)

\* Who works has the journal of the disk in memory, or is replacing it.
Synced ==
  /\ disk.state = "missing" => disk = Missing /\ pc = "idle"
  /\ disk.state = "torn" => disk = Torn /\ pc \in {"idle", "open", "saving"}
  /\ pc = "open" => disk.state = "torn" /\ doc = Fresh
  /\ pc = "saving" => /\ disk.state = "torn" /\ doc.state = "written" /\ InPlace
                      /\ then \in {"idle", "attempt", "send", "remove"}
  /\ pc \notin {"idle", "open", "saving"} => doc = disk
  /\ pc = "invoke" => ~ InPlace

\* A journal speaks of every pool and key, does not name one that is still to be
\* made, and calls the fixture cleaned only if it is.
Covers(d) ==
  /\ Existing \intersect Unnamed \subseteq d.attempted
  /\ d.known \subseteq d.attempted /\ d.known \intersect inflight = {}
  /\ d.cleaned => Existing \subseteq outlived \ Unnamed

Journalled ==
  /\ disk.state = "written" => Covers(disk)
  /\ pc = "saving" => Covers(doc)
  /\ disk.state # "written" /\ (InPlace => pc = "open" \/ disk.state = "missing") =>
       Existing = {} /\ calls = [x \in {"key", "invocation"} |-> 0]
  /\ made \intersect inflight = {} /\ fading \subseteq Tables \union {"pool"}
  /\ \A r \in Existing : \E i \in Places : Creation[i] = r

\* The creation goes through its order: what comes later is untouched.
InOrder == Going \in Making =>
  /\ at \in 1 .. Len(Creation) + 1 /\ ~ doc.cleaned
  /\ \A i \in Places : i > at \/ (i = at /\ Going # "await") =>
       /\ Creation[i] \notin Existing
       /\ Creation[i] = "key" => calls["key"] = 0
  /\ \A i \in Places : i >= at => Creation[i] \notin doc.known
  /\ \A i \in Places : i > at \/ (i = at /\ Going = "attempt") => Creation[i] \notin doc.attempted
  /\ Going = "attempt" => at \in Places /\ Creation[at] \in Unnamed
  /\ Going = "await" => at \in Places
  /\ Going \in {"send", "await"} /\ at \in Places /\ Creation[at] \in Unnamed =>
       Creation[at] \in doc.attempted

\* The removal goes through its order: what it has passed is gone, or was asked
\* for before and executed afterwards, or is a table whose end is awaited later.
Passed(r) ==
  /\ r \in Unnamed => r \notin Existing
  /\ r \in made /\ ~ (InPlace /\ r \in Tables) => r \in outlived
Swept == Going \in Cleaning =>
  /\ at \in 1 .. Len(Removal) + 1 /\ inflight \subseteq outlived
  /\ \A i \in Turns : i < at => Passed(Removal[i])
  /\ Going = "wait" => at \in Turns /\ Waits /\ (This = "pool" => "pool" \in doc.known)

\* An invocation follows its marker.
Called == ~ InPlace =>
  /\ ~ disk.invoked => calls["invocation"] = 0
  /\ pc = "invoke" => disk.invoked /\ calls["invocation"] = 0

Inv == TypeOK /\ Synced /\ Journalled /\ InOrder /\ Swept /\ Called

-----------------------------------------------------------------------------
LEMMA OneMore ==
  ASSUME NEW S, IsFiniteSet(S), NEW n \in Nat, Cardinality(S) = n, NEW x, x \notin S,
         NEW T, T = S \union {x}
  PROVE  IsFiniteSet(T) /\ Cardinality(T) = n + 1
BY FS_AddElement

LEMMA ResourcesCount == Cardinality(Resources) = 6
<1>1. Resources = {"table1", "table2", "pool", "key", "role", "function"}
  BY DEF Resources, Tables, Unnamed
<1>2. IsFiniteSet({"table1"}) /\ Cardinality({"table1"}) = 1
  BY FS_Singleton
<1>3. /\ IsFiniteSet({"table1", "table2"})
      /\ Cardinality({"table1", "table2"}) = 2
  <2>1. {"table1", "table2"} = {"table1"} \union {"table2"}
    OBVIOUS
  <2>2. "table2" \notin {"table1"}
    OBVIOUS
  <2>3. QED
    BY <1>2, <2>1, <2>2, OneMore
<1>4. /\ IsFiniteSet({"table1", "table2", "pool"})
      /\ Cardinality({"table1", "table2", "pool"}) = 3
  <2>1. {"table1", "table2", "pool"} = {"table1", "table2"} \union {"pool"}
    OBVIOUS
  <2>2. "pool" \notin {"table1", "table2"}
    OBVIOUS
  <2>3. QED
    BY <1>3, <2>1, <2>2, OneMore
<1>5. /\ IsFiniteSet({"table1", "table2", "pool", "key"})
      /\ Cardinality({"table1", "table2", "pool", "key"}) = 4
  <2>1. {"table1", "table2", "pool", "key"} = {"table1", "table2", "pool"} \union {"key"}
    OBVIOUS
  <2>2. "key" \notin {"table1", "table2", "pool"}
    OBVIOUS
  <2>3. QED
    BY <1>4, <2>1, <2>2, OneMore
<1>6. /\ IsFiniteSet({"table1", "table2", "pool", "key", "role"})
      /\ Cardinality({"table1", "table2", "pool", "key", "role"}) = 5
  <2>1. {"table1", "table2", "pool", "key", "role"}
          = {"table1", "table2", "pool", "key"} \union {"role"}
    OBVIOUS
  <2>2. "role" \notin {"table1", "table2", "pool", "key"}
    OBVIOUS
  <2>3. QED
    BY <1>5, <2>1, <2>2, OneMore
<1>7. /\ IsFiniteSet({"table1", "table2", "pool", "key", "role", "function"})
      /\ Cardinality({"table1", "table2", "pool", "key", "role", "function"}) = 6
  <2>1. {"table1", "table2", "pool", "key", "role", "function"}
          = {"table1", "table2", "pool", "key", "role"} \union {"function"}
    OBVIOUS
  <2>2. "function" \notin {"table1", "table2", "pool", "key", "role"}
    OBVIOUS
  <2>3. QED
    BY <1>6, <2>1, <2>2, OneMore
<1>8. QED
  BY <1>1, <1>7

\* What the proofs use of the two orders, whichever fixture it is.
LEMMA Orders ==
  ASSUME fixture \in Fixtures
  PROVE  /\ Len(Creation) \in 3 .. 6 /\ Len(Removal) \in 3 .. 6
         /\ \A i \in Places : Creation[i] \in Resources
         /\ \A i, j \in Places : Creation[i] = Creation[j] => i = j
         /\ \A i \in Turns : Removal[i] \in Resources
         /\ \A i \in Places : \E j \in Turns : Removal[j] = Creation[i]
         /\ \A i \in Turns : Removal[i] = "pool" => InPlace
<1>1. fixture \in {"completion", "identity", "retirement", "lifecycle"}
  BY FixturesAssumption
<1> USE DEF Creation, Removal, Places, Turns, InPlace, Resources, Tables, Unnamed
<1>2. CASE fixture = "completion"
  BY <1>2
<1>3. CASE fixture = "identity"
  BY <1>3
<1>4. CASE fixture \in {"retirement", "lifecycle"}
  BY <1>4
<1>5. QED
  BY <1>1, <1>2, <1>3, <1>4

LEMMA Stays ==
  ASSUME UNCHANGED fixture
  PROVE  /\ Creation' = Creation /\ Removal' = Removal /\ InPlace' = InPlace
         /\ Places' = Places /\ Turns' = Turns
BY DEF Creation, Removal, InPlace, Places, Turns

LEMMA Documents ==
  /\ Fresh \in Doc /\ Missing \in Doc /\ Torn \in Doc
  /\ Fresh.state = "written" /\ Missing.state = "missing" /\ Torn.state = "torn"
  /\ ~ Fresh.cleaned /\ ~ Fresh.invoked /\ ~ Missing.invoked /\ ~ Torn.invoked
  /\ Fresh.attempted = {} /\ Fresh.known = {}
  /\ Missing.attempted = {} /\ Missing.known = {} /\ Torn.attempted = {} /\ Torn.known = {}
BY DEF Fresh, Missing, Torn, Doc

LEMMA InitInv == Init => Inv
<1> SUFFICES ASSUME Init PROVE Inv
  OBVIOUS
<1>1. TypeOK
  <2>1. at \in 1 .. Cardinality(Resources) + 1 /\ troubles \in 0 .. MaxTroubles
    BY ResourcesCount, BoundsAssumption DEF Init
  <2>2. QED
    BY <2>1, Documents DEF Init, TypeOK, Labels
<1>2. Synced /\ InOrder /\ Swept
  BY Documents DEF Init, Synced, InOrder, Swept, Going, Making, Cleaning
<1>3. Journalled /\ Called
  BY Documents DEF Init, Journalled, Called, Existing
<1>4. QED
  BY <1>1, <1>2, <1>3 DEF Inv

\* A save, in whatever way it is made, leaves a journal that covers what there is.
LEMMA SaveStep ==
  ASSUME Inv, NEW d \in Doc, NEW next \in {"idle", "attempt", "send", "remove", "invoke"},
         Save(d, next), d.state = "written", Covers(d), next = "invoke" => ~ InPlace,
         disk.state = "written", at' \in 1 .. 7,
         UNCHANGED <<fixture, aws, calls, outlived, troubles>>
  PROVE  TypeOK' /\ Synced' /\ Journalled' /\ Going' = next /\ doc' = d
<1> USE DEF Inv
<1>1. doc' = d /\ UNCHANGED <<fixture, made, fading, inflight, adopted, calls, outlived,
                              troubles>>
  BY DEF Save, aws
<1>2. \/ InPlace /\ disk' = Torn /\ then' = next /\ pc' = "saving"
      \/ ~ InPlace /\ disk' = d /\ then' = then /\ pc' = next
  BY DEF Save
<1>3. Going' = next
  BY <1>2 DEF Going
<1>4. TypeOK'
  BY <1>1, <1>2, Documents, ResourcesCount DEF TypeOK, Labels
<1>5. Synced'
  BY <1>1, <1>2, Documents, Stays DEF Synced, TypeOK
<1>6. Journalled'
  <2>1. Existing' = Existing /\ Creation' = Creation /\ Places' = Places /\ InPlace' = InPlace
    BY <1>1, Stays DEF Existing
  <2>2. Covers(d)' = Covers(d)
    BY <1>1, <2>1 DEF Covers
  <2>3. QED
    BY <1>1, <1>2, <2>1, <2>2, Documents DEF Journalled, Covers
<1>7. QED
  BY <1>1, <1>3, <1>4, <1>5, <1>6

\* A process that works, and does not write, has the journal that is on disk.
LEMMA AtWork ==
  ASSUME Inv, pc \notin {"idle", "open", "saving"}
  PROVE  doc = disk /\ disk.state = "written" /\ disk \in Doc /\ Going = pc /\ at \in 1 .. 7
<1>1. disk \in Doc /\ disk.state \in {"missing", "torn", "written"} /\ at \in 1 .. 7
  BY ResourcesCount DEF Inv, TypeOK, Doc
<1>2. QED
  BY <1>1 DEF Inv, Synced, Going

-----------------------------------------------------------------------------
(* The steps of prepare and run *)

LEMMA OpenStep == Inv /\ OpenJournal => Inv'
<1> SUFFICES ASSUME Inv, OpenJournal PROVE Inv'
  OBVIOUS
<1> USE Documents, Stays DEF Inv, OpenJournal, aws
<1>1. TypeOK'
  BY DEF TypeOK, Labels
<1>2. Synced' /\ InOrder' /\ Swept' /\ Called'
  BY DEF TypeOK, Synced, InOrder, Swept, Going, Making, Cleaning, Called, Journalled
<1>3. Journalled'
  BY DEF Journalled, Synced, Existing
<1>4. QED
  BY <1>1, <1>2, <1>3

LEMMA WriteStep == Inv /\ WriteJournal => Inv'
<1> SUFFICES ASSUME Inv, WriteJournal PROVE Inv'
  OBVIOUS
<1> USE Documents, Stays, Orders DEF Inv
<1>1. /\ pc = "open" /\ doc = Fresh /\ disk' = Fresh /\ doc' = Fresh /\ at' = 1 /\ pc' = Asking(1)
      /\ UNCHANGED <<fixture, made, fading, inflight, adopted, then, calls, outlived, troubles>>
      /\ Existing = {} /\ Existing' = {} /\ calls = [x \in {"key", "invocation"} |-> 0]
  BY DEF WriteJournal, aws, Synced, Journalled, Existing
<1>2. pc' \in {"attempt", "send"} /\ (pc' = "attempt" => Creation[1] \in Unnamed)
      /\ (pc' = "send" => Creation[1] \notin Unnamed) /\ 1 \in Places /\ Going' = pc'
  BY <1>1 DEF Asking, TypeOK, Going, Places
<1>3. TypeOK'
  BY <1>1, <1>2, ResourcesCount DEF TypeOK, Labels
<1>4. Synced' /\ Called'
  BY <1>1, <1>2 DEF Synced, Called
<1>5. Journalled'
  BY <1>1, <1>2 DEF Journalled, Covers, Existing
<1>6. InOrder'
  BY <1>1, <1>2 DEF TypeOK, InOrder, Making
<1>7. Swept'
  BY <1>2 DEF Swept, Cleaning
<1>8. QED
  BY <1>3, <1>4, <1>5, <1>6, <1>7

LEMMA WrittenStep == Inv /\ Written => Inv'
<1> SUFFICES ASSUME Inv, Written PROVE Inv'
  OBVIOUS
<1> USE Documents, Stays DEF Inv
<1>1. /\ pc = "saving" /\ disk' = doc /\ pc' = then /\ doc.state = "written" /\ InPlace
      /\ then \in {"idle", "attempt", "send", "remove"}
      /\ UNCHANGED <<fixture, made, fading, inflight, adopted, doc, at, then, calls,
                     outlived, troubles>>
  BY DEF Written, aws, Synced
<1>2. Going' = Going /\ Existing' = Existing /\ This' = This
  BY <1>1 DEF Going, Existing, This
<1>3. TypeOK'
  BY <1>1 DEF TypeOK, Labels
<1>4. Synced' /\ Called'
  BY <1>1 DEF Synced, Called
<1>5. Journalled'
  BY <1>1, <1>2 DEF Journalled, Covers
<1>6. InOrder'
  BY <1>1, <1>2 DEF InOrder, Making
<1>7. Swept'
  BY <1>1, <1>2 DEF Swept, Cleaning, Passed, Going
<1>8. QED
  BY <1>3, <1>4, <1>5, <1>6, <1>7

LEMMA AttemptStep == Inv /\ RecordAttempt => Inv'
<1> SUFFICES ASSUME Inv, RecordAttempt PROVE Inv'
  OBVIOUS
<1> USE Stays, Orders DEF Inv
<1>1. /\ pc = "attempt" /\ doc = disk /\ disk.state = "written" /\ Going = "attempt"
      /\ UNCHANGED <<fixture, made, fading, inflight, adopted, at, calls, outlived, troubles>>
      /\ at \in Places /\ Creation[at] \in Unnamed /\ at \in 1 .. 7 /\ ~ disk.cleaned
  <2>1. pc = "attempt"
    BY DEF RecordAttempt
  <2>2. QED
    BY <2>1, AtWork DEF RecordAttempt, aws, InOrder, Making
<1> DEFINE d == [doc EXCEPT !.attempted = @ \union {Here}]
<1>2. /\ d \in Doc /\ d.state = "written" /\ d.attempted = disk.attempted \union {Creation[at]}
      /\ d.known = disk.known /\ d.cleaned = disk.cleaned /\ d.invoked = disk.invoked
  BY <1>1 DEF TypeOK, Doc, Here
<1>3. Save(d, "send")
  BY DEF RecordAttempt
<1> HIDE DEF d
<1>4. Covers(d)
  BY <1>1, <1>2 DEF Journalled, Covers
<1>5. TypeOK' /\ Synced' /\ Journalled' /\ Going' = "send" /\ doc' = d
  BY <1>1, <1>2, <1>3, <1>4, SaveStep DEF aws
<1>6. InOrder'
  <2>1. Existing' = Existing
    BY <1>1 DEF Existing
  <2>2. QED
    BY <1>1, <1>2, <1>5, <2>1 DEF InOrder, Making, TypeOK, Places
<1>7. Swept' /\ Called'
  BY <1>1, <1>2, <1>3, <1>5 DEF Swept, Cleaning, Called, Save
<1>8. QED
  BY <1>5, <1>6, <1>7

LEMMA SendStep == Inv /\ SendCreate => Inv'
<1> SUFFICES ASSUME Inv, SendCreate PROVE Inv'
  OBVIOUS
<1> USE Stays, Orders DEF Inv
<1>1. /\ pc = "send" /\ at \in Places /\ doc = disk /\ disk.state = "written"
      /\ inflight' = inflight \union {Creation[at]} /\ pc' = "await"
      /\ calls' = [calls EXCEPT !["key"] = IF Creation[at] = "key" THEN @ + 1 ELSE @]
      /\ UNCHANGED <<fixture, made, fading, adopted, disk, doc, at, then, outlived, troubles>>
      /\ Going = "send" /\ Going' = "await"
  <2>1. pc = "send" /\ at <= Len(Creation)
    BY DEF SendCreate
  <2>2. QED
    BY <2>1, AtWork DEF SendCreate, Here, Going, Places, TypeOK
<1>2. /\ ~ disk.cleaned /\ Creation[at] \notin Existing /\ Creation[at] \notin disk.known
      /\ Creation[at] \in Unnamed => Creation[at] \in disk.attempted
      /\ Creation[at] \in Resources
  BY <1>1 DEF InOrder, Making, TypeOK, Places
<1>3. Existing' = Existing \union {Creation[at]}
  BY <1>1 DEF Existing
<1>4. TypeOK'
  BY <1>1, <1>2, <1>3 DEF TypeOK, Labels
<1>5. Synced'
  BY <1>1 DEF Synced
<1>6. Journalled'
  BY <1>1, <1>2, <1>3 DEF Journalled, Covers, Existing
<1>7. InOrder'
  BY <1>1, <1>2, <1>3 DEF InOrder, Making, TypeOK, Places
<1>8. Swept' /\ Called'
  BY <1>1 DEF Swept, Cleaning, Called, TypeOK
<1>9. QED
  BY <1>4, <1>5, <1>6, <1>7, <1>8

LEMMA CreatedStep == Inv /\ Created => Inv'
<1> SUFFICES ASSUME Inv, Created PROVE Inv'
  OBVIOUS
<1> USE Stays, Orders DEF Inv
<1>1. /\ pc = "await" /\ doc = disk /\ disk.state = "written" /\ Going = "await"
      /\ UNCHANGED <<fixture, made, fading, inflight, adopted, calls, outlived, troubles>>
      /\ at' = at + 1 /\ at \in Places /\ at + 1 \in 1 .. 7 /\ ~ disk.cleaned
      /\ Creation[at] \in made
  <2>1. pc = "await"
    BY DEF Created
  <2>2. at \in Places /\ ~ disk.cleaned
    BY <2>1, AtWork DEF InOrder, Making
  <2>3. at + 1 \in 1 .. 7
    BY <2>2 DEF TypeOK, Places
  <2>4. doc = disk /\ disk.state = "written" /\ Going = "await"
    BY <2>1, AtWork
  <2>5. at' = at + 1 /\ Creation[at] \in made
      /\ UNCHANGED <<fixture, made, fading, inflight, adopted, calls, outlived, troubles>>
    BY DEF Created, aws, Here
  <2>6. QED
    BY <2>1, <2>2, <2>3, <2>4, <2>5
<1> DEFINE d == [doc EXCEPT !.known = @ \union ({Here} \intersect Unnamed)]
<1>2. /\ d \in Doc /\ d.state = "written" /\ d.attempted = disk.attempted
      /\ d.known = disk.known \union ({Creation[at]} \intersect Unnamed)
      /\ d.cleaned = disk.cleaned /\ d.invoked = disk.invoked
  BY <1>1 DEF TypeOK, Doc, Here
<1>3. Save(d, Asking(at + 1))
  BY DEF Created
<1> HIDE DEF d
<1>4. Covers(d)
  BY <1>1, <1>2 DEF Journalled, Covers, InOrder, Making, Existing
<1>5. /\ Asking(at + 1) \in {"attempt", "send"}
      /\ Asking(at + 1) = "attempt" => at + 1 \in Places /\ Creation[at + 1] \in Unnamed
      /\ Asking(at + 1) = "send" /\ at + 1 \in Places => Creation[at + 1] \notin Unnamed
  BY <1>1 DEF Asking, Places
<1>6. TypeOK' /\ Synced' /\ Journalled' /\ Going' = Asking(at + 1) /\ doc' = d
  <2> DEFINE next == Asking(at + 1)
  <2>1. next \in {"attempt", "send"} /\ Save(d, next)
    BY <1>3, <1>5
  <2> HIDE DEF next
  <2>2. TypeOK' /\ Synced' /\ Journalled' /\ Going' = next /\ doc' = d
    BY <1>1, <1>2, <1>4, <2>1, SaveStep DEF aws
  <2>3. QED
    BY <2>2 DEF next
<1>7. InOrder'
  <2>1. Existing' = Existing
    BY <1>1 DEF Existing
  <2>2. at \in Nat /\ Len(Creation) \in Nat
    BY <1>1 DEF TypeOK, Places
  <2>3. \A i \in Places : i >= at + 1 =>
          /\ Creation[i] \notin Existing /\ Creation[i] \notin disk.attempted
          /\ Creation[i] \notin d.known /\ (Creation[i] = "key" => calls["key"] = 0)
    BY <1>1, <1>2, <2>2 DEF InOrder, Making, TypeOK, Places
  <2>4. QED
    BY <1>1, <1>2, <1>5, <1>6, <2>1, <2>2, <2>3 DEF InOrder, Making, Places
<1>8. Swept' /\ Called'
  BY <1>1, <1>2, <1>3, <1>5, <1>6 DEF Swept, Cleaning, Called, Save
<1>9. QED
  BY <1>6, <1>7, <1>8

LEMMA PreparedStep == Inv /\ Prepared => Inv'
<1> SUFFICES ASSUME Inv, Prepared PROVE Inv'
  OBVIOUS
<1> USE Stays DEF Inv
<1>1. /\ pc = "send" /\ doc = disk /\ disk.state = "written" /\ at' \in 1 .. 7
      /\ UNCHANGED <<fixture, made, fading, inflight, adopted, at, calls, outlived, troubles>>
  BY AtWork DEF Prepared, aws
<1> DEFINE d == [doc EXCEPT !.prepared = TRUE]
<1>2. /\ d \in Doc /\ d.state = "written" /\ d.attempted = disk.attempted
      /\ d.known = disk.known /\ d.cleaned = disk.cleaned /\ d.invoked = disk.invoked
  BY <1>1 DEF TypeOK, Doc
<1>3. Save(d, "idle")
  BY DEF Prepared
<1> HIDE DEF d
<1>4. Covers(d)
  BY <1>1, <1>2 DEF Journalled, Covers
<1>5. TypeOK' /\ Synced' /\ Journalled' /\ Going' = "idle" /\ doc' = d
  BY <1>1, <1>2, <1>3, <1>4, SaveStep DEF aws
<1>6. InOrder' /\ Swept' /\ Called'
  BY <1>1, <1>2, <1>3, <1>5 DEF InOrder, Making, Swept, Cleaning, Called, Save
<1>7. QED
  BY <1>5, <1>6

LEMMA RunStep == Inv /\ StartRun => Inv'
<1> SUFFICES ASSUME Inv, StartRun PROVE Inv'
  OBVIOUS
<1> USE Stays DEF Inv
<1>1. /\ pc = "idle" /\ ~ InPlace /\ disk.state = "written" /\ ~ disk.invoked /\ ~ disk.cleaned
      /\ UNCHANGED <<fixture, made, fading, inflight, adopted, at, calls, outlived, troubles>>
      /\ at' \in 1 .. 7
  BY ResourcesCount DEF StartRun, aws, TypeOK
<1> DEFINE d == [disk EXCEPT !.invoked = TRUE]
<1>2. /\ d \in Doc /\ d.state = "written" /\ d.attempted = disk.attempted
      /\ d.known = disk.known /\ d.cleaned = disk.cleaned /\ d.invoked
  BY <1>1 DEF TypeOK, Doc
<1>3. Save(d, "invoke")
  BY DEF StartRun
<1> HIDE DEF d
<1>4. Covers(d)
  BY <1>1, <1>2 DEF Journalled, Covers
<1>5. TypeOK' /\ Synced' /\ Journalled' /\ Going' = "invoke" /\ doc' = d
  BY <1>1, <1>2, <1>3, <1>4, SaveStep DEF aws
<1>6. InOrder' /\ Swept' /\ Called'
  BY <1>1, <1>2, <1>3, <1>5 DEF InOrder, Making, Swept, Cleaning, Called, Save
<1>7. QED
  BY <1>5, <1>6

LEMMA InvokeStep == Inv /\ Invoke => Inv'
<1> SUFFICES ASSUME Inv, Invoke PROVE Inv'
  OBVIOUS
<1> USE Stays DEF Inv
<1>1. /\ pc = "invoke" /\ pc' = "idle" /\ calls' = [calls EXCEPT !["invocation"] = @ + 1]
      /\ UNCHANGED <<fixture, made, fading, inflight, adopted, disk, doc, at, then,
                     outlived, troubles>>
      /\ disk.state = "written" /\ disk.invoked
  BY DEF Invoke, aws, Synced, Called, TypeOK, Doc
<1>2. TypeOK'
  BY <1>1 DEF TypeOK, Labels
<1>3. Synced' /\ InOrder' /\ Swept' /\ Called'
  BY <1>1 DEF Synced, InOrder, Swept, Called, Going, Making, Cleaning
<1>4. Journalled'
  BY <1>1 DEF Journalled, Covers, Existing
<1>5. QED
  BY <1>2, <1>3, <1>4

-----------------------------------------------------------------------------
(* The steps of cleanup *)

\* A cleanup that goes on to the next place, whatever it did at this one.
LEMMA AdvanceStep ==
  ASSUME Inv, pc \in Cleaning, at \in Turns, Advance,
         made' \subseteq made, fading' \subseteq made', fading' \subseteq Tables \union {"pool"},
         Removal[at] \in Unnamed => Removal[at] \notin made' \union inflight,
         ~ (InPlace /\ Removal[at] \in Tables) => Removal[at] \notin made',
         UNCHANGED <<fixture, inflight, adopted, disk, doc, then, calls, outlived, troubles>>
  PROVE  Inv'
<1> USE Stays, Orders DEF Inv
<1>1. /\ doc = disk /\ disk.state = "written" /\ Going = pc /\ Going' = "remove" /\ pc' = "remove"
      /\ at' = at + 1 /\ at + 1 \in 1 .. 7 /\ at \in 1 .. Len(Removal) /\ pc \notin {"saving"}
  <2>1. doc = disk /\ disk.state = "written" /\ Going = pc
    BY AtWork DEF Cleaning
  <2>2. QED
    BY <2>1 DEF Advance, Turns, Going, TypeOK, Cleaning
<1>2. Existing' \subseteq Existing
  BY DEF Existing
<1>3. TypeOK'
  BY <1>1, ResourcesCount DEF TypeOK, Labels
<1>4. Synced' /\ InOrder' /\ Called'
  BY <1>1 DEF Synced, InOrder, Making, Called, Cleaning
<1>5. Journalled'
  BY <1>1, <1>2 DEF Journalled, Covers
<1>6. Swept'
  <2>1. inflight \subseteq outlived /\ \A i \in Turns : i < at => Passed(Removal[i])
    BY <1>1 DEF Swept
  <2>2. ASSUME NEW i \in Turns, i < at + 1
        PROVE  /\ Removal[i] \in Unnamed => Removal[i] \notin Existing'
               /\ Removal[i] \in made' /\ ~ (InPlace /\ Removal[i] \in Tables) =>
                    Removal[i] \in outlived
    <3>1. CASE i = at
      BY <3>1 DEF Existing
    <3>2. CASE i < at
      BY <3>2, <2>1, <1>2 DEF Passed
    <3>3. QED
      BY <3>1, <3>2, <2>2, <1>1 DEF Turns
  <2>3. QED
    BY <1>1, <2>1, <2>2 DEF Swept, Passed, Turns
<1>7. QED
  BY <1>3, <1>4, <1>5, <1>6

LEMMA StartCleanupStep == Inv /\ StartCleanup => Inv'
<1> SUFFICES ASSUME Inv, StartCleanup PROVE Inv'
  OBVIOUS
<1> USE Stays, Orders DEF Inv
<1>1. /\ pc = "idle" /\ disk.state = "written" /\ doc' = disk /\ at' = 1 /\ pc' = "remove"
      /\ outlived' = outlived \union inflight /\ Going' = "remove"
      /\ UNCHANGED <<fixture, made, fading, inflight, adopted, disk, then, calls, troubles>>
  BY DEF StartCleanup, aws, Going
<1>2. Existing' = Existing
  BY <1>1 DEF Existing
<1>3. TypeOK'
  BY <1>1, ResourcesCount DEF TypeOK, Labels
<1>4. Synced' /\ InOrder' /\ Called'
  BY <1>1 DEF Synced, InOrder, Making, Called
<1>5. Journalled'
  BY <1>1, <1>2 DEF Journalled, Covers
<1>6. Swept'
  BY <1>1 DEF Swept, Turns, TypeOK
<1>7. QED
  BY <1>3, <1>4, <1>5, <1>6

LEMMA SkipStep == Inv /\ Skip => Inv'
<1> SUFFICES ASSUME Inv, Skip PROVE Inv'
  OBVIOUS
<1>1. pc \in Cleaning /\ at \in Turns /\ Advance /\ doc = disk /\ Covers(disk)
      /\ UNCHANGED <<fixture, made, fading, inflight, adopted, disk, doc, then, calls,
                     outlived, troubles>>
  <2>1. pc = "remove" /\ at <= Len(Removal)
    BY DEF Skip, Turn
  <2>2. doc = disk /\ disk.state = "written"
    BY <2>1, AtWork
  <2>3. QED
    BY <2>1, <2>2, Orders DEF Skip, aws, Inv, TypeOK, Turns, Cleaning, Journalled
<1>2. /\ Removal[at] \in Unnamed => Removal[at] \notin made \union inflight
      /\ Removal[at] \notin Unnamed => Removal[at] \notin made
  BY <1>1 DEF Skip, Found, Lost, This, Covers, Existing
<1>3. /\ fading \subseteq made /\ fading \subseteq Tables \union {"pool"}
      /\ Removal[at] \notin made
  BY <1>2 DEF Inv, TypeOK, Journalled
<1>4. QED
  BY <1>1, <1>2, <1>3, AdvanceStep

LEMMA GoneStep == Inv /\ Gone => Inv'
<1> SUFFICES ASSUME Inv, Gone PROVE Inv'
  OBVIOUS
<1>1. pc = "wait" /\ Removal[at] \notin made /\ Advance
      /\ UNCHANGED <<fixture, made, fading, inflight, adopted, disk, doc, then, calls,
                     outlived, troubles>>
  BY DEF Gone, This, aws
<1>2. doc = disk /\ disk.state = "written" /\ Going = "wait"
  BY <1>1, AtWork
<1>3. pc \in Cleaning /\ at \in Turns /\ Waits /\ (Removal[at] = "pool" => "pool" \in doc.known)
  BY <1>1, <1>2 DEF Inv, Swept, Cleaning, This
<1>4. Covers(disk)
  BY <1>2 DEF Inv, Journalled
<1>5. /\ Removal[at] \in Unnamed => Removal[at] \notin made \union inflight
      /\ fading \subseteq made /\ fading \subseteq Tables \union {"pool"}
  BY <1>1, <1>2, <1>3, <1>4 DEF Waits, This, Unnamed, Tables, Covers, Inv, TypeOK, Journalled
<1>6. QED
  BY <1>1, <1>3, <1>5, AdvanceStep

LEMMA DeleteStep == Inv /\ Delete => Inv'
<1> SUFFICES ASSUME Inv, Delete PROVE Inv'
  OBVIOUS
<1> USE Orders
<1>1. /\ pc = "remove" /\ at \in Turns /\ This = Removal[at] /\ This \in Resources /\ Found
      /\ UNCHANGED <<fixture, inflight, adopted, disk, doc, then, calls, outlived, troubles>>
      /\ doc = disk /\ Covers(disk) /\ Going = "remove" /\ disk.state = "written"
  <2>1. pc = "remove" /\ at <= Len(Removal)
    BY DEF Delete, Turn
  <2>2. doc = disk /\ disk.state = "written" /\ Going = "remove"
    BY <2>1, AtWork
  <2>3. QED
    BY <2>1, <2>2 DEF Delete, Inv, TypeOK, Turns, Journalled, This
<1>2. CASE This \in Tables \union {"pool"}
  <2>1. fading' = fading \union {This} /\ made' = made /\ This \in made
    BY <1>2 DEF Delete, Found
  <2>2. fading' \subseteq made' /\ fading' \subseteq Tables \union {"pool"}
    BY <1>2, <2>1 DEF Inv, TypeOK, Journalled
  <2>3. CASE Waits
    <3> USE Stays DEF Inv
    <3>1. pc' = "wait" /\ at' = at /\ Going' = "wait"
      BY <2>3 DEF Delete, Going
    <3>2. Existing' = Existing /\ This' = This /\ Waits'
      BY <1>1, <2>1, <2>3, <3>1 DEF Existing, This, Waits
    <3>3. TypeOK'
      BY <1>1, <2>1, <2>2, <3>1 DEF TypeOK, Labels
    <3>4. Synced' /\ InOrder' /\ Called'
      BY <1>1, <3>1 DEF Synced, InOrder, Making, Called
    <3>5. Journalled'
      BY <1>1, <2>1, <2>2, <3>2 DEF Journalled, Covers
    <3>6. Swept'
      BY <1>1, <2>1, <3>1, <3>2 DEF Swept, Cleaning, Passed, Found, Unnamed
    <3>7. QED
      BY <3>3, <3>4, <3>5, <3>6
  <2>4. CASE ~ Waits
    <3>1. Advance /\ InPlace /\ This \in Tables /\ This \notin Unnamed
      BY <1>2, <2>4 DEF Delete, Waits, Tables, Unnamed
    <3>2. QED
      BY <1>1, <2>1, <2>2, <3>1, AdvanceStep DEF Cleaning, aws
  <2>5. QED
    BY <2>3, <2>4
<1>3. CASE This \notin Tables \union {"pool"}
  <2>1. made' = made \ {This} /\ fading' = fading /\ Advance
    BY <1>3 DEF Delete, Waits
  <2>2. This \in Unnamed => This \notin inflight
    BY <1>1 DEF Found, Covers
  <2>3. fading' \subseteq made' /\ fading' \subseteq Tables \union {"pool"}
    BY <1>3, <2>1 DEF Inv, TypeOK, Journalled
  <2>4. QED
    BY <1>1, <2>1, <2>2, <2>3, AdvanceStep DEF Cleaning, aws
<1>4. QED
  BY <1>2, <1>3

LEMMA IdentifyStep == Inv /\ Identify => Inv'
<1> SUFFICES ASSUME Inv, Identify PROVE Inv'
  OBVIOUS
<1> USE Stays, Orders DEF Inv
<1>1. /\ pc = "remove" /\ at \in 1 .. 7 /\ Lost /\ This \in made /\ doc = disk
      /\ disk.state = "written" /\ Going = "remove"
      /\ UNCHANGED <<fixture, made, fading, inflight, adopted, at, calls, outlived, troubles>>
  BY AtWork DEF Identify, Turn, aws
<1> DEFINE d == [doc EXCEPT !.known = @ \union {This}]
<1>2. /\ d \in Doc /\ d.state = "written" /\ d.attempted = disk.attempted
      /\ d.known = disk.known \union {This} /\ d.cleaned = disk.cleaned /\ d.invoked = disk.invoked
  BY <1>1 DEF TypeOK, Doc, Lost
<1>3. Save(d, "remove")
  BY DEF Identify
<1> HIDE DEF d
<1>4. Covers(d)
  BY <1>1, <1>2 DEF Journalled, Covers, Lost
<1>5. TypeOK' /\ Synced' /\ Journalled' /\ Going' = "remove" /\ doc' = d
  BY <1>1, <1>2, <1>3, <1>4, SaveStep DEF aws
<1>6. Swept'
  <2>1. Existing' = Existing
    BY <1>1 DEF Existing
  <2>2. QED
    BY <1>1, <1>5, <2>1 DEF Swept, Cleaning, Passed
<1>7. InOrder' /\ Called'
  BY <1>1, <1>2, <1>3, <1>5 DEF InOrder, Making, Called, Save
<1>8. QED
  BY <1>5, <1>6, <1>7

\* A process that ends with a save, at whatever place.
LEMMA LastSave ==
  ASSUME Inv, pc \in Cleaning, at \in 1 .. 7, NEW d \in Doc, Save(d, "idle"),
         d.state = "written", Covers(d), d.invoked = disk.invoked,
         UNCHANGED <<fixture, aws, at, calls, outlived, troubles>>
  PROVE  Inv'
<1> USE Stays DEF Inv
<1>1. disk.state = "written"
  BY AtWork DEF Cleaning
<1>2. TypeOK' /\ Synced' /\ Journalled' /\ Going' = "idle" /\ doc' = d
  BY <1>1, SaveStep
<1>3. InOrder' /\ Swept' /\ Called'
  BY <1>2 DEF InOrder, Making, Swept, Cleaning, Called, Save
<1>4. QED
  BY <1>2, <1>3

LEMMA AmbiguousStep == Inv /\ Ambiguous => Inv'
<1> SUFFICES ASSUME Inv, Ambiguous PROVE Inv'
  OBVIOUS
<1>1. /\ pc = "remove" /\ Save(doc, "idle") /\ doc = disk /\ disk.state = "written"
      /\ at \in 1 .. 7 /\ disk \in Doc
      /\ UNCHANGED <<fixture, aws, at, calls, outlived, troubles>>
  BY AtWork DEF Ambiguous, Turn
<1>2. Covers(disk)
  BY <1>1 DEF Inv, Journalled
<1>3. QED
  BY <1>1, <1>2, LastSave DEF Cleaning

\* When every turn has passed, what remains was asked for before and is no key.
LEMMA FinishStep == Inv /\ Finish => Inv'
<1> SUFFICES ASSUME Inv, Finish PROVE Inv'
  OBVIOUS
<1> USE Orders
<1> DEFINE d == [doc EXCEPT !.cleaned = TRUE]
<1>1. /\ pc = "remove" /\ at > Len(Removal) /\ doc = disk /\ disk.state = "written"
      /\ at \in 1 .. 7 /\ disk \in Doc /\ Save(d, "idle") /\ Going = "remove"
      /\ InPlace => Tables \intersect made = {}
      /\ UNCHANGED <<fixture, aws, at, calls, outlived, troubles>>
  BY AtWork DEF Finish
<1>2. /\ d \in Doc /\ d.state = "written" /\ d.attempted = disk.attempted
      /\ d.known = disk.known /\ d.invoked = disk.invoked
  BY <1>1 DEF Doc
<1> HIDE DEF d
<1>3. Existing \subseteq outlived \ Unnamed
  <2> SUFFICES ASSUME NEW r \in Existing PROVE r \in outlived \ Unnamed
    OBVIOUS
  <2>1. PICK j \in Turns : Removal[j] = r
    BY DEF Inv, TypeOK, Journalled
  <2>2. Passed(r) /\ inflight \subseteq outlived
    <3>1. j < at
      BY <1>1 DEF Inv, TypeOK, Turns
    <3>2. QED
      BY <1>1, <2>1, <3>1 DEF Inv, Swept, Cleaning
  <2>3. QED
    BY <1>1, <2>2 DEF Passed, Existing
<1>4. Covers(d)
  BY <1>1, <1>2, <1>3 DEF Inv, Journalled, Covers
<1>5. QED
  BY <1>1, <1>2, <1>4, LastSave DEF Cleaning

-----------------------------------------------------------------------------
(* The end of a process, and what AWS and people do *)

LEMMA EndStep == Inv /\ (Refuse \/ Fail) => Inv'
<1> SUFFICES ASSUME Inv, Refuse \/ Fail PROVE Inv'
  OBVIOUS
<1> USE Documents, Stays DEF Inv
<1>1. /\ pc' = "idle" /\ troubles' \in 0 .. MaxTroubles
      /\ UNCHANGED <<fixture, made, fading, inflight, adopted, disk, doc, at, then,
                     calls, outlived>>
  BY BoundsAssumption DEF Refuse, Fail, End, aws, TypeOK
<1>2. TypeOK'
  BY <1>1 DEF TypeOK, Labels
<1>3. Synced' /\ InOrder' /\ Swept' /\ Called'
  BY <1>1 DEF Synced, InOrder, Swept, Called, Going, Making, Cleaning
<1>4. Journalled'
  BY <1>1 DEF Synced, Journalled, Covers, Existing
<1>5. QED
  BY <1>2, <1>3, <1>4

\* AWS makes what was asked for, or loses it, or finishes a deletion.
LEMMA ServiceStep == ASSUME NEW r \in Resources PROVE Inv /\ Service(r) => Inv'
<1> SUFFICES ASSUME Inv, Service(r) PROVE Inv'
  OBVIOUS
<1> USE Stays, Orders DEF Inv
<1>1. /\ UNCHANGED <<fixture, adopted, disk, doc, pc, at, then, calls, outlived, troubles>>
      /\ made' \subseteq made \union inflight /\ inflight' \subseteq inflight
      /\ made' \ made \subseteq inflight /\ made' \intersect inflight' = {}
      /\ fading' \subseteq made' /\ fading' \subseteq fading
  BY DEF Service, ExecuteCreate, LoseCreate, FinishDelete, TypeOK, Journalled
<1>2. Existing' \subseteq Existing /\ Going' = Going /\ This' = This /\ Waits' = Waits
  BY <1>1 DEF Existing, Going, This, Waits
<1>3. TypeOK'
  BY <1>1 DEF TypeOK
<1>4. Synced' /\ Called'
  BY <1>1 DEF Synced, Called
<1>5. InOrder'
  BY <1>1, <1>2 DEF InOrder
<1>6. Journalled'
  <2>1. ASSUME NEW e, Covers(e)
        PROVE  /\ Existing' \intersect Unnamed \subseteq e.attempted
               /\ e.known \subseteq e.attempted /\ e.known \intersect inflight' = {}
               /\ e.cleaned => Existing' \subseteq outlived \ Unnamed
    BY <1>1, <1>2, <2>1 DEF Covers
  <2>2. /\ disk.state = "written" => Covers(disk)'
        /\ pc = "saving" => Covers(doc)'
    BY <1>1, <2>1 DEF Journalled, Covers
  <2>3. QED
    BY <1>1, <1>2, <2>2 DEF Journalled
<1>7. Swept'
  BY <1>1, <1>2 DEF Swept, Passed
<1>8. QED
  BY <1>3, <1>4, <1>5, <1>6, <1>7

LEMMA PeopleStep == Inv /\ (Adopt \/ RecoverByHand \/ UNCHANGED vars) => Inv'
<1> SUFFICES ASSUME Inv, Adopt \/ RecoverByHand \/ UNCHANGED vars PROVE Inv'
  OBVIOUS
<1> USE Stays DEF Inv
<1>1. CASE Adopt \/ UNCHANGED vars
  <2>1. adopted' \in BOOLEAN
      /\ UNCHANGED <<fixture, made, fading, inflight, disk, doc, pc, at, then, calls,
                     outlived, troubles>>
    BY <1>1 DEF Adopt, vars, aws, TypeOK
  <2>2. Existing' = Existing /\ Going' = Going /\ This' = This /\ Waits' = Waits
    BY <2>1 DEF Existing, Going, This, Waits
  <2>3. TypeOK' /\ Synced' /\ Called'
    BY <2>1 DEF TypeOK, Synced, Called
  <2>4. Journalled' /\ InOrder' /\ Swept'
    BY <2>1, <2>2 DEF Journalled, Covers, InOrder, Swept, Passed
  <2>5. QED
    BY <2>3, <2>4
<1>2. CASE RecoverByHand
  <2> DEFINE d == [disk EXCEPT !.known = @ \union {"key"}]
  <2>1. /\ pc = "idle" /\ disk.state = "written" /\ "key" \in made /\ "key" \in disk.attempted
        /\ disk' = d /\ ~ InPlace
        /\ UNCHANGED <<fixture, made, fading, inflight, adopted, doc, pc, at, then,
                       calls, outlived, troubles>>
    BY <1>2 DEF RecoverByHand, aws, Unidentified
  <2>2. /\ d \in Doc /\ d.state = "written" /\ d.attempted = disk.attempted
        /\ d.known = disk.known \union {"key"} /\ d.cleaned = disk.cleaned
        /\ d.invoked = disk.invoked
    BY <2>1 DEF TypeOK, Doc, Unnamed
  <2> HIDE DEF d
  <2>3. Existing' = Existing /\ Going' = "idle"
    BY <2>1 DEF Existing, Going
  <2>4. TypeOK' /\ Synced' /\ InOrder' /\ Swept' /\ Called'
    BY <2>1, <2>2, <2>3 DEF TypeOK, Synced, InOrder, Making, Swept, Cleaning, Called
  <2>5. Journalled'
    BY <2>1, <2>2, <2>3 DEF Journalled, Covers
  <2>6. QED
    BY <2>4, <2>5
<1>3. QED
  BY <1>1, <1>2

LEMMA InvStep == Inv /\ [Next]_vars => Inv'
<1> SUFFICES ASSUME Inv, [Next]_vars PROVE Inv'
  OBVIOUS
<1>1. CASE Step
  BY <1>1, WriteStep, WrittenStep, AttemptStep, SendStep, CreatedStep, PreparedStep, InvokeStep,
     SkipStep, IdentifyStep, AmbiguousStep, DeleteStep, GoneStep, FinishStep, EndStep DEF Step
<1>2. CASE OpenJournal \/ StartRun \/ StartCleanup \/ Fail
  BY <1>2, OpenStep, RunStep, StartCleanupStep, EndStep
<1>3. CASE Adopt \/ RecoverByHand \/ UNCHANGED vars
  BY <1>3, PeopleStep
<1>4. CASE \E r \in Resources : Service(r)
  BY <1>4, ServiceStep
<1>5. QED
  BY <1>1, <1>2, <1>3, <1>4 DEF Next

LEMMA Invariance == Spec => []Inv
<1>1. QED
  BY InitInv, InvStep, PTL DEF Spec

-----------------------------------------------------------------------------
\* The journal is missing, torn or complete at every instant, and the other
\* variables are of their types.
THEOREM CampaignFixtureIsTyped == Spec => []TypeOK
<1>1. Inv => TypeOK
  BY DEF Inv
<1>2. QED
  BY <1>1, Invariance, PTL

\* Wherever a process is killed, a readable journal covers what exists or may come
\* to exist, unless the kill tore the journal of a completion fixture.
THEOREM NothingIsForgotten == Spec => []NothingForgotten
<1>1. Inv => NothingForgotten
  <2> SUFFICES ASSUME Inv, made \union inflight # {} PROVE NothingForgotten
    BY DEF NothingForgotten
  <2>1. disk.state \in {"missing", "torn", "written"}
    BY DEF Inv, TypeOK, Doc
  <2>2. CASE disk.state = "written"
    BY <2>2 DEF Inv, Journalled, Covers, Existing, NothingForgotten
  <2>3. CASE disk.state = "torn"
    BY <2>3 DEF Inv, Journalled, Existing, NothingForgotten
  <2>4. CASE disk.state = "missing"
    BY <2>4 DEF Inv, Journalled, Existing
  <2>5. QED
    BY <2>1, <2>2, <2>3, <2>4
<1>2. QED
  BY <1>1, Invariance, PTL

\* A journal that says the fixtures are removed speaks of an account with no pool
\* and no key of the run, and nothing but what was asked for before its cleanup.
THEOREM RemovedIsGone == Spec => []RemovedMeansGone
<1>1. Inv => RemovedMeansGone
  BY DEF Inv, Journalled, Covers, Existing, RemovedMeansGone
<1>2. QED
  BY <1>1, Invariance, PTL

-----------------------------------------------------------------------------
(* The journals of the period fixtures are write-ahead records. *)

\* What the journals d and e say of the calls that must not be repeated is the same.
Alike(d, e) ==
  /\ "key" \in d.attempted <=> "key" \in e.attempted
  /\ "key" \in d.known <=> "key" \in e.known
  /\ d.invoked <=> e.invoked

\* A step that changes neither the calls nor what the journal says of them; and
\* the journal that is rewritten in place promises nothing.
LEMMA PromiseStutters ==
  ASSUME UNCHANGED fixture, InPlace \/ (calls' = calls /\ Alike(disk', disk))
  PROVE  UNCHANGED Promise!vars
<1>1. InPlace' = InPlace
  BY Stays
<1>2. CASE InPlace
  BY <1>1, <1>2 DEF Promise!vars
<1>3. CASE ~ InPlace /\ calls' = calls /\ Alike(disk', disk)
  BY <1>1, <1>3 DEF Promise!vars, Alike
<1>4. QED
  BY <1>2, <1>3

\* A save of a renamed journal.
LEMMA Renamed ==
  ASSUME Inv, NEW d, NEW next, Save(d, next), ~ InPlace
  PROVE  disk' = d
BY DEF Save

LEMMA AttemptIntends == Inv /\ RecordAttempt => [Promise!Next]_(Promise!vars)
<1> SUFFICES ASSUME Inv, RecordAttempt, ~ InPlace PROVE Promise!Next
  BY PromiseStutters DEF RecordAttempt
<1> USE Stays, Orders DEF Inv
<1>1. /\ pc = "attempt" /\ doc = disk /\ disk.state = "written" /\ Going = "attempt"
      /\ at \in Places /\ UNCHANGED <<fixture, calls>> /\ disk \in Doc
  <2>1. pc = "attempt" /\ UNCHANGED <<fixture, calls>>
    BY DEF RecordAttempt
  <2>2. QED
    BY <2>1, AtWork DEF InOrder, Making
<1>2. Creation[at] = "key" /\ "key" \notin disk.attempted
  BY <1>1 DEF InOrder, Making, Creation, InPlace, Unnamed, Places
<1>3. disk' = [disk EXCEPT !.attempted = @ \union {"key"}]
  BY <1>1, <1>2, Renamed DEF RecordAttempt, Here
<1>4. /\ disk'.attempted = disk.attempted \union {"key"}
      /\ disk'.known = disk.known /\ disk'.invoked = disk.invoked
  BY <1>1, <1>3 DEF Doc
<1>5. Promise!Intend("key")
  BY <1>1, <1>2, <1>4 DEF Promise!Intend
<1>6. QED
  BY <1>5 DEF Promise!Next

LEMMA RunIntends == Inv /\ StartRun => [Promise!Next]_(Promise!vars)
<1> SUFFICES ASSUME Inv, StartRun PROVE Promise!Next
  OBVIOUS
<1>1. ~ InPlace /\ ~ disk.invoked /\ disk \in Doc /\ UNCHANGED <<fixture, calls>> /\ InPlace' = InPlace
  BY Stays DEF StartRun, Inv, TypeOK
<1>2. disk' = [disk EXCEPT !.invoked = TRUE]
  BY <1>1, Renamed DEF StartRun
<1>3. disk'.attempted = disk.attempted /\ disk'.known = disk.known /\ disk'.invoked
  BY <1>1, <1>2 DEF Doc
<1>4. Promise!Intend("invocation")
  BY <1>1, <1>3 DEF Promise!Intend
<1>5. QED
  BY <1>4 DEF Promise!Next

LEMMA SendCalls == Inv /\ SendCreate => [Promise!Next]_(Promise!vars)
<1> SUFFICES ASSUME Inv, SendCreate, ~ InPlace PROVE [Promise!Next]_(Promise!vars)
  BY PromiseStutters DEF SendCreate
<1> USE Stays, Orders DEF Inv
<1>1. /\ pc = "send" /\ at \in Places /\ doc = disk /\ Going = "send"
      /\ UNCHANGED <<fixture, disk>> /\ InPlace' = InPlace
  <2>1. pc = "send" /\ at <= Len(Creation)
    BY DEF SendCreate
  <2>2. QED
    BY <2>1, AtWork DEF SendCreate, Places, TypeOK
<1>2. CASE Creation[at] = "key"
  <2>1. calls["key"] = 0 /\ "key" \in disk.attempted
    BY <1>1, <1>2 DEF InOrder, Making, Unnamed
  <2>2. calls' = [calls EXCEPT !["key"] = 1]
    BY <1>2, <2>1 DEF SendCreate, Here, TypeOK
  <2>3. Promise!Call("key")
    BY <1>1, <2>1, <2>2 DEF Promise!Call
  <2>4. QED
    BY <2>3 DEF Promise!Next
<1>3. CASE Creation[at] # "key"
  <2>1. calls' = calls
    BY <1>3 DEF SendCreate, Here, TypeOK
  <2>2. QED
    BY <1>1, <2>1, PromiseStutters DEF Alike
<1>4. QED
  BY <1>2, <1>3

LEMMA InvokeCalls == Inv /\ Invoke => [Promise!Next]_(Promise!vars)
<1> SUFFICES ASSUME Inv, Invoke PROVE Promise!Next
  OBVIOUS
<1>1. /\ ~ InPlace /\ disk.invoked /\ calls["invocation"] = 0 /\ InPlace' = InPlace
      /\ UNCHANGED <<fixture, disk>>
  BY Stays DEF Invoke, Inv, Synced, Called
<1>2. calls' = [calls EXCEPT !["invocation"] = 1]
  BY <1>1 DEF Invoke, Inv, TypeOK
<1>3. Promise!Call("invocation")
  BY <1>1, <1>2 DEF Promise!Call
<1>4. QED
  BY <1>3 DEF Promise!Next

\* What is now known of a key that was asked for and not known is its outcome.
LEMMA KeySettles ==
  ASSUME ~ InPlace, UNCHANGED <<fixture, calls>>, disk \in Doc,
         "key" \in disk.attempted \ disk.known,
         disk' = [disk EXCEPT !.known = @ \union {"key"}]
  PROVE  Promise!Next
<1>1. InPlace' = InPlace
  BY Stays
<1>2. /\ disk'.attempted = disk.attempted /\ disk'.invoked = disk.invoked
      /\ "key" \in disk'.known
  BY DEF Doc
<1>3. Promise!Settle("key")
  BY <1>1, <1>2 DEF Promise!Settle
<1>4. QED
  BY <1>3 DEF Promise!Next

LEMMA AnswerSettles ==
  Inv /\ (Created \/ Identify \/ RecoverByHand) => [Promise!Next]_(Promise!vars)
<1> SUFFICES ASSUME Inv, Created \/ Identify \/ RecoverByHand, ~ InPlace
             PROVE [Promise!Next]_(Promise!vars)
  BY PromiseStutters DEF Created, Identify, RecoverByHand
<1> USE Orders DEF Inv
<1>1. CASE Created
  <2>1. /\ pc = "await" /\ at \in Places /\ doc = disk /\ Going = "await" /\ disk \in Doc
        /\ UNCHANGED <<fixture, calls>> /\ disk.state = "written"
    <3>1. pc = "await"
      BY <1>1 DEF Created
    <3>2. QED
      BY <1>1, <3>1, AtWork DEF Created, InOrder, Making
  <2>2. disk' = [disk EXCEPT !.known = @ \union ({Creation[at]} \intersect Unnamed)]
    BY <1>1, <2>1, Renamed DEF Created, Here
  <2>3. CASE Creation[at] = "key"
    <3>1. "key" \in disk.attempted \ disk.known
      BY <2>1, <2>3 DEF InOrder, Making, Unnamed, TypeOK, Places
    <3>2. disk' = [disk EXCEPT !.known = @ \union {"key"}]
      BY <2>2, <2>3 DEF Unnamed
    <3>3. QED
      BY <2>1, <3>1, <3>2, KeySettles
  <2>4. CASE Creation[at] # "key"
    <3>1. Alike(disk', disk)
      BY <2>1, <2>2, <2>4 DEF Alike, Doc
    <3>2. QED
      BY <2>1, <3>1, PromiseStutters
  <2>5. QED
    BY <2>3, <2>4
<1>2. CASE Identify
  <2>1. /\ doc = disk /\ disk \in Doc /\ Lost /\ UNCHANGED <<fixture, calls>>
        /\ disk' = [disk EXCEPT !.known = @ \union {This}]
    <3>1. pc = "remove"
      BY <1>2 DEF Identify, Turn
    <3>2. QED
      BY <1>2, <3>1, AtWork, Renamed DEF Identify
  <2>2. CASE This = "key"
    BY <2>1, <2>2, KeySettles DEF Lost
  <2>3. CASE This # "key"
    <3>1. Alike(disk', disk)
      BY <2>1, <2>3 DEF Alike, Doc
    <3>2. QED
      BY <2>1, <3>1, PromiseStutters
  <2>4. QED
    BY <2>2, <2>3
<1>3. CASE RecoverByHand
  BY <1>3, KeySettles DEF RecoverByHand, Unidentified, TypeOK
<1>4. QED
  BY <1>1, <1>2, <1>3

\* Nothing else adds to what the journal says of the key and the invocation.
LEMMA OthersStutter ==
  Inv /\ (OpenJournal \/ WriteJournal \/ Written \/ Prepared \/ Ambiguous \/ Finish)
    => UNCHANGED Promise!vars
<1> SUFFICES ASSUME Inv, OpenJournal \/ WriteJournal \/ Written \/ Prepared \/ Ambiguous \/ Finish,
                    ~ InPlace
             PROVE UNCHANGED Promise!vars
  BY PromiseStutters DEF OpenJournal, WriteJournal, Written, Prepared, Ambiguous, Finish
<1>1. UNCHANGED <<fixture, calls>>
  BY DEF OpenJournal, WriteJournal, Written, Prepared, Ambiguous, Finish
<1>2. CASE OpenJournal \/ WriteJournal
  <2>1. disk \in {Missing, Torn} /\ disk' \in {Torn, Fresh}
    BY <1>2 DEF Inv, Synced, OpenJournal, WriteJournal
  <2>2. Alike(disk', disk)
    BY <2>1, Documents DEF Alike
  <2>3. QED
    BY <1>1, <2>2, PromiseStutters
<1>3. CASE Prepared \/ Ambiguous \/ Finish
  <2>1. doc = disk /\ disk \in Doc
    <3>1. pc \in {"send", "remove"}
      BY <1>3 DEF Prepared, Ambiguous, Finish, Turn
    <3>2. QED
      BY <3>1, AtWork
  <2>2. disk' \in {[disk EXCEPT !.prepared = TRUE], disk, [disk EXCEPT !.cleaned = TRUE]}
    BY <1>3, <2>1, Renamed DEF Prepared, Ambiguous, Finish
  <2>3. Alike(disk', disk)
    BY <2>1, <2>2 DEF Alike, Doc
  <2>4. QED
    BY <1>1, <2>3, PromiseStutters
<1>4. CASE Written
  BY <1>4 DEF Inv, Synced, Written
<1>5. QED
  BY <1>2, <1>3, <1>4

LEMMA NextKeepsPromise == Inv /\ [Next]_vars => [Promise!Next]_(Promise!vars)
<1> SUFFICES ASSUME Inv, [Next]_vars PROVE [Promise!Next]_(Promise!vars)
  OBVIOUS
<1>1. CASE RecordAttempt \/ StartRun \/ SendCreate \/ Invoke \/ Created \/ Identify \/ RecoverByHand
  BY <1>1, AttemptIntends, RunIntends, SendCalls, InvokeCalls, AnswerSettles
<1>2. CASE OpenJournal \/ WriteJournal \/ Written \/ Prepared \/ Ambiguous \/ Finish
  BY <1>2, OthersStutter
<1>3. CASE UNCHANGED <<fixture, calls, disk>>
  BY <1>3, PromiseStutters DEF Alike
<1>4. CASE StartCleanup \/ Skip \/ Delete \/ Gone \/ Refuse \/ Fail \/ Adopt \/ UNCHANGED vars
  BY <1>3, <1>4 DEF StartCleanup, Skip, Delete, Gone, Refuse, Fail, End, Adopt, vars
<1>5. ASSUME NEW r \in Resources, Service(r) PROVE UNCHANGED <<fixture, calls, disk>>
  BY <1>5 DEF Service, ExecuteCreate, LoseCreate, FinishDelete
<1>6. QED
  BY <1>1, <1>2, <1>3, <1>4, <1>5 DEF Next, Step

\* With the journal that is renamed, the key and the invocation are asked for at
\* most once each and only under a journal that says so, and the identifier of
\* the key is written down once.
THEOREM FixtureJournalIsWriteAhead == Spec => ImplementsWriteAhead
<1>1. Init => Promise!Init
  BY Documents DEF Init, Promise!Init
<1>2. Spec => Promise!Init /\ [][Promise!Next]_(Promise!vars)
  BY <1>1, NextKeepsPromise, Invariance, PTL DEF Spec
<1>3. QED
  BY <1>2 DEF ImplementsWriteAhead, Promise!Spec
=============================================================================

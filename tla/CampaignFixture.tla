--------------------------- MODULE CampaignFixture ---------------------------
(***************************************************************************)
(* The disposable fixtures of scripts/campaign_completion_fixture.py, with *)
(* and without its Cognito pool, campaign_period_retirement_fixture.py and *)
(* campaign_period_lifecycle_fixture.py.  prepare creates tables, a role,  *)
(* a function, a pool and a key under a journal, run invokes the code under*)
(* test with them, and cleanup removes them, again and again if need be.   *)
(* Tables, role and function have names that follow from the run; the pool *)
(* and the key have identifiers that only AWS knows, so the journal says   *)
(* before each is asked for that it was, and afterwards what it is.        *)
(*                                                                         *)
(* One process works on a journal at a time; nothing enforces it.          *)
(***************************************************************************)
EXTENDS Naturals, Sequences, FiniteSets

CONSTANTS Fixtures,     \* the kinds of fixture
          MaxTroubles   \* bound on kills, lost answers and failing calls

VARIABLES fixture,   \* which of the fixtures this is; never changes
          made,      \* resources that exist, a key until its deletion is scheduled
          fading,    \* tables and pools that are being deleted
          inflight,  \* resources whose creation is requested, not executed
          adopted,   \* whether somebody attached a policy to the role
          disk, doc, \* the journal, and the copy of the process
          pc, at,    \* control point; the place in the order
          then,      \* where a save() that rewrites in place returns to
          calls,     \* history: requests for a key, and invocations
          outlived,  \* history: requests unexecuted when a cleanup began
          troubles

aws == <<made, fading, inflight, adopted>>
vars == <<fixture, aws, disk, doc, pc, at, then, calls, outlived, troubles>>

Tables == {"table1", "table2"}
Unnamed == {"pool", "key"}
Resources == Tables \union Unnamed \union {"role", "function"}

ASSUME FixturesAssumption ==
  Fixtures \subseteq {"completion", "identity", "retirement", "lifecycle"}
ASSUME BoundsAssumption == MaxTroubles \in Nat

\* The order in which prepare creates.
Creation ==
  IF fixture = "completion" THEN <<"table1", "table2", "key", "role", "function">>
  ELSE IF fixture = "identity" THEN <<"table1", "table2", "pool", "key", "role", "function">>
  ELSE <<"table1", "table2", "key">>

\* Mutant: the key, which may be impossible to find, is removed before the tables.
RemovalKeyFirst ==
  IF fixture \in {"completion", "identity"}
    THEN <<"function", "pool", "key", "table1", "table2", "role">>
    ELSE <<"key", "table1", "table2">>
\* The order in which cleanup removes.
Removal ==
  IF fixture \in {"completion", "identity"}
    THEN <<"function", "pool", "table1", "table2", "role", "key">>
    ELSE <<"key", "table1", "table2">>

\* save() of the completion fixture rewrites the file; durable_journal() renames.
InPlace == fixture \in {"completion", "identity"}

Doc == [state : {"missing", "torn", "written"}, attempted : SUBSET Unnamed,
        known : SUBSET Unnamed, prepared : BOOLEAN, invoked : BOOLEAN, cleaned : BOOLEAN]
Fresh == [state |-> "written", attempted |-> {}, known |-> {},
          prepared |-> FALSE, invoked |-> FALSE, cleaned |-> FALSE]
Missing == [Fresh EXCEPT !.state = "missing"]
Torn == [Fresh EXCEPT !.state = "torn"]
Labels == {"idle", "open", "attempt", "send", "await", "invoke", "remove", "wait", "saving"}

Init ==
  /\ fixture \in Fixtures
  /\ made = {} /\ fading = {} /\ inflight = {} /\ adopted = FALSE
  /\ disk = Missing /\ doc = Missing /\ pc = "idle" /\ at = 1 /\ then = "idle"
  /\ calls = [x \in {"key", "invocation"} |-> 0]
  /\ outlived = {} /\ troubles = 0

\* The process goes on from next with the updated journal on disk.
Save(d, next) ==
  /\ doc' = d
  /\ IF InPlace THEN disk' = Torn /\ then' = next /\ pc' = "saving"
                ELSE disk' = d /\ then' = then /\ pc' = next
Written ==
  /\ pc = "saving"
  /\ disk' = doc /\ pc' = then
  /\ UNCHANGED <<fixture, aws, doc, at, then, calls, outlived, troubles>>

\* The process ends, with the files as they are.
End == pc' = "idle" /\ UNCHANGED <<fixture, aws, disk, doc, at, then, calls, outlived>>

-----------------------------------------------------------------------------
(* prepare *)

\* Both ways of writing the first journal create the file and then fill it.
OpenJournal ==
  /\ pc = "idle" /\ disk = Missing
  /\ disk' = Torn /\ doc' = Fresh /\ pc' = "open"
  /\ UNCHANGED <<fixture, aws, at, then, calls, outlived, troubles>>

Here == Creation[at]
Asking(i) == IF i <= Len(Creation) /\ Creation[i] \in Unnamed THEN "attempt" ELSE "send"

WriteJournal ==
  /\ pc = "open"
  /\ disk' = doc /\ at' = 1 /\ pc' = Asking(1)
  /\ UNCHANGED <<fixture, aws, doc, then, calls, outlived, troubles>>

\* Mutant: the attempt is not saved before the request.
RecordAttemptUnsaved ==
  /\ pc = "attempt"
  /\ doc' = [doc EXCEPT !.attempted = @ \union {Here}] /\ pc' = "send"
  /\ UNCHANGED <<fixture, aws, disk, at, then, calls, outlived, troubles>>
RecordAttempt ==
  /\ pc = "attempt"
  /\ Save([doc EXCEPT !.attempted = @ \union {Here}], "send")
  /\ UNCHANGED <<fixture, aws, at, calls, outlived, troubles>>

SendCreate ==
  /\ pc = "send" /\ at <= Len(Creation)
  /\ inflight' = inflight \union {Here}
  /\ calls' = [calls EXCEPT !["key"] = IF Here = "key" THEN @ + 1 ELSE @]
  /\ pc' = "await"
  /\ UNCHANGED <<fixture, made, fading, adopted, disk, doc, at, then, outlived, troubles>>

\* The answer names the pool or key; the journal is saved after every creation.
\* (What it says of tables, tableCreateAttempts or created, is never read.)
Created ==
  /\ pc = "await" /\ Here \in made
  /\ Save([doc EXCEPT !.known = @ \union ({Here} \intersect Unnamed)], Asking(at + 1))
  /\ at' = at + 1
  /\ UNCHANGED <<fixture, aws, calls, outlived, troubles>>

Prepared ==
  /\ pc = "send" /\ at > Len(Creation)
  /\ Save([doc EXCEPT !.prepared = TRUE], "idle")
  /\ UNCHANGED <<fixture, aws, at, calls, outlived, troubles>>

-----------------------------------------------------------------------------
(* run, of the retirement and the lifecycle fixture *)

\* Mutant: the marker is not looked at, so an interrupted run is repeated.
StartRunAgain ==
  /\ pc = "idle" /\ ~ InPlace
  /\ disk.state = "written" /\ disk.prepared /\ ~ disk.cleaned
  /\ "key" \in made
  /\ Save([disk EXCEPT !.invoked = TRUE], "invoke")
  /\ UNCHANGED <<fixture, aws, at, calls, outlived, troubles>>
StartRun ==
  /\ pc = "idle" /\ ~ InPlace
  /\ disk.state = "written" /\ disk.prepared /\ ~ disk.invoked /\ ~ disk.cleaned
  /\ "key" \in made
  /\ Save([disk EXCEPT !.invoked = TRUE], "invoke")
  /\ UNCHANGED <<fixture, aws, at, calls, outlived, troubles>>

Invoke ==
  /\ pc = "invoke"
  /\ calls' = [calls EXCEPT !["invocation"] = @ + 1]
  /\ pc' = "idle"
  /\ UNCHANGED <<fixture, aws, disk, doc, at, then, outlived, troubles>>

-----------------------------------------------------------------------------
(* cleanup *)

Unidentified == disk.attempted \ disk.known

\* "Cleanup refuses an unknown key after an ambiguous creation", except in the
\* completion fixture, which looks for it when its turn comes.
StartCleanup ==
  /\ pc = "idle" /\ disk.state = "written"
  /\ InPlace \/ Unidentified = {}
  /\ doc' = disk /\ at' = 1 /\ pc' = "remove"
  /\ outlived' = outlived \union inflight
  /\ UNCHANGED <<fixture, aws, disk, then, calls, troubles>>

This == Removal[at]
Turn == pc = "remove" /\ at <= Len(Removal)
Advance == at' = at + 1 /\ pc' = "remove"

Found == This \in made /\ (This \in Unnamed => This \in doc.known)
Lost == This \in doc.attempted \ doc.known

\* Mutant: the deletion of the key is scheduled whatever its state, and refused.
SkipNoKey ==
  /\ Turn /\ ~ Found /\ ~ Lost /\ ~ (This = "key" /\ This \in doc.known)
  /\ Advance
  /\ UNCHANGED <<fixture, aws, disk, doc, then, calls, outlived, troubles>>
\* Not there, or never asked for; a key whose deletion is scheduled is left so.
Skip ==
  /\ Turn /\ ~ Found /\ ~ Lost
  /\ Advance
  /\ UNCHANGED <<fixture, aws, disk, doc, then, calls, outlived, troubles>>

\* Mutant: a pool or key that is not found is taken for one never made.
IdentifyOrForget ==
  /\ Turn /\ Lost
  /\ IF This \in made THEN Save([doc EXCEPT !.known = @ \union {This}], "remove") /\ at' = at
     ELSE Advance /\ UNCHANGED <<disk, doc, then>>
  /\ UNCHANGED <<fixture, aws, calls, outlived, troubles>>
\* Exactly one pool or key has the tags of this run.
Identify ==
  /\ Turn /\ Lost /\ This \in made
  /\ Save([doc EXCEPT !.known = @ \union {This}], "remove")
  /\ UNCHANGED <<fixture, aws, at, calls, outlived, troubles>>

\* AMBIGUOUS_KEY_CREATION is written down before it is raised.
Ambiguous ==
  /\ Turn /\ Lost /\ This = "key" /\ This \notin made
  /\ Save(doc, "idle")
  /\ UNCHANGED <<fixture, aws, at, calls, outlived, troubles>>

\* The period fixtures wait for each table, the completion fixture for its pool
\* and in the end for all its tables.
Waits == This = "pool" \/ (This \in Tables /\ ~ InPlace)

Delete ==
  /\ Turn /\ Found
  /\ This \in Tables /\ This \in fading => fixture = "lifecycle"
  /\ This = "role" => ~ adopted
  /\ IF This \in Tables \union {"pool"}
       THEN fading' = fading \union {This} /\ UNCHANGED made
       ELSE made' = made \ {This} /\ UNCHANGED fading
  /\ IF Waits THEN pc' = "wait" /\ at' = at ELSE Advance
  /\ UNCHANGED <<fixture, inflight, adopted, disk, doc, then, calls, outlived, troubles>>

Gone ==
  /\ pc = "wait" /\ This \notin made
  /\ Advance
  /\ UNCHANGED <<fixture, aws, disk, doc, then, calls, outlived, troubles>>

Finish ==
  /\ pc = "remove" /\ at > Len(Removal)
  /\ InPlace => Tables \intersect made = {}
  /\ Save([doc EXCEPT !.cleaned = TRUE], "idle")
  /\ UNCHANGED <<fixture, aws, at, calls, outlived, troubles>>

\* What raises: a creation is refused or not answered in time, a table that is
\* DELETING is deleted again, a policy is attached to the role, the pool cannot
\* be found, or a wait is too long.
Refuse ==
  /\ \/ pc = "await" /\ Here \notin made
     \/ Turn /\ Found /\ This \in Tables /\ This \in fading /\ fixture # "lifecycle"
     \/ Turn /\ Found /\ This = "role" /\ adopted
     \/ Turn /\ Lost /\ This = "pool" /\ This \notin made
     \/ pc = "wait" /\ This \in made
     \/ pc = "remove" /\ at > Len(Removal) /\ InPlace /\ Tables \intersect made # {}
  /\ End
  /\ UNCHANGED troubles

-----------------------------------------------------------------------------
(* Failures, AWS and people *)

\* A kill, an error, or an answer that does not come.
Fail ==
  /\ pc # "idle" /\ troubles < MaxTroubles
  /\ troubles' = troubles + 1
  /\ End

ExecuteCreate(r) ==
  /\ r \in inflight
  /\ inflight' = inflight \ {r} /\ made' = made \union {r}
  /\ UNCHANGED <<fixture, fading, adopted, disk, doc, pc, at, then, calls, outlived, troubles>>

\* Refused, throttled or lost.
LoseCreate(r) ==
  /\ r \in inflight
  /\ inflight' = inflight \ {r}
  /\ UNCHANGED <<fixture, made, fading, adopted, disk, doc, pc, at, then, calls, outlived, troubles>>

FinishDelete(r) ==
  /\ r \in fading
  /\ fading' = fading \ {r} /\ made' = made \ {r}
  /\ UNCHANGED <<fixture, inflight, adopted, disk, doc, pc, at, then, calls, outlived, troubles>>

Adopt ==
  /\ "role" \in made /\ ~ adopted
  /\ adopted' = TRUE
  /\ UNCHANGED <<fixture, made, fading, inflight, disk, doc, pc, at, then, calls, outlived, troubles>>

\* "An operator must first recover the exact ARN by unique Description plus all
\* four tags", and writes it into the journal.
RecoverByHand ==
  /\ pc = "idle" /\ ~ InPlace /\ disk.state = "written"
  /\ "key" \in Unidentified \intersect made
  /\ disk' = [disk EXCEPT !.known = @ \union {"key"}]
  /\ UNCHANGED <<fixture, aws, doc, pc, at, then, calls, outlived, troubles>>

-----------------------------------------------------------------------------
Step ==
  \/ WriteJournal \/ Written \/ RecordAttempt \/ SendCreate \/ Created \/ Prepared \/ Invoke
  \/ Skip \/ Identify \/ Ambiguous \/ Delete \/ Gone \/ Finish \/ Refuse

Service(r) == ExecuteCreate(r) \/ LoseCreate(r) \/ FinishDelete(r)

Next ==
  \/ OpenJournal \/ StartRun \/ StartCleanup \/ Step \/ Fail
  \/ Adopt \/ RecoverByHand \/ \E r \in Resources : Service(r)

Spec == Init /\ [][Next]_vars

\* A process goes on, an unfinished cleanup is repeated, a key that is there is
\* recovered, and AWS answers in the end and finishes deletions.
Repeat == StartCleanup /\ ~ disk.cleaned
Fairness ==
  /\ WF_vars(Step) /\ WF_vars(Repeat) /\ WF_vars(RecoverByHand)
  /\ \A r \in Resources : WF_vars(FinishDelete(r)) /\ WF_vars(LoseCreate(r))
FairSpec == Spec /\ Fairness

-----------------------------------------------------------------------------
(* Properties *)

\* Every variable has its type; in particular the journal is missing, torn or
\* complete, and only resources that exist are being deleted.
TypeOK ==
  /\ fixture \in Fixtures
  /\ made \subseteq Resources /\ fading \subseteq made /\ inflight \subseteq Resources
  /\ adopted \in BOOLEAN /\ disk \in Doc /\ doc \in Doc
  /\ pc \in Labels /\ then \in Labels /\ at \in 1 .. Cardinality(Resources) + 1
  /\ calls \in [{"key", "invocation"} -> Nat] /\ outlived \subseteq Resources
  /\ troubles \in 0 .. MaxTroubles

\* Whatever exists or may come to exist is covered by a readable journal that
\* says so of a pool and a key; only the completion fixture can lose its journal,
\* by a kill in the middle of a save.
NothingForgotten ==
  made \union inflight # {} =>
    \/ disk.state = "torn" /\ InPlace
    \/ disk.state = "written" /\ (made \union inflight) \intersect Unnamed \subseteq disk.attempted

\* A cleanup that says it removed the fixtures leaves no pool and no key, not
\* even one that is still to be made, and of the rest only what was requested
\* before that cleanup began and executed after it had looked.
RemovedMeansGone ==
  disk.state = "written" /\ disk.cleaned =>
    made \union inflight \subseteq outlived \ Unnamed

JournalLost == disk.state = "torn" /\ pc = "idle"

\* What stops a cleanup for good: its journal is lost, a pool or key was asked
\* for and cannot be found, or somebody uses the role.
Stuck ==
  \/ JournalLost \/ adopted
  \/ ~ (Unidentified \subseteq made)

\* Otherwise every fixture that was begun is removed in the end.
CleanupCompletes == (disk.state = "written") ~> (disk.cleaned \/ Stuck)

\* The completion fixture removes its tables even when the creation of its key
\* stays ambiguous and its role cannot be removed; only a table created after
\* cleanup looked for it survives, and then the journal says cleaned.
TablesAreRemoved ==
  \A t \in Tables :
    (fixture = "completion" /\ disk.state = "written" /\ t \in made)
      ~> (t \notin made \/ disk.cleaned \/ JournalLost)

\* With the journal that is renamed, the key and the invocation are requested at
\* most once each, and only after the journal says so.
Promise == INSTANCE WriteAhead WITH
  Ops <- {"key", "invocation"}, Unknown <- "unknown",
  intent <- IF InPlace THEN {}
            ELSE (IF "key" \in disk.attempted THEN {"key"} ELSE {})
                   \union (IF disk.invoked THEN {"invocation"} ELSE {}),
  calls <- IF InPlace THEN [x \in {"key", "invocation"} |-> 0] ELSE calls,
  outcome <- [x \in {"key", "invocation"} |->
                IF ~ InPlace /\ x = "key" /\ "key" \in disk.known THEN "key" ELSE "unknown"]
ImplementsWriteAhead == Promise!Spec
=============================================================================

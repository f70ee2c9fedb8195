----------------------------- MODULE WorkFixture ------------------------------
(***************************************************************************)
(* The disposable IAM fixture of scripts/execute_campaign_period_work_iam. *)
(* py: one run creates tagged tables and roles under a journal, exercises  *)
(* them and removes them; whatever a run leaves behind, later cleanup-only *)
(* runs remove by the journal.                                             *)
(*                                                                         *)
(* Resource i is the i-th that run() creates, the tables before the roles, *)
(* and cleanup() goes through them backwards (a reloaded journal has the   *)
(* tables and the roles in the order of their names, which is as good).    *)
(* The process named Runner is the one that creates; all others run with   *)
(* --cleanup-only.  save() is atomic: it renames a complete temporary over *)
(* the journal.                                                            *)
(***************************************************************************)
EXTENDS Naturals

CONSTANTS Runner, Cleaners,
          Tables, Roles,    \* how many of each
          MaxCrashes        \* bound on processes killed

Processes == {Runner} \union Cleaners
Last == Tables + Roles
Resources == 1 .. Last

ASSUME ProcessesAssumption == Runner \notin Cleaners
ASSUME CountsAssumption == {Tables, Roles, MaxCrashes} \subseteq Nat /\ Last > 0

VARIABLES made,      \* resources that exist
          fading,    \* tables that are being deleted
          inflight,  \* resources whose creation is requested, not executed
          adopted,   \* roles to which somebody attached a policy
          creates,   \* history: creations requested
          crashes,
          disk,      \* the journal file
          pc, at,    \* control point; the resource a process works on
          doc,       \* its copy of the journal
          found,     \* whether cleanup() saw the resource
          outstanding \* whether it had to leave one

aws == <<made, fading, inflight, adopted>>
vars == <<made, fading, inflight, adopted, creates, crashes, disk, pc, at, doc,
          found, outstanding>>

Status == [attempted : BOOLEAN, acknowledged : BOOLEAN, rejected : BOOLEAN, absent : BOOLEAN]
Untried == [attempted |-> FALSE, acknowledged |-> FALSE, rejected |-> FALSE, absent |-> FALSE]
Doc == [state : {"missing", "torn", "written"}, resources : [Resources -> Status],
        complete : BOOLEAN]
base_journal == [state |-> "written", resources |-> [r \in Resources |-> Untried],
                 complete |-> FALSE]
Missing == [base_journal EXCEPT !.state = "missing"]
Torn == [base_journal EXCEPT !.state = "torn"]

Creating == {"attempt", "send", "await", "use"}
Labels == {"idle", "begin"} \union Creating \union {"find", "delete", "readback", "done"}

Init ==
  /\ made = {} /\ fading = {} /\ inflight = {} /\ adopted = {} /\ crashes = 0
  /\ creates = [r \in Resources |-> 0]
  /\ disk = Missing
  /\ pc = [x \in Processes |-> "idle"] /\ at = [x \in Processes |-> 0]
  /\ doc = [x \in Processes |-> base_journal]
  /\ found = [x \in Processes |-> FALSE] /\ outstanding = [x \in Processes |-> FALSE]

Goto(x, label) == pc' = [pc EXCEPT ![x] = label]
\* The operator runs one process on a journal at a time; nothing enforces it.
Free == \A x \in Processes : pc[x] \in {"idle", "done"}

\* Journal.save() of an updated document.
Save(x, d) ==
  /\ doc' = [doc EXCEPT ![x] = d]
  /\ disk' = d

Marked(d, r, field) ==
  IF field = "acknowledged" THEN [d EXCEPT !.resources[r].acknowledged = TRUE]
  ELSE IF field = "rejected" THEN [d EXCEPT !.resources[r].rejected = TRUE]
  ELSE [d EXCEPT !.resources[r].absent = TRUE]

-----------------------------------------------------------------------------
(* run(): preflight, and create_recorded() for each resource in turn *)

OpenJournal ==
  /\ pc[Runner] = "idle" /\ disk = Missing /\ Free
  /\ disk' = Torn
  /\ Goto(Runner, "begin")
  /\ UNCHANGED <<aws, creates, crashes, at, doc, found, outstanding>>

WriteJournal ==
  /\ pc[Runner] = "begin"
  /\ Save(Runner, base_journal)
  /\ at' = [at EXCEPT ![Runner] = 1]
  /\ Goto(Runner, "attempt")
  /\ UNCHANGED <<aws, creates, crashes, found, outstanding>>

\* Mutant: the attempt is kept in memory until it is acknowledged.
RecordAttemptUnsaved ==
  /\ pc[Runner] = "attempt"
  /\ doc' = [doc EXCEPT ![Runner].resources[at[Runner]] = [Untried EXCEPT !.attempted = TRUE]]
  /\ Goto(Runner, "send")
  /\ UNCHANGED <<aws, creates, crashes, disk, at, found, outstanding>>

\* "Persist before the service call so a timeout cannot lose cleanup ownership."
RecordAttempt ==
  /\ pc[Runner] = "attempt"
  /\ Save(Runner, [doc[Runner] EXCEPT
                     !.resources[at[Runner]] = [Untried EXCEPT !.attempted = TRUE]])
  /\ Goto(Runner, "send")
  /\ UNCHANGED <<aws, creates, crashes, at, found, outstanding>>

SendCreate ==
  /\ pc[Runner] = "send"
  /\ inflight' = inflight \union {at[Runner]}
  /\ creates' = [creates EXCEPT ![at[Runner]] = @ + 1]
  /\ Goto(Runner, "await")
  /\ UNCHANGED <<made, fading, adopted, crashes, disk, at, doc, found, outstanding>>

\* From any failure on, run() cleans up what the journal names.
CleanUp(x) ==
  /\ at' = [at EXCEPT ![x] = Last]
  /\ outstanding' = [outstanding EXCEPT ![x] = FALSE]
  /\ Goto(x, "find")

Acknowledge ==
  /\ pc[Runner] = "await" /\ at[Runner] \in made
  /\ Save(Runner, Marked(doc[Runner], at[Runner], "acknowledged"))
  /\ Goto(Runner, "use")
  /\ UNCHANGED <<aws, creates, crashes, at, found, outstanding>>

\* One of the codes that say the request was not executed.
Rejected ==
  /\ pc[Runner] = "await" /\ at[Runner] \in inflight
  /\ inflight' = inflight \ {at[Runner]}
  /\ Save(Runner, Marked(doc[Runner], at[Runner], "rejected"))
  /\ CleanUp(Runner)
  /\ UNCHANGED <<made, fading, adopted, creates, crashes, found>>

\* The resource is as it should be, or, with the last, everything was exercised.
NextResource ==
  /\ pc[Runner] = "use" /\ at[Runner] < Last
  /\ at' = [at EXCEPT ![Runner] = @ + 1]
  /\ Goto(Runner, "attempt")
  /\ UNCHANGED <<aws, creates, crashes, disk, doc, found, outstanding>>

\* A lost response, a failed check or the end of the exercise.
Conclude ==
  /\ pc[Runner] \in {"attempt", "await", "use"}
  /\ CleanUp(Runner)
  /\ UNCHANGED <<aws, creates, crashes, disk, doc, found>>

-----------------------------------------------------------------------------
(* cleanup(), by the runner or by a --cleanup-only process *)

Load(x) ==
  /\ x \in Cleaners /\ pc[x] \in {"idle", "done"} /\ disk.state = "written" /\ Free
  /\ doc' = [doc EXCEPT ![x] = disk]
  /\ CleanUp(x)
  /\ UNCHANGED <<aws, creates, crashes, disk, found>>

Here(x) == doc[x].resources[at[x]]
Step(x) == at' = [at EXCEPT ![x] = @ - 1]

Skip(x) ==
  /\ pc[x] = "find" /\ at[x] > 0 /\ ~Here(x).attempted
  /\ Step(x)
  /\ UNCHANGED <<aws, creates, crashes, disk, pc, doc, found, outstanding>>

\* Mutant: only acknowledged resources are removed.
FindAcknowledged(x) ==
  /\ pc[x] = "find" /\ at[x] > 0 /\ Here(x).acknowledged
  /\ at[x] \in made \ adopted
  /\ found' = [found EXCEPT ![x] = TRUE]
  /\ Goto(x, "delete")
  /\ UNCHANGED <<aws, creates, crashes, disk, at, doc, outstanding>>
\* The resource is there, with our tags and nothing unexpected attached.
Find(x) ==
  /\ pc[x] = "find" /\ at[x] > 0 /\ Here(x).attempted
  /\ at[x] \in made \ adopted
  /\ found' = [found EXCEPT ![x] = TRUE]
  /\ Goto(x, "delete")
  /\ UNCHANGED <<aws, creates, crashes, disk, at, doc, outstanding>>

Outstanding(x) ==
  /\ outstanding' = [outstanding EXCEPT ![x] = TRUE]
  /\ disk' = doc[x]
  /\ found' = [found EXCEPT ![x] = FALSE]
  /\ Step(x)
  /\ Goto(x, "find")

\* Unexpected attachments, a delete that is not answered or a readback that
\* takes too long.
LeaveForReview(x) ==
  /\ \/ pc[x] = "find" /\ at[x] > 0 /\ Here(x).attempted /\ at[x] \in adopted
     \/ pc[x] \in {"delete", "readback"}
  /\ Outstanding(x)
  /\ UNCHANGED <<aws, creates, crashes, doc>>

\* Mutants: a missing resource is taken for a removed one, or only for one if it
\* was seen just before.
EvidenceOfAnyKind(x) == TRUE
EvidenceOfOwnEyes(x) == found[x]
\* Whether a resource that is not there is known to stay away.
Evidence(x) == found[x] \/ Here(x).acknowledged \/ Here(x).rejected \/ Here(x).absent

Confirm(x) ==
  /\ pc[x] \in {"find", "delete", "readback"} /\ at[x] > 0 /\ Here(x).attempted
  /\ at[x] \notin made /\ Evidence(x)
  /\ Save(x, Marked(doc[x], at[x], "absent"))
  /\ found' = [found EXCEPT ![x] = FALSE]
  /\ Step(x)
  /\ Goto(x, "find")
  /\ UNCHANGED <<aws, creates, crashes, outstanding>>

Unconfirmed(x) ==
  /\ pc[x] = "find" /\ at[x] > 0 /\ Here(x).attempted
  /\ at[x] \notin made /\ ~Evidence(x)
  /\ Outstanding(x)
  /\ UNCHANGED <<aws, creates, crashes, doc>>

\* A role is gone when DeleteRole answers; a table is first DELETING.
Delete(x) ==
  /\ pc[x] = "delete" /\ at[x] \in made \ adopted
  /\ IF at[x] <= Tables
       THEN fading' = fading \union {at[x]} /\ UNCHANGED made
       ELSE made' = made \ {at[x]} /\ UNCHANGED fading
  /\ Goto(x, "readback")
  /\ UNCHANGED <<inflight, adopted, creates, crashes, disk, at, doc, found, outstanding>>

FinishCleanup(x) ==
  /\ pc[x] = "find" /\ at[x] = 0
  /\ Save(x, [doc[x] EXCEPT !.complete = ~outstanding[x]])
  /\ Goto(x, "done")
  /\ UNCHANGED <<aws, creates, crashes, at, found, outstanding>>

Crash(x) ==
  /\ pc[x] \notin {"idle", "done"} /\ crashes < MaxCrashes
  /\ crashes' = crashes + 1
  /\ Goto(x, "done")
  /\ found' = [found EXCEPT ![x] = FALSE]
  /\ UNCHANGED <<aws, creates, disk, at, doc, outstanding>>

-----------------------------------------------------------------------------
(* AWS and the other users of the account *)

ExecuteCreate(r) ==
  /\ r \in inflight
  /\ inflight' = inflight \ {r} /\ made' = made \union {r}
  /\ UNCHANGED <<fading, adopted, creates, crashes, disk, pc, at, doc, found, outstanding>>

LoseCreate(r) ==
  /\ r \in inflight
  /\ inflight' = inflight \ {r}
  /\ UNCHANGED <<made, fading, adopted, creates, crashes, disk, pc, at, doc, found, outstanding>>

FinishDelete(r) ==
  /\ r \in fading
  /\ made' = made \ {r} /\ fading' = fading \ {r}
  /\ UNCHANGED <<inflight, adopted, creates, crashes, disk, pc, at, doc, found, outstanding>>

\* Somebody attaches a policy to a role of the fixture, and it must be kept.
Adopt(r) ==
  /\ r \in made \ adopted /\ r > Tables
  /\ adopted' = adopted \union {r}
  /\ UNCHANGED <<made, fading, inflight, creates, crashes, disk, pc, at, doc, found, outstanding>>

-----------------------------------------------------------------------------
Create ==
  \/ WriteJournal \/ RecordAttempt \/ SendCreate \/ Acknowledge \/ Rejected
  \/ NextResource \/ Conclude

Progress(x) ==
  \/ x = Runner /\ Create
  \/ Skip(x) \/ Find(x) \/ LeaveForReview(x) \/ Confirm(x) \/ Unconfirmed(x)
  \/ Delete(x) \/ FinishCleanup(x)

Service(r) == ExecuteCreate(r) \/ LoseCreate(r) \/ FinishDelete(r) \/ Adopt(r)

Next ==
  \/ OpenJournal
  \/ \E x \in Processes : Progress(x) \/ Load(x) \/ Crash(x)
  \/ \E r \in Resources : Service(r)

Spec == Init /\ [][Next]_vars

\* A process keeps running, the operator repeats the cleanup, DynamoDB finishes
\* deletions, and a delete that is tried again and again is at last answered.
Fairness ==
  /\ \A x \in Processes : WF_vars(Progress(x))
  /\ \A x \in Cleaners : WF_vars(Load(x)) /\ SF_vars(Delete(x)) /\ SF_vars(Confirm(x))
  /\ \A r \in Resources : WF_vars(FinishDelete(r))
FairSpec == Spec /\ Fairness

-----------------------------------------------------------------------------
(* Properties *)

\* Every variable has its type; in particular the journal is missing, torn or
\* complete, and only resources that exist are being deleted.
TypeOK ==
  /\ made \subseteq Resources /\ fading \subseteq made /\ inflight \subseteq Resources
  /\ adopted \subseteq Resources
  /\ creates \in [Resources -> Nat] /\ crashes \in Nat
  /\ disk \in Doc /\ doc \in [Processes -> Doc]
  /\ pc \in [Processes -> Labels] /\ at \in [Processes -> 0 .. Last]
  /\ found \in [Processes -> BOOLEAN] /\ outstanding \in [Processes -> BOOLEAN]

\* Wherever a run is killed, and whatever became of a response, the journal on
\* disk names every resource that exists or may yet come to exist, and does not
\* call it absent.
NothingForgotten ==
  \A r \in made \union inflight :
    disk.resources[r].attempted /\ ~disk.resources[r].absent

\* "cleanupComplete" is a claim about the account, not about the run that makes
\* it: nothing of the fixture is left, and no creation is still to be executed.
CompleteMeansGone == disk.complete => made \union inflight = {}

\* A resource that was made, acknowledged or not, is removed in the end unless
\* somebody has attached something to it.
RemovedEventually ==
  \A r \in Resources : (r \in made /\ disk.state = "written") ~> (r \notin made \/ r \in adopted)

Answered ==
  \A r \in Resources : LET s == disk.resources[r] IN s.attempted => s.acknowledged \/ s.rejected

\* When every creation was answered, no lost delete response keeps the cleanup
\* from completing.
CleanupCompletes ==
  (disk.state = "written" /\ pc[Runner] = "done" /\ Answered)
    ~> (disk.complete \/ adopted # {})

\* The entry of a resource is a write-ahead record of its creation.
Promise == INSTANCE WriteAhead WITH
  Ops <- Resources, Unknown <- "unknown",
  intent <- {r \in Resources : disk.resources[r].attempted},
  calls <- creates,
  outcome <- [r \in Resources |-> IF disk.resources[r].acknowledged THEN "acknowledged"
                                  ELSE IF disk.resources[r].rejected THEN "rejected"
                                  ELSE "unknown"]
ImplementsWriteAhead == Promise!Spec
=============================================================================

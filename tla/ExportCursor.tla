----------------------------- MODULE ExportCursor -----------------------------
(***************************************************************************)
(* scripts/initialize_export_cursor.py: putting the first keyring into the *)
(* empty export cursor secret.                                             *)
(*                                                                         *)
(* An attempt is one execution of initialize(), the version it makes bears *)
(* the attempt's name, and so does the INIT_ label it stages the version   *)
(* with.  Secrets Manager executes requests at any time after they were    *)
(* sent, also after the sender gave up waiting.                            *)
(***************************************************************************)
EXTENDS Naturals, FiniteSets

CONSTANTS Attempts, None

ASSUME NoneAssumption == None \notin Attempts

VARIABLES versions, \* versions of the secret, the deprecated ones included
          labelled, \* versions that bear their INIT_ label
          current,  \* the version labelled AWSCURRENT, or None
          puts,     \* PutSecretValue requests not executed yet
          moves,    \* UpdateSecretVersionStage(AWSCURRENT) requests likewise
          cleaned,  \* history: versions somebody removed the INIT_ label of
          overlapped, \* history: whether two attempts ran at once
          outlived, \* history: whether a request was left behind unexecuted
          pc        \* control point of each attempt

secret == <<versions, labelled, current>>
history == <<cleaned, overlapped, outlived>>
vars == <<secret, puts, moves, history, pc>>

Running == {"list", "put", "putting", "inspect", "promote", "promoting", "verify", "unlabel"}
Ended == {"blocked", "uncertain", "verified"}
Labels == {"describe"} \union Running \union Ended

Init ==
  /\ versions = {} /\ labelled = {} /\ current = None
  /\ puts = {} /\ moves = {}
  /\ cleaned = {} /\ overlapped = FALSE /\ outlived = FALSE
  /\ pc = [x \in Attempts |-> "describe"]

Goto(x, from, to) == pc[x] = from /\ pc' = [pc EXCEPT ![x] = to]
\* A new attempt begins, perhaps beside another.
Begin ==
  /\ overlapped' = (overlapped \/ \E x \in Attempts : pc[x] \in Running)
  /\ UNCHANGED <<secret, puts, moves, cleaned, outlived>>

Staged == labelled \union ({current} \ {None})

\* The account, the secret's identity and lifecycle are right and no version
\* has a stage.
Describe(x) ==
  /\ Begin
  /\ Staged = {}
  /\ Goto(x, "describe", "list")

Refuse(x) ==
  /\ Begin
  /\ Goto(x, "describe", "blocked")

\* Mutant: deprecated versions are not listed.
ListStaged(x) ==
  /\ IF Staged = {} THEN Goto(x, "list", "put") ELSE Goto(x, "list", "blocked")
  /\ UNCHANGED <<secret, puts, moves, history>>
\* "An earlier interrupted setup is not an empty secret."
List(x) ==
  /\ IF versions = {} THEN Goto(x, "list", "put") ELSE Goto(x, "list", "blocked")
  /\ UNCHANGED <<secret, puts, moves, history>>

SendPut(x) ==
  /\ Goto(x, "put", "putting")
  /\ puts' = puts \union {x}
  /\ UNCHANGED <<secret, moves, history>>

PutAnswered(x) ==
  /\ x \in versions
  /\ Goto(x, "putting", "inspect")
  /\ UNCHANGED <<secret, puts, moves, history>>

\* Another version is current; or ours is already; or none is.
Inspect(x) ==
  /\ \/ current \notin {None, x} /\ Goto(x, "inspect", "blocked")
     \/ current = x /\ Goto(x, "inspect", "verify")
     \/ current = None /\ Goto(x, "inspect", "promote")
  /\ UNCHANGED <<secret, puts, moves, history>>

SendPromote(x) ==
  /\ Goto(x, "promote", "promoting")
  /\ moves' = moves \union {x}
  /\ UNCHANGED <<secret, puts, history>>

PromoteAnswered(x) ==
  /\ current = x
  /\ Goto(x, "promoting", "verify")
  /\ UNCHANGED <<secret, puts, moves, history>>

\* The version read back is ours, is current and has our payload.
Verify(x) ==
  /\ IF current = x THEN Goto(x, "verify", "unlabel") ELSE Goto(x, "verify", "blocked")
  /\ UNCHANGED <<secret, puts, moves, history>>

\* Mutant: the label is removed although the version was never verified.
RemoveLabelOfAny(x) ==
  /\ pc[x] \in {"inspect", "unlabel"}
  /\ labelled' = labelled \ {x}
  /\ Goto(x, pc[x], "verified")
  /\ UNCHANGED <<versions, current, puts, moves, history>>
RemoveLabel(x) ==
  /\ labelled' = labelled \ {x}
  /\ Goto(x, "unlabel", "verified")
  /\ UNCHANGED <<versions, current, puts, moves, history>>

\* A refused request, a lost response or a kill.  The label may be removed by
\* the request that is not answered.
Fail(x) ==
  /\ pc[x] \in Running
  /\ outlived' = (outlived \/ x \in puts \union moves)
  /\ Goto(x, pc[x], "uncertain")
  /\ \/ UNCHANGED labelled
     \/ pc[x] = "unlabel" /\ labelled' = labelled \ {x}
  /\ UNCHANGED <<versions, current, puts, moves, cleaned, overlapped>>

-----------------------------------------------------------------------------
(* Secrets Manager, as the requests of initialize() use it *)

\* Whether VersionStages names AWSCURRENT, which takes it from its holder.
StagesCurrent == FALSE

\* Mutant: the label is taken from the version that holds it.
FromHolder == current
\* RemoveFromVersionId; omitted.
RemoveFrom == None

\* The first version may become current without being asked to.
ExecutePut(x) ==
  /\ x \in puts
  /\ puts' = puts \ {x}
  /\ versions' = versions \union {x} /\ labelled' = labelled \union {x}
  /\ \/ current' = current /\ ~StagesCurrent
     \/ current' = x /\ (versions = {} \/ StagesCurrent)
  /\ UNCHANGED <<moves, history, pc>>

\* A label that another version holds moves only if it is taken from there.
ExecuteMove(x) ==
  /\ x \in moves
  /\ moves' = moves \ {x}
  /\ current' = IF current \in {None, x, RemoveFrom} THEN x ELSE current
  /\ UNCHANGED <<versions, labelled, puts, history, pc>>

Drop(x) ==
  /\ x \in puts \union moves
  /\ puts' = puts \ {x} /\ moves' = moves \ {x}
  /\ UNCHANGED <<secret, history, pc>>

\* Somebody removes the label of a version that an attempt left behind.
Clean(x) ==
  /\ x \in labelled /\ pc[x] \in Ended
  /\ labelled' = labelled \ {x} /\ cleaned' = cleaned \union {x}
  /\ UNCHANGED <<versions, current, puts, moves, overlapped, outlived, pc>>

-----------------------------------------------------------------------------
Attempt(x) ==
  \/ Describe(x) \/ Refuse(x) \/ List(x) \/ SendPut(x) \/ PutAnswered(x) \/ Inspect(x)
  \/ SendPromote(x) \/ PromoteAnswered(x) \/ Verify(x) \/ RemoveLabel(x) \/ Fail(x)

Service(x) == ExecutePut(x) \/ ExecuteMove(x) \/ Drop(x) \/ Clean(x)

Next == \E x \in Attempts : Attempt(x) \/ Service(x)

Spec == Init /\ [][Next]_vars

-----------------------------------------------------------------------------
(* Properties *)

\* Every variable has its type; in particular only versions are labelled,
\* current or asked to become current.
TypeOK ==
  /\ versions \subseteq Attempts /\ labelled \subseteq versions
  /\ current \in versions \union {None}
  /\ puts \subseteq Attempts /\ moves \subseteq versions /\ cleaned \subseteq versions
  /\ {overlapped, outlived} \subseteq BOOLEAN
  /\ pc \in [Attempts -> Labels]

\* "Never rotate existing keys": as long as attempts ran one at a time and left
\* no unexecuted request behind, repeating them after failures makes no second
\* keyring, even if somebody tidied up the labels in between.
OneKeyring == ~overlapped /\ ~outlived => Cardinality(versions) <= 1

\* A version that is not in use still bears the label of the attempt that left
\* it, whatever races and failures led there, unless somebody removed it.
SparesAreLabelled == versions \ {current} \subseteq labelled \union cleaned

\* The current keyring is set once; no race, late request or repeated attempt
\* replaces it, and only the attempt whose keyring it is reports it verified.
Keyring == INSTANCE SetOnce WITH
  Writers <- Attempts, value <- current,
  claims <- {x \in Attempts : pc[x] = "verified"}
CurrentIsSetOnce == Keyring!Spec
=============================================================================

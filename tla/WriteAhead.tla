----------------------------- MODULE WriteAhead ------------------------------
(***************************************************************************)
(* What the operator scripts promise of a call that must not be repeated:  *)
(* an intent is made durable first, the call is made at most once and only *)
(* under its intent, and an outcome is recorded only for an intended call  *)
(* and never altered.  A crash may fall between any two of these steps,    *)
(* and then the call is not made again: what happened is found out.        *)
(***************************************************************************)
EXTENDS Naturals

CONSTANTS Ops,      \* the calls, each under a journal of its own
          Unknown   \* the outcome of a call before one is recorded

VARIABLES intent,   \* Ops whose intent is durable
          calls,    \* how often each call was made
          outcome   \* the recorded outcome of each

vars == <<intent, calls, outcome>>

Init ==
  /\ intent = {}
  /\ calls = [op \in Ops |-> 0]
  /\ outcome = [op \in Ops |-> Unknown]

Intend(op) ==
  /\ op \notin intent
  /\ intent' = intent \union {op}
  /\ UNCHANGED <<calls, outcome>>

Call(op) ==
  /\ op \in intent /\ calls[op] = 0
  /\ calls' = [calls EXCEPT ![op] = 1]
  /\ UNCHANGED <<intent, outcome>>

Settle(op) ==
  /\ op \in intent /\ outcome[op] = Unknown
  /\ outcome'[op] # Unknown
  /\ outcome' = [outcome EXCEPT ![op] = outcome'[op]]
  /\ UNCHANGED <<intent, calls>>

Next == \E op \in Ops : Intend(op) \/ Call(op) \/ Settle(op)

Spec == Init /\ [][Next]_vars
=============================================================================

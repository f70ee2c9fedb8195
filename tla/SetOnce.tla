------------------------------- MODULE SetOnce --------------------------------
(***************************************************************************)
(* What initializing a value that must never be replaced promises: it is   *)
(* set once, and only the process whose value it is may claim that it set  *)
(* it.                                                                     *)
(***************************************************************************)
CONSTANTS Writers, None  \* None is no writer

VARIABLES value,  \* the writer whose value is in place, or None
          claims  \* the writers that reported success

vars == <<value, claims>>

Init == value = None /\ claims = {}

Set(w) ==
  /\ value = None
  /\ value' = w
  /\ UNCHANGED claims

Claim(w) ==
  /\ value = w
  /\ claims' = claims \union {w}
  /\ UNCHANGED value

Next == \E w \in Writers : Set(w) \/ Claim(w)

Spec == Init /\ [][Next]_vars
=============================================================================

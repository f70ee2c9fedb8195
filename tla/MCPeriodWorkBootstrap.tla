------------------------ MODULE MCPeriodWorkBootstrap ------------------------
(* Small instances of PeriodWorkBootstrap for TLC. *)
EXTENDS PeriodWorkBootstrap

CONSTANTS a1, a2

\* With the boundary no table is restored, its owners being among those who
\* wait; the attempts are alike, and a1 is the first to begin.  Without it
\* everybody is free to act, and one attempt, a shorter time, an approval that
\* lasts and a restore or deployments show what can slip past it.
Within ==
  IF boundary THEN tableId = 0 /\ (trusted[a2] # {} => trusted[a1] # {})
  ELSE /\ now < MaxTime /\ pc[a2] = "idle"
       /\ \A p \in Plans : expiry[p] \in {-1, MaxTime - 1}
       /\ tableId = 0 \/ \A w \in Writers : revision[w] = 0
MCNext == Next /\ Within'
MCSpec == Init /\ [][MCNext]_vars
=============================================================================

---------------------------- MODULE MCPeriodKey -----------------------------
(* TLC instances of PeriodKey. *)
EXTENDS PeriodKey, TLC

\* The journals are interchangeable: no definition names one of them.
Symmetry == Permutations(Journals)
=============================================================================

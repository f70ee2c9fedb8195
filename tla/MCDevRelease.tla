----------------------------- MODULE MCDevRelease -----------------------------
EXTENDS DevRelease, TLC
CONSTANTS s1, s2, s3
MCRuns == [play |-> 4, authority |-> 4, history |-> 4, api |-> 4]
MCTroubles == [play |-> 1, authority |-> 1, history |-> 1, api |-> 1]
Symmetric == Permutations({s1, s2, s3})
=============================================================================

------------------------ MODULE MCQualificationHarness -------------------------
EXTENDS QualificationHarness

St(effect, actions, resources, keys, tx, none, more) ==
  [effect |-> effect, actions |-> actions, resources |-> resources, keys |-> keys, tx |-> tx,
   none |-> none, more |-> more]
Own == {"own"}
MCSpecs == {St("Allow", {"get"}, {Live("t1")}, Own, FALSE, FALSE, FALSE),
            St("Allow", {"put"}, {Live("t1")}, Own, TRUE, TRUE, FALSE)}
MCOldSpecs == {St("Allow", {"put"}, {Live("t2")}, Partitions, FALSE, FALSE, FALSE)}
\* What else a policy may say of the tables, of others, and of everything.
MCPool ==
  MCSpecs \union MCOldSpecs \union
  {St("Deny", {"put", "get"}, {Any}, Partitions, FALSE, FALSE, FALSE),
   St("Deny", {"put"}, {Live("t1"), Other("x")}, {"foreign"}, FALSE, FALSE, FALSE),
   St("Deny", {"get"}, {Live("t2")}, Partitions, FALSE, FALSE, TRUE),
   St("Allow", {"get", "log"}, {Live("t1"), Other("x")}, Partitions, FALSE, TRUE, FALSE),
   St("Allow", {"put"}, {Any}, Own, FALSE, FALSE, FALSE),
   St("Allow", {"log"}, {Any}, Partitions, FALSE, FALSE, FALSE),
   St("Allow", {"put"}, {Other("x")}, Partitions, FALSE, FALSE, FALSE),
   St("Allow", {"get"}, {Live("t2")}, Own, FALSE, FALSE, TRUE)}
MCPolicies ==
  {[candidate |-> candidate, installed |-> MCOldSpecs] :
     candidate \in {{a, b} : a, b \in MCPool} \union {MCSpecs \union {a} : a \in MCPool}}
  \union {[candidate |-> MCSpecs, installed |-> installed] :
            installed \in {{a, b} : a, b \in MCPool} \union {MCOldSpecs \union {a} : a \in MCPool}}
  \union {[candidate |-> {a}, installed |-> {b}] : a, b \in MCPool}
MCOnePolicy == {[candidate |-> MCSpecs, installed |-> MCOldSpecs]}
=============================================================================

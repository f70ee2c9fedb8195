--------------------------- MODULE PolicyProjection ----------------------------
(***************************************************************************)
(* What the qualify_campaign_*_iam.py harnesses do with the IAM policies   *)
(* of a live role: they keep the statements about the tables that they     *)
(* copy, refuse a policy whose rest could be about them as well, and write *)
(* what they kept over the names of the copies.                            *)
(*                                                                         *)
(* A statement is what IAM makes of it: who asks is a role, so a policy is *)
(* a set of statements.  keys are the partitions its LeadingKeys condition *)
(* admits (all, without one), tx that it wants TransactWriteItems, none    *)
(* that it wants ReturnValues NONE, more any other condition.              *)
(***************************************************************************)
CONSTANTS TABLES,       \* the live tables that are copied, the writer's with their indexes
          Elsewhere,    \* every other resource, streams too
          TableActions, OtherActions,
          Partitions    \* classes of partition keys

Live(t) == <<"live", t>>
Copy(t) == <<"copy", t>>
Other(x) == <<"other", x>>
Any == <<"any", "*">>
LiveTables == {Live(t) : t \in TABLES}
Copies == {Copy(t) : t \in TABLES}

Statement ==
  [effect : {"Allow", "Deny"}, actions : SUBSET (TableActions \union OtherActions),
   resources : SUBSET (LiveTables \union {Other(x) : x \in Elsewhere} \union {Any}),
   keys : SUBSET Partitions, tx : BOOLEAN, none : BOOLEAN, more : BOOLEAN]
\* keys is empty for a scan; more is whether the caller meets the other conditions,
\* which the function may and the harness may not, or the other way round.
Requests(resources) ==
  [action : TableActions \union OtherActions, resource : resources, keys : SUBSET Partitions,
   tx : BOOLEAN, none : BOOLEAN, more : BOOLEAN]

Applies(st, q) ==
  /\ q.action \in st.actions /\ (q.resource \in st.resources \/ Any \in st.resources)
  /\ q.keys \subseteq st.keys
  /\ st.tx => q.tx
  /\ st.none => q.none
  /\ st.more => q.more
Grants(policy, effect, q) == \E st \in policy : st.effect = effect /\ Applies(st, q)
Authorized(policy, q) == Grants(policy, "Allow", q) /\ ~ Grants(policy, "Deny", q)

-----------------------------------------------------------------------------
OfTables(st) == st.actions \intersect TableActions # {}
Unmixed(st) == st.actions \subseteq TableActions \/ ~ OfTables(st)

(* qualify_campaign_period_work_iam.py, all sources of the role as planned *)

\* Mutant: a statement on every resource is one about other resources.
HereExactly(st) == st.resources \intersect LiveTables
\* A Deny on every resource is about the tables as well.
Here(st) == IF Any \in st.resources THEN LiveTables ELSE st.resources \intersect LiveTables
Kept(policy) == {st \in policy : OfTables(st) /\ Here(st) # {}}
Projectable(policy) ==
  /\ \A st \in policy : OfTables(st) /\ Any \in st.resources => st.effect = "Deny"
  /\ \A st \in Kept(policy) : ~ st.more
project(policy) ==
  {[st EXCEPT !.actions = @ \intersect TableActions, !.resources = Here(st)] : st \in Kept(policy)}

(* The writer, producer, recovery and completion harnesses, which know every *)
(* statement about the tables in advance                                     *)

\* A statement that the code spells out.
Specified(specs) ==
  \A st \in specs : /\ st \in Statement /\ st.effect = "Allow" /\ ~ st.more
                    /\ OfTables(st) /\ st.actions \subseteq TableActions
                    /\ st.resources # {} /\ st.resources \subseteq LiveTables
\* writer: these statements and no others are about DynamoDB tables at all.
validate_policy(policy, specs) ==
  /\ \A st \in policy : st.effect = "Allow" /\ Unmixed(st)
  /\ {st \in policy : OfTables(st)} = specs
\* producer: a statement is about the two tables or about others, the former are these.
project_policy(policy, specs) ==
  /\ \A st \in policy : st.effect = "Allow" /\ Unmixed(st)
  /\ \A st \in policy : OfTables(st) => st.resources \subseteq LiveTables
                                        \/ st.resources \intersect (LiveTables \union {Any}) = {}
  /\ {st \in policy : OfTables(st) /\ st.resources \intersect LiveTables # {}} = specs
\* producer: what else the role has is not about the tables.
Ancillary(policy) ==
  \A st \in policy : OfTables(st) => st.resources \intersect (LiveTables \union {Any}) = {}
\* recovery, completion: what a candidate adds to the statements on the tables that the
\* validated installed policies have.
load_union(candidate, installed) ==
  candidate \union {st \in installed : OfTables(st) /\ st.resources \intersect LiveTables # {}}

-----------------------------------------------------------------------------
\* synthetic, fixture_policy, remap: the same statements over the copies.
synthetic(policy) ==
  {[st EXCEPT !.resources = {Copy(t) : t \in {u \in TABLES : Live(u) \in st.resources}}] : st \in policy}
=============================================================================

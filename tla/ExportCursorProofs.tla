-------------------------- MODULE ExportCursorProofs --------------------------
(***************************************************************************)
(* What holds of ExportCursor for any set of attempts.  The invariant says *)
(* what an attempt knows at each control point; the set-once refinement    *)
(* and the labels of spare versions follow from it step by step.  That     *)
(* serialized attempts make one keyring needs a second invariant, about    *)
(* attempts that are still on their way to a version.                      *)
(***************************************************************************)
EXTENDS ExportCursor, FiniteSetTheorems, TLAPS

HasVersion == {"inspect", "promote", "promoting", "verify", "unlabel", "verified"}
Knows(x) ==
  /\ pc[x] \in HasVersion => x \in versions
  /\ pc[x] \in {"unlabel", "verified"} => current = x

KnowsInv ==
  /\ TypeOK
  /\ \A x \in Attempts : Knows(x)
  /\ SparesAreLabelled

LEMMA KnowsInit == Init => KnowsInv
BY DEF Init, KnowsInv, TypeOK, Knows, HasVersion, SparesAreLabelled, Labels, Running, Ended

LEMMA KnowsAttempt ==
  ASSUME KnowsInv, NEW x \in Attempts, Attempt(x)
  PROVE  KnowsInv'
<1> USE NoneAssumption DEF KnowsInv, TypeOK, Goto, Labels, Running, Ended, Begin, secret, history
<1>1. CASE Describe(x)
  BY <1>1 DEF Describe, Knows, HasVersion, SparesAreLabelled
<1>2. CASE Refuse(x)
  BY <1>2 DEF Refuse, Knows, HasVersion, SparesAreLabelled
<1>3. CASE List(x)
  BY <1>3 DEF List, Knows, HasVersion, SparesAreLabelled
<1>4. CASE SendPut(x)
  BY <1>4 DEF SendPut, Knows, HasVersion, SparesAreLabelled
<1>5. CASE PutAnswered(x)
  BY <1>5 DEF PutAnswered, Knows, HasVersion, SparesAreLabelled
<1>6. CASE Inspect(x)
  BY <1>6 DEF Inspect, Knows, HasVersion, SparesAreLabelled
<1>7. CASE SendPromote(x)
  BY <1>7 DEF SendPromote, Knows, HasVersion, SparesAreLabelled
<1>8. CASE PromoteAnswered(x)
  BY <1>8 DEF PromoteAnswered, Knows, HasVersion, SparesAreLabelled
<1>9. CASE Verify(x)
  BY <1>9 DEF Verify, Knows, HasVersion, SparesAreLabelled
<1>10. CASE RemoveLabel(x)
  BY <1>10 DEF RemoveLabel, Knows, HasVersion, SparesAreLabelled
<1>11. CASE Fail(x)
  BY <1>11 DEF Fail, Knows, HasVersion, SparesAreLabelled
<1>12. QED
  BY <1>1, <1>2, <1>3, <1>4, <1>5, <1>6, <1>7, <1>8, <1>9, <1>10, <1>11 DEF Attempt

LEMMA KnowsService ==
  ASSUME KnowsInv, NEW x \in Attempts, Service(x)
  PROVE  KnowsInv'
<1> USE NoneAssumption DEF KnowsInv, TypeOK, secret, history
<1>1. CASE ExecutePut(x)
  BY <1>1 DEF ExecutePut, StagesCurrent, Knows, HasVersion, SparesAreLabelled
<1>2. CASE ExecuteMove(x)
  BY <1>2 DEF ExecuteMove, RemoveFrom, Knows, HasVersion, SparesAreLabelled
<1>3. CASE Drop(x)
  BY <1>3 DEF Drop, Knows, SparesAreLabelled
<1>4. CASE Clean(x)
  BY <1>4 DEF Clean, Knows, SparesAreLabelled
<1>5. QED
  BY <1>1, <1>2, <1>3, <1>4 DEF Service

LEMMA KnowsAlways == Spec => []KnowsInv
<1>1. KnowsInv /\ [Next]_vars => KnowsInv'
  <2> SUFFICES ASSUME KnowsInv, [Next]_vars PROVE KnowsInv'
    OBVIOUS
  <2>1. CASE Next
    BY <2>1, KnowsAttempt, KnowsService DEF Next
  <2>2. CASE UNCHANGED vars
    BY <2>2 DEF vars, secret, history, KnowsInv, TypeOK, Knows, SparesAreLabelled
  <2>3. QED
    BY <2>1, <2>2
<1>2. QED
  BY <1>1, KnowsInit, PTL DEF Spec

\* A version that is not current bears the INIT_ label that initialize() gave it,
\* unless somebody other than an attempt removed the label.
THEOREM SparesStayLabelled == Spec => []SparesAreLabelled
BY KnowsAlways, PTL DEF KnowsInv

-----------------------------------------------------------------------------
(* One keyring *)

\* An attempt on its way to a version: until its request is over it is the only
\* one, and there is no version yet.
Asks(x) == pc[x] = "put" \/ x \in puts

SerialInv ==
  /\ \A x, y \in Attempts : pc[x] \in Running /\ pc[y] \in Running => x = y
  /\ \A x \in Attempts : x \in puts => pc[x] = "putting"
  /\ \A x \in Attempts : Asks(x) => versions = {}
  /\ \A x, y \in versions : x = y

Serial == ~overlapped /\ ~outlived => SerialInv

LEMMA SerialInit == Init => Serial
BY DEF Init, Serial, SerialInv, Asks, Running

LEMMA SerialDescribe ==
  ASSUME KnowsInv, Serial, ~overlapped', ~outlived', NEW x \in Attempts, Describe(x)
  PROVE  SerialInv'
<1>1. /\ UNCHANGED <<versions, puts, outlived>> /\ pc[x] = "describe"
      /\ pc' = [pc EXCEPT ![x] = "list"]
      /\ ~ overlapped /\ \A y \in Attempts : pc[y] \notin Running
  BY DEF Describe, Goto, Begin, secret
<1>2. pc \in [Attempts -> Labels]
  BY DEF KnowsInv, TypeOK
<1>3. pc'[x] = "list" /\ \A y \in Attempts : y # x => pc'[y] = pc[y]
  BY <1>1, <1>2
<1>4. SerialInv
  BY <1>1 DEF Serial
<1>5. \A y, z \in Attempts : pc'[y] \in Running /\ pc'[z] \in Running => y = z
  BY <1>1, <1>3
<1>6. ASSUME NEW y \in Attempts, y \in puts' PROVE pc'[y] = "putting"
  BY <1>1, <1>3, <1>4, <1>6 DEF SerialInv
<1>7. ASSUME NEW y \in Attempts, Asks(y)' PROVE versions' = {}
  BY <1>1, <1>3, <1>4, <1>7 DEF SerialInv, Asks
<1> QED
  BY <1>1, <1>4, <1>5, <1>6, <1>7 DEF SerialInv

LEMMA SerialAttempt ==
  ASSUME KnowsInv, Serial, ~overlapped', ~outlived', NEW x \in Attempts, Attempt(x)
  PROVE  SerialInv'
<1> USE DEF KnowsInv, TypeOK, Serial, SerialInv, Asks, Goto, Running, Ended, Begin, secret, history
<1>1. CASE Describe(x)
  BY <1>1, SerialDescribe
<1>2. CASE Refuse(x)
  BY <1>2 DEF Refuse
<1>3. CASE List(x)
  BY <1>3 DEF List
<1>4. CASE SendPut(x)
  BY <1>4 DEF SendPut
<1>5. CASE PutAnswered(x)
  BY <1>5 DEF PutAnswered
<1>6. CASE Inspect(x)
  BY <1>6 DEF Inspect
<1>7. CASE SendPromote(x)
  BY <1>7 DEF SendPromote
<1>8. CASE PromoteAnswered(x)
  BY <1>8 DEF PromoteAnswered
<1>9. CASE Verify(x)
  BY <1>9 DEF Verify
<1>10. CASE RemoveLabel(x)
  BY <1>10 DEF RemoveLabel
<1>11. CASE Fail(x)
  BY <1>11 DEF Fail
<1>12. QED
  BY <1>1, <1>2, <1>3, <1>4, <1>5, <1>6, <1>7, <1>8, <1>9, <1>10, <1>11 DEF Attempt

LEMMA SerialService ==
  ASSUME KnowsInv, Serial, ~overlapped', ~outlived', NEW x \in Attempts, Service(x)
  PROVE  SerialInv'
<1> USE DEF KnowsInv, TypeOK, Serial, SerialInv, Asks, Running, secret, history
<1>1. CASE ExecutePut(x)
  BY <1>1 DEF ExecutePut
<1>2. CASE ExecuteMove(x)
  BY <1>2 DEF ExecuteMove
<1>3. CASE Drop(x)
  BY <1>3 DEF Drop
<1>4. CASE Clean(x)
  BY <1>4 DEF Clean
<1>5. QED
  BY <1>1, <1>2, <1>3, <1>4 DEF Service

LEMMA SerialAlways == Spec => []Serial
<1>1. KnowsInv /\ Serial /\ [Next]_vars => Serial'
  <2> SUFFICES ASSUME KnowsInv, Serial, [Next]_vars, ~overlapped', ~outlived' PROVE SerialInv'
    BY DEF Serial
  <2>1. CASE Next
    BY <2>1, SerialAttempt, SerialService DEF Next
  <2>2. CASE UNCHANGED vars
    BY <2>2 DEF vars, secret, history, Serial, SerialInv, Asks
  <2>3. QED
    BY <2>1, <2>2
<1>2. QED
  BY <1>1, SerialInit, KnowsAlways, PTL DEF Spec

\* initialize() refuses a secret that has any version, so attempts that do not
\* overlap make one keyring at most.
THEOREM NoSecondKeyring == Spec => []OneKeyring
<1>1. Serial => OneKeyring
  <2> SUFFICES ASSUME Serial, ~overlapped, ~outlived PROVE Cardinality(versions) <= 1
    BY DEF OneKeyring
  <2>1. CASE versions = {}
    BY <2>1, FS_EmptySet
  <2>2. CASE versions # {}
    <3>1. PICK x : versions = {x}
      BY <2>2 DEF Serial, SerialInv
    <3>2. Cardinality({x}) = 1
      BY FS_Singleton
    <3>3. QED
      BY <3>1, <3>2
  <2>3. QED
    BY <2>1, <2>2
<1>2. QED
  BY <1>1, SerialAlways, PTL

-----------------------------------------------------------------------------
(* The current keyring is set once *)

LEMMA KeyringStep ==
  ASSUME KnowsInv, KnowsInv', NEW x \in Attempts, Attempt(x) \/ Service(x)
  PROVE  Keyring!Next \/ (current' = current
           /\ {y \in Attempts : pc'[y] = "verified"} = {y \in Attempts : pc[y] = "verified"})
<1> DEFINE Claimed == {y \in Attempts : pc[y] = "verified"}
<1> USE DEF KnowsInv, TypeOK, Knows, secret, history, Begin
<1>1. CASE RemoveLabel(x)
  <2>1. current = x /\ current' = current /\ Claimed' = Claimed \union {x}
    BY <1>1 DEF RemoveLabel, Goto
  <2>2. QED
    BY <2>1 DEF Keyring!Next, Keyring!Claim
<1>2. CASE ExecutePut(x)
  <2>1. Claimed' = Claimed
    BY <1>2 DEF ExecutePut
  <2>2. current' = current \/ (current = None /\ current' = x)
    BY <1>2 DEF ExecutePut, StagesCurrent
  <2>3. QED
    BY <2>1, <2>2 DEF Keyring!Next, Keyring!Set
<1>3. CASE ExecuteMove(x)
  <2>1. Claimed' = Claimed
    BY <1>3 DEF ExecuteMove
  <2>2. current' = current \/ (current = None /\ current' = x)
    BY <1>3 DEF ExecuteMove, RemoveFrom
  <2>3. QED
    BY <2>1, <2>2 DEF Keyring!Next, Keyring!Set
<1>4. CASE Attempt(x) /\ ~RemoveLabel(x)
  <2>1. current' = current
    BY <1>4 DEF Attempt, Describe, Refuse, List, SendPut, PutAnswered, Inspect, SendPromote,
                PromoteAnswered, Verify, Fail
  <2>2. PICK label \in Labels \ {"verified"} : pc[x] # "verified" /\ pc' = [pc EXCEPT ![x] = label]
    BY <1>4 DEF Attempt, Describe, Refuse, List, SendPut, PutAnswered, Inspect, SendPromote,
                PromoteAnswered, Verify, Fail, Goto, Labels, Running, Ended
  <2>3. Claimed' = Claimed
    BY <2>2
  <2>4. QED
    BY <2>1, <2>3
<1>5. CASE Drop(x) \/ Clean(x)
  BY <1>5 DEF Drop, Clean
<1>6. QED
  BY <1>1, <1>2, <1>3, <1>4, <1>5 DEF Service

\* However attempts race and however late their requests are executed, the
\* keyring that became current stays, and it is its maker who reports it.
THEOREM CurrentKeyringIsSetOnce == Spec => CurrentIsSetOnce
<1>1. Init => Keyring!Init
  BY DEF Init, Keyring!Init
<1>2. KnowsInv /\ KnowsInv' /\ [Next]_vars => [Keyring!Next]_(Keyring!vars)
  <2> SUFFICES ASSUME KnowsInv, KnowsInv', [Next]_vars
               PROVE  [Keyring!Next]_(Keyring!vars)
    OBVIOUS
  <2>1. CASE Next
    BY <2>1, KeyringStep DEF Next, Keyring!vars
  <2>2. CASE UNCHANGED vars
    BY <2>2 DEF vars, secret, history, Keyring!vars
  <2>3. QED
    BY <2>1, <2>2
<1>3. Spec => Keyring!Init /\ [][Keyring!Next]_(Keyring!vars)
  BY <1>1, <1>2, KnowsAlways, PTL DEF Spec
<1>4. QED
  BY <1>3 DEF CurrentIsSetOnce, Keyring!Spec
=============================================================================

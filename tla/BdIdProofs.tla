----------------------------- MODULE BdIdProofs -----------------------------
(***************************************************************************)
(* Proofs about the BD id generator, for any set of channels and any       *)
(* lists of valid ids.                                                     *)
(***************************************************************************)
EXTENDS BdIdRotation, WellFoundedInduction, TLAPS

(* Whatever an id is picked from, Pick returns available ids only.         *)
LEMMA PickIsAvailable ==
    ASSUME NEW c, NEW m, NEW S, NEW last, NEW b \in Pick(c, m, S, last)
    PROVE  b \in Available(c, S)
  BY DEF Pick, First

(* Every available id is a BD id.                                          *)
LEMMA AvailableIsBdId ==
    ASSUME NEW c, NEW S
    PROVE  Available(c, S) \subseteq BdId \ S
  BY ValidBdIdsAssumption DEF Available, BdId

(* The variables keep their types: only ids below the bound are ever       *)
(* assigned, remembered or returned.                                       *)
THEOREM TypeCorrect == Spec => []TypeOK
  <1>1. Init => TypeOK
    BY DEF Init, TypeOK
  <1>2. TypeOK /\ [Next]_vars => TypeOK'
    <2> SUFFICES ASSUME TypeOK, [Next]_vars PROVE TypeOK'
      OBVIOUS
    <2>1. CASE UNCHANGED vars
      BY <2>1 DEF TypeOK, vars
    <2>2. ASSUME NEW c \in Channel, NEW m \in Modes, GetAndAssign(c, m)
          PROVE  TypeOK'
      <3>1. PICK b \in Pick(c, m, assignedBdIds, lastUsedBdId) :
                AssignBdId(b) /\ asked' = c /\ result' = b
        BY <2>2 DEF GetAndAssign
      <3>2. b \in BdId
        BY PickIsAvailable, AvailableIsBdId
      <3> QED
        BY <3>1, <3>2 DEF TypeOK, AssignBdId
    <2>3. ASSUME NEW c \in Channel, NEW m \in Modes, GetFails(c, m)
          PROVE  TypeOK'
      BY <2>3 DEF TypeOK, GetFails
    <2>4. ASSUME NEW b \in assignedBdIds, Release(b) PROVE TypeOK'
      BY <2>4 DEF TypeOK, Release
    <2>5. ASSUME NEW b \in BdId, Reserve(b) PROVE TypeOK'
      BY <2>5 DEF TypeOK, Reserve, AssignBdId
    <2> QED
      BY <2>1, <2>2, <2>3, <2>4, <2>5 DEF Next
  <1> QED
    BY <1>1, <1>2, PTL DEF Spec

-----------------------------------------------------------------------------
(* An id handed out was free and belongs to the channel: the step is one   *)
(* the abstract pool allows.                                               *)
LEMMA GrantStep ==
    ASSUME NEW c \in Channel, NEW m \in Modes, GetAndAssign(c, m)
    PROVE  Pool!Grant(c)
  <1>1. PICK b \in Pick(c, m, assignedBdIds, lastUsedBdId) :
            AssignBdId(b) /\ asked' = c /\ result' = b
    BY DEF GetAndAssign
  <1>2. b \in Pool!Allowed(c) \ assignedBdIds
    BY PickIsAvailable DEF Available, Pool!Allowed
  <1> QED
    BY <1>1, <1>2 DEF Pool!Grant, AssignBdId

-----------------------------------------------------------------------------
(* IdleLiesAhead is inductive together with the type of idle and the fact  *)
(* that idle ids are ids of the shared list.                               *)
RTypeOK == idle \in [BdId -> SUBSET BdId]

IdleIsValid ==
    \A b \in BdId : \A x \in idle[b] : \A c \in Sharing \cap DOMAIN ValidBdIds :
        x \in ValidBdIds[c]

RInv == RTypeOK /\ IdleIsValid /\ IdleLiesAhead

(* The id Incremental mode picks is the first available one going up from  *)
(* the last id and around: no other available id is met before it.         *)
LEMMA PickIsNext ==
    ASSUME NEW c, NEW S, NEW last \in BdId,
           NEW b \in Pick(c, "Incremental", S, last),
           NEW x \in Available(c, S)
    PROVE  /\ b \in BdId /\ x \in BdId
           /\ ~Before(last, x, b)
  <1>1. b \in Available(c, S)
    BY PickIsAvailable
  <1>2. Available(c, S) \subseteq BdId
    BY AvailableIsBdId
  <1>3. BdId \subseteq Int
    BY BoundAssumption DEF BdId
  <1> DEFINE above == {i \in Available(c, S) : i > last}
  <1>4. last \in Int /\ b \in Int /\ x \in Int
    BY <1>1, <1>2, <1>3
  <1>5. CASE above # {}
    <2>1. b \in above /\ \A j \in above : b <= j
      BY <1>5 DEF Pick, First
    <2>2. b > last /\ (x > last => b <= x)
      BY <2>1
    <2> QED
      BY <1>1, <1>2, <1>4, <2>2 DEF Before
  <1>6. CASE above = {}
    <2>1. b \in First(Available(c, S) \ above)
      BY <1>6 DEF Pick
    <2>2. ~(x > last) /\ ~(b > last) /\ b <= x
      BY <1>1, <1>6, <2>1 DEF First
    <2> QED
      BY <1>1, <1>2, <1>4, <2>2 DEF Before
  <1> QED
    BY <1>5, <1>6

(* Handing out b keeps every idle id of another id a ahead of a.           *)
LEMMA BeforeShifts ==
    ASSUME NEW last \in Int, NEW x \in Int, NEW a \in Int, NEW b \in Int,
           Before(last, x, a), ~Before(last, x, b), x # b, a # b
    PROVE  Before(b, x, a)
  BY DEF Before

(* Just after b was handed out every other id is met before b.             *)
LEMMA BeforeSelf ==
    ASSUME NEW x \in Int, NEW b \in Int, x # b
    PROVE  Before(b, x, b)
  BY DEF Before

-----------------------------------------------------------------------------
(* A list that still has an id has a first one.                            *)
LEMMA FirstExists ==
    ASSUME NEW S \in SUBSET Nat, S # {}
    PROVE  First(S) # {}
  <1> DEFINE R == OpToRel(<, Nat)
  <1>1. \E x \in S : \A y \in S : <<y, x>> \notin R
    <2>1. IsWellFoundedOn(R, Nat)
      BY NatLessThanWellFounded
    <2> HIDE DEF R
    <2> QED
      BY <2>1, WFMin
  <1>2. PICK x \in S : \A y \in S : <<y, x>> \notin R
    BY <1>1
  <1>3. \A y \in S : x <= y
    <2> SUFFICES ASSUME NEW y \in S PROVE x <= y
      OBVIOUS
    <2>1. ~(y < x)
      BY <1>2 DEF OpToRel
    <2> QED
      BY <2>1
  <1> QED
    BY <1>3 DEF First

(* A request is refused only when the channel has no id left: the two      *)
(* scans of Incremental mode together see the whole list.                  *)
LEMMA RefuseStep ==
    ASSUME NEW c \in Channel, NEW m \in Modes, GetFails(c, m)
    PROVE  Pool!Refuse(c)
  <1> DEFINE free == Available(c, assignedBdIds)
             above == {i \in free : i > lastUsedBdId}
  <1>1. free \in SUBSET Nat
    BY AvailableIsBdId, BoundAssumption DEF BdId
  <1>2. above \in SUBSET Nat /\ free \ above \in SUBSET Nat
    BY <1>1
  <1>3. free = {}
    <2> SUFFICES ASSUME free # {} PROVE FALSE
      OBVIOUS
    <2>1. Pick(c, m, assignedBdIds, lastUsedBdId) = {}
      BY DEF GetFails
    <2>2. CASE m = "Smallest"
      BY <1>1, <2>1, <2>2, FirstExists DEF Pick
    <2>3. CASE m # "Smallest" /\ above # {}
      BY <1>2, <2>1, <2>3, FirstExists DEF Pick
    <2>4. CASE m # "Smallest" /\ above = {}
      <3>1. free \ above # {}
        BY <2>4
      <3> QED
        BY <1>2, <2>1, <2>4, <3>1, FirstExists DEF Pick
    <2> QED
      BY <2>2, <2>3, <2>4
  <1>4. Pool!Allowed(c) \subseteq assignedBdIds
    BY <1>3 DEF Available, Pool!Allowed
  <1> QED
    BY <1>4 DEF GetFails, Pool!Refuse

(* The generator implements the abstract pool: every answer it gives is    *)
(* one the pool may give, and it refuses only when the pool must.          *)
THEOREM GeneratorImplementsPool == Spec => PoolSpec
  <1>1. Init => Pool!Init
    BY DEF Init, Pool!Init
  <1>2. [Next]_vars => [Pool!Next]_<<assignedBdIds, asked, result>>
    <2> SUFFICES ASSUME [Next]_vars
                 PROVE  Pool!Next \/ UNCHANGED <<assignedBdIds, asked, result>>
      OBVIOUS
    <2>1. CASE UNCHANGED vars
      BY <2>1 DEF vars
    <2>2. ASSUME NEW c \in Channel, NEW m \in Modes, GetAndAssign(c, m)
          PROVE  Pool!Next
      BY <2>2, GrantStep DEF Pool!Next
    <2>3. ASSUME NEW c \in Channel, NEW m \in Modes, GetFails(c, m)
          PROVE  Pool!Next
      BY <2>3, RefuseStep DEF Pool!Next
    <2>4. ASSUME NEW b \in assignedBdIds, Release(b) PROVE Pool!Next
      BY <2>4 DEF Release, Pool!Next, Pool!Free
    <2>5. ASSUME NEW b \in BdId, Reserve(b) PROVE Pool!Next
      BY <2>5 DEF Reserve, AssignBdId, Pool!Next, Pool!Take
    <2> QED
      BY <2>1, <2>2, <2>3, <2>4, <2>5 DEF Next
  <1> QED
    BY <1>1, <1>2, PTL DEF Spec, PoolSpec, Pool!Spec

-----------------------------------------------------------------------------
(* Handing out an id preserves the rotation invariant.                     *)
LEMMA GetKeepsRotation ==
    ASSUME RInv, NEW c \in Sharing, RGet(c)
    PROVE  RInv'
  <1>1. PICK b \in Pick(c, "Incremental", assignedBdIds, lastUsedBdId) :
            AssignBdId(b) /\ result' = b
    BY DEF RGet, GetAndAssign
  <1>2. b \in Available(c, assignedBdIds) /\ b \in BdId /\ b \in Int
    BY PickIsAvailable, AvailableIsBdId, BoundAssumption DEF BdId
  <1>3. assignedBdIds' = assignedBdIds \cup {b} /\ lastUsedBdId' = b
    BY <1>1 DEF AssignBdId
  <1>4. idle' = [a \in BdId |-> IF a = b THEN Available(c, assignedBdIds')
                                ELSE idle[a] \ {b}]
    BY <1>1 DEF RGet
  <1>5. RTypeOK'
    <2>1. Available(c, assignedBdIds') \subseteq BdId
      BY AvailableIsBdId
    <2> QED
      BY <1>2, <1>3, <1>4, <2>1 DEF RInv, RTypeOK
  <1>6. IdleIsValid'
    <2>1. \A x \in Available(c, assignedBdIds'), d \in Sharing \cap DOMAIN ValidBdIds :
              x \in ValidBdIds[d]
      BY SharedListAssumption DEF Available
    <2> QED
      BY <1>2, <1>4, <2>1 DEF RInv, RTypeOK, IdleIsValid
  <1>7. ASSUME NEW a \in BdId, NEW x \in idle'[a]
        PROVE  /\ x \in BdId \ assignedBdIds'
               /\ Before(b, x, a)
    <2>0. BdId \subseteq Int
      BY BoundAssumption DEF BdId
    <2>1. CASE a = b
      <3>1. x \in Available(c, assignedBdIds')
        BY <1>4, <1>7, <2>1
      <3>2. x \in BdId \ assignedBdIds'
        BY <3>1, AvailableIsBdId
      <3>3. x # b
        BY <1>3, <3>2
      <3> QED
        BY <1>2, <2>0, <2>1, <3>2, <3>3, BeforeSelf
    <2>2. CASE a # b
      <3>1. x \in idle[a] /\ x # b
        BY <1>4, <1>7, <2>2
      <3>2. /\ x \in BdId \ assignedBdIds
            /\ lastUsedBdId \in BdId
            /\ Before(lastUsedBdId, x, a)
        BY <3>1 DEF RInv, IdleLiesAhead
      <3>3. x \in Available(c, assignedBdIds)
        BY <1>2, <3>1, <3>2 DEF RInv, IdleIsValid, Available
      <3>4. ~Before(lastUsedBdId, x, b)
        BY <3>2, <3>3, PickIsNext
      <3>5. Before(b, x, a)
        BY <1>2, <2>0, <2>2, <3>1, <3>2, <3>4, BeforeShifts
      <3> QED
        BY <1>3, <3>1, <3>2, <3>5
    <2> QED
      BY <2>1, <2>2
  <1> QED
    BY <1>2, <1>3, <1>5, <1>6, <1>7 DEF RInv, IdleLiesAhead

(* Along every run with Incremental requests on a shared list, the ids     *)
(* that stayed free since b was handed out lie between the last id handed  *)
(* out and b.                                                              *)
THEOREM RotationInvariant == RSpec => []RInv
  <1>1. RInit => RInv
    BY DEF RInit, RInv, RTypeOK, IdleIsValid, IdleLiesAhead
  <1>2. RInv /\ [RNext]_rvars => RInv'
    <2> SUFFICES ASSUME RInv, [RNext]_rvars PROVE RInv'
      OBVIOUS
    <2>1. CASE UNCHANGED rvars
      BY <2>1 DEF rvars, vars, RInv, RTypeOK, IdleIsValid, IdleLiesAhead
    <2>2. ASSUME NEW c \in Sharing, RGet(c) PROVE RInv'
      BY <2>2, GetKeepsRotation
    <2>3. ASSUME NEW c \in Sharing, RGetFails(c) PROVE RInv'
      BY <2>3 DEF RGetFails, GetFails, RInv, RTypeOK, IdleIsValid, IdleLiesAhead
    <2>4. ASSUME NEW b \in assignedBdIds, RRelease(b) PROVE RInv'
      BY <2>4 DEF RRelease, Release, RInv, RTypeOK, IdleIsValid, IdleLiesAhead
    <2> QED
      BY <2>1, <2>2, <2>3, <2>4 DEF RNext
  <1> QED
    BY <1>1, <1>2, PTL DEF RSpec

(* An idle id always lies between the last id handed out and the id it is  *)
(* idle for, going up and around the tile's ids.                           *)
THEOREM IdleIdsLieAhead == RSpec => []IdleLiesAhead
  <1>1. RInv => IdleLiesAhead
    BY DEF RInv
  <1> QED
    BY <1>1, RotationInvariant, PTL

(* Incremental mode reuses the id that has been idle for longest: no id is *)
(* handed out again while another id of the channel stayed free ever since *)
(* it was handed out before.                                               *)
THEOREM IncrementalIsLeastRecentlyUsed == RSpec => LeastRecentlyUsed
  <1> DEFINE Reuse == \A b \in BdId :
                 b \notin assignedBdIds /\ b \in assignedBdIds' => idle[b] = {}
  <1>1. RInv /\ [RNext]_rvars => [Reuse]_rvars
    <2> SUFFICES ASSUME RInv, RNext PROVE Reuse
      OBVIOUS
    <2>1. ASSUME NEW c \in Sharing, RGet(c) PROVE Reuse
      <3>1. PICK b \in Pick(c, "Incremental", assignedBdIds, lastUsedBdId) :
                AssignBdId(b)
        BY <2>1 DEF RGet, GetAndAssign
      <3>2. c \in DOMAIN ValidBdIds
        BY PickIsAvailable DEF Available
      <3>3. ASSUME NEW x \in idle[b], b \in BdId PROVE FALSE
        <4>1. /\ x \in Available(c, assignedBdIds)
              /\ lastUsedBdId \in BdId
              /\ Before(lastUsedBdId, x, b)
          BY <3>2, <3>3 DEF RInv, IdleIsValid, IdleLiesAhead, Available
        <4> QED
          BY <4>1, PickIsNext
      <3> QED
        BY <3>1, <3>3 DEF AssignBdId
    <2>2. ASSUME NEW c \in Sharing, RGetFails(c) PROVE Reuse
      BY <2>2 DEF RGetFails, GetFails
    <2>3. ASSUME NEW b \in assignedBdIds, RRelease(b) PROVE Reuse
      BY <2>3 DEF RRelease, Release
    <2> QED
      BY <2>1, <2>2, <2>3 DEF RNext
  <1> QED
    BY <1>1, RotationInvariant, PTL DEF RSpec, LeastRecentlyUsed
=============================================================================

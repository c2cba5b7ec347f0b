---------------------------- MODULE BdIdRotation ----------------------------
(***************************************************************************)
(* The order in which Incremental mode hands out ids, with a history       *)
(* variable.  AMDAIEAssignNpuDmaBdIds releases the ids of a batch as soon  *)
(* as it has processed it and relies on the generator to come back to an   *)
(* id as late as it can, which is what lets InsertDmaBdChain link many     *)
(* transfers before two of them share an id.                               *)
(***************************************************************************)
EXTENDS ChannelBdIdGenerator

CONSTANT Sharing   \* channels that share one list, as those of a shim tile

(* Incremental mode is only used for shim tiles.                           *)
ASSUME SharedListAssumption ==
    /\ Sharing \subseteq Channel
    /\ \A c, d \in Sharing \cap DOMAIN ValidBdIds : ValidBdIds[c] = ValidBdIds[d]

VARIABLE idle   \* idle[b]: ids free without interruption since b was last
                \* handed out; {} before the first time

rvars == <<vars, idle>>

RInit == Init /\ idle = [b \in BdId |-> {}]

(* After handing out b every id that is still free starts to be idle for   *)
(* b, and b is no longer idle for any other id.                            *)
RGet(c) ==
    /\ GetAndAssign(c, "Incremental")
    /\ idle' = [b \in BdId |-> IF b = result' THEN Available(c, assignedBdIds')
                               ELSE idle[b] \ {result'}]

RGetFails(c) == GetFails(c, "Incremental") /\ UNCHANGED idle

RRelease(b) == Release(b) /\ UNCHANGED idle

RNext == \/ \E c \in Sharing : RGet(c) \/ RGetFails(c)
         \/ \E b \in assignedBdIds : RRelease(b)

RSpec == RInit /\ [][RNext]_rvars

-----------------------------------------------------------------------------
(* Least recently used first: the generator hands an id out a second time  *)
(* only when no other id of the channel stayed free ever since the first   *)
(* time.  The code keeps no such history: it has one lastUsedBdId and two  *)
(* scans of an ascending list (getAndAssignBdId).                          *)
LeastRecentlyUsed ==
    [][\A b \in BdId : b \notin assignedBdIds /\ b \in assignedBdIds'
                          => idle[b] = {}]_rvars

(* Going up from `last' and around, x is met before b.                     *)
Before(last, x, b) == \/ last < x /\ x < b
                      \/ x < b /\ b <= last
                      \/ b <= last /\ last < x

(* Why it holds: an idle id of b always lies between the last id handed    *)
(* out and b, going up and around.                                         *)
IdleLiesAhead ==
    \A b \in BdId : \A x \in idle[b] :
        /\ x \in BdId \ assignedBdIds
        /\ lastUsedBdId \in BdId
        /\ Before(lastUsedBdId, x, b)
=============================================================================

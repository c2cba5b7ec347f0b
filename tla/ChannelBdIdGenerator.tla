------------------------ MODULE ChannelBdIdGenerator ------------------------
(***************************************************************************)
(* The allocator of buffer-descriptor (BD) ids of one tile, class          *)
(* ChannelBdIdGenerator.  A tile has a pool of BD ids; each of its DMA     *)
(* channels may use some of them (all 16 on a shim tile, the lower or the  *)
(* upper 24 on a mem tile).  AMDAIEAssignNpuDmaBdIds asks for ids in       *)
(* Incremental mode and releases them, AMDAIEAssignBufferDescriptorIDs     *)
(* reserves the ids already in the program and then asks in Smallest mode. *)
(***************************************************************************)
EXTENDS Integers, FiniteSets

CONSTANTS
    Channel,      \* the channel indices callers ask for
    ValidBdIds,   \* channelToValidBdIds: [some channels -> sets of BD ids]
    BdIdBound,    \* BD ids are below this bound
    UINT32_MAX,   \* lastUsedBdId before any id was handed out
    Modes         \* the BdIdAssignmentModes the callers use

ASSUME BoundAssumption == BdIdBound \in Nat /\ UINT32_MAX \in Nat
                          /\ UINT32_MAX >= BdIdBound
ASSUME ModesAssumption == Modes \subseteq {"Smallest", "Incremental"}
ASSUME ValidBdIdsAssumption ==
    /\ DOMAIN ValidBdIds \subseteq Channel
    /\ \A c \in DOMAIN ValidBdIds : ValidBdIds[c] \subseteq 0 .. BdIdBound - 1

NullOpt == -1                    \* std::nullopt
BdId == 0 .. BdIdBound - 1

VARIABLES
    assignedBdIds,   \* the ids currently assigned
    lastUsedBdId,    \* the last id handed out or reserved
    asked, result    \* the channel of the last call of getAndAssignBdId and
                     \* what it returned, NullOpt before the first

vars == <<assignedBdIds, lastUsedBdId, asked, result>>

Init == /\ assignedBdIds = {}
        /\ lastUsedBdId = UINT32_MAX
        /\ asked = NullOpt /\ result = NullOpt

-----------------------------------------------------------------------------
(* The ids of a channel's list that are not assigned.                      *)
Available(channel, assigned) ==
    IF channel \in DOMAIN ValidBdIds THEN ValidBdIds[channel] \ assigned ELSE {}

(* getNumAvailableBdIds *)
GetNumAvailableBdIds(channel) == Cardinality(Available(channel, assignedBdIds))

(* The first id of a list in the code's ascending order, as a set: empty   *)
(* when the list is.                                                       *)
First(ids) == {i \in ids : \A j \in ids : i <= j}

(* Mutants: no wrap-around; the first free id in either mode.              *)
PickNoWrap(channel, mode, assigned, last) ==
    LET free == Available(channel, assigned)
    IN IF mode = "Smallest" \/ last = UINT32_MAX THEN First(free)
       ELSE First({i \in free : i > last})
PickFirst(channel, mode, assigned, last) == First(Available(channel, assigned))

(* The ids getAndAssignBdId may return: one id, or none for std::nullopt.  *)
Pick(channel, mode, assigned, last) ==
    LET free  == Available(channel, assigned)
        above == {i \in free : i > last}
    IN IF mode = "Smallest" THEN First(free)
       ELSE IF above # {} THEN First(above)
       ELSE First(free \ above)          \* wrap around

(* Mutant: only a higher id is remembered as the last used.                *)
AssignKeepsMax(bdId) ==
    /\ assignedBdIds' = assignedBdIds \cup {bdId}
    /\ lastUsedBdId' = IF lastUsedBdId = UINT32_MAX \/ bdId > lastUsedBdId
                       THEN bdId ELSE lastUsedBdId

(* assignBdId *)
AssignBdId(bdId) ==
    /\ assignedBdIds' = assignedBdIds \cup {bdId}
    /\ lastUsedBdId' = bdId

(* A caller reserves an id that is already in the program.                 *)
Reserve(bdId) ==
    /\ AssignBdId(bdId)
    /\ UNCHANGED <<asked, result>>

(* getAndAssignBdId returns an id ...                                      *)
GetAndAssign(channel, mode) ==
    \E bdId \in Pick(channel, mode, assignedBdIds, lastUsedBdId) :
        /\ AssignBdId(bdId)
        /\ asked' = channel /\ result' = bdId

(* ... or std::nullopt.                                                    *)
GetFails(channel, mode) ==
    /\ Pick(channel, mode, assignedBdIds, lastUsedBdId) = {}
    /\ asked' = channel /\ result' = NullOpt
    /\ UNCHANGED <<assignedBdIds, lastUsedBdId>>

(* releaseBdId erases an id; lastUsedBdId stays.                           *)
Release(bdId) ==
    /\ assignedBdIds' = assignedBdIds \ {bdId}
    /\ UNCHANGED <<lastUsedBdId, asked, result>>

Next == \/ \E c \in Channel, m \in Modes : GetAndAssign(c, m) \/ GetFails(c, m)
        \/ \E b \in assignedBdIds : Release(b)
        \/ /\ "Smallest" \in Modes
           /\ \E b \in BdId : Reserve(b)

Spec == Init /\ [][Next]_vars

-----------------------------------------------------------------------------
TypeOK == /\ assignedBdIds \subseteq BdId
          /\ lastUsedBdId \in BdId \cup {UINT32_MAX}
          /\ asked \in Channel \cup {NullOpt}
          /\ result \in BdId \cup {NullOpt}

(* The generator promises what a plain pool of ids does (module BdIdPool): *)
(* a call answers with an id of its channel that nobody holds, and with    *)
(* std::nullopt only when every id of the channel is held -- whatever was  *)
(* handed out, reserved and released before, and wherever lastUsedBdId     *)
(* points (IncrementalWrap and Release in ChannelBdIdGeneratorTest.cpp     *)
(* walk two of these histories).                                           *)
Pool == INSTANCE BdIdPool WITH held <- assignedBdIds, reply <- result
PoolSpec == Pool!Spec
=============================================================================

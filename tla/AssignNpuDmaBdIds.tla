-------------------------- MODULE AssignNpuDmaBdIds --------------------------
(***************************************************************************)
(* The pass AssignNpuDmaBdIds.  It walks the control code, whose loops are *)
(* not unrolled yet, and groups the DMAs of each shim tile into batches    *)
(* (createTileDmaBatchGraph); then it gives the DMAs of each batch their   *)
(* BD ids, a constant one or, in a loop, a range of ids that an expression *)
(* in the induction variable goes through, and takes the ids back when the *)
(* batches inside were served (BdIdAssignmentUtil).                        *)
(*                                                                         *)
(* The control code is chosen while it is walked: DMAs, waits and loops    *)
(* with constant bounds, properly nested.                                  *)
(***************************************************************************)
EXTENDS Integers, FiniteSets, Sequences, SequencesExt

CONSTANTS
    Tile,        \* the shim tiles
    NumBdIds,    \* BD ids of a tile: 0 .. NumBdIds - 1 (16 on a shim tile)
    Loops,       \* the [ub, step, forall] of the loops used: constant bounds,
                 \* from 0, and whether it is an scf.forall, not an scf.for
    MaxDmas, MaxLoops, MaxDepth   \* bounds on the control code

ASSUME NumAssumption == NumBdIds \in Nat \ {0}
ASSUME TileAssumption == IsFiniteSet(Tile)
ASSUME LoopsAssumption == Loops \subseteq [ub : Nat, step : Nat \ {0}, forall : BOOLEAN]

VARIABLES
    phase,      \* "walk", "assign", then "done" or "failed"
    dmas,       \* the DMAs in program order: tile, innermost loop, extent
    loops,      \* the loops entered so far
    clock,      \* operations walked
    frames,     \* the walks under way, one per enclosing region, innermost
                \* last: loop, batches per tile, currDmaOp, DMAs not awaited
    work,       \* batches still to be assigned or released
    assigned, lastUsed,   \* the generator of each tile
    bdIdOps     \* per DMA: its offset, the size of its range, and the ids
                \* bdIdOpToBdIdsMap records for it

vars == <<phase, dmas, loops, clock, frames, work, assigned, lastUsed, bdIdOps>>

Gen(t) == INSTANCE ChannelBdIdGenerator WITH
    Channel <- {0}, ValidBdIds <- [c \in {0} |-> 0 .. NumBdIds - 1],
    BdIdBound <- NumBdIds, UINT32_MAX <- NumBdIds + 1, Modes <- {"Incremental"},
    assignedBdIds <- assigned[t], lastUsedBdId <- lastUsed[t], asked <- 0, result <- -1

NoDma == 0
NoLoop == 0                            \* not in an scf.for, or in no loop

(* getNumberIterations *)
NumIterations(l) == 1 + (loops[l].ub \div loops[l].step)

-----------------------------------------------------------------------------
(* A batch: its DMAs, the batches inside, the enclosing loop, and what     *)
(* getRequiredBdIdsForInnerBatches computes for it.                        *)
EmptyBatch(l) == [ops |-> <<>>, inner |-> <<>>, loop |-> l, innerReq |-> 0]
IsEmpty(b) == b.ops = <<>> /\ b.inner = <<>>
Required(b) == Len(b.ops) + b.innerReq

(* What an inner batch adds to the requirement of the batch around it.     *)
AddedBy(b) ==
    Len(b.ops) + (IF b.loop = NoLoop THEN 0 ELSE b.innerReq * NumIterations(b.loop))

(* A new TileDmaBatchGraph for region l; only an scf.for is a forOpParent. *)
NewFrame(l, forOpParent) ==
    [loop |-> l, graph |-> [t \in Tile |-> <<EmptyBatch(forOpParent)>>],
     curr |-> NoDma, open |-> {}]

Init == /\ phase = "walk"
        /\ dmas = <<>> /\ loops = <<>> /\ clock = 0
        /\ frames = <<NewFrame(NoLoop, NoLoop)>>
        /\ work = <<>>
        /\ assigned = [t \in Tile |-> {}]
        /\ lastUsed = [t \in Tile |-> NumBdIds + 1]
        /\ bdIdOps = <<>>

Top == Last(frames)
Region == Top.loop
SetLast(seq, e) == [seq EXCEPT ![Len(seq)] = e]

Walk == phase = "walk" /\ clock' = clock + 1
        /\ UNCHANGED <<work, assigned, lastUsed, bdIdOps>>

(* The waits of a group of DMAs come before the next DMA or loop once the  *)
(* first DMA of the group was awaited: the DMAs nest, or are all awaited   *)
(* one after the other.                                                    *)
GroupAwaited == Top.curr = NoDma => Top.open = {}

(* addDmaToBatch, processNpuDmaCpyNdOp *)
AddDma(b, i) == [b EXCEPT !.ops = Append(@, i)]
VisitDma(t) ==
    /\ Walk /\ Len(dmas) < MaxDmas /\ GroupAwaited
    /\ LET i == Len(dmas) + 1
       IN /\ dmas' = Append(dmas, [tile |-> t, loop |-> Region,
                                   begin |-> clock, end |-> -1])
          /\ frames' = SetLast(frames, [Top EXCEPT
                !.graph[t] = SetLast(@, AddDma(Last(@), i)),
                !.curr = IF @ = NoDma THEN i ELSE @,
                !.open = @ \cup {i}])
    /\ UNCHANGED <<phase, loops>>

(* processNpuDmaWaitOp: the wait on the first DMA since the last such wait *)
(* ends the batch of that DMA's tile.                                      *)
VisitWait ==
    /\ Walk
    /\ \E i \in Top.open :
        LET t == dmas[i].tile
        IN /\ dmas' = [dmas EXCEPT ![i].end = clock]
           /\ frames' = SetLast(frames, [Top EXCEPT
                !.graph[t] = IF i = Top.curr
                             THEN Append(@, EmptyBatch(Last(@).loop)) ELSE @,
                !.curr = IF i = @ THEN NoDma ELSE @,
                !.open = @ \ {i}])
    /\ UNCHANGED <<phase, loops>>

(* processOpWithNestedRegion: a recursive call for the loop ...            *)
EnterLoop(l) ==
    /\ Walk /\ Len(loops) < MaxLoops /\ Len(frames) <= MaxDepth /\ GroupAwaited
    /\ loops' = Append(loops, l)
    /\ frames' = Append(frames,
            NewFrame(Len(loops'), IF l.forall THEN NoLoop ELSE Len(loops')))
    /\ UNCHANGED <<phase, dmas>>

(* ... whose batches become inner batches of the last batch of their tile, *)
(* one after the other (updateInnerBatchesOfLastBatch).                    *)
AdoptBatch(b, c) ==
    IF IsEmpty(c) THEN b
    ELSE [b EXCEPT !.inner = Append(@, c), !.innerReq = @ + AddedBy(c)]
Adopt(b, batches) ==
    LET upTo[n \in 0 .. Len(batches)] ==
          IF n = 0 THEN b ELSE AdoptBatch(upTo[n - 1], batches[n])
    IN upTo[Len(batches)]
LeaveLoop ==
    /\ Walk /\ Len(frames) > 1 /\ Top.open = {}
    /\ \E i \in DOMAIN dmas : dmas[i].loop = Region
    /\ LET outer == Last(Front(frames))
           graph == [t \in Tile |->
               SetLast(outer.graph[t], Adopt(Last(outer.graph[t]), Top.graph[t]))]
       IN frames' = SetLast(Front(frames), [outer EXCEPT !.graph = graph])
    /\ UNCHANGED <<phase, dmas, loops>>

-----------------------------------------------------------------------------
Assign(t, b)  == [step |-> "assign", tile |-> t, batch |-> b]
Release(t, b) == [step |-> "release", tile |-> t, batch |-> b]

(* assignRequiredBdIdsInBatch goes through the batches of every tile.      *)
StartAssigning ==
    /\ phase = "walk" /\ Len(frames) = 1 /\ Top.open = {} /\ dmas # <<>>
    /\ phase' = "assign"
    /\ work' = FlattenSeq([k \in 1 .. Cardinality(Tile) |->
                 LET t == SetToSeq(Tile)[k]
                 IN [m \in DOMAIN Top.graph[t] |-> Assign(t, Top.graph[t][m])]])
    /\ bdIdOps' = [i \in DOMAIN dmas |-> [offset |-> 0, size |-> 0, ids |-> <<>>]]
    /\ UNCHANGED <<dmas, loops, clock, frames, assigned, lastUsed>>

(* processDmaBatch: after the DMAs of a batch the batches inside it, then  *)
(* the release of its ids (mutant: the release comes first).               *)
ReleaseFirst(t, b) ==
    <<Release(t, b)>> \o [m \in DOMAIN b.inner |-> Assign(t, b.inner[m])]
StepsInside(t, b) ==
    [m \in DOMAIN b.inner |-> Assign(t, b.inner[m])] \o <<Release(t, b)>>

(* The number of ids for each DMA of a batch.                              *)
SizeOf(t, b) ==
    LET perDma == Cardinality(Gen(t)!Available(0, assigned[t])) \div Required(b)
    IN IF b.loop # NoLoop /\ perDma > 1 THEN perDma ELSE 1

(* A call of getAndAssignBdId, and n of them in a row: the ids, and the    *)
(* generator after.                                                        *)
TakeId(t, g) ==
    LET next == Gen(t)!Pick(0, "Incremental", g.assigned, g.last)
        id == CHOOSE i \in next : TRUE
    IN IF next = {} THEN g
       ELSE [ids |-> Append(g.ids, id), assigned |-> g.assigned \cup {id}, last |-> id]
TakeIds(t, n) ==
    LET take[k \in 0 .. n] ==
          IF k = 0 THEN [ids |-> <<>>, assigned |-> assigned[t], last |-> lastUsed[t]]
          ELSE TakeId(t, take[k - 1])
    IN take[n]

(* assignRequiredBdIdsInCurrentBatch: ids for the DMAs of a batch in turn. *)
AssignBatch ==
    /\ phase = "assign" /\ work # <<>> /\ Head(work).step = "assign"
    /\ LET t == Head(work).tile
           b == Head(work).batch
           n == IF b.ops = <<>> THEN 1 ELSE SizeOf(t, b)
           taken == TakeIds(t, n * Len(b.ops))
           ids(k) == SubSeq(taken.ids, (k - 1) * n + 1, k * n)
       IN \/ /\ Len(taken.ids) = n * Len(b.ops)
             /\ assigned' = [assigned EXCEPT ![t] = taken.assigned]
             /\ lastUsed' = [lastUsed EXCEPT ![t] = taken.last]
             /\ bdIdOps' = [i \in DOMAIN bdIdOps |->
                    IF i \notin ToSet(b.ops) THEN bdIdOps[i]
                    ELSE LET k == CHOOSE m \in DOMAIN b.ops : b.ops[m] = i
                         IN [offset |-> ids(k)[1], size |-> n, ids |-> ids(k)]]
             /\ work' = StepsInside(t, b) \o Tail(work)
             /\ phase' = phase
          \/ /\ Len(taken.ids) < n * Len(b.ops)       \* "no BD ID available"
             /\ phase' = "failed"
             /\ UNCHANGED <<assigned, lastUsed, bdIdOps, work>>
    /\ UNCHANGED <<dmas, loops, clock, frames>>

(* releaseBdId: the ids given back for DMA i (mutant: only the first of    *)
(* its range).                                                             *)
FirstBdIdOf(i) == {bdIdOps[i].offset}
BdIdsOf(i) == ToSet(bdIdOps[i].ids)

(* releaseAssignedBdIdsInDmaOps                                            *)
ReleaseBatch ==
    /\ phase = "assign" /\ work # <<>> /\ Head(work).step = "release"
    /\ LET t == Head(work).tile
           ids == UNION {BdIdsOf(i) : i \in ToSet(Head(work).batch.ops)}
       IN assigned' = [assigned EXCEPT ![t] = @ \ ids]
    /\ work' = Tail(work)
    /\ UNCHANGED <<phase, dmas, loops, clock, frames, lastUsed, bdIdOps>>

Finish == /\ phase = "assign" /\ work = <<>>
          /\ phase' = "done"
          /\ UNCHANGED <<dmas, loops, clock, frames, work, assigned, lastUsed,
                         bdIdOps>>

Next == \/ \E t \in Tile : VisitDma(t)
        \/ VisitWait
        \/ \E l \in Loops : EnterLoop(l)
        \/ LeaveLoop
        \/ StartAssigning \/ AssignBatch \/ ReleaseBatch \/ Finish

Spec == Init /\ [][Next]_vars

-----------------------------------------------------------------------------
(* The id in the amdaie.bd_id of DMA i: a constant, or, for a range, the   *)
(* expression iv % size + offset at each value of the induction variable.  *)
InductionValues(l) == {iv \in 0 .. loops[l].ub - 1 : iv % loops[l].step = 0}
BdIdExpr(i, iv) == (iv % bdIdOps[i].size) + bdIdOps[i].offset
UsedBdIds(i) == IF bdIdOps[i].size > 1
                THEN {BdIdExpr(i, iv) : iv \in InductionValues(dmas[i].loop)}
                ELSE BdIdsOf(i)

(* The range of DMA i neither wraps around the end of the tile's ids nor   *)
(* leaves out an id that was in use: the expression goes through it.       *)
Consecutive(i) ==
    \A k \in 1 .. bdIdOps[i].size : bdIdOps[i].ids[k] = bdIdOps[i].offset + k - 1

(* While a DMA waits for its token no other DMA on its tile uses an id     *)
(* that it uses in some iteration, although the ids of a batch are         *)
(* released as soon as the batch was processed, long before the program is *)
(* run.  Meant for DMAs whose ranges are consecutive: the expression       *)
(* leaves any other range (README, section 5).                              *)
Inside(j, i) == dmas[i].begin < dmas[j].begin /\ dmas[j].begin < dmas[i].end
OutstandingIdsDiffer ==
    phase = "done" =>
        \A i, j \in DOMAIN dmas :
            /\ Inside(j, i) /\ dmas[i].tile = dmas[j].tile
            /\ Consecutive(i) /\ Consecutive(j)
            => UsedBdIds(i) \cap UsedBdIds(j) = {}

(* Every id is given back: a later batch is never short of ids because an  *)
(* earlier one kept some.                                                  *)
AllIdsReleased == phase = "done" => \A t \in Tile : assigned[t] = {}
=============================================================================

--------------------------- MODULE DmaComposition ---------------------------
(***************************************************************************)
(* AMDAIEDmaComposition on the DMA operations of one connection: the       *)
(* greedy rewriting that turns loops around a DMA into dimensions of its   *)
(* access patterns, joins neighbouring DMAs, and reshapes patterns to the  *)
(* sizes the hardware takes.  The driver may apply the rewrites in any     *)
(* order.                                                                  *)
(*                                                                         *)
(* A pattern is a sequence of dimensions, outermost first; the i'th step   *)
(* of a dimension lies at (offset + i) * stride, where the offset is       *)
(* off + scale * iv for the induction variable iv of a loop, or off alone. *)
(* The empty pattern is implicit: the hardware follows the other side.     *)
(***************************************************************************)
EXTENDS Integers, Sequences, FiniteSets, SequencesExt

CONSTANTS Programs,     \* the inputs: [ops, loops, circular]
          NoLoop,       \* no induction variable
          IntraDims, InterDims,    \* side -> dimensions of its BDs
          WrapMax, IterWrapMax,    \* largest sizes (DmaBdProp)
          StepMax, IterStepMax,    \* largest strides, plus one
          MaxRepeatCount,
          NoLimit                  \* numeric_limits<int64_t>::max()

ASSUME LimitsAssumption ==
    /\ {WrapMax, IterWrapMax, StepMax, IterStepMax, MaxRepeatCount, NoLimit} \subseteq Nat \ {0}
    /\ WrapMax < NoLimit /\ MaxRepeatCount < NoLimit

VARIABLES ops,      \* the operations in program order: [path, src, tgt], path
                    \* the loops around it, outermost first
          loops,    \* loop -> [lb, ub, step]
          circular, \* whether they are npu.circular_dma_cpy_nd
          input     \* history: the operations before the pass

vars == <<ops, loops, circular, input>>

Const(d) == d.iv = NoLoop
Dim(off, size, stride) == [off |-> off, iv |-> NoLoop, scale |-> 1, size |-> size, stride |-> stride]
Sizes(p) == [i \in DOMAIN p |-> p[i].size]
Strides(p) == [i \in DOMAIN p |-> p[i].stride]
LeastOf(S) == CHOOSE x \in S : \A y \in S : x <= y

calculateNbIterations(l) == 1 + (l.ub - l.lb - 1) \div l.step

-----------------------------------------------------------------------------
(* What operations mean: the addresses of one side, in the order in which  *)
(* its DMA reaches them, for the values iv of the loops around it.         *)
Offset(d, iv) == IF Const(d) THEN d.off ELSE d.off + d.scale * iv[d.iv]

RECURSIVE Walk(_, _, _)
Walk(p, iv, base) ==
    IF p = <<>> THEN <<base>>
    ELSE FlattenSeq([n \in 1 .. p[1].size |->
             Walk(Tail(p), iv, base + (Offset(p[1], iv) + n - 1) * p[1].stride)])
Addresses(p, iv) == IF p = <<>> THEN <<>> ELSE Walk(p, iv, 0)

(* The operations from..to, which share their outer `depth' loops.         *)
RECURSIVE Execute(_, _, _, _, _, _)
Execute(os, side, from, to, depth, iv) ==
    IF from > to THEN <<>>
    ELSE IF Len(os[from].path) = depth
    THEN Addresses(os[from][side], iv) \o Execute(os, side, from + 1, to, depth, iv)
    ELSE LET l == os[from].path[depth + 1]
             last == Cardinality({m \in from .. to : l \in ToSet(os[m].path)}) + from - 1
             body(n) == Execute(os, side, from, last, depth + 1,
                                [iv EXCEPT ![l] = loops[l].lb + (n - 1) * loops[l].step])
         IN  FlattenSeq([n \in 1 .. calculateNbIterations(loops[l]) |-> body(n)])
             \o Execute(os, side, last + 1, to, depth, iv)

Stream(os, side) == Execute(os, side, 1, Len(os), 0, [l \in DOMAIN loops |-> 0])
Streams(os) == [src |-> Stream(os, "src"), tgt |-> Stream(os, "tgt")]

Init == /\ \E p \in Programs : ops = p.ops /\ loops = p.loops /\ circular = p.circular
        /\ input = ops

-----------------------------------------------------------------------------
(* DmaDimConfig and CircularDmaDimConfig: limits by position, for a        *)
(* pattern of n dimensions.  The outermost intra dimension has no wrap.    *)
exceedsNbDims(side, n) == ~circular /\ n > IntraDims[side] + InterDims[side]

IntraStart(side, n) == n - LeastOf({IntraDims[side], n})
getMaxSizes(side, n) ==
    LET intra == IntraStart(side, n)
    IN  [i \in 1 .. n |-> CASE circular           -> WrapMax
                            [] i = intra + 1      -> NoLimit
                            [] i > intra + 1      -> WrapMax
                            [] i <= intra - InterDims[side] -> 0
                            [] OTHER              -> IterWrapMax]
getMaxStrides(side, n) ==
    LET intra == IntraStart(side, n)
    IN  [i \in 1 .. n |-> CASE i > intra          -> StepMax
                            [] circular           -> NoLimit
                            [] i <= intra - InterDims[side] -> 0
                            [] OTHER              -> IterStepMax]

isValidAccessPattern(side, p) ==
    LET q == SelectSeq(p, LAMBDA d : d.size # 1 /\ d.stride # 0)
    IN  \A i \in DOMAIN q :
            /\ q[i].size \in 0 .. getMaxSizes(side, Len(q))[i]
            /\ q[i].stride \in 0 .. getMaxStrides(side, Len(q))[i]

-----------------------------------------------------------------------------
(* foldUnitDims: the constant offsets of dimensions of size one go into    *)
(* the first dimension whose stride divides them, or stay in one unit      *)
(* dimension.  Each of these operators returns the pattern itself where    *)
(* the code returns failure.                                               *)
UnitDim(d) == d.size = 1 /\ Const(d)

cumulativeIndex(p) ==       \* mutant: the strides are forgotten
    FoldLeft(LAMBDA sum, d : IF UnitDim(d) THEN sum + d.off ELSE sum, 0, p)
cumulativeOffset(p) ==
    FoldLeft(LAMBDA sum, d : IF UnitDim(d) THEN sum + d.off * d.stride ELSE sum, 0, p)

foldUnitDims(p) ==
    LET kept == SelectSeq(p, LAMBDA d : ~UnitDim(d))
        offset == cumulativeOffset(p)
        fitting == {i \in DOMAIN kept : /\ Const(kept[i]) /\ kept[i].stride # 0
                                        /\ offset % kept[i].stride = 0}
        index == 1 + Len(SelectSeq(kept, LAMBDA d : d.size = 1))
    IN  CASE Len(kept) = Len(p) -> p
          [] offset = 0 -> kept
          [] offset # 0 /\ fitting # {} ->
                LET i == LeastOf(fitting)
                IN  [kept EXCEPT ![i].off = @ + offset \div kept[i].stride]
          [] OTHER -> IF Len(kept) + 1 = Len(p) THEN p
                      ELSE InsertAt(kept, index, Dim(1, 1, offset))

(* foldLinearDims, from the innermost dimension outwards: dimension d      *)
(* continues where the one inside it ends.                                 *)
AnySize(side, rank, idxFromEnd, size) == TRUE       \* mutant
checkValidSize(side, rank, idxFromEnd, size) ==
    idxFromEnd < rank /\ size <= getMaxSizes(side, rank)[rank - idxFromEnd]
FoldsInto(side, rank, d, inner) ==
    /\ checkValidSize(side, rank, Len(inner) - 1, d.size * inner[1].size)
    /\ inner[1].stride * inner[1].size = d.stride
    /\ Const(d) /\ (d.off = 0 \/ Const(inner[1]))
foldLinearDims(side, p) ==
    IF p = <<>> THEN p
    ELSE FoldRight(LAMBDA d, inner :
              IF FoldsInto(side, Len(p), d, inner)
              THEN [inner EXCEPT ![1].size = @ * d.size,
                                 ![1].off = IF d.off = 0 THEN @
                                            ELSE @ + (d.off * d.stride) \div inner[1].stride]
              ELSE <<d>> \o inner,
              Front(p), <<Last(p)>>)

findFactorResultingInSmallerSize(size, max) ==
    LET factors == {i \in 2 .. size \div 2 : size % i = 0 /\ size \div i <= max}
    IN  CASE max <= 1 \/ size <= max -> 1
          [] max > 1 /\ size > max /\ factors # {} -> LeastOf(factors)
          [] OTHER -> size

(* One dimension as several, each of a size the hardware takes.            *)
RECURSIVE ExpandDim(_, _)
ExpandDim(d, max) ==
    LET factor == findFactorResultingInSmallerSize(d.size, max)
        inner == d.size \div factor
    IN  IF factor \in {1, d.size} THEN <<d>>
        ELSE Append(ExpandDim(Dim(0, factor, d.stride * inner), max),
                    [d EXCEPT !.size = inner])

expandLargeDimIntoLinearDims(side, p) ==
    FlattenSeq([i \in DOMAIN p |-> ExpandDim(p[i], getMaxSizes(side, Len(p))[i])])

-----------------------------------------------------------------------------
(* mergeInFirst: pattern A, then pattern B, as one; {} where they do not   *)
(* merge.                                                                  *)
insertUnitDimension(x, y) ==
    LET index == 1 + LeastOf({i \in 0 .. Len(x) :
                                \A j \in i + 1 .. Len(x) : y[j + 1].stride = x[j].stride})
    IN  InsertAt(x, index, Dim(0, 1, y[index].stride))

(* (A zero stride on the other side is a division by zero: no rewrite.)    *)
matchStridesOfUnitDims(x, y) ==
    [i \in DOMAIN x |->
        IF /\ UnitDim(x[i]) /\ x[i].stride # y[i].stride /\ y[i].stride # 0
           /\ (x[i].off * x[i].stride) % y[i].stride = 0
        THEN Dim((x[i].off * x[i].stride) \div y[i].stride, 1, y[i].stride)
        ELSE x[i]]

ConstantOffset(p) ==
    FoldLeft(LAMBDA sum, d : IF Const(d) THEN sum + d.off * d.stride ELSE sum, 0, p)
Value(d) == <<d.iv, d.scale, d.off>>
ValueStride(v, p) ==
    FoldLeft(LAMBDA sum, d : IF ~Const(d) /\ Value(d) = v THEN sum + d.stride ELSE sum, 0, p)
(* getGlobalOffsetDifference: what depends on loops must cancel.           *)
OffsetsComparable(a, b) ==
    \A d \in {q \in ToSet(a) \cup ToSet(b) : ~Const(q)} :
        ValueStride(Value(d), a) = ValueStride(Value(d), b)

MergeEqualRank(a, b) ==
    LET difference == ConstantOffset(b) - ConstantOffset(a)
        index == IF a[1].size = 1 THEN 2 ELSE 1
    IN  IF \/ Strides(a) # Strides(b) \/ Tail(Sizes(a)) # Tail(Sizes(b))
           \/ ~OffsetsComparable(a, b)
        THEN {}
        ELSE IF difference = a[1].size * a[1].stride
        THEN {[a EXCEPT ![1].size = @ + b[1].size]}
        ELSE IF a[1].size = b[1].size /\ difference >= 0
        THEN {InsertAt(a, index, Dim(0, 2, difference))}
        ELSE {}

mergeInFirst(a, b) ==
    IF a = <<>> /\ b = <<>> THEN {<<>>}
    ELSE IF Len(a) - Len(b) \notin -1 .. 1 THEN {}
    ELSE LET a1 == IF Len(a) < Len(b) THEN insertUnitDimension(a, b) ELSE a
             b1 == IF Len(b) < Len(a) THEN insertUnitDimension(b, a) ELSE b
             a2 == matchStridesOfUnitDims(a1, b1)
             b2 == matchStridesOfUnitDims(b1, a2)
         IN  MergeEqualRank(a2, b2)

(* The dimensions of both sides are checked against those of the source.   *)
combineAccessPatterns(a, b) ==
    {p \in {foldUnitDims(q) : q \in mergeInFirst(a, b)} : ~exceedsNbDims("src", Len(p))}

-----------------------------------------------------------------------------
(* addIterationToNewAccessPattern: the dimensions that depend on the loop  *)
(* start at its lower bound, and its iterations become new outer           *)
(* dimensions; without dependency the pattern is repeated.                 *)
addIteration(l, p) ==
    LET n == calculateNbIterations(loops[l])
        depends(d) == d.iv = l
        update(d) == [d EXCEPT !.iv = NoLoop, !.scale = 1,
                               !.off = d.off + loops[l].lb * d.scale]
        iteration(d) == Dim(0, n, d.stride * d.scale * loops[l].step)
        dependent == SelectSeq(p, depends)
        inserted == IF n = 1 THEN <<>>
                    ELSE IF dependent = <<>> THEN <<Dim(0, n, 0)>>
                    ELSE [i \in DOMAIN dependent |-> iteration(dependent[i])]
    IN  IF p = <<>> THEN p
        ELSE inserted \o [i \in DOMAIN p |-> IF depends(p[i]) THEN update(p[i]) ELSE p[i]]

NbNonUnitDims(p) == Len(SelectSeq(p, LAMBDA d : d.size # 1))

SideSubsumes(side, l, p) ==
    LET n == calculateNbIterations(loops[l])
    IN  /\ ~exceedsNbDims(side, NbNonUnitDims(p) + (IF n > 1 THEN 1 ELSE 0))
        /\ p # <<>> => (circular \/ p[1].stride # 0)     \* onlyZeroStrideOnOuterDim
        /\ p # <<>> => isValidAccessPattern(side, addIteration(l, p))

(* SubsumeLoopIntoDMA: the only operation of the connection in the         *)
(* innermost loop around it moves in front of that loop.                   *)
SubsumeLoop(i) ==
    LET op == ops[i]
        l == Last(op.path)
    IN  /\ op.path # <<>>
        /\ \A j \in DOMAIN ops : j # i => l \notin ToSet(ops[j].path)
        /\ circular \/ calculateNbIterations(loops[l]) <= MaxRepeatCount
        /\ SideSubsumes("src", l, op.src)
        /\ SideSubsumes("tgt", l, op.tgt)
        /\ ops' = [ops EXCEPT ![i] = [path |-> Front(op.path),
                                      src |-> addIteration(l, op.src),
                                      tgt |-> addIteration(l, op.tgt)]]
        /\ UNCHANGED <<loops, circular, input>>

(* CombineStridedOps: with the next operation of the connection, if it is  *)
(* in the same block.                                                      *)
CombineStridedOps(i) ==
    /\ i < Len(ops)
    /\ ops[i].path = ops[i + 1].path
    /\ \E s \in combineAccessPatterns(ops[i].src, ops[i + 1].src),
          t \in combineAccessPatterns(ops[i].tgt, ops[i + 1].tgt) :
            ops' = [RemoveAt(ops, i) EXCEPT ![i] = [path |-> ops[i].path, src |-> s, tgt |-> t]]
    /\ UNCHANGED <<loops, circular, input>>

(* The canonicalizations rewrite both sides; they fail if neither changes. *)
Reshape(i, s, t) ==
    /\ s # ops[i].src \/ t # ops[i].tgt
    /\ ops' = [ops EXCEPT ![i].src = s, ![i].tgt = t]
    /\ UNCHANGED <<loops, circular, input>>

FoldDmaOpUnitDims(i) == Reshape(i, foldUnitDims(ops[i].src), foldUnitDims(ops[i].tgt))
FoldDmaOpLinearDims(i) ==
    Reshape(i, foldLinearDims("src", ops[i].src), foldLinearDims("tgt", ops[i].tgt))
ExpandSingleDimIntoLinearDims(i) ==
    Reshape(i, expandLargeDimIntoLinearDims("src", ops[i].src),
               expandLargeDimIntoLinearDims("tgt", ops[i].tgt))

Next == \E i \in DOMAIN ops :
            \/ SubsumeLoop(i) \/ CombineStridedOps(i)
            \/ FoldDmaOpUnitDims(i) \/ FoldDmaOpLinearDims(i)
            \/ ExpandSingleDimIntoLinearDims(i)

Spec == Init /\ [][Next]_vars

(* applyPatternsGreedily rewrites until nothing changes.                   *)
FairSpec == Spec /\ WF_vars(Next)

-----------------------------------------------------------------------------
(* Whatever the driver rewrites, in whatever order, the connection moves   *)
(* the same data in the same order on both sides.                          *)
DataKept == Streams(ops) = Streams(input)

(* The rewriting comes to an end: folding and expanding do not undo each   *)
(* other.                                                                  *)
Terminates == <>[][FALSE]_vars
=============================================================================

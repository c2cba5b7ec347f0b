----------------------------- MODULE ControlCode -----------------------------
(***************************************************************************)
(* The control code of a workgroup as the passes InsertDmaBdChain and      *)
(* FoldDmaWaits see it: a straight line of DMA operations on shim tiles,   *)
(* waits on their tokens and barriers, produced by the earlier passes and  *)
(* rewritten in place.                                                     *)
(***************************************************************************)
EXTENDS Integers, FiniteSets, Sequences, SequencesExt

CONSTANTS
    Connection,      \* the amdaie.connections the DMAs transfer on
    TileOf,          \* the column of a connection's shim tile
    PortOf,          \* the <<direction, channel>> of its shim DMA port
    BdId,            \* buffer descriptor ids of a tile
    MaxQueueSize,    \* getDmaMaxQueueSize of a shim tile
    NoBd             \* an absent next_bd or start_bd operand

ASSUME TileAssumption == TileOf \in [Connection -> Nat]
ASSUME PortAssumption == PortOf \in [Connection -> Nat \X Nat]
ASSUME QueueAssumption == MaxQueueSize \in Nat \ {0}
ASSUME NoBdAssumption == NoBd \notin BdId

VARIABLES
    dmaOps,  \* the NpuHalfDmaCpyNdOps in program order: connection, BD id and
             \* repeat count as assigned, token/nextBd/startBd as rewritten
    code,    \* the operations of the control code in order
    stage,   \* the pass that runs: "chain", "queue", "batch", then "run"
    pos      \* the operation the reverse walk of the pass visits next

codeVars == <<dmaOps, code, stage, pos>>

-----------------------------------------------------------------------------
(* Operations of the control code.  A wait names the DMAs whose tokens it  *)
(* takes; a barrier names none.                                            *)
Dma(i)    == [kind |-> "dma", ops |-> {i}]
Wait(is)  == [kind |-> "wait", ops |-> is]
Barrier   == [kind |-> "barrier", ops |-> {}]

(* An NpuHalfDmaCpyNdOp on the shim side of a connection.                  *)
NewDma(conn, bd, repeat) ==
    [conn |-> conn, bd |-> bd, repeat |-> repeat,
     token |-> TRUE, nextBd |-> NoBd, startBd |-> NoBd]

ConnOf(i) == dmaOps[i].conn
BdOf(i)   == dmaOps[i].bd

(* What remains of code c when the waits for DMAs in `gone' are erased.    *)
EraseWaits(c, gone) ==
    FlattenSeq([k \in DOMAIN c |->
        IF c[k].kind = "wait" /\ c[k].ops \subseteq gone THEN <<>> ELSE <<c[k]>>])

-----------------------------------------------------------------------------
(* The control code that reaches these passes.  CreateAIEWorkgroup puts a  *)
(* wait right after every DMA; subsumption into loops moves a DMA ahead    *)
(* and its wait behind the operations of the loop, so DMAs and waits nest. *)
(* until[i] is the last DMA inside the bracket of DMA i, barriers is the   *)
(* set of positions followed by a barrier.                                 *)
Nested(n, until) ==
    \A i \in 1 .. n : /\ until[i] \in i .. n
                      /\ \A j \in i .. until[i] : until[j] <= until[i]

(* While the wait of a DMA is outstanding its connection is not used again *)
(* and AssignNpuDmaBdIds does not hand its BD id to another DMA.           *)
BracketsDisjoint(ops, until) ==
    \A i \in DOMAIN ops : \A j \in i + 1 .. until[i] :
        /\ ops[i].conn # ops[j].conn
        /\ TileOf[ops[i].conn] = TileOf[ops[j].conn] => ops[i].bd # ops[j].bd

(* A barrier only stands where no wait is outstanding.                     *)
BarriersOutside(n, until, barriers) ==
    \A b \in barriers, i \in 1 .. n : ~(i <= b /\ b < until[i])

(* The straight-line code: after DMA k the waits of the brackets that end  *)
(* there, innermost first, and a barrier if there is one.                  *)
SourceCode(n, until, barriers) ==
    LET waits(k) == [m \in 1 .. k |-> IF until[k + 1 - m] = k
                                      THEN <<Wait({k + 1 - m})>> ELSE <<>>]
        piece(k) == <<Dma(k)>> \o FlattenSeq(waits(k))
                    \o (IF k \in barriers THEN <<Barrier>> ELSE <<>>)
    IN FlattenSeq([k \in 1 .. n |-> piece(k)])

LegalProgram(ops, until, barriers) ==
    /\ Nested(Len(ops), until)
    /\ BracketsDisjoint(ops, until)
    /\ BarriersOutside(Len(ops), until, barriers)

(* The BD ids of a tile come round in turn, as Incremental mode hands them *)
(* out while none is held back: between two uses of an id there is one of  *)
(* every id that is used later, by a DMA that can be chained.              *)
SameTile(ops, i, j) == TileOf[ops[i].conn] = TileOf[ops[j].conn]
Rotates(ops) ==
    \A i, k \in DOMAIN ops :
        i < k /\ SameTile(ops, i, k) /\ ops[i].bd = ops[k].bd =>
            \A j \in DOMAIN ops : k < j /\ SameTile(ops, i, j) =>
                \E q \in i + 1 .. k : /\ SameTile(ops, i, q) /\ ops[q].bd = ops[j].bd
                                      /\ ops[q].repeat = 1
=============================================================================

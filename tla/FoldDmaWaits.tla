----------------------------- MODULE FoldDmaWaits -----------------------------
(***************************************************************************)
(* The pass FoldDmaWaits: two backward walks over the waits.  The first    *)
(* keeps one wait per DMA queue of a connection (foldDmaWaitsByQueue), the *)
(* second merges neighbouring waits of different connections into one      *)
(* (foldDmaWaitsByBatch).                                                  *)
(***************************************************************************)
EXTENDS ControlCode

VARIABLES
    bdIds,          \* dmaBdIdsMap: BD ids collected per connection
    waitOpQueues,   \* the queues of waits, latest first; a wait is the set of
                    \* the DMAs it waits for
    connectionOps,  \* the connections in the current batch
    waitOps         \* the waits in the current batch, latest first

foldVars == <<bdIds, waitOpQueues, connectionOps, waitOps>>

NoIds == [c \in Connection |-> {}]

FoldInit == /\ bdIds = NoIds
            /\ waitOpQueues = <<>>
            /\ connectionOps = {}
            /\ waitOps = <<>>

(* Some connection of DMA i's tile already holds its BD id.                *)
IsDuplicateBdId(i) ==
    \E c \in Connection : TileOf[c] = TileOf[ConnOf(i)] /\ BdOf(i) \in bdIds[c]

-----------------------------------------------------------------------------
(* canFoldByQueue (the code is straight-line, all in one scope).  Mutant:  *)
(* one wait too many.                                                      *)
FoldOneMore(i) ==
    /\ Cardinality(bdIds[ConnOf(i)]) <= MaxQueueSize
    /\ bdIds[ConnOf(i)] # {}
    /\ ~IsDuplicateBdId(i)
CanFoldByQueue(i) ==
    /\ Cardinality(bdIds[ConnOf(i)]) < MaxQueueSize
    /\ bdIds[ConnOf(i)] # {}
    /\ ~IsDuplicateBdId(i)

(* The walk visits a wait.  The waits that reach this pass have one token. *)
VisitWaitByQueue ==
    /\ stage = "queue" /\ pos > 0 /\ code[pos].kind = "wait"
    /\ \E i \in code[pos].ops :
        \/ /\ CanFoldByQueue(i)
           /\ bdIds' = [bdIds EXCEPT ![ConnOf(i)] = @ \cup {BdOf(i)}]
           /\ waitOpQueues' = Front(waitOpQueues)
                              \o <<Append(Last(waitOpQueues), code[pos].ops)>>
        \/ /\ ~CanFoldByQueue(i)
           /\ bdIds' = [bdIds EXCEPT ![ConnOf(i)] = {BdOf(i)}]
           /\ waitOpQueues' = Append(waitOpQueues, <<code[pos].ops>>)
    /\ pos' = pos - 1
    /\ UNCHANGED <<dmaOps, code, stage, connectionOps, waitOps>>

VisitBarrierByQueue ==
    /\ stage = "queue" /\ pos > 0 /\ code[pos].kind = "barrier"
    /\ bdIds' = NoIds
    /\ pos' = pos - 1
    /\ UNCHANGED <<dmaOps, code, stage, waitOpQueues, connectionOps, waitOps>>

(* eraseQueueOperations for every queue: the wait latest in the program    *)
(* stays, the others go and their DMAs no longer issue a token (mutants:   *)
(* the earliest one stays; all of them go).                                *)
FoldedAll == UNION {UNION ToSet(q) : q \in ToSet(waitOpQueues)}
FoldedButFirst == UNION {UNION ToSet(Front(q)) : q \in ToSet(waitOpQueues)}
FoldedDmas == UNION {UNION ToSet(Tail(q)) : q \in ToSet(waitOpQueues)}

(* Mutant: all DMAs lose their tokens.                                     *)
FinishQueuesWith(noToken) ==
    /\ stage = "queue" /\ pos = 0
    /\ code' = EraseWaits(code, FoldedDmas)
    /\ dmaOps' = [i \in DOMAIN dmaOps |->
                    [dmaOps[i] EXCEPT !.token = @ /\ i \notin noToken]]
    /\ bdIds' = NoIds
    /\ waitOpQueues' = <<>>
    /\ stage' = "batch"
    /\ pos' = Len(code')
    /\ UNCHANGED <<connectionOps, waitOps>>
FinishQueuesNoTokens == FinishQueuesWith(DOMAIN dmaOps)

FinishQueues ==
    /\ stage = "queue" /\ pos = 0
    /\ code' = EraseWaits(code, FoldedDmas)
    /\ dmaOps' = [i \in DOMAIN dmaOps |->
                    [dmaOps[i] EXCEPT !.token = @ /\ i \notin FoldedDmas]]
    /\ bdIds' = NoIds
    /\ waitOpQueues' = <<>>
    /\ stage' = "batch"
    /\ pos' = Len(code')
    /\ UNCHANGED <<connectionOps, waitOps>>

-----------------------------------------------------------------------------
CanFoldByBatch(i) ==
    /\ ConnOf(i) \notin connectionOps
    /\ connectionOps # {}
    /\ ~IsDuplicateBdId(i)

(* eraseBatchOperations: one wait for all the tokens of the batch, in the  *)
(* place of its latest wait.                                               *)
MergedCode ==
    IF Len(waitOps) < 2 THEN code
    ELSE LET rest == UNION ToSet(Tail(waitOps))
             kept == EraseWaits(code, rest)
         IN [k \in DOMAIN kept |->
                IF kept[k] = Wait(waitOps[1]) THEN Wait(waitOps[1] \cup rest)
                ELSE kept[k]]

VisitWaitByBatch ==
    /\ stage = "batch" /\ pos > 0 /\ code[pos].kind = "wait"
    /\ \E i \in code[pos].ops :
        \/ /\ CanFoldByBatch(i)
           /\ connectionOps' = connectionOps \cup {ConnOf(i)}
           /\ bdIds' = [bdIds EXCEPT ![ConnOf(i)] = @ \cup {BdOf(i)}]
           /\ waitOps' = Append(waitOps, code[pos].ops)
           /\ code' = code
        \/ /\ ~CanFoldByBatch(i)
           /\ connectionOps' = {ConnOf(i)}
           /\ bdIds' = [c \in Connection |->
                (IF c \in connectionOps THEN {} ELSE bdIds[c])
                \cup (IF c = ConnOf(i) THEN {BdOf(i)} ELSE {})]
           /\ waitOps' = <<code[pos].ops>>
           /\ code' = MergedCode
    /\ pos' = pos - 1
    /\ UNCHANGED <<dmaOps, stage, waitOpQueues>>

(* A barrier ends the batch; its waits are merged at the next wait.        *)
VisitBarrierByBatch ==
    /\ stage = "batch" /\ pos > 0 /\ code[pos].kind = "barrier"
    /\ connectionOps' = {}
    /\ bdIds' = NoIds
    /\ pos' = pos - 1
    /\ UNCHANGED <<dmaOps, code, stage, waitOpQueues, waitOps>>

VisitDmaByFold ==
    /\ stage \in {"queue", "batch"} /\ pos > 0 /\ code[pos].kind = "dma"
    /\ pos' = pos - 1
    /\ UNCHANGED <<dmaOps, code, stage, foldVars>>

FinishBatches ==
    /\ stage = "batch" /\ pos = 0
    /\ code' = MergedCode
    /\ bdIds' = NoIds
    /\ connectionOps' = {}
    /\ waitOps' = <<>>
    /\ stage' = "lower"
    /\ UNCHANGED <<dmaOps, pos, waitOpQueues>>

FoldNext == \/ VisitWaitByQueue \/ VisitBarrierByQueue \/ FinishQueues
            \/ VisitWaitByBatch \/ VisitBarrierByBatch \/ FinishBatches
            \/ VisitDmaByFold
=============================================================================

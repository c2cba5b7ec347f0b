------------------------- MODULE ControlCodePipeline -------------------------
(***************************************************************************)
(* From the control code with its BD ids assigned to the end of its        *)
(* execution: InsertDmaBdChain, FoldDmaWaits, ControlCodeLowering and the  *)
(* run on the device, for every program of a given set.                    *)
(***************************************************************************)
EXTENDS InsertDmaBdChain, FoldDmaWaits, ShimDma

CONSTANTS
    Programs    \* [ops, until, barriers, passes] records; the passes that
                \* are run are a subset of {"chain", "fold"}

(* The programs are ones the earlier passes can produce.                   *)
ASSUME ProgramsAssumption ==
    \A p \in Programs :
        /\ p.ops \in Seq([conn : Connection, bd : BdId, repeat : Nat \ {0}])
        /\ LegalProgram(p.ops, p.until, p.barriers)

(* Code whose waits stand right behind their DMAs: no DMA was subsumed     *)
(* into a loop around other DMAs.                                          *)
PromptPrograms == \A p \in Programs : \A i \in 1 .. Len(p.ops) : p.until[i] = i

VARIABLE source   \* the program that is compiled

vars == <<codeVars, chainVars, foldVars, shimVars, source>>

FirstStage == IF "chain" \in source.passes THEN "chain" ELSE "queue"

(* NpuDmaToHalfDmaCpyNd gives each shim half of a DMA its token.           *)
Init == /\ source \in Programs
        /\ dmaOps = [i \in DOMAIN source.ops |->
              NewDma(source.ops[i].conn, source.ops[i].bd, source.ops[i].repeat)]
        /\ code = SourceCode(Len(source.ops), source.until, source.barriers)
        /\ stage = FirstStage
        /\ pos = Len(code)
        /\ ChainInit /\ FoldInit /\ ShimInit

(* InsertDmaBdChain hands over to FoldDmaWaits, or to the lowering when    *)
(* the latter is left out.                                                 *)
SkipFold == /\ stage = "queue" /\ "fold" \notin source.passes
            /\ stage' = "lower"
            /\ UNCHANGED <<dmaOps, code, pos, foldVars>>

Compile == \/ ChainNext /\ UNCHANGED <<foldVars, shimVars, source>>
           \/ /\ SkipFold \/ ("fold" \in source.passes /\ FoldNext)
              /\ UNCHANGED <<chainVars, shimVars, source>>
           \/ ControlCodeLowering /\ UNCHANGED <<chainVars, foldVars, source>>

Run == /\ stage = "run"
       /\ Controller \/ \E p \in Port : DmaPort(p)
       /\ UNCHANGED <<chainVars, foldVars, source>>

Next == Compile \/ Run

(* The compiler runs to completion; the controller executes the next       *)
(* instruction when it can, and each port works on its own.                *)
Fairness == /\ WF_vars(Compile)
            /\ WF_vars(Run /\ Controller)
            /\ \A p \in Port : WF_vars(Run /\ DmaPort(p))

Spec == Init /\ [][Next]_vars
FairSpec == Spec /\ Fairness

-----------------------------------------------------------------------------
TypeOK ==
    /\ stage \in {"chain", "queue", "batch", "lower", "run"}
    /\ pos \in 0 .. Len(code)
    /\ \A i \in DOMAIN dmaOps :
         /\ dmaOps[i].bd \in BdId /\ dmaOps[i].token \in BOOLEAN
         /\ {dmaOps[i].nextBd, dmaOps[i].startBd} \subseteq BdId \cup {NoBd}
    /\ \A c \in Connection : ToSet(chain[c]) \subseteq DOMAIN dmaOps
    /\ chainsToBreak \cup connectionOps \subseteq Connection
    /\ bdIds \in [Connection -> SUBSET BdId]
    /\ tokens \in [Port -> Nat]

(* The compiled code does what the source code promises: each connection   *)
(* makes its transfers once, in program order, barriers are respected, and *)
(* when the controller is done nothing is left over -- although chains     *)
(* delay pushes and folding removes most waits.                            *)
Epoch(i) == Cardinality({b \in source.barriers : b < i})
Project(c) == SelectSeq(moved[PortOn(c)], LAMBDA i :
                 i = 0 \/ PortOn(ConnOf(i)) # PortOn(c) \/ ConnOf(i) = c)
Contract == INSTANCE OrderedTransfers WITH
    program <- [i \in DOMAIN source.ops |->
                  [conn |-> source.ops[i].conn, barriers |-> Epoch(i)]],
    done <- [c \in Connection |-> Project(c)],
    ended <- stage = "run" /\ instrs = <<>>
KeepsContract == Contract!Spec

(* The BDs of a tile that a port still has to read: those of its active    *)
(* task and its queued tasks, and the ones linked behind them.             *)
Behind(t, bd) ==
    LET reach[n \in Nat] ==
          IF n = 0 THEN {bd}
          ELSE reach[n - 1] \cup
               ({bdTable[t][b].next : b \in reach[n - 1]} \ {NoBd})
    IN reach[Cardinality(BdId)]
InUse(t) ==
    UNION {UNION {Behind(t, task.bd) : task \in ToSet(queue[p])}
           \cup (IF active[p] = NoTask THEN {} ELSE {active[p].bd})
           \cup (IF active[p] = NoTask \/ active[p].desc.next = NoBd THEN {}
                 ELSE Behind(t, active[p].desc.next))
           : p \in {q \in Port : q[1] = t}}

(* A BD is never reconfigured before the DMA it was pushed for has fully   *)
(* executed it: the race the BD ids exist to prevent (AMDAIEOps.td, BdIdOp)*)
BdNotOverwritten ==
    [][\A t \in Tile, b \in BdId :
         bdTable'[t][b] # bdTable[t][b] => b \notin InUse(t)]_vars

(* The tasks of a port that are queued or carried out.                     *)
Outstanding(p) == Len(queue[p]) + (IF active[p] = NoTask THEN 0 ELSE 1)

(* A wait of connection c stands behind a later DMA of c, where            *)
(* foldDmaWaitsByBatch merged it with a wait of another connection.        *)
WaitDelayed(c) ==
    \E k, l \in DOMAIN code :
        /\ l < k /\ code[l].kind = "dma" /\ code[k].kind = "wait"
        /\ \E i \in code[k].ops, j \in code[l].ops :
              ConnOf(i) = c /\ ConnOf(j) = c /\ i < j

(* No more than a full queue of a connection is outstanding: that is how   *)
(* many waits canFoldByQueue folds into one.  Meant for connections whose  *)
(* waits are not delayed: for the others foldDmaWaitsByBatch breaks the    *)
(* limit (README, section 5).                                              *)
QueuesFit ==
    \A c \in Connection :
        Outstanding(PortOn(c)) <= MaxQueueSize \/ WaitDelayed(c)

(* How far the others go: no wait is delayed past the next wait of its     *)
(* connection, so that less than two full queues are outstanding.          *)
OutstandingBound == \A p \in Port : Outstanding(p) <= 2 * MaxQueueSize - 1

(* When the control code ends no completion token is left behind: it would *)
(* satisfy a sync of the next dispatch before its transfer is done.        *)
NoTokenLeft ==
    stage = "run" /\ instrs = <<>> => \A p \in Port : tokens[p] = 0

(* The controller always reaches the end: no sync waits for a token that   *)
(* is not issued, because its push was chained away or its DMA folded.     *)
Terminates == <>(stage = "run" /\ instrs = <<>>)
=============================================================================

------------------------------- MODULE ShimDma -------------------------------
(***************************************************************************)
(* What the rewritten control code does on the device.  ControlCodeLowering*)
(* turns a DMA into a write of its BD and, unless a next_bd links it to    *)
(* the next one, a push to the queue of its port; a wait becomes syncs on  *)
(* task-completion tokens.  The NPU controller executes the instructions   *)
(* in order while the DMA ports work through their queues on their own.    *)
(***************************************************************************)
EXTENDS ControlCode

CONSTANT NoTask   \* an idle DMA port

VARIABLES
    instrs,   \* the lowered instructions that are still to be executed
    bdTable,  \* the buffer descriptors in the shim tiles' registers
    queue,    \* per port: the tasks pushed and not started
    active,   \* per port: the task being executed, or NoTask
    tokens,   \* per port: task-completion tokens not yet consumed
    moved     \* per port: the DMAs whose data it transferred, in order

deviceVars == <<bdTable, queue, active, tokens, moved>>
shimVars == <<instrs, deviceVars>>

(* A port is a tile (the shim tiles are all in row 0), a direction and a   *)
(* channel number.                                                         *)
Port == {<<TileOf[c]>> \o PortOf[c] : c \in Connection}
PortOn(c) == <<TileOf[c]>> \o PortOf[c]
Tile == {TileOf[c] : c \in Connection}
EmptyBd == [op |-> 0, next |-> NoBd]
Task == [bd : BdId, token : BOOLEAN, desc : [op : Nat, next : BdId \cup {NoBd}]]

ASSUME NoTaskAssumption == NoTask \notin Task

(* Circuit-switched connections share no port, packet-switched ones may.   *)
OneConnectionPerPort == \A c, d \in Connection : PortOn(c) = PortOn(d) => c = d

ShimInit ==
    /\ instrs = <<>>
    /\ bdTable = [t \in Tile |-> [b \in BdId |-> EmptyBd]]
    /\ queue = [p \in Port |-> <<>>]
    /\ active = [p \in Port |-> NoTask]
    /\ tokens = [p \in Port |-> 0]
    /\ moved = [p \in Port |-> <<>>]

-----------------------------------------------------------------------------
(* Lowered instructions.                                                   *)
WriteBd(i) == [kind |-> "write", tile |-> TileOf[ConnOf(i)], bd |-> BdOf(i),
               desc |-> [op |-> i, next |-> dmaOps[i].nextBd]]
Push(i) == [kind |-> "push", port |-> PortOn(ConnOf(i)), token |-> dmaOps[i].token,
            bd |-> IF dmaOps[i].startBd = NoBd THEN BdOf(i) ELSE dmaOps[i].startBd]
(* A sync takes one token from the same port of colNum columns.            *)
Sync(port, colNum) == [kind |-> "sync", port |-> port, colNum |-> colNum]

(* HalfDmaCpyNdToNpuConverter: the push is erased when next_bd is set.     *)
LowerDma(i) == <<WriteBd(i)>>
               \o (IF dmaOps[i].nextBd = NoBd THEN <<Push(i)>> ELSE <<>>)

(* DmaWaitToTctSyncConverter sorts the pushes by direction, channel and    *)
(* column; a run of consecutive columns becomes one sync.                  *)
SortsBefore(i, j) ==
    LET p == PortOn(ConnOf(i))
        q == PortOn(ConnOf(j))
    IN  \/ p[2] < q[2]
        \/ p[2] = q[2] /\ p[3] < q[3]
        \/ p[2] = q[2] /\ p[3] = q[3] /\ p[1] < q[1]
        \/ p = q /\ i < j
SortPushes(is) ==
    [k \in 1 .. Cardinality(is) |->
        CHOOSE i \in is : Cardinality({j \in is : SortsBefore(j, i)}) = k - 1]

AddSync(batches, p) ==
    LET l == Last(batches)
    IN IF /\ batches # <<>>
          /\ l.port[2] = p[2] /\ l.port[3] = p[3] /\ l.port[1] + l.colNum = p[1]
       THEN Append(Front(batches), Sync(l.port, l.colNum + 1))
       ELSE Append(batches, Sync(p, 1))
LowerWait(is) ==
    LET pushes == SortPushes(is)
        batches[n \in 0 .. Cardinality(is)] ==
            IF n = 0 THEN <<>> ELSE AddSync(batches[n - 1], PortOn(ConnOf(pushes[n])))
    IN batches[Cardinality(is)]

(* Barriers have served their purpose and are not lowered.                 *)
Lower(o) == CASE o.kind = "dma"     -> LowerDma(CHOOSE i \in o.ops : TRUE)
              [] o.kind = "wait"    -> LowerWait(o.ops)
              [] o.kind = "barrier" -> <<>>

ControlCodeLowering ==
    /\ stage = "lower"
    /\ instrs' = FlattenSeq([k \in DOMAIN code |-> Lower(code[k])])
    /\ stage' = "run"
    /\ UNCHANGED <<dmaOps, code, pos, deviceVars>>

-----------------------------------------------------------------------------
(* The controller: one instruction at a time, in order.                    *)
Issue(kind) == /\ stage = "run" /\ instrs # <<>> /\ Head(instrs).kind = kind
               /\ instrs' = Tail(instrs)
               /\ UNCHANGED codeVars

ExecuteWriteBd ==
    /\ Issue("write")
    /\ LET w == Head(instrs)
       IN bdTable' = [bdTable EXCEPT ![w.tile][w.bd] = w.desc]
    /\ UNCHANGED <<queue, active, tokens, moved>>

ExecutePush ==
    /\ Issue("push")
    /\ LET p == Head(instrs)
       IN queue' = [queue EXCEPT ![p.port] =
                      Append(@, [bd |-> p.bd, token |-> p.token])]
    /\ UNCHANGED <<bdTable, active, tokens, moved>>

(* A sync blocks until every one of its ports has a token.                 *)
ExecuteSync ==
    /\ Issue("sync")
    /\ LET s == Head(instrs)
           ports == {<<s.port[1] + k, s.port[2], s.port[3]>> : k \in 0 .. s.colNum - 1}
       IN /\ \A q \in ports : tokens[q] > 0
          /\ tokens' = [q \in Port |-> IF q \in ports THEN tokens[q] - 1 ELSE tokens[q]]
    /\ UNCHANGED <<bdTable, queue, active, moved>>

(* A port takes the next task and reads its first BD.                      *)
StartTask(p) ==
    /\ active[p] = NoTask /\ queue[p] # <<>>
    /\ LET t == Head(queue[p])
       IN active' = [active EXCEPT ![p] =
            [bd |-> t.bd, token |-> t.token, desc |-> bdTable[p[1]][t.bd]]]
    /\ queue' = [queue EXCEPT ![p] = Tail(@)]
    /\ UNCHANGED <<codeVars, instrs, bdTable, tokens, moved>>

(* The BD's data is transferred; the port goes on with the BD it is linked *)
(* to, or ends the task with a token if one was asked for.                 *)
FinishBd(p) ==
    /\ active[p] # NoTask
    /\ LET a == active[p]
       IN /\ moved' = [moved EXCEPT ![p] = Append(@, a.desc.op)]
          /\ IF a.desc.next # NoBd
             THEN /\ active' = [active EXCEPT ![p] =
                        [a EXCEPT !.bd = a.desc.next,
                                  !.desc = bdTable[p[1]][a.desc.next]]]
                  /\ tokens' = tokens
             ELSE /\ active' = [active EXCEPT ![p] = NoTask]
                  /\ tokens' = [tokens EXCEPT ![p] = IF a.token THEN @ + 1 ELSE @]
    /\ UNCHANGED <<codeVars, instrs, bdTable, queue>>

Controller == ExecuteWriteBd \/ ExecutePush \/ ExecuteSync
DmaPort(p) == StartTask(p) \/ FinishBd(p)

ShimNext == ControlCodeLowering \/ Controller \/ \E p \in Port : DmaPort(p)
=============================================================================

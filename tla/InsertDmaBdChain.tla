--------------------------- MODULE InsertDmaBdChain ---------------------------
(***************************************************************************)
(* The pass InsertDmaBdChain: walk the control code backwards, collect the *)
(* DMAs of each connection into a chain as long as no BD id repeats on the *)
(* tile, and link the BDs of a chain so that only its last DMA is pushed   *)
(* and awaited.                                                            *)
(***************************************************************************)
EXTENDS ControlCode

VARIABLES
    chain,          \* dmaChainToDmaOps: the DMAs collected per connection,
                    \* latest first (a chain is open when it is not empty)
    chainsToBreak   \* connections whose chain is broken at the next DMA

chainVars == <<chain, chainsToBreak>>

ChainInit == /\ chain = [c \in Connection |-> <<>>]
             /\ chainsToBreak = {}

(* The keys and values of dmaChainToBdIds.                                 *)
OpenChains == {c \in Connection : chain[c] # <<>>}
ChainBdIds(c) == {BdOf(i) : i \in ToSet(chain[c])}

-----------------------------------------------------------------------------
(* updateChainOperands for the chains of the connections in `broken': link *)
(* the BDs, drop the tokens of all but the last DMA ...                    *)
Links(s) == Len(s) >= 2
LinkedOps(broken) ==
    [i \in DOMAIN dmaOps |->
        LET c == ConnOf(i)
            s == Reverse(chain[c])                       \* program order
        IN IF ~(c \in broken /\ i \in ToSet(s) /\ Links(s)) THEN dmaOps[i]
           ELSE LET k == CHOOSE m \in DOMAIN s : s[m] = i
                IN IF k = Len(s)
                   THEN [dmaOps[i] EXCEPT !.startBd = BdOf(s[1])]
                   ELSE [dmaOps[i] EXCEPT !.startBd = BdOf(s[1]),
                                          !.nextBd  = BdOf(s[k + 1]),
                                          !.token   = FALSE]]

(* ... and erase their waits.  Mutants: all waits of a chain are erased;   *)
(* that of its first DMA is kept instead of that of its last.              *)
InnerAll(broken) == UNION {ToSet(chain[c]) : c \in broken \cap OpenChains}
InnerButFirst(broken) ==
    UNION {ToSet(Front(chain[c])) : c \in broken \cap OpenChains}
Inner(broken) == UNION {ToSet(Tail(chain[c])) :
                          c \in broken \cap OpenChains}
LinkedCode(broken) == EraseWaits(code, Inner(broken))

(* checkForChainsWithDuplicateBdId: the first open chain of the tile found *)
(* with the BD id of DMA i, and the chain of i itself.  The map is visited *)
(* in no particular order.                                                 *)
WithDuplicate(i) ==
    {c \in OpenChains : TileOf[c] = TileOf[ConnOf(i)] /\ BdOf(i) \in ChainBdIds(c)}
(* Mutant: only the chain of the DMA itself is broken.                     *)
BreakOwnChain(i) == IF WithDuplicate(i) = {} THEN {{}} ELSE {{ConnOf(i)}}

DuplicateBreaks(i) ==
    IF WithDuplicate(i) = {} THEN {{}}
    ELSE {{c, ConnOf(i)} : c \in WithDuplicate(i)}

-----------------------------------------------------------------------------
(* The walk visits a DMA that joins the chain of its connection.           *)
VisitDma ==
    /\ stage = "chain" /\ pos > 0
    /\ \E i \in DOMAIN dmaOps :
        /\ code[pos] = Dma(i) /\ dmaOps[i].repeat = 1
        /\ \E dup \in DuplicateBreaks(i) :
            LET broken == chainsToBreak \cup dup
            IN /\ dmaOps' = LinkedOps(broken)
               /\ code' = LinkedCode(broken)
               /\ chain' = [c \in Connection |->
                    (IF c \in broken THEN <<>> ELSE chain[c])
                    \o (IF c = ConnOf(i) THEN <<i>> ELSE <<>>)]
    /\ chainsToBreak' = {}
    /\ pos' = pos - 1
    /\ UNCHANGED stage

(* A DMA with a repeat count is left out: "do not chain BDs".              *)
VisitRepeatDma ==
    /\ stage = "chain" /\ pos > 0
    /\ \E i \in DOMAIN dmaOps : code[pos] = Dma(i) /\ dmaOps[i].repeat > 1
    /\ pos' = pos - 1
    /\ UNCHANGED <<dmaOps, code, stage, chainVars>>

(* A barrier breaks every open chain, at the next DMA (mutant: it does     *)
(* not).                                                                   *)
PassBarrier ==
    /\ stage = "chain" /\ pos > 0 /\ code[pos].kind = "barrier"
    /\ pos' = pos - 1
    /\ UNCHANGED <<dmaOps, code, stage, chainVars>>

VisitBarrier ==
    /\ stage = "chain" /\ pos > 0 /\ code[pos].kind = "barrier"
    /\ chainsToBreak' = chainsToBreak \cup OpenChains
    /\ pos' = pos - 1
    /\ UNCHANGED <<dmaOps, code, stage, chain>>

VisitOther ==
    /\ stage = "chain" /\ pos > 0 /\ code[pos].kind = "wait"
    /\ pos' = pos - 1
    /\ UNCHANGED <<dmaOps, code, stage, chainVars>>

(* At the beginning of the code the remaining chains are built.            *)
FinishChains ==
    /\ stage = "chain" /\ pos = 0
    /\ dmaOps' = LinkedOps(OpenChains)
    /\ code' = LinkedCode(OpenChains)
    /\ chain' = [c \in Connection |-> <<>>]
    /\ chainsToBreak' = {}
    /\ stage' = "queue"
    /\ pos' = Len(code')

ChainNext == VisitDma \/ VisitRepeatDma \/ VisitBarrier \/ VisitOther
             \/ FinishChains

-----------------------------------------------------------------------------
(* No two open chains of a tile hold the same BD id, and no chain holds an *)
(* id twice: checkForChainsWithDuplicateBdId stops at the first chain it   *)
(* finds (`break'), which is enough only because of this.                  *)
OpenBdIdsDisjoint ==
    \A c, d \in Connection :
        \A k \in DOMAIN chain[c], m \in DOMAIN chain[d] :
            /\ TileOf[c] = TileOf[d]
            /\ BdOf(chain[c][k]) = BdOf(chain[d][m])
            => c = d /\ k = m

(* Once the chains are built, no DMA between a linked DMA and the push of  *)
(* its chain uses the BD id of the linked one on the same tile: "any       *)
(* duplicate BD ID from the same tile [...] requires breaking to release   *)
(* the conflicting BD ID".                                                 *)
InChainOf(i, j) == /\ i < j /\ ConnOf(j) = ConnOf(i)
                   /\ dmaOps[i].repeat = 1 /\ dmaOps[j].repeat = 1
                   /\ \A k \in i .. j - 1 :
                        ConnOf(k) = ConnOf(i) /\ dmaOps[k].repeat = 1
                            => dmaOps[k].nextBd # NoBd
ChainOwnsItsBds ==
    stage # "chain" =>
        \A i, j \in DOMAIN dmaOps :
            InChainOf(i, j) =>
                \A k \in i + 1 .. j :
                    TileOf[ConnOf(k)] = TileOf[ConnOf(i)] => BdOf(k) # BdOf(i)
=============================================================================

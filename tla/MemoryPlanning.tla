--------------------------- MODULE MemoryPlanning ---------------------------
(***************************************************************************)
(* How the memory of an array is divided for a matmul, from the choice of  *)
(* its tile sizes (KernelDispatch) over the split of its object FIFOs in   *)
(* the mem tiles (SplitLogicalObjFifos) and their assignment to columns    *)
(* (AssignTiles) to the buffers of a core tile (BufferAddresses).  The     *)
(* stages count bytes independently: the first two against limits of their *)
(* own, before the stack and the columns are known to anyone.              *)
(*                                                                         *)
(* A matmul without elementwise consumer on the object FIFO pipelines.  No *)
(* memory limits what shim tiles hold, and local FIFOs lie where the cores *)
(* that use them are: neither is a decision AssignTiles could fail in.     *)
(***************************************************************************)
EXTENDS BufferAddresses, TLC

CONSTANTS Matmuls,     \* inputs: [m, n, k, type, device, rows, cols, scale, ukernels]
          MemTileSize, \* bytes of a mem tile
          StackSize    \* bytes of the stack of a core

ASSUME PlanningAssumption == MemTileSize \in Nat \ {0} /\ StackSize \in Nat
(* Two buffers of each operand on every core.                              *)
ASSUME CoreAssumption == NBuffers = 6

VARIABLES stage,    \* the pass that runs
          matmul,   \* the input
          search,   \* [m, n, curMax, best, k]: arguments of the recursive searches
          plan,     \* the ParameterSetting
          fifos,    \* the parts of object FIFOs that have no mem tile yet
          usage     \* column -> bytes taken in its mem tile, while FIFOs are assigned

planVars == <<stage, matmul, search, plan, fifos, usage>>

-----------------------------------------------------------------------------
(* Bytes of the elements of both operands and of the result.               *)
Bytes(type) == CASE type = "bf16" -> [a |-> 2, b |-> 2, c |-> 4]
                 [] type = "i8"   -> [a |-> 1, b |-> 1, c |-> 4]
                 [] type = "i16"  -> [a |-> 2, b |-> 2, c |-> 4]
                 [] type = "i32"  -> [a |-> 4, b |-> 4, c |-> 4]

(* The vector instructions of the two generations, m, n and k; types that  *)
(* are in no table have none.                                              *)
getAIEMatmulInstructionSize(type, device) ==
    CASE type = "bf16" -> IF device = "npu4" THEN <<8, 8, 8>> ELSE <<4, 4, 8>>
      [] type = "i8"   -> IF device = "npu4" THEN <<8, 8, 8>> ELSE <<4, 8, 8>>
      [] type = "i16" /\ device # "npu4" -> <<4, 8, 2>>
      [] OTHER -> None

Divides(d, n) == n % d = 0
LargestFactor(num, max) == Max({f \in 1 .. Min({num, max}) : Divides(f, num)})
findLargestFactor(num, max, multiple) ==
    LET factors == {f \in 1 .. Min({num, max}) : Divides(multiple, f) /\ Divides(f, num)}
    IN  IF factors = {} THEN LargestFactor(num, max) ELSE Max(factors)

(* Without an instruction any packing will do.                             *)
getPackedSize(mm) ==
    LET instruction == getAIEMatmulInstructionSize(mm.type, mm.device)
    IN  IF instruction = None
        THEN <<LargestFactor(mm.m, 4), LargestFactor(mm.n, 4), LargestFactor(mm.k, 8)>>
        ELSE instruction

Packable(mm) == LET v == getPackedSize(mm)
                IN  Divides(v[1], mm.m) /\ Divides(v[2], mm.n) /\ Divides(v[3], mm.k)

-----------------------------------------------------------------------------
minL1TileSize == 16
maxL1TileSize == 128
Depth == 2      \* of every object FIFO in a core or a mem tile

FootprintSingleC(m, n, k) ==    \* mutant: one buffer for the result
    LET bytes == Bytes(matmul.type)
    IN  Depth * (bytes.a * m * k + bytes.b * n * k) + bytes.c * m * n

Footprint(m, n, k) ==
    LET bytes == Bytes(matmul.type)
    IN  Depth * (bytes.a * m * k + bytes.b * n * k + bytes.c * m * n)

(* What a search keeps when it looks at m, n and k.                        *)
Best(fits) ==
    LET used == Footprint(search.m, search.n, search.k)
        better == fits /\ used > search.curMax
    IN  [curMax |-> IF better THEN used ELSE search.curMax,
         best |-> IF better THEN <<search.m, search.n, search.k>> ELSE search.best]

BeginPlan ==
    /\ stage = "dispatch"
    /\ LET v == getPackedSize(matmul)
       IN  IF Packable(matmul)
           THEN /\ stage' = "l1"
                /\ search' = [m |-> findLargestFactor(matmul.m, maxL1TileSize, v[1]),
                              n |-> findLargestFactor(matmul.n, maxL1TileSize, v[2]),
                              k |-> findLargestFactor(matmul.k, maxL1TileSize, v[3]),
                              curMax |-> 0,
                              best |-> <<minL1TileSize, minL1TileSize, minL1TileSize>>]
           ELSE stage' = "rejected" /\ UNCHANGED search
    /\ UNCHANGED <<matmul, plan, fifos, usage, vars>>

LargeEnough == search.m >= minL1TileSize /\ search.n >= minL1TileSize /\ search.k >= minL1TileSize

(* n is halved first, then m, and k when it is more than twice of both.    *)
Halved == IF search.n >= search.m /\ search.n >= search.k \div 2
          THEN [search EXCEPT !.n = @ \div 2]
          ELSE IF search.m >= search.k \div 2 THEN [search EXCEPT !.m = @ \div 2]
               ELSE [search EXCEPT !.k = @ \div 2]

findLargestL1TileSizes ==
    /\ stage = "l1" /\ LargeEnough
    /\ LET v == getPackedSize(matmul)
           fits == /\ Divides(search.m, matmul.m) /\ Divides(v[1], search.m)
                   /\ Divides(search.n, matmul.n) /\ Divides(v[2], search.n)
                   /\ Divides(search.k, matmul.k) /\ Divides(v[3], search.k)
                   /\ Footprint(search.m, search.n, search.k) < MemorySize
       IN  search' = Best(fits) @@ Halved
    /\ UNCHANGED <<stage, matmul, plan, fifos, usage, vars>>

(* The share of a core, unless no vector fits it.                          *)
PackSize(whole, cores, vector) ==
    IF Divides(vector, whole \div cores) THEN whole \div cores ELSE whole

(* A search for pack-peel ends with this.  The pipeline with four levels   *)
(* goes on to search how much more the mem tiles can take.                 *)
CreateParameterSetting ==
    /\ stage = "l1" /\ ~LargeEnough
    /\ LET v == getPackedSize(matmul)
           M0 == findLargestFactor(matmul.m, matmul.rows * search.best[1], search.best[1])
           N0 == findLargestFactor(matmul.n, matmul.cols * search.best[2], search.best[2])
           m0Pack == PackSize(M0, matmul.rows, v[1])
           n0Pack == PackSize(N0, matmul.cols, v[2])
       IN  /\ plan' = [M0 |-> M0, N0 |-> N0, m0Pack |-> m0Pack, n0Pack |-> n0Pack,
                       k0Pack |-> IF matmul.ukernels
                                  THEN LargestFactor(matmul.k, search.best[3])
                                  ELSE Min({32 * matmul.scale, matmul.k}),
                       L1Tile |-> search.best]
           /\ IF matmul.scale = 2
              THEN /\ stage' = "l2"
                   /\ search' = [m |-> m0Pack, n |-> n0Pack, k |-> matmul.k, curMax |-> 0,
                                 best |-> <<m0Pack, n0Pack, matmul.k>>]
              ELSE stage' = "split" /\ UNCHANGED search
    /\ UNCHANGED <<matmul, fifos, usage, vars>>

L2Limit == MemTileSize * matmul.cols
WithinMatmul == search.m <= matmul.m /\ search.n <= matmul.n

findLargestL2TileSizes ==
    /\ stage = "l2" /\ WithinMatmul
    /\ LET fits == /\ Divides(search.m, matmul.m) /\ Divides(search.n, matmul.n)
                   /\ Footprint(search.m, search.n, search.k) <= L2Limit
           growM == /\ search.m * 2 <= matmul.m
                    /\ search.n * 2 > matmul.n \/ search.n >= search.m
       IN  search' = Best(fits) @@ (IF growM THEN [search EXCEPT !.m = @ * 2]
                                             ELSE [search EXCEPT !.n = @ * 2])
    /\ UNCHANGED <<stage, matmul, plan, fifos, usage, vars>>

SelectL2TileSizes ==
    /\ stage = "l2" /\ ~WithinMatmul
    /\ plan' = [plan EXCEPT !.M0 = search.best[1], !.N0 = search.best[2]]
    /\ stage' = "split"
    /\ UNCHANGED <<matmul, search, fifos, usage, vars>>

-----------------------------------------------------------------------------
(* Blocks of a tile in both dimensions, and the cores that work on them.   *)
BlockRows == plan.M0 \div plan.m0Pack
BlockCols == plan.N0 \div plan.n0Pack
RowsInUse == Min({BlockRows, matmul.rows})
ColsInUse == Min({BlockCols, matmul.cols})

Gcd(x, y) == Max({d \in 1 .. Min({x, y}) : Divides(d, x) /\ Divides(d, y)})

(* A FIFO is split for its users, as far as both sides of its DMA allow.   *)
SplitFactor(users, size, otherSize) ==
    LET factor == Gcd(users, ColsInUse)
    IN  IF Divides(factor, size) /\ Divides(factor, otherSize) THEN factor
        ELSE Gcd(size, otherSize)

(* Of K a mem tile holds what a core works on, with four levels all.  The  *)
(* result is packed with its columns first.                                *)
DepthOfK == IF matmul.scale = 2 THEN matmul.k ELSE plan.k0Pack
Factor == [a |-> SplitFactor(RowsInUse, BlockRows, plan.M0),
           b |-> SplitFactor(ColsInUse, BlockCols, plan.N0),
           c |-> IF BlockCols > 1
                 THEN SplitFactor(RowsInUse * ColsInUse, BlockCols, plan.N0)
                 ELSE SplitFactor(RowsInUse * ColsInUse, BlockRows, plan.M0)]
L2Bytes == LET bytes == Bytes(matmul.type)
           IN  [a |-> Depth * bytes.a * plan.M0 * DepthOfK,
                b |-> Depth * bytes.b * plan.N0 * DepthOfK,
                c |-> Depth * bytes.c * plan.M0 * plan.N0]

(* getPriorityColumn: the column of all users of a part, if it is one.  A  *)
(* part of A is for a row of cores, one of B and of the result for columns.*)
PriorityColumn(operand, part) ==
    IF ColsInUse = 1 THEN 0
    ELSE IF operand # "a" /\ Factor[operand] = ColsInUse THEN part ELSE None

SplitLogicalObjFifos ==
    /\ stage = "split"
    /\ fifos' = UNION {{[operand |-> o, part |-> p, size |-> L2Bytes[o] \div Factor[o],
                         priority |-> PriorityColumn(o, p)] : p \in 0 .. Factor[o] - 1} :
                       o \in {"a", "b", "c"}}
    /\ usage' = [col \in 0 .. ColsInUse - 1 |-> 0]
    /\ stage' = "assign"
    /\ search' = None
    /\ UNCHANGED <<matmul, plan, vars>>

HasRoom(col, fifo) == usage[col] + fifo.size <= MemTileSize
LeastUsed(col) == \A other \in DOMAIN usage :
                      \/ usage[col] < usage[other]
                      \/ usage[col] = usage[other] /\ col <= other

(* The largest first; which FIFO is first among equals is open, the parts  *)
(* of one FIFO are taken in their order.                                   *)
First(fifo) == \A other \in fifos :
                   /\ other.size <= fifo.size
                   /\ other.operand = fifo.operand => fifo.part <= other.part

(* In its priority column if that has the room, else in the least used.    *)
assignNonLocalTiles ==
    /\ stage = "assign"
    /\ \E fifo \in fifos, col \in DOMAIN usage :
        /\ First(fifo)
        /\ IF fifo.priority # None /\ HasRoom(fifo.priority, fifo)
           THEN col = fifo.priority ELSE LeastUsed(col)
        /\ IF HasRoom(col, fifo)
           THEN /\ usage' = [usage EXCEPT ![col] = @ + fifo.size]
                /\ fifos' = fifos \ {fifo}
                /\ UNCHANGED stage
           ELSE stage' = "unplaced" /\ UNCHANGED <<usage, fifos>>
    /\ UNCHANGED <<matmul, search, plan, vars>>

(* The tile of a core gets the buffers of its three FIFOs, none preset.    *)
CoreTile == [scheme |-> "None", stack |-> StackSize,
             size |-> [b \in Buffer |->
                         LET bytes == Bytes(matmul.type)
                         IN  CASE b \in {1, 2} -> bytes.a * plan.m0Pack * plan.k0Pack
                               [] b \in {3, 4} -> bytes.b * plan.n0Pack * plan.k0Pack
                               [] b \in {5, 6} -> bytes.c * plan.m0Pack * plan.n0Pack],
             bank |-> [b \in Buffer |-> None], addr |-> [b \in Buffer |-> None]]

AllocateCore ==
    /\ stage = "assign" /\ fifos = {}
    /\ stage' = "buffers"
    /\ tile' = CoreTile
    /\ cursor' = StackSize
    /\ usage' = << >>
    /\ UNCHANGED <<matmul, search, plan, fifos, pc, current, nextAddr,
                   buffersToAlloc, startBankIndex, address, memBank>>

-----------------------------------------------------------------------------
NoBuffers == [b \in Buffer |-> None]

(* From the matmul on, or with a tile of any origin.                       *)
PlanningInit ==
    /\ search = None /\ plan = None /\ fifos = {} /\ usage = << >>
    /\ \/ /\ stage = "buffers" /\ matmul = None
          /\ Init
       \/ /\ stage = "dispatch" /\ matmul \in Matmuls
          /\ tile = None /\ pc = "begin" /\ current = 1
          /\ nextAddr = [k \in Bank |-> StartAddr(k)]
          /\ buffersToAlloc = {} /\ startBankIndex = 0 /\ cursor = 0
          /\ address = NoBuffers /\ memBank = NoBuffers

PlanningNext ==
    \/ BeginPlan \/ findLargestL1TileSizes \/ CreateParameterSetting
    \/ findLargestL2TileSizes \/ SelectL2TileSizes
    \/ SplitLogicalObjFifos \/ assignNonLocalTiles \/ AllocateCore
    \/ stage = "buffers" /\ Next /\ UNCHANGED planVars

PlanningSpec == PlanningInit /\ [][PlanningNext]_<<planVars, vars>>

-----------------------------------------------------------------------------
(* The pack sizes are at most the tile the search counted the bytes of.    *)
(* Nobody counts for the others: a whole M0 or N0 where no vector fits the *)
(* share of a core, and a k0Pack that is chosen without the search.        *)
Counted == /\ plan.m0Pack <= plan.L1Tile[1]
           /\ plan.n0Pack <= plan.L1Tile[2]
           /\ plan.k0Pack <= plan.L1Tile[3]

CoreBytes == BytesUpTo(tile.size)[NBuffers]

(* For the pack sizes that were counted the limits of the stages add up: a *)
(* matmul that pack-peel tiles finds mem tiles for its FIFOs, the buffers  *)
(* of a core take less than its memory, and only the stack, which no limit *)
(* of the search holds, can be what they then leave no room for.           *)
PlanIsPlaced ==
    /\ stage = "unplaced" /\ Counted => matmul.scale = 2
    /\ stage = "buffers" /\ matmul # None /\ Counted =>
        /\ CoreBytes < MemorySize
        /\ pc = "failed" => CoreBytes + StackSize > MemorySize
=============================================================================

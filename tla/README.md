# TLA+ models of iree-amd-aie

iree-amd-aie compiles machine-learning programs for AMD's AIE arrays (NPUs) and
runs them. A compiled program is a *workgroup*: programs for the cores, object
FIFOs in the memories of cores and mem tiles, a configuration of switches, and
**control code**, the instruction stream with which the NPU controller
reprograms DMA buffer descriptors (BDs), pushes them to DMA queues and waits for
completion tokens while everything else runs on its own. The compiler does the
concurrency of all of this by hand: which locks a core takes and which buffer it
then uses, which ids BDs get and when they are reused, which waits may be
removed, which packets share arbiters. The driver does the rest: it keeps caches
and memory apart by hand and dispatches commands with contexts of its own.

Conventions: `X.tla` models code, `MCX.tla` instantiates it for TLC, each
`*.cfg` is a run, `*Proofs.tla` holds theorems. `PROJECT.json` maps every
definition to the lines it models and lists runs, mutants, hazards and theorems.
Source paths below leave out `compiler/plugins/target/AMD-AIE/`.

## 1. Inventory

| part (code) | state it keeps | operations | interacts with | what makes it correct | status |
|---|---|---|---|---|---|
| BD id generator (`aie_runtime/Utils/ChannelBdIdGenerator.*`) | assigned ids, last used id | get in Smallest/Incremental mode, assign, release, count | the two passes that assign ids | answers are free ids of the channel; none is refused in vain; Incremental is least recently used first | modelled, proved |
| AssignNpuDmaBdIds | DMA batches per tile, generators, ids per BD id op | walk DMAs/waits/loops; assign; release | generator; later passes read the ids | transfers outstanding together have different ids; nothing is leaked | modelled, proved |
| InsertDmaBdChain | open chain per connection, chains to break | reverse walk | rewrites the control code | a chain owns its BDs until it is pushed; transfers and barriers keep their order | modelled, one invariant proved |
| FoldDmaWaits | BD ids per connection, queues, batch | two reverse walks | rewrites the control code | queues do not overflow (they may where a wait is merged behind later pushes: 5); tokens and waits match; removed waits were redundant | modelled, partly proved |
| ControlCodeLowering, NpuDmaToHalfDmaCpyNd, ControlCodeToTransaction | the instruction stream | one rewrite per op | controller | one push per chain, one token per sync | order and tokens modelled |
| shim DMA and NPU controller (hardware) | BD registers, queues, tokens | execute in order; ports run on their own | the control code | — | external model |
| DMA composition: CombineStridedOps, DmaLoopSubsumption, CanonicalizeDoublyStridedOp, DmaCSE | — | greedy rewriting of access patterns; operations move out of loops, merge, disappear; waits follow | control code | same addresses in the same order; the rewriting ends; one circular DMA per connection | modelled for constant patterns |
| GenerateControlOverlay, AssignConnectionTypes, AssignChannels, AssignPacketIds, `ChannelGenerator` | usage per port, channels in use, ids | one connection at a time | everything that uses a port | circuits own their channels, packets are told apart, nothing runs out in vain | modelled, proved |
| RouteFlowsWithPathfinder, `iree_aie_router.cc`, `amsel_generator.cc` | demand, flows, rules, arbiters and msels | collect, route, rip up, configure, twice | switch hardware | every packet reaches its destinations and no other place | modelled, costs of paths abstracted; partly proved |
| AccessToAcquireRelease, InsertInfiniteLoopAroundCoreBlock, AcquireReleaseToUseLock, ObjFifoBufferization, LowerToAIE (DMA programs) | locks, buffers per FIFO, BD rings | insert acquires and releases; unroll; rotate buffers; chains of BDs | cores, DMAs and controller at run time | an object FIFO is a bounded FIFO queue; no deadlock | modelled; one FIFO proved |
| AssignBufferAddresses (`aie/`) | next address per bank | bank-aware, sequential as fallback | linker scripts | buffers lie apart; what fits compiles | modelled, partly proved |
| ConvertDeviceToControlPackets, SplitControlPacketData, ControlPacketToNpuDma | emulation buffer for masks, packets packed in the last transfer | convert, split, pack | transaction, control code, control ports | registers take the writes of the transaction in order | modelled |
| xrt-lite driver (`runtime/.../driver/xrt-lite`), executable serialisation | buffers and caches, context, hardware queue, packet | record, dispatch, submit, wait, sync | kernel driver, device | coherent synchronous queue; nothing runs while nobody waits | modelled, proved |
| AssignBufferDescriptorIDs (`aie/`) | generator per tile | reserve, then assign | generator | ids unique per tile | its use of the generator |
| CreateAIEWorkgroup, ControlCodeLoopUnroll | a context (core programs) per loop | split a sequential program into core programs and control code; unroll | all passes behind | every core does its part in the order of the program, every connection transfers as much | modelled |
| KernelDispatch (`ParameterSetting::create`), `AMDAIETileSizeSelectionUtils.cpp`, SplitLogicalObjFifos, AssignTiles | a recursive search; bytes taken per mem tile | choose tile sizes; split FIFOs; assign columns, largest first | everything behind relies on the sizes | sizes counted against different limits still fit core and mem tiles | modelled for matmuls |
| other lowering strategies, dialects, aievec, code generation, micro kernels, xrt driver, CI | — | data rewrites, parsing, external tools | | | not modelled, see 6 |

How the parts follow each other (`Transforms/Passes.cpp`):

    tiling -> cores and object FIFOs -> workgroup -> DmaCSE -> AccessToAcquireRelease
      -> control overlay -> AssignConnectionTypes -> ControlCodeForallToFor
      -> DmaComposition -> DmaCSE -> AssignChannels -> AssignNpuDmaBdIds
      -> ControlCodeLoopUnroll -> DmaCSE -> ObjFifoBufferization -> AssignPacketIds
      -> NpuDmaToHalfDmaCpyNd -> InsertDmaBdChain -> FoldDmaWaits
      -> ControlCodeLowering, ControlCodeToTransaction -> AcquireReleaseToUseLock
      -> LowerToAIE -> buffer addresses, BD ids, routing -> executable -> driver

Passes do not call each other. They communicate only through the operations they
rewrite, and each relies on what the ones before it left: InsertDmaBdChain on
ids being rarely repeated, FoldDmaWaits on every remaining wait standing for one
pushed DMA, the lowering on every token having a producer, the core's program on
the DMA of the other side going around its ring of buffers as the program's text
does, the router's second run on finding what its first run did. Nothing in the
code checks these compositions, and the lit tests check each pass alone on a few
hand-written programs. Hard behaviours: id reuse across passes and wrap-around;
pushes delayed past waits, barriers and other connections; DMA ports that run at
their own speed; cursors of two actors fixed at different times; limits (queues,
channels, rule slots, arbiters, banks, dimensions); schemes that fail half way
and start over; caches that fetch and evict at any moment.

## 2. Modules

    ChannelBdIdGenerator --refines--> BdIdPool          BdIdRotation EXTENDS ChannelBdIdGenerator
    AssignNpuDmaBdIds     INSTANCEs ChannelBdIdGenerator, one per tile
    ControlCode           operations and legal programs
    InsertDmaBdChain, FoldDmaWaits, ShimDma  EXTEND ControlCode
    ControlCodePipeline   EXTENDS the three; --refines--> OrderedTransfers
    ObjectFifo --refines--> BoundedFifo
    TileDataflow          EXTENDS Workgroup EXTENDS CoreCode; --refines--> ObjectFifo, for each FIFO
    FlowAssignment        EXTENDS ChannelGenerator
    PacketRouting         EXTENDS PacketSwitch
    XrtLiteDriver --refines--> HalQueue
    ControlPackets --refines--> RegisterWrites
    MemoryPlanning        EXTENDS BufferAddresses
    DmaComposition

    BdIdProofs (BdIdRotation), BatchProofs (AssignNpuDmaBdIds), ChainProofs
    (ControlCodePipeline), ObjectFifoProofs, FlowProofs (FlowAssignment), RoutingProofs
    (PacketRouting), BufferProofs (BufferAddresses), DriverProofs (XrtLiteDriver)

**ChannelBdIdGenerator.** `assignedBdIds` and `lastUsedBdId` are the fields;
`asked` and `result` are the channel and the answer of the last call. `Pick` is
the two scans of `getAndAssignBdId` over the ascending list of a channel; an
unknown channel has no ids. AssignNpuDmaBdIds uses Incremental mode,
AssignBufferDescriptorIDs reserves the ids in the program and then uses Smallest
mode. `BdIdPool` is what a caller relies on: a request gets any free id of its
channel, or is refused when there is none. `BdIdRotation` adds a history
variable `idle` to state "least recently used first" for the channels `Sharing`
that have the same list.

**AssignNpuDmaBdIds.** The control code is chosen nondeterministically while
the pass walks it (`VisitDma`, `VisitWait`, `EnterLoop`, `LeaveLoop` build the
`TileDmaBatchGraph`s of the nested regions on a stack of frames). Then a work
list of batches is assigned and released in the code's order: a batch's ids, then
the batches inside it, then its release (`processDmaBatch`). Of an id
operation, `offset` and `size` are those of the expression `iv % size + offset` and `ids`
the ids that the pass records for it and releases. `begin` and `end` of a DMA record which operations lie
between it and its wait, so that "outstanding together" can be stated. A
scf.forall contributes no `forOpParent`, as in the code.

**ControlCode, InsertDmaBdChain, FoldDmaWaits.** `code` is a sequence of DMAs,
waits (each a set of DMAs) and barriers, `dmaOps` the operands the passes set
(`token`, `nextBd`, `startBd`). `pos` is the operation a reverse walk visits
next; one action per kind of operation visited, one for the end of the walk.
`DuplicateBreaks` is nondeterministic where the code iterates over a hash map.
A DMA here is the shim half of an `npu.half_dma_cpy_nd`; the other half does not
reach the device. The legal source programs (`LegalProgram`): DMAs and waits
nest, because CreateAIEWorkgroup puts a wait right behind each DMA and
`moveNpuDmaSyncUsersAfterAncestorInSameBlock` moves waits behind whole loops; a
connection is not used again, and a BD id of the tile not handed out again,
while a wait of it is outstanding (what AssignNpuDmaBdIds is for,
`OutstandingIdsDiffer`). A program also carries the `passes` it goes through:
the compiler's pipeline runs both, a single one isolates it.

**ShimDma, ControlCodePipeline.** `ControlCodeLowering` translates the rewritten
code: a write of the BD per DMA, a push unless the BD is linked to a next one, and
one TCT sync per run of neighbouring columns of a wait. The device is external:
the controller executes instructions in order and blocks in a sync until each
port has a token; a port takes a task from its queue, reads the BD it starts with
at that time, and follows `next` at the time it gets there. This is what makes a
BD that is rewritten too early visible. `moved` records the DMAs each port really
transferred. `OrderedTransfers` is the abstract specification: every connection
transfers its DMAs once, in program order, no transfer passes a barrier, and the
code ends only when everything was transferred (`KeepsContract`).

**ObjectFifo, CoreCode, Workgroup, TileDataflow.** `ObjectFifo` is one FIFO with
two locks and two cursors. `CoreCode` is the compiler's side as functions on a
core's program: `AccessToAcquireRelease` (which accesses become acquires and where
they are released), the infinite loop, and `AcquireReleaseToUseLock` (loops unrolled
by the least common multiple of the depths, buffers chosen by position in the text).
`Workgroup` is the way from a sequential program to a workgroup, again as functions:
`BuildCore` and `BuildControl` (a context for each loop, merged when it ends),
`DmaCSE`, the effect of loop subsumption and combination on the structure of the
control code (`Rewrites`; `Composed` is every result of applying them in any order),
`MoveWaits`, `Unroll`. Of an access pattern only the number of repetitions is kept:
the dimensions with stride zero, folded to one `count`, which combining adds and
subsuming multiplies. `TileDataflow` takes a source program through these stages,
one action per pass (a connection with several circular DMAs does not get on,
repetitions without a common factor are rejected), and then runs what comes out: two
cores with their traces, the rings of BDs that LowerToAIE gives the DMAs of mem
tiles and cores (with their repetitions), shim DMAs with queues and tokens, and
the controller, which executes the control code once per dispatch. Each FIFO of it
is shown to implement `ObjectFifo`. Core programs are those
DistributeCoresAndObjectFifos (330-425) leaves: loops of at least two trips, a
write of an output is its last access and stands in the block of the first one,
depths of at most two (`Passes.td:64-71`), one producer and one consumer per FIFO,
except for the FIFO a broadcast starts from. scf.forall is a loop like scf.for.

**ChannelGenerator, FlowAssignment.** One stage per pass, one connection a step:
the control overlay and its token routes take channels first, then connection
types by strategy or congestion-aware, then DMA channels (those assigned before
are registered first, in the order of the program; circuits then take the first
unused channel, packets the one used longest ago), then packet ids (control flows
first). `generator` is the `ChannelGenerator` of each port and exists while
AssignChannels runs: circuits' channels, and the queue in which channels of
packet flows come up again.

**PacketSwitch, PacketRouting.** `PacketSwitch` is what the pass computes for one
switch: rules with masks and their order, groups, connected components that share
an arbiter, arbiters and msels within the limits. Where the code walks a hash
table, the model takes every order: the slots of a port come up once per
connection or earlier rule (`NewVisits`, `PriorVisits`), an id that comes up again
may get into a second group, masks are kept per id and shared by the groups it is
in, and an msel belongs to a list of ports, so that one set of ports may use two
(`Keys`). `PacketRouting` collects flows,
routes them one by one (any tree of tile-simple paths within the capacity of
channels, which abstracts the costs of Dijkstra's search), rips all up when
channels are over-subscribed, and configures tile after tile; the pass runs for
control flows and then for data flows, with the result of the first in the
program.

**BufferAddresses.** One buffer a step: presets with bank or address reserved in
program order, the rest largest first over the banks in turn, across banks if
larger than one; deallocation and the sequential scheme after a failure, on the
state the failure leaves.

**MemoryPlanning.** What comes before: `matmul` is the input, `search` the
arguments of `findLargestL1TileSizes` and `findLargestL2TileSizes` (a tail
recursion each, one step per call), `plan` the fields of `ParameterSetting`,
`fifos` the parts of the three object FIFOs that still need a column, `usage` the
allocator's `tileLocToUsage`. `AllocateCore` hands the six buffers of a core, two
per operand, to BufferAddresses, whose actions follow. `PlanningSpec` also starts
with tiles of any origin, so that one run covers both.

**XrtLiteDriver, HalQueue.** The executable as the compiler serialises it (only
the first entry point has a PDI when control packets are used), one thread that
allocates, maps, updates, copies and dispatches. A dispatch creates or keeps the
context, goes through its phases (reconfigurations, kernel runs), issues the one
packet, waits, syncs the bindings. Caches are external: each buffer object has a
line that may be fetched and evicted at any moment. `HalQueue` is a synchronous
queue with plain contents of buffers.

**ControlPackets, RegisterWrites.** Write, block write and mask write operations
become packets (mask writes with an emulation buffer of last written words),
packets of legal lengths, and words of one buffer sent by transfers with barriers;
control ports take headers and words. `writes` is what the registers should see.

**DmaComposition.** `ops` are the DMAs of one connection with the loops around
them; one action per rewrite pattern, applied in any order. `Streams` is what a
pattern stands for: the sequence of addresses, all loops unrolled.

## 3. Runs

| run | question | instance | states |
|---|---|---|---|
| generator | does every call history refine the pool, and is Incremental mode least recently used? | channels with shared, own, empty and unknown lists, six ids, both modes | 110,000 |
| pipeline | are InsertDmaBdChain and FoldDmaWaits sound, alone and together, with waits merged across columns? | 6 DMAs on 2 ports of a tile, 3 rotating ids, one barrier (chaining); 9 DMAs on 2 tiles, same port, 4 rotating ids, queues of 2 (folding); 8 of them (both); 3 or 4 DMAs with repeat counts and all barrier sets (both) | 146,000 |
| assign_loops | ids that outstanding DMAs use; leaks | all control codes of up to 4 DMAs, 2 tiles, 2 loops of 3 or 2 trips or in parallel, 4 ids | 1,400,000 |
| object_fifo | is a FIFO with locks and cursors a queue? | depth 4, 12 objects | 176 |
| tile_dataflow | does splitting, composing, lowering keep what the program does, do cores and rings meet, and does all end? | two cores, three inputs (one through a mem tile, sent twice, one broadcast), two outputs, depths 1 and 2, prologue, nested and accumulating loops of 2 and 3 trips, epilogue, all orders of rewriting, up to 4 dispatches | 59,000 |
| epilogue (violation) | do unrolled loops keep step with the DMA when the depth does not divide the trips? | one output of depth 4, written 8 or 10 times | — |
| flows | do channels and ids suffice and stay apart? | 2 columns, 4 tiles, up to 4 connections, 5 strategies, 3 overlays | 529,000 |
| routing | do packets reach their destinations only? | 3 tiles, 2 links, ids of 2 bits, 3 rule slots, 4 arbiters, 3 msels, 8 sets of flows, all orders of hash tables | 6,200 |
| driver | is dispatch synchronous and coherent? | 2 buffers, 2 entry points, 5 operations, 0 or 2 kernel runs, 2 reconfigurations | 214,000 |
| buffers | do buffers lie apart; is the fallback enough; do the sizes chosen first fit in the end? | 6 buffers of 5 sizes, 4 banks of 16 KB, stacks, presets, all schemes; matmuls with dimensions 12, 96, 512, and 208x208x104, 240x264x24, 48x96x408, of 3 types on 4 arrays, both pipelines, with and without micro kernels | 395,000 |
| access_patterns | do rewrites keep the data, do they end? | 1 DMA in 2 loops or 2 DMAs in a row, sizes up to 4, strides up to 15 | 15,000 |
| control_packets | do the registers take the transaction? | 3 tiles, up to 3 operations out of 9, packets of 2 words, transfers of 9, broadcast | 180,000 |

**Bounds.** *generator*: six ids make two rotations overlap. *pipeline*: six DMAs are two
rotations of three ids: every id recurs, in the chain of its own connection and in
the other's, and chains of three BDs are built, broken and rebuilt; nine
DMAs are enough for a wait of one connection to be merged behind pushes of its own
later queue, which overflows then (5). Real queues hold four tasks, the counting is the same code. *assign_loops*:
four ids with two loops are exhausted and wrap around, and are enough for two DMAs in
loops to be outstanding together with two ids each. *object_fifo*: three
rounds of the ring. *tile_dataflow*: loops of trips that are and are not multiples
of the depth, circular DMAs of a connection in prologue, loop and epilogue, and
programs of up to `MaxShort` operations with the infinite loop around the cores and
four dispatches, the later ones starting with the cursors that the first left; in
these the shim's transfers stay apart (`regular` is empty), in the others
they are merged. `MaxObjects` is only the size of the abstract FIFO's history. *flows*: ports with two channels
are filled by two circuits; one more forces packets. *routing*: three ids per slave
port exceed neither slots nor masks alone but do together; two links are
over-subscribed by the circuits. *buffers*: sizes below, at and above a bank and two
banks, in descending order, since the schemes sort them or do not care; the real
core memory, mem tiles and stack. Dimensions of 12, 96 and 512 divide by some of
the vector sizes and not by others, and are smaller and larger than what an array
takes at once. The three other shapes come close to the memory: tiles that fit
without the stack only, tiles that are a whole M0 or N0, and tiles deeper than counted. *access_patterns*: limits of 3 and 4 are crossed by every combination of
two dimensions. *control_packets*: three operations are a full write, a masked one
on it, and one on another type of tile; blocks of five words are split in three.

**What runs leave out** is what does not hold there (section 5 says how it fails).
*assign_loops* has ranges of ids that wrap or have gaps, and leaves them out of
what `OutstandingIdsDiffer` claims; *pipeline* has connections whose waits are delayed,
and leaves them out of `QueuesFit`; *buffers* has pack sizes that nobody counted, and
leaves them out of `PlanIsPlaced`. The model has no limit of its own on queues, ids or
memory, so that what goes wrong there is seen and what follows it is still checked.
*pipeline* rotates through the ids of a tile, as Incremental mode does when
an id is back before the next is asked for. The chaining needs it: when a chain
is broken its ids are forgotten (InsertDmaBdChain.cpp:203), although its DMAs may
lie inside another open chain. With rotating ids the DMA one rotation before the
last DMA of an open chain has the id of that DMA and breaks the chain, so no chain
spans a rotation. With repeat counts only short programs are left, in which
every DMA of a tile has an id of its own. The waits of a source program stand right
behind their DMA. Folded programs have twice as many ids as a queue holds tasks,
since up to 2 * MaxQueueSize - 1 tasks are outstanding. *buffers* has buffers larger than a bank only on tiles
without a stack. *driver* leaves out kernels that read what update and copy wrote,
and dispatches an executable's first entry point first. *routing* uses ids that
differ wherever flows of different sources may share a link, and at most two ids
of a port with the same several destinations. *control_packets*
has registers that are clear, or written as a whole before they are masked, and
configures the tiles of a broadcast by operations of one of them.

Runs set CHECK_DEADLOCK FALSE where the system stops: when the control code has
been executed, the pass is done, or the program has made its MaxOps operations.
The liveness properties state that it gets there.

**Fairness.** Compiler passes are terminating loops: `WF(Compile)` in the pipeline
and in ControlPackets, `WF(Next)` for the greedy rewriting of DmaComposition. Pipeline:
`WF(Run /\ Controller)`, the controller executes the next instruction when it can
(a sync that lacks a token is not enabled), and `WF(Run /\ DmaPort(p))` for each
port: DMA hardware works through its queue. TileDataflow: `WF(Array)`: while some
core, DMA or the controller can go on, one of them does. This weakest assumption
suffices, since nothing in the array can go on for ever; of the compiler nothing is
assumed, `Settles` starts where it has ended. XrtLiteDriver: `WF(Driver)`, a
thread inside a dispatch runs on, and `WF(Array)`, the device executes its queue;
nothing is assumed about the host program or the caches. Safety properties
assume no fairness.

**Properties.**

- *generator*: `PoolSpec`, `LeastRecentlyUsed`, `IdleLiesAhead`, see 4.
- *pipeline*: `OpenBdIdsDisjoint`: the `break` in
  checkForChainsWithDuplicateBdId is right only because an id is in at most one
  open chain. `ChainOwnsItsBds`: between a linked BD and the push of its chain
  nobody on the tile uses its id. `BdNotOverwritten`: no BD that a queued or
  active task has still to read is rewritten. `QueuesFit`: no
  more tasks are queued and carried out at the port of a connection than its queue
  holds, the limit of canFoldByQueue (FoldDmaWaits.cpp:118), unless one of its waits
  was merged behind its later pushes (`WaitDelayed`): then they may (5). `NoTokenLeft`: at the end all tokens are consumed.
  `KeepsContract`: refinement of OrderedTransfers. `Terminates`: no sync waits
  forever.
- *assign_loops*: `OutstandingIdsDiffer`: two DMAs of a tile that are outstanding at
  the same time use different ids, in any of their iterations: for a DMA in a loop
  the ids are those that `iv % size + offset` gives (`UsedBdIds`), not those that
  the pass recorded. It is claimed of DMAs whose recorded ids are `Consecutive`, and
  fails for others (5). `AllIdsReleased`: after the pass every generator is empty
  again.
- *object_fifo*: `TypeOK` (locks within the depth), `Exclusive`, `ReadsInOrder`,
  `ImplementsFifo`.
- *tile_dataflow*: `CircularsUnique`: in whatever order operations were hoisted and
  merged, every connection is left with one circular DMA. `SplitInOrder`: executing
  the core's program is executing its parts of the source program in order, and the
  control code transfers as many objects as the source program. `ReadsInOrder`:
  whoever reads holds the object it is due to get, complete. `FifosImplemented`:
  every FIFO implements ObjectFifo. `Settles`: cores and controller end their
  programs, every transfer is done and waited for, every FIFO is empty.
- *epilogue*: `ReadsInOrder` is violated, see 5.
- *flows*: `LeavesRoom`, `AutoSuffices`: the automatic types never make AssignChannels
  run out. `CircuitOwnsChannel`, `LoadBalanced`, `PacketIdsSeparate`.
- *routing*: `DeliversExactly`: packets followed through rules, arbiters, msels and
  links reach the destinations of their flow and no other. `OneArbiterPerMaster`,
  `NoPartialOverlap` (with the option, packets that share a master share all),
  `KeepsAMSels` (the second run numbers the control flows as the first).
- *driver*: `QuietOutsideWait`, `ImplementsQueue`, `Returns`.
- *buffers*: `BuffersApart`, `CompilesWhatFits` (the default scheme compiles every
  tile whose buffers fit). `PlanIsPlaced`: if the pack sizes are at most the tile
  whose bytes the search counted (`Counted`), what pack-peel plans finds room in the
  mem tiles, the buffers of a core take less than its memory, and if they are not
  placed it is the stack that they leave no room for, which no limit of the search
  counts. In the run both happen, tiles that are placed and tiles that the stack
  keeps out; what nobody counted fails in either place (5).
- *access_patterns*: `DataKept` (same addresses, same order, both sides), `Terminates`.
- *control_packets*: `ImplementsWrites`, `Configured` (no port meets a word it does
  not expect, and all is carried out).

Every property of a passing run has a mutant of the code that breaks it.

## 4. Theorems

Checked by tlapm for all values of the constants.

*BdIdProofs* (assumes ids are bounded naturals, `UINT32_MAX` at least the bound,
and that the channels in `Sharing` have one list, as on a shim tile).

- `TypeCorrect`: `Spec => []TypeOK`.
- `GeneratorImplementsPool`: `Spec => PoolSpec`. The hard step is the refusal:
  both scans empty means no id is free. It needs that a non-empty set of naturals
  has a least element (`FirstExists`, from the well-foundedness of `<`).
- `RotationInvariant`, `IdleIdsLieAhead`, `IncrementalIsLeastRecentlyUsed`. That an
  id is picked although another one stayed idle cannot be excluded from the code's
  state alone. The invariant `RInv` says where idle ids lie: between the last id
  handed out and the id they are idle for, going up and around (`Before`). Picking
  the next free id going up and around then never reaches an id before the ids
  idle for it (`PickIsNext`), and the pick turns "between last and a" into "between
  the pick and a" (`BeforeShifts`, `BeforeSelf`).

*BatchProofs* (any loops, any finite number of tiles, at least one id a tile).

- `BatchInvariant`, and from it `OutstandingDmasDiffer` (`Spec => []OutstandingIdsDiffer`)
  and `IdsAreGivenBack` (`Spec => []AllIdsReleased`). The pass assigns ids to a tree
  of batches after the walk, so the invariant has two halves.
  `WalkInv`: a DMA is at one place of one tree; if one DMA starts while another of
  its tile is outstanding, both are in one batch or the later is inside the
  batch of the earlier (`Together`). It needs that what a DMA outside the innermost
  loop waits for is in the last batch of its frame, which adopts the batches of the
  loops entered since (`AwaitedIn`, `Nested`). `AssignInv`: the ids taken on a tile
  are those of the DMAs whose release is still in the work list, each of one DMA
  (`IdsAreHeld`), and a pair that is `Together` has different ids already, or is in one
  batch to be assigned, or the batch of the later comes before the release of the
  earlier (`PairOK`). Assigning a batch splits the second case by `TogetherSplit`.
- Trees have any depth. "Somewhere in a batch" is a path of batches (`Reach`), of
  which the proofs use the first step only: what is in a batch is among its DMAs
  or in a batch inside it. The loops of the code (n calls of `getAndAssignBdId`,
  the batches adopted one after the other, the flattened work list) are functions over 0 .. n,
  whose existence is proved as well (`StepsExist`).
- `OutstandingDmasDiffer` is about the ids that the DMAs use. Those recorded for two DMAs
  outstanding together always differ (`AssignInv`); that the expression
  `iv % size + offset` stays among them is the lemma `ExpressionStays`, and needs that
  they are `Consecutive`. A range that wraps around the end of the tile's ids, or
  has a gap, is not: the theorem does not speak of such DMAs, and for them it
  would be false (section 5).

*ChainProofs* (any programs the earlier passes can produce, `ProgramsAssumption`,
any connections, ports, BD ids and queue length; `NoBd` is no id, `NoTask` no task.
Three theorems have a further hypothesis, named with them.)

Chaining:

- `ChainInvariant`, `OneChainPerBdId`: `Spec => []OpenBdIdsDisjoint` for the whole
  pipeline. Not inductive alone: `ChainInv` adds that
  chains hold indices of existing DMAs, each in the chain of its own connection,
  and that no pass changes the connection or BD id of a DMA (`DmasKept`,
  `LinkingKeepsDmas`). The one interesting step is `VisitDma`: if the new DMA's id
  were still in an open chain after breaking, two chains of the tile held it
  before, which the invariant excludes (`VisitKeepsDisjoint`); breaking and
  finishing only shrink chains (`ChainsMayShrink`), and every later stage leaves
  them alone.
- `ChainsOwnTheirBds`: `ChainOwnsItsBds` where the ids of every program rotate
  (`Rotates`: between two uses of an id on a tile there is one of every id used later,
  by a DMA without a repeat count). `OwnInv` is about the DMAs seen so far, which are the last ones: chains
  fall without a gap (`NoGap`), what is linked keeps its BD up to its push
  (`ClosedKeep`), and no id of an open chain recurs behind its members (`NotAgain`).
  The id that recurs is one rotation away, so it belongs to the open chain the pass
  does look at; without rotation it may lie in a chain that was forgotten (section 3).

Tokens:

- `PassInvariant`: through chaining, folding and merging the code stays well-formed
  (`CodeOK`: every DMA once and in program order, at most one wait for it, behind
  it), the DMAs awaited are exactly those with a token, and a linked DMA, whose
  push is erased, has none (`LinkedAs`). For the steps of FoldDmaWaits the invariant
  says what the collected waits are: single waits of known DMAs, behind the position of the walk,
  in the reverse order of the code (`BatchOK`).
- `TokenAccountInvariant`: at every port the tokens there and those its tasks will
  still give are exactly what the remaining instructions take beyond what they
  ask for, and the same in every prefix of them, so that nothing is taken before it was asked for.
  That the lowered instructions balance is shown piece by piece along the code
  (`LoweringBalances`): a DMA asks for its token, a wait takes one for each of its
  DMAs, although it was turned into syncs over runs of columns (`IsBatches`); sums over the pieces
  are counts of a flattened sequence (`Upto`, `FlattenSteps`).
- `NoTokenIsLeft` (`Spec => []NoTokenLeft`) is the account at its end. `SyncsAreServed`
  is the safety half of `Terminates`: where a sync blocks, a task that will give the
  token is at the port, so that only the scheduling of the DMA is left to fairness.

Outstanding tasks:

- `SpacingInvariant`, `QueuesAreKept` (`Spec => []QueuesFit`) and `TasksAreBounded`, where waits
  are prompt (`PromptPrograms`) and connections do not share ports (`OneConnectionPerPort`).
  `SpacingInv` says of the passes: between two DMAs of a connection that keep their token
  less than a full queue of its DMAs is pushed (`Gaps`), and the wait of a DMA, wherever
  merging moved it, is before the next DMA of the connection with a token (`Spaced`).
  Half way through FoldDmaWaits it relates `bdIds` and the open queue of a
  connection to the DMAs seen (`OpenQueue`), and the waits of a batch, which are of
  different connections, to `connectionOps` (`Batched`). If the waits of a connection
  come before all its later DMAs (`InTurn`, what `~WaitDelayed` says of the code), then
  at any place of the code at most a full queue was pushed since the last wait
  (`FewUpTo`, `FewAhead`), hence in the lowered instructions (`Ahead`, `LoweredAhead`), and
  `BoundAccount` carries this to the run: what the port has not begun was pushed behind
  the last token it gave, and the controller is at most one token ahead. The same
  account with the limit 2 * MaxQueueSize - 1 (`LimitFor`) gives `TasksAreBounded`: how far
  a connection with delayed waits can overfill its queue. Without
  prompt waits (a DMA subsumed into a loop) neither is claimed, nor for packet
  flows that share a channel: the hazard at FoldDmaWaits.cpp:112.

The runs of MCPipeline evaluate all three hypotheses on their programs
(`RotatingAssumption`, `BoundAssumption`).

*ObjectFifoProofs* (any depth of at least one).

- `FifoInvariant`, and from it `FifoTypeOK`, `FifoExclusive`, `FifoReadsInOrder`,
  `FifoImplementsBounded`. The invariant is the account of the two locks: the
  values of both and the buffers in use add up to the depth, the cursors are the
  numbers of objects handed over modulo the depth, and the buffers from the
  reader's cursor on hold consecutive objects.

*FlowProofs* (any device, program, overlay and strategy). Types and packet ids:

- `TypesInvariant`, `TypesLeaveRoom`: `LeavesRoom` is not inductive by itself: a
  connection typed now may be the first packet flow of a port whose channels
  circuits fill up. The invariant says that while a port still has connections to
  type, its circuits leave the last channel, and relates the counters to the
  types assigned.
- `IdsInvariant`, `PacketIdsAreSeparate`: the ids given out for a source channel are
  0 to n - 1 for the n flows with an id, and no data flow has one while a
  control flow waits; finite cardinalities (FiniteSetTheorems) give that n was
  not handed out before.

and the channels:

- `ChannelsInvariant`, and from it `CircuitsOwnTheirChannels` and
  `PacketFlowsAreBalanced`. A channel of a circuit is told from others only by the
  generator's sets, which AssignChannels makes anew: `ChannelInv` says that the
  generator knows exactly the channels of the flows registered or assigned so far
  (`Knows`), and that until then circuits are alone because the overlay has
  assigned control flows to channels in order (`ControlFirst`). `LoadInv` is the account
  of the round robin: the order of the queue is the order in which channels were
  used last (`QueuedByUse`), the loads follow it and differ by at most one.
- `RoomInvariant`, `AutoNeverRunsOut`: with automatic types AssignChannels never
  runs out. `RoomInv` relates the two usage counters to the flows typed so far, and
  adds that the circuits of a port together with one channel for its packet flows
  fit it; the control flows of the overlay are counted in from the start. In the
  order of AssignChannels circuits come first, so that packet flows find the
  channel that is left.

*RoutingProofs* (any device, limits, flows, routes and orders of hash tables).

- `RoutingInvariant`, `MastersHaveOneArbiter`, `PacketsDoNotOverlapInPart`. The
  invariant relates the configuration of a tile to the flows it was made from
  (`TileSound`). Of the search for a component it has to be shown that it ends: each
  step either adds a slot or the set is closed under sharing a master port, so
  after as many steps as there are slots it is closed; merging closed sets keeps
  them closed, and slots that share a master port end up with one arbiter. A rule has the
  amsel of one slot of its group, whose destinations are those of each id the
  rule lists, so the arbiter is right for all of them. An arbiter that shows no second
  msel has one list of ports, hence all its slots go to the same ones. The rules
  and amsels of an earlier run stay within what was proved for it.

*BufferProofs* (the first one assumes `SmallBuffers`: no buffer is larger than a
bank).

- `DefaultCompilesWhatFits`: `CompilesWhatFits` for every tile, with the invariant
  that the sequential scheme has used the bytes of the buffers before the current one and
  of the stack, and starts with nothing but them.
- `SmallBuffersApart`: `BuffersApart` for every number of banks, sizes, stacks,
  presets and all schemes. The invariant: every placed buffer lies below the next
  free address of its bank, or is a preset checked against it, and the fallback
  starts with nothing placed but presets above its cursor. Buffers larger than a
  bank are left to TLC; on core tiles the property does not hold for them (5).

*DriverProofs* (any buffers, programs and options).

- `OneCommandAtATime`, `DeviceQuietOutsideWait`: the device holds at most the one
  command that the thread waits for, whose packet is not COMPLETED before it has
  run. It needs that the packet's state is reset for every repetition.
- `DispatchInvariant`, `DriverImplementsQueue`: the refinement of `HalQueue`, under
  `CarefulProgram`, which is what the run leaves out as well (5): kernels do not read
  what update and copy left in the cache, and the entry point that has a PDI is dispatched
  first. `QueueInv` adds to the above: caches differ from memory only where a flush is
  owed or the kernel writes (`MemoryInv`); the phases left are the kernel, or a
  reconfiguration and the kernel (`JobInv`); when the last phase starts the array is
  configured for its entry point (`ContextInv`); and the packet and the queued or running
  command have the arguments of the dispatch, of which a completed kernel has
  written the output to memory (`CommandInv`).

Recursive definitions are functions over 0 .. n in these modules, and what holds of
each step is shown for all of them by a smallest counterexample (`UpToN` in
RoutingProofs and BatchProofs), not by the library's induction theorems, which the provers cannot
instantiate.

Only model-checked:

- In ControlCodePipeline `BdNotOverwritten` and the refinement of OrderedTransfers: both
  relate the run to the source program through the BD table, beyond what the accounts of tokens and
  tasks say. `KeepsContract` needs that the waits folded away are implied by
  those kept, in the order of the transfers.
- `DeliversExactly` and `KeepsAMSels` of the routing, the first of which is not true
  of all flows (section 5), and control packets.
- The composition of FIFOs in TileDataflow (`CircularsUnique`, `ReadsInOrder`,
  `FifosImplemented`) and the planning of tile sizes (`PlanIsPlaced`, which is about
  the numbers of real arrays rather than all constants).

Out of the prover's reach: liveness under fairness (`Terminates`, `Settles`, `Returns`, `Configured`), and
what the folds over source programs and over sequences of accesses and operations
compute for every input (`DataKept`, `SplitInOrder`), which needs induction over data.

## 5. Where the code does not do what it seems to

Each shows up in the model with the change named here, and is what the passing runs
leave out. The first one under *object FIFOs* is a run, *epilogue*.

*Control code.*

- Chaining ignores the waits that stand between DMAs (InsertDmaBdChain). With the
  wait of a connection moved behind DMAs of another one, BDs in use are
  reconfigured. With ids in any order five DMAs show the forgotten ids of a broken
  chain: x:bd0, y:bd1, y:bd0, x:bd2, y:bd1.
- A DMA with repeat count > 1 skips the check for duplicate ids and may use the BD
  of an open chain, before the chain is pushed. Rotating ids do not help: x:bd0,
  y:bd1, x:bd2, y:bd0, x:bd1 with repeat counts on y becomes one chain of x around
  y's bd0.
- FoldDmaWaits compares a wait on a chain by the id of the chain's last BD only;
  folding it lets another connection on the tile overwrite an earlier BD of it.
- FoldDmaWaits' second walk merges a wait into a later one, behind pushes of the
  same connection that the first walk left without a wait. The limit that
  canFoldByQueue counts is broken then: a queue of four may get seven tasks. In the
  run, with queues of two, this happens: x x x z z ... on two tiles becomes x, x, x, z,
  wait for x's second and z's DMA, and three tasks of x are at its port. `QueuesFit`
  without `WaitDelayed` fails. What the controller does when a queue is full is
  not in this repository; in the model a queue takes any number of tasks, so
  that everything behind is checked all the same. The limit is counted per
  connection, while packet flows share DMA channels and queues.
- A range of ids that wraps around does not fit `iv % size + offset`
  (AssignNpuDmaBdIds.cpp:406): with four ids {2, 3, 0} is used as 2, 3, 4, and the tile
  has no id 4. Neither does a range with a gap at an id that is in use. With three ids:
  one DMA takes 0 and is awaited, the next takes 1 and stays outstanding, one in a
  forall takes 2, and one in a loop is recorded with {0, 2} and uses 0 and 1, the latter while the
  second DMA does. With `NumBdIds = 3` and without `Consecutive`,
  `OutstandingIdsDiffer` fails on this. The iterations of a sub-loop are not counted as the
  comment of `test/assign_npu_dma_bd_ids.mlir:641-643` does (5 there, 4 in the CHECK
  line). Only the wait on the first DMA of a group ends a batch, and only that of its
  tile (572-592): with interleaved DMAs of two tiles the other tile's batch grows
  until the pass fails with "no BD ID available".
- A transfer that needs another connection's data may be delayed behind a wait for
  that connection by chaining; the model has no data dependencies there.

*Object FIFOs.* A loop whose trips are no multiple of the depth gets an epilogue
loop whose accesses keep one buffer for all trips (AcquireReleaseToUseLock.cpp:37,
the comment at 188-191 says otherwise), while the DMA goes round. Depths of two
leave one trip at most. In *epilogue* (depth 4, 10 trips) the last two writes go to
the same buffer, and the second one starts while the first is read.

- The users of a FIFO repeat in a ratio that comes from their circular DMAs
  (LowerToAIE.cpp:96-111), which need not be the ratio in which they use it. With
  `wc; [Dma toMem; For 2 {Circular toA; read}]; For 2 {the same}; out`, a reuse loop both
  in the prologue and in the loop, DmaCSE leaves the mem tile's input one circular DMA
  of count 1, while the counts of its output are merged to 6: the output sends each
  buffer six times, the core reads each twice, and `Settles` fails. Reuse loops of the
  run stand once in a program.
- A FIFO that several DMAs fill or empty has one counting semaphore for all of them
  (ObjFifoBufferization.cpp:68-72, LowerToAIE.cpp:770-780). Acquiring once for each
  DMA of the other side tells how many have arrived, not which: a fast producer that
  arrives twice stands in for a slow one, and `ReadsInOrder` fails. In the run only
  the FIFO that a broadcast starts from has one DMA for several targets.

*Routing.* Packet ids are numbered per source, links are shared between sources:
two flows with one id on one link are delivered to the places of both. A data flow
with the id of a control flow does the same, and
Dijkstra's search keys switchbox ports without telling masters from slaves, so that
only paths without a repeated tile are meant. An id that comes up for a second
destination may be put into a second group, and its mask, kept per id, is then
that of the group changed last. With three ids of a port that go to the same two ports
the rules need no longer match their own ids, which the comment above
`verifyGroupsByMask` takes for granted ("Verify that we actually map all the ID's
correctly", AMDAIECreatePathFindFlows.cpp:502): ids 0, 1, 3 to DMA 0 and 1, ids 2, 5 to
CTRL, masks of 3 bits and 4 rule slots may give the rules {0}, {1}, {1,3} for 1
only, {2,5} for everything, and the packets of id 3 go to CTRL. With these
flows in `OpSets`, `DeliversExactly` fails. `addFlow` decides the flow's group
from the largest one in use (iree_aie_router.cc:296).

*Buffer addresses.* A buffer of more than a bank may be placed in a window of banks
that wraps from the last one to bank 0: on a core of 64 KB with a stack of 1 KB and
buffers of 32 KB and 24 KB the second gets 48K to 72K, although the comment at
AssignBufferAddresses.cpp:133-139 wants space "across banks". With
`Tiles <- CoreTiles` BuffersApart fails. A failed bank-aware attempt leaves its
mem_bank attributes behind.

*Tile sizes.* The search for L1 tiles counts the buffers of a core against its whole
memory (AMDAIETileSizeSelectionUtils.cpp:27-32); the stack of 1 KB is counted by nobody. A
bf16 matmul of 208x208x104 with micro kernels on 4x4 cores of npu1 gets tiles of 52x52x104
with 64,896 bytes of buffers, 65,920 with the stack, of 65,536: it passes the search
and is not placed. It is in the run. If no vector fits the share of a core, `m0Pack` or `n0Pack` becomes the
whole `M0` or `N0` (KernelDispatch.cpp:296-297), for which the search did not count:
a bf16 matmul of 32x112x128 on 4x8 cores of AIE2P no longer fits a core, and parts of one of 240x264x24 on 4x4 cores of npu1 find
no mem tile. With fewer
columns in `N` than the array has, `N0 / numCols` is 0 and so is `n0Pack`, since 0 is
divisible by every vector size; the pipeline with four levels then computes
`inputN % 0`. That pipeline counts its L2 tiles against all mem tiles together, while
AssignTiles places parts in single ones, and may fail for want of room. `k0Pack` is
at most 32 (64) without micro kernels, need not divide K, and may be more than the
search found: 32 instead of 24 for an i32 matmul of 48x96x408 on one core, which is not
placed. With `Counted` left out `PlanIsPlaced` fails on these.

*Driver.* update_buffer and copy_buffer write through the CPU's cache without a
flush: with `UnflushedUse = TRUE` a kernel reads old memory. With control packets only
the first entry point has a PDI: with `AnyEntryFirst = TRUE` another one dispatched
first runs without. With 0 PDI loads the context pointer is null when used, and with
0 reconfigurations kernels run in the configuration before. Semaphores and fences
are accepted and ignored; synchronous execution makes up for it. poll_command takes
`state >= COMPLETED` for done, which errors and SUBMITTED satisfy too.
replace_device_allocator (device.cc:152) releases the allocator it has just stored.
Destroying an executable leaks its context.

*Access patterns.* Combining two DMAs that each repeat gives a zero stride in a middle
dimension, which the lowering (ControlCodeLowering.cpp:148) turns into a stride
of 1; matchStridesOfUnitDims divides by a stride that may be zero; sizes of
combined patterns are checked against the limits of the source only
(CombineStridedOps.cpp:110); elements smaller than a word are truncated (148-152).

*Control packets.* A mask write to an address that the transaction did not write
before clears the bits outside its mask. A broadcast configures all cores by the
operations of one; that they would be the same for all is not checked.

Whether today's front ends produce such programs is not decided by the models:
each pass accepts them, and says nothing of excluding them.

## 6. What is not modelled

- Shim side: dependencies between connections at the shim (a transfer is one step of
  its port and never blocks on a core; TileDataflow models the other side of the
  stream). Execution of more than one dispatch in the pipeline (TileDataflow has
  several). Dynamic loop
  bounds. Source programs whose waits are merged or cross.
- DMA composition: scf.forall (converted before), dynamic
  sizes, hoisting of affine maps, merging of patterns of different rank
  0 and 1, foldSingleDims, single unit-element patterns, an
  induction variable in two dimensions of one pattern; register encodings.
- Routing: costs, the bound of 1000 iterations, the shim multiplexer (a DMA port
  behind it), duplicates in the work list. Object FIFOs with several producers or
  consumers that share a lock (5). Workgroup keeps of patterns only repetitions,
  assumes them within the hardware's limits, and has patterns of array-side
  DMAs that do not depend on loops.
- Driver: several host threads, device failures and timeouts, the option of an
  infinite dispatch loop, the xrt driver, fences that nothing calls.
- Control packets: parity and header fields, ELF contents, the order of operations
  inside aie-rt's transactions.
- Tile sizes of matmuls with an elementwise consumer, batch matmuls and
  convolutions, and of the AIR pipeline. Which DMA of a FIFO goes to which part when
  it is split; L3 FIFOs, which nothing limits.
- Rewriting of tensors, aievec, dialect verifiers, code
  generation and packaging: pure functions on tensors and files, calls of external
  tools. No state a model of steps could get wrong.

## 7. Plan

1. Device configuration (LowerToAIE, `iree_aie_configure.cc`): the order of lock
   values, BDs, switches and core enables, feeding ControlPackets.
2. Proofs: from the account of tasks to `BdNotOverwritten`, and from there to the
   refinement of OrderedTransfers; the packets of ControlPackets.

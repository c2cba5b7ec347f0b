--------------------------- MODULE XrtLiteDriver ---------------------------
(***************************************************************************)
(* The xrt-lite driver, from the executable the compiler serialises to the *)
(* commands in a hardware queue: one host thread replays recorded command  *)
(* buffers, dispatches synchronously, and keeps host caches and memory     *)
(* consistent by hand.  The CPU caches, the device and the kernel driver   *)
(* behind the ioctls are external.                                         *)
(***************************************************************************)
EXTENDS Integers, Sequences, FiniteSets

CONSTANTS
  Buffer,        \* HAL buffers: host-visible shared memory
  Entry,         \* entry points of the executable
  HostValue,     \* what the host writes
  KernelRuns,    \* values of xrt_lite_n_kernel_runs
  ReconfRuns,    \* of xrt_lite_n_reconfigure_runs
  PdiLoads,      \* of xrt_lite_n_pdi_loads
  MaxOps,        \* bound: operations of the program
  UnflushedUse,  \* may kernels use what update and copy wrote?
  AnyEntryFirst  \* may a program dispatch any entry point first?

ASSUME OptionsAssumption ==
  /\ KernelRuns \subseteq Nat
  /\ ReconfRuns \subseteq Nat \ {0} /\ PdiLoads \subseteq Nat \ {0}
\* The driver's own buffers, and the values of no entry point.
ASSUME NamesAssumption ==
  {"instr", "seq"} \cap Buffer = {} /\ {"null", "none"} \cap Entry = {}

VARIABLES
  exe,        \* the executable and its options
  cache, mem, \* per buffer object: the CPU's line, and memory
  held,       \* allocated buffers
  unflushed,  \* written by update or copy and not flushed since (history)
  context,    \* executable->context, with its queue and the device behind it
  host,       \* where the thread is in a dispatch
  packet,     \* the command packet: state and id
  read,       \* what the program read last (history)
  ops         \* operations so far

vars == <<exe, cache, mem, held, unflushed, context, host, packet, read, ops>>
memory == <<cache, mem>>

Abs == INSTANCE HalQueue WITH contents <- [b \in Buffer |-> IF cache[b].dirty THEN cache[b].val ELSE mem[b]],
                              job <- host.job, read <- read, runs <- exe.kernelRuns
Garbage == Abs!Garbage
NoJob == Abs!NoJob

-----------------------------------------------------------------------------
(* The executable (AIETarget.cpp serializeExecutable, executable.cc).        *)
Artifact(x, e) == IF ~x.ctrlPkt \/ e = x.first THEN e ELSE "none"
AsmRunlist(x, e) == IF x.ctrlPkt THEN <<<<"ctrlpkt", e>>, <<"npu", e>>>> ELSE <<<<"npu", e>>>>
ReconfRunlist(x, e) == IF x.ctrlPkt THEN <<<<"seq", e>>>> ELSE <<>>

\* The commands of a dispatch: normal_run or, per reconfiguration, both.
Phases(x, e) ==
  LET asm == AsmRunlist(x, e)
      seqs == ReconfRunlist(x, e)
      Run(i) == [kind |-> "run", asm |-> asm[i], seq |-> <<>>]
      Reconf(i) == [kind |-> "reconfigure", asm |-> asm[i], seq |-> seqs[(i + 1) \div 2]]
  IN  IF seqs = <<>> THEN <<Run(1)>>
      ELSE [i \in 1 .. 2 * Len(seqs) |-> IF i % 2 = 1 THEN Reconf(i) ELSE Run(i)]

CreatesContext(x, e, ctx) == ctx.pdi = "null" \/ ReconfRunlist(x, e) = <<>>

-----------------------------------------------------------------------------
(* Buffer objects, CPU cache and memory: m = [cache, mem].                   *)
Bo == Buffer \cup {"instr", "seq"}
NoLine == [val |-> Garbage, held |-> FALSE, dirty |-> FALSE]
Line(v, d) == [val |-> v, held |-> TRUE, dirty |-> d]
Ram == [cache |-> cache, mem |-> mem]

Store(m, b, v) == [m EXCEPT !.cache[b] = Line(v, TRUE)]
LoadFrom(m, b) == IF m.cache[b].held THEN m.cache[b].val ELSE m.mem[b]
\* clflush_data: whatever the direction, write back and invalidate.
Flush(m, b) == [m EXCEPT !.mem[b] = IF m.cache[b].dirty THEN m.cache[b].val ELSE @,
                         !.cache[b] = NoLine]
\* The kernel driver's fresh pages may still be dirty in the cache.
FreshPages(m, b) == [m EXCEPT !.mem[b] = Garbage, !.cache[b] = Line(Garbage, TRUE)]
AllocShmem(m, b) == Flush(FreshPages(m, b), b)
AllocDev(m, b) == FreshPages(m, b)
\* Filling a buffer of instructions or control packets and handing it over.
FillBo(m, b, what) == Flush(Store(m, b, [op |-> what, args |-> <<>>]), b)
FlushAll(m, bs) == [cache |-> [b \in Bo |-> IF b \in bs THEN NoLine ELSE m.cache[b]],
                    mem |-> [b \in Bo |-> IF b \in bs /\ m.cache[b].dirty
                                            THEN m.cache[b].val ELSE m.mem[b]]]
SetRam(m) == cache' = m.cache /\ mem' = m.mem

-----------------------------------------------------------------------------
Idle == [pc |-> "idle", job |-> NoJob, todo |-> <<>>, loads |-> 0, reps |-> 0]
NoCommand == [id |-> 0, kind |-> "none", job |-> NoJob]
NullContext == [pdi |-> "null", config |-> "none", queue |-> <<>>, running |-> NoCommand,
                args |-> <<>>, issued |-> 0, done |-> 0]
\* Creating a context loads the PDI; the old context is destroyed after that.
NewContext(pdi) == [NullContext EXCEPT !.pdi = pdi, !.config = pdi]

Init ==
  /\ exe \in [ctrlPkt : BOOLEAN, first : Entry, kernelRuns : KernelRuns,
              reconfRuns : ReconfRuns, pdiLoads : PdiLoads]
  /\ cache = [b \in Bo |-> NoLine] /\ mem = [b \in Bo |-> Garbage]
  /\ held = {} /\ unflushed = {} /\ context = NullContext /\ host = Idle
  /\ packet = [state |-> "COMPLETED", id |-> 0] /\ read = Garbage /\ ops = 0

\* The program's next operation, between operations.
Operation == host.pc = "idle" /\ ops < MaxOps /\ ops' = ops + 1
UnchangedDevice == UNCHANGED <<exe, context, packet>>

AllocateBuffer(b) ==
  /\ Operation /\ b \notin held /\ held' = held \cup {b}
  /\ SetRam(AllocShmem(Ram, b))
  /\ unflushed' = unflushed \ {b} /\ UnchangedDevice /\ UNCHANGED <<host, read>>
FreeBuffer(b) ==
  /\ Operation /\ b \in held /\ held' = held \ {b}
  /\ UnchangedDevice /\ UNCHANGED <<memory, unflushed, host, read>>
\* map_range for writing, the program's writes, unmap_range
MapWrite(b, v) ==
  /\ Operation /\ b \in held
  /\ SetRam(Flush(Store(Flush(Ram, b), b, Abs!HostMade(v)), b))
  /\ unflushed' = unflushed \ {b} /\ UnchangedDevice /\ UNCHANGED <<host, read, held>>
\* map_range, the program's reads, unmap_range
MapRead(b) ==
  /\ Operation /\ b \in held
  /\ LET m == Flush(Ram, b) IN read' = LoadFrom(m, b) /\ SetRam(Flush(m, b))
  /\ unflushed' = unflushed \ {b} /\ UnchangedDevice /\ UNCHANGED <<host, held>>
UpdateBuffer(b, v) ==
  /\ Operation /\ b \in held /\ SetRam(Store(Ram, b, Abs!HostMade(v)))
  /\ unflushed' = unflushed \cup {b} /\ UnchangedDevice /\ UNCHANGED <<host, read, held>>
CopyBuffer(s, t) ==
  /\ Operation /\ s # t /\ {s, t} \subseteq held /\ SetRam(Store(Ram, t, LoadFrom(Ram, s)))
  /\ unflushed' = unflushed \cup {t} /\ UnchangedDevice /\ UNCHANGED <<host, read, held>>

(* dispatch, up to its first context or command.                             *)
Dispatch(e, i, o) ==
  /\ Operation /\ i # o /\ {i, o} \subseteq held
  /\ UnflushedUse \/ {i, o} \cap unflushed = {}
  /\ AnyEntryFirst \/ ~exe.ctrlPkt \/ context.pdi # "null" \/ e = exe.first
  /\ host' = [pc |-> "context", job |-> [entry |-> e, ins |-> <<i>>, out |-> o],
              todo |-> Phases(exe, e), reps |-> 0,
              loads |-> IF CreatesContext(exe, e, context) THEN exe.pdiLoads ELSE 0]
  /\ UnchangedDevice /\ UNCHANGED <<memory, held, unflushed, read>>

CreateContext ==
  /\ host.pc = "context" /\ host.loads > 0
  /\ context' = NewContext(Artifact(exe, host.job.entry))
  /\ host' = [host EXCEPT !.loads = @ - 1]
  /\ UNCHANGED <<exe, memory, held, unflushed, packet, read, ops>>
ContextReady ==
  /\ host.pc = "context" /\ host.loads = 0 /\ host' = [host EXCEPT !.pc = "phase"]
  /\ UNCHANGED <<exe, memory, held, unflushed, context, packet, read, ops>>

-----------------------------------------------------------------------------
(* normal_run and reconfigure: buffers, then issue and wait as often as the  *)
(* options say, then the bindings are synchronised.                          *)
Phase == Head(host.todo)
\* On to the next phase, or back to the program.
NextPhase == IF Len(host.todo) = 1 THEN Idle
              ELSE [host EXCEPT !.pc = "phase", !.todo = Tail(@)]

BeginPhase ==
  /\ host.pc = "phase"
  /\ IF Phase.kind = "run" /\ exe.kernelRuns = 0
     THEN host' = NextPhase /\ UNCHANGED <<memory, packet>>
     ELSE /\ LET m == FillBo(AllocDev(Ram, "instr"), "instr", Phase.asm)
             IN  SetRam(IF Phase.kind = "run" THEN m ELSE FillBo(AllocShmem(m, "seq"), "seq", Phase.seq))
          /\ packet' = [state |-> "NEW", id |-> 0]
          /\ host' = [host EXCEPT !.pc = "issue",
                         !.reps = IF Phase.kind = "run" THEN exe.kernelRuns ELSE exe.reconfRuns]
  /\ UNCHANGED <<exe, held, unflushed, context, read, ops>>

\* The packet's state is reset, the kernel driver queues it and numbers it.
KeepState(p) == p     \* mutant
ResetState(p) == [p EXCEPT !.state = "NEW"]
NextCmdId(seq) == seq + 1     \* mutant
CmdId(seq) == seq
IssueCommand ==
  /\ host.pc = "issue"
  /\ LET id == context.issued + 1
     IN  /\ packet' = [ResetState(packet) EXCEPT !.id = CmdId(id)]
         /\ context' = [context EXCEPT !.issued = id,
                           !.queue = Append(@, [id |-> id, kind |-> Phase.kind, job |-> host.job])]
  /\ host' = [host EXCEPT !.pc = "wait", !.reps = @ - 1]
  /\ UNCHANGED <<exe, memory, held, unflushed, read, ops>>

MoreRuns == host.reps > 0
PollCommand == packet.state = "COMPLETED"
WaitCommand ==
  /\ host.pc = "wait" /\ (PollCommand \/ context.done >= packet.id)
  /\ host' = CASE MoreRuns -> [host EXCEPT !.pc = "issue"]
               [] ~MoreRuns /\ Phase.kind = "run" -> [host EXCEPT !.pc = "sync"]
               [] OTHER -> NextPhase
  /\ UNCHANGED <<exe, memory, held, unflushed, context, packet, read, ops>>

InputsOnly(j) == {j.ins[i] : i \in DOMAIN j.ins}     \* mutant
Bindings(j) == {j.ins[i] : i \in DOMAIN j.ins} \cup {j.out}
SyncBindings ==
  /\ host.pc = "sync" /\ SetRam(FlushAll(Ram, Bindings(host.job)))
  /\ host' = NextPhase
  /\ UNCHANGED <<exe, held, unflushed, context, packet, read, ops>>

-----------------------------------------------------------------------------
(* External: the CPU's caches, and the array behind a hardware context.      *)
Prefetch(b) == /\ ~cache[b].held /\ cache' = [cache EXCEPT ![b] = Line(mem[b], FALSE)]
               /\ UNCHANGED <<exe, mem, held, unflushed, context, host, packet, read, ops>>
Evict(b) == /\ cache[b].held /\ SetRam(Flush(Ram, b))
            /\ UNCHANGED <<exe, held, unflushed, context, host, packet, read, ops>>

\* The array starts on a command: instructions and inputs come from memory.
StartCommand ==
  /\ context.running = NoCommand /\ context.queue # <<>>
  /\ LET cmd == Head(context.queue)
     IN  context' = [context EXCEPT !.queue = Tail(@), !.running = cmd,
                       !.args = <<mem["instr"].op>> \o
                                IF cmd.kind = "run" THEN [i \in DOMAIN cmd.job.ins |-> mem[cmd.job.ins[i]]]
                                ELSE <<mem["seq"]>>]
  /\ UNCHANGED <<exe, memory, held, unflushed, host, packet, read, ops>>

\* Control packets reach an array that a PDI has configured, a kernel runs
\* whatever the array is configured for.
FinishCommand ==
  /\ context.running # NoCommand
  /\ LET cmd == context.running
         instr == Head(context.args)
     IN  /\ mem' = IF cmd.kind = "run"
                     THEN [mem EXCEPT ![cmd.job.out] = Abs!Made(context.config, instr[2], Tail(context.args))]
                     ELSE mem
         /\ context' = [context EXCEPT !.running = NoCommand, !.args = <<>>, !.done = cmd.id,
                           !.config = IF cmd.kind = "run" \/ @ = "none" \/ instr[1] # "ctrlpkt" THEN @
                                      ELSE context.args[2].op[2]]
         /\ packet' = IF packet.id = cmd.id THEN [packet EXCEPT !.state = "COMPLETED"] ELSE packet
  /\ UNCHANGED <<exe, cache, held, unflushed, host, read, ops>>

-----------------------------------------------------------------------------
Program == \/ \E b \in Buffer : AllocateBuffer(b) \/ FreeBuffer(b) \/ MapRead(b)
           \/ \E b \in Buffer, v \in HostValue : MapWrite(b, v) \/ UpdateBuffer(b, v)
           \/ \E b, c \in Buffer : CopyBuffer(b, c) \/ \E e \in Entry : Dispatch(e, b, c)
Driver == CreateContext \/ ContextReady \/ BeginPhase \/ IssueCommand \/ WaitCommand \/ SyncBindings
Array == StartCommand \/ FinishCommand
Caches == \E b \in Bo : Prefetch(b) \/ Evict(b)

Next == Program \/ Driver \/ Array \/ Caches
Spec == Init /\ [][Next]_vars /\ WF_vars(Driver) /\ WF_vars(Array)

-----------------------------------------------------------------------------
TypeOK ==
  /\ held \subseteq Buffer /\ unflushed \subseteq Buffer /\ ops \in 0 .. MaxOps
  /\ host.pc \in {"idle", "context", "phase", "issue", "wait", "sync"} /\ host.reps >= 0
  /\ \A b \in Bo : cache[b].dirty => cache[b].held
  /\ context.done <= context.issued /\ packet.state \in {"NEW", "COMPLETED"}

(* While no thread waits for a command none is queued or running: contexts   *)
(* are destroyed and buffers freed without asking the device.                *)
QuietOutsideWait ==
  host.pc # "wait" => context.queue = <<>> /\ context.running = NoCommand

(* The driver is an in-order queue with coherent buffers: kernels read what  *)
(* was written before, run in the configuration of their own entry point,    *)
(* and a dispatch returns with its output visible to every later operation.  *)
ImplementsQueue == Abs!Spec

(* Every dispatch returns.                                                   *)
Returns == host.pc # "idle" ~> host.pc = "idle"
=============================================================================

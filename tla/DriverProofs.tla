---------------------------- MODULE DriverProofs ----------------------------
(***************************************************************************)
(* The driver for any buffers, programs and options.  It is synchronous:   *)
(* while the thread does not wait, nothing is queued or running on the     *)
(* device (DeviceQuietOutsideWait).  And it is the queue of HalQueue, if   *)
(* kernels do not read what update and copy wrote and the entry point      *)
(* that has a PDI is dispatched first (DriverImplementsQueue).             *)
(***************************************************************************)
EXTENDS XrtLiteDriver, SequenceTheorems, TLAPS

(* What the thread waits for is the last command it issued.  Its packet is *)
(* NEW as long as the command is queued or running, whatever the packet    *)
(* said of the run before, and no later number has been completed.         *)
Outstanding(cmd) == /\ cmd.id = packet.id
                    /\ packet.state = "NEW"
                    /\ context.done < packet.id

Quiet == context.queue = <<>> /\ context.running = NoCommand
Queued == /\ \E cmd \in {context.queue[1]} : context.queue = <<cmd>> /\ Outstanding(cmd)
          /\ context.running = NoCommand
Running == context.queue = <<>> /\ Outstanding(context.running)

ContextType == /\ DOMAIN context = DOMAIN NullContext
               /\ context.issued \in Nat /\ context.done \in 0 .. context.issued
               /\ DOMAIN packet = {"state", "id"}
               /\ DOMAIN host = DOMAIN Idle

SyncInv ==
    /\ ContextType
    /\ host.pc # "wait" => Quiet
    /\ host.pc = "wait" => /\ packet.id = context.issued /\ packet.id > 0
                           /\ Quiet \/ Queued \/ Running

-----------------------------------------------------------------------------
LEMMA StartsQuiet == Init => SyncInv
  BY DEF Init, SyncInv, ContextType, Quiet, NullContext, Idle

(* Steps of the program, of the caches, and of the driver between commands.*)
LEMMA HostStep ==
    ASSUME SyncInv, host.pc # "wait", host'.pc # "wait", DOMAIN host' = DOMAIN host,
           context' = context, DOMAIN packet' = DOMAIN packet
    PROVE  SyncInv'
  BY DEF SyncInv, ContextType, Quiet

LEMMA NothingHappens ==
    ASSUME SyncInv, UNCHANGED <<host, context, packet>>
    PROVE  SyncInv'
  BY DEF SyncInv, ContextType, Quiet, Queued, Running, Outstanding

(* On to another phase or back to the program, the thread does not wait.   *)
LEMMA NextPhaseIsNoWait ==
    ASSUME ContextType
    PROVE  NextPhase.pc # "wait" /\ DOMAIN NextPhase = DOMAIN host
  BY DEF NextPhase, Idle, ContextType

LEMMA DriverStep == ASSUME SyncInv, Driver PROVE SyncInv'
<1>1. CASE CreateContext
  BY <1>1 DEF CreateContext, NewContext, NullContext, SyncInv, ContextType, Quiet
<1>2. CASE ContextReady
  BY <1>2, HostStep DEF ContextReady, SyncInv, ContextType, Idle
<1>3. CASE BeginPhase
  <2>1. host'.pc # "wait" /\ DOMAIN host' = DOMAIN host /\ DOMAIN packet' = DOMAIN packet
    BY <1>3, NextPhaseIsNoWait DEF BeginPhase, SyncInv, ContextType, Idle
  <2> QED
    BY <1>3, <2>1, HostStep DEF BeginPhase
<1>4. CASE IssueCommand
  <2> DEFINE id == context.issued + 1
             cmd == [id |-> id, kind |-> Phase.kind, job |-> host.job]
  <2>1. /\ packet' = [[packet EXCEPT !.state = "NEW"] EXCEPT !.id = id]
        /\ context' = [context EXCEPT !.issued = id, !.queue = Append(@, cmd)]
        /\ host' = [host EXCEPT !.pc = "wait", !.reps = @ - 1] /\ host.pc = "issue"
    BY <1>4 DEF IssueCommand, ResetState, CmdId
  <2>2. ContextType /\ context.queue = <<>> /\ context.running = NoCommand
    BY <2>1 DEF SyncInv, Quiet
  <2>3. packet'.state = "NEW" /\ packet'.id = id /\ DOMAIN packet' = {"state", "id"}
    BY <2>1, <2>2 DEF ContextType
  <2>4. /\ context'.issued = id /\ context'.queue = <<cmd>> /\ context'.running = NoCommand
        /\ context'.done = context.done /\ DOMAIN context' = DOMAIN NullContext
    <3> HIDE DEF cmd, id
    <3> QED
      BY <2>1, <2>2 DEF ContextType, NullContext
  <2>5. host'.pc = "wait" /\ DOMAIN host' = DOMAIN Idle
    BY <2>1, <2>2 DEF ContextType, Idle
  <2>6. id \in Nat /\ id > 0 /\ context.done < id /\ context.done \in 0 .. id
    BY <2>2 DEF ContextType
  <2>7. context'.queue[1] = cmd /\ cmd.id = id
    BY <2>4
  <2>8. Queued'
    <3> HIDE DEF cmd, id
    <3> QED
      BY <2>3, <2>4, <2>6, <2>7 DEF Queued, Outstanding
  <2> HIDE DEF cmd, id
  <2> QED
    BY <2>3, <2>4, <2>5, <2>6, <2>8 DEF SyncInv, ContextType
<1>5. CASE WaitCommand
  <2>1. Quiet
    BY <1>5 DEF WaitCommand, PollCommand, SyncInv, ContextType, Queued, Running, Outstanding
  <2>2. host'.pc # "wait" /\ DOMAIN host' = DOMAIN host
    BY <1>5, NextPhaseIsNoWait DEF WaitCommand, SyncInv, ContextType, Idle
  <2> QED
    BY <1>5, <2>1, <2>2 DEF WaitCommand, SyncInv, ContextType, Quiet
<1>6. CASE SyncBindings
  BY <1>6, NextPhaseIsNoWait, HostStep DEF SyncBindings, SyncInv
<1> QED
  BY <1>1, <1>2, <1>3, <1>4, <1>5, <1>6 DEF Driver

LEMMA ArrayStep == ASSUME SyncInv, Array PROVE SyncInv'
<1>1. CASE StartCommand
  <2>1. host.pc = "wait" /\ Queued /\ ContextType /\ packet.id = context.issued /\ packet.id > 0
    BY <1>1 DEF StartCommand, SyncInv, Quiet, Running, Outstanding, NoCommand
  <2>2. PICK cmd : context.queue = <<cmd>> /\ Outstanding(cmd)
    BY <2>1 DEF Queued
  <2>3. /\ context'.queue = <<>> /\ context'.running = cmd
        /\ context'.done = context.done /\ context'.issued = context.issued
        /\ DOMAIN context' = DOMAIN context
    BY <1>1, <2>1, <2>2 DEF StartCommand, ContextType, NullContext
  <2>4. Running'
    BY <1>1, <2>2, <2>3 DEF StartCommand, Running, Outstanding
  <2> QED
    BY <1>1, <2>1, <2>3, <2>4 DEF StartCommand, SyncInv, ContextType
<1>2. CASE FinishCommand
  <2>1. host.pc = "wait" /\ Running /\ ContextType /\ packet.id = context.issued /\ packet.id > 0
    BY <1>2 DEF FinishCommand, SyncInv, Quiet, Queued
  <2>2. /\ context'.queue = <<>> /\ context'.running = NoCommand
        /\ context'.done = packet.id /\ context'.issued = context.issued
        /\ DOMAIN context' = DOMAIN context
    BY <1>2, <2>1 DEF FinishCommand, ContextType, NullContext, Running, Outstanding
  <2>3. packet'.id = packet.id /\ DOMAIN packet' = DOMAIN packet /\ host' = host
    BY <1>2, <2>1 DEF FinishCommand, ContextType
  <2> QED
    BY <2>1, <2>2, <2>3 DEF SyncInv, ContextType, Quiet
<1> QED
  BY <1>1, <1>2 DEF Array

LEMMA ProgramStep == ASSUME SyncInv, Program PROVE SyncInv'
<1>1. host.pc = "idle" /\ UNCHANGED <<context, packet>>
  BY DEF Program, AllocateBuffer, FreeBuffer, MapWrite, MapRead, UpdateBuffer, CopyBuffer,
         Dispatch, Operation, UnchangedDevice
<1>2. host'.pc # "wait" /\ DOMAIN host' = DOMAIN host
  BY DEF Program, AllocateBuffer, FreeBuffer, MapWrite, MapRead, UpdateBuffer, CopyBuffer,
         Dispatch, Operation, SyncInv, ContextType, Idle
<1> QED
  BY <1>1, <1>2, HostStep

(* What the thread waits for is the one command on the device.             *)
THEOREM OneCommandAtATime == Spec => []SyncInv
<1>1. SyncInv /\ [Next]_vars => SyncInv'
  <2> SUFFICES ASSUME SyncInv, [Next]_vars PROVE SyncInv'
    OBVIOUS
  <2>1. CASE Caches
    BY <2>1, NothingHappens DEF Caches, Prefetch, Evict
  <2>2. CASE UNCHANGED vars
    BY <2>2, NothingHappens DEF vars
  <2> QED
    BY <2>1, <2>2, DriverStep, ArrayStep, ProgramStep DEF Next
<1> QED
  BY <1>1, StartsQuiet, PTL DEF Spec

(* Contexts are destroyed and buffers freed on a quiet device: a wait never *)
(* returns early, not even when the packet's last run had completed.        *)
THEOREM DeviceQuietOutsideWait == Spec => []QuietOutsideWait
<1>1. SyncInv => QuietOutsideWait
  BY DEF SyncInv, Quiet, QuietOutsideWait
<1> QED
  BY <1>1, OneCommandAtATime, PTL

-----------------------------------------------------------------------------
(* Caches and memory.  A line that is not dirty holds what memory holds,   *)
(* but for the output of a command, and only what update and copy wrote is *)
(* dirty.                                                                  *)
Coherent(m, dirtyBos, staleBos) ==
  /\ DOMAIN m.cache = Bo /\ DOMAIN m.mem = Bo
  /\ \A b \in Bo : /\ m.cache[b].dirty => m.cache[b].held /\ b \in dirtyBos
                   /\ m.cache[b].held /\ ~m.cache[b].dirty =>
                        m.cache[b].val = m.mem[b] \/ b \in staleBos
Content(m, b) == IF m.cache[b].dirty THEN m.cache[b].val ELSE m.mem[b]

LEMMA UpdateCache ==
    ASSUME NEW C, NEW M, NEW b, NEW v
    PROVE  [[cache |-> C, mem |-> M] EXCEPT !.cache[b] = v]
             = [cache |-> [C EXCEPT ![b] = v], mem |-> M]
  OBVIOUS

LEMMA UpdateMem ==
    ASSUME NEW C, NEW M, NEW b, NEW v
    PROVE  [[cache |-> C, mem |-> M] EXCEPT !.mem[b] = v]
             = [cache |-> C, mem |-> [M EXCEPT ![b] = v]]
  OBVIOUS

LEMMA FlushKeeps ==
    ASSUME NEW m, NEW d, NEW s, m = [cache |-> m.cache, mem |-> m.mem],
           Coherent(m, d, s), NEW b \in Bo
    PROVE  LET n == Flush(m, b)
           IN  /\ n = [cache |-> n.cache, mem |-> n.mem]
               /\ Coherent(n, d \ {b}, s \ {b})
               /\ \A c \in Bo : Content(n, c) = Content(m, c)
               /\ n.cache[b] = NoLine /\ n.mem[b] = Content(m, b)
               /\ \A c \in Bo \ {b} : n.cache[c] = m.cache[c] /\ n.mem[c] = m.mem[c]
<1> DEFINE n == Flush(m, b)
<1>1. n = [cache |-> [m.cache EXCEPT ![b] = NoLine], mem |-> [m.mem EXCEPT ![b] = Content(m, b)]]
  <2> DEFINE none == NoLine
             v == Content(m, b)
             C == m.cache
             M == m.mem
  <2>1. n = [[m EXCEPT !.mem[b] = v] EXCEPT !.cache[b] = none]
    BY DEF Flush, Content
  <2>2. m = [cache |-> C, mem |-> M]
    OBVIOUS
  <2> HIDE DEF n, none, v, C, M
  <2>3. n = [cache |-> [C EXCEPT ![b] = none], mem |-> [M EXCEPT ![b] = v]]
    BY <2>1, <2>2, UpdateMem, UpdateCache
  <2> QED
    BY <2>3 DEF none, v, C, M
<1>2. NoLine.held = FALSE /\ NoLine.dirty = FALSE
  BY DEF NoLine
<1>3. /\ n.cache = [m.cache EXCEPT ![b] = NoLine] /\ n.mem = [m.mem EXCEPT ![b] = Content(m, b)]
      /\ n = [cache |-> n.cache, mem |-> n.mem]
  BY <1>1
<1> HIDE DEF n
<1>4. /\ n.cache[b] = NoLine /\ n.mem[b] = Content(m, b)
      /\ \A c \in Bo \ {b} : n.cache[c] = m.cache[c] /\ n.mem[c] = m.mem[c]
      /\ DOMAIN n.cache = Bo /\ DOMAIN n.mem = Bo
  BY <1>3 DEF Coherent
<1>5. Coherent(n, d \ {b}, s \ {b})
  BY <1>2, <1>4 DEF Coherent
<1>6. \A c \in Bo : Content(n, c) = Content(m, c)
  BY <1>2, <1>4 DEF Content
<1> QED
  BY <1>3, <1>4, <1>5, <1>6 DEF n

LEMMA StoreWrites ==
    ASSUME NEW m, NEW d, NEW s, m = [cache |-> m.cache, mem |-> m.mem],
           Coherent(m, d, s), NEW b \in Bo, NEW v
    PROVE  LET n == Store(m, b, v)
           IN  /\ n = [cache |-> n.cache, mem |-> n.mem]
               /\ Coherent(n, d \cup {b}, s)
               /\ \A c \in Bo : Content(n, c) = IF c = b THEN v ELSE Content(m, c)
               /\ \A c \in Bo \ {b} : n.cache[c] = m.cache[c] /\ n.mem[c] = m.mem[c]
<1> DEFINE n == Store(m, b, v)
           line == Line(v, TRUE)
<1>1. n = [cache |-> [m.cache EXCEPT ![b] = line], mem |-> m.mem]
  <2> DEFINE C == m.cache
             M == m.mem
  <2>1. n = [m EXCEPT !.cache[b] = line]
    BY DEF Store
  <2>2. m = [cache |-> C, mem |-> M]
    OBVIOUS
  <2> HIDE DEF n, line, C, M
  <2>3. n = [cache |-> [C EXCEPT ![b] = line], mem |-> M]
    BY <2>1, <2>2, UpdateMem, UpdateCache
  <2> QED
    BY <2>3 DEF C, M
<1>2. line.held = TRUE /\ line.dirty = TRUE /\ line.val = v
  BY DEF Line
<1>3. /\ n.cache = [m.cache EXCEPT ![b] = line] /\ n.mem = m.mem
      /\ n = [cache |-> n.cache, mem |-> n.mem]
  BY <1>1
<1> HIDE DEF n, line
<1>4. /\ n.cache[b] = line
      /\ \A c \in Bo \ {b} : n.cache[c] = m.cache[c] /\ n.mem[c] = m.mem[c]
      /\ DOMAIN n.cache = Bo /\ DOMAIN n.mem = Bo
  BY <1>3 DEF Coherent
<1>5. Coherent(n, d \cup {b}, s)
  BY <1>2, <1>4 DEF Coherent
<1>6. \A c \in Bo : Content(n, c) = IF c = b THEN v ELSE Content(m, c)
  BY <1>2, <1>4 DEF Content
<1> QED
  BY <1>3, <1>4, <1>5, <1>6 DEF n

LEMMA FreshIsGarbage ==
    ASSUME NEW m, NEW d, NEW s, m = [cache |-> m.cache, mem |-> m.mem],
           Coherent(m, d, s), NEW b \in Bo
    PROVE  LET n == FreshPages(m, b)
           IN  /\ n = [cache |-> n.cache, mem |-> n.mem]
               /\ Coherent(n, d \cup {b}, s)
               /\ \A c \in Bo : Content(n, c) = IF c = b THEN Garbage ELSE Content(m, c)
               /\ \A c \in Bo \ {b} : n.cache[c] = m.cache[c] /\ n.mem[c] = m.mem[c]
<1> DEFINE n == FreshPages(m, b)
           line == Line(Garbage, TRUE)
<1>1. n = [cache |-> [m.cache EXCEPT ![b] = line], mem |-> [m.mem EXCEPT ![b] = Garbage]]
  <2> DEFINE C == m.cache
             M == m.mem
  <2>1. n = [[m EXCEPT !.mem[b] = Garbage] EXCEPT !.cache[b] = line]
    BY DEF FreshPages
  <2>2. m = [cache |-> C, mem |-> M]
    OBVIOUS
  <2> HIDE DEF n, line, C, M
  <2>3. n = [cache |-> [C EXCEPT ![b] = line], mem |-> [M EXCEPT ![b] = Garbage]]
    BY <2>1, <2>2, UpdateMem, UpdateCache
  <2> QED
    BY <2>3 DEF C, M
<1>2. line.held = TRUE /\ line.dirty = TRUE /\ line.val = Garbage
  BY DEF Line
<1>3. /\ n.cache = [m.cache EXCEPT ![b] = line] /\ n.mem = [m.mem EXCEPT ![b] = Garbage]
      /\ n = [cache |-> n.cache, mem |-> n.mem]
  BY <1>1
<1> HIDE DEF n, line
<1>4. /\ n.cache[b] = line
      /\ \A c \in Bo \ {b} : n.cache[c] = m.cache[c] /\ n.mem[c] = m.mem[c]
      /\ DOMAIN n.cache = Bo /\ DOMAIN n.mem = Bo
  BY <1>3 DEF Coherent
<1>5. Coherent(n, d \cup {b}, s)
  BY <1>2, <1>4 DEF Coherent
<1>6. \A c \in Bo : Content(n, c) = IF c = b THEN Garbage ELSE Content(m, c)
  BY <1>2, <1>4 DEF Content
<1> QED
  BY <1>3, <1>4, <1>5, <1>6 DEF n

LEMMA LoadsContent ==
    ASSUME NEW m, NEW d, NEW s, Coherent(m, d, s), NEW b \in Bo, b \notin s
    PROVE  LoadFrom(m, b) = Content(m, b)
  BY DEF LoadFrom, Coherent, Content

-----------------------------------------------------------------------------
(* The queue, as the program sees it.                                      *)
Contents == [b \in Buffer |-> Content(Ram, b)]

In == host.job.ins[1]
Out == host.job.out
Target == host.job.entry
RunPhase(e) == [kind |-> "run", asm |-> <<"npu", e>>, seq |-> <<>>]
ReconfPhase(e) == [kind |-> "reconfigure", asm |-> <<"ctrlpkt", e>>, seq |-> <<"seq", e>>]

ExeInv == /\ exe.ctrlPkt \in BOOLEAN /\ exe.first \in Entry
          /\ exe.kernelRuns \in Nat /\ exe.reconfRuns \in Nat \ {0} /\ exe.pdiLoads \in Nat \ {0}

\* Only the output of commands may differ from what the cache has fetched.
Stale == IF host.pc \in {"issue", "wait", "sync"} /\ Phase.kind = "run" THEN {Out} ELSE {}
MemoryInv == unflushed \subseteq Buffer /\ Coherent(Ram, unflushed, Stale)

\* A dispatch and the phases it has still to go through.
JobIsWell == /\ Target \in Entry /\ In # Out
             /\ In \in Buffer \ unflushed /\ Out \in Buffer \ unflushed
             /\ host.job = [entry |-> Target, ins |-> <<In>>, out |-> Out]
LastPhase == host.todo = <<RunPhase(Target)>>
FirstOfTwo == exe.ctrlPkt /\ host.todo = <<ReconfPhase(Target), RunPhase(Target)>>
JobInv ==
  /\ host.pc = "idle" => host = Idle
  /\ host.pc # "idle" => /\ JobIsWell
                         /\ LastPhase \/ FirstOfTwo
                         /\ host.pc = "context" /\ exe.ctrlPkt => FirstOfTwo

\* The last phase starts in the configuration of the entry point; an array
\* that control packets are to configure has been configured before.
ContextInv ==
  /\ exe.ctrlPkt /\ context.pdi # "null" => context.config \in Entry
  /\ host.pc = "context" =>
       /\ host.loads \in Nat
       /\ exe.ctrlPkt /\ host.loads > 0 => Target = exe.first
       /\ host.loads = 0 => context.pdi # "null" /\ (exe.ctrlPkt \/ context.config = Target)
  /\ host.pc \notin {"idle", "context"} =>
       context.pdi # "null" /\ (LastPhase => context.config = Target)

\* The command on the device is the phase's, and what it was given is in
\* memory; when it is done, so is the phase.
Filled == /\ mem["instr"].op = Phase.asm
          /\ Phase.kind = "reconfigure" => mem["seq"].op = Phase.seq
Ours(cmd) == cmd.kind = Phase.kind /\ cmd.job = host.job
Given == IF Phase.kind = "run" THEN <<mem["instr"].op, mem[In]>>
         ELSE <<mem["instr"].op, mem["seq"]>>
RunDone == mem[Out] = Abs!Made(Target, Target, <<mem[In]>>)
CommandInv ==
  /\ host.pc \in {"issue", "wait"} => Filled
  /\ host.pc = "wait" =>
       /\ context.queue # <<>> => Ours(context.queue[1])
       /\ context.running # NoCommand => Ours(context.running) /\ context.args = Given
       /\ Quiet => IF Phase.kind = "run" THEN RunDone ELSE context.config = Target
  /\ host.pc = "sync" => RunDone /\ LastPhase

QueueInv == SyncInv /\ ExeInv /\ MemoryInv /\ JobInv /\ ContextInv /\ CommandInv

-----------------------------------------------------------------------------
(* Steps of the queue.                                                     *)
LEMMA QueueStutters ==
    ASSUME Contents' = Contents, UNCHANGED <<host.job, read, exe>>
    PROVE  UNCHANGED Abs!vars
  BY DEF Abs!vars, Contents, Content, Ram

LEMMA QueueSets ==
    ASSUME NEW b \in Buffer, NEW v, host.job = NoJob, UNCHANGED <<host, read, exe>>,
           Contents' = [Contents EXCEPT ![b] = v],
           \/ v = Garbage
           \/ \E w \in HostValue : v = Abs!HostMade(w)
           \/ \E c \in Buffer : v = Contents[c]
    PROVE  Abs!Next
<1>1. Abs!Set(b, v)
  BY DEF Abs!Set, Contents, Content, Ram, NoJob
<1>2. ASSUME NEW c \in Buffer, v = Contents[c]
      PROVE  Abs!Next
  <2>1. Abs!Copy(b, c)
    BY <1>2 DEF Abs!Copy, Abs!Set, Contents, Content, Ram, NoJob
  <2> QED
    BY <2>1 DEF Abs!Next
<1>3. CASE v = Garbage
  BY <1>1, <1>3 DEF Abs!Next, Garbage
<1>4. ASSUME NEW w \in HostValue, v = Abs!HostMade(w)
      PROVE  Abs!Next
  BY <1>1, <1>4 DEF Abs!Next
<1> QED
  BY <1>2, <1>3, <1>4

LEMMA QueueReads ==
    ASSUME NEW b \in Buffer, host.job = NoJob, UNCHANGED <<host, exe>>,
           Contents' = Contents, read' = Contents[b]
    PROVE  Abs!Next
<1>1. Abs!Read(b)
  BY DEF Abs!Read, Contents, Content, Ram, NoJob
<1> QED
  BY <1>1 DEF Abs!Next

LEMMA QueueSubmits ==
    ASSUME NEW e \in Entry, NEW i \in Buffer, NEW o \in Buffer, host.job = NoJob,
           host'.job = [entry |-> e, ins |-> <<i>>, out |-> o],
           Contents' = Contents, UNCHANGED <<read, exe>>
    PROVE  Abs!Next
<1> DEFINE j == [entry |-> e, ins |-> <<i>>, out |-> o]
<1>1. Abs!Submit(j)
  BY DEF Abs!Submit, Contents, Content, Ram, NoJob
<1>2. j \in Abs!Job
  BY DEF Abs!Job
<1> QED
  BY <1>1, <1>2 DEF Abs!Next

LEMMA ResultIs ==
    ASSUME JobIsWell
    PROVE  Abs!Result(host.job) = Abs!Made(Target, Target, <<Contents[In]>>)
<1>1. DOMAIN host.job.ins = {1} /\ host.job.ins[1] = In
  BY DEF JobIsWell
<1>2. [i \in {1} |-> Contents[In]] = <<Contents[In]>>
  OBVIOUS
<1>3. Contents[In] = IF cache[In].dirty THEN cache[In].val ELSE mem[In]
  BY DEF JobIsWell, Contents, Content, Ram
<1> QED
  BY <1>1, <1>2, <1>3 DEF Abs!Result, JobIsWell, Target

LEMMA QueueRuns ==
    ASSUME JobIsWell, UNCHANGED <<host, read, exe>>,
           Contents' = [Contents EXCEPT ![Out] = Abs!Made(Target, Target, <<Contents[In]>>)]
    PROVE  Abs!Next
<1>1. host.job # NoJob
  BY NamesAssumption DEF JobIsWell, NoJob, Abs!NoJob
<1>2. Abs!Run
  BY <1>1, ResultIs DEF Abs!Run, Contents, Content, Ram, NoJob, Out
<1> QED
  BY <1>2 DEF Abs!Next

LEMMA QueueReturns ==
    ASSUME JobIsWell, host'.job = NoJob, UNCHANGED <<read, exe>>, Contents' = Contents,
           \/ exe.kernelRuns = 0
           \/ Contents[Out] = Abs!Made(Target, Target, <<Contents[In]>>)
    PROVE  Abs!Next
<1>1. host.job # NoJob
  BY NamesAssumption DEF JobIsWell, NoJob, Abs!NoJob
<1>2. Contents[Out] = IF cache[Out].dirty THEN cache[Out].val ELSE mem[Out]
  BY DEF JobIsWell, Contents, Content, Ram
<1>3. Abs!Return
  BY <1>1, <1>2, ResultIs DEF Abs!Return, Contents, Content, Ram, NoJob, Out, JobIsWell
<1> QED
  BY <1>3 DEF Abs!Next

-----------------------------------------------------------------------------
(* What the program does between dispatches.                               *)
LEMMA RamIs ==
    /\ Ram = [cache |-> Ram.cache, mem |-> Ram.mem]
    /\ Ram.cache = cache /\ Ram.mem = mem
  BY DEF Ram

LEMMA RamBecomes ==
    ASSUME NEW m, m = [cache |-> m.cache, mem |-> m.mem], SetRam(m)
    PROVE  Ram' = m
  BY DEF SetRam, Ram

LEMMA OwnBuffers == "instr" \in Bo \ Buffer /\ "seq" \in Bo \ Buffer /\ Buffer \subseteq Bo
  BY NamesAssumption DEF Bo

LEMMA CoherentGrows ==
    ASSUME NEW m, NEW d, NEW s, NEW e, NEW t, Coherent(m, d, s), d \subseteq e, s \subseteq t
    PROVE  Coherent(m, e, t)
  BY DEF Coherent

LEMMA MemoryKept ==
    ASSUME MemoryInv, UNCHANGED <<memory, unflushed>>, Stale \subseteq Stale'
    PROVE  MemoryInv' /\ Contents' = Contents
<1>1. Ram' = Ram
  BY DEF Ram, memory
<1>2. Coherent(Ram', unflushed', Stale')
  BY <1>1, CoherentGrows DEF MemoryInv
<1>3. MemoryInv'
  BY <1>2 DEF MemoryInv, Coherent
<1>4. Contents' = [b \in Buffer |-> Content(Ram', b)]
  BY DEF Contents, Content
<1> QED
  BY <1>1, <1>3, <1>4 DEF Contents

LEMMA BetweenDispatches ==
    ASSUME JobInv, ContextInv, host.pc = "idle", UNCHANGED <<host, context, exe>>, ExeInv
    PROVE  JobInv' /\ ContextInv' /\ CommandInv' /\ ExeInv' /\ host.job = NoJob
  BY DEF JobInv, ContextInv, CommandInv, ExeInv, Idle

LEMMA IdleMemory ==
    ASSUME host'.pc \in {"idle", "context"}, unflushed' \subseteq Buffer,
           NEW m, m = [cache |-> m.cache, mem |-> m.mem], SetRam(m), Coherent(m, unflushed', {})
    PROVE  MemoryInv' /\ Ram' = m /\ Contents' = [b \in Buffer |-> Content(m, b)]
<1>1. Ram' = m
  BY RamBecomes
<1>2. Contents' = [b \in Buffer |-> Content(Ram', b)]
  BY DEF Contents, Content
<1>3. Coherent(Ram', unflushed', Stale')
  BY <1>1 DEF Stale
<1>4. MemoryInv'
  BY <1>3 DEF MemoryInv, Coherent
<1> QED
  BY <1>1, <1>2, <1>4

(* The two things a program has to leave alone, see XrtLiteDriver.        *)
CarefulProgram == ~UnflushedUse /\ ~AnyEntryFirst

LEMMA PhasesAre ==
    ASSUME ExeInv, NEW e
    PROVE  Phases(exe, e) = IF exe.ctrlPkt THEN <<ReconfPhase(e), RunPhase(e)>> ELSE <<RunPhase(e)>>
<1>1. CASE ~exe.ctrlPkt
  <2>1. ReconfRunlist(exe, e) = <<>> /\ AsmRunlist(exe, e)[1] = <<"npu", e>>
    BY <1>1 DEF ReconfRunlist, AsmRunlist
  <2> QED
    BY <1>1, <2>1 DEF Phases, RunPhase
<1>2. CASE exe.ctrlPkt
  <2> DEFINE seqs == ReconfRunlist(exe, e)
             asm == AsmRunlist(exe, e)
             Run(i) == [kind |-> "run", asm |-> asm[i], seq |-> <<>>]
             Reconf(i) == [kind |-> "reconfigure", asm |-> asm[i], seq |-> seqs[(i + 1) \div 2]]
  <2>1. /\ seqs = <<<<"seq", e>>>> /\ seqs # <<>> /\ Len(seqs) = 1 /\ seqs[1] = <<"seq", e>>
        /\ asm[1] = <<"ctrlpkt", e>> /\ asm[2] = <<"npu", e>>
    BY <1>2 DEF ReconfRunlist, AsmRunlist
  <2>2. Reconf(1) = ReconfPhase(e) /\ Run(2) = RunPhase(e)
    BY <2>1 DEF ReconfPhase, RunPhase
  <2>3. Phases(exe, e) = [i \in 1 .. 2 |-> IF i % 2 = 1 THEN Reconf(i) ELSE Run(i)]
    BY <2>1 DEF Phases
  <2> HIDE DEF Reconf, Run, seqs, asm
  <2>4. [i \in 1 .. 2 |-> IF i % 2 = 1 THEN Reconf(i) ELSE Run(i)] = <<Reconf(1), Run(2)>>
    OBVIOUS
  <2> QED
    BY <1>2, <2>2, <2>3, <2>4
<1> QED
  BY <1>1, <1>2

LEMMA DispatchQueue ==
    ASSUME QueueInv, CarefulProgram,
           NEW e \in Entry, NEW i \in Buffer, NEW o \in Buffer, Dispatch(e, i, o)
    PROVE  MemoryInv' /\ JobInv' /\ ContextInv' /\ CommandInv' /\ ExeInv' /\ Abs!Next
<1>1. /\ host.pc = "idle" /\ host.job = NoJob /\ UNCHANGED <<exe, context, memory, unflushed, read>>
      /\ i # o /\ i \notin unflushed /\ o \notin unflushed
      /\ ~exe.ctrlPkt \/ context.pdi # "null" \/ e = exe.first
  BY DEF Dispatch, Operation, UnchangedDevice, CarefulProgram, QueueInv, JobInv, Idle
<1>2. /\ host'.pc = "context" /\ host'.job = [entry |-> e, ins |-> <<i>>, out |-> o]
      /\ host'.todo = Phases(exe, e)
      /\ host'.loads = IF CreatesContext(exe, e, context) THEN exe.pdiLoads ELSE 0
  BY DEF Dispatch
<1>3. Target' = e /\ In' = i /\ Out' = o
  BY <1>2 DEF Target, In, Out
<1>4. MemoryInv' /\ Contents' = Contents
  BY <1>1, <1>2 DEF QueueInv, MemoryInv, Stale, memory, Ram, Coherent, Contents, Content
<1>5. JobInv'
  BY <1>1, <1>2, <1>3, PhasesAre DEF QueueInv, JobInv, JobIsWell, LastPhase, FirstOfTwo, ExeInv
<1>6. ContextInv'
  <2>1. CreatesContext(exe, e, context) <=> context.pdi = "null" \/ ~exe.ctrlPkt
    BY DEF CreatesContext, ReconfRunlist, QueueInv, ExeInv
  <2> QED
    BY <1>1, <1>2, <1>3, <2>1 DEF QueueInv, ContextInv, ExeInv
<1>7. CommandInv' /\ ExeInv'
  BY <1>1, <1>2 DEF CommandInv, ExeInv, QueueInv
<1> QED
  BY <1>1, <1>2, <1>4, <1>5, <1>6, <1>7, QueueSubmits

LEMMA ProgramQueue ==
    ASSUME QueueInv, CarefulProgram, Program
    PROVE  QueueInv' /\ (Abs!Next \/ UNCHANGED Abs!vars)
<1> DEFINE Goal == MemoryInv' /\ (Abs!Next \/ UNCHANGED Abs!vars)
<1>1. /\ unflushed \subseteq Buffer /\ Coherent(Ram, unflushed, {}) /\ host.job = NoJob
      /\ Ram = [cache |-> Ram.cache, mem |-> Ram.mem] /\ host.pc = "idle" /\ SyncInv'
  <2>1. host.pc = "idle"
    BY DEF Program, AllocateBuffer, FreeBuffer, MapWrite, MapRead, UpdateBuffer, CopyBuffer,
           Dispatch, Operation
  <2> QED
    BY <2>1, ProgramStep, RamIs DEF QueueInv, MemoryInv, Stale, JobInv, Idle
<1>2. ASSUME NEW b \in Buffer, AllocateBuffer(b)
      PROVE  Goal
  <2> DEFINE m == FreshPages(Ram, b)
             n == Flush(m, b)
  <2>1. /\ m = [cache |-> m.cache, mem |-> m.mem] /\ Coherent(m, unflushed \cup {b}, {})
        /\ \A c \in Bo : Content(m, c) = IF c = b THEN Garbage ELSE Content(Ram, c)
    BY <1>1, FreshIsGarbage, OwnBuffers
  <2> HIDE DEF m
  <2>2. /\ n = [cache |-> n.cache, mem |-> n.mem]
        /\ Coherent(n, (unflushed \cup {b}) \ {b}, {} \ {b})
        /\ \A c \in Bo : Content(n, c) = Content(m, c)
    BY <2>1, FlushKeeps, OwnBuffers
  <2> HIDE DEF n
  <2>3. Coherent(n, unflushed \ {b}, {})
    BY <2>2, CoherentGrows
  <2>4. SetRam(n) /\ unflushed' = unflushed \ {b} /\ UNCHANGED <<host, read, exe>>
    BY <1>2 DEF AllocateBuffer, AllocShmem, UnchangedDevice, m, n
  <2>5. MemoryInv' /\ Contents' = [c \in Buffer |-> Content(n, c)]
    BY <1>1, <2>2, <2>3, <2>4, IdleMemory
  <2>6. Contents' = [Contents EXCEPT ![b] = Garbage]
    BY <2>1, <2>2, <2>5, OwnBuffers DEF Contents
  <2> QED
    BY <1>1, <2>4, <2>5, <2>6, QueueSets
<1>3. ASSUME NEW b \in Buffer, FreeBuffer(b)
      PROVE  Goal
  <2>1. UNCHANGED <<host, read, exe, memory, unflushed>>
    BY <1>3 DEF FreeBuffer, UnchangedDevice
  <2>2. Contents' = Contents /\ MemoryInv'
    BY <1>1, <2>1, MemoryKept DEF QueueInv, Stale
  <2> QED
    BY <2>1, <2>2, QueueStutters
<1>4. ASSUME NEW b \in Buffer, NEW v \in HostValue, MapWrite(b, v)
      PROVE  Goal
  <2> PICK val : val = Abs!HostMade(v)
    OBVIOUS
  <2> PICK m : m = Flush(Ram, b)
    OBVIOUS
  <2> DEFINE n == Store(m, b, val)
             o == Flush(n, b)
  <2>1. /\ m = [cache |-> m.cache, mem |-> m.mem] /\ Coherent(m, unflushed \ {b}, {} \ {b})
        /\ \A c \in Bo : Content(m, c) = Content(Ram, c)
    <3>1. b \in Bo
      BY OwnBuffers
    <3>2. LET k == Flush(Ram, b)
          IN  /\ k = [cache |-> k.cache, mem |-> k.mem]
              /\ Coherent(k, unflushed \ {b}, {} \ {b})
              /\ \A c \in Bo : Content(k, c) = Content(Ram, c)
      BY <1>1, <3>1, FlushKeeps
    <3> QED
      BY <3>2
  <2>1a. Coherent(m, unflushed, {})
    BY <2>1, CoherentGrows
  <2>2. /\ n = [cache |-> n.cache, mem |-> n.mem]
        /\ Coherent(n, unflushed \cup {b}, {})
        /\ \A c \in Bo : Content(n, c) = IF c = b THEN val ELSE Content(m, c)
    <3>0. m = [cache |-> m.cache, mem |-> m.mem]
      BY <2>1
    <3>1. b \in Bo
      BY OwnBuffers
    <3>2. LET k == Store(m, b, val)
          IN  /\ k = [cache |-> k.cache, mem |-> k.mem]
              /\ Coherent(k, unflushed \cup {b}, {})
              /\ \A c \in Bo : Content(k, c) = IF c = b THEN val ELSE Content(m, c)
      BY <3>0, <2>1a, <3>1, StoreWrites
    <3> QED
      BY <2>1, <3>2
  <2> HIDE DEF n
  <2>3. /\ o = [cache |-> o.cache, mem |-> o.mem]
        /\ Coherent(o, (unflushed \cup {b}) \ {b}, {} \ {b})
        /\ \A c \in Bo : Content(o, c) = Content(n, c)
    BY <2>2, FlushKeeps, OwnBuffers
  <2> HIDE DEF o
  <2>4. Coherent(o, unflushed \ {b}, {})
    BY <2>3, CoherentGrows
  <2>5. SetRam(o) /\ unflushed' = unflushed \ {b} /\ UNCHANGED <<host, read, exe>>
    BY <1>4 DEF MapWrite, UnchangedDevice, n, o
  <2>6. MemoryInv' /\ Contents' = [c \in Buffer |-> Content(o, c)]
    BY <1>1, <2>3, <2>4, <2>5, IdleMemory
  <2>7. Contents' = [Contents EXCEPT ![b] = val]
    BY <2>1, <2>2, <2>3, <2>6, OwnBuffers DEF Contents
  <2>8. \E w \in HostValue : val = Abs!HostMade(w)
    OBVIOUS
  <2> QED
    BY <1>1, <2>5, <2>6, <2>7, <2>8, QueueSets
<1>5. ASSUME NEW b \in Buffer, MapRead(b)
      PROVE  Goal
  <2> DEFINE m == Flush(Ram, b)
             n == Flush(m, b)
  <2>1. /\ m = [cache |-> m.cache, mem |-> m.mem] /\ Coherent(m, unflushed \ {b}, {} \ {b})
        /\ \A c \in Bo : Content(m, c) = Content(Ram, c)
    BY <1>1, FlushKeeps, OwnBuffers
  <2> HIDE DEF m
  <2>2. /\ n = [cache |-> n.cache, mem |-> n.mem]
        /\ Coherent(n, (unflushed \ {b}) \ {b}, ({} \ {b}) \ {b})
        /\ \A c \in Bo : Content(n, c) = Content(m, c)
    BY <2>1, FlushKeeps, OwnBuffers
  <2> HIDE DEF n
  <2>3. Coherent(n, unflushed \ {b}, {})
    BY <2>2, CoherentGrows
  <2>4. /\ SetRam(n) /\ unflushed' = unflushed \ {b} /\ UNCHANGED <<host, exe>>
        /\ read' = LoadFrom(m, b)
    BY <1>5 DEF MapRead, UnchangedDevice, m, n
  <2>5. MemoryInv' /\ Contents' = [c \in Buffer |-> Content(n, c)]
    BY <1>1, <2>2, <2>3, <2>4, IdleMemory
  <2>6. Contents' = Contents
    BY <2>1, <2>2, <2>5, OwnBuffers DEF Contents
  <2>7. read' = Contents[b]
    BY <2>1, <2>4, LoadsContent, OwnBuffers DEF Contents
  <2> QED
    BY <1>1, <2>4, <2>5, <2>6, <2>7, QueueReads
<1>6. ASSUME NEW b \in Buffer, NEW v \in HostValue, UpdateBuffer(b, v)
      PROVE  Goal
  <2> PICK val : val = Abs!HostMade(v)
    OBVIOUS
  <2> DEFINE n == Store(Ram, b, val)
  <2>0. \E w \in HostValue : val = Abs!HostMade(w)
    OBVIOUS
  <2>1. SetRam(n) /\ unflushed' = unflushed \cup {b} /\ UNCHANGED <<host, read, exe>>
    BY <1>6 DEF UpdateBuffer, UnchangedDevice
  <2>2. /\ n = [cache |-> n.cache, mem |-> n.mem] /\ Coherent(n, unflushed \cup {b}, {})
        /\ \A c \in Bo : Content(n, c) = IF c = b THEN val ELSE Content(Ram, c)
    BY <1>1, StoreWrites, OwnBuffers
  <2> HIDE DEF n
  <2>3. MemoryInv' /\ Contents' = [c \in Buffer |-> Content(n, c)]
    BY <1>1, <2>1, <2>2, IdleMemory
  <2>4. Contents' = [Contents EXCEPT ![b] = val]
    BY <2>2, <2>3, OwnBuffers DEF Contents
  <2> QED
    BY <1>1, <2>0, <2>1, <2>3, <2>4, QueueSets
<1>7. ASSUME NEW b \in Buffer, NEW t \in Buffer, CopyBuffer(b, t)
      PROVE  Goal
  <2> DEFINE val == LoadFrom(Ram, b)
             n == Store(Ram, t, val)
  <2>0. val = Contents[b]
    BY <1>1, LoadsContent, OwnBuffers DEF Contents
  <2>1. SetRam(n) /\ unflushed' = unflushed \cup {t} /\ UNCHANGED <<host, read, exe>>
    BY <1>7 DEF CopyBuffer, UnchangedDevice
  <2> HIDE DEF val
  <2>2. /\ n = [cache |-> n.cache, mem |-> n.mem] /\ Coherent(n, unflushed \cup {t}, {})
        /\ \A c \in Bo : Content(n, c) = IF c = t THEN val ELSE Content(Ram, c)
    BY <1>1, StoreWrites, OwnBuffers
  <2> HIDE DEF n
  <2>3. MemoryInv' /\ Contents' = [c \in Buffer |-> Content(n, c)]
    BY <1>1, <2>1, <2>2, IdleMemory
  <2>4. Contents' = [Contents EXCEPT ![t] = val]
    BY <2>2, <2>3, OwnBuffers DEF Contents
  <2> QED
    BY <1>1, <2>0, <2>1, <2>3, <2>4, QueueSets
<1>8. ASSUME NEW e \in Entry, NEW i \in Buffer, NEW o \in Buffer, Dispatch(e, i, o)
      PROVE  QueueInv' /\ Abs!Next
  BY <1>1, <1>8, DispatchQueue DEF QueueInv
<1>9. ASSUME Goal, UNCHANGED <<host, context, exe>>
      PROVE  QueueInv' /\ (Abs!Next \/ UNCHANGED Abs!vars)
  BY <1>1, <1>9, BetweenDispatches DEF QueueInv
<1>10. ASSUME ~(\E e \in Entry, i, o \in Buffer : Dispatch(e, i, o))
       PROVE  UNCHANGED <<host, context, exe>>
  BY <1>10 DEF Program, AllocateBuffer, FreeBuffer, MapWrite, MapRead, UpdateBuffer, CopyBuffer,
            UnchangedDevice
<1> HIDE DEF Goal
<1> QED
  BY <1>2, <1>3, <1>4, <1>5, <1>6, <1>7, <1>8, <1>9, <1>10 DEF Program

-----------------------------------------------------------------------------
(* The steps of a dispatch.                                                *)
LEMMA PhaseIs ==
    ASSUME JobInv, SyncInv, host.pc # "idle"
    PROVE  \/ /\ LastPhase /\ Phase = RunPhase(Target) /\ Phase.kind = "run"
              /\ NextPhase = Idle
           \/ /\ FirstOfTwo /\ ~LastPhase /\ Phase = ReconfPhase(Target)
              /\ Phase.kind = "reconfigure"
              /\ NextPhase.pc = "phase" /\ NextPhase.job = host.job
              /\ NextPhase.todo = <<RunPhase(Target)>>
<1>1. CASE LastPhase
  <2>1. Len(host.todo) = 1 /\ Head(host.todo) = RunPhase(Target)
    BY <1>1 DEF LastPhase
  <2> QED
    BY <1>1, <2>1 DEF Phase, NextPhase, RunPhase
<1>2. CASE FirstOfTwo
  <2>1. /\ Len(host.todo) = 2 /\ Head(host.todo) = ReconfPhase(Target)
        /\ Tail(host.todo) = <<RunPhase(Target)>>
    BY <1>2 DEF FirstOfTwo
  <2>2. host.todo # <<RunPhase(Target)>>
    BY <2>1
  <2>3. /\ NextPhase.pc = "phase" /\ NextPhase.job = host.job
        /\ NextPhase.todo = <<RunPhase(Target)>>
    BY <2>1 DEF NextPhase, SyncInv, ContextType, Idle
  <2>4. Phase = ReconfPhase(Target) /\ Phase.kind = "reconfigure" /\ ~LastPhase
    BY <2>1, <2>2 DEF Phase, ReconfPhase, LastPhase
  <2> QED
    BY <1>2, <2>3, <2>4
<1> QED
  BY <1>1, <1>2 DEF JobInv

LEMMA JobKept ==
    ASSUME JobInv, host.pc # "idle", host'.pc # "idle",
           host'.pc = "context" => host.pc = "context",
           host'.job = host.job, host'.todo = host.todo, UNCHANGED <<unflushed, exe>>
    PROVE  /\ JobInv' /\ Target' = Target /\ In' = In /\ Out' = Out /\ Phase' = Phase
           /\ LastPhase' = LastPhase
  BY DEF JobInv, JobIsWell, LastPhase, FirstOfTwo, Target, In, Out, Phase

LEMMA ContextQueue ==
    ASSUME QueueInv, CreateContext \/ ContextReady
    PROVE  MemoryInv' /\ JobInv' /\ ContextInv' /\ CommandInv' /\ UNCHANGED Abs!vars
<1>1. DOMAIN host = DOMAIN Idle /\ host.pc = "context" /\ JobInv /\ ContextInv /\ MemoryInv
      /\ ExeInv /\ JobIsWell
  BY DEF QueueInv, SyncInv, ContextType, CreateContext, ContextReady, JobInv
<1>2. CASE CreateContext
  <2>1. /\ host'.pc = "context" /\ host'.job = host.job /\ host'.todo = host.todo
        /\ host'.loads = host.loads - 1 /\ host.loads > 0
        /\ UNCHANGED <<memory, unflushed, exe, read>>
        /\ context' = NewContext(Artifact(exe, Target))
    BY <1>1, <1>2 DEF CreateContext, Idle, Target
  <2>2. JobInv' /\ Target' = Target /\ LastPhase' = LastPhase
    BY <1>1, <2>1, JobKept
  <2>3. MemoryInv' /\ Contents' = Contents
    BY <1>1, <2>1, MemoryKept DEF Stale
  <2>4. Artifact(exe, Target) = Target /\ Target \in Entry /\ Target # "null"
    BY <1>1, <2>1, NamesAssumption DEF Artifact, ContextInv, ExeInv, JobIsWell
  <2>5. context'.pdi = Target /\ context'.config = Target
    BY <2>1, <2>4 DEF NewContext, NullContext
  <2>6. ContextInv'
    BY <1>1, <2>1, <2>2, <2>4, <2>5 DEF ContextInv
  <2>7. CommandInv'
    BY <2>1 DEF CommandInv
  <2> QED
    BY <2>1, <2>2, <2>3, <2>6, <2>7, QueueStutters
<1>3. CASE ContextReady
  <2>1. /\ host'.pc = "phase" /\ host'.job = host.job /\ host'.todo = host.todo
        /\ host.loads = 0 /\ UNCHANGED <<memory, unflushed, exe, read, context>>
    BY <1>1, <1>3 DEF ContextReady, Idle
  <2>2. JobInv' /\ Target' = Target /\ LastPhase' = LastPhase
    BY <1>1, <2>1, JobKept
  <2>3. MemoryInv' /\ Contents' = Contents
    BY <1>1, <2>1, MemoryKept DEF Stale
  <2>4. LastPhase => ~exe.ctrlPkt
    <3>1. CASE exe.ctrlPkt
      <4>1. FirstOfTwo
        BY <1>1, <3>1 DEF JobInv
      <4>2. Len(host.todo) = 2
        BY <4>1 DEF FirstOfTwo
      <4> QED
        BY <4>2 DEF LastPhase
    <3> QED
      BY <3>1
  <2>5. ContextInv'
    BY <1>1, <2>1, <2>2, <2>4 DEF ContextInv
  <2>6. CommandInv'
    BY <2>1 DEF CommandInv
  <2> QED
    BY <2>1, <2>2, <2>3, <2>5, <2>6, QueueStutters
<1> QED
  BY <1>2, <1>3

LEMMA FillKeeps ==
    ASSUME NEW m, NEW d, NEW s, m = [cache |-> m.cache, mem |-> m.mem],
           Coherent(m, d, s), NEW b \in Bo, NEW what
    PROVE  LET n == FillBo(m, b, what)
           IN  /\ n = [cache |-> n.cache, mem |-> n.mem]
               /\ Coherent(n, d \ {b}, s)
               /\ \A c \in Bo \ {b} : Content(n, c) = Content(m, c) /\ n.mem[c] = m.mem[c]
               /\ n.mem[b].op = what
<1>a. PICK v : v = [op |-> what, args |-> <<>>]
  OBVIOUS
<1>b. PICK k : k = Store(m, b, v)
  OBVIOUS
<1>c. PICK n : n = Flush(k, b)
  OBVIOUS
<1>1. /\ k = [cache |-> k.cache, mem |-> k.mem] /\ Coherent(k, d \cup {b}, s)
      /\ \A c \in Bo : Content(k, c) = IF c = b THEN v ELSE Content(m, c)
      /\ \A c \in Bo \ {b} : k.mem[c] = m.mem[c]
  BY <1>b, StoreWrites, Z3
<1>2. /\ n = [cache |-> n.cache, mem |-> n.mem] /\ Coherent(n, (d \cup {b}) \ {b}, s \ {b})
      /\ \A c \in Bo : Content(n, c) = Content(k, c)
      /\ n.mem[b] = Content(k, b)
      /\ \A c \in Bo \ {b} : n.mem[c] = k.mem[c]
  BY <1>1, <1>c, FlushKeeps
<1>3. Coherent(n, d \ {b}, s)
  BY <1>2, CoherentGrows
<1>4. n = FillBo(m, b, what)
  BY <1>a, <1>b, <1>c DEF FillBo
<1>5. n.mem[b].op = what
  BY <1>a, <1>1, <1>2
<1> QED
  BY <1>1, <1>2, <1>3, <1>4, <1>5

(* The buffers of instructions and control packets are filled, no other    *)
(* one changes.                                                            *)
LEMMA PhaseFills ==
    ASSUME MemoryInv, Stale = {}, NEW what, NEW seq,
           NEW m, m = FillBo(AllocDev(Ram, "instr"), "instr", what),
           NEW n, n = FillBo(AllocShmem(m, "seq"), "seq", seq),
           NEW r \in {m, n}
    PROVE  /\ r = [cache |-> r.cache, mem |-> r.mem] /\ Coherent(r, unflushed, {})
           /\ \A c \in Buffer : Content(r, c) = Content(Ram, c)
           /\ r.mem["instr"].op = what
           /\ r = n => r.mem["seq"].op = seq
<1> PICK f : f = FreshPages(Ram, "instr")
  OBVIOUS
<1>1. /\ f = [cache |-> f.cache, mem |-> f.mem] /\ Coherent(f, unflushed \cup {"instr"}, {})
      /\ \A c \in Bo : Content(f, c) = IF c = "instr" THEN Garbage ELSE Content(Ram, c)
  BY RamIs, FreshIsGarbage, OwnBuffers DEF MemoryInv
<1>2. /\ m = [cache |-> m.cache, mem |-> m.mem]
      /\ Coherent(m, (unflushed \cup {"instr"}) \ {"instr"}, {})
      /\ \A c \in Bo \ {"instr"} : Content(m, c) = Content(f, c)
      /\ m.mem["instr"].op = what
  BY <1>1, FillKeeps, OwnBuffers DEF AllocDev
<1>3. Coherent(m, unflushed, {}) /\ \A c \in Buffer : Content(m, c) = Content(Ram, c)
  BY <1>1, <1>2, CoherentGrows, OwnBuffers
<1> PICK g : g = FreshPages(m, "seq")
  OBVIOUS
<1> PICK h : h = Flush(g, "seq")
  OBVIOUS
<1>4. /\ g = [cache |-> g.cache, mem |-> g.mem] /\ Coherent(g, unflushed \cup {"seq"}, {})
      /\ \A c \in Bo \ {"seq"} : Content(g, c) = Content(m, c) /\ g.mem[c] = m.mem[c]
  BY <1>2, <1>3, FreshIsGarbage, OwnBuffers
<1>5. /\ h = [cache |-> h.cache, mem |-> h.mem]
      /\ Coherent(h, (unflushed \cup {"seq"}) \ {"seq"}, {} \ {"seq"})
      /\ \A c \in Bo \ {"seq"} : Content(h, c) = Content(g, c) /\ h.mem[c] = g.mem[c]
  BY <1>4, FlushKeeps, OwnBuffers
<1>6. Coherent(h, unflushed, {})
  BY <1>5, CoherentGrows
<1>7. /\ n = [cache |-> n.cache, mem |-> n.mem] /\ Coherent(n, unflushed \ {"seq"}, {})
      /\ \A c \in Bo \ {"seq"} : Content(n, c) = Content(h, c) /\ n.mem[c] = h.mem[c]
      /\ n.mem["seq"].op = seq
  BY <1>5, <1>6, FillKeeps, OwnBuffers DEF AllocShmem
<1>8. Coherent(n, unflushed, {})
  BY <1>7, CoherentGrows
<1>9. n.mem["instr"].op = what /\ \A c \in Buffer : Content(n, c) = Content(Ram, c)
  BY <1>2, <1>3, <1>4, <1>5, <1>7, OwnBuffers
<1> QED
  BY <1>2, <1>3, <1>7, <1>8, <1>9

LEMMA BackToIdle ==
    ASSUME ExeInv, ContextInv, host' = Idle, UNCHANGED <<exe, context>>
    PROVE  ExeInv' /\ JobInv' /\ ContextInv' /\ CommandInv' /\ host'.job = NoJob
  BY DEF ExeInv, ContextInv, JobInv, CommandInv, Idle

LEMMA BeginQueue ==
    ASSUME QueueInv, BeginPhase
    PROVE  MemoryInv' /\ JobInv' /\ ContextInv' /\ CommandInv' /\ (Abs!Next \/ UNCHANGED Abs!vars)
<1>1. /\ DOMAIN host = DOMAIN Idle /\ host.pc = "phase" /\ JobInv /\ ContextInv /\ MemoryInv
      /\ ExeInv /\ JobIsWell /\ Stale = {} /\ SyncInv
      /\ UNCHANGED <<exe, held, unflushed, context, read>>
  BY DEF QueueInv, SyncInv, ContextType, BeginPhase, JobInv, Stale
<1>2. CASE Phase.kind = "run" /\ exe.kernelRuns = 0
  <2>1. host' = Idle /\ UNCHANGED memory
    BY <1>1, <1>2, PhaseIs DEF BeginPhase
  <2>2. MemoryInv' /\ Contents' = Contents
    BY <1>1, <2>1, MemoryKept
  <2> QED
    BY <1>1, <1>2, <2>1, <2>2, BackToIdle, QueueReturns
<1>3. CASE ~(Phase.kind = "run" /\ exe.kernelRuns = 0)
  <2> PICK m : m = FillBo(AllocDev(Ram, "instr"), "instr", Phase.asm)
    OBVIOUS
  <2> PICK n : n = FillBo(AllocShmem(m, "seq"), "seq", Phase.seq)
    OBVIOUS
  <2> PICK r : r = IF Phase.kind = "run" THEN m ELSE n
    OBVIOUS
  <2>1. SetRam(r) /\ host'.pc = "issue" /\ host'.job = host.job /\ host'.todo = host.todo
    BY <1>1, <1>3 DEF BeginPhase, Idle
  <2>2. r \in {m, n}
    OBVIOUS
  <2>3. /\ r = [cache |-> r.cache, mem |-> r.mem] /\ Coherent(r, unflushed, {})
        /\ \A c \in Buffer : Content(r, c) = Content(Ram, c)
        /\ r.mem["instr"].op = Phase.asm
        /\ r = n => r.mem["seq"].op = Phase.seq
    BY <1>1, <2>2, PhaseFills
  <2>4. Ram' = r /\ mem' = r.mem
    BY <2>1, <2>3, RamBecomes DEF SetRam
  <2>5. /\ JobInv' /\ Target' = Target /\ LastPhase' = LastPhase /\ Phase' = Phase
    BY <1>1, <2>1, JobKept
  <2>6. MemoryInv'
    <3>1. Coherent(Ram', unflushed', Stale')
      BY <1>1, <2>3, <2>4, CoherentGrows
    <3> QED
      BY <1>1, <3>1 DEF MemoryInv, Coherent
  <2>7. Contents' = Contents
    <3>1. Contents' = [c \in Buffer |-> Content(Ram', c)]
      BY DEF Contents, Content
    <3> QED
      BY <2>3, <2>4, <3>1 DEF Contents
  <2>8. ContextInv'
    BY <1>1, <2>1, <2>5 DEF ContextInv
  <2>9. CommandInv'
    <3>1. Filled'
      BY <1>1, <2>3, <2>4, <2>5, PhaseIs DEF Filled
    <3> QED
      BY <2>1, <3>1 DEF CommandInv
  <2> QED
    BY <1>1, <2>1, <2>5, <2>6, <2>7, <2>8, <2>9, QueueStutters
<1> QED
  BY <1>2, <1>3

LEMMA IssueQueue ==
    ASSUME QueueInv, IssueCommand
    PROVE  MemoryInv' /\ JobInv' /\ ContextInv' /\ CommandInv' /\ UNCHANGED Abs!vars
<1>1. /\ DOMAIN host = DOMAIN Idle /\ DOMAIN context = DOMAIN NullContext
      /\ host.pc = "issue" /\ JobInv /\ ContextInv /\ MemoryInv
      /\ Filled /\ Quiet /\ UNCHANGED <<exe, memory, held, unflushed, read>>
  BY DEF QueueInv, SyncInv, ContextType, IssueCommand, CommandInv
<1> PICK cmd : cmd = [id |-> context.issued + 1, kind |-> Phase.kind, job |-> host.job]
  OBVIOUS
<1>2. /\ host'.pc = "wait" /\ host'.job = host.job /\ host'.todo = host.todo
      /\ context'.queue = <<cmd>> /\ context'.running = NoCommand
      /\ context'.pdi = context.pdi /\ context'.config = context.config
  BY <1>1 DEF IssueCommand, Idle, NullContext, Quiet
<1>3. /\ JobInv' /\ Target' = Target /\ In' = In /\ Out' = Out /\ Phase' = Phase
      /\ LastPhase' = LastPhase
  BY <1>1, <1>2, JobKept
<1>4. MemoryInv' /\ Contents' = Contents
  BY <1>1, <1>2, <1>3, MemoryKept DEF Stale
<1>5. ContextInv'
  BY <1>1, <1>2, <1>3 DEF ContextInv
<1>6. CommandInv'
  <2>1. context'.queue[1] = cmd /\ context'.queue # <<>>
    BY <1>2
  <2>2. Ours(cmd)' /\ ~Quiet' /\ Filled'
    BY <1>1, <1>2, <1>3, <2>1 DEF Ours, Quiet, Filled, memory
  <2> QED
    BY <1>2, <2>1, <2>2 DEF CommandInv, Ours
<1> QED
  BY <1>1, <1>2, <1>3, <1>4, <1>5, <1>6, QueueStutters

LEMMA WaitQueue ==
    ASSUME QueueInv, WaitCommand
    PROVE  MemoryInv' /\ JobInv' /\ ContextInv' /\ CommandInv' /\ UNCHANGED Abs!vars
<1>1. /\ DOMAIN host = DOMAIN Idle /\ host.pc = "wait" /\ SyncInv /\ ExeInv
      /\ JobInv /\ ContextInv /\ MemoryInv /\ Filled
      /\ UNCHANGED <<exe, memory, held, unflushed, context, read>>
  BY DEF QueueInv, SyncInv, ContextType, WaitCommand, CommandInv
<1>2. Quiet
  BY DEF WaitCommand, PollCommand, QueueInv, SyncInv, ContextType, Queued, Running, Outstanding
<1>3. IF Phase.kind = "run" THEN RunDone ELSE context.config = Target
  BY <1>1, <1>2 DEF QueueInv, CommandInv
<1>4. CASE host' = [host EXCEPT !.pc = "issue"]
  <2>1. host'.pc = "issue" /\ host'.job = host.job /\ host'.todo = host.todo
    BY <1>1, <1>4 DEF Idle
  <2>2. /\ JobInv' /\ Target' = Target /\ Out' = Out /\ Phase' = Phase /\ LastPhase' = LastPhase
    BY <1>1, <2>1, JobKept
  <2>3. MemoryInv' /\ Contents' = Contents
    BY <1>1, <2>1, <2>2, MemoryKept DEF Stale
  <2>4. ContextInv' /\ CommandInv'
    BY <1>1, <2>1, <2>2 DEF ContextInv, CommandInv, Filled, memory
  <2> QED
    BY <1>1, <2>1, <2>2, <2>3, <2>4, QueueStutters
<1>5. CASE Phase.kind = "run" /\ host' = [host EXCEPT !.pc = "sync"]
  <2>1. host'.pc = "sync" /\ host'.job = host.job /\ host'.todo = host.todo
    BY <1>1, <1>5 DEF Idle
  <2>2. /\ JobInv' /\ Target' = Target /\ In' = In /\ Out' = Out /\ Phase' = Phase
        /\ LastPhase' = LastPhase
    BY <1>1, <2>1, JobKept
  <2>3. MemoryInv' /\ Contents' = Contents
    BY <1>1, <2>1, <2>2, MemoryKept DEF Stale
  <2>4. ContextInv'
    BY <1>1, <2>1, <2>2 DEF ContextInv
  <2>5. LastPhase
    BY <1>1, <1>5, PhaseIs
  <2>6. CommandInv'
    BY <1>1, <1>3, <1>5, <2>1, <2>2, <2>5 DEF CommandInv, RunDone, memory
  <2> QED
    BY <1>1, <2>1, <2>2, <2>3, <2>4, <2>6, QueueStutters
<1>6. CASE Phase.kind # "run" /\ host' = NextPhase
  <2>1. /\ FirstOfTwo /\ host'.pc = "phase" /\ host'.job = host.job
        /\ host'.todo = <<RunPhase(Target)>>
    BY <1>1, <1>6, PhaseIs
  <2>2. Target' = Target /\ In' = In /\ Out' = Out
    BY <2>1 DEF Target, In, Out
  <2>3. JobInv'
    BY <1>1, <2>1, <2>2 DEF JobInv, JobIsWell, LastPhase
  <2>4. MemoryInv' /\ Contents' = Contents
    BY <1>1, <1>6, MemoryKept DEF Stale
  <2>5. ContextInv' /\ CommandInv'
    BY <1>1, <1>3, <1>6, <2>1, <2>2 DEF ContextInv, CommandInv
  <2> QED
    BY <1>1, <2>1, <2>3, <2>4, <2>5, QueueStutters
<1> QED
  BY <1>1, <1>4, <1>5, <1>6 DEF WaitCommand

LEMMA SyncQueue ==
    ASSUME QueueInv, SyncBindings
    PROVE  MemoryInv' /\ JobInv' /\ ContextInv' /\ CommandInv' /\ Abs!Next
<1>1. /\ host.pc = "sync" /\ SyncInv /\ ExeInv /\ JobInv /\ JobIsWell /\ ContextInv /\ MemoryInv
      /\ RunDone /\ LastPhase /\ UNCHANGED <<exe, held, unflushed, context, packet, read>>
  BY DEF QueueInv, SyncBindings, CommandInv, JobInv
<1>2. Phase.kind = "run"
  BY <1>1, PhaseIs
<1>3. host' = Idle
  BY <1>1, <1>2, PhaseIs DEF SyncBindings
<1>4. Bindings(host.job) = {In, Out}
  <2>1. DOMAIN host.job.ins = {1} /\ host.job.ins[1] = In /\ host.job.out = Out
    BY <1>1 DEF JobIsWell
  <2> QED
    BY <2>1 DEF Bindings
<1>5. Stale = {Out} /\ Coherent(Ram, unflushed, {Out}) /\ {In, Out} \subseteq Buffer \ unflushed
  BY <1>1, <1>2 DEF Stale, MemoryInv, JobIsWell
<1>6. ~cache[In].dirty /\ ~cache[Out].dirty
  BY <1>5, OwnBuffers, RamIs DEF Coherent
<1>7. /\ cache' = [b \in Bo |-> IF b \in {In, Out} THEN NoLine ELSE cache[b]]
      /\ mem' = [b \in Bo |-> mem[b]]
  <2>1. /\ cache' = [b \in Bo |-> IF b \in {In, Out} THEN NoLine ELSE cache[b]]
        /\ mem' = [b \in Bo |-> IF b \in {In, Out} /\ cache[b].dirty THEN cache[b].val ELSE mem[b]]
    BY <1>4, RamIs DEF SyncBindings, SetRam, FlushAll
  <2> QED
    BY <1>6, <2>1
<1>8. Coherent(Ram', unflushed', {})
  BY <1>1, <1>5, <1>7 DEF Coherent, Ram, NoLine
<1>9. MemoryInv'
  BY <1>1, <1>3, <1>8 DEF MemoryInv, Stale, Idle
<1>10. \A b \in Buffer : Content(Ram, b)' = Content(Ram, b)
  BY <1>5, <1>6, <1>7, OwnBuffers DEF Content, Ram, NoLine
<1>11. Contents' = Contents
  BY <1>10 DEF Contents
<1>12. Contents[Out] = Abs!Made(Target, Target, <<Contents[In]>>)
  BY <1>1, <1>5, <1>6 DEF Contents, Content, Ram, RunDone
<1> QED
  BY <1>1, <1>3, <1>9, <1>11, <1>12, BackToIdle, QueueReturns

-----------------------------------------------------------------------------
(* The array and the caches.                                               *)
LEMMA SameHost ==
    ASSUME JobInv, UNCHANGED <<host, unflushed, exe>>
    PROVE  /\ JobInv' /\ Target' = Target /\ In' = In /\ Out' = Out /\ Phase' = Phase
           /\ LastPhase' = LastPhase /\ Stale' = Stale
  BY DEF JobInv, JobIsWell, LastPhase, FirstOfTwo, Target, In, Out, Phase, Stale

LEMMA OneThenOther ==
    ASSUME NEW x, NEW y
    PROVE  <<x>> \o <<y>> = <<x, y>>
<1>1. <<x>> \in Seq({x, y}) /\ <<y>> \in Seq({x, y}) /\ <<x, y>> \in Seq({x, y})
  OBVIOUS
<1> PICK s : s = <<x>> \o <<y>>
  OBVIOUS
<1>2. s \in Seq({x, y}) /\ Len(s) = 2 /\ s[1] = x /\ s[2] = y
  BY <1>1
<1> PICK t : t = <<x, y>>
  OBVIOUS
<1>3. t \in Seq({x, y}) /\ Len(t) = 2 /\ t[1] = x /\ t[2] = y
  BY <1>1
<1>4. Len(s) = Len(t) /\ \A i \in 1 .. Len(s) : s[i] = t[i]
  <2>1. \A i \in 1 .. 2 : i = 1 \/ i = 2
    OBVIOUS
  <2> QED
    BY <1>2, <1>3, <2>1
<1>5. s = t
  BY <1>2, <1>3, <1>4, SeqEqual
<1> QED
  BY <1>5

LEMMA StartQueue ==
    ASSUME QueueInv, StartCommand
    PROVE  MemoryInv' /\ JobInv' /\ ContextInv' /\ CommandInv' /\ UNCHANGED Abs!vars
<1>1. /\ host.pc = "wait" /\ Queued /\ ContextType /\ packet.id > 0
      /\ JobInv /\ JobIsWell /\ ContextInv /\ MemoryInv /\ Filled
      /\ UNCHANGED <<exe, memory, held, unflushed, host, read>>
  BY DEF QueueInv, StartCommand, SyncInv, Quiet, Running, Outstanding, NoCommand, CommandInv, JobInv
<1>2. PICK cmd : context.queue = <<cmd>> /\ Outstanding(cmd)
  BY <1>1 DEF Queued
<1>3. Ours(cmd)
  BY <1>1, <1>2 DEF QueueInv, CommandInv
<1>4. cmd.job.ins = <<In>>
  BY <1>1, <1>3 DEF Ours, JobIsWell
<1> PICK input : input = IF cmd.kind = "run" THEN [i \in DOMAIN cmd.job.ins |-> mem[cmd.job.ins[i]]]
                         ELSE <<mem["seq"]>>
  OBVIOUS
<1>5. /\ context'.queue = <<>> /\ context'.running = cmd
      /\ context'.pdi = context.pdi /\ context'.config = context.config
      /\ context'.args = <<mem["instr"].op>> \o input
  BY <1>1, <1>2 DEF StartCommand, ContextType, NullContext
<1>6. context'.args = Given
  <2>2. input = IF cmd.kind = "run" THEN <<mem[In]>> ELSE <<mem["seq"]>>
    BY <1>4
  <2>3. CASE cmd.kind = "run"
    BY <1>3, <1>5, <2>2, <2>3, OneThenOther DEF Ours, Given
  <2>4. CASE cmd.kind # "run"
    BY <1>3, <1>5, <2>2, <2>4, OneThenOther DEF Ours, Given
  <2> QED
    BY <2>3, <2>4
<1>7. cmd # NoCommand
  BY <1>1, <1>2 DEF Outstanding, NoCommand
<1>8. /\ JobInv' /\ Target' = Target /\ In' = In /\ Out' = Out /\ Phase' = Phase
      /\ LastPhase' = LastPhase /\ Stale' = Stale
  BY <1>1, SameHost
<1>9. MemoryInv' /\ Contents' = Contents
  BY <1>1, <1>8, MemoryKept
<1>10. ContextInv'
  BY <1>1, <1>5, <1>8 DEF ContextInv
<1>11. CommandInv'
  BY <1>1, <1>3, <1>5, <1>6, <1>7, <1>8 DEF CommandInv, Ours, Given, Filled, Quiet, memory
<1> QED
  BY <1>1, <1>8, <1>9, <1>10, <1>11, QueueStutters

LEMMA FinishQueue ==
    ASSUME QueueInv, FinishCommand
    PROVE  MemoryInv' /\ JobInv' /\ ContextInv' /\ CommandInv' /\ (Abs!Next \/ UNCHANGED Abs!vars)
<1>1. /\ host.pc = "wait" /\ ContextType /\ context.running # NoCommand /\ SyncInv
      /\ JobInv /\ JobIsWell /\ ContextInv /\ MemoryInv /\ Filled
      /\ Ours(context.running) /\ context.args = Given /\ context.queue = <<>>
      /\ UNCHANGED <<exe, cache, held, unflushed, host, read>>
  BY DEF QueueInv, FinishCommand, SyncInv, Quiet, Queued, Running, CommandInv, JobInv
<1>2. /\ JobInv' /\ Target' = Target /\ In' = In /\ Out' = Out /\ Phase' = Phase
      /\ LastPhase' = LastPhase /\ Stale' = Stale
  BY <1>1, SameHost
<1>3. /\ context'.queue = <<>> /\ context'.running = NoCommand /\ context'.pdi = context.pdi
  BY <1>1 DEF FinishCommand, ContextType, NullContext
<1>4. Head(context.args) = Phase.asm
  BY <1>1 DEF Given, Filled
<1>5. CASE Phase.kind = "run"
  <2> PICK result : result = Abs!Made(Target, Target, <<mem[In]>>)
    OBVIOUS
  <2>1. LastPhase /\ Phase = RunPhase(Target) /\ context.config = Target
    BY <1>1, <1>5, PhaseIs DEF ContextInv
  <2>2. Tail(context.args) = <<mem[In]>> /\ Phase.asm[2] = Target
    BY <1>1, <1>5, <2>1 DEF Given, RunPhase
  <2>3. mem' = [mem EXCEPT ![Out] = result] /\ context'.config = context.config
    BY <1>1, <1>4, <1>5, <2>1, <2>2
    DEF FinishCommand, Ours, Out, ContextType, NullContext
  <2>4. Stale = {Out} /\ {In, Out} \subseteq Buffer \ unflushed /\ In # Out
    BY <1>1, <1>5 DEF Stale, JobIsWell
  <2>5. Coherent(Ram, unflushed, {Out}) /\ DOMAIN mem = Bo
    BY <1>1, <2>4, RamIs DEF MemoryInv, Coherent
  <2>6. mem'[Out] = result /\ \A c \in Bo \ {Out} : mem'[c] = mem[c]
    BY <2>3, <2>4, <2>5, OwnBuffers
  <2>7. Coherent(Ram', unflushed', {Out})
    BY <1>1, <2>3, <2>4, <2>5, <2>6, OwnBuffers DEF Coherent, Ram
  <2>8. MemoryInv'
    BY <1>1, <1>2, <2>4, <2>7 DEF MemoryInv
  <2>9. ~cache[In].dirty /\ ~cache[Out].dirty
    BY <2>4, <2>5, RamIs, OwnBuffers DEF Coherent
  <2>10. \A c \in Buffer : Content(Ram, c)' = IF c = Out THEN result ELSE Content(Ram, c)
    BY <1>1, <2>6, <2>9, OwnBuffers DEF Content, Ram
  <2>11. Contents' = [Contents EXCEPT ![Out] = result]
    BY <2>10 DEF Contents
  <2>12. Contents[In] = mem[In]
    BY <2>4, <2>9 DEF Contents, Content, Ram
  <2>13. Abs!Next
    BY <1>1, <2>11, <2>12, QueueRuns
  <2>14. ContextInv'
    BY <1>1, <1>2, <1>3, <2>3 DEF ContextInv
  <2>15. Filled' /\ RunDone'
    BY <1>1, <1>2, <1>5, <2>4, <2>6, OwnBuffers DEF Filled, RunDone
  <2>16. CommandInv'
    BY <1>1, <1>2, <1>3, <1>5, <2>15 DEF CommandInv, Quiet
  <2> QED
    BY <1>2, <2>8, <2>13, <2>14, <2>16
<1>6. CASE Phase.kind # "run"
  <2>1. FirstOfTwo /\ ~LastPhase /\ Phase = ReconfPhase(Target) /\ Phase.kind = "reconfigure"
    BY <1>1, <1>6, PhaseIs
  <2>2. /\ Phase.asm[1] = "ctrlpkt" /\ context.config # "none"
        /\ context.args[2].op[2] = Target
    BY <1>1, <2>1, NamesAssumption DEF FirstOfTwo, ReconfPhase, Given, Filled, ContextInv
  <2>3. mem' = mem /\ context'.config = Target
    BY <1>1, <1>4, <1>6, <2>2 DEF FinishCommand, Ours, ContextType, NullContext
  <2>4. MemoryInv' /\ Contents' = Contents
    BY <1>1, <1>2, <2>3, MemoryKept DEF memory
  <2>5. ContextInv'
    BY <1>1, <1>2, <1>3, <2>1, <2>3 DEF ContextInv, JobIsWell
  <2>6. CommandInv'
    BY <1>1, <1>2, <1>3, <1>6, <2>3 DEF CommandInv, Quiet, Filled
  <2> QED
    BY <1>1, <1>2, <2>4, <2>5, <2>6, QueueStutters
<1> QED
  BY <1>5, <1>6


LEMMA CachesQueue ==
    ASSUME QueueInv, Caches
    PROVE  QueueInv' /\ UNCHANGED Abs!vars
<1>1. /\ JobInv /\ ContextInv /\ MemoryInv /\ ExeInv /\ CommandInv
      /\ UNCHANGED <<exe, held, unflushed, context, host, packet, read>> /\ SyncInv'
  BY NothingHappens DEF QueueInv, Caches, Prefetch, Evict
<1>2. /\ JobInv' /\ Target' = Target /\ In' = In /\ Out' = Out /\ Phase' = Phase
      /\ LastPhase' = LastPhase /\ Stale' = Stale
  BY <1>1, SameHost
<1> DEFINE Same == /\ Coherent(Ram', unflushed, Stale)
                   /\ \A c \in Bo : Content(Ram', c) = Content(Ram, c)
<1>3. Coherent(Ram, unflushed, Stale) /\ Ram = [cache |-> Ram.cache, mem |-> Ram.mem]
  BY <1>1, RamIs DEF MemoryInv
<1>4. ASSUME NEW b \in Bo, Prefetch(b)
      PROVE  Same
  <2> PICK line : line = Line(mem[b], FALSE)
    OBVIOUS
  <2>1. ~cache[b].held /\ cache' = [cache EXCEPT ![b] = line] /\ mem' = mem
    BY <1>4 DEF Prefetch
  <2>2. line.held = TRUE /\ line.dirty = FALSE /\ line.val = mem[b]
    BY DEF Line
  <2>3. DOMAIN cache = Bo /\ DOMAIN mem = Bo /\ ~cache[b].dirty
    BY <1>3, <2>1, RamIs DEF Coherent
  <2>4. cache'[b] = line /\ \A c \in Bo \ {b} : cache'[c] = cache[c]
    BY <2>1, <2>3
  <2>5. Ram'.cache = cache' /\ Ram'.mem = mem /\ DOMAIN cache' = Bo
    BY <2>1, <2>3 DEF Ram
  <2>6. \A c \in Bo : Content(Ram', c) = Content(Ram, c)
    BY <2>2, <2>3, <2>4, <2>5, RamIs DEF Content
  <2>7. Coherent(Ram', unflushed, Stale)
    BY <1>3, <2>2, <2>3, <2>4, <2>5, RamIs DEF Coherent
  <2> QED
    BY <2>6, <2>7
<1>5. ASSUME NEW b \in Bo, Evict(b)
      PROVE  Same
  <2> PICK m : m = Flush(Ram, b)
    OBVIOUS
  <2>1. /\ m = [cache |-> m.cache, mem |-> m.mem]
        /\ Coherent(m, unflushed \ {b}, Stale \ {b})
        /\ \A c \in Bo : Content(m, c) = Content(Ram, c)
    BY <1>3, FlushKeeps
  <2>2. Ram' = m
    BY <1>5, <2>1, RamBecomes DEF Evict
  <2> QED
    BY <2>1, <2>2, CoherentGrows
<1>6. Same
  BY <1>4, <1>5 DEF Caches
<1>7. MemoryInv' /\ Contents' = Contents
  <2>1. MemoryInv'
    BY <1>1, <1>2, <1>6 DEF MemoryInv, Coherent
  <2>2. Contents' = [c \in Buffer |-> Content(Ram', c)]
    BY DEF Contents, Content
  <2> QED
    BY <1>6, <2>1, <2>2, OwnBuffers DEF Contents
<1>8. \A c \in Bo \ unflushed : mem'[c] = mem[c]
  <2>1. Ram'.cache = cache' /\ Ram'.mem = mem'
    BY DEF Ram
  <2> QED
    BY <1>3, <1>6, <2>1, RamIs DEF Coherent, Content
<1>9. ContextInv' /\ ExeInv'
  BY <1>1, <1>2 DEF ContextInv, ExeInv
<1>10. CommandInv'
  <2>1. mem'["instr"] = mem["instr"] /\ mem'["seq"] = mem["seq"]
    BY <1>1, <1>8, OwnBuffers DEF MemoryInv
  <2>2. host.pc # "idle" => mem'[In] = mem[In] /\ mem'[Out] = mem[Out]
    BY <1>1, <1>8, OwnBuffers DEF JobInv, JobIsWell
  <2>3. (Filled' = Filled /\ Given' = Given) \/ host.pc = "idle"
    BY <1>2, <2>1, <2>2 DEF Filled, Given
  <2>4. host.pc # "idle" => RunDone' = RunDone
    BY <1>2, <2>2 DEF RunDone
  <2>5. \A cmd : Ours(cmd)' = Ours(cmd)
    BY <1>1, <1>2 DEF Ours
  <2> QED
    BY <1>1, <1>2, <2>3, <2>4, <2>5 DEF CommandInv, Quiet, Ours
<1> QED
  BY <1>1, <1>2, <1>7, <1>9, <1>10, QueueStutters DEF QueueInv

LEMMA QueueStep ==
    ASSUME QueueInv, CarefulProgram, [Next]_vars
    PROVE  QueueInv' /\ (Abs!Next \/ UNCHANGED Abs!vars)
<1>1. CASE Program
  BY <1>1, ProgramQueue
<1>2. CASE Driver
  <2>1. SyncInv' /\ ExeInv'
    BY <1>2, DriverStep DEF QueueInv, ExeInv, Driver, CreateContext, ContextReady, BeginPhase,
                            IssueCommand, WaitCommand, SyncBindings
  <2> QED
    BY <1>2, <2>1, ContextQueue, BeginQueue, IssueQueue, WaitQueue, SyncQueue DEF Driver, QueueInv
<1>3. CASE Array
  <2>1. SyncInv' /\ ExeInv'
    BY <1>3, ArrayStep DEF QueueInv, ExeInv, Array, StartCommand, FinishCommand
  <2> QED
    BY <1>3, <2>1, StartQueue, FinishQueue DEF Array, QueueInv
<1>4. CASE Caches
  BY <1>4, CachesQueue
<1>5. CASE UNCHANGED vars
  <2>1. SyncInv' /\ ExeInv'
    BY <1>5, NothingHappens DEF vars, QueueInv, ExeInv
  <2>2. JobInv' /\ Stale' = Stale
    BY <1>5, SameHost DEF vars, QueueInv
  <2>3. MemoryInv' /\ Contents' = Contents
    BY <1>5, <2>2, MemoryKept DEF vars, memory, QueueInv
  <2>4. ContextInv' /\ CommandInv'
    BY <1>5 DEF vars, QueueInv, ContextInv, CommandInv, Filled, Given, Ours, RunDone, Quiet,
                Target, In, Out, Phase, LastPhase
  <2>5. UNCHANGED Abs!vars
    BY <1>5, <2>3, QueueStutters DEF vars
  <2> QED
    BY <2>1, <2>2, <2>3, <2>4, <2>5 DEF QueueInv
<1> QED
  BY <1>1, <1>2, <1>3, <1>4, <1>5 DEF Next

LEMMA QueueStarts == Init => QueueInv /\ Abs!Init
<1> SUFFICES ASSUME Init PROVE QueueInv /\ Abs!Init
  OBVIOUS
<1>1. SyncInv
  BY StartsQuiet
<1>2. ExeInv
  BY OptionsAssumption DEF Init, ExeInv
<1>3. host = Idle /\ context = NullContext
  BY DEF Init
<1>4. JobInv /\ ContextInv /\ CommandInv /\ Stale = {}
  BY <1>3 DEF JobInv, ContextInv, CommandInv, Stale, Idle, NullContext
<1>5. /\ Ram.cache = [b \in Bo |-> NoLine] /\ Ram.mem = [b \in Bo |-> Garbage] /\ unflushed = {}
  BY DEF Init, Ram
<1>6. MemoryInv
  BY <1>4, <1>5 DEF MemoryInv, Coherent, NoLine
<1>7. \A b \in Buffer : ~cache[b].dirty /\ mem[b] = Garbage
  BY <1>5, RamIs, OwnBuffers DEF NoLine
<1>8. [b \in Buffer |-> IF cache[b].dirty THEN cache[b].val ELSE mem[b]]
        = [b \in Buffer |-> Garbage]
  BY <1>7
<1>9. Abs!Init
  BY <1>2, <1>3, <1>8 DEF Abs!Init, Init, Idle, NoJob, Garbage, ExeInv
<1> QED
  BY <1>1, <1>2, <1>4, <1>6, <1>9 DEF QueueInv

(* The whole account of a dispatch, for programs that do not let kernels   *)
(* read what was not flushed and start with the entry point that has a PDI:*)
(* caches, context, phases and the command on the device.                  *)
THEOREM DispatchInvariant == ASSUME CarefulProgram PROVE Spec => []QueueInv
<1>1. QueueInv /\ [Next]_vars => QueueInv'
  BY QueueStep
<1> QED
  BY <1>1, QueueStarts, PTL DEF Spec

(* The driver is a synchronous queue on coherent buffers: kernels read what*)
(* was written before, run in the configuration of their own entry point,  *)
(* and a dispatch returns when its output is visible.                      *)
THEOREM DriverImplementsQueue == ASSUME CarefulProgram PROVE Spec => ImplementsQueue
<1>1. QueueInv /\ [Next]_vars => [Abs!Next]_Abs!vars
  BY QueueStep
<1> QED
  BY <1>1, QueueStarts, DispatchInvariant, PTL DEF Spec, ImplementsQueue, Abs!Spec
=============================================================================

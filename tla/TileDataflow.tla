---------------------------- MODULE TileDataflow ----------------------------
(* A workgroup from its source program to its end: the program is split into  *)
(* core programs and control code, both are lowered, and then run: DMA        *)
(* channels that go around rings of buffer descriptors, cores that execute    *)
(* their programs, the locks of each object FIFO between them, and the control *)
(* code that pushes the transfers of the shim and waits for them.             *)
EXTENDS Workgroup

CONSTANTS
          Shim,             \* stands for main memory as the end of a connection
          Source, Targets,  \* connection -> FIFO or Shim; the FIFOs it is sent to, or {Shim}
          Programs,         \* [code, around, regular]: initial values of source, around, regular
          Dispatches,       \* bound: executions of the control code with an infinite loop around
                            \* the cores, a multiple of the depths of their FIFOs
          MaxObjects        \* bound: a number of objects that no run reaches

VARIABLES stage,     \* how far it is: "source", "workgroup", "composed", "unrolled",
                     \* "lower", then "run" or "rejected"
          source,    \* the program that is compiled
          regular,   \* the connections whose transfers DmaComposition can merge
          around,    \* is there an infinite loop around the cores' programs?
          trace,     \* core -> its program, later what it executes in a dispatch
          control,   \* the control code, later what the controller executes
          counts,    \* connection -> repetitions of its circular DMA
          cpc, dispatch,   \* the controller: next operation, executions so far
          queue,     \* shim connection -> objects left of each transfer pushed
          tokens,    \* shim connection -> transfers done that nobody waited for
          lock,      \* FIFO -> port -> value of the semaphore
          bds,       \* DMA end -> [acquire, repeat]: what the BDs of a buffer acquire; transfers of it
          ring,      \* DMA end -> index of the buffer of its current BD
          moved,     \* DMA end -> transfers done by the current BDs
          held,      \* user of a FIFO -> buffer it works on, or NoBuffer
          pc, round, \* core -> next operation, executions of the program so far
          content,   \* FIFO -> buffer -> user that fills it -> number of its object, 0 while written
          count      \* user of a FIFO -> objects handed over

compiler == <<stage, source, around, regular, trace, control, counts, bds>>
controller == <<cpc, dispatch>>
shim == <<queue, tokens>>
core == <<pc, round>>
objects == <<content, count>>
vars == <<compiler, controller, shim, lock, ring, moved, held, core, objects>>

-----------------------------------------------------------------------------
\* Static configuration: bufferization and the DMA programs of LowerToAIE. The
\* connections are those that have a circular DMA.

Produce == "Produce"   \* port of the side that fills a FIFO
Consume == "Consume"
Other(port) == IF port = Produce THEN Consume ELSE Produce

NoConnection == "core"
Connections == DOMAIN counts
User(c, f, port) == [conn |-> c, fifo |-> f, port |-> port]
DmaEnds == {User(c, Source[c], Consume) : c \in Connections}
             \cup UNION {{User(c, f, Produce) : f \in Targets[c]} : c \in Connections}
TileEnds == {e \in DmaEnds : e.fifo # Shim}
ShimConnections == {e.conn : e \in DmaEnds \ TileEnds}

CopyLike(f, port) == {e \in TileEnds : e.fifo = f /\ e.port = port}
NumCopies(f, port) == Cardinality(CopyLike(f, port))

\* The core is the user of a side without DMAs.
CoreUsers == {u \in {User(NoConnection, f, port) : f \in {e.fifo : e \in TileEnds}, port \in {Produce, Consume}} :
                CopyLike(u.fifo, u.port) = {}}
Used == {e.fifo : e \in TileEnds}

ProducerLockInit(f) ==
  Depth[f] * (IF NumCopies(f, Produce) >= NumCopies(f, Consume)
              THEN NumCopies(f, Produce) ELSE NumCopies(f, Consume))

\* A DMA acquires once for each DMA it shares the other side with.
AcqNum(e) ==
  LET own == NumCopies(e.fifo, e.port)   others == NumCopies(e.fifo, Other(e.port))
  IN  IF own < others THEN others \div own ELSE 1

\* The smallest repetition count of the connections of a FIFO divides the others.
Counts(f) == {counts[e.conn] : e \in {e \in TileEnds : e.fifo = f}}
CommonRepetition(f) == Smallest(Counts(f))
Resolved == \A f \in Used : \A n \in Counts(f) : n % CommonRepetition(f) = 0

\* Transfers of an object by a DMA before it goes on to its next buffer.
Repetition(e) == counts[e.conn] \div CommonRepetition(e.fifo)

NoBuffer == -1
Buffers(f) == 0 .. Depth[f] - 1

\* Users of a side while the array runs.
UsersOf(f, port) == {u \in DOMAIN held : u.fifo = f /\ u.port = port}

\* The control code is executed once for each dispatch; a core's trace stands for
\* several of them, if its program was repeated for an infinite loop.
Executions == IF around THEN Dispatches ELSE 1
Rounds(k) == IF around THEN Dispatches \div Lcm(DepthsOf(trace[k])) ELSE 1

-----------------------------------------------------------------------------
Init ==
  /\ stage = "source"
  /\ \E p \in Programs : source = p.code /\ around = p.around /\ regular = p.regular
  /\ trace = [k \in Cores |-> <<>>] /\ control = <<>> /\ counts = <<>>
  /\ cpc = 1 /\ dispatch = 0 /\ queue = <<>> /\ tokens = <<>>
  /\ lock = <<>> /\ bds = <<>> /\ ring = <<>> /\ moved = <<>> /\ held = <<>>
  /\ pc = [k \in Cores |-> 1] /\ round = [k \in Cores |-> 0]
  /\ content = <<>> /\ count = <<>>

running == <<controller, shim, lock, bds, ring, moved, held, core, objects>>

Circulars == {x \in ToSet(control) : x.op = "configure"}

CreateWorkgroup ==
  /\ stage = "source"
  /\ stage' = "workgroup"
  /\ trace' = [k \in Cores |-> BuildCore(source, k)]
  /\ control' = DmaCSE(BuildControl(source))
  /\ UNCHANGED <<source, around, regular, counts, running>>

DmaComposition ==
  /\ stage = "workgroup"
  /\ stage' = "composed"
  /\ \E p \in Compositions(control, {x.conn : x \in Circulars}, regular) : control' = MoveWaits(p)
  /\ UNCHANGED <<source, around, regular, trace, counts, running>>

UnrollLoops ==
  /\ stage = "composed"
  /\ stage' = "unrolled"
  /\ control' = Unroll(control)
  /\ UNCHANGED <<source, around, regular, trace, counts, running>>

\* A connection with several circular DMAs is an error.
OneCircularEach ==
  \A c \in {x.conn : x \in Circulars} : Cardinality(CircularUsers(control, c)) = 1

TakeCirculars ==
  /\ stage = "unrolled" /\ OneCircularEach
  /\ stage' = "lower"
  /\ counts' = [c \in {x.conn : x \in Circulars} |->
                  control[CHOOSE i \in CircularUsers(control, c) : TRUE].count]
  /\ control' = Transfers(control)
  /\ UNCHANGED <<source, around, regular, trace, running>>

\* The cores get their locks, the array its configuration.
Lower ==
  /\ stage = "lower" /\ Resolved
  /\ stage' = "run" /\ source' = <<>>
  /\ trace' = [k \in Cores |-> CoreTrace(trace[k], around)]
  /\ queue' = [c \in ShimConnections |-> <<>>]
  /\ tokens' = [c \in ShimConnections |-> 0]
  /\ lock' = [f \in Used |-> [Produce |-> ProducerLockInit(f), Consume |-> 0]]
  /\ bds' = [e \in TileEnds |-> [acquire |-> AcqNum(e), repeat |-> Repetition(e)]]
  /\ ring' = [e \in TileEnds |-> 0]
  /\ moved' = [e \in TileEnds |-> 0]
  /\ held' = [u \in TileEnds \cup CoreUsers |-> NoBuffer]
  /\ content' = [f \in Used |-> [b \in Buffers(f) |->
                  [u \in {x \in TileEnds \cup CoreUsers : x.fifo = f /\ x.port = Produce} |-> 0]]]
  /\ count' = [u \in TileEnds \cup CoreUsers |-> 0]
  /\ UNCHANGED <<around, regular, control, counts, controller, core>>

\* Repetitions without a common factor are an error, too.
Reject ==
  /\ stage = "lower" /\ ~Resolved
  /\ stage' = "rejected" /\ source' = <<>>
  /\ UNCHANGED <<around, regular, trace, control, counts, running>>

Compile == CreateWorkgroup \/ DmaComposition \/ UnrollLoops \/ TakeCirculars
             \/ Lower \/ Reject

-----------------------------------------------------------------------------
Acquired(f, port, n) == /\ lock[f][port] >= n
                        /\ lock' = [lock EXCEPT ![f][port] = @ - n]
Released(f, port, n) == lock' = [lock EXCEPT ![f][Other(port)] = @ + n]

\* A user takes a buffer, or hands over the one it has.
Takes(u, b) ==
  /\ held' = [held EXCEPT ![u] = b]
  /\ content' = IF u.port = Produce THEN [content EXCEPT ![u.fifo][b][u] = 0] ELSE content
  /\ UNCHANGED count

HandsOver(u) ==
  /\ held' = [held EXCEPT ![u] = NoBuffer]
  /\ count' = [count EXCEPT ![u] = @ + 1]
  /\ content' = IF u.port = Produce
                THEN [content EXCEPT ![u.fifo][held[u]][u] = count[u] + 1] ELSE content

\* The BDs of a buffer: the first acquires, the last releases and goes to the
\* next buffer, the last one of the ring back to the first.
DmaAcquire(e) ==
  /\ held[e] = NoBuffer
  /\ Acquired(e.fifo, e.port, bds[e].acquire)
  /\ Takes(e, ring[e])
  /\ UNCHANGED <<compiler, controller, shim, core, ring, moved>>

DmaRelease(e) ==
  /\ held[e] # NoBuffer /\ moved[e] = bds[e].repeat
  /\ Released(e.fifo, e.port, bds[e].acquire)
  /\ HandsOver(e)
  /\ moved' = [moved EXCEPT ![e] = 0]
  /\ ring' = [ring EXCEPT ![e] = (@ + 1) % Depth[e.fifo]]
  /\ UNCHANGED <<compiler, controller, shim, core>>

EndsOf(c) == {e \in DOMAIN bds : e.conn = c}

\* A stream has no memory to speak of: all its ends move at once. The last object
\* of a transfer of the shim leaves a token.
Transfer(c) ==
  /\ \A e \in EndsOf(c) : held[e] # NoBuffer /\ moved[e] < bds[e].repeat
  /\ c \in DOMAIN queue => queue[c] # <<>>
  /\ moved' = [e \in DOMAIN bds |-> IF e.conn = c THEN moved[e] + 1 ELSE moved[e]]
  /\ IF c \notin DOMAIN queue THEN UNCHANGED shim
     ELSE IF Head(queue[c]) > 1
     THEN queue' = [queue EXCEPT ![c][1] = @ - 1] /\ UNCHANGED tokens
     ELSE queue' = [queue EXCEPT ![c] = Tail(@)] /\ tokens' = [tokens EXCEPT ![c] = @ + 1]
  /\ UNCHANGED <<compiler, controller, lock, ring, held, core, objects>>

Advance(k) == IF pc[k] < Len(trace[k])
              THEN pc' = [pc EXCEPT ![k] = @ + 1] /\ UNCHANGED round
              ELSE pc' = [pc EXCEPT ![k] = 1] /\ round' = [round EXCEPT ![k] = @ + 1]

CanStep(k, op) == trace[k] # <<>> /\ round[k] < Rounds(k) /\ trace[k][pc[k]].op = op
Uses(k) == User(NoConnection, trace[k][pc[k]].fifo, trace[k][pc[k]].port)

CoreAcquire(k) ==
  /\ CanStep(k, "acquire")
  /\ Acquired(Uses(k).fifo, Uses(k).port, 1)
  /\ Takes(Uses(k), trace[k][pc[k]].buffer)
  /\ Advance(k)
  /\ UNCHANGED <<compiler, controller, shim, ring, moved>>

CoreRelease(k) ==
  /\ CanStep(k, "release")
  /\ Released(Uses(k).fifo, Uses(k).port, 1)
  /\ HandsOver(Uses(k))
  /\ Advance(k)
  /\ UNCHANGED <<compiler, controller, shim, ring, moved>>

\* The controller executes the control code, once for each dispatch.
NextOperation == IF cpc < Len(control) THEN cpc' = cpc + 1 /\ UNCHANGED dispatch
                                       ELSE cpc' = 1 /\ dispatch' = dispatch + 1
CanControl(op) == dispatch < Executions /\ control # <<>> /\ control[cpc].op = op

ControlPush ==
  /\ CanControl("push")
  /\ queue' = [queue EXCEPT ![control[cpc].conn] = Append(@, control[cpc].count)]
  /\ NextOperation
  /\ UNCHANGED <<compiler, tokens, lock, ring, moved, held, core, objects>>

ControlWait ==
  /\ CanControl("wait")
  /\ tokens[control[cpc].conn] > 0
  /\ tokens' = [tokens EXCEPT ![control[cpc].conn] = @ - 1]
  /\ NextOperation
  /\ UNCHANGED <<compiler, queue, lock, ring, moved, held, core, objects>>

Run == stage = "run"
Controller == Run /\ (ControlPush \/ ControlWait)
CoreStep(k) == Run /\ (CoreAcquire(k) \/ CoreRelease(k))
Ends == {e \in UNION {{User(c, Source[c], Consume)} \cup {User(c, f, Produce) : f \in Targets[c]} :
                        c \in DOMAIN Source} : e.fifo # Shim}
DmaStep(e) == Run /\ e \in DOMAIN bds /\ (DmaAcquire(e) \/ DmaRelease(e))
Stream(c) == Run /\ c \in Connections /\ Transfer(c)

Array == Controller \/ (\E k \in Cores : CoreStep(k))
           \/ (\E e \in Ends : DmaStep(e)) \/ (\E c \in DOMAIN Source : Stream(c))
Next == Compile \/ Array

\* While some core, DMA or the controller can go on, one of them does. More is not
\* needed: nothing in the array can go on for ever.
Fairness == WF_vars(Array)
Spec == Init /\ [][Next]_vars /\ Fairness
-----------------------------------------------------------------------------
(* However a program spreads the circular DMAs of a connection over its loops, *)
(* moving them out of the loops and merging them leaves the connection with    *)
(* one, which LowerToAIE insists on.                                          *)
CircularsUnique == stage = "unrolled" => OneCircularEach

(* CreateAIEWorkgroup and the composition of the control code keep what the    *)
(* sequential program does: every core executes its parts of it in the order  *)
(* of the program, every connection transfers as many objects.                *)
Executed(p, k) == FlattenSeq([i \in DOMAIN p |->
                    IF p[i].op = "core" /\ p[i].core = k THEN Execute(p[i].body) ELSE <<>>])
Objects(p, c) == FoldLeft(LAMBDA n, x : n + (IF x.op = "dma" /\ x.conn = c THEN 1
                                             ELSE IF x.op = "push" /\ x.conn = c THEN x.count ELSE 0), 0, p)

SplitInOrder ==
  stage \in {"workgroup", "composed"} =>
    /\ \A k \in Cores : Execute(trace[k]) = Executed(Execute(source), k)
    /\ \A c \in DOMAIN Source : Objects(Execute(control), c) = Objects(Execute(source), c)

(* Whoever reads from a FIFO, a core with the buffers fixed in its program     *)
(* (AcquireReleaseToUseLock) or a DMA going around its ring, holds the buffer *)
(* with the object it is due to get, complete and not being overwritten.      *)
ReadsInOrder ==
  \A u \in DOMAIN held : u.port = Consume /\ held[u] # NoBuffer =>
    \A p \in UsersOf(u.fifo, Produce) : content[u.fifo][held[u]][p] = count[u] + 1

(* Every FIFO behaves like one object FIFO between a producer and a consumer  *)
(* that rotate through its buffers, whether the side is a DMA or the core:    *)
(* the lowering of a core keeps step with the ring of the DMA it talks to.    *)
Producer(f) == CHOOSE u \in UsersOf(f, Produce) : TRUE
Consumer(f) == CHOOSE u \in UsersOf(f, Consume) : TRUE
FifoOn(f) == INSTANCE ObjectFifo WITH
  Depth <- Depth[f], Items <- MaxObjects,
  producerLock <- lock[f][Produce], consumerLock <- lock[f][Consume],
  writeIdx <- count[Producer(f)] % Depth[f], readIdx <- count[Consumer(f)] % Depth[f],
  writing <- held[Producer(f)], reading <- held[Consumer(f)],
  content <- [b \in Buffers(f) |-> content[f][b][Producer(f)]],
  sent <- count[Producer(f)], received <- count[Consumer(f)], delivered <- count[Consumer(f)]

FifosImplemented ==
  /\ [][Lower => \A f \in DOMAIN lock' : FifoOn(f)!Init']_vars
  /\ [][Run => \A f \in DOMAIN lock : UNCHANGED FifoOn(f)!fvars \/ FifoOn(f)!Next]_vars

(* What the compiler accepts gets through, controller, cores and all DMAs:    *)
(* nobody waits for ever on a lock, a stream or a token. In the end every     *)
(* FIFO is empty, its producer lock back at its initial value but for a DMA   *)
(* that already waits for the next object, so that the next dispatch finds    *)
(* what this one found.                                                       *)
Empty(f) ==
  /\ lock[f][Consume] = 0
  /\ \A u \in UsersOf(f, Consume) : held[u] = NoBuffer
  /\ LET waiting == {u \in UsersOf(f, Produce) : held[u] # NoBuffer}
     IN  lock[f][Produce] = ProducerLockInit(f) - Cardinality(waiting)

Done == /\ dispatch = Executions /\ \A k \in Cores : trace[k] # <<>> => round[k] = Rounds(k)
        /\ \A c \in DOMAIN queue : queue[c] = <<>> /\ tokens[c] = 0
        /\ \A f \in DOMAIN lock : Empty(f)

Settles == Run ~> []Done
=============================================================================

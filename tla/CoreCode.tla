------------------------------ MODULE CoreCode ------------------------------
(* The program of a core, from the accesses to object FIFOs the front end     *)
(* leaves in it to acquires and releases of locks with fixed buffers:         *)
(* AccessToAcquireRelease, InsertInfiniteLoopAroundCoreBlock and              *)
(* AcquireReleaseToUseLock. A program is a sequence in which "for" and "end"  *)
(* bracket the body of a loop, so that a walk visits it from left to right.   *)
EXTENDS Integers, SequencesExt

CONSTANT Depth      \* [FIFO -> number of its buffers]

Access(f, type) == [op |-> "access", fifo |-> f, type |-> type]
For(n) == [op |-> "for", trips |-> n]
End == [op |-> "end"]
Acquire(f, port) == [op |-> "acquire", fifo |-> f, port |-> port]
Release(f, port) == [op |-> "release", fifo |-> f, port |-> port]

-----------------------------------------------------------------------------
\* Positions, blocks and ancestors.

Positions(p, op) == {i \in DOMAIN p : p[i].op = op}
Smallest(S) == CHOOSE i \in S : \A j \in S : i <= j
Largest(S) == CHOOSE i \in S : \A j \in S : i >= j

\* Number of loops around position i.
Nest(p, i) == Cardinality({j \in Positions(p, "for") : j < i})
                - Cardinality({j \in Positions(p, "end") : j < i})

\* Position of the terminator of the block that i is in.
BlockEnd(p, i) ==
  Smallest({j \in Positions(p, "end") : j >= i /\ Nest(p, j) = Nest(p, i)} \cup {Len(p) + 1})

\* The operation of i's block that j, further down in this block, is or lies in.
AncestorInBlock(p, i, j) == Largest({k \in i + 1 .. j : Nest(p, k) = Nest(p, i)})

-----------------------------------------------------------------------------
\* AccessToAcquireRelease. An insertion is an operation and the position in
\* front of which it is placed; those at one position stay in order.

AccessesOf(p, f) == {i \in Positions(p, "access") : p[i].fifo = f}
FirstAccess(p, i) == Smallest(AccessesOf(p, p[i].fifo))
EarlierAccesses(p, i) == {j \in AccessesOf(p, p[i].fifo) : j < i}

Reads(p) == {i \in Positions(p, "access") : p[i].type = "Read"}
ReadsOf(p, f) == {i \in Reads(p) : p[i].fifo = f}
Writes(p) == {i \in Positions(p, "access") : p[i].type = "Write"}

\* A read is acquired where it stands and released in its own block: before the
\* next read of the FIFO, or what contains it, or at the end of the block.
ReadRelease(p, i) ==
  LET later == {j \in ReadsOf(p, p[i].fifo) : j > i}
  IN  IF later # {} /\ Smallest(later) < BlockEnd(p, i)
      THEN AncestorInBlock(p, i, Smallest(later)) ELSE BlockEnd(p, i)

InsertedForRead(p, i) == <<[at |-> i, do |-> Acquire(p[i].fifo, "Consume")],
                           [at |-> ReadRelease(p, i), do |-> Release(p[i].fifo, "Consume")]>>

\* For each position of p in S, in order, the sequence f has for it.
Collect(p, S, f(_)) == FlattenSeq([i \in DOMAIN p |-> IF i \in S THEN f(i) ELSE <<>>])

FirstReads(p) == {i \in Reads(p) : i = Smallest(ReadsOf(p, p[i].fifo))}

ReadInsertions(p) ==
  Collect(p, FirstReads(p), LAMBDA k :
    Collect(p, ReadsOf(p, p[k].fifo), LAMBDA i : InsertedForRead(p, i)))

\* A write is acquired in front of the first access of its FIFO, of any type, and
\* released in front of the next one, or at the end of its own block.
InsertedAtAccess(p, i) ==
  LET before == EarlierAccesses(p, i)
  IN  (IF before # {} /\ Largest(before) \in Writes(p)
       THEN <<[at |-> i, do |-> Release(p[i].fifo, "Produce")]>> ELSE <<>>)
      \o (IF i \in Writes(p)
          THEN <<[at |-> FirstAccess(p, i), do |-> Acquire(p[i].fifo, "Produce")]>> ELSE <<>>)

OpenWrites(p) == {i \in Writes(p) : i = Largest(AccessesOf(p, p[i].fifo))}

ReleasedAtEnd(p, i) == <<[at |-> BlockEnd(p, i), do |-> Release(p[i].fifo, "Produce")]>>

WriteInsertions(p) ==
  Collect(p, Positions(p, "access"), LAMBDA i : InsertedAtAccess(p, i))
    \o Collect(p, OpenWrites(p), LAMBDA i : ReleasedAtEnd(p, i))

InsertedAt(insertions, k) ==
  FlattenSeq([n \in DOMAIN insertions |->
               IF insertions[n].at = k THEN <<insertions[n].do>> ELSE <<>>])

Inserted(p, insertions) ==
  FlattenSeq([k \in 1 .. Len(p) + 1 |-> InsertedAt(insertions, k) \o (IF k \in DOMAIN p THEN <<p[k]>> ELSE <<>>)])

AccessToAcquireRelease(p) ==
  SelectSeq(Inserted(p, ReadInsertions(p) \o WriteInsertions(p)), LAMBDA x : x.op # "access")

-----------------------------------------------------------------------------
\* InsertInfiniteLoopAroundCoreBlock and the unrolling of AcquireReleaseToUseLock.

Lcm(depths) == Smallest({n \in 1 .. ProductSet(depths) : \A d \in depths : n % d = 0})

DepthsOf(p) == {Depth[p[i].fifo] : i \in Positions(p, "acquire")}

\* A loop around the whole program; the infinite loop around it repeats the trace.
DepthLoop(p) == <<For(Lcm(DepthsOf(p)))>> \o p \o <<End>>

Repeat(body, n) == FlattenSeq([k \in 1 .. n |-> body])
Loop(n, body) == IF n = 1 THEN body ELSE <<For(n)>> \o body \o <<End>>
Epilogue(n, body) == IF n = 0 THEN <<>> ELSE Loop(n, body)

Unrolled(n, body, factor) ==
  IF factor = 1 THEN <<For(n)>> \o body \o <<End>>
  ELSE Loop(n \div factor, Repeat(body, factor)) \o Epilogue(n % factor, body)

NoUnrolling(body) == 1   \* mutant: loops are left as they are

\* The factor of a loop only considers the acquires that are directly in its body.
UnrollFactor(body) == 
  Lcm({Depth[body[i].fifo] : i \in {j \in Positions(body, "acquire") : Nest(body, j) = 0}})

RECURSIVE CoreLoopUnroll(_, _)   \* every loop that ends after position done, inner ones first
CoreLoopUnroll(p, done) ==
  LET ends == {e \in Positions(p, "end") : e > done}
  IN  IF ends = {} THEN p
      ELSE LET e == Smallest(ends)
               b == Largest({i \in Positions(p, "for") : i < e /\ Nest(p, i) < Nest(p, e)})
               body == SubSeq(p, b + 1, e - 1)
               new == Unrolled(p[b].trips, body, UnrollFactor(body))
           IN  CoreLoopUnroll(SubSeq(p, 1, b - 1) \o new \o SubSeq(p, e + 1, Len(p)),
                              b - 1 + Len(new))

\* Mutant: one count for all FIFOs.
CommonIndex(p, i) ==
  Cardinality({j \in Positions(p, "acquire") : j < i}) % Depth[p[i].fifo]

\* The buffer of an acquire is fixed by its place in the program text.
BufferIndex(p, i) ==
  Cardinality({j \in Positions(p, "acquire") : j < i /\ p[j].fifo = p[i].fifo}) % Depth[p[i].fifo]

AcquireToUseLock(p) ==
  [i \in DOMAIN p |-> IF p[i].op = "acquire" THEN p[i] @@ [buffer |-> BufferIndex(p, i)] ELSE p[i]]

\* What the core executes.
RECURSIVE Execute(_)
Execute(p) ==
  IF Positions(p, "for") = {} THEN p
  ELSE LET b == Smallest(Positions(p, "for"))
           e == BlockEnd(p, b + 1)
           body == Execute(SubSeq(p, b + 1, e - 1))
       IN  SubSeq(p, 1, b - 1) \o Repeat(body, p[b].trips) \o Execute(SubSeq(p, e + 1, Len(p)))

Lowered(p) == AcquireToUseLock(CoreLoopUnroll(p, 0))

CoreTrace(p, loopAround) ==
  LET stubs == AccessToAcquireRelease(p)
  IN  Execute(Lowered(IF loopAround THEN DepthLoop(stubs) ELSE stubs))
=============================================================================

------------------------------ MODULE Workgroup ------------------------------
(* From one sequential program to a workgroup: CreateAIEWorkgroup splits it    *)
(* into a program for each core and control code, and the passes behind it    *)
(* move the control code's operations out of loops and merge them (DmaCSE,    *)
(* DmaComposition), until every connection has one circular DMA. Programs and *)
(* control code are sequences with "for" and "end", as in CoreCode.           *)
EXTENDS CoreCode

CONSTANT Cores

\* The program: transfers from or to main memory, transfers inside the array,
\* and what a core does.
Dma(c) == [op |-> "dma", conn |-> c]
Circular(c) == [op |-> "circular", conn |-> c]
Core(k, body) == [op |-> "core", core |-> k, body |-> body]

\* The control code: what the array's DMAs of a connection do over and over, and
\* the transfers of a shim DMA. The count is the size of the dimension with stride
\* zero, or of the iterations, that rewriting has added.
Configure(c) == [op |-> "configure", conn |-> c, count |-> 1]
Push(c, id) == [op |-> "push", conn |-> c, id |-> id, count |-> 1]
Wait(c, id) == [op |-> "wait", conn |-> c, id |-> id]

-----------------------------------------------------------------------------
\* CreateAIEWorkgroup.

mapOrMerge(body, op) == body \o op.body
mergeLastFirst(body, nested) == nested \o body   \* mutant
mergeContext(body, nested) == body \o nested

\* A loop goes around the body of every core that has operations in it.
inLoop(n, nested) == IF nested = <<>> THEN <<>> ELSE <<For(n)>> \o nested \o <<End>>

LoopStart(p, e) == Largest({b \in Positions(p, "for") : b < e /\ Nest(p, b) < Nest(p, e)})

\* What core k gets of program p.
RECURSIVE BuildCore(_, _)
BuildCore(p, k) ==
  IF p = <<>> THEN <<>>
  ELSE IF Last(p).op = "end"
  THEN LET b == LoopStart(p, Len(p))
       IN  mergeContext(BuildCore(SubSeq(p, 1, b - 1), k),
                        inLoop(p[b].trips, BuildCore(SubSeq(p, b + 1, Len(p) - 1), k)))
  ELSE LET before == BuildCore(Front(p), k)
       IN  IF Last(p).op = "core" /\ Last(p).core = k THEN mapOrMerge(before, Last(p)) ELSE before

BuildControl(p) ==
  FlattenSeq([i \in DOMAIN p |->
    CASE p[i].op = "dma" -> <<Configure(p[i].conn), Push(p[i].conn, i), Wait(p[i].conn, i)>>
      [] p[i].op = "circular" -> <<Configure(p[i].conn)>>
      [] p[i].op = "core" -> <<>>
      [] OTHER -> <<p[i]>>])

-----------------------------------------------------------------------------
\* Control code: operations without those at positions S.
Without(p, S) ==
  FlattenSeq([i \in DOMAIN p |-> IF i \in S THEN <<>> ELSE <<p[i]>>])

\* DmaCSE drops a circular DMA when the same one stands earlier in a block around it.
DmaCSE(p) ==
  Without(p, {i \in Positions(p, "configure") :
                \E j \in 1 .. i - 1 : p[j] = p[i] /\ BlockEnd(p, j) > i})

Users(p, c) == {i \in Positions(p, "configure") \cup Positions(p, "push") : p[i].conn = c}
UsersInLoop(p, i) == Users(p, p[i].conn) \cap (LoopStart(p, i) .. BlockEnd(p, i))

\* DmaLoopSubsumption of a circular DMA: any other user of the connection before
\* it, or another circular DMA behind it, is in the way; of a transfer: any other user.
CanSubsume(p, i) ==
  /\ Nest(p, i) > 0
  /\ \A j \in UsersInLoop(p, i) \ {i} : p[i].op = "configure" /\ j > i /\ p[j].op # "configure"

AddIterations(p, i) == [p[i] EXCEPT !.count = @ * p[LoopStart(p, i)].trips]

\* The operation goes in front of the loop around it.
Subsumed(p, i) ==
  LET b == LoopStart(p, i)
  IN  SubSeq(p, 1, b - 1) \o <<AddIterations(p, i)>> \o SubSeq(p, b, i - 1) \o SubSeq(p, i + 1, Len(p))

\* CombineStridedOps: operations of a kind on one connection that follow each
\* other, in one block.
Followers(p, i) ==
  {j \in Positions(p, p[i].op) : p[j].conn = p[i].conn /\ j > i /\ j < BlockEnd(p, i)}
HasNextAtOnce(p, i) == i + 1 \in Followers(p, i)   \* mutant: nothing may stand between them
HasNext(p, i) == Followers(p, i) # {} /\ Nest(p, Smallest(Followers(p, i))) = Nest(p, i)

\* The second operation takes the place of the first, the first one's wait goes.
Combined(p, i) ==
  LET j == Smallest(Followers(p, i))
      waits == IF p[i].op = "push" THEN {w \in Positions(p, "wait") : p[w].id = p[i].id} ELSE {}
  IN  Without([p EXCEPT ![i] = [p[j] EXCEPT !.count = @ + p[i].count]], {j} \cup waits)

\* What the patterns make of the operations of connection c in one step. Transfers
\* of the shim take part if their access patterns are regular enough.
Rewrites(p, c, regular) ==
  LET of == {i \in Positions(p, "configure") : p[i].conn = c}
              \cup {i \in Positions(p, "push") : p[i].conn = c /\ regular}
  IN  {Subsumed(p, i) : i \in {j \in of : CanSubsume(p, j)}}
        \cup {Combined(p, i) : i \in {j \in of : HasNext(p, j)}}

\* ... in any order, until none applies. Those of two connections do not touch each other.
RECURSIVE Composed(_, _, _)
Composed(p, c, regular) ==
  LET next == Rewrites(p, c, regular)
  IN  IF next = {} THEN {p} ELSE UNION {Composed(q, c, regular) : q \in next}

RECURSIVE Compositions(_, _, _)
Compositions(p, connections, regular) ==
  IF connections = {} THEN {p}
  ELSE LET c == CHOOSE c \in connections : TRUE
       IN  UNION {Compositions(q, connections \ {c}, regular) : q \in Composed(p, c, c \in regular)}

\* A wait goes behind the operation of its transfer's block that it is in.
MoveWait(p, id) ==
  LET w == CHOOSE w \in Positions(p, "wait") : p[w].id = id
      i == CHOOSE i \in Positions(p, "push") : p[i].id = id
      end == IF Nest(p, w) = Nest(p, i) THEN w
             ELSE Smallest({e \in Positions(p, "end") : e > w /\ Nest(p, e) = Nest(p, i) + 1})
  IN  SubSeq(p, 1, w - 1) \o SubSeq(p, w + 1, end) \o <<p[w]>> \o SubSeq(p, end + 1, Len(p))

WaitIds(p) == LET waits == SelectSeq(p, LAMBDA x : x.op = "wait")
              IN  [n \in DOMAIN waits |-> waits[n].id]

LeaveWaits(p) == p   \* mutant: waits stay in the loops that their transfers have left

MoveWaits(p) == FoldLeft(MoveWait, p, WaitIds(p))

-----------------------------------------------------------------------------
\* Behind DmaComposition: loops are unrolled, and every connection has to have
\* one circular DMA left.
Unroll(p) == DmaCSE(Execute(DmaCSE(p)))

CircularUsers(p, c) == {i \in Positions(p, "configure") : p[i].conn = c}
Transfers(p) == SelectSeq(p, LAMBDA x : x.op \in {"push", "wait"})
=============================================================================

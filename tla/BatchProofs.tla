----------------------------- MODULE BatchProofs -----------------------------
(***************************************************************************)
(* What AssignNpuDmaBdIds guarantees for every control code, any number of *)
(* shim tiles and any number of BD ids: DMAs of a tile that are            *)
(* outstanding together have different ids, and every id is given back.    *)
(*                                                                         *)
(* Batches are trees.  What is in a tree is told by paths from its root    *)
(* (Reach), of which only the first step matters in what follows           *)
(* (InSplit, TogetherSplit, TreeSplit).  While the control code is walked, *)
(* every DMA is in one place of one tree, and two that are outstanding     *)
(* together are either in one batch or the later is inside the batch of    *)
(* the earlier (WalkInv).  While ids are assigned, the ids taken on a tile *)
(* are those of the batches whose release is still to come (AssignInv).    *)
(***************************************************************************)
EXTENDS AssignNpuDmaBdIds, FiniteSetTheorems, SequenceTheorems, WellFoundedInduction, TLAPS

-----------------------------------------------------------------------------
(* A set of numbers that is not empty has a smallest one.                    *)
LEMMA Smallest ==
    ASSUME NEW S \in SUBSET Nat, S # {}
    PROVE  \E n \in S : \A m \in S : ~(m < n)
<1> DEFINE R == OpToRel(<, Nat)
<1>1. \E n \in S : \A m \in S : <<m, n>> \notin R
  <2>1. IsWellFoundedOn(R, Nat)
    BY NatLessThanWellFounded
  <2> HIDE DEF R
  <2> QED
    BY <2>1, WFMin
<1>2. \A m, n \in S : m < n => <<m, n>> \in R
  BY DEF OpToRel
<1> QED
  BY <1>1, <1>2

(* What holds at 0 and from each number to the next holds up to N.           *)
LEMMA UpToN ==
    ASSUME NEW N \in Nat, NEW T, 0 \in T, \A n \in 1 .. N : n - 1 \in T => n \in T
    PROVE  0 .. N \subseteq T
<1> DEFINE Bad == {n \in 0 .. N : n \notin T}
<1>1. SUFFICES ASSUME Bad # {} PROVE FALSE
  OBVIOUS
<1>2. Bad \in SUBSET Nat
  OBVIOUS
<1>3. PICK n \in Bad : \A m \in Bad : ~(m < n)
  <2> HIDE DEF Bad
  <2> QED
    BY <1>1, <1>2, Smallest
<1>4. n \in 1 .. N /\ n - 1 \in 0 .. N /\ n - 1 < n
  BY <1>3
<1>5. n - 1 \in T
  BY <1>3, <1>4
<1> QED
  BY <1>3, <1>4, <1>5

(* A recursive function over 0 .. N exists: H makes its next value.          *)
Steps(f, b, H, N) == f[0] = b /\ \A n \in 1 .. N : f[n] = H[<<n, f[n - 1]>>]

(* A recursive function whose values stay in a set does exist.               *)
LEMMA StepsExist ==
    ASSUME NEW N \in Nat, NEW St, NEW b \in St, NEW H \in [(1 .. N) \X St -> St]
    PROVE  \E f \in [0 .. N -> St] : Steps(f, b, H, N)
<1> DEFINE T == {n \in 0 .. N : \E f \in [0 .. n -> St] : Steps(f, b, H, n)}
<1>1. 0 \in T
  <2> DEFINE f == [k \in 0 .. 0 |-> b]
  <2>1. f \in [0 .. 0 -> St] /\ Steps(f, b, H, 0)
    BY DEF Steps
  <2> QED
    BY <2>1
<1>2. ASSUME NEW n \in 1 .. N, n - 1 \in T PROVE n \in T
  <2>1. PICK f \in [0 .. n - 1 -> St] : Steps(f, b, H, n - 1)
    BY <1>2
  <2> DEFINE g == [k \in 0 .. n |-> IF k = n THEN H[<<n, f[n - 1]>>] ELSE f[k]]
  <2>2. n - 1 \in 0 .. n - 1 /\ 0 \in 0 .. n - 1 /\ n \in 0 .. N /\ 0 # n /\ 0 \in 0 .. n
    BY <1>2
  <2>3. H[<<n, f[n - 1]>>] \in St
    BY <2>1, <2>2
  <2>4. g \in [0 .. n -> St]
    <3>1. \A k \in 0 .. n : k # n => k \in 0 .. n - 1
      OBVIOUS
    <3> QED
      BY <2>1, <2>3, <3>1
  <2>5. g[0] = b
    BY <2>1, <2>2 DEF Steps
  <2>6. ASSUME NEW k \in 1 .. n PROVE g[k] = H[<<k, g[k - 1]>>]
    <3>1. k \in 0 .. n /\ k - 1 \in 0 .. n /\ k - 1 # n
      OBVIOUS
    <3>2. g[k - 1] = f[k - 1]
      BY <3>1
    <3>3. CASE k = n
      BY <3>1, <3>2, <3>3
    <3>4. CASE k # n
      <4>1. k \in 1 .. n - 1
        BY <3>4
      <4>2. f[k] = H[<<k, f[k - 1]>>]
        BY <2>1, <4>1 DEF Steps
      <4>3. g[k] = f[k]
        BY <3>1, <3>4
      <4> HIDE DEF g
      <4> QED
        BY <3>2, <4>2, <4>3
    <3> QED
      BY <3>3, <3>4
  <2> HIDE DEF g
  <2>7. Steps(g, b, H, n)
    BY <2>5, <2>6 DEF Steps
  <2> QED
    BY <2>2, <2>4, <2>7
<1>3. N \in T
  <2> HIDE DEF T
  <2>1. 0 .. N \subseteq T
    BY <1>1, <1>2, UpToN
  <2> QED
    BY <2>1
<1> QED
  BY <1>3

-----------------------------------------------------------------------------
(* A sequence of any kind.                                                 *)
IsSeq(s) == s \in Seq(ToSet(s))

(* Trees of batches.                                                       *)
Path(path, n, b, c) ==
    path[0] = b /\ path[n] = c /\ \A k \in 1 .. n : path[k] \in ToSet(path[k - 1].inner)
Reach(b, c) == \E n \in Nat : \E path : Path(path, n, b, c)

(* DMA i is somewhere in batch b; it is in the batch that has j somewhere. *)
In(i, b) == \E c : Reach(b, c) /\ i \in ToSet(c.ops)
Together(i, j, b) == \E c : Reach(b, c) /\ i \in ToSet(c.ops) /\ In(j, c)

(* A batch of a tree: every DMA is at one place in it.                     *)
Node(b) ==
    /\ b = [ops |-> b.ops, inner |-> b.inner, loop |-> b.loop, innerReq |-> b.innerReq]
    /\ b.ops \in Seq(Nat) /\ IsSeq(b.inner) /\ b.innerReq \in Nat
    /\ \A k, l \in DOMAIN b.ops : b.ops[k] = b.ops[l] => k = l
    /\ \A i \in ToSet(b.ops), k \in DOMAIN b.inner : ~In(i, b.inner[k])
    /\ \A i : \A k, l \in DOMAIN b.inner :
          In(i, b.inner[k]) /\ In(i, b.inner[l]) => k = l
Tree(b) == \A c : Reach(b, c) => Node(c)

(* A batch reaches itself, and what the batches inside it reach.           *)
LEMMA ReachSelf == \A b : Reach(b, b)
<1> SUFFICES ASSUME NEW b PROVE Reach(b, b)
  OBVIOUS
<1> DEFINE path == [k \in 0 .. 0 |-> b]
<1>1. Path(path, 0, b, b)
  BY DEF Path
<1> HIDE DEF path
<1> QED
  BY <1>1 DEF Reach

LEMMA ReachInner ==
    ASSUME NEW b, NEW d \in ToSet(b.inner), NEW c, Reach(d, c)
    PROVE  Reach(b, c)
<1>0. PICK n \in Nat : \E path : Path(path, n, d, c)
  BY DEF Reach
<1>1. PICK path : Path(path, n, d, c)
  BY <1>0
<1> DEFINE longer == [k \in 0 .. n + 1 |-> IF k = 0 THEN b ELSE path[k - 1]]
<1>2. longer[0] = b /\ longer[n + 1] = c
  BY <1>1 DEF Path
<1>3. ASSUME NEW k \in 1 .. n + 1 PROVE longer[k] \in ToSet(longer[k - 1].inner)
  <2>1. CASE k = 1
    <3>1. longer[1] = d /\ longer[0] = b
      BY <1>1 DEF Path
    <3> QED
      BY <2>1, <3>1
  <2>2. CASE k # 1
    <3>1. longer[k] = path[k - 1] /\ longer[k - 1] = path[k - 1 - 1] /\ k - 1 \in 1 .. n
      BY <2>2
    <3> QED
      BY <1>1, <3>1 DEF Path
  <2> QED
    BY <2>1, <2>2
<1> HIDE DEF longer
<1>4. Path(longer, n + 1, b, c)
  BY <1>2, <1>3 DEF Path
<1> QED
  BY <1>4 DEF Reach

LEMMA ReachSplit ==
    ASSUME NEW b, NEW c, Reach(b, c)
    PROVE  c = b \/ \E d \in ToSet(b.inner) : Reach(d, c)
<1>0. PICK n \in Nat : \E path : Path(path, n, b, c)
  BY DEF Reach
<1>1. PICK path : Path(path, n, b, c)
  BY <1>0
<1>2. CASE n = 0
  BY <1>1, <1>2 DEF Path
<1>3. CASE n # 0
  <2> DEFINE rest == [k \in 0 .. n - 1 |-> path[k + 1]]
  <2>1. rest[0] = path[1] /\ rest[n - 1] = c
    BY <1>1, <1>3 DEF Path
  <2>2. ASSUME NEW k \in 1 .. n - 1 PROVE rest[k] \in ToSet(rest[k - 1].inner)
    <3>1. rest[k] = path[k + 1] /\ rest[k - 1] = path[k + 1 - 1] /\ k + 1 \in 1 .. n
      OBVIOUS
    <3> QED
      BY <1>1, <3>1 DEF Path
  <2>3. path[1] \in ToSet(b.inner)
    <3>1. 1 \in 1 .. n /\ 1 - 1 = 0
      BY <1>3
    <3> QED
      BY <1>1, <3>1 DEF Path
  <2> HIDE DEF rest
  <2>4. Path(rest, n - 1, path[1], c) /\ n - 1 \in Nat
    BY <1>3, <2>1, <2>2 DEF Path
  <2> QED
    BY <2>3, <2>4 DEF Reach
<1> QED
  BY <1>2, <1>3

(* What is in a batch, and in the batches inside it.                       *)
LEMMA InSplit ==
    \A i, b : In(i, b) <=> i \in ToSet(b.ops) \/ \E c \in ToSet(b.inner) : In(i, c)
  BY ReachSelf, ReachInner, ReachSplit DEF In

LEMMA TogetherSplit ==
    \A i, j, b : Together(i, j, b) <=> \/ i \in ToSet(b.ops) /\ In(j, b)
                                       \/ \E c \in ToSet(b.inner) : Together(i, j, c)
  BY ReachSelf, ReachInner, ReachSplit DEF Together

LEMMA TreeSplit ==
    \A b : Tree(b) <=> Node(b) /\ \A c \in ToSet(b.inner) : Tree(c)
  BY ReachSelf, ReachInner, ReachSplit DEF Tree

LEMMA TogetherIn ==
    ASSUME NEW i, NEW j, NEW b, Together(i, j, b) PROVE In(i, b)
  BY DEF Together, In

-----------------------------------------------------------------------------
(* What the walk does to the trees.                                        *)
Longer(q, s, e) ==
    /\ ToSet(q) = ToSet(s) \cup {e} /\ Len(q) = Len(s) + 1
    /\ q[Len(s) + 1] = e /\ \A k \in 1 .. Len(s) : q[k] = s[k]

LEMMA AppendSet ==
    ASSUME NEW S, NEW s \in Seq(S), NEW e
    PROVE  Append(s, e) \in Seq(S \cup {e}) /\ Longer(Append(s, e), s, e)
<1>1. s \in Seq(S \cup {e}) /\ Len(s) \in Nat /\ DOMAIN s = 1 .. Len(s)
  BY SeqMonotonic, LenProperties
<1>2. /\ Append(s, e) \in Seq(S \cup {e}) /\ Len(Append(s, e)) = Len(s) + 1
      /\ Append(s, e)[Len(s) + 1] = e /\ \A k \in 1 .. Len(s) : Append(s, e)[k] = s[k]
  BY <1>1, AppendProperties
<1>3. DOMAIN Append(s, e) = 1 .. Len(s) + 1
  BY <1>2, LenProperties
<1>4. ToSet(Append(s, e)) = ToSet(s) \cup {e}
  <2>1. \A k \in 1 .. Len(s) + 1 : k \in 1 .. Len(s) \/ k = Len(s) + 1
    BY <1>1
  <2>2. 1 .. Len(s) \subseteq 1 .. Len(s) + 1 /\ Len(s) + 1 \in 1 .. Len(s) + 1
    BY <1>1
  <2> QED
    BY <1>1, <1>2, <1>3, <2>1, <2>2 DEF ToSet
<1> QED
  BY <1>2, <1>4 DEF Longer

LEMMA EmptyIsSeq == IsSeq(<<>>) /\ ToSet(<<>>) = {}
  BY EmptySeq DEF IsSeq, ToSet

LEMMA AppendIsSeq ==
    ASSUME NEW s, IsSeq(s), NEW e
    PROVE  IsSeq(Append(s, e)) /\ Longer(Append(s, e), s, e)
<1>1. PICK S : S = ToSet(s)
  OBVIOUS
<1>2. s \in Seq(S)
  BY <1>1 DEF IsSeq
<1>3. Append(s, e) \in Seq(S \cup {e}) /\ Longer(Append(s, e), s, e)
  BY <1>2, AppendSet
<1>4. S \cup {e} = ToSet(Append(s, e))
  BY <1>1, <1>3 DEF Longer
<1> QED
  BY <1>3, <1>4 DEF IsSeq

(* An empty batch has nothing in it.                                       *)
LEMMA EmptyBatchTree ==
    ASSUME NEW l
    PROVE  /\ Tree(EmptyBatch(l)) /\ EmptyBatch(l).loop = l /\ \A i : ~In(i, EmptyBatch(l))
<1> DEFINE b == EmptyBatch(l)
<1>1. b = [ops |-> <<>>, inner |-> <<>>, loop |-> l, innerReq |-> 0]
  BY DEF EmptyBatch
<1> HIDE DEF b
<1>2. b.ops = <<>> /\ b.inner = <<>> /\ b.innerReq = 0 /\ b.loop = l
  BY <1>1
<1>3. ToSet(b.ops) = {} /\ ToSet(b.inner) = {}
  BY <1>2, EmptyIsSeq
<1>4. \A i : ~In(i, b)
  BY <1>3, InSplit
<1>5. Node(b)
  <2>1. b.ops \in Seq(Nat) /\ IsSeq(b.inner)
    BY <1>2, EmptySeq, EmptyIsSeq
  <2>2. DOMAIN b.ops = {} /\ DOMAIN b.inner = {}
    BY <1>2
  <2>3. b = [ops |-> b.ops, inner |-> b.inner, loop |-> b.loop, innerReq |-> b.innerReq]
    BY <1>1, <1>2
  <2> QED
    BY <1>2, <1>3, <2>1, <2>2, <2>3 DEF Node
<1>6. Tree(b)
  BY <1>3, <1>5, TreeSplit
<1> QED
  BY <1>2, <1>4, <1>6 DEF b

(* A DMA joins a batch.                                                    *)
LEMMA DmaAdded ==
    ASSUME NEW b, Tree(b), NEW i \in Nat, ~In(i, b), NEW a, a = AddDma(b, i)
    PROVE  /\ Tree(a) /\ a.loop = b.loop /\ i \in ToSet(a.ops) /\ ToSet(b.ops) \subseteq ToSet(a.ops)
           /\ \A j : In(j, a) <=> In(j, b) \/ j = i
           /\ \A x, y : Together(x, y, b) => Together(x, y, a)
<1>1. Node(b) /\ \A c \in ToSet(b.inner) : Tree(c)
  BY TreeSplit
<1>2. a = [ops |-> Append(b.ops, i), inner |-> b.inner, loop |-> b.loop, innerReq |-> b.innerReq]
  BY <1>1 DEF AddDma, Node
<1>3. a.ops = Append(b.ops, i) /\ a.inner = b.inner /\ a.loop = b.loop /\ a.innerReq = b.innerReq
  BY <1>2
<1>4. /\ ToSet(a.ops) = ToSet(b.ops) \cup {i} /\ a.ops \in Seq(Nat \cup {i})
      /\ Len(a.ops) = Len(b.ops) + 1 /\ a.ops[Len(b.ops) + 1] = i
      /\ \A k \in 1 .. Len(b.ops) : a.ops[k] = b.ops[k]
  <2>1. b.ops \in Seq(Nat)
    BY <1>1 DEF Node
  <2>2. Append(b.ops, i) \in Seq(Nat \cup {i}) /\ Longer(Append(b.ops, i), b.ops, i)
    BY <2>1, AppendSet
  <2> QED
    BY <1>3, <2>2 DEF Longer
<1>5. \A j : In(j, a) <=> In(j, b) \/ j = i
  BY <1>3, <1>4, InSplit
<1>6. \A x, y : Together(x, y, b) => Together(x, y, a)
  BY <1>3, <1>4, <1>5, TogetherSplit
<1>7. Node(a)
  <2>1. a = [ops |-> a.ops, inner |-> a.inner, loop |-> a.loop, innerReq |-> a.innerReq]
    BY <1>2, <1>3
  <2>2. Nat \cup {i} = Nat
    OBVIOUS
  <2>3. a.ops \in Seq(Nat)
    BY <1>4, <2>2
  <2>4. i \notin ToSet(b.ops) /\ \A c \in ToSet(b.inner) : ~In(i, c)
    BY InSplit
  <2>5. Len(b.ops) \in Nat /\ DOMAIN b.ops = 1 .. Len(b.ops) /\ DOMAIN a.ops = 1 .. Len(b.ops) + 1
    BY <1>1, <1>4, LenProperties DEF Node
  <2>6. \A k \in 1 .. Len(b.ops) : b.ops[k] # i
    BY <2>4, <2>5 DEF ToSet
  <2>7. \A k, l \in DOMAIN a.ops : a.ops[k] = a.ops[l] => k = l
    <3> SUFFICES ASSUME NEW k \in 1 .. Len(b.ops) + 1, NEW l \in 1 .. Len(b.ops) + 1,
                        a.ops[k] = a.ops[l]
                 PROVE  k = l
      BY <2>5
    <3>1. \A m \in 1 .. Len(b.ops) + 1 : m \in 1 .. Len(b.ops) \/ m = Len(b.ops) + 1
      BY <2>5
    <3> QED
      BY <1>1, <1>4, <2>5, <2>6, <3>1 DEF Node
  <2>8. \A k \in DOMAIN b.inner : b.inner[k] \in ToSet(b.inner)
    BY DEF ToSet
  <2>9. \A j \in ToSet(a.ops), k \in DOMAIN a.inner : ~In(j, a.inner[k])
    BY <1>1, <1>3, <1>4, <2>4, <2>8 DEF Node
  <2> QED
    BY <1>1, <1>3, <2>1, <2>3, <2>7, <2>9 DEF Node
<1>8. Tree(a)
  BY <1>1, <1>3, <1>7, TreeSplit
<1> QED
  BY <1>3, <1>4, <1>5, <1>6, <1>8

(* A batch is put inside another one.                                      *)
LEMMA BatchAdopted ==
    ASSUME NEW b, Tree(b), NEW c, Tree(c), AddedBy(c) \in Nat,
           \A i : ~(In(i, b) /\ In(i, c)), NEW a, a = AdoptBatch(b, c)
    PROVE  /\ Tree(a) /\ a.loop = b.loop /\ a.ops = b.ops
           /\ \A j : In(j, a) <=> In(j, b) \/ In(j, c)
           /\ \A x, y : Together(x, y, b) \/ Together(x, y, c) => Together(x, y, a)
<1>1. Node(b) /\ Node(c) /\ \A d \in ToSet(b.inner) : Tree(d)
  BY TreeSplit
<1>2. CASE IsEmpty(c)
  <2>1. ToSet(c.ops) = {} /\ ToSet(c.inner) = {}
    BY <1>2, EmptyIsSeq DEF IsEmpty
  <2>2. \A j : ~In(j, c)
    BY <2>1, InSplit
  <2>3. \A x, y : ~Together(x, y, c)
    BY <2>2, TogetherIn
  <2>4. a = b
    BY <1>2 DEF AdoptBatch
  <2> QED
    BY <2>2, <2>3, <2>4
<1>3. CASE ~IsEmpty(c)
  <2>1. a = [ops |-> b.ops, inner |-> Append(b.inner, c), loop |-> b.loop,
             innerReq |-> b.innerReq + AddedBy(c)]
    BY <1>1, <1>3 DEF AdoptBatch, Node
  <2>2. /\ a.ops = b.ops /\ a.inner = Append(b.inner, c) /\ a.loop = b.loop
        /\ a.innerReq = b.innerReq + AddedBy(c)
    BY <2>1
  <2>3. /\ ToSet(a.inner) = ToSet(b.inner) \cup {c} /\ IsSeq(a.inner)
        /\ Len(a.inner) = Len(b.inner) + 1 /\ a.inner[Len(b.inner) + 1] = c
        /\ \A k \in 1 .. Len(b.inner) : a.inner[k] = b.inner[k]
    BY <1>1, <2>2, AppendIsSeq DEF Node, Longer
  <2>4. \A j : In(j, a) <=> In(j, b) \/ In(j, c)
    BY <2>2, <2>3, InSplit, ZenonT(60)
  <2>5. \A x, y : Together(x, y, b) \/ Together(x, y, c) => Together(x, y, a)
    BY <2>2, <2>3, <2>4, TogetherSplit
  <2>6. Node(a)
    <3>1. a = [ops |-> a.ops, inner |-> a.inner, loop |-> a.loop, innerReq |-> a.innerReq]
      BY <2>1, <2>2
    <3>2. a.innerReq \in Nat
      BY <1>1, <2>2 DEF Node
    <3>3. /\ Len(b.inner) \in Nat /\ DOMAIN b.inner = 1 .. Len(b.inner)
          /\ DOMAIN a.inner = 1 .. Len(b.inner) + 1
      BY <1>1, <2>3, LenProperties DEF Node, IsSeq
    <3>4. \A m \in 1 .. Len(b.inner) + 1 : m \in 1 .. Len(b.inner) \/ m = Len(b.inner) + 1
      BY <3>3
    <3>5. \A k \in 1 .. Len(b.inner) : \A i : In(i, b.inner[k]) => In(i, b)
      <4>1. \A k \in 1 .. Len(b.inner) : b.inner[k] \in ToSet(b.inner)
        BY <3>3 DEF ToSet
      <4> QED
        BY <4>1, InSplit
    <3>6. \A i \in ToSet(a.ops), k \in DOMAIN a.inner : ~In(i, a.inner[k])
      <4> SUFFICES ASSUME NEW i \in ToSet(b.ops), NEW k \in 1 .. Len(b.inner) + 1, In(i, a.inner[k])
                   PROVE  FALSE
        BY <2>2, <3>3
      <4>1. In(i, b)
        BY InSplit
      <4>2. CASE k = Len(b.inner) + 1
        BY <2>3, <4>1, <4>2
      <4>3. CASE k \in 1 .. Len(b.inner)
        BY <1>1, <2>3, <3>3, <4>3 DEF Node
      <4> QED
        BY <3>4, <4>2, <4>3
    <3>7. ASSUME NEW i, NEW k \in DOMAIN a.inner, NEW l \in DOMAIN a.inner,
                 In(i, a.inner[k]), In(i, a.inner[l])
          PROVE  k = l
      <4>1. CASE k = Len(b.inner) + 1 /\ l \in 1 .. Len(b.inner)
        BY <2>3, <3>5, <3>7, <4>1
      <4>2. CASE l = Len(b.inner) + 1 /\ k \in 1 .. Len(b.inner)
        BY <2>3, <3>5, <3>7, <4>2
      <4>3. CASE k \in 1 .. Len(b.inner) /\ l \in 1 .. Len(b.inner)
        BY <1>1, <2>3, <3>3, <3>7, <4>3 DEF Node
      <4> QED
        BY <3>3, <3>4, <3>7, <4>1, <4>2, <4>3
    <3>8. /\ a.ops \in Seq(Nat)
          /\ \A k, l \in DOMAIN a.ops : a.ops[k] = a.ops[l] => k = l
      BY <1>1, <2>2 DEF Node
    <3>9. \A i : \A k, l \in DOMAIN a.inner : In(i, a.inner[k]) /\ In(i, a.inner[l]) => k = l
      BY <3>7
    <3>10. IsSeq(a.inner)
      BY <2>3
    <3> QED
      BY <3>1, <3>2, <3>6, <3>8, <3>9, <3>10 DEF Node
  <2>7. Tree(a)
    BY <1>1, <2>3, <2>6, TreeSplit
  <2> QED
    BY <2>2, <2>4, <2>5, <2>7
<1> QED
  BY <1>2, <1>3

(* The batches of a loop are put inside a batch one after the other.       *)
IsAdopting(f, b, batches) ==
    f = [n \in 0 .. Len(batches) |-> IF n = 0 THEN b ELSE AdoptBatch(f[n - 1], batches[n])]

LEMMA AdoptSteps ==
    ASSUME NEW b, Node(b), NEW batches, IsSeq(batches),
           \A k \in 1 .. Len(batches) : AddedBy(batches[k]) \in Nat
    PROVE  \E f : /\ f[0] = b /\ f[Len(batches)] = Adopt(b, batches)
                  /\ \A n \in 1 .. Len(batches) : f[n] = AdoptBatch(f[n - 1], batches[n])
<1> DEFINE N == Len(batches)
           B == ToSet(b.inner) \cup ToSet(batches)
           St == [ops : {b.ops}, inner : Seq(B), loop : {b.loop}, innerReq : Nat]
           H == [x \in (1 .. N) \X St |-> AdoptBatch(x[2], batches[x[1]])]
<1>1. N \in Nat /\ DOMAIN batches = 1 .. N
  BY LenProperties DEF IsSeq
<1>2. b \in St
  <2>1. b.inner \in Seq(B)
    BY SeqMonotonic DEF Node, IsSeq
  <2>2. b.innerReq \in Nat
    BY DEF Node
  <2> HIDE DEF B
  <2>3. [ops |-> b.ops, inner |-> b.inner, loop |-> b.loop, innerReq |-> b.innerReq] \in St
    BY <2>1, <2>2
  <2> QED
    BY <2>3 DEF Node
<1>3. ASSUME NEW c \in St, NEW n \in 1 .. N PROVE AdoptBatch(c, batches[n]) \in St
  <2>1. PICK d : d = batches[n]
    OBVIOUS
  <2>2. d \in B /\ AddedBy(d) \in Nat
    BY <1>1, <2>1 DEF ToSet
  <2> HIDE DEF B
  <2>3. Append(c.inner, d) \in Seq(B)
    BY <2>2, AppendProperties
  <2>4. c.innerReq + AddedBy(d) \in Nat
    BY <2>2
  <2>5. [c EXCEPT !.inner = Append(@, d), !.innerReq = @ + AddedBy(d)] \in St
    BY <2>3, <2>4
  <2> QED
    BY <2>1, <2>5 DEF AdoptBatch
<1>4. H \in [(1 .. N) \X St -> St]
  <2> HIDE DEF N, St
  <2> QED
    BY <1>3
<1>5. PICK f \in [0 .. N -> St] : Steps(f, b, H, N)
  <2> HIDE DEF N, St, H
  <2> QED
    BY <1>1, <1>2, <1>4, StepsExist
<1>6. IsAdopting(f, b, batches)
  <2>1. ASSUME NEW n \in 1 .. N PROVE f[n] = AdoptBatch(f[n - 1], batches[n])
    <3>1. n - 1 \in 0 .. N
      OBVIOUS
    <3> HIDE DEF St, N
    <3>2. f[n - 1] \in St
      BY <1>5, <3>1
    <3> QED
      BY <1>5, <3>2 DEF Steps
  <2>2. f[0] = b
    BY <1>5 DEF Steps
  <2> HIDE DEF St
  <2>3. f = [n \in 0 .. N |-> f[n]]
    BY <1>5
  <2>4. \A n \in 0 .. N : f[n] = IF n = 0 THEN b ELSE AdoptBatch(f[n - 1], batches[n])
    BY <2>1, <2>2
  <2> QED
    BY <2>3, <2>4 DEF IsAdopting
<1>7. PICK g : IsAdopting(g, b, batches) /\ Adopt(b, batches) = g[N]
  <2> DEFINE c == CHOOSE h : IsAdopting(h, b, batches)
  <2>1. IsAdopting(c, b, batches)
    BY <1>6
  <2>2. Adopt(b, batches) = c[N]
    BY DEF Adopt, IsAdopting
  <2> QED
    BY <2>1, <2>2
<1> HIDE DEF B, St, H
<1>8. \A n \in 0 .. N : g[n] = IF n = 0 THEN b ELSE AdoptBatch(g[n - 1], batches[n])
  BY <1>7 DEF IsAdopting
<1>9. 0 \in 0 .. N /\ \A n \in 1 .. N : n \in 0 .. N /\ n # 0
  BY <1>1
<1>10. g[0] = b /\ \A n \in 1 .. N : g[n] = AdoptBatch(g[n - 1], batches[n])
  BY <1>8, <1>9
<1> QED
  BY <1>7, <1>10

(* What is in a batch after n batches were put inside.                     *)
AdoptedUpTo(a, b, batches, n) ==
    /\ Tree(a) /\ a.loop = b.loop /\ a.ops = b.ops
    /\ \A j : In(j, a) <=> In(j, b) \/ \E k \in 1 .. n : In(j, batches[k])
    /\ \A x, y : Together(x, y, b) \/ (\E k \in 1 .. n : Together(x, y, batches[k]))
                 => Together(x, y, a)

LEMMA Adopted ==
    ASSUME NEW b, Tree(b), NEW batches, IsSeq(batches),
           \A k \in 1 .. Len(batches) : Tree(batches[k]) /\ AddedBy(batches[k]) \in Nat,
           \A i : \A k \in 1 .. Len(batches) : ~(In(i, b) /\ In(i, batches[k])),
           \A i : \A k, l \in 1 .. Len(batches) :
               In(i, batches[k]) /\ In(i, batches[l]) => k = l
    PROVE  AdoptedUpTo(Adopt(b, batches), b, batches, Len(batches))
<1>1. PICK N : N = Len(batches)
  OBVIOUS
<1>2. N \in Nat
  BY <1>1, LenProperties DEF IsSeq
<1>3. Node(b)
  BY TreeSplit
<1>4. PICK f : /\ f[0] = b /\ f[N] = Adopt(b, batches)
               /\ \A n \in 1 .. N : f[n] = AdoptBatch(f[n - 1], batches[n])
  <2>1. \E f : /\ f[0] = b /\ f[Len(batches)] = Adopt(b, batches)
               /\ \A n \in 1 .. Len(batches) : f[n] = AdoptBatch(f[n - 1], batches[n])
    BY <1>3, AdoptSteps, SMTT(60)
  <2> QED
    BY <1>1, <2>1
<1> DEFINE T == {n \in 0 .. N : AdoptedUpTo(f[n], b, batches, n)}
<1>5. 0 \in T
  <2>1. AdoptedUpTo(f[0], b, batches, 0)
    BY <1>4 DEF AdoptedUpTo
  <2> QED
    BY <1>2, <2>1
<1>6. ASSUME NEW n \in 1 .. N, n - 1 \in T PROVE n \in T
  <2>1. PICK p, c, q : p = f[n - 1] /\ c = batches[n] /\ q = f[n]
    OBVIOUS
  <2>2. n \in 0 .. N /\ q = AdoptBatch(p, c)
    BY <1>2, <1>4, <2>1
  <2>3. AdoptedUpTo(p, b, batches, n - 1)
    BY <1>6, <2>1
  <2>4. Tree(p) /\ Tree(c) /\ AddedBy(c) \in Nat
    BY <1>1, <2>1, <2>3 DEF AdoptedUpTo
  <2>5. \A k \in 1 .. n - 1 : k \in 1 .. Len(batches) /\ n \in 1 .. Len(batches) /\ k # n
    BY <1>1, <1>2
  <2>6. n \in 1 .. Len(batches)
    BY <1>1
  <2>7. \A i : ~(In(i, p) /\ In(i, c))
    BY <2>1, <2>3, <2>5, <2>6 DEF AdoptedUpTo
  <2>8. /\ Tree(q) /\ q.loop = p.loop /\ q.ops = p.ops
        /\ \A j : In(j, q) <=> In(j, p) \/ In(j, c)
        /\ \A x, y : Together(x, y, p) \/ Together(x, y, c) => Together(x, y, q)
    BY <2>2, <2>4, <2>7, BatchAdopted
  <2>9. \A k \in 1 .. n : k \in 1 .. n - 1 \/ k = n
    BY <1>2
  <2>10. n \in 1 .. n /\ \A k \in 1 .. n - 1 : k \in 1 .. n
    BY <1>2
  <2>11. \A j : In(j, q) <=> In(j, b) \/ \E k \in 1 .. n : In(j, batches[k])
    BY <2>1, <2>3, <2>8, <2>9, <2>10 DEF AdoptedUpTo
  <2>12. \A x, y : Together(x, y, b) \/ (\E k \in 1 .. n : Together(x, y, batches[k]))
                   => Together(x, y, q)
    BY <2>1, <2>3, <2>8, <2>9, <2>10 DEF AdoptedUpTo
  <2>13. AdoptedUpTo(q, b, batches, n)
    BY <2>3, <2>8, <2>11, <2>12 DEF AdoptedUpTo
  <2> QED
    BY <2>1, <2>2, <2>13
<1>7. N \in T
  <2> HIDE DEF T
  <2>1. 0 .. N \subseteq T
    BY <1>2, <1>5, <1>6, UpToN
  <2> QED
    BY <1>2, <2>1
<1> QED
  BY <1>1, <1>4, <1>7

-----------------------------------------------------------------------------
(* Ids taken from a generator in a row.                                    *)
BdIds == 0 .. NumBdIds - 1

LEMMA PickedIsFree ==
    ASSUME NEW t, NEW S, NEW last, NEW id \in Gen(t)!Pick(0, "Incremental", S, last)
    PROVE  id \in BdIds \ S
  BY DEF Gen!Pick, Gen!First, Gen!Available, BdIds

\* The ids are new ones, each taken once.
Taken(g, S, n) ==
    /\ g.ids \in Seq(BdIds) /\ Len(g.ids) <= n
    /\ \A k, l \in DOMAIN g.ids : g.ids[k] = g.ids[l] => k = l
    /\ \A k \in DOMAIN g.ids : g.ids[k] \notin S
    /\ g.assigned = S \cup ToSet(g.ids)

LEMMA OneTaken ==
    ASSUME NEW t, NEW g, NEW S, NEW n \in Nat, Taken(g, S, n), NEW h, h = TakeId(t, g)
    PROVE  Taken(h, S, n + 1)
<1>1. PICK next, id : /\ next = Gen(t)!Pick(0, "Incremental", g.assigned, g.last)
                      /\ id = CHOOSE i \in next : TRUE
  OBVIOUS
<1>2. h = IF next = {} THEN g
          ELSE [ids |-> Append(g.ids, id), assigned |-> g.assigned \cup {id}, last |-> id]
  BY <1>1 DEF TakeId
<1>3. Len(g.ids) \in Nat /\ DOMAIN g.ids = 1 .. Len(g.ids) /\ g.ids \in Seq(BdIds)
  BY LenProperties DEF Taken
<1>4. CASE next = {}
  BY <1>2, <1>3, <1>4 DEF Taken
<1>5. CASE next # {}
  <2>1. id \in next
    BY <1>1, <1>5
  <2>2. id \in BdIds \ g.assigned
    BY <1>1, <2>1, PickedIsFree
  <2>3. h.ids = Append(g.ids, id) /\ h.assigned = g.assigned \cup {id}
    BY <1>2, <1>5
  <2>4. Append(g.ids, id) \in Seq(BdIds \cup {id}) /\ Longer(Append(g.ids, id), g.ids, id)
    BY <1>3, AppendSet
  <2>5. BdIds \cup {id} = BdIds
    BY <2>2
  <2>6. /\ h.ids \in Seq(BdIds) /\ Len(h.ids) = Len(g.ids) + 1 /\ h.ids[Len(g.ids) + 1] = id
        /\ \A k \in 1 .. Len(g.ids) : h.ids[k] = g.ids[k]
        /\ ToSet(h.ids) = ToSet(g.ids) \cup {id}
    BY <2>3, <2>4, <2>5 DEF Longer
  <2>7. DOMAIN h.ids = 1 .. Len(g.ids) + 1
    BY <2>6, LenProperties
  <2>8. \A k \in 1 .. Len(g.ids) + 1 : k \in 1 .. Len(g.ids) \/ k = Len(g.ids) + 1
    BY <1>3
  <2>9. id \notin S /\ \A k \in 1 .. Len(g.ids) : g.ids[k] # id
    BY <1>3, <2>2 DEF Taken, ToSet
  <2>10. \A k, l \in DOMAIN h.ids : h.ids[k] = h.ids[l] => k = l
    <3> SUFFICES ASSUME NEW k \in 1 .. Len(g.ids) + 1, NEW l \in 1 .. Len(g.ids) + 1,
                        h.ids[k] = h.ids[l]
                 PROVE  k = l
      BY <2>7
    <3>1. \A i, j \in 1 .. Len(g.ids) : g.ids[i] = g.ids[j] => i = j
      BY <1>3 DEF Taken
    <3>2. CASE k \in 1 .. Len(g.ids) /\ l \in 1 .. Len(g.ids)
      BY <2>6, <3>1, <3>2
    <3>3. CASE k \in 1 .. Len(g.ids) /\ l = Len(g.ids) + 1
      BY <2>6, <2>9, <3>3
    <3>4. CASE l \in 1 .. Len(g.ids) /\ k = Len(g.ids) + 1
      BY <2>6, <2>9, <3>4
    <3> QED
      BY <2>8, <3>2, <3>3, <3>4
  <2>11. \A k \in DOMAIN h.ids : h.ids[k] \notin S
    BY <1>3, <2>6, <2>7, <2>8, <2>9 DEF Taken
  <2>12. h.assigned = S \cup ToSet(h.ids)
    BY <2>3, <2>6 DEF Taken
  <2>13. Len(h.ids) <= n + 1
    BY <1>3, <2>6 DEF Taken
  <2> QED
    BY <2>6, <2>10, <2>11, <2>12, <2>13 DEF Taken
<1> QED
  BY <1>4, <1>5

IsTaking(f, t, n) ==
    f = [k \in 0 .. n |->
          IF k = 0 THEN [ids |-> <<>>, assigned |-> assigned[t], last |-> lastUsed[t]]
          ELSE TakeId(t, f[k - 1])]

LEMMA TakeSteps ==
    ASSUME NEW t, assigned[t] \subseteq BdIds, NEW N \in Nat
    PROVE  \E f : /\ f[0] = [ids |-> <<>>, assigned |-> assigned[t], last |-> lastUsed[t]]
                  /\ f[N] = TakeIds(t, N) /\ \A n \in 1 .. N : f[n] = TakeId(t, f[n - 1])
<1> DEFINE St == [ids : Seq(BdIds), assigned : SUBSET BdIds, last : BdIds \cup {lastUsed[t]}]
           b == [ids |-> <<>>, assigned |-> assigned[t], last |-> lastUsed[t]]
           H == [x \in (1 .. N) \X St |-> TakeId(t, x[2])]
<1>1. b \in St
  BY EmptySeq
<1>2. ASSUME NEW g \in St PROVE TakeId(t, g) \in St
  <2>1. PICK next, id : /\ next = Gen(t)!Pick(0, "Incremental", g.assigned, g.last)
                        /\ id = CHOOSE i \in next : TRUE
    OBVIOUS
  <2>2. CASE next = {}
    BY <2>1, <2>2 DEF TakeId
  <2>3. CASE next # {}
    <3>1. id \in next
      BY <2>1, <2>3
    <3>2. id \in BdIds
      BY <2>1, <3>1, PickedIsFree
    <3>3. Append(g.ids, id) \in Seq(BdIds)
      BY <3>2, AppendProperties
    <3>4. [ids |-> Append(g.ids, id), assigned |-> g.assigned \cup {id}, last |-> id] \in St
      BY <3>2, <3>3
    <3> HIDE DEF St
    <3> QED
      BY <2>1, <2>3, <3>4 DEF TakeId
  <2> QED
    BY <2>2, <2>3
<1> HIDE DEF St
<1>3. H \in [(1 .. N) \X St -> St]
  BY <1>2
<1> HIDE DEF b
<1>4. PICK f \in [0 .. N -> St] : Steps(f, b, H, N)
  <2> HIDE DEF H
  <2> QED
    BY <1>1, <1>3, StepsExist
<1>5. IsTaking(f, t, N)
  <2>1. ASSUME NEW n \in 1 .. N PROVE f[n] = TakeId(t, f[n - 1])
    <3>1. n - 1 \in 0 .. N
      OBVIOUS
    <3>2. f[n - 1] \in St
      BY <1>4, <3>1
    <3> QED
      BY <1>4, <3>2 DEF Steps
  <2>2. f[0] = b
    BY <1>4 DEF Steps
  <2>3. f = [n \in 0 .. N |-> f[n]]
    BY <1>4
  <2>4. \A n \in 0 .. N : f[n] = IF n = 0 THEN b ELSE TakeId(t, f[n - 1])
    BY <2>1, <2>2
  <2> QED
    BY <2>3, <2>4 DEF IsTaking, b
<1>6. PICK g : IsTaking(g, t, N) /\ TakeIds(t, N) = g[N]
  <2> DEFINE c == CHOOSE h : IsTaking(h, t, N)
  <2>1. IsTaking(c, t, N)
    BY <1>5
  <2>2. TakeIds(t, N) = c[N]
    BY DEF TakeIds, IsTaking
  <2> QED
    BY <2>1, <2>2
<1>7. \A n \in 0 .. N : g[n] = IF n = 0 THEN b ELSE TakeId(t, g[n - 1])
  BY <1>6 DEF IsTaking, b
<1>8. 0 \in 0 .. N /\ \A n \in 1 .. N : n \in 0 .. N /\ n # 0
  OBVIOUS
<1>9. g[0] = b /\ \A n \in 1 .. N : g[n] = TakeId(t, g[n - 1])
  BY <1>7, <1>8
<1> QED
  BY <1>6, <1>9 DEF b

LEMMA IdsTaken ==
    ASSUME NEW t, assigned[t] \subseteq BdIds, NEW N \in Nat
    PROVE  Taken(TakeIds(t, N), assigned[t], N)
<1>1. PICK f : /\ f[0] = [ids |-> <<>>, assigned |-> assigned[t], last |-> lastUsed[t]]
               /\ f[N] = TakeIds(t, N) /\ \A n \in 1 .. N : f[n] = TakeId(t, f[n - 1])
  BY TakeSteps
<1> DEFINE T == {n \in 0 .. N : Taken(f[n], assigned[t], n)}
<1>2. 0 \in T
  <2>1. f[0].ids = <<>> /\ f[0].assigned = assigned[t]
    BY <1>1
  <2>2. Taken(f[0], assigned[t], 0)
    BY <2>1, EmptySeq, EmptyIsSeq DEF Taken
  <2> QED
    BY <2>2
<1>3. ASSUME NEW n \in 1 .. N, n - 1 \in T PROVE n \in T
  <2>1. PICK g, h : g = f[n - 1] /\ h = f[n]
    OBVIOUS
  <2>2. Taken(g, assigned[t], n - 1) /\ h = TakeId(t, g) /\ n - 1 \in Nat /\ n - 1 + 1 = n
    BY <1>1, <1>3, <2>1
  <2>3. Taken(h, assigned[t], n - 1 + 1)
    BY <2>2, OneTaken
  <2>4. n \in 0 .. N /\ Taken(f[n], assigned[t], n)
    BY <2>1, <2>2, <2>3
  <2> QED
    BY <2>4
<1>4. N \in T
  <2> HIDE DEF T
  <2>1. 0 .. N \subseteq T
    BY <1>2, <1>3, UpToN
  <2> QED
    BY <2>1
<1> QED
  BY <1>1, <1>4


-----------------------------------------------------------------------------
(* Sequences of any kind, changed at the end and at the front.             *)
LEMMA SeqIsSeq ==
    ASSUME NEW S, NEW s \in Seq(S)
    PROVE  IsSeq(s)
<1>1. Len(s) \in Nat /\ DOMAIN s = 1 .. Len(s) /\ s \in [1 .. Len(s) -> S]
  BY LenProperties
<1>2. s \in [1 .. Len(s) -> ToSet(s)]
  BY <1>1 DEF ToSet
<1>3. \A k \in 1 .. Len(s) : s[k] \in ToSet(s)
  BY <1>1 DEF ToSet
<1>4. SubSeq(s, 1, Len(s)) \in Seq(ToSet(s))
  BY <1>1, <1>3, SubSeqProperties
<1>5. SubSeq(s, 1, Len(s)) = s
  BY SubSeqFull
<1> QED
  BY <1>4, <1>5 DEF IsSeq

LEMMA LenIs ==
    ASSUME NEW s, IsSeq(s)
    PROVE  Len(s) \in Nat /\ DOMAIN s = 1 .. Len(s) /\ (s # <<>> => Len(s) \in Nat \ {0})
  BY LenProperties, EmptySeq DEF IsSeq

\* The last entry is e, the others are those of s.
Replaced(q, s, e) ==
    /\ Len(q) = Len(s) /\ DOMAIN q = 1 .. Len(s) /\ q # <<>> /\ q[Len(s)] = e
    /\ \A k \in 1 .. Len(s) : k # Len(s) => q[k] = s[k]

LEMMA SetLastIs ==
    ASSUME NEW s, IsSeq(s), s # <<>>, NEW e
    PROVE  IsSeq(SetLast(s, e)) /\ Replaced(SetLast(s, e), s, e)
<1>1. Len(s) \in Nat \ {0} /\ DOMAIN s = 1 .. Len(s)
  BY LenIs
<1>2. PICK S : S = ToSet(s) \cup {e}
  OBVIOUS
<1>3. s \in Seq(S) /\ e \in S /\ Len(s) \in 1 .. Len(s)
  BY <1>1, <1>2, SeqMonotonic DEF IsSeq
<1>4. /\ SetLast(s, e) \in Seq(S) /\ Len(SetLast(s, e)) = Len(s)
      /\ \A j \in 1 .. Len(s) : SetLast(s, e)[j] = IF j = Len(s) THEN e ELSE s[j]
  BY <1>3, ExceptSeq DEF SetLast
<1>5. SetLast(s, e) # <<>> /\ DOMAIN SetLast(s, e) = 1 .. Len(s)
  BY <1>1, <1>4, EmptySeq, LenProperties
<1>6. IsSeq(SetLast(s, e))
  BY <1>4, SeqIsSeq
<1> QED
  BY <1>3, <1>4, <1>5, <1>6 DEF Replaced

LEMMA FrontIs ==
    ASSUME NEW s, IsSeq(s), s # <<>>
    PROVE  /\ IsSeq(Front(s)) /\ Len(Front(s)) = Len(s) - 1
           /\ \A k \in 1 .. Len(s) - 1 : Front(s)[k] = s[k]
<1>1. Len(s) \in Nat \ {0} /\ DOMAIN s = 1 .. Len(s)
  BY LenIs
<1>2. \A k \in 1 .. Len(s) - 1 : s[k] \in ToSet(s)
  BY <1>1 DEF ToSet
<1>3. 1 \in Int /\ Len(s) - 1 \in Int
  BY <1>1
<1>4. /\ SubSeq(s, 1, Len(s) - 1) \in Seq(ToSet(s))
      /\ Len(SubSeq(s, 1, Len(s) - 1)) = IF 1 <= Len(s) - 1 THEN Len(s) - 1 - 1 + 1 ELSE 0
      /\ \A k \in 1 .. Len(s) - 1 - 1 + 1 : SubSeq(s, 1, Len(s) - 1)[k] = s[1 + k - 1]
  BY <1>2, <1>3, SubSeqProperties
<1>5. \A k \in 1 .. Len(s) - 1 : k \in 1 .. Len(s) - 1 - 1 + 1 /\ 1 + k - 1 = k
  BY <1>1
<1>6. Len(Front(s)) = Len(s) - 1
  BY <1>1, <1>4 DEF Front
<1> QED
  BY <1>4, <1>5, <1>6, SeqIsSeq DEF Front

LEMMA ConcatIs ==
    ASSUME NEW s, IsSeq(s), NEW q, IsSeq(q)
    PROVE  /\ IsSeq(s \o q) /\ Len(s \o q) = Len(s) + Len(q)
           /\ \A k \in 1 .. Len(s) : (s \o q)[k] = s[k]
           /\ \A k \in 1 .. Len(q) : (s \o q)[Len(s) + k] = q[k]
<1>1. PICK S : S = ToSet(s) \cup ToSet(q)
  OBVIOUS
<1>2. s \in Seq(S) /\ q \in Seq(S) /\ Len(s) \in Nat /\ Len(q) \in Nat
  BY <1>1, SeqMonotonic, LenIs DEF IsSeq
<1>3. /\ s \o q \in Seq(S) /\ Len(s \o q) = Len(s) + Len(q)
      /\ \A i \in 1 .. Len(s) + Len(q) :
            (s \o q)[i] = IF i <= Len(s) THEN s[i] ELSE q[i - Len(s)]
  BY <1>2, ConcatProperties
<1>4. \A k \in 1 .. Len(s) : k \in 1 .. Len(s) + Len(q) /\ k <= Len(s)
  BY <1>2
<1>5. \A k \in 1 .. Len(q) : /\ Len(s) + k \in 1 .. Len(s) + Len(q) /\ ~(Len(s) + k <= Len(s))
                             /\ Len(s) + k - Len(s) = k
  BY <1>2
<1>6. \A k \in 1 .. Len(q) : (s \o q)[Len(s) + k] = q[k]
  BY <1>3, <1>5
<1> QED
  BY <1>3, <1>4, <1>6, SeqIsSeq

LEMMA TailIs ==
    ASSUME NEW s, IsSeq(s), s # <<>>
    PROVE  /\ IsSeq(Tail(s)) /\ Len(Tail(s)) = Len(s) - 1 /\ Head(s) = s[1]
           /\ \A k \in 1 .. Len(s) - 1 : Tail(s)[k] = s[k + 1]
<1>1. Len(s) \in Nat \ {0} /\ s \in Seq(ToSet(s))
  BY LenIs DEF IsSeq
<1>2. /\ Tail(s) \in Seq(ToSet(s)) /\ Len(Tail(s)) = Len(s) - 1
      /\ \A i \in 1 .. Len(Tail(s)) : Tail(s)[i] = s[i + 1]
  BY <1>1, HeadTailProperties
<1>3. Head(s) = s[1]
  <2>1. 1 \in 1 .. Len(s) /\ Len(s) \in 1 .. Len(s)
    BY <1>1
  <2>2. Head(SubSeq(s, 1, Len(s))) = s[1]
    BY <1>1, <2>1, HeadTailOfSubSeq
  <2> QED
    BY <1>1, <2>2, SubSeqFull
<1> QED
  BY <1>2, <1>3, SeqIsSeq

-----------------------------------------------------------------------------
(* The batches that are not inside another one while the code is walked.   *)
Root(k, t, m) == frames[k].graph[t][m]

FrameOK(f) ==
    /\ f = [loop |-> f.loop, graph |-> f.graph, curr |-> f.curr, open |-> f.open]
    /\ f.loop \in Nat /\ f.graph = [t \in Tile |-> f.graph[t]]
    /\ \A t \in Tile : IsSeq(f.graph[t]) /\ f.graph[t] # <<>>

WalkTypes ==
    /\ IsSeq(frames) /\ frames # <<>> /\ \A k \in DOMAIN frames : FrameOK(frames[k])
    /\ dmas \in Seq([tile : Tile, loop : Nat, begin : Nat, end : Int])
    /\ loops \in Seq(Loops) /\ clock \in Nat

DmasPast == \A i \in DOMAIN dmas : dmas[i].begin < clock /\ dmas[i].end < clock

RootsAreTrees ==
    \A k \in DOMAIN frames : \A t \in Tile : \A m \in DOMAIN frames[k].graph[t] :
        /\ Tree(Root(k, t, m)) /\ Root(k, t, m).loop \in {NoLoop} \cup DOMAIN loops
        /\ \A i : In(i, Root(k, t, m)) => i \in DOMAIN dmas /\ dmas[i].tile = t

\* A DMA is in one of them only.
InOneRoot ==
    \A k, l \in DOMAIN frames : \A t \in Tile :
        \A m \in DOMAIN frames[k].graph[t], n \in DOMAIN frames[l].graph[t] : \A i :
            In(i, Root(k, t, m)) /\ In(i, Root(l, t, n)) => k = l /\ m = n

\* Outstanding together: together in one of them.
PairsTogether ==
    \A t \in Tile : \A i, j \in DOMAIN dmas :
        Inside(j, i) /\ dmas[i].tile = t /\ dmas[j].tile = t =>
            \E k \in DOMAIN frames : \E m \in DOMAIN frames[k].graph[t] :
                Together(i, j, Root(k, t, m))

\* DMA i waits in frame k: the later ones of its tile are in its batch, or in
\* a loop that was entered since, whose batches that batch will adopt.
AwaitedIn(i, k, m) ==
    /\ i \in ToSet(Root(k, dmas[i].tile, m).ops)
    /\ frames[k].curr # NoDma => m = Len(frames[k].graph[dmas[i].tile])
    /\ \A j \in DOMAIN dmas : dmas[j].tile = dmas[i].tile /\ dmas[i].begin < dmas[j].begin =>
          \/ In(j, Root(k, dmas[i].tile, m))
          \/ \E l \in DOMAIN frames : k < l /\ \E n \in DOMAIN frames[l].graph[dmas[i].tile] :
                In(j, Root(l, dmas[i].tile, n))
OpenDmas ==
    \A k \in DOMAIN frames : \A i \in frames[k].open :
        i \in DOMAIN dmas /\ \E m \in DOMAIN frames[k].graph[dmas[i].tile] : AwaitedIn(i, k, m)

\* A loop is entered only from a group that ends with the last batch.
Nested == \A k \in DOMAIN frames : k < Len(frames) => frames[k].curr # NoDma \/ frames[k].open = {}

WalkInv == WalkTypes /\ DmasPast /\ RootsAreTrees /\ InOneRoot /\ PairsTogether /\ OpenDmas /\ Nested

-----------------------------------------------------------------------------
(* The DMAs that a pending step is about.                                  *)
Covers(i, s) == IF s.step = "assign" THEN In(i, s.batch) ELSE i \in ToSet(s.batch.ops)

StepOK(s) ==
    /\ s = [step |-> s.step, tile |-> s.tile, batch |-> s.batch]
    /\ s.step \in {"assign", "release"} /\ s.tile \in Tile
    /\ s.step = "assign" => Tree(s.batch)
    /\ s.step = "release" => s.batch.ops \in Seq(Nat)

\* What is known of the ids of a DMA: how many, and where they start.
RangeOK(r) ==
    r.ids \in Seq(BdIds) /\ r.offset \in Nat /\ r.size \in Nat /\ Len(r.ids) = r.size

AssignTypes ==
    /\ dmas \in Seq([tile : Tile, loop : Nat, begin : Nat, end : Int])
    /\ IsSeq(work) /\ \A p \in DOMAIN work : StepOK(work[p])
    /\ assigned \in [Tile -> SUBSET BdIds] /\ lastUsed = [t \in Tile |-> lastUsed[t]]
    /\ bdIdOps = [i \in DOMAIN dmas |-> bdIdOps[i]]
    /\ \A i \in DOMAIN dmas : RangeOK(bdIdOps[i])

\* A DMA is in one pending step only.
InOneStep ==
    /\ \A p, q \in DOMAIN work : \A i : Covers(i, work[p]) /\ Covers(i, work[q]) => p = q
    /\ \A p \in DOMAIN work : \A i :
          Covers(i, work[p]) => i \in DOMAIN dmas /\ dmas[i].tile = work[p].tile

Held(i, t) == \E p \in DOMAIN work : /\ work[p].step = "release" /\ work[p].tile = t
                                     /\ i \in ToSet(work[p].batch.ops)
Pending(i) == \E p \in DOMAIN work : work[p].step = "assign" /\ In(i, work[p].batch)

\* The ids taken on a tile are those of the DMAs to be released, each of one.
IdsAreHeld ==
    \A t \in Tile :
        /\ \A i : Held(i, t) => BdIdsOf(i) \subseteq assigned[t]
        /\ \A id \in assigned[t] : \E i : Held(i, t) /\ id \in BdIdsOf(i)
        /\ \A i, j : Held(i, t) /\ Held(j, t) /\ i # j => BdIdsOf(i) \cap BdIdsOf(j) = {}

\* Outstanding together: the ids are different already, or the ids of the
\* later are chosen while the earlier has its own.
PairOK(i, j) ==
    \/ BdIdsOf(i) \cap BdIdsOf(j) = {} /\ ~Pending(i) /\ ~Pending(j)
    \/ \E p \in DOMAIN work : work[p].step = "assign" /\ Together(i, j, work[p].batch)
    \/ \E p, q \in DOMAIN work :
          /\ p < q /\ work[p].step = "assign" /\ In(j, work[p].batch)
          /\ work[q].step = "release" /\ i \in ToSet(work[q].batch.ops)
PairsApart ==
    \A i, j \in DOMAIN dmas : Inside(j, i) /\ dmas[i].tile = dmas[j].tile => PairOK(i, j)

AssignInv == AssignTypes /\ InOneStep /\ IdsAreHeld /\ PairsApart

BatchInv ==
    /\ phase \in {"walk", "assign", "done", "failed"}
    /\ phase = "walk" => /\ WalkInv /\ work = <<>> /\ assigned = [t \in Tile |-> {}]
                         /\ lastUsed = [t \in Tile |-> NumBdIds + 1]
    /\ phase \in {"assign", "done"} => AssignInv
    /\ phase = "done" => work = <<>>

-----------------------------------------------------------------------------
(* Every step of the walk keeps WalkInv.  First the shape of the frames.    *)
LEMMA FramesAre ==
    ASSUME WalkInv
    PROVE  /\ Len(frames) \in Nat \ {0} /\ DOMAIN frames = 1 .. Len(frames)
           /\ Len(frames) \in DOMAIN frames /\ Top = frames[Len(frames)]
           /\ \A k \in DOMAIN frames : FrameOK(frames[k])
           /\ \A k \in DOMAIN frames : \A t \in Tile :
                 /\ IsSeq(frames[k].graph[t]) /\ frames[k].graph[t] # <<>>
                 /\ Len(frames[k].graph[t]) \in Nat \ {0}
                 /\ DOMAIN frames[k].graph[t] = 1 .. Len(frames[k].graph[t])
                 /\ Len(frames[k].graph[t]) \in DOMAIN frames[k].graph[t]
<1>1. IsSeq(frames) /\ frames # <<>> /\ \A k \in DOMAIN frames : FrameOK(frames[k])
  BY DEF WalkInv, WalkTypes
<1>2. Len(frames) \in Nat \ {0} /\ DOMAIN frames = 1 .. Len(frames)
  BY <1>1, LenIs
<1>3. ASSUME NEW k \in DOMAIN frames, NEW t \in Tile
      PROVE  /\ IsSeq(frames[k].graph[t]) /\ frames[k].graph[t] # <<>>
             /\ Len(frames[k].graph[t]) \in Nat \ {0}
             /\ DOMAIN frames[k].graph[t] = 1 .. Len(frames[k].graph[t])
             /\ Len(frames[k].graph[t]) \in DOMAIN frames[k].graph[t]
  <2>1. PICK s : s = frames[k].graph[t]
    OBVIOUS
  <2>2. IsSeq(s) /\ s # <<>>
    BY <1>1, <2>1 DEF FrameOK
  <2>3. Len(s) \in Nat \ {0} /\ DOMAIN s = 1 .. Len(s)
    BY <2>2, LenIs
  <2>4. Len(s) \in DOMAIN s
    BY <2>3
  <2> QED
    BY <2>1, <2>2, <2>3, <2>4
<1>4. Len(frames) \in DOMAIN frames
  BY <1>2
<1> QED
  BY <1>1, <1>2, <1>3, <1>4 DEF Top, Last

LEMMA DmasAre ==
    ASSUME dmas \in Seq([tile : Tile, loop : Nat, begin : Nat, end : Int])
    PROVE  /\ Len(dmas) \in Nat /\ DOMAIN dmas = 1 .. Len(dmas)
           /\ \A i \in DOMAIN dmas : /\ dmas[i] \in [tile : Tile, loop : Nat, begin : Nat, end : Int]
                                     /\ dmas[i].tile \in Tile /\ dmas[i].begin \in Nat
                                     /\ dmas[i].end \in Int
<1>1. Len(dmas) \in Nat /\ DOMAIN dmas = 1 .. Len(dmas)
  BY LenProperties
<1>2. \A i \in DOMAIN dmas : dmas[i] \in [tile : Tile, loop : Nat, begin : Nat, end : Int]
  BY <1>1, ElementOfSeq
<1> QED
  BY <1>1, <1>2

\* The DMAs after one was walked.
DmaIsNew(t, i) ==
    /\ dmas' \in Seq([tile : Tile, loop : Nat, begin : Nat, end : Int])
    /\ i \in Nat /\ i \notin DOMAIN dmas /\ DOMAIN dmas' = DOMAIN dmas \cup {i}
    /\ \A j \in DOMAIN dmas : dmas'[j] = dmas[j]
    /\ dmas'[i].tile = t /\ dmas'[i].begin = clock /\ dmas'[i].end = -1

LEMMA DmaAppended ==
    ASSUME dmas \in Seq([tile : Tile, loop : Nat, begin : Nat, end : Int]), clock \in Nat,
           NEW t \in Tile, NEW l \in Nat, NEW i, i = Len(dmas) + 1,
           dmas' = Append(dmas, [tile |-> t, loop |-> l, begin |-> clock, end |-> -1])
    PROVE  DmaIsNew(t, i)
<1>1. Len(dmas) \in Nat /\ DOMAIN dmas = 1 .. Len(dmas)
  BY DmasAre
<1> DEFINE d == [tile |-> t, loop |-> l, begin |-> clock, end |-> -1]
<1>2. d \in [tile : Tile, loop : Nat, begin : Nat, end : Int]
  OBVIOUS
<1>3. d.tile = t /\ d.begin = clock /\ d.end = -1
  OBVIOUS
<1> HIDE DEF d
<1>4. /\ dmas' \in Seq([tile : Tile, loop : Nat, begin : Nat, end : Int])
      /\ Len(dmas') = i /\ \A j \in 1 .. Len(dmas) : dmas'[j] = dmas[j]
      /\ dmas'[i] = d
  BY <1>2, AppendProperties DEF d
<1>5. DOMAIN dmas' = 1 .. i
  BY <1>4, LenProperties
<1>6. i \in Nat /\ i \notin 1 .. Len(dmas) /\ 1 .. i = (1 .. Len(dmas)) \cup {i}
  BY <1>1
<1> QED
  BY <1>1, <1>3, <1>4, <1>5, <1>6 DEF DmaIsNew

\* A DMA joins the last batch of its tile.
DmaShape(t, i, K, M, f, g, a) ==
    /\ IsSeq(frames') /\ frames' # <<>> /\ Len(frames') = K /\ DOMAIN frames' = DOMAIN frames
    /\ \A k \in DOMAIN frames : k # K => frames'[k] = frames[k]
    /\ frames'[K] = g /\ FrameOK(g)
    /\ g.curr = (IF f.curr = NoDma THEN i ELSE f.curr) /\ g.open = f.open \cup {i}
    /\ \A u \in Tile : DOMAIN g.graph[u] = DOMAIN f.graph[u] /\ Len(g.graph[u]) = Len(f.graph[u])
    /\ \A u \in Tile : u # t => g.graph[u] = f.graph[u]
    /\ g.graph[t][M] = a /\ \A m \in DOMAIN f.graph[t] : m # M => g.graph[t][m] = f.graph[t][m]

LEMMA LastMayChange ==
    ASSUME WalkInv, Len(frames') = Len(frames), DOMAIN frames' = DOMAIN frames,
           \A k \in DOMAIN frames : k # Len(frames) => frames'[k] = frames[k]
    PROVE  Nested'
<1> SUFFICES ASSUME NEW k \in DOMAIN frames, k < Len(frames)
             PROVE  frames'[k].curr # NoDma \/ frames'[k].open = {}
  BY DEF Nested
<1>1. Len(frames) \in Nat /\ k \in Int
  BY FramesAre
<1>2. k # Len(frames)
  BY <1>1
<1>3. frames'[k] = frames[k]
  BY <1>2
<1> QED
  BY <1>3 DEF WalkInv, Nested

LEMMA DmaFrames ==
    ASSUME WalkInv, NEW t \in Tile, VisitDma(t),
           NEW K, NEW M, NEW f, NEW g, NEW i, NEW a, K = Len(frames), f = frames[K],
           M = Len(f.graph[t]), i = Len(dmas) + 1, a = AddDma(f.graph[t][M], i), g = frames'[K]
    PROVE  DmaShape(t, i, K, M, f, g, a)
<1>1. /\ K \in Nat \ {0} /\ DOMAIN frames = 1 .. K /\ K \in DOMAIN frames /\ Top = f /\ FrameOK(f)
      /\ IsSeq(frames) /\ frames # <<>>
      /\ \A u \in Tile : IsSeq(f.graph[u]) /\ f.graph[u] # <<>>
      /\ M \in Nat \ {0} /\ DOMAIN f.graph[t] = 1 .. M
  BY FramesAre DEF WalkInv, WalkTypes
<1>2. PICK e : e = [Top EXCEPT !.graph[t] = SetLast(@, AddDma(Last(@), i)),
                               !.curr = IF @ = NoDma THEN i ELSE @, !.open = @ \cup {i}]
  OBVIOUS
<1>3. frames' = SetLast(frames, e)
  BY <1>2 DEF VisitDma
<1>4. PICK s : s = SetLast(f.graph[t], a)
  OBVIOUS
<1>5. IsSeq(s) /\ Replaced(s, f.graph[t], a)
  BY <1>1, <1>4, SetLastIs
<1>6. e = [loop |-> f.loop, graph |-> [u \in Tile |-> IF u = t THEN s ELSE f.graph[u]],
           curr |-> IF f.curr = NoDma THEN i ELSE f.curr, open |-> f.open \cup {i}]
  <2>1. f = [loop |-> f.loop, graph |-> f.graph, curr |-> f.curr, open |-> f.open]
    BY <1>1 DEF FrameOK
  <2>2. f.graph = [u \in Tile |-> f.graph[u]]
    BY <1>1 DEF FrameOK
  <2>3. [f.graph EXCEPT ![t] = s] = [u \in Tile |-> IF u = t THEN s ELSE f.graph[u]]
    BY <2>2
  <2>4. e = [f EXCEPT !.graph = [f.graph EXCEPT ![t] = s],
                      !.curr = IF f.curr = NoDma THEN i ELSE f.curr, !.open = f.open \cup {i}]
    BY <1>1, <1>2, <1>4 DEF Last
  <2> QED
    BY <2>1, <2>3, <2>4
<1>7. IsSeq(frames') /\ Replaced(frames', frames, e)
  BY <1>1, <1>3, SetLastIs
<1>8. g = e
  BY <1>7 DEF Replaced
<1>9. /\ g.loop = f.loop /\ g.graph = [u \in Tile |-> IF u = t THEN s ELSE f.graph[u]]
      /\ g.curr = (IF f.curr = NoDma THEN i ELSE f.curr) /\ g.open = f.open \cup {i}
      /\ g = [loop |-> g.loop, graph |-> g.graph, curr |-> g.curr, open |-> g.open]
  BY <1>6, <1>8
<1>10. g.graph[t] = s /\ \A u \in Tile : u # t => g.graph[u] = f.graph[u]
  BY <1>9
<1>11. FrameOK(g)
  <2>1. s # <<>>
    BY <1>5 DEF Replaced
  <2>2. \A u \in Tile : IsSeq(g.graph[u]) /\ g.graph[u] # <<>>
    BY <1>1, <1>5, <1>10, <2>1
  <2>3. g.graph = [u \in Tile |-> g.graph[u]]
    BY <1>9
  <2> QED
    BY <1>1, <1>9, <2>2, <2>3 DEF FrameOK
<1>12. /\ Len(s) = M /\ DOMAIN s = 1 .. M /\ s[M] = a
       /\ \A m \in 1 .. M : m # M => s[m] = f.graph[t][m]
  BY <1>5 DEF Replaced
<1>13. /\ frames' # <<>> /\ Len(frames') = K /\ DOMAIN frames' = 1 .. K
       /\ \A k \in 1 .. K : k # K => frames'[k] = frames[k]
  BY <1>7 DEF Replaced
<1> QED
  BY <1>1, <1>7, <1>9, <1>10, <1>11, <1>12, <1>13 DEF DmaShape

LEMMA DmaVisited ==
    ASSUME WalkInv, NEW t \in Tile, VisitDma(t)
    PROVE  WalkInv'
<1>1. PICK K, f, M, i, a, b, g : /\ K = Len(frames) /\ f = frames[K] /\ M = Len(f.graph[t])
                                 /\ i = Len(dmas) + 1 /\ b = f.graph[t][M] /\ a = AddDma(b, i)
                                 /\ g = frames'[K]
  OBVIOUS
<1>2. /\ K \in Nat \ {0} /\ DOMAIN frames = 1 .. K /\ K \in DOMAIN frames /\ Top = f /\ FrameOK(f)
      /\ M \in DOMAIN f.graph[t]
  BY <1>1, FramesAre
<1>3. DmaShape(t, i, K, M, f, g, a)
  BY <1>1, DmaFrames
<1>4. /\ dmas \in Seq([tile : Tile, loop : Nat, begin : Nat, end : Int]) /\ clock \in Nat
      /\ loops \in Seq(Loops) /\ clock' = clock + 1 /\ loops' = loops
  BY DEF WalkInv, WalkTypes, VisitDma, Walk
<1>5. /\ dmas' \in Seq([tile : Tile, loop : Nat, begin : Nat, end : Int])
      /\ i \in Nat /\ i \notin DOMAIN dmas /\ DOMAIN dmas' = DOMAIN dmas \cup {i}
      /\ \A j \in DOMAIN dmas : dmas'[j] = dmas[j]
      /\ dmas'[i].tile = t /\ dmas'[i].begin = clock /\ dmas'[i].end = -1
  <2>1. PICK l : l = f.loop
    OBVIOUS
  <2>2. l \in Nat /\ Region = l
    BY <1>2, <2>1 DEF FrameOK, Region
  <2>3. dmas' = Append(dmas, [tile |-> t, loop |-> l, begin |-> clock, end |-> -1])
    BY <2>2 DEF VisitDma
  <2>4. i = Len(dmas) + 1
    BY <1>1
  <2>5. DmaIsNew(t, i)
    BY <1>4, <2>2, <2>3, <2>4, DmaAppended
  <2> QED
    BY <2>5 DEF DmaIsNew
<1>6. \A j \in DOMAIN dmas : /\ dmas[j].begin \in Nat /\ dmas[j].end \in Int /\ dmas[j].tile \in Tile
                             /\ dmas[j].begin < clock /\ dmas[j].end < clock
  BY <1>4, DmasAre DEF WalkInv, DmasPast
<1>7. b = Root(K, t, M) /\ a = Root(K, t, M)'
  BY <1>1, <1>3 DEF Root, DmaShape
<1>8. ASSUME NEW k \in DOMAIN frames, NEW u \in Tile
      PROVE  /\ DOMAIN frames'[k].graph[u] = DOMAIN frames[k].graph[u]
             /\ \A m \in DOMAIN frames[k].graph[u] :
                   k # K \/ u # t \/ m # M => Root(k, u, m)' = Root(k, u, m)
  <2>1. CASE k # K
    <3>1. frames'[k] = frames[k]
      BY <1>3, <2>1 DEF DmaShape
    <3> QED
      BY <2>1, <3>1 DEF Root
  <2>2. CASE k = K
    <3>1. frames'[k] = g /\ frames[k] = f /\ DOMAIN g.graph[u] = DOMAIN f.graph[u]
      BY <1>1, <1>3, <2>2 DEF DmaShape
    <3>2. u # t => g.graph[u] = f.graph[u]
      BY <1>3 DEF DmaShape
    <3>3. \A m \in DOMAIN f.graph[t] : m # M => g.graph[t][m] = f.graph[t][m]
      BY <1>3 DEF DmaShape
    <3> QED
      BY <2>2, <3>1, <3>2, <3>3 DEF Root
  <2> QED
    BY <2>1, <2>2
<1>9. /\ Tree(b) /\ ~In(i, b) /\ b.loop \in {NoLoop} \cup DOMAIN loops
      /\ \A j : In(j, b) => j \in DOMAIN dmas /\ dmas[j].tile = t
  <2>1. M \in DOMAIN frames[K].graph[t]
    BY <1>1, <1>2
  <2>2. /\ Tree(Root(K, t, M)) /\ Root(K, t, M).loop \in {NoLoop} \cup DOMAIN loops
        /\ \A j : In(j, Root(K, t, M)) => j \in DOMAIN dmas /\ dmas[j].tile = t
    BY <1>2, <2>1 DEF WalkInv, RootsAreTrees
  <2>3. b = Root(K, t, M)
    BY <1>7
  <2> QED
    BY <1>5, <2>2, <2>3
<1>10. /\ Tree(a) /\ a.loop = b.loop /\ i \in ToSet(a.ops) /\ ToSet(b.ops) \subseteq ToSet(a.ops)
       /\ \A j : In(j, a) <=> In(j, b) \/ j = i
       /\ \A x, y : Together(x, y, b) => Together(x, y, a)
  <2>1. a = AddDma(b, i) /\ Tree(b) /\ i \in Nat /\ ~In(i, b)
    BY <1>1, <1>5, <1>9
  <2> QED
    BY <2>1, DmaAdded
<1>11. DOMAIN frames' = DOMAIN frames
  BY <1>3 DEF DmaShape
<1>12. WalkTypes'
  <2>1. IsSeq(frames') /\ frames' # <<>>
    BY <1>3 DEF DmaShape
  <2>2. \A k \in DOMAIN frames : FrameOK(frames[k])
    BY DEF WalkInv, WalkTypes
  <2>3. \A k \in DOMAIN frames' : FrameOK(frames'[k])
    BY <1>2, <1>3, <2>2 DEF DmaShape
  <2>4. clock' \in Nat
    BY <1>4
  <2> QED
    BY <1>4, <1>5, <2>1, <2>3, <2>4 DEF WalkTypes
<1>13. DmasPast'
  <2>1. \A j \in DOMAIN dmas : dmas'[j].begin < clock + 1 /\ dmas'[j].end < clock + 1
    <3> SUFFICES ASSUME NEW j \in DOMAIN dmas
                 PROVE  dmas'[j].begin < clock + 1 /\ dmas'[j].end < clock + 1
      OBVIOUS
    <3>1. dmas[j].begin < clock + 1 /\ dmas[j].end < clock + 1
      BY <1>4, <1>6, SMTT(60)
    <3> QED
      BY <1>5, <3>1
  <2>2. dmas'[i].begin < clock + 1 /\ dmas'[i].end < clock + 1
    BY <1>4, <1>5
  <2>3. \A j \in DOMAIN dmas' : dmas'[j].begin < clock + 1 /\ dmas'[j].end < clock + 1
    BY <1>5, <2>1, <2>2
  <2> QED
    BY <1>4, <2>3 DEF DmasPast
<1>14. RootsAreTrees'
  <2> SUFFICES ASSUME NEW k \in DOMAIN frames, NEW u \in Tile, NEW m \in DOMAIN frames[k].graph[u]
               PROVE  /\ Tree(Root(k, u, m)') /\ Root(k, u, m)'.loop \in {NoLoop} \cup DOMAIN loops
                      /\ \A j : In(j, Root(k, u, m)') => j \in DOMAIN dmas' /\ dmas'[j].tile = u
    <3>1. \A k \in DOMAIN frames : \A u \in Tile : DOMAIN frames'[k].graph[u] = DOMAIN frames[k].graph[u]
      BY <1>8
    <3> QED
      BY <1>4, <1>11, <3>1 DEF RootsAreTrees
  <2>1. CASE k = K /\ u = t /\ m = M
    BY <1>5, <1>7, <1>9, <1>10, <2>1
  <2>2. CASE ~(k = K /\ u = t /\ m = M)
    <3>1. Root(k, u, m)' = Root(k, u, m)
      BY <1>8, <2>2
    <3> QED
      BY <1>5, <3>1 DEF WalkInv, RootsAreTrees
  <2> QED
    BY <2>1, <2>2
<1>15. \A k \in DOMAIN frames : \A u \in Tile : \A m \in DOMAIN frames[k].graph[u] : \A j :
          In(j, Root(k, u, m)') <=> In(j, Root(k, u, m)) \/ (j = i /\ k = K /\ u = t /\ m = M)
  BY <1>7, <1>8, <1>10
<1>16. InOneRoot'
  <2> SUFFICES ASSUME NEW k \in DOMAIN frames, NEW l \in DOMAIN frames, NEW u \in Tile,
                      NEW m \in DOMAIN frames[k].graph[u], NEW n \in DOMAIN frames[l].graph[u],
                      NEW j, In(j, Root(k, u, m)'), In(j, Root(l, u, n)')
               PROVE  k = l /\ m = n
    <3>1. \A k \in DOMAIN frames : \A u \in Tile : DOMAIN frames'[k].graph[u] = DOMAIN frames[k].graph[u]
      BY <1>8
    <3> QED
      BY <1>11, <3>1 DEF InOneRoot
  <2>1. \A x \in DOMAIN frames : \A y \in DOMAIN frames[x].graph[u] : ~In(i, Root(x, u, y))
    BY <1>5 DEF WalkInv, RootsAreTrees
  <2>2. CASE j = i
    BY <1>15, <2>1, <2>2
  <2>3. CASE j # i
    <3>1. In(j, Root(k, u, m)) /\ In(j, Root(l, u, n))
      BY <1>15, <2>3
    <3> QED
      BY <3>1 DEF WalkInv, InOneRoot
  <2> QED
    BY <2>2, <2>3
<1>17. PairsTogether'
  <2> SUFFICES ASSUME NEW u \in Tile, NEW x \in DOMAIN dmas', NEW y \in DOMAIN dmas', Inside(y, x)',
                      dmas'[x].tile = u, dmas'[y].tile = u
               PROVE  \E k \in DOMAIN frames : \E m \in DOMAIN frames[k].graph[u] :
                         Together(x, y, Root(k, u, m)')
    <3>1. \A k \in DOMAIN frames : \A u \in Tile : DOMAIN frames'[k].graph[u] = DOMAIN frames[k].graph[u]
      BY <1>8
    <3> QED
      BY <1>11, <3>1 DEF PairsTogether
  <2>1. dmas'[x].begin < dmas'[y].begin /\ dmas'[y].begin < dmas'[x].end
    BY DEF Inside
  <2>2. x # i
    <3>1. dmas'[y].begin \in Nat
      BY <1>4, <1>5, <1>6
    <3> QED
      BY <1>5, <2>1, <3>1
  <2>3. y # i
    <3>1. dmas'[x] = dmas[x] /\ x \in DOMAIN dmas
      BY <1>5, <2>2
    <3> QED
      BY <1>4, <1>5, <1>6, <2>1, <3>1, SMTT(60)
  <2>4. x \in DOMAIN dmas /\ y \in DOMAIN dmas /\ dmas'[x] = dmas[x] /\ dmas'[y] = dmas[y]
    BY <1>5, <2>2, <2>3
  <2>5. Inside(y, x) /\ dmas[x].tile = u /\ dmas[y].tile = u
    BY <2>1, <2>4 DEF Inside
  <2>6. PICK k \in DOMAIN frames : \E m \in DOMAIN frames[k].graph[u] : Together(x, y, Root(k, u, m))
    BY <2>4, <2>5 DEF WalkInv, PairsTogether
  <2>7. PICK m \in DOMAIN frames[k].graph[u] : Together(x, y, Root(k, u, m))
    BY <2>6
  <2>8. CASE k = K /\ u = t /\ m = M
    BY <1>7, <1>10, <2>7, <2>8
  <2>9. CASE ~(k = K /\ u = t /\ m = M)
    <3>1. Root(k, u, m)' = Root(k, u, m)
      BY <1>8, <2>9
    <3> QED
      BY <2>7, <3>1
  <2> QED
    BY <2>8, <2>9
<1>18. OpenDmas'
  <2> SUFFICES ASSUME NEW k \in DOMAIN frames, NEW x \in frames'[k].open
               PROVE  x \in DOMAIN dmas' /\ \E m \in DOMAIN frames'[k].graph[dmas'[x].tile] : AwaitedIn(x, k, m)'
    BY <1>11 DEF OpenDmas
  <2>1. CASE x = i /\ k = K
    <3>1. dmas'[x].tile = t /\ x \in DOMAIN dmas' /\ M \in DOMAIN frames'[k].graph[t]
      BY <1>1, <1>2, <1>5, <1>8, <2>1
    <3>2. x \in ToSet(Root(k, t, M)'.ops)
      BY <1>7, <1>10, <2>1
    <3>3. M = Len(frames'[k].graph[t])
      BY <1>1, <1>3, <2>1 DEF DmaShape
    <3>4. \A j \in DOMAIN dmas' : ~(dmas'[x].begin < dmas'[j].begin)
      BY <1>4, <1>5, <1>6, <2>1, SMTT(60)
    <3>5. AwaitedIn(x, k, M)'
      BY <3>1, <3>2, <3>3, <3>4 DEF AwaitedIn
    <3> QED
      BY <3>1, <3>5
  <2>2. CASE ~(x = i /\ k = K)
    <3>1. x \in frames[k].open
      <4>1. CASE k # K
        <5>1. frames'[k] = frames[k]
          BY <1>3, <4>1 DEF DmaShape
        <5> QED
          BY <5>1
      <4>2. CASE k = K
        <5>1. frames'[k] = g /\ frames[k] = f /\ g.open = f.open \cup {i}
          BY <1>1, <1>3, <4>2 DEF DmaShape
        <5> QED
          BY <2>2, <4>2, <5>1
      <4> QED
        BY <4>1, <4>2
    <3>2. x \in DOMAIN dmas /\ \E m \in DOMAIN frames[k].graph[dmas[x].tile] : AwaitedIn(x, k, m)
      BY <3>1 DEF WalkInv, OpenDmas
    <3>3. PICK u, m : u = dmas[x].tile /\ m \in DOMAIN frames[k].graph[u] /\ AwaitedIn(x, k, m)
      BY <3>2
    <3>4. /\ x \in ToSet(Root(k, u, m).ops)
          /\ frames[k].curr # NoDma => m = Len(frames[k].graph[u])
          /\ \A j \in DOMAIN dmas : dmas[j].tile = u /\ dmas[x].begin < dmas[j].begin =>
                \/ In(j, Root(k, u, m))
                \/ \E l \in DOMAIN frames : k < l /\ \E n \in DOMAIN frames[l].graph[u] :
                      In(j, Root(l, u, n))
      BY <3>3 DEF AwaitedIn
    <3>5. u \in Tile /\ dmas'[x] = dmas[x] /\ x \in DOMAIN dmas'
      BY <1>5, <1>6, <3>2, <3>3
    <3>6. x \in ToSet(Root(k, u, m)'.ops)
      BY <1>7, <1>8, <1>10, <3>3, <3>4, <3>5
    <3>7. Len(frames'[k].graph[u]) = Len(frames[k].graph[u])
      BY <1>1, <1>3, <3>5, ZenonT(60) DEF DmaShape
    <3>8. frames'[k].curr # NoDma => m = Len(frames'[k].graph[u])
      <4>1. CASE k = K
        <5>1. f.curr # NoDma
          BY <1>1, <1>2, <3>1, <4>1 DEF VisitDma, GroupAwaited
        <5> QED
          BY <1>1, <3>4, <3>7, <4>1, <5>1
      <4>2. CASE k # K
        BY <1>3, <3>4, <3>7, <4>2 DEF DmaShape
      <4> QED
        BY <4>1, <4>2
    <3>9. ASSUME NEW j \in DOMAIN dmas', dmas'[j].tile = u, dmas'[x].begin < dmas'[j].begin
          PROVE  \/ In(j, Root(k, u, m)')
                 \/ \E l \in DOMAIN frames' : k < l /\ \E n \in DOMAIN frames'[l].graph[u] :
                       In(j, Root(l, u, n)')
      <4>1. CASE j = i /\ k = K
        <5>1. f.curr # NoDma
          BY <1>1, <1>2, <3>1, <4>1 DEF VisitDma, GroupAwaited
        <5>2. u = t
          BY <1>5, <3>9, <4>1
        <5>3. m = M
          BY <1>1, <3>4, <4>1, <5>1, <5>2
        <5> QED
          BY <1>7, <1>10, <4>1, <5>2, <5>3
      <4>2. CASE j = i /\ k # K
        <5>1. u = t /\ k < K
          BY <1>2, <1>5, <3>9, <4>2
        <5>2. In(i, Root(K, t, M)')
          BY <1>7, <1>10
        <5>3. M \in DOMAIN frames'[K].graph[t]
          BY <1>1, <1>2, <1>8
        <5> QED
          BY <1>2, <1>11, <4>2, <5>1, <5>2, <5>3
      <4>3. CASE j # i
        <5>1. j \in DOMAIN dmas /\ dmas[j].tile = u /\ dmas[x].begin < dmas[j].begin
          BY <1>5, <3>2, <3>9, <4>3
        <5> QED
          BY <1>8, <1>11, <1>15, <3>3, <3>4, <3>5, <5>1
      <4> QED
        BY <4>1, <4>2, <4>3
    <3>10. AwaitedIn(x, k, m)'
      <4>1. dmas'[x].tile = u
        BY <3>3, <3>5
      <4> QED
        BY <3>6, <3>8, <3>9, <4>1 DEF AwaitedIn
    <3>11. m \in DOMAIN frames'[k].graph[dmas'[x].tile]
      BY <1>8, <3>3, <3>5
    <3> QED
      BY <3>5, <3>10, <3>11
  <2> QED
    BY <2>1, <2>2
<1>19. Nested'
  <2>1. /\ Len(frames') = Len(frames) /\ DOMAIN frames' = DOMAIN frames
        /\ \A k \in DOMAIN frames : k # Len(frames) => frames'[k] = frames[k]
    BY <1>1, <1>3 DEF DmaShape
  <2> QED
    BY <2>1, LastMayChange DEF WalkInv
<1> QED
  BY <1>12, <1>13, <1>14, <1>16, <1>17, <1>18, <1>19 DEF WalkInv

-----------------------------------------------------------------------------
(* A wait and the start of a loop add empty batches only.                  *)
OnlyEmptyAdded ==
    /\ DOMAIN frames \subseteq DOMAIN frames' /\ DOMAIN loops \subseteq DOMAIN loops'
    /\ \A k \in DOMAIN frames : \A u \in Tile : \A m \in DOMAIN frames[k].graph[u] :
          m \in DOMAIN frames'[k].graph[u] /\ Root(k, u, m)' = Root(k, u, m)
    /\ \A k \in DOMAIN frames' : \A u \in Tile : \A m \in DOMAIN frames'[k].graph[u] :
          \/ k \in DOMAIN frames /\ m \in DOMAIN frames[k].graph[u]
          \/ /\ Tree(Root(k, u, m)') /\ Root(k, u, m)'.loop \in {NoLoop} \cup DOMAIN loops'
             /\ \A i : ~In(i, Root(k, u, m)')
    /\ DOMAIN dmas' = DOMAIN dmas
    /\ \A i \in DOMAIN dmas : dmas'[i].tile = dmas[i].tile /\ dmas'[i].begin = dmas[i].begin

LEMMA RootsStay ==
    ASSUME WalkInv, OnlyEmptyAdded
    PROVE  /\ RootsAreTrees' /\ InOneRoot'
           /\ \A k \in DOMAIN frames : \A i \in DOMAIN dmas :
                 \A m \in DOMAIN frames[k].graph[dmas[i].tile] :
                    /\ AwaitedIn(i, k, m)
                    /\ frames'[k].curr # NoDma => m = Len(frames'[k].graph[dmas[i].tile])
                    => AwaitedIn(i, k, m)' /\ m \in DOMAIN frames'[k].graph[dmas'[i].tile]
<1>1. \A i \in DOMAIN dmas : dmas[i].tile \in Tile
  BY DmasAre DEF WalkInv, WalkTypes
<1>2. RootsAreTrees'
  <2> SUFFICES ASSUME NEW k \in DOMAIN frames', NEW u \in Tile, NEW m \in DOMAIN frames'[k].graph[u]
               PROVE  /\ Tree(Root(k, u, m)') /\ Root(k, u, m)'.loop \in {NoLoop} \cup DOMAIN loops'
                      /\ \A i : In(i, Root(k, u, m)') => i \in DOMAIN dmas' /\ dmas'[i].tile = u
    BY DEF RootsAreTrees
  <2>1. CASE k \in DOMAIN frames /\ m \in DOMAIN frames[k].graph[u]
    <3>1. /\ Tree(Root(k, u, m)) /\ Root(k, u, m).loop \in {NoLoop} \cup DOMAIN loops
          /\ \A i : In(i, Root(k, u, m)) => i \in DOMAIN dmas /\ dmas[i].tile = u
      BY <2>1 DEF WalkInv, RootsAreTrees
    <3>2. Root(k, u, m)' = Root(k, u, m)
      BY <2>1 DEF OnlyEmptyAdded
    <3> QED
      BY <3>1, <3>2 DEF OnlyEmptyAdded
  <2>2. CASE ~(k \in DOMAIN frames /\ m \in DOMAIN frames[k].graph[u])
    BY <2>2 DEF OnlyEmptyAdded
  <2> QED
    BY <2>1, <2>2
<1>3. InOneRoot'
  <2> SUFFICES ASSUME NEW k \in DOMAIN frames', NEW l \in DOMAIN frames', NEW u \in Tile,
                      NEW m \in DOMAIN frames'[k].graph[u], NEW n \in DOMAIN frames'[l].graph[u],
                      NEW i, In(i, Root(k, u, m)'), In(i, Root(l, u, n)')
               PROVE  k = l /\ m = n
    BY DEF InOneRoot
  <2>1. k \in DOMAIN frames /\ m \in DOMAIN frames[k].graph[u]
    BY DEF OnlyEmptyAdded
  <2>2. l \in DOMAIN frames /\ n \in DOMAIN frames[l].graph[u]
    BY DEF OnlyEmptyAdded
  <2>3. In(i, Root(k, u, m)) /\ In(i, Root(l, u, n))
    BY <2>1, <2>2 DEF OnlyEmptyAdded
  <2> QED
    BY <2>1, <2>2, <2>3 DEF WalkInv, InOneRoot
<1>4. ASSUME NEW k \in DOMAIN frames, NEW i \in DOMAIN dmas, NEW u, u = dmas[i].tile,
             NEW m \in DOMAIN frames[k].graph[u], AwaitedIn(i, k, m),
             frames'[k].curr # NoDma => m = Len(frames'[k].graph[u])
      PROVE  AwaitedIn(i, k, m)' /\ m \in DOMAIN frames'[k].graph[dmas'[i].tile]
  <2>1. u \in Tile /\ dmas'[i].tile = u /\ dmas'[i].begin = dmas[i].begin
    BY <1>1, <1>4 DEF OnlyEmptyAdded
  <2>2. m \in DOMAIN frames'[k].graph[u] /\ Root(k, u, m)' = Root(k, u, m)
    BY <1>4, <2>1 DEF OnlyEmptyAdded
  <2>3. i \in ToSet(Root(k, u, m)'.ops)
    BY <1>4, <2>2 DEF AwaitedIn
  <2>4. ASSUME NEW j \in DOMAIN dmas', dmas'[j].tile = u, dmas'[i].begin < dmas'[j].begin
        PROVE  \/ In(j, Root(k, u, m)')
               \/ \E l \in DOMAIN frames' : k < l /\ \E n \in DOMAIN frames'[l].graph[u] :
                     In(j, Root(l, u, n)')
    <3>1. j \in DOMAIN dmas /\ dmas[j].tile = u /\ dmas[i].begin < dmas[j].begin
      BY <2>1, <2>4 DEF OnlyEmptyAdded
    <3>2. CASE In(j, Root(k, u, m))
      BY <2>2, <3>2
    <3>3. CASE ~In(j, Root(k, u, m))
      <4>1. PICK l \in DOMAIN frames : k < l /\ \E n \in DOMAIN frames[l].graph[u] : In(j, Root(l, u, n))
        BY <1>4, <3>1, <3>3 DEF AwaitedIn
      <4>2. PICK n \in DOMAIN frames[l].graph[u] : In(j, Root(l, u, n))
        BY <4>1
      <4>3. l \in DOMAIN frames' /\ n \in DOMAIN frames'[l].graph[u] /\ In(j, Root(l, u, n)')
        BY <2>1, <4>2 DEF OnlyEmptyAdded
      <4> QED
        BY <4>1, <4>3
    <3> QED
      BY <3>2, <3>3
  <2>5. AwaitedIn(i, k, m)'
    BY <1>4, <2>1, <2>3, <2>4 DEF AwaitedIn
  <2> QED
    BY <2>1, <2>2, <2>5
<1> QED
  BY <1>2, <1>3, <1>4

LEMMA PairStays ==
    ASSUME WalkInv, OnlyEmptyAdded, NEW u \in Tile, NEW x \in DOMAIN dmas, NEW y \in DOMAIN dmas,
           Inside(y, x), dmas[x].tile = u, dmas[y].tile = u
    PROVE  \E k \in DOMAIN frames' : \E m \in DOMAIN frames'[k].graph[u] : Together(x, y, Root(k, u, m)')
<1>1. PICK k \in DOMAIN frames : \E m \in DOMAIN frames[k].graph[u] : Together(x, y, Root(k, u, m))
  BY DEF WalkInv, PairsTogether
<1>2. PICK m \in DOMAIN frames[k].graph[u] : Together(x, y, Root(k, u, m))
  BY <1>1
<1>3. k \in DOMAIN frames' /\ m \in DOMAIN frames'[k].graph[u] /\ Together(x, y, Root(k, u, m)')
  BY <1>2 DEF OnlyEmptyAdded
<1> QED
  BY <1>3

\* The wait on DMA i: a new batch on its tile if it is the first of its group.
WaitShape(t, i, K, f, g) ==
    /\ IsSeq(frames') /\ frames' # <<>> /\ Len(frames') = K /\ DOMAIN frames' = DOMAIN frames
    /\ \A k \in DOMAIN frames : k # K => frames'[k] = frames[k]
    /\ frames'[K] = g /\ FrameOK(g)
    /\ g.curr = (IF i = f.curr THEN NoDma ELSE f.curr) /\ g.open = f.open \ {i}
    /\ \A u \in Tile : u # t \/ i # f.curr => g.graph[u] = f.graph[u]
    /\ \A m \in DOMAIN f.graph[t] : m \in DOMAIN g.graph[t] /\ g.graph[t][m] = f.graph[t][m]
    /\ \A m \in DOMAIN g.graph[t] :
          m \in DOMAIN f.graph[t] \/ g.graph[t][m] = EmptyBatch(f.graph[t][Len(f.graph[t])].loop)

LEMMA WaitFrames ==
    ASSUME WalkInv, NEW K, K = Len(frames), NEW f, f = frames[K], NEW g, g = frames'[K],
           NEW i, NEW t \in Tile,
           frames' = SetLast(frames, [Top EXCEPT
                !.graph[t] = IF i = Top.curr THEN Append(@, EmptyBatch(Last(@).loop)) ELSE @,
                !.curr = IF i = @ THEN NoDma ELSE @, !.open = @ \ {i}])
    PROVE  WaitShape(t, i, K, f, g)
<1>1. /\ K \in Nat \ {0} /\ DOMAIN frames = 1 .. K /\ K \in DOMAIN frames /\ Top = f /\ FrameOK(f)
      /\ IsSeq(frames) /\ frames # <<>>
      /\ \A u \in Tile : IsSeq(f.graph[u]) /\ f.graph[u] # <<>>
      /\ Len(f.graph[t]) \in Nat \ {0} /\ DOMAIN f.graph[t] = 1 .. Len(f.graph[t])
  BY FramesAre DEF WalkInv, WalkTypes
<1>2. PICK e : e = [Top EXCEPT
                !.graph[t] = IF i = Top.curr THEN Append(@, EmptyBatch(Last(@).loop)) ELSE @,
                !.curr = IF i = @ THEN NoDma ELSE @, !.open = @ \ {i}]
  OBVIOUS
<1>3. IsSeq(frames') /\ Replaced(frames', frames, e)
  <2>1. frames' = SetLast(frames, e)
    BY <1>2
  <2>2. IsSeq(SetLast(frames, e)) /\ Replaced(SetLast(frames, e), frames, e)
    <3>1. IsSeq(frames) /\ frames # <<>>
      BY <1>1
    <3> QED
      BY ONLY <3>1, SetLastIs
  <2> QED
    BY <2>1, <2>2
<1>4. PICK p, b, s : /\ p = f.graph[t] /\ b = EmptyBatch(p[Len(p)].loop)
                     /\ s = IF i = f.curr THEN Append(p, b) ELSE p
  OBVIOUS
<1>5. IsSeq(Append(p, b)) /\ Longer(Append(p, b), p, b)
  BY <1>1, <1>4, AppendIsSeq
<1>6. /\ IsSeq(s) /\ s # <<>> /\ \A m \in DOMAIN p : m \in DOMAIN s /\ s[m] = p[m]
      /\ \A m \in DOMAIN s : m \in DOMAIN p \/ s[m] = b
  <2>1. CASE i = f.curr
    <3>1. /\ Len(s) = Len(p) + 1 /\ s[Len(p) + 1] = b
          /\ \A k \in 1 .. Len(p) : s[k] = p[k]
      BY <1>4, <1>5, <2>1 DEF Longer
    <3>2. IsSeq(s) /\ Len(p) \in Nat \ {0} /\ DOMAIN p = 1 .. Len(p)
      BY <1>1, <1>4, <1>5, <2>1
    <3>3. DOMAIN s = 1 .. Len(p) + 1
      BY <3>1, <3>2, LenIs
    <3>4. s # <<>>
      BY <3>1, <3>2, EmptySeq
    <3>5. \A m \in 1 .. Len(p) : m \in 1 .. Len(p) + 1
      BY <3>2
    <3>6. \A m \in 1 .. Len(p) + 1 : m \in 1 .. Len(p) \/ m = Len(p) + 1
      BY <3>2
    <3> QED
      BY <3>1, <3>2, <3>3, <3>4, <3>5, <3>6
  <2>2. CASE i # f.curr
    BY <1>1, <1>4, <2>2
  <2> QED
    BY <2>1, <2>2
<1>7. e = [loop |-> f.loop, graph |-> [u \in Tile |-> IF u = t THEN s ELSE f.graph[u]],
           curr |-> IF i = f.curr THEN NoDma ELSE f.curr, open |-> f.open \ {i}]
  <2>1. f = [loop |-> f.loop, graph |-> f.graph, curr |-> f.curr, open |-> f.open]
    BY <1>1 DEF FrameOK
  <2>2. f.graph = [u \in Tile |-> f.graph[u]]
    BY <1>1 DEF FrameOK
  <2>3. [f.graph EXCEPT ![t] = s] = [u \in Tile |-> IF u = t THEN s ELSE f.graph[u]]
    BY <2>2
  <2>4. e = [f EXCEPT !.graph = [f.graph EXCEPT ![t] = s],
                      !.curr = IF i = f.curr THEN NoDma ELSE f.curr, !.open = f.open \ {i}]
    BY <1>1, <1>2, <1>4 DEF Last
  <2> QED
    BY <2>1, <2>3, <2>4
<1>8. g = e
  BY <1>3 DEF Replaced
<1>9. /\ g.loop = f.loop /\ g.graph = [u \in Tile |-> IF u = t THEN s ELSE f.graph[u]]
      /\ g.curr = (IF i = f.curr THEN NoDma ELSE f.curr) /\ g.open = f.open \ {i}
      /\ g = [loop |-> g.loop, graph |-> g.graph, curr |-> g.curr, open |-> g.open]
  <2>1. PICK l, G, c, o : /\ l = f.loop /\ G = [u \in Tile |-> IF u = t THEN s ELSE f.graph[u]]
                          /\ c = (IF i = f.curr THEN NoDma ELSE f.curr) /\ o = f.open \ {i}
    OBVIOUS
  <2>2. g = [loop |-> l, graph |-> G, curr |-> c, open |-> o]
    BY <1>7, <1>8, <2>1
  <2>3. g.loop = l /\ g.graph = G /\ g.curr = c /\ g.open = o
    BY ONLY <2>2
  <2> QED
    BY <2>1, <2>2, <2>3
<1>10. g.graph[t] = s /\ \A u \in Tile : u # t => g.graph[u] = f.graph[u]
  <2>1. PICK G : G = g.graph
    OBVIOUS
  <2>2. G = [u \in Tile |-> IF u = t THEN s ELSE f.graph[u]]
    BY <1>9, <2>1
  <2>3. G[t] = s /\ \A u \in Tile : u # t => G[u] = f.graph[u]
    BY <2>2
  <2> QED
    BY <2>1, <2>3
<1>11. FrameOK(g)
  <2>1. ASSUME NEW u \in Tile PROVE IsSeq(g.graph[u]) /\ g.graph[u] # <<>>
    <3>1. CASE u = t
      BY <1>6, <1>10, <3>1
    <3>2. CASE u # t
      BY <1>1, <1>10, <3>2, ZenonT(60)
    <3> QED
      BY <3>1, <3>2
  <2>2. g.graph = [u \in Tile |-> g.graph[u]]
    BY <1>9
  <2> QED
    BY <1>1, <1>9, <2>1, <2>2 DEF FrameOK
<1>12. /\ frames' # <<>> /\ Len(frames') = K /\ DOMAIN frames' = 1 .. K
       /\ \A k \in 1 .. K : k # K => frames'[k] = frames[k]
  BY <1>3 DEF Replaced
<1>13. \A u \in Tile : u # t \/ i # f.curr => g.graph[u] = f.graph[u]
  BY <1>4, <1>10
<1>14. /\ \A m \in DOMAIN f.graph[t] : m \in DOMAIN g.graph[t] /\ g.graph[t][m] = f.graph[t][m]
       /\ \A m \in DOMAIN g.graph[t] :
            m \in DOMAIN f.graph[t] \/ g.graph[t][m] = EmptyBatch(f.graph[t][Len(f.graph[t])].loop)
  <2>1. f.graph[t] = p /\ g.graph[t] = s
    BY <1>4, <1>10
  <2>2. b = EmptyBatch(f.graph[t][Len(f.graph[t])].loop)
    BY <1>4
  <2>3. \A m \in DOMAIN f.graph[t] : m \in DOMAIN g.graph[t] /\ g.graph[t][m] = f.graph[t][m]
    BY <1>6, <2>1
  <2>4. \A m \in DOMAIN g.graph[t] : m \in DOMAIN f.graph[t] \/ g.graph[t][m] = b
    BY <1>6, <2>1
  <2> QED
    BY <2>2, <2>3, <2>4
<1> QED
  <2>1. /\ IsSeq(frames') /\ frames' # <<>> /\ Len(frames') = K /\ DOMAIN frames' = DOMAIN frames
        /\ \A k \in DOMAIN frames : k # K => frames'[k] = frames[k]
    BY <1>1, <1>3, <1>12
  <2>2. /\ frames'[K] = g /\ FrameOK(g)
        /\ g.curr = (IF i = f.curr THEN NoDma ELSE f.curr) /\ g.open = f.open \ {i}
    BY <1>9, <1>11
  <2> QED
    BY <1>13, <1>14, <2>1, <2>2 DEF WaitShape

LEMMA DmaWaited ==
    ASSUME WalkInv, VisitWait
    PROVE  WalkInv'
<1>1. PICK i \in Top.open :
          /\ dmas' = [dmas EXCEPT ![i].end = clock]
          /\ frames' = SetLast(frames, [Top EXCEPT
                !.graph[dmas[i].tile] = IF i = Top.curr THEN Append(@, EmptyBatch(Last(@).loop)) ELSE @,
                !.curr = IF i = @ THEN NoDma ELSE @, !.open = @ \ {i}])
  BY DEF VisitWait
<1>2. PICK K, f, g, t : K = Len(frames) /\ f = frames[K] /\ g = frames'[K] /\ t = dmas[i].tile
  OBVIOUS
<1>3. /\ K \in Nat \ {0} /\ DOMAIN frames = 1 .. K /\ K \in DOMAIN frames /\ Top = f /\ FrameOK(f)
      /\ Len(f.graph[t]) \in DOMAIN f.graph[t] \/ t \notin Tile
  BY <1>2, FramesAre
<1>4. /\ dmas \in Seq([tile : Tile, loop : Nat, begin : Nat, end : Int]) /\ clock \in Nat
      /\ loops \in Seq(Loops) /\ clock' = clock + 1 /\ loops' = loops
  BY DEF WalkInv, WalkTypes, VisitWait, Walk
<1>5. \A j \in DOMAIN dmas : /\ dmas[j] \in [tile : Tile, loop : Nat, begin : Nat, end : Int]
                             /\ dmas[j].begin \in Nat /\ dmas[j].end \in Int /\ dmas[j].tile \in Tile
                             /\ dmas[j].begin < clock /\ dmas[j].end < clock
  BY <1>4, DmasAre DEF WalkInv, DmasPast
<1>6. i \in DOMAIN dmas /\ i \in f.open
  BY <1>2, <1>3 DEF WalkInv, OpenDmas
<1>7. t \in Tile
  BY <1>2, <1>5, <1>6
<1>8. WaitShape(t, i, K, f, g)
  <2>1. frames' = SetLast(frames, [Top EXCEPT
                !.graph[t] = IF i = Top.curr THEN Append(@, EmptyBatch(Last(@).loop)) ELSE @,
                !.curr = IF i = @ THEN NoDma ELSE @, !.open = @ \ {i}])
    BY <1>1, <1>2
  <2> QED
    BY <1>2, <1>7, <2>1, WaitFrames
<1>9. /\ dmas' \in Seq([tile : Tile, loop : Nat, begin : Nat, end : Int])
      /\ DOMAIN dmas' = DOMAIN dmas /\ \A j \in DOMAIN dmas : j # i => dmas'[j] = dmas[j]
      /\ dmas'[i].tile = t /\ dmas'[i].begin = dmas[i].begin /\ dmas'[i].end = clock
  <2>1. PICK d : d = [dmas[i] EXCEPT !.end = clock]
    OBVIOUS
  <2>2. /\ d \in [tile : Tile, loop : Nat, begin : Nat, end : Int]
        /\ d.tile = t /\ d.begin = dmas[i].begin /\ d.end = clock
    <3>1. PICK e \in [tile : Tile, loop : Nat, begin : Nat, end : Int] : e = dmas[i]
      BY <1>5, <1>6
    <3>2. d = [tile |-> e.tile, loop |-> e.loop, begin |-> e.begin, end |-> clock]
      BY <2>1, <3>1
    <3> QED
      BY <1>2, <1>4, <3>1, <3>2
  <2>3. dmas' = [dmas EXCEPT ![i] = d]
    BY <1>1, <2>1
  <2>4. i \in 1 .. Len(dmas) /\ DOMAIN dmas = 1 .. Len(dmas)
    BY <1>4, <1>6, DmasAre
  <2>5. /\ dmas' \in Seq([tile : Tile, loop : Nat, begin : Nat, end : Int])
        /\ Len(dmas') = Len(dmas)
        /\ \A j \in 1 .. Len(dmas) : dmas'[j] = IF j = i THEN d ELSE dmas[j]
    BY <1>4, <2>2, <2>3, <2>4, ExceptSeq
  <2>6. DOMAIN dmas' = 1 .. Len(dmas)
    BY <2>5, LenProperties
  <2> QED
    BY <2>2, <2>4, <2>5, <2>6
<1>10. \A j \in DOMAIN dmas : dmas'[j].tile = dmas[j].tile /\ dmas'[j].begin = dmas[j].begin
  BY <1>2, <1>9
<1>11. OnlyEmptyAdded
  <2>1. ASSUME NEW k \in DOMAIN frames, NEW u \in Tile, NEW m \in DOMAIN frames[k].graph[u]
        PROVE  m \in DOMAIN frames'[k].graph[u] /\ Root(k, u, m)' = Root(k, u, m)
    <3>1. CASE k # K
      BY <1>8, <3>1 DEF WaitShape, Root
    <3>2. CASE k = K
      <4>1. CASE u = t
        <5>1. /\ frames'[k] = g /\ frames[k] = f
              /\ \A n \in DOMAIN f.graph[t] : n \in DOMAIN g.graph[t] /\ g.graph[t][n] = f.graph[t][n]
          BY <1>2, <1>8, <3>2 DEF WaitShape
        <5> QED
          BY <4>1, <5>1 DEF Root
      <4>2. CASE u # t
        BY <1>2, <1>8, <3>2, <4>2 DEF WaitShape, Root
      <4> QED
        BY <4>1, <4>2
    <3> QED
      BY <3>1, <3>2
  <2>2. ASSUME NEW k \in DOMAIN frames', NEW u \in Tile, NEW m \in DOMAIN frames'[k].graph[u],
               ~(k \in DOMAIN frames /\ m \in DOMAIN frames[k].graph[u])
        PROVE  /\ Tree(Root(k, u, m)') /\ Root(k, u, m)'.loop \in {NoLoop} \cup DOMAIN loops
               /\ \A j : ~In(j, Root(k, u, m)')
    <3>1. k \in DOMAIN frames /\ k = K /\ u = t
      <4>1. k \in DOMAIN frames
        BY <1>8 DEF WaitShape
      <4>2. k = K
        <5>1. k # K => frames'[k] = frames[k]
          BY <1>8, <4>1 DEF WaitShape
        <5> QED
          BY <2>2, <4>1, <5>1
      <4>3. frames'[k] = g /\ frames[k] = f /\ (u # t => g.graph[u] = f.graph[u])
        BY <1>2, <1>8, <4>2 DEF WaitShape
      <4> QED
        BY <2>2, <4>1, <4>2, <4>3
    <3>2. PICK l : l = f.graph[t][Len(f.graph[t])].loop
      OBVIOUS
    <3>3. Root(k, u, m)' = EmptyBatch(l)
      <4>1. /\ frames'[k] = g /\ frames[k] = f
            /\ \A n \in DOMAIN g.graph[t] : n \in DOMAIN f.graph[t] \/ g.graph[t][n] = EmptyBatch(l)
        BY <1>2, <1>8, <3>1, <3>2 DEF WaitShape
      <4> QED
        BY <2>2, <3>1, <4>1 DEF Root
    <3>4. l \in {NoLoop} \cup DOMAIN loops
      BY <1>2, <1>3, <1>7, <3>2 DEF WalkInv, RootsAreTrees, Root
    <3> QED
      BY <3>3, <3>4, EmptyBatchTree
  <2>3. DOMAIN frames' = DOMAIN frames /\ loops' = loops /\ DOMAIN dmas' = DOMAIN dmas
    BY <1>4, <1>8, <1>9 DEF WaitShape
  <2> QED
    BY <1>10, <2>1, <2>2, <2>3 DEF OnlyEmptyAdded
<1>12. /\ RootsAreTrees' /\ InOneRoot'
       /\ \A k \in DOMAIN frames : \A j \in DOMAIN dmas : \A m \in DOMAIN frames[k].graph[dmas[j].tile] :
             /\ AwaitedIn(j, k, m)
             /\ frames'[k].curr # NoDma => m = Len(frames'[k].graph[dmas[j].tile])
             => AwaitedIn(j, k, m)' /\ m \in DOMAIN frames'[k].graph[dmas'[j].tile]
  BY <1>11, RootsStay
<1>13. WalkTypes'
  <2>1. IsSeq(frames') /\ frames' # <<>>
    BY <1>8 DEF WaitShape
  <2>2. \A k \in DOMAIN frames : FrameOK(frames[k])
    BY DEF WalkInv, WalkTypes
  <2>3. \A k \in DOMAIN frames' : FrameOK(frames'[k])
    BY <1>8, <2>2 DEF WaitShape
  <2>4. clock' \in Nat
    BY <1>4
  <2> QED
    BY <1>4, <1>9, <2>1, <2>3, <2>4 DEF WalkTypes
<1>14. DmasPast'
  <2>1. ASSUME NEW j \in DOMAIN dmas' PROVE dmas'[j].begin < clock + 1 /\ dmas'[j].end < clock + 1
    <3>1. /\ dmas[j].begin < clock + 1 /\ dmas[j].end < clock + 1 /\ clock < clock + 1
          /\ dmas[i].begin < clock + 1
      <4>1. \A x \in Int : x < clock => x < clock + 1
        BY <1>4
      <4>2. j \in DOMAIN dmas
        BY <1>9
      <4> QED
        BY <1>4, <1>5, <1>6, <4>1, <4>2, SMTT(60)
    <3>2. CASE j = i
      BY <1>9, <3>1, <3>2
    <3>3. CASE j # i
      BY <1>9, <3>1, <3>3
    <3> QED
      BY <3>2, <3>3
  <2> QED
    BY <1>4, <2>1 DEF DmasPast
<1>15. PairsTogether'
  <2> SUFFICES ASSUME NEW u \in Tile, NEW x \in DOMAIN dmas, NEW y \in DOMAIN dmas, Inside(y, x)',
                      dmas'[x].tile = u, dmas'[y].tile = u
               PROVE  \E k \in DOMAIN frames' : \E m \in DOMAIN frames'[k].graph[u] :
                         Together(x, y, Root(k, u, m)')
    BY <1>9 DEF PairsTogether
  <2>1. /\ dmas'[x].begin < dmas'[y].begin /\ dmas'[y].begin < dmas'[x].end
        /\ dmas[x].tile = u /\ dmas[y].tile = u
    BY <1>10 DEF Inside
  <2>2. CASE x # i
    <3>1. Inside(y, x)
      BY <1>9, <1>10, <2>1, <2>2 DEF Inside
    <3> QED
      BY <1>11, <2>1, <3>1, PairStays
  <2>3. CASE x = i
    <3>1. u = t
      BY <1>2, <2>1, <2>3
    <3>2. PICK m \in DOMAIN f.graph[t] : AwaitedIn(i, K, m)
      BY <1>2, <1>3, <1>6 DEF WalkInv, OpenDmas
    <3>3. i \in ToSet(Root(K, t, m).ops) /\ In(y, Root(K, t, m))
      <4>1. dmas[i].begin < dmas[y].begin
        BY <1>10, <2>1, <2>3
      <4>2. \A l \in DOMAIN frames : ~(K < l)
        BY <1>3
      <4> QED
        BY <1>2, <2>1, <3>1, <3>2, <4>1, <4>2 DEF AwaitedIn
    <3>4. Together(i, y, Root(K, t, m))
      BY <3>3, TogetherSplit
    <3>5. m \in DOMAIN frames'[K].graph[t] /\ Root(K, t, m)' = Root(K, t, m)
      BY <1>2, <1>3, <1>7, <1>11 DEF OnlyEmptyAdded
    <3>6. K \in DOMAIN frames'
      BY <1>3, <1>11 DEF OnlyEmptyAdded
    <3> QED
      BY <2>3, <3>1, <3>4, <3>5, <3>6
  <2> QED
    BY <2>2, <2>3
<1>16. OpenDmas'
  <2> SUFFICES ASSUME NEW k \in DOMAIN frames, NEW x \in frames'[k].open
               PROVE  x \in DOMAIN dmas' /\ \E m \in DOMAIN frames'[k].graph[dmas'[x].tile] : AwaitedIn(x, k, m)'
    BY <1>8 DEF OpenDmas, WaitShape
  <2>1. x \in frames[k].open
    BY <1>2, <1>8 DEF WaitShape
  <2>2. x \in DOMAIN dmas
    BY <2>1 DEF WalkInv, OpenDmas
  <2>3. PICK m \in DOMAIN frames[k].graph[dmas[x].tile] : AwaitedIn(x, k, m)
    BY <2>1 DEF WalkInv, OpenDmas
  <2>4. frames[k].curr # NoDma => m = Len(frames[k].graph[dmas[x].tile])
    BY <2>3 DEF AwaitedIn
  <2>5. frames'[k].curr # NoDma => m = Len(frames'[k].graph[dmas[x].tile])
    <3>1. CASE k # K
      BY <1>8, <2>4, <3>1 DEF WaitShape
    <3>2. CASE k = K
      <4>1. dmas[x].tile \in Tile
        BY <1>5, <2>2
      <4> QED
        BY <1>2, <1>8, <2>4, <3>2, <4>1, ZenonT(60) DEF WaitShape
    <3> QED
      BY <3>1, <3>2
  <2> QED
    BY <1>9, <1>12, <2>2, <2>3, <2>5
<1>17. Nested'
  <2>1. /\ Len(frames') = Len(frames) /\ DOMAIN frames' = DOMAIN frames
        /\ \A k \in DOMAIN frames : k # Len(frames) => frames'[k] = frames[k]
    BY <1>2, <1>8 DEF WaitShape
  <2> QED
    BY <2>1, LastMayChange DEF WalkInv
<1> QED
  BY <1>12, <1>13, <1>14, <1>15, <1>16, <1>17 DEF WalkInv

-----------------------------------------------------------------------------
(* A loop is entered, with an empty batch for each tile.                   *)
LEMMA LoopEntered ==
    ASSUME WalkInv, NEW l \in Loops, EnterLoop(l)
    PROVE  WalkInv'
<1>1. PICK K, n, p, g : /\ K = Len(frames) /\ n = Len(loops) + 1
                        /\ p = (IF l.forall THEN NoLoop ELSE n) /\ g = NewFrame(n, p)
  OBVIOUS
<1>2. /\ K \in Nat \ {0} /\ DOMAIN frames = 1 .. K /\ K \in DOMAIN frames /\ Top = frames[K]
      /\ IsSeq(frames)
  BY <1>1, FramesAre DEF WalkInv, WalkTypes
<1>3. /\ dmas \in Seq([tile : Tile, loop : Nat, begin : Nat, end : Int]) /\ clock \in Nat
      /\ loops \in Seq(Loops) /\ clock' = clock + 1 /\ dmas' = dmas /\ loops' = Append(loops, l)
  BY DEF WalkInv, WalkTypes, EnterLoop, Walk
<1>4. /\ loops' \in Seq(Loops) /\ Len(loops') = n /\ n \in Nat
      /\ DOMAIN loops \subseteq DOMAIN loops' /\ p \in {NoLoop} \cup DOMAIN loops'
  <2>1. loops' \in Seq(Loops) /\ Len(loops') = Len(loops) + 1
    BY <1>3, AppendProperties
  <2>2. Len(loops) \in Nat /\ DOMAIN loops = 1 .. Len(loops) /\ DOMAIN loops' = 1 .. Len(loops')
    BY <1>3, <2>1, LenProperties
  <2> QED
    BY <1>1, <2>1, <2>2
<1>5. frames' = Append(frames, g)
  BY <1>1, <1>4 DEF EnterLoop
<1>6. /\ IsSeq(frames') /\ Len(frames') = K + 1 /\ DOMAIN frames' = 1 .. K + 1 /\ frames' # <<>>
      /\ frames'[K + 1] = g /\ \A k \in DOMAIN frames : k # K + 1 /\ frames'[k] = frames[k]
  <2>1. IsSeq(frames') /\ Longer(frames', frames, g)
    BY <1>2, <1>5, AppendIsSeq
  <2>2. Len(frames') = K + 1 /\ DOMAIN frames' = 1 .. K + 1
    BY <1>1, <2>1, LenIs DEF Longer
  <2>3. frames' # <<>>
    BY <1>2, <2>2, EmptySeq
  <2>4. \A k \in DOMAIN frames : k # K + 1
    BY <1>2
  <2> QED
    BY <1>1, <1>2, <2>1, <2>2, <2>3, <2>4 DEF Longer
<1>7. \A k \in DOMAIN frames' : k \in DOMAIN frames \/ k = K + 1
  BY <1>2, <1>6
<1>8. /\ g = [loop |-> n, graph |-> [t \in Tile |-> <<EmptyBatch(p)>>], curr |-> NoDma, open |-> {}]
      /\ g.loop = n /\ g.graph = [t \in Tile |-> <<EmptyBatch(p)>>] /\ g.curr = NoDma /\ g.open = {}
  BY <1>1 DEF NewFrame
<1>9. \A t \in Tile : /\ IsSeq(g.graph[t]) /\ g.graph[t] # <<>>
                      /\ DOMAIN g.graph[t] = {1} /\ g.graph[t][1] = EmptyBatch(p)
  <2>1. \A t \in Tile : g.graph[t] = <<EmptyBatch(p)>>
    BY <1>8
  <2>2. PICK b : b = EmptyBatch(p)
    OBVIOUS
  <2>3. <<b>> \in Seq({b}) /\ <<b>>[1] = b /\ DOMAIN <<b>> = {1} /\ <<b>> # <<>>
    OBVIOUS
  <2>4. IsSeq(<<b>>)
    BY <2>3, SeqIsSeq
  <2> QED
    BY <2>1, <2>2, <2>3, <2>4
<1>10. FrameOK(g)
  <2>1. g.graph = [t \in Tile |-> g.graph[t]]
    BY <1>8
  <2>2. g = [loop |-> g.loop, graph |-> g.graph, curr |-> g.curr, open |-> g.open]
    BY <1>8
  <2>3. g.loop \in Nat
    BY <1>4, <1>8
  <2> QED
    BY <1>9, <2>1, <2>2, <2>3 DEF FrameOK
<1>11. OnlyEmptyAdded
  <2>1. ASSUME NEW k \in DOMAIN frames, NEW u \in Tile, NEW m \in DOMAIN frames[k].graph[u]
        PROVE  m \in DOMAIN frames'[k].graph[u] /\ Root(k, u, m)' = Root(k, u, m)
    BY <1>6 DEF Root
  <2>2. ASSUME NEW k \in DOMAIN frames', NEW u \in Tile, NEW m \in DOMAIN frames'[k].graph[u],
               ~(k \in DOMAIN frames /\ m \in DOMAIN frames[k].graph[u])
        PROVE  /\ Tree(Root(k, u, m)') /\ Root(k, u, m)'.loop \in {NoLoop} \cup DOMAIN loops'
               /\ \A j : ~In(j, Root(k, u, m)')
    <3>1. k = K + 1
      BY <1>6, <1>7, <2>2
    <3>2. m = 1
      BY <1>6, <1>9, <3>1
    <3>3. Root(k, u, m)' = EmptyBatch(p)
      BY <1>6, <1>9, <3>1, <3>2 DEF Root
    <3> QED
      BY <1>4, <3>3, EmptyBatchTree
  <2>3. DOMAIN frames \subseteq DOMAIN frames'
    BY <1>2, <1>6
  <2> QED
    BY <1>3, <1>4, <2>1, <2>2, <2>3 DEF OnlyEmptyAdded
<1>12. /\ RootsAreTrees' /\ InOneRoot'
       /\ \A k \in DOMAIN frames : \A j \in DOMAIN dmas : \A m \in DOMAIN frames[k].graph[dmas[j].tile] :
             /\ AwaitedIn(j, k, m)
             /\ frames'[k].curr # NoDma => m = Len(frames'[k].graph[dmas[j].tile])
             => AwaitedIn(j, k, m)' /\ m \in DOMAIN frames'[k].graph[dmas'[j].tile]
  BY <1>11, RootsStay
<1>13. WalkTypes'
  <2>1. \A k \in DOMAIN frames' : FrameOK(frames'[k])
    BY <1>6, <1>7, <1>10 DEF WalkInv, WalkTypes
  <2>2. clock' \in Nat
    BY <1>3
  <2> QED
    BY <1>3, <1>4, <1>6, <2>1, <2>2 DEF WalkTypes
<1>14. DmasPast'
  <2>1. \A x \in Int : x < clock => x < clock + 1
    BY <1>3
  <2>2. \A j \in DOMAIN dmas : dmas[j].begin < clock + 1 /\ dmas[j].end < clock + 1
    BY <1>3, <2>1, DmasAre, SMTT(60) DEF WalkInv, DmasPast
  <2> QED
    BY <1>3, <2>2 DEF DmasPast
<1>15. PairsTogether'
  <2> SUFFICES ASSUME NEW u \in Tile, NEW x \in DOMAIN dmas, NEW y \in DOMAIN dmas, Inside(y, x),
                      dmas[x].tile = u, dmas[y].tile = u
               PROVE  \E k \in DOMAIN frames' : \E m \in DOMAIN frames'[k].graph[u] :
                         Together(x, y, Root(k, u, m)')
    BY <1>3, ZenonT(60) DEF PairsTogether, Inside
  <2> QED
    BY <1>11, PairStays
<1>16. OpenDmas'
  <2> SUFFICES ASSUME NEW k \in DOMAIN frames', NEW x \in frames'[k].open
               PROVE  x \in DOMAIN dmas' /\ \E m \in DOMAIN frames'[k].graph[dmas'[x].tile] : AwaitedIn(x, k, m)'
    BY DEF OpenDmas
  <2>1. k \in DOMAIN frames /\ frames'[k] = frames[k]
    BY <1>6, <1>7, <1>8
  <2>2. x \in DOMAIN dmas
    BY <2>1 DEF WalkInv, OpenDmas
  <2>3. PICK m \in DOMAIN frames[k].graph[dmas[x].tile] : AwaitedIn(x, k, m)
    BY <2>1 DEF WalkInv, OpenDmas
  <2>4. frames[k].curr # NoDma => m = Len(frames[k].graph[dmas[x].tile])
    BY <2>3 DEF AwaitedIn
  <2> QED
    BY <1>3, <1>12, <2>1, <2>2, <2>3, <2>4
<1>17. Nested'
  <2>1. frames[K].curr # NoDma \/ frames[K].open = {}
    BY <1>2 DEF EnterLoop, GroupAwaited
  <2>2. \A k \in DOMAIN frames' : k < K + 1 => k \in DOMAIN frames /\ (k < K \/ k = K)
    BY <1>2, <1>6
  <2> QED
    BY <1>1, <1>6, <2>1, <2>2 DEF Nested, WalkInv
<1> QED
  BY <1>12, <1>13, <1>14, <1>15, <1>16, <1>17 DEF WalkInv

(* The start: no DMA, one region.                                          *)
LEMMA WalkStarts ==
    ASSUME Init
    PROVE  WalkInv
<1>1. PICK g, b : g = NewFrame(NoLoop, NoLoop) /\ b = EmptyBatch(NoLoop)
  OBVIOUS
<1>2. /\ g = [loop |-> NoLoop, graph |-> [t \in Tile |-> <<b>>], curr |-> NoDma, open |-> {}]
      /\ g.loop = NoLoop /\ g.graph = [t \in Tile |-> <<b>>] /\ g.curr = NoDma /\ g.open = {}
  BY <1>1 DEF NewFrame
<1>3. <<b>> \in Seq({b}) /\ <<b>>[1] = b /\ DOMAIN <<b>> = {1} /\ <<b>> # <<>>
  OBVIOUS
<1>4. \A t \in Tile : IsSeq(g.graph[t]) /\ g.graph[t] # <<>> /\ DOMAIN g.graph[t] = {1} /\ g.graph[t][1] = b
  <2>1. IsSeq(<<b>>)
    BY <1>3, SeqIsSeq
  <2>2. \A t \in Tile : g.graph[t] = <<b>>
    BY <1>2
  <2> QED
    BY <1>3, <2>1, <2>2
<1>5. FrameOK(g)
  <2>1. g.graph = [t \in Tile |-> g.graph[t]]
    BY <1>2
  <2>2. g = [loop |-> g.loop, graph |-> g.graph, curr |-> g.curr, open |-> g.open]
    BY <1>2
  <2>3. g.loop \in Nat
    BY <1>2 DEF NoLoop
  <2> QED
    BY <1>4, <2>1, <2>2, <2>3 DEF FrameOK
<1>6. frames = <<g>> /\ dmas = <<>> /\ loops = <<>> /\ clock = 0
  BY <1>1 DEF Init
<1>7. /\ frames # <<>> /\ DOMAIN frames = {1} /\ frames[1] = g /\ Len(frames) = 1 /\ IsSeq(frames)
  <2>1. <<g>> \in Seq({g}) /\ <<g>>[1] = g /\ DOMAIN <<g>> = {1} /\ <<g>> # <<>> /\ Len(<<g>>) = 1
    OBVIOUS
  <2>2. IsSeq(<<g>>)
    BY <2>1, SeqIsSeq
  <2> QED
    BY <1>6, <2>1, <2>2
<1>8. DOMAIN dmas = {}
  BY <1>6
<1>9. WalkTypes
  BY <1>5, <1>6, <1>7, EmptySeq DEF WalkTypes
<1>10. \A k \in DOMAIN frames : \A t \in Tile : \A m \in DOMAIN frames[k].graph[t] :
          k = 1 /\ m = 1 /\ Root(k, t, m) = b
  BY <1>4, <1>7 DEF Root
<1>11. Tree(b) /\ b.loop = NoLoop /\ \A i : ~In(i, b)
  BY <1>1, EmptyBatchTree
<1>12. RootsAreTrees /\ InOneRoot
  BY <1>10, <1>11 DEF RootsAreTrees, InOneRoot
<1>13. DmasPast /\ PairsTogether
  BY <1>8 DEF DmasPast, PairsTogether
<1>14. OpenDmas /\ Nested
  BY <1>2, <1>7 DEF OpenDmas, Nested
<1> QED
  BY <1>9, <1>12, <1>13, <1>14 DEF WalkInv

(* A loop is left: its batches go inside the last batch of their tile.     *)
LeaveShape(K, J, f, o, g) ==
    /\ K \in Nat /\ J \in 1 .. K /\ K = J + 1 /\ DOMAIN frames = 1 .. K
    /\ IsSeq(frames') /\ frames' # <<>> /\ Len(frames') = J /\ DOMAIN frames' = 1 .. J
    /\ \A k \in 1 .. J : k # J => frames'[k] = frames[k]
    /\ frames'[J] = g /\ FrameOK(g)
    /\ g.curr = o.curr /\ g.open = o.open
    /\ \A u \in Tile : DOMAIN g.graph[u] = DOMAIN o.graph[u] /\ Len(g.graph[u]) = Len(o.graph[u])
    /\ \A u \in Tile : g.graph[u][Len(o.graph[u])] = Adopt(o.graph[u][Len(o.graph[u])], f.graph[u])
    /\ \A u \in Tile : \A m \in DOMAIN o.graph[u] :
          m # Len(o.graph[u]) => g.graph[u][m] = o.graph[u][m]

LEMMA LeaveFrames ==
    ASSUME WalkInv, LeaveLoop, NEW K, K = Len(frames), NEW J, J = K - 1, NEW f, f = frames[K],
           NEW o, o = frames[J], NEW g, g = frames'[J]
    PROVE  LeaveShape(K, J, f, o, g)
<1>1. /\ K \in Nat \ {0} /\ DOMAIN frames = 1 .. K /\ K \in DOMAIN frames /\ Top = f
      /\ IsSeq(frames) /\ frames # <<>>
  BY FramesAre DEF WalkInv, WalkTypes
<1>2. K > 1
  BY DEF LeaveLoop
<1>3. J \in 1 .. K /\ J \in Nat \ {0} /\ K = J + 1 /\ J \in DOMAIN frames
  BY <1>1, <1>2
<1>4. /\ FrameOK(o) /\ \A u \in Tile : /\ IsSeq(o.graph[u]) /\ o.graph[u] # <<>>
                                       /\ DOMAIN o.graph[u] = 1 .. Len(o.graph[u])
  BY <1>3, FramesAre
<1>5. PICK F : F = Front(frames)
  OBVIOUS
<1>6. /\ IsSeq(F) /\ Len(F) = J /\ \A k \in 1 .. J : F[k] = frames[k]
  <2>1. /\ IsSeq(Front(frames)) /\ Len(Front(frames)) = Len(frames) - 1
        /\ \A k \in 1 .. Len(frames) - 1 : Front(frames)[k] = frames[k]
    BY <1>1, FrontIs
  <2> QED
    BY <1>5, <2>1
<1>7. DOMAIN F = 1 .. J /\ F # <<>> /\ Last(F) = o
  <2>1. DOMAIN F = 1 .. J
    BY <1>6, LenIs
  <2>2. F # <<>>
    BY <1>3, <1>6, EmptySeq
  <2>3. J \in 1 .. J
    BY <1>3
  <2> QED
    BY <1>6, <2>1, <2>2, <2>3 DEF Last
<1>8. PICK G : G = [t \in Tile |-> SetLast(o.graph[t], Adopt(Last(o.graph[t]), f.graph[t]))]
  OBVIOUS
<1>9. PICK e : e = [o EXCEPT !.graph = G]
  OBVIOUS
<1>10. frames' = SetLast(F, e)
  <2>1. Last(Front(frames)) = o
    BY <1>5, <1>7
  <2> QED
    BY <1>1, <1>5, <1>8, <1>9, <2>1 DEF LeaveLoop
<1>11. IsSeq(frames') /\ Replaced(frames', F, e)
  BY <1>6, <1>7, <1>10, SetLastIs
<1>12. /\ frames' # <<>> /\ Len(frames') = J /\ DOMAIN frames' = 1 .. J /\ frames'[J] = e
       /\ \A k \in 1 .. J : k # J => frames'[k] = F[k]
  BY <1>6, <1>11 DEF Replaced
<1>13. e = [loop |-> o.loop, graph |-> G, curr |-> o.curr, open |-> o.open]
  BY <1>4, <1>9 DEF FrameOK
<1>14. /\ g = e /\ g.loop = o.loop /\ g.graph = G /\ g.curr = o.curr /\ g.open = o.open
       /\ g = [loop |-> g.loop, graph |-> g.graph, curr |-> g.curr, open |-> g.open]
  BY <1>12, <1>13
<1>15. ASSUME NEW u \in Tile
       PROVE  /\ IsSeq(G[u]) /\ G[u] # <<>>
              /\ DOMAIN G[u] = DOMAIN o.graph[u] /\ Len(G[u]) = Len(o.graph[u])
              /\ G[u][Len(o.graph[u])] = Adopt(o.graph[u][Len(o.graph[u])], f.graph[u])
              /\ \A m \in DOMAIN o.graph[u] : m # Len(o.graph[u]) => G[u][m] = o.graph[u][m]
  <2>1. PICK s, a, q : /\ s = o.graph[u] /\ a = Adopt(Last(s), f.graph[u]) /\ q = SetLast(s, a)
    OBVIOUS
  <2>2. G[u] = q
    BY <1>8, <2>1
  <2>3. IsSeq(q) /\ Replaced(q, s, a)
    BY <1>4, <2>1, SetLastIs
  <2>4. a = Adopt(s[Len(s)], f.graph[u])
    BY <2>1 DEF Last
  <2>5. DOMAIN s = 1 .. Len(s)
    BY <1>4, <2>1
  <2>6. /\ q # <<>> /\ DOMAIN q = DOMAIN s /\ Len(q) = Len(s) /\ q[Len(s)] = a
        /\ \A m \in DOMAIN s : m # Len(s) => q[m] = s[m]
    BY <2>3, <2>5 DEF Replaced
  <2> QED
    BY <2>1, <2>2, <2>3, <2>4, <2>6, ZenonT(60)
<1>16. FrameOK(g)
  <2>1. g.graph = [u \in Tile |-> g.graph[u]]
    BY <1>8, <1>14
  <2>2. g.loop \in Nat
    BY <1>4, <1>14 DEF FrameOK
  <2>3. \A u \in Tile : IsSeq(g.graph[u]) /\ g.graph[u] # <<>>
    BY <1>14, <1>15
  <2> QED
    BY <1>14, <2>1, <2>2, <2>3 DEF FrameOK
<1>17. \A k \in 1 .. J : k # J => frames'[k] = frames[k]
  BY <1>6, <1>12
<1>18. /\ \A u \in Tile : DOMAIN g.graph[u] = DOMAIN o.graph[u] /\ Len(g.graph[u]) = Len(o.graph[u])
       /\ \A u \in Tile : g.graph[u][Len(o.graph[u])] = Adopt(o.graph[u][Len(o.graph[u])], f.graph[u])
       /\ \A u \in Tile : \A m \in DOMAIN o.graph[u] :
             m # Len(o.graph[u]) => g.graph[u][m] = o.graph[u][m]
  BY <1>14, <1>15
<1> QED
  BY <1>1, <1>3, <1>11, <1>12, <1>14, <1>16, <1>17, <1>18 DEF LeaveShape

LEMMA AddedByNat ==
    ASSUME loops \in Seq(Loops), NEW b, Tree(b), b.loop \in {NoLoop} \cup DOMAIN loops
    PROVE  AddedBy(b) \in Nat
<1>1. Node(b)
  BY TreeSplit
<1>2. Len(b.ops) \in Nat /\ b.innerReq \in Nat
  BY <1>1, LenProperties DEF Node
<1>3. \A x, y \in Nat : x * y \in Nat
  OBVIOUS
<1>4. \A x \in Nat, y \in Nat \ {0} : x \div y \in Nat
  OBVIOUS
<1>5. CASE b.loop = NoLoop
  BY <1>2, <1>5 DEF AddedBy
<1>6. CASE b.loop # NoLoop
  <2>1. loops[b.loop] \in [ub : Nat, step : Nat \ {0}, forall : BOOLEAN]
    <3>1. b.loop \in 1 .. Len(loops)
      BY <1>6, LenProperties
    <3> QED
      BY <3>1, ElementOfSeq, LoopsAssumption
  <2>2. PICK n : n = NumIterations(b.loop)
    OBVIOUS
  <2>3. n \in Nat
    <3>1. loops[b.loop].ub \in Nat /\ loops[b.loop].step \in Nat \ {0}
      BY <2>1
    <3>2. loops[b.loop].ub \div loops[b.loop].step \in Nat
      BY <1>4, <3>1
    <3> QED
      BY <2>2, <3>2 DEF NumIterations
  <2>4. b.innerReq * n \in Nat
    BY <1>2, <1>3, <2>3
  <2>5. AddedBy(b) = Len(b.ops) + b.innerReq * n
    BY <1>6, <2>2 DEF AddedBy
  <2> QED
    BY <1>2, <2>4, <2>5
<1> QED
  BY <1>5, <1>6

LEMMA LoopLeft ==
    ASSUME WalkInv, LeaveLoop
    PROVE  WalkInv'
<1>1. PICK K, J, f, o, g : /\ K = Len(frames) /\ J = K - 1 /\ f = frames[K] /\ o = frames[J]
                           /\ g = frames'[J]
  OBVIOUS
<1>2. LeaveShape(K, J, f, o, g)
  BY <1>1, LeaveFrames
<1>3. /\ K \in Nat /\ J \in 1 .. K /\ K = J + 1 /\ DOMAIN frames = 1 .. K /\ DOMAIN frames' = 1 .. J
      /\ \A k \in 1 .. J : k \in DOMAIN frames /\ k # K
      /\ K \in DOMAIN frames /\ J \in DOMAIN frames /\ J \in DOMAIN frames' /\ J # K
      /\ \A k \in DOMAIN frames : k = K \/ k \in DOMAIN frames'
  BY <1>2 DEF LeaveShape
<1>4. /\ dmas \in Seq([tile : Tile, loop : Nat, begin : Nat, end : Int]) /\ clock \in Nat
      /\ loops \in Seq(Loops) /\ clock' = clock + 1 /\ dmas' = dmas /\ loops' = loops
  BY DEF WalkInv, WalkTypes, LeaveLoop, Walk
<1>5. \A k \in DOMAIN frames : \A u \in Tile :
         /\ IsSeq(frames[k].graph[u]) /\ DOMAIN frames[k].graph[u] = 1 .. Len(frames[k].graph[u])
         /\ Len(frames[k].graph[u]) \in DOMAIN frames[k].graph[u]
  BY FramesAre
<1>6. \A k \in DOMAIN frames : \A u \in Tile : \A m \in DOMAIN frames[k].graph[u] :
         /\ Tree(Root(k, u, m)) /\ Root(k, u, m).loop \in {NoLoop} \cup DOMAIN loops
         /\ \A i : In(i, Root(k, u, m)) => i \in DOMAIN dmas /\ dmas[i].tile = u
  BY DEF WalkInv, RootsAreTrees
<1>7. \A k, l \in DOMAIN frames : \A u \in Tile :
        \A m \in DOMAIN frames[k].graph[u], n \in DOMAIN frames[l].graph[u] : \A i :
            In(i, Root(k, u, m)) /\ In(i, Root(l, u, n)) => k = l /\ m = n
  BY DEF WalkInv, InOneRoot
<1>8. ASSUME NEW u \in Tile
      PROVE  AdoptedUpTo(Root(J, u, Len(o.graph[u]))', Root(J, u, Len(o.graph[u])),
                         f.graph[u], Len(f.graph[u]))
  <2>1. PICK M, a, b, q : /\ M = Len(o.graph[u]) /\ a = Root(J, u, M)' /\ b = Root(J, u, M)
                          /\ q = f.graph[u]
    OBVIOUS
  <2>2. M \in DOMAIN frames[J].graph[u] /\ IsSeq(q) /\ DOMAIN frames[K].graph[u] = 1 .. Len(q)
    BY <1>1, <1>3, <1>5, <2>1
  <2>3. a = Adopt(b, q)
    BY <1>1, <1>2, <2>1 DEF LeaveShape, Root
  <2>4. Tree(b)
    BY <1>3, <1>6, <2>1, <2>2
  <2>5. \A k \in 1 .. Len(q) : q[k] = Root(K, u, k)
    BY <1>1, <2>1 DEF Root
  <2>6. ASSUME NEW k \in 1 .. Len(q) PROVE Tree(q[k]) /\ AddedBy(q[k]) \in Nat
    <3>1. k \in DOMAIN frames[K].graph[u] /\ q[k] = Root(K, u, k)
      BY <2>2, <2>5
    <3>2. Tree(q[k]) /\ q[k].loop \in {NoLoop} \cup DOMAIN loops
      BY <1>3, <1>6, <3>1
    <3> QED
      BY <1>4, <3>2, AddedByNat
  <2>7. \A i : \A k \in 1 .. Len(q) : ~(In(i, b) /\ In(i, q[k]))
    BY <1>3, <1>7, <2>1, <2>2, <2>5
  <2>8. \A i : \A k, l \in 1 .. Len(q) : In(i, q[k]) /\ In(i, q[l]) => k = l
    BY <1>3, <1>7, <2>2, <2>5
  <2>9. AdoptedUpTo(Adopt(b, q), b, q, Len(q))
    BY <2>2, <2>4, <2>6, <2>7, <2>8, Adopted
  <2> QED
    BY <2>1, <2>3, <2>9
<1>9. ASSUME NEW u \in Tile, NEW M, M = Len(o.graph[u])
      PROVE  /\ Tree(Root(J, u, M)') /\ Root(J, u, M)'.loop = Root(J, u, M).loop
             /\ Root(J, u, M)'.ops = Root(J, u, M).ops
             /\ \A i : In(i, Root(J, u, M)') <=>
                   \/ In(i, Root(J, u, M))
                   \/ \E m \in DOMAIN frames[K].graph[u] : In(i, Root(K, u, m))
             /\ \A x, y : \/ Together(x, y, Root(J, u, M))
                          \/ \E m \in DOMAIN frames[K].graph[u] : Together(x, y, Root(K, u, m))
                          => Together(x, y, Root(J, u, M)')
  <2>1. PICK a, b, q : a = Root(J, u, M)' /\ b = Root(J, u, M) /\ q = f.graph[u]
    OBVIOUS
  <2>2. AdoptedUpTo(a, b, q, Len(q))
    BY <1>8, <1>9, <2>1
  <2>3. DOMAIN frames[K].graph[u] = 1 .. Len(q)
    BY <1>1, <1>3, <1>5, <2>1
  <2>4. \A k \in 1 .. Len(q) : q[k] = Root(K, u, k)
    BY <1>1, <2>1 DEF Root
  <2>5. \A i : In(i, a) <=> In(i, b) \/ \E m \in 1 .. Len(q) : In(i, Root(K, u, m))
    BY <2>2, <2>4 DEF AdoptedUpTo
  <2>6. \A x, y : Together(x, y, b) \/ (\E m \in 1 .. Len(q) : Together(x, y, Root(K, u, m)))
                  => Together(x, y, a)
    BY <2>2, <2>4 DEF AdoptedUpTo
  <2>7. Tree(a) /\ a.loop = b.loop /\ a.ops = b.ops
    BY <2>2 DEF AdoptedUpTo
  <2> QED
    BY <2>1, <2>3, <2>5, <2>6, <2>7
<1>10. \A k \in DOMAIN frames' : \A u \in Tile :
          DOMAIN frames'[k].graph[u] = DOMAIN frames[k].graph[u]
  BY <1>1, <1>2, <1>3, ZenonT(60) DEF LeaveShape
<1>11. \A k \in DOMAIN frames' : \A u \in Tile : \A m \in DOMAIN frames[k].graph[u] :
          k # J \/ m # Len(o.graph[u]) => Root(k, u, m)' = Root(k, u, m)
  <2> SUFFICES ASSUME NEW k \in DOMAIN frames', NEW u \in Tile, NEW m \in DOMAIN frames[k].graph[u],
                      k # J \/ m # Len(o.graph[u])
               PROVE  Root(k, u, m)' = Root(k, u, m)
    OBVIOUS
  <2>1. CASE k = J
    <3>1. g.graph[u][m] = o.graph[u][m]
      BY <1>1, <1>2, <2>1 DEF LeaveShape
    <3> QED
      BY <1>1, <2>1, <3>1 DEF Root
  <2>2. CASE k # J
    <3>1. frames'[k] = frames[k]
      BY <1>2, <1>3, <2>2 DEF LeaveShape
    <3> QED
      BY <3>1 DEF Root
  <2> QED
    BY <2>1, <2>2
<1>12. \A u \in Tile : Len(o.graph[u]) \in DOMAIN frames[J].graph[u]
  BY <1>1, <1>3, <1>5
\* What is in a batch afterwards was in it or in one of the loop's.
<1>13. ASSUME NEW k \in DOMAIN frames', NEW u \in Tile, NEW m \in DOMAIN frames[k].graph[u], NEW i
       PROVE  In(i, Root(k, u, m)') <=>
                 \/ In(i, Root(k, u, m))
                 \/ /\ k = J /\ m = Len(o.graph[u])
                    /\ \E n \in DOMAIN frames[K].graph[u] : In(i, Root(K, u, n))
  <2>1. CASE k = J /\ m = Len(o.graph[u])
    BY <1>9, <2>1
  <2>2. CASE ~(k = J /\ m = Len(o.graph[u]))
    <3>1. Root(k, u, m)' = Root(k, u, m)
      BY <1>11, <2>2
    <3> QED
      BY <2>2, <3>1
  <2> QED
    BY <2>1, <2>2
<1>14. ASSUME NEW k \in DOMAIN frames', NEW u \in Tile, NEW m \in DOMAIN frames[k].graph[u],
              NEW x, NEW y, Together(x, y, Root(k, u, m))
       PROVE  Together(x, y, Root(k, u, m)')
  <2>1. CASE k = J /\ m = Len(o.graph[u])
    BY <1>9, <1>14, <2>1
  <2>2. CASE ~(k = J /\ m = Len(o.graph[u]))
    <3>1. Root(k, u, m)' = Root(k, u, m)
      BY <1>11, <2>2
    <3> QED
      BY <1>14, <3>1
  <2> QED
    BY <2>1, <2>2
<1>15. WalkTypes'
  <2>1. IsSeq(frames') /\ frames' # <<>>
    BY <1>2 DEF LeaveShape
  <2>2. \A k \in DOMAIN frames' : FrameOK(frames'[k])
    BY <1>2, <1>3 DEF LeaveShape, WalkInv, WalkTypes
  <2>3. clock' \in Nat
    BY <1>4
  <2> QED
    BY <1>4, <2>1, <2>2, <2>3 DEF WalkTypes
<1>16. DmasPast'
  <2>1. \A x \in Int : x < clock => x < clock + 1
    BY <1>4
  <2>2. \A j \in DOMAIN dmas : dmas[j].begin < clock + 1 /\ dmas[j].end < clock + 1
    BY <1>4, <2>1, DmasAre DEF WalkInv, DmasPast
  <2> QED
    BY <1>4, <2>2 DEF DmasPast
<1>17. RootsAreTrees'
  <2> SUFFICES ASSUME NEW k \in DOMAIN frames', NEW u \in Tile, NEW m \in DOMAIN frames[k].graph[u]
               PROVE  /\ Tree(Root(k, u, m)') /\ Root(k, u, m)'.loop \in {NoLoop} \cup DOMAIN loops
                      /\ \A i : In(i, Root(k, u, m)') => i \in DOMAIN dmas /\ dmas[i].tile = u
    BY <1>4, <1>10 DEF RootsAreTrees
  <2>1. k \in DOMAIN frames
    BY <1>3
  <2>2. \A i : In(i, Root(k, u, m)') => i \in DOMAIN dmas /\ dmas[i].tile = u
    BY <1>3, <1>6, <1>13, <2>1
  <2>3. Tree(Root(k, u, m)') /\ Root(k, u, m)'.loop \in {NoLoop} \cup DOMAIN loops
    <3>1. CASE k = J /\ m = Len(o.graph[u])
      BY <1>6, <1>9, <2>1, <3>1
    <3>2. CASE ~(k = J /\ m = Len(o.graph[u]))
      <4>1. Root(k, u, m)' = Root(k, u, m)
        BY <1>11, <3>2
      <4> QED
        BY <1>6, <2>1, <4>1
    <3> QED
      BY <3>1, <3>2
  <2> QED
    BY <2>2, <2>3
<1>18. InOneRoot'
  <2> SUFFICES ASSUME NEW k \in DOMAIN frames', NEW l \in DOMAIN frames', NEW u \in Tile,
                      NEW m \in DOMAIN frames[k].graph[u], NEW n \in DOMAIN frames[l].graph[u],
                      NEW i, In(i, Root(k, u, m)'), In(i, Root(l, u, n)')
               PROVE  k = l /\ m = n
    BY <1>10 DEF InOneRoot
  <2>1. k \in DOMAIN frames /\ l \in DOMAIN frames /\ k # K /\ l # K
    BY <1>3
  <2>2. \/ In(i, Root(k, u, m))
        \/ /\ k = J /\ m = Len(o.graph[u])
           /\ \E r \in DOMAIN frames[K].graph[u] : In(i, Root(K, u, r))
    BY <1>13
  <2>3. \/ In(i, Root(l, u, n))
        \/ /\ l = J /\ n = Len(o.graph[u])
           /\ \E r \in DOMAIN frames[K].graph[u] : In(i, Root(K, u, r))
    BY <1>13
  <2> QED
    BY <1>3, <1>7, <2>1, <2>2, <2>3
<1>19. PairsTogether'
  <2> SUFFICES ASSUME NEW u \in Tile, NEW x \in DOMAIN dmas, NEW y \in DOMAIN dmas, Inside(y, x),
                      dmas[x].tile = u, dmas[y].tile = u
               PROVE  \E k \in DOMAIN frames' : \E m \in DOMAIN frames'[k].graph[u] :
                         Together(x, y, Root(k, u, m)')
    <3>1. dmas' = dmas
      BY <1>4
    <3>2. \A x, y : Inside(y, x)' <=> Inside(y, x)
      BY <3>1 DEF Inside
    <3> QED
      BY <3>1, <3>2 DEF PairsTogether
  <2>1. PICK k \in DOMAIN frames : \E m \in DOMAIN frames[k].graph[u] : Together(x, y, Root(k, u, m))
    BY DEF WalkInv, PairsTogether
  <2>2. PICK m \in DOMAIN frames[k].graph[u] : Together(x, y, Root(k, u, m))
    BY <2>1
  <2>3. CASE k = K
    <3>1. Together(x, y, Root(J, u, Len(o.graph[u]))')
      BY <1>9, <2>2, <2>3
    <3> QED
      BY <1>3, <1>10, <1>12, <3>1
  <2>4. CASE k # K
    <3>1. k \in DOMAIN frames'
      BY <1>3, <2>4
    <3> QED
      BY <1>10, <1>14, <2>2, <3>1
  <2> QED
    BY <2>3, <2>4
<1>20. OpenDmas'
  <2> SUFFICES ASSUME NEW k \in DOMAIN frames', NEW i \in frames'[k].open
               PROVE  i \in DOMAIN dmas /\ \E m \in DOMAIN frames[k].graph[dmas[i].tile] : AwaitedIn(i, k, m)'
    <3>1. \A i \in DOMAIN dmas : dmas[i].tile \in Tile
      BY <1>4, DmasAre
    <3> QED
      BY <1>4, <1>10, <3>1 DEF OpenDmas
  <2>1. k \in DOMAIN frames /\ k # K /\ frames'[k].open = frames[k].open /\ frames'[k].curr = frames[k].curr
    BY <1>1, <1>2, <1>3 DEF LeaveShape
  <2>2. i \in DOMAIN dmas
    BY <2>1 DEF WalkInv, OpenDmas
  <2>3. PICK u : u = dmas[i].tile
    OBVIOUS
  <2>4. u \in Tile
    BY <1>4, <2>2, <2>3, DmasAre
  <2>5. PICK m \in DOMAIN frames[k].graph[u] : AwaitedIn(i, k, m)
    BY <2>1, <2>3 DEF WalkInv, OpenDmas
  <2>6. /\ i \in ToSet(Root(k, u, m).ops)
        /\ frames[k].curr # NoDma => m = Len(frames[k].graph[u])
        /\ \A j \in DOMAIN dmas : dmas[j].tile = u /\ dmas[i].begin < dmas[j].begin =>
              \/ In(j, Root(k, u, m))
              \/ \E l \in DOMAIN frames : k < l /\ \E n \in DOMAIN frames[l].graph[u] :
                    In(j, Root(l, u, n))
    BY <2>3, <2>5 DEF AwaitedIn
  <2>7. i \in ToSet(Root(k, u, m)'.ops)
    <3>1. CASE k = J /\ m = Len(o.graph[u])
      BY <1>9, <2>4, <2>6, <3>1
    <3>2. CASE ~(k = J /\ m = Len(o.graph[u]))
      BY <1>11, <2>4, <2>6, <3>2
    <3> QED
      BY <3>1, <3>2
  <2>8. Len(frames'[k].graph[u]) = Len(frames[k].graph[u])
    BY <1>1, <1>2, <1>3, <2>4, ZenonT(60) DEF LeaveShape
  <2>9. frames[k].curr # NoDma
    <3>1. k < K
      BY <1>3
    <3> QED
      BY <1>1, <2>1, <3>1 DEF WalkInv, Nested
  <2>10. ASSUME NEW j \in DOMAIN dmas, dmas[j].tile = u, dmas[i].begin < dmas[j].begin
         PROVE  \/ In(j, Root(k, u, m)')
                \/ \E l \in DOMAIN frames' : k < l /\ \E n \in DOMAIN frames'[l].graph[u] :
                      In(j, Root(l, u, n)')
    <3>1. CASE In(j, Root(k, u, m))
      BY <1>13, <2>4, <3>1
    <3>2. CASE ~In(j, Root(k, u, m))
      <4>1. PICK l \in DOMAIN frames : k < l /\ \E n \in DOMAIN frames[l].graph[u] : In(j, Root(l, u, n))
        BY <2>6, <2>10, <3>2
      <4>2. PICK n \in DOMAIN frames[l].graph[u] : In(j, Root(l, u, n))
        BY <4>1
      <4>3. CASE l = K
        <5>1. In(j, Root(J, u, Len(o.graph[u]))')
          BY <1>9, <2>4, <4>2, <4>3
        <5>2. CASE k = J
          <6>1. m = Len(o.graph[u])
            BY <1>1, <2>6, <2>9, <5>2
          <6> QED
            BY <5>1, <5>2, <6>1
        <5>3. CASE k # J
          <6>1. k < J
            BY <1>3, <5>3
          <6>2. Len(o.graph[u]) \in DOMAIN frames'[J].graph[u]
            BY <1>3, <1>10, <1>12, <2>4
          <6> QED
            BY <1>3, <5>1, <6>1, <6>2
        <5> QED
          BY <5>2, <5>3
      <4>4. CASE l # K
        <5>1. l \in DOMAIN frames'
          BY <1>3, <4>4
        <5>2. In(j, Root(l, u, n)') /\ n \in DOMAIN frames'[l].graph[u]
          BY <1>10, <1>13, <2>4, <4>2, <5>1
        <5> QED
          BY <4>1, <5>1, <5>2
      <4> QED
        BY <4>3, <4>4
    <3> QED
      BY <3>1, <3>2
  <2>11. AwaitedIn(i, k, m)'
    <3>1. dmas'[i].tile = u /\ m = Len(frames'[k].graph[u])
      BY <1>4, <2>3, <2>6, <2>8, <2>9
    <3> QED
      BY <1>4, <2>7, <2>10, <3>1 DEF AwaitedIn
  <2> QED
    BY <2>2, <2>3, <2>5, <2>11
<1>21. Nested'
  <2>1. ASSUME NEW k \in DOMAIN frames', k < J
        PROVE  frames'[k].curr # NoDma \/ frames'[k].open = {}
    <3>1. frames'[k] = frames[k] /\ k \in DOMAIN frames /\ k < K
      BY <1>2, <1>3, <2>1 DEF LeaveShape
    <3> QED
      BY <1>1, <3>1 DEF WalkInv, Nested
  <2>2. Len(frames') = J
    BY <1>2 DEF LeaveShape
  <2> QED
    BY <2>1, <2>2 DEF Nested
<1> QED
  BY <1>15, <1>16, <1>17, <1>18, <1>19, <1>20, <1>21 DEF WalkInv

-----------------------------------------------------------------------------
(* The list of a set's elements, and the entries of a sequence of          *)
(* sequences one after the other.                                          *)
LEMMA FunIsSeq ==
    ASSUME NEW n \in Nat, NEW S, NEW f \in [1 .. n -> S]
    PROVE  f \in Seq(S) /\ Len(f) = n
  OBVIOUS

LEMMA ListedSet ==
    ASSUME NEW S, IsFiniteSet(S), NEW s, s = SetToSeq(S)
    PROVE  /\ Cardinality(S) \in Nat /\ s \in [1 .. Cardinality(S) -> S]
           /\ \A k, l \in 1 .. Cardinality(S) : s[k] = s[l] => k = l
           /\ \A e \in S : \E k \in 1 .. Cardinality(S) : s[k] = e
<1>1. PICK n : n = Cardinality(S)
  OBVIOUS
<1>2. n \in Nat /\ ExistsBijection(1 .. n, S)
  BY <1>1, FS_CardinalityType
<1>3. PICK f : f \in Bijection(1 .. n, S)
  BY <1>2 DEF ExistsBijection
<1>4. f \in [1 .. n -> S] /\ IsInjective(f)
  BY <1>3 DEF Bijection, Injection
<1>5. s \in [1 .. n -> S] /\ IsInjective(s)
  BY <1>1, <1>4 DEF SetToSeq
<1>6. s \in Injection(1 .. n, S)
  BY <1>5 DEF Injection
<1>7. IsFiniteSet(1 .. n) /\ Cardinality(1 .. n) = n
  BY <1>2, FS_Interval
<1>8. s \in Surjection(1 .. n, S)
  BY <1>1, <1>6, <1>7, FS_Injection
<1> QED
  BY <1>1, <1>2, <1>5, <1>8 DEF Surjection, IsInjective

IsFlattening(f, seqs, n) ==
    f = [i \in 1 .. n |-> IF i = 1 THEN seqs[i] ELSE f[i - 1] \o seqs[i]]

LEMMA FlattenSteps ==
    ASSUME NEW S, NEW seqs, IsSeq(seqs), \A k \in 1 .. Len(seqs) : seqs[k] \in Seq(S)
    PROVE  \E h : /\ h[0] = <<>> /\ h[Len(seqs)] = FlattenSeq(seqs)
                  /\ \A n \in 1 .. Len(seqs) : h[n] = h[n - 1] \o seqs[n]
<1>1. PICK N : N = Len(seqs)
  OBVIOUS
<1>2. N \in Nat
  BY <1>1, LenIs
<1>3. CASE N = 0
  <2> DEFINE h == [n \in 0 .. 0 |-> <<>>]
  <2>1. seqs = <<>>
    BY <1>1, <1>3, LenIs
  <2>2. FlattenSeq(seqs) = seqs
    BY <1>1, <1>3 DEF FlattenSeq
  <2>3. h[0] = <<>> /\ h[N] = FlattenSeq(seqs) /\ \A n \in 1 .. N : h[n] = h[n - 1] \o seqs[n]
    BY <1>3, <2>1, <2>2
  <2> HIDE DEF h
  <2> QED
    BY <1>1, <2>3
<1>4. CASE N # 0
  <2> DEFINE H == [x \in (1 .. N) \X Seq(S) |-> x[2] \o seqs[x[1]]]
  <2>1. H \in [(1 .. N) \X Seq(S) -> Seq(S)]
    <3>1. \A n \in 1 .. N, q \in Seq(S) : q \o seqs[n] \in Seq(S)
      BY <1>1, ConcatProperties
    <3> QED
      BY <3>1
  <2>2. <<>> \in Seq(S)
    BY EmptySeq
  <2>3. PICK f \in [0 .. N -> Seq(S)] : Steps(f, <<>>, H, N)
    <3> HIDE DEF H
    <3> QED
      BY <1>2, <2>1, <2>2, StepsExist
  <2>4. ASSUME NEW n \in 1 .. N PROVE f[n] = f[n - 1] \o seqs[n] /\ n - 1 \in 0 .. N /\ n \in 0 .. N
    <3>1. n - 1 \in 0 .. N /\ n \in 0 .. N
      BY <1>2
    <3>2. f[n - 1] \in Seq(S)
      BY <2>3, <3>1
    <3> QED
      BY <2>3, <3>1, <3>2 DEF Steps
  <2> DEFINE r == [i \in 1 .. N |-> f[i]]
  <2>5. IsFlattening(r, seqs, N)
    <3>1. ASSUME NEW i \in 1 .. N PROVE r[i] = IF i = 1 THEN seqs[i] ELSE r[i - 1] \o seqs[i]
      <4>1. CASE i = 1
        <5>1. f[1] = f[0] \o seqs[1] /\ f[0] = <<>>
          <6>1. 1 \in 1 .. N /\ 1 - 1 = 0
            BY <1>2, <1>4
          <6> QED
            BY <2>3, <2>4, <6>1 DEF Steps
        <5>2. seqs[1] \in Seq(S)
          BY <1>1, <4>1
        <5>3. f[1] = seqs[1]
          BY <5>1, <5>2, ConcatEmptySeq
        <5> QED
          BY <4>1, <5>3
      <4>2. CASE i # 1
        <5>1. i - 1 \in 1 .. N
          BY <1>2, <4>2
        <5>2. r[i - 1] = f[i - 1] /\ r[i] = f[i]
          BY <5>1
        <5> HIDE DEF r
        <5> QED
          BY <2>4, <4>2, <5>2
      <4> QED
        BY <4>1, <4>2
    <3>2. r = [i \in 1 .. N |-> r[i]]
      OBVIOUS
    <3> HIDE DEF r
    <3> QED
      BY <3>1, <3>2 DEF IsFlattening
  <2> HIDE DEF r
  <2>6. PICK g : IsFlattening(g, seqs, N) /\ FlattenSeq(seqs) = g[N]
    <3> DEFINE c == CHOOSE h : IsFlattening(h, seqs, N)
    <3>1. IsFlattening(c, seqs, N)
      BY <2>5
    <3>2. FlattenSeq(seqs) = c[N]
      <4>1. Len(seqs) = N /\ N # 0
        BY <1>1, <1>4
      <4>2. FlattenSeq(seqs) =
              (CHOOSE h : h = [i \in 1 .. Len(seqs) |->
                                 IF i = 1 THEN seqs[i] ELSE h[i - 1] \o seqs[i]])[Len(seqs)]
        BY <4>1 DEF FlattenSeq
      <4> QED
        BY <4>1, <4>2 DEF IsFlattening
    <3> QED
      BY <3>1, <3>2
  <2>7. \A i \in 1 .. N : g[i] = IF i = 1 THEN seqs[i] ELSE g[i - 1] \o seqs[i]
    BY <2>6 DEF IsFlattening
  <2> DEFINE h == [n \in 0 .. N |-> IF n = 0 THEN <<>> ELSE g[n]]
  <2>8. ASSUME NEW n \in 1 .. N PROVE h[n] = h[n - 1] \o seqs[n]
    <3>1. n \in 0 .. N /\ n - 1 \in 0 .. N /\ n # 0 /\ (n # 1 => n - 1 # 0)
      BY <1>2
    <3>2. h[n] = g[n] /\ (n # 1 => h[n - 1] = g[n - 1])
      BY <3>1
    <3>3. CASE n = 1
      <4>1. h[n - 1] = <<>>
        BY <1>2, <3>3
      <4>2. g[n] = seqs[n]
        BY <2>7, <3>3
      <4>3. <<>> \o seqs[n] = seqs[n]
        BY <1>1, ConcatEmptySeq
      <4> HIDE DEF h
      <4> QED
        BY <3>2, <4>1, <4>2, <4>3
    <3>4. CASE n # 1
      <4>1. g[n] = g[n - 1] \o seqs[n]
        BY <2>7, <3>4
      <4> HIDE DEF h
      <4> QED
        BY <3>2, <3>4, <4>1
    <3> QED
      BY <3>3, <3>4
  <2>9. h[0] = <<>> /\ h[N] = FlattenSeq(seqs)
    BY <1>2, <1>4, <2>6
  <2> HIDE DEF h
  <2> QED
    BY <1>1, <2>8, <2>9
<1> QED
  BY <1>3, <1>4

\* Entry p of q is entry col[p] of sequence row[p], every entry once.
Places(q, seqs, n, row, col) ==
    /\ \A p \in DOMAIN q : /\ row[p] \in 1 .. n /\ col[p] \in DOMAIN seqs[row[p]]
                           /\ q[p] = seqs[row[p]][col[p]]
    /\ \A p, r \in DOMAIN q : row[p] = row[r] /\ col[p] = col[r] => p = r
    /\ \A k \in 1 .. n : \A m \in DOMAIN seqs[k] : \E p \in DOMAIN q : row[p] = k /\ col[p] = m
Flat(q, seqs, n) == IsSeq(q) /\ \E row, col : Places(q, seqs, n, row, col)

LEMMA OneMore ==
    ASSUME NEW seqs, NEW n \in Nat \ {0}, NEW q, Flat(q, seqs, n - 1), IsSeq(seqs[n]),
           NEW r, r = q \o seqs[n]
    PROVE  Flat(r, seqs, n)
<1>1. PICK row, col : IsSeq(q) /\ Places(q, seqs, n - 1, row, col)
  BY DEF Flat
<1>2. PICK s, L, M : s = seqs[n] /\ L = Len(q) /\ M = Len(s)
  OBVIOUS
<1>3. /\ IsSeq(r) /\ Len(r) = L + M /\ \A k \in 1 .. L : r[k] = q[k]
      /\ \A k \in 1 .. M : r[L + k] = s[k]
  BY <1>1, <1>2, ConcatIs
<1>4. L \in Nat /\ M \in Nat /\ DOMAIN q = 1 .. L /\ DOMAIN s = 1 .. M /\ DOMAIN r = 1 .. L + M
  BY <1>1, <1>2, <1>3, LenIs
<1>12. /\ \A p \in 1 .. L : /\ row[p] \in 1 .. n - 1 /\ col[p] \in DOMAIN seqs[row[p]]
                            /\ q[p] = seqs[row[p]][col[p]]
       /\ \A p, x \in 1 .. L : row[p] = row[x] /\ col[p] = col[x] => p = x
       /\ \A k \in 1 .. n - 1 : \A m \in DOMAIN seqs[k] : \E p \in 1 .. L : row[p] = k /\ col[p] = m
  <2>1. DOMAIN q = 1 .. L
    BY <1>4
  <2>2. \A p \in DOMAIN q : /\ row[p] \in 1 .. n - 1 /\ col[p] \in DOMAIN seqs[row[p]]
                             /\ q[p] = seqs[row[p]][col[p]]
    BY <1>1 DEF Places
  <2>3. \A p, x \in DOMAIN q : row[p] = row[x] /\ col[p] = col[x] => p = x
    BY <1>1 DEF Places
  <2>4. \A k \in 1 .. n - 1 : \A m \in DOMAIN seqs[k] : \E p \in DOMAIN q : row[p] = k /\ col[p] = m
    BY <1>1 DEF Places
  <2>5. \A p \in 1 .. L : /\ row[p] \in 1 .. n - 1 /\ col[p] \in DOMAIN seqs[row[p]]
                         /\ q[p] = seqs[row[p]][col[p]]
    BY <2>1, <2>2
  <2>6. \A p, x \in 1 .. L : row[p] = row[x] /\ col[p] = col[x] => p = x
    BY <2>1, <2>3
  <2>7. ASSUME NEW k \in 1 .. n - 1, NEW m \in DOMAIN seqs[k]
        PROVE  \E p \in 1 .. L : row[p] = k /\ col[p] = m
    <3>1. PICK p \in DOMAIN q : row[p] = k /\ col[p] = m
      BY <2>4
    <3> QED
      BY <2>1, <3>1
  <2> QED
    BY <2>5, <2>6, <2>7
<1> DEFINE row2 == [p \in 1 .. L + M |-> IF p <= L THEN row[p] ELSE n]
           col2 == [p \in 1 .. L + M |-> IF p <= L THEN col[p] ELSE p - L]
<1>5. \A p \in 1 .. L : row2[p] = row[p] /\ col2[p] = col[p] /\ row[p] \in 1 .. n - 1 /\ row[p] # n
  <2>1. \A p \in 1 .. L : row[p] \in 1 .. n - 1
    BY <1>12
  <2>2. \A k \in 1 .. n - 1 : k # n
    OBVIOUS
  <2>3. \A p \in 1 .. L : p \in 1 .. L + M /\ p <= L
    BY <1>4
  <2> QED
    BY <2>1, <2>2, <2>3
<1>6. \A m \in 1 .. M : /\ L + m \in 1 .. L + M /\ ~(L + m <= L) /\ L + m - L = m
                        /\ row2[L + m] = n /\ col2[L + m] = m
  BY <1>4
<1> HIDE DEF row2, col2
<1>7. ASSUME NEW p \in 1 .. L + M PROVE p \in 1 .. L \/ \E m \in 1 .. M : p = L + m
  <2>1. CASE p <= L
    BY <1>4, <2>1
  <2>2. CASE ~(p <= L)
    <3>1. p - L \in 1 .. M /\ p = L + (p - L)
      BY <1>4, <2>2
    <3> QED
      BY <3>1
  <2> QED
    BY <2>1, <2>2
<1>8. ASSUME NEW p \in DOMAIN r
      PROVE  row2[p] \in 1 .. n /\ col2[p] \in DOMAIN seqs[row2[p]] /\ r[p] = seqs[row2[p]][col2[p]]
  <2>1. CASE p \in 1 .. L
    <3>1. row[p] \in 1 .. n /\ \A k \in 1 .. n - 1 : k \in 1 .. n
      BY <1>5, <2>1
    <3> QED
      BY <1>3, <1>5, <1>12, <2>1, <3>1
  <2>2. CASE p \notin 1 .. L
    <3>1. PICK m \in 1 .. M : p = L + m
      BY <1>4, <1>7, <2>2
    <3>2. n \in 1 .. n
      OBVIOUS
    <3> QED
      BY <1>2, <1>3, <1>4, <1>6, <3>1, <3>2
  <2> QED
    BY <2>1, <2>2
<1>9. ASSUME NEW p \in DOMAIN r, NEW x \in DOMAIN r, row2[p] = row2[x], col2[p] = col2[x]
      PROVE  p = x
  <2>1. CASE p \in 1 .. L /\ x \in 1 .. L
    BY <1>5, <1>9, <1>12, <2>1
  <2>2. CASE p \in 1 .. L /\ x \notin 1 .. L
    <3>1. PICK m \in 1 .. M : x = L + m
      BY <1>4, <1>7, <2>2
    <3> QED
      BY <1>5, <1>6, <1>9, <2>2, <3>1
  <2>3. CASE p \notin 1 .. L /\ x \in 1 .. L
    <3>1. PICK m \in 1 .. M : p = L + m
      BY <1>4, <1>7, <2>3
    <3> QED
      BY <1>5, <1>6, <1>9, <2>3, <3>1
  <2>4. CASE p \notin 1 .. L /\ x \notin 1 .. L
    <3>1. PICK m \in 1 .. M : p = L + m
      BY <1>4, <1>7, <2>4
    <3>2. PICK k \in 1 .. M : x = L + k
      BY <1>4, <1>7, <2>4
    <3> QED
      BY <1>6, <1>9, <3>1, <3>2
  <2> QED
    BY <2>1, <2>2, <2>3, <2>4
<1>10. ASSUME NEW k \in 1 .. n, NEW m \in DOMAIN seqs[k]
       PROVE  \E p \in DOMAIN r : row2[p] = k /\ col2[p] = m
  <2>1. CASE k = n
    <3>1. m \in 1 .. M
      BY <1>2, <1>4, <2>1
    <3> QED
      BY <1>4, <1>6, <2>1, <3>1
  <2>2. CASE k # n
    <3>1. k \in 1 .. n - 1
      BY <2>2
    <3>2. PICK p \in 1 .. L : row[p] = k /\ col[p] = m
      BY <1>12, <3>1
    <3>3. p \in 1 .. L + M
      BY <1>4
    <3> QED
      BY <1>4, <1>5, <3>2, <3>3
  <2> QED
    BY <2>1, <2>2
<1>11. Places(r, seqs, n, row2, col2)
  BY <1>8, <1>9, <1>10 DEF Places
<1> QED
  BY <1>3, <1>11 DEF Flat

LEMMA Flattened ==
    ASSUME NEW S, NEW seqs, IsSeq(seqs), \A k \in 1 .. Len(seqs) : seqs[k] \in Seq(S)
    PROVE  Flat(FlattenSeq(seqs), seqs, Len(seqs))
<1>1. PICK N : N = Len(seqs)
  OBVIOUS
<1>2. N \in Nat
  BY <1>1, LenIs
<1>3. PICK h : /\ h[0] = <<>> /\ h[Len(seqs)] = FlattenSeq(seqs)
               /\ \A n \in 1 .. Len(seqs) : h[n] = h[n - 1] \o seqs[n]
  BY FlattenSteps
<1> DEFINE T == {n \in 0 .. N : Flat(h[n], seqs, n)}
<1>4. 0 \in T
  <2>1. DOMAIN h[0] = {} /\ IsSeq(h[0])
    BY <1>3, EmptyIsSeq
  <2>2. Places(h[0], seqs, 0, <<>>, <<>>)
    BY <2>1 DEF Places
  <2>3. Flat(h[0], seqs, 0)
    BY <2>1, <2>2 DEF Flat
  <2> QED
    BY <1>2, <2>3
<1>5. ASSUME NEW n \in 1 .. N, n - 1 \in T PROVE n \in T
  <2>1. PICK q, r : q = h[n - 1] /\ r = h[n]
    OBVIOUS
  <2>2. Flat(q, seqs, n - 1) /\ r = q \o seqs[n] /\ n \in Nat \ {0} /\ n \in 0 .. N
    <3>1. n \in Nat \ {0} /\ n \in 0 .. N
      BY <1>2
    <3>2. Flat(q, seqs, n - 1)
      BY <1>5, <2>1
    <3>3. r = q \o seqs[n]
      BY <1>1, <1>3, <2>1
    <3> QED
      BY <3>1, <3>2, <3>3
  <2>3. IsSeq(seqs[n])
    BY <1>1, SeqIsSeq
  <2>4. Flat(r, seqs, n)
    BY <2>2, <2>3, OneMore
  <2> QED
    BY <2>1, <2>2, <2>4
<1>6. N \in T
  <2> HIDE DEF T
  <2>1. 0 .. N \subseteq T
    BY <1>2, <1>4, <1>5, UpToN
  <2> QED
    BY <1>2, <2>1
<1> QED
  BY <1>1, <1>3, <1>6

-----------------------------------------------------------------------------
(* The batches of every tile, one after the other.                         *)
LEMMA AssigningStarts ==
    ASSUME WalkInv, StartAssigning, assigned = [t \in Tile |-> {}],
           lastUsed = [t \in Tile |-> NumBdIds + 1]
    PROVE  AssignInv'
<1>1. PICK f, N, tile : f = frames[1] /\ N = Cardinality(Tile) /\ tile = SetToSeq(Tile)
  OBVIOUS
<1>2. /\ Len(frames) = 1 /\ DOMAIN frames = {1} /\ Top = f
      /\ \A t \in Tile : IsSeq(f.graph[t]) /\ Len(f.graph[t]) \in Nat
                         /\ DOMAIN f.graph[t] = 1 .. Len(f.graph[t])
  <2>1. Len(frames) = 1
    BY DEF StartAssigning
  <2>2. DOMAIN frames = 1 .. 1 /\ Top = f /\ 1 \in DOMAIN frames
    BY <1>1, <2>1, FramesAre
  <2>3. 1 .. 1 = {1}
    OBVIOUS
  <2> QED
    BY <1>1, <2>1, <2>2, <2>3, FramesAre
<1>3. /\ N \in Nat /\ tile \in [1 .. N -> Tile]
      /\ \A k, l \in 1 .. N : tile[k] = tile[l] => k = l
      /\ \A t \in Tile : \E k \in 1 .. N : tile[k] = t
  BY <1>1, TileAssumption, ListedSet
<1>4. PICK seqs : seqs = [k \in 1 .. N |-> [m \in DOMAIN f.graph[tile[k]] |->
                                             Assign(tile[k], f.graph[tile[k]][m])]]
  OBVIOUS
<1>5. work' = FlattenSeq(seqs)
  BY <1>1, <1>2, <1>4 DEF StartAssigning
<1>6. ASSUME NEW k \in 1 .. N
      PROVE  /\ tile[k] \in Tile /\ DOMAIN seqs[k] = DOMAIN f.graph[tile[k]]
             /\ \A m \in DOMAIN seqs[k] : seqs[k][m] = Assign(tile[k], f.graph[tile[k]][m])
  BY <1>3, <1>4
<1>7. PICK S : S = UNION {ToSet(seqs[k]) : k \in 1 .. N}
  OBVIOUS
<1>8. ASSUME NEW k \in 1 .. N PROVE seqs[k] \in Seq(S)
  <2>1. PICK q, n : q = seqs[k] /\ n = Len(f.graph[tile[k]])
    OBVIOUS
  <2>2. n \in Nat /\ DOMAIN q = 1 .. n /\ q = [m \in DOMAIN q |-> q[m]]
    BY <1>2, <1>3, <1>4, <2>1
  <2>3. \A m \in DOMAIN q : q[m] \in S
    BY <1>7, <2>1 DEF ToSet
  <2>4. q \in [1 .. n -> S]
    BY <2>2, <2>3
  <2> QED
    BY <2>1, <2>2, <2>4, FunIsSeq
<1>9. IsSeq(seqs) /\ Len(seqs) = N
  <2>1. seqs \in [1 .. N -> Seq(S)]
    BY <1>4, <1>8
  <2>2. seqs \in Seq(Seq(S)) /\ Len(seqs) = N
    BY <1>3, <2>1, FunIsSeq
  <2> QED
    BY <2>2, SeqIsSeq
<1>10. Flat(work', seqs, N)
  <2>1. Flat(FlattenSeq(seqs), seqs, Len(seqs))
    BY <1>8, <1>9, Flattened
  <2> QED
    BY <1>5, <1>9, <2>1
<1>11. PICK row, col : IsSeq(work') /\ Places(work', seqs, N, row, col)
  BY <1>10 DEF Flat
<1>12. ASSUME NEW p \in DOMAIN work'
       PROVE  /\ row[p] \in 1 .. N /\ tile[row[p]] \in Tile /\ col[p] \in DOMAIN f.graph[tile[row[p]]]
              /\ work'[p] = Assign(tile[row[p]], Root(1, tile[row[p]], col[p]))
  <2>1. row[p] \in 1 .. N /\ col[p] \in DOMAIN seqs[row[p]] /\ work'[p] = seqs[row[p]][col[p]]
    BY <1>11 DEF Places
  <2> QED
    BY <1>1, <1>6, <2>1 DEF Root
<1>13. \A p, r \in DOMAIN work' : tile[row[p]] = tile[row[r]] /\ col[p] = col[r] => p = r
  BY <1>3, <1>11, <1>12 DEF Places
<1>14. ASSUME NEW t \in Tile, NEW m \in DOMAIN f.graph[t]
       PROVE  \E p \in DOMAIN work' : work'[p] = Assign(t, Root(1, t, m))
  <2>1. PICK k \in 1 .. N : tile[k] = t
    BY <1>3
  <2>2. m \in DOMAIN seqs[k]
    BY <1>6, <2>1
  <2>3. PICK p \in DOMAIN work' : row[p] = k /\ col[p] = m
    BY <1>11, <2>2 DEF Places
  <2> QED
    BY <1>12, <2>1, <2>3
<1>15. /\ dmas \in Seq([tile : Tile, loop : Nat, begin : Nat, end : Int]) /\ dmas' = dmas
       /\ assigned' = assigned /\ lastUsed' = lastUsed
       /\ bdIdOps' = [i \in DOMAIN dmas |-> [offset |-> 0, size |-> 0, ids |-> <<>>]]
  BY DEF StartAssigning, WalkInv, WalkTypes
<1>16. \A t \in Tile : \A m \in DOMAIN f.graph[t] :
          /\ Tree(Root(1, t, m))
          /\ \A i : In(i, Root(1, t, m)) => i \in DOMAIN dmas /\ dmas[i].tile = t
  BY <1>1, <1>2 DEF WalkInv, RootsAreTrees
<1>17. \A p \in DOMAIN work' :
          /\ work'[p].step = "assign" /\ work'[p].tile = tile[row[p]]
          /\ work'[p].batch = Root(1, tile[row[p]], col[p])
          /\ work'[p] = [step |-> work'[p].step, tile |-> work'[p].tile, batch |-> work'[p].batch]
  BY <1>12 DEF Assign
<1>18. \A p \in DOMAIN work' : StepOK(work'[p])
  BY <1>12, <1>16, <1>17 DEF StepOK
<1>19. AssignTypes'
  <2>1. assigned' \in [Tile -> SUBSET BdIds]
    BY <1>15
  <2>2. lastUsed' = [t \in Tile |-> lastUsed'[t]]
    BY <1>15
  <2>3. <<>> \in Seq(BdIds) /\ Len(<<>>) = 0
    BY EmptySeq
  <2>4. \A i \in DOMAIN dmas' : RangeOK(bdIdOps'[i])
    <3>1. PICK r : r = [offset |-> 0, size |-> 0, ids |-> <<>>]
      OBVIOUS
    <3>2. r.offset = 0 /\ r.size = 0 /\ r.ids = <<>>
      BY <3>1
    <3>3. RangeOK(r)
      BY <2>3, <3>2 DEF RangeOK
    <3> QED
      BY <1>15, <3>1, <3>3
  <2>5. bdIdOps' = [i \in DOMAIN dmas' |-> bdIdOps'[i]]
    BY <1>15
  <2> QED
    BY <1>11, <1>15, <1>18, <2>1, <2>2, <2>4, <2>5 DEF AssignTypes, BdIds
<1>20. \A p \in DOMAIN work' : \A i : Covers(i, work'[p]) <=> In(i, Root(1, tile[row[p]], col[p]))
  BY <1>17 DEF Covers
<1>21. InOneStep'
  <2>1. ASSUME NEW p \in DOMAIN work', NEW i, Covers(i, work'[p])
        PROVE  i \in DOMAIN dmas' /\ dmas'[i].tile = work'[p].tile
    <3>1. PICK t, m : t = tile[row[p]] /\ m = col[p]
      OBVIOUS
    <3>2. t \in Tile /\ m \in DOMAIN f.graph[t] /\ In(i, Root(1, t, m)) /\ work'[p].tile = t
      BY <1>12, <1>17, <1>20, <2>1, <3>1
    <3>3. i \in DOMAIN dmas /\ dmas[i].tile = t
      BY <1>16, <3>2
    <3> QED
      BY <1>15, <3>2, <3>3
  <2>2. ASSUME NEW p \in DOMAIN work', NEW q \in DOMAIN work', NEW i,
               Covers(i, work'[p]), Covers(i, work'[q])
        PROVE  p = q
    <3>1. tile[row[p]] = tile[row[q]]
      BY <1>17, <2>1, <2>2
    <3>2. In(i, Root(1, tile[row[p]], col[p])) /\ In(i, Root(1, tile[row[p]], col[q]))
      BY <1>20, <2>2, <3>1
    <3>3. col[p] = col[q]
      BY <1>1, <1>2, <1>12, <3>1, <3>2 DEF WalkInv, InOneRoot
    <3> QED
      BY <1>13, <3>1, <3>3
  <2> QED
    BY <2>1, <2>2 DEF InOneStep
<1>22. IdsAreHeld'
  <2>1. \A t \in Tile : \A i : ~Held(i, t)'
    BY <1>17 DEF Held
  <2>2. \A t \in Tile : assigned'[t] = {}
    BY <1>15
  <2> QED
    BY <2>1, <2>2 DEF IdsAreHeld
<1>23. PairsApart'
  <2> SUFFICES ASSUME NEW x \in DOMAIN dmas, NEW y \in DOMAIN dmas, Inside(y, x),
                      dmas[x].tile = dmas[y].tile
               PROVE  PairOK(x, y)'
    <3>1. \A x, y : Inside(y, x)' <=> Inside(y, x)
      BY <1>15 DEF Inside
    <3> QED
      BY <1>15, <3>1 DEF PairsApart
  <2>1. PICK t : t = dmas[x].tile
    OBVIOUS
  <2>2. t \in Tile
    BY <1>15, <2>1, DmasAre
  <2>3. PICK m \in DOMAIN f.graph[t] : Together(x, y, Root(1, t, m))
    BY <1>1, <1>2, <2>1, <2>2 DEF WalkInv, PairsTogether
  <2>4. PICK p \in DOMAIN work' : work'[p] = Assign(t, Root(1, t, m))
    BY <1>14, <2>2
  <2>5. work'[p].step = "assign" /\ Together(x, y, work'[p].batch)
    BY <2>3, <2>4 DEF Assign
  <2> QED
    BY <2>5 DEF PairOK
<1> QED
  BY <1>19, <1>21, <1>22, <1>23 DEF AssignInv

-----------------------------------------------------------------------------
(* The ids taken in a row, n for each of L DMAs.                           *)
LEMMA SliceIndex ==
    ASSUME NEW n \in Nat \ {0}, NEW L \in Nat
    PROVE  /\ \A k \in 1 .. L, i \in 1 .. n : (k - 1) * n + i \in 1 .. n * L
           /\ \A k, l \in 1 .. L, i, j \in 1 .. n : (k - 1) * n + i = (l - 1) * n + j => k = l
           /\ \A p \in 1 .. n * L : \E k \in 1 .. L, i \in 1 .. n : p = (k - 1) * n + i
<1>1. \A x, y \in Nat : x * y \in Nat
  OBVIOUS
<1>2. \A x, y \in Int : (y - x) * n = y * n - x * n
  OBVIOUS
<1>3. ASSUME NEW x \in Int, NEW y \in Int, x <= y PROVE x * n <= y * n
  <2>1. y - x \in Nat
    BY <1>3
  <2>2. (y - x) * n \in Nat
    BY <1>1, <2>1
  <2>3. x * n \in Int /\ y * n \in Int /\ y * n - x * n \in Nat
    BY <1>2, <2>2
  <2> QED
    BY <2>3
<1>4. \A k \in Int : (k - 1) * n + n = k * n
  OBVIOUS
<1>5. ASSUME NEW k \in 1 .. L, NEW i \in 1 .. n PROVE (k - 1) * n + i \in 1 .. n * L
  <2>1. k * n <= L * n /\ 0 * n <= (k - 1) * n
    BY <1>3
  <2>2. PICK a, c, m : a = (k - 1) * n /\ c = k * n /\ m = n * L
    OBVIOUS
  <2>3. a \in Int /\ c \in Int /\ m \in Int /\ c <= m /\ 0 <= a /\ a + n = c
    BY <1>4, <2>1, <2>2
  <2>4. a + i \in 1 .. m
    BY <2>3
  <2> QED
    BY <2>2, <2>4
<1>6. ASSUME NEW k \in 1 .. L, NEW l \in 1 .. L, NEW i \in 1 .. n, NEW j \in 1 .. n,
             (k - 1) * n + i = (l - 1) * n + j, k < l
      PROVE  FALSE
  <2>1. k * n <= (l - 1) * n
    BY <1>3, <1>6
  <2>2. PICK a, c, e : a = (k - 1) * n /\ c = k * n /\ e = (l - 1) * n
    OBVIOUS
  <2>3. a \in Int /\ c \in Int /\ e \in Int /\ c <= e /\ a + n = c /\ a + i = e + j
    BY <1>4, <1>6, <2>1, <2>2
  <2> QED
    BY <2>3
<1>7. ASSUME NEW k \in 1 .. L, NEW l \in 1 .. L, NEW i \in 1 .. n, NEW j \in 1 .. n,
             (k - 1) * n + i = (l - 1) * n + j
      PROVE  k = l
  <2>1. ~(k < l) /\ ~(l < k)
    BY <1>6, <1>7
  <2> QED
    BY <2>1
<1>8. ASSUME NEW p \in 1 .. n * L PROVE \E k \in 1 .. L, i \in 1 .. n : p = (k - 1) * n + i
  <2>1. PICK m : m = n * L
    OBVIOUS
  <2>2. m \in Nat /\ p \in 1 .. m
    BY <1>1, <2>1
  <2>3. PICK d, r : d = (p - 1) \div n /\ r = (p - 1) % n
    OBVIOUS
  <2>4. d \in Int /\ r \in 0 .. n - 1 /\ p - 1 = n * d + r
    BY <2>2, <2>3
  <2>5. 0 <= d
    <3>1. SUFFICES ASSUME d <= -1 PROVE FALSE
      BY <2>4
    <3>2. d * n <= (-1) * n
      BY <1>3, <2>4, <3>1
    <3>3. PICK e : e = n * d
      OBVIOUS
    <3>4. e \in Int /\ e <= -n /\ p - 1 = e + r
      BY <2>4, <3>2, <3>3
    <3> QED
      BY <2>2, <2>4, <3>4
  <2>6. d < L
    <3>1. SUFFICES ASSUME L <= d PROVE FALSE
      BY <2>4
    <3>2. L * n <= d * n
      BY <1>3, <2>4, <3>1
    <3>3. PICK e : e = n * d
      OBVIOUS
    <3>4. e \in Int /\ m <= e /\ p - 1 = e + r
      BY <2>1, <2>4, <3>2, <3>3
    <3> QED
      BY <2>2, <2>4, <3>4
  <2>7. PICK k, i : k = d + 1 /\ i = r + 1
    OBVIOUS
  <2>8. k \in 1 .. L /\ i \in 1 .. n /\ k - 1 = d
    BY <2>4, <2>5, <2>6, <2>7
  <2>9. p = (k - 1) * n + i
    <3>1. d * n = n * d
      BY <2>4
    <3>2. PICK e : e = n * d
      OBVIOUS
    <3>3. e \in Int /\ p - 1 = e + r
      BY <2>4, <3>2
    <3>4. p = e + i
      BY <2>2, <2>4, <2>7, <3>3
    <3>5. (k - 1) * n = e
      BY <2>8, <3>1, <3>2
    <3> QED
      BY <3>4, <3>5
  <2> QED
    BY <2>8, <2>9
<1> QED
  BY <1>5, <1>7, <1>8

Slice(ids, n, k) == SubSeq(ids, (k - 1) * n + 1, k * n)

Sliced(ids, n, L, S) ==
    /\ \A k \in 1 .. L : /\ Slice(ids, n, k) \in Seq(S) /\ Len(Slice(ids, n, k)) = n
                         /\ ToSet(Slice(ids, n, k)) \subseteq ToSet(ids)
    /\ \A k, l \in 1 .. L : k # l => ToSet(Slice(ids, n, k)) \cap ToSet(Slice(ids, n, l)) = {}
    /\ \A id \in ToSet(ids) : \E k \in 1 .. L : id \in ToSet(Slice(ids, n, k))

LEMMA Slices ==
    ASSUME NEW S, NEW ids \in Seq(S), NEW n \in Nat \ {0}, NEW L \in Nat, Len(ids) = n * L,
           \A p, r \in DOMAIN ids : ids[p] = ids[r] => p = r
    PROVE  Sliced(ids, n, L, S)
<1>1. DOMAIN ids = 1 .. n * L /\ \A p \in 1 .. n * L : ids[p] \in S
  BY LenProperties, ElementOfSeq
<1>2. /\ \A k \in 1 .. L, i \in 1 .. n : (k - 1) * n + i \in 1 .. n * L
      /\ \A k, l \in 1 .. L, i, j \in 1 .. n : (k - 1) * n + i = (l - 1) * n + j => k = l
      /\ \A p \in 1 .. n * L : \E k \in 1 .. L, i \in 1 .. n : p = (k - 1) * n + i
  BY SliceIndex
<1>3. ASSUME NEW k \in 1 .. L
      PROVE  /\ Slice(ids, n, k) \in Seq(S) /\ Len(Slice(ids, n, k)) = n
             /\ DOMAIN Slice(ids, n, k) = 1 .. n
             /\ \A i \in 1 .. n : Slice(ids, n, k)[i] = ids[(k - 1) * n + i]
  <2>1. PICK a, c : a = (k - 1) * n /\ c = k * n
    OBVIOUS
  <2>2. a \in Int /\ c \in Int /\ c = a + n
    BY <2>1
  <2>3. \A i \in a + 1 .. c : ids[i] \in S
    <3> SUFFICES ASSUME NEW i \in a + 1 .. c PROVE ids[i] \in S
      OBVIOUS
    <3>1. i - a \in 1 .. n /\ a + (i - a) = i
      BY <2>2
    <3>2. a + (i - a) \in 1 .. n * L
      BY <1>2, <2>1, <3>1
    <3> QED
      BY <1>1, <3>1, <3>2
  <2>4. /\ SubSeq(ids, a + 1, c) \in Seq(S)
        /\ Len(SubSeq(ids, a + 1, c)) = IF a + 1 <= c THEN c - (a + 1) + 1 ELSE 0
        /\ \A i \in 1 .. c - (a + 1) + 1 : SubSeq(ids, a + 1, c)[i] = ids[a + 1 + i - 1]
    <3>1. a + 1 \in Int /\ c \in Int
      BY <2>2
    <3> QED
      BY <2>3, <3>1, SubSeqProperties, SMTT(60)
  <2>5. a + 1 <= c /\ c - (a + 1) + 1 = n /\ \A i \in 1 .. n : a + 1 + i - 1 = a + i
    BY <2>2
  <2>6. PICK q : q = SubSeq(ids, a + 1, c)
    OBVIOUS
  <2>7. q \in Seq(S) /\ Len(q) = n /\ \A i \in 1 .. n : q[i] = ids[a + i]
    BY <2>4, <2>5, <2>6
  <2>8. DOMAIN q = 1 .. n
    BY <2>7, LenProperties
  <2>9. Slice(ids, n, k) = q
    BY <2>1, <2>6 DEF Slice
  <2> QED
    BY <2>1, <2>7, <2>8, <2>9
<1>4. ASSUME NEW k \in 1 .. L, NEW id
      PROVE  id \in ToSet(Slice(ids, n, k)) <=> \E i \in 1 .. n : id = ids[(k - 1) * n + i]
  <2>1. PICK q : q = Slice(ids, n, k)
    OBVIOUS
  <2>2. DOMAIN q = 1 .. n /\ \A i \in 1 .. n : q[i] = ids[(k - 1) * n + i]
    BY <1>3, <2>1
  <2>3. id \in ToSet(q) <=> \E i \in 1 .. n : id = q[i]
    BY <2>2 DEF ToSet
  <2> QED
    BY <2>1, <2>2, <2>3
<1>5. ASSUME NEW k \in 1 .. L PROVE ToSet(Slice(ids, n, k)) \subseteq ToSet(ids)
  <2> SUFFICES ASSUME NEW id \in ToSet(Slice(ids, n, k)) PROVE id \in ToSet(ids)
    OBVIOUS
  <2>1. PICK i \in 1 .. n : id = ids[(k - 1) * n + i]
    BY <1>4
  <2>2. (k - 1) * n + i \in DOMAIN ids
    BY <1>1, <1>2
  <2> QED
    BY <2>1, <2>2 DEF ToSet
<1>6. ASSUME NEW k \in 1 .. L, NEW l \in 1 .. L, k # l, NEW id,
             id \in ToSet(Slice(ids, n, k)), id \in ToSet(Slice(ids, n, l))
      PROVE  FALSE
  <2>1. PICK i \in 1 .. n : id = ids[(k - 1) * n + i]
    BY <1>4, <1>6
  <2>2. PICK j \in 1 .. n : id = ids[(l - 1) * n + j]
    BY <1>4, <1>6
  <2>3. (k - 1) * n + i \in DOMAIN ids /\ (l - 1) * n + j \in DOMAIN ids
    BY <1>1, <1>2
  <2>4. (k - 1) * n + i = (l - 1) * n + j
    BY <2>1, <2>2, <2>3
  <2> QED
    BY <1>2, <1>6, <2>4
<1>7. ASSUME NEW id \in ToSet(ids) PROVE \E k \in 1 .. L : id \in ToSet(Slice(ids, n, k))
  <2>1. PICK p \in 1 .. n * L : id = ids[p]
    BY <1>1 DEF ToSet
  <2>2. PICK k \in 1 .. L, i \in 1 .. n : p = (k - 1) * n + i
    BY <1>2
  <2> QED
    BY <1>4, <2>1, <2>2
<1> QED
  BY <1>3, <1>5, <1>6, <1>7 DEF Sliced

LEMMA SizeIsNat ==
    ASSUME NEW t, assigned[t] \subseteq BdIds, NEW b, Node(b), b.ops # <<>>
    PROVE  SizeOf(t, b) \in Nat \ {0}
<1>1. PICK A : A = Gen(t)!Available(0, assigned[t])
  OBVIOUS
<1>2. A \subseteq BdIds
  BY <1>1 DEF Gen!Available, BdIds
<1>3. IsFiniteSet(BdIds)
  BY NumAssumption, FS_Interval DEF BdIds
<1>4. Cardinality(A) \in Nat
  BY <1>2, <1>3, FS_Subset, FS_CardinalityType
<1>5. Required(b) \in Nat \ {0}
  BY EmptySeq DEF Required, Node
<1>6. \A x \in Nat, y \in Nat \ {0} : x \div y \in Nat
  OBVIOUS
<1>7. PICK m : m = Cardinality(A) \div Required(b)
  OBVIOUS
<1>8. m \in Nat
  BY <1>4, <1>5, <1>6, <1>7
<1>9. SizeOf(t, b) = IF b.loop # NoLoop /\ m > 1 THEN m ELSE 1
  BY <1>1, <1>7 DEF SizeOf
<1> QED
  BY <1>8, <1>9

(* The DMAs of a batch get new ids, each of one DMA.                       *)
NewIds(t, ops) ==
    /\ assigned' \in [Tile -> SUBSET BdIds] /\ \A u \in Tile : u # t => assigned'[u] = assigned[u]
    /\ \A i \in ToSet(ops) : /\ BdIdsOf(i)' \subseteq assigned'[t]
                             /\ BdIdsOf(i)' \cap assigned[t] = {}
    /\ assigned[t] \subseteq assigned'[t]
    /\ \A id \in assigned'[t] : id \in assigned[t] \/ \E i \in ToSet(ops) : id \in BdIdsOf(i)'
    /\ \A i, j \in ToSet(ops) : i # j => BdIdsOf(i)' \cap BdIdsOf(j)' = {}
    /\ bdIdOps' = [i \in DOMAIN dmas |-> bdIdOps'[i]]
    /\ \A i \in DOMAIN dmas : RangeOK(bdIdOps'[i])
    /\ \A i \in DOMAIN dmas : i \notin ToSet(ops) => BdIdsOf(i)' = BdIdsOf(i)

(* The DMAs of a batch are given n ids each.                               *)
Given(ops, n, ids) ==
    bdIdOps' = [i \in DOMAIN bdIdOps |->
        IF i \notin ToSet(ops) THEN bdIdOps[i]
        ELSE LET k == CHOOSE m \in DOMAIN ops : ops[m] = i
             IN [offset |-> Slice(ids, n, k)[1], size |-> n, ids |-> Slice(ids, n, k)]]

LEMMA IdsChosen ==
    ASSUME AssignTypes, NEW t \in Tile, NEW ops \in Seq(Nat), ToSet(ops) \subseteq DOMAIN dmas,
           \A k, l \in DOMAIN ops : ops[k] = ops[l] => k = l, NEW n \in Nat \ {0},
           NEW taken, taken = TakeIds(t, n * Len(ops)), Len(taken.ids) = n * Len(ops),
           assigned' = [assigned EXCEPT ![t] = taken.assigned],
           Given(ops, n, taken.ids)
    PROVE  NewIds(t, ops)
<1>1. /\ assigned \in [Tile -> SUBSET BdIds] /\ bdIdOps = [i \in DOMAIN dmas |-> bdIdOps[i]]
      /\ \A i \in DOMAIN dmas : RangeOK(bdIdOps[i])
  BY DEF AssignTypes
<1>2. PICK ids, L : ids = taken.ids /\ L = Len(ops)
  OBVIOUS
<1>3. L \in Nat /\ DOMAIN ops = 1 .. L
  BY <1>2, LenProperties
<1>4. Taken(taken, assigned[t], n * L)
  <2>1. n * L \in Nat
    <3>1. \A x, y \in Nat : x * y \in Nat
      OBVIOUS
    <3> QED
      BY <1>3, <3>1
  <2>2. assigned[t] \subseteq BdIds
    BY <1>1
  <2>3. Taken(TakeIds(t, n * L), assigned[t], n * L)
    BY <2>1, <2>2, IdsTaken
  <2> QED
    BY <1>2, <2>3
<1>5. /\ ids \in Seq(BdIds) /\ Len(ids) = n * L
      /\ \A p, r \in DOMAIN ids : ids[p] = ids[r] => p = r
      /\ \A p \in DOMAIN ids : ids[p] \notin assigned[t]
      /\ taken.assigned = assigned[t] \cup ToSet(ids)
  BY <1>2, <1>4 DEF Taken
<1>6. ToSet(ids) \subseteq BdIds /\ ToSet(ids) \cap assigned[t] = {}
  BY <1>5, LenProperties, ElementOfSeq DEF ToSet
<1>7. /\ assigned'[t] = assigned[t] \cup ToSet(ids) /\ assigned' \in [Tile -> SUBSET BdIds]
      /\ \A u \in Tile : u # t => assigned'[u] = assigned[u]
  BY <1>1, <1>5, <1>6
<1>8. /\ \A k \in 1 .. L : /\ Slice(ids, n, k) \in Seq(BdIds) /\ Len(Slice(ids, n, k)) = n
                           /\ ToSet(Slice(ids, n, k)) \subseteq ToSet(ids)
      /\ \A k, l \in 1 .. L : k # l => ToSet(Slice(ids, n, k)) \cap ToSet(Slice(ids, n, l)) = {}
      /\ \A id \in ToSet(ids) : \E k \in 1 .. L : id \in ToSet(Slice(ids, n, k))
  <2>1. Sliced(ids, n, L, BdIds)
    BY <1>3, <1>5, Slices
  <2> QED
    BY <2>1 DEF Sliced
<1> DEFINE at == [i \in ToSet(ops) |-> CHOOSE m \in DOMAIN ops : ops[m] = i]
<1>9. \A i \in ToSet(ops) : at[i] \in 1 .. L /\ ops[at[i]] = i
  BY <1>3 DEF ToSet
<1>18. \A i \in ToSet(ops) : at[i] = CHOOSE m \in DOMAIN ops : ops[m] = i
  OBVIOUS
<1> HIDE DEF at
<1>10. \A i \in ToSet(ops) :
          /\ bdIdOps'[i] = [offset |-> Slice(ids, n, at[i])[1], size |-> n, ids |-> Slice(ids, n, at[i])]
          /\ BdIdsOf(i)' = ToSet(Slice(ids, n, at[i]))
  <2> SUFFICES ASSUME NEW i \in ToSet(ops)
               PROVE  /\ bdIdOps'[i] = [offset |-> Slice(ids, n, at[i])[1], size |-> n,
                                         ids |-> Slice(ids, n, at[i])]
                      /\ BdIdsOf(i)' = ToSet(Slice(ids, n, at[i]))
    OBVIOUS
  <2>1. i \in DOMAIN bdIdOps
    BY <1>1
  <2>2. bdIdOps'[i] = [offset |-> Slice(ids, n, at[i])[1], size |-> n, ids |-> Slice(ids, n, at[i])]
    BY <1>2, <1>18, <2>1 DEF Given
  <2>3. bdIdOps'[i].ids = Slice(ids, n, at[i])
    BY <2>2
  <2> QED
    BY <2>2, <2>3 DEF BdIdsOf
<1>11. \A i \in DOMAIN dmas : i \notin ToSet(ops) => bdIdOps'[i] = bdIdOps[i] /\ BdIdsOf(i)' = BdIdsOf(i)
  BY <1>1 DEF BdIdsOf, Given
<1>12. DOMAIN bdIdOps' = DOMAIN dmas /\ bdIdOps' = [i \in DOMAIN dmas |-> bdIdOps'[i]]
  BY <1>1 DEF Given
<1>13. ASSUME NEW i \in ToSet(ops)
       PROVE  \E k \in 1 .. L : /\ ops[k] = i
                                /\ bdIdOps'[i] = [offset |-> Slice(ids, n, k)[1], size |-> n,
                                                  ids |-> Slice(ids, n, k)]
                                /\ BdIdsOf(i)' = ToSet(Slice(ids, n, k))
  BY <1>9, <1>10
<1>14. ASSUME NEW i \in DOMAIN dmas PROVE RangeOK(bdIdOps'[i])
  <2>1. CASE i \in ToSet(ops)
    <3>1. PICK k \in 1 .. L : bdIdOps'[i] = [offset |-> Slice(ids, n, k)[1], size |-> n,
                                             ids |-> Slice(ids, n, k)]
      BY <1>13, <2>1
    <3>2. PICK q : q = Slice(ids, n, k)
      OBVIOUS
    <3>3. q \in Seq(BdIds) /\ Len(q) = n
      BY <1>8, <3>2
    <3>4. q[1] \in BdIds
      BY <3>3, LenProperties, ElementOfSeq
    <3>5. q[1] \in Nat
      BY <3>4 DEF BdIds
    <3> QED
      BY <3>1, <3>2, <3>3, <3>5 DEF RangeOK
  <2>2. CASE i \notin ToSet(ops)
    BY <1>1, <1>11, <2>2
  <2> QED
    BY <2>1, <2>2
<1>15. ASSUME NEW i \in ToSet(ops) PROVE BdIdsOf(i)' \subseteq ToSet(ids)
  <2>1. PICK k \in 1 .. L : BdIdsOf(i)' = ToSet(Slice(ids, n, k))
    BY <1>13
  <2>2. ToSet(Slice(ids, n, k)) \subseteq ToSet(ids)
    BY <1>8
  <2> QED
    BY <2>1, <2>2
<1>16. ASSUME NEW i \in ToSet(ops), NEW j \in ToSet(ops), i # j
       PROVE  BdIdsOf(i)' \cap BdIdsOf(j)' = {}
  <2>1. PICK k \in 1 .. L : ops[k] = i /\ BdIdsOf(i)' = ToSet(Slice(ids, n, k))
    BY <1>13
  <2>2. PICK l \in 1 .. L : ops[l] = j /\ BdIdsOf(j)' = ToSet(Slice(ids, n, l))
    BY <1>13
  <2>3. k # l
    BY <1>16, <2>1, <2>2
  <2>4. ToSet(Slice(ids, n, k)) \cap ToSet(Slice(ids, n, l)) = {}
    BY <1>8, <2>3
  <2> QED
    BY <2>1, <2>2, <2>4
<1>17. ASSUME NEW id \in ToSet(ids) PROVE \E i \in ToSet(ops) : id \in BdIdsOf(i)'
  <2>1. PICK k \in 1 .. L : id \in ToSet(Slice(ids, n, k))
    BY <1>8
  <2>2. PICK i : i = ops[k] /\ i \in ToSet(ops)
    BY <1>3 DEF ToSet
  <2>3. PICK l \in 1 .. L : ops[l] = i /\ BdIdsOf(i)' = ToSet(Slice(ids, n, l))
    BY <1>13, <2>2
  <2>4. l = k
    BY <1>3, <2>2, <2>3
  <2> QED
    BY <2>1, <2>2, <2>3, <2>4
<1> QED
  BY <1>6, <1>7, <1>11, <1>12, <1>14, <1>15, <1>16, <1>17 DEF NewIds

-----------------------------------------------------------------------------
(* The work that is left after a batch was assigned: its inner batches     *)
(* and its release first, then what was left before.                       *)
Replaces(t, b, I, W) ==
    /\ IsSeq(work') /\ I \in Nat /\ W \in Nat \ {0} /\ DOMAIN work = 1 .. W /\ DOMAIN b.inner = 1 .. I
    /\ \A q \in 1 .. I : q \in DOMAIN work' /\ q < I + 1 /\ work'[q] = Assign(t, b.inner[q])
    /\ I + 1 \in DOMAIN work' /\ work'[I + 1] = Release(t, b)
    /\ \A p \in 2 .. W : I + p \in DOMAIN work' /\ work'[I + p] = work[p]
    /\ \A q \in DOMAIN work' : q \in 1 .. I \/ q = I + 1 \/ \E p \in 2 .. W : q = I + p

LEMMA WorkAfter ==
    ASSUME IsSeq(work), work # <<>>, NEW t, NEW b, IsSeq(b.inner), NEW I, I = Len(b.inner),
           NEW W, W = Len(work), work' = StepsInside(t, b) \o Tail(work)
    PROVE  Replaces(t, b, I, W)
<1>1. I \in Nat /\ W \in Nat \ {0} /\ DOMAIN work = 1 .. W /\ DOMAIN b.inner = 1 .. I
  BY LenIs
<1>2. PICK first, rel, tl, ins : /\ first = [m \in DOMAIN b.inner |-> Assign(t, b.inner[m])]
                              /\ rel = <<Release(t, b)>> /\ tl = Tail(work) /\ ins = first \o rel
  OBVIOUS
<1>3. IsSeq(first) /\ Len(first) = I /\ \A q \in 1 .. I : first[q] = Assign(t, b.inner[q])
  <2>1. \A q \in 1 .. I : first[q] = Assign(t, b.inner[q])
    BY <1>1, <1>2
  <2>2. first = [q \in 1 .. I |-> first[q]]
    BY <1>1, <1>2
  <2>3. PICK S : S = {first[q] : q \in 1 .. I}
    OBVIOUS
  <2>4. first \in [1 .. I -> S]
    BY <2>2, <2>3
  <2>5. first \in Seq(S) /\ Len(first) = I
    BY <1>1, <2>4, FunIsSeq
  <2> QED
    BY <2>1, <2>5, SeqIsSeq
<1>4. IsSeq(rel) /\ Len(rel) = 1 /\ rel[1] = Release(t, b)
  <2>1. PICK r : r = Release(t, b)
    OBVIOUS
  <2>2. <<r>> \in Seq({r}) /\ Len(<<r>>) = 1 /\ <<r>>[1] = r
    OBVIOUS
  <2> QED
    BY <1>2, <2>1, <2>2, SeqIsSeq
<1>5. /\ IsSeq(ins) /\ Len(ins) = I + 1 /\ \A q \in 1 .. I : ins[q] = Assign(t, b.inner[q])
      /\ ins[I + 1] = Release(t, b)
  <2>1. /\ IsSeq(first \o rel) /\ Len(first \o rel) = Len(first) + Len(rel)
        /\ \A q \in 1 .. Len(first) : (first \o rel)[q] = first[q]
        /\ \A q \in 1 .. Len(rel) : (first \o rel)[Len(first) + q] = rel[q]
    <3>1. IsSeq(first) /\ IsSeq(rel)
      BY <1>3, <1>4
    <3> QED
      BY ONLY <3>1, ConcatIs
  <2>2. 1 \in 1 .. Len(rel)
    BY <1>4
  <2> QED
    BY <1>2, <1>3, <1>4, <2>1, <2>2
<1>6. /\ IsSeq(tl) /\ Len(tl) = W - 1 /\ \A k \in 1 .. W - 1 : tl[k] = work[k + 1]
  BY <1>2, TailIs
<1>7. work' = ins \o tl
  BY <1>2 DEF StepsInside
<1>8. /\ IsSeq(work') /\ Len(work') = I + 1 + (W - 1)
      /\ \A q \in 1 .. I + 1 : work'[q] = ins[q]
      /\ \A k \in 1 .. W - 1 : work'[I + 1 + k] = tl[k]
  <2>1. /\ IsSeq(ins \o tl) /\ Len(ins \o tl) = Len(ins) + Len(tl)
        /\ \A q \in 1 .. Len(ins) : (ins \o tl)[q] = ins[q]
        /\ \A q \in 1 .. Len(tl) : (ins \o tl)[Len(ins) + q] = tl[q]
    <3>1. IsSeq(ins) /\ IsSeq(tl)
      BY <1>5, <1>6
    <3> QED
      BY ONLY <3>1, ConcatIs
  <2> QED
    BY <1>5, <1>6, <1>7, <2>1
<1>9. DOMAIN work' = 1 .. I + W
  <2>1. I + 1 + (W - 1) = I + W
    BY <1>1
  <2> QED
    BY <1>8, <2>1, LenIs
<1>10. ASSUME NEW q \in 1 .. I
       PROVE  q \in DOMAIN work' /\ q < I + 1 /\ work'[q] = Assign(t, b.inner[q])
  <2>1. q \in 1 .. I + W /\ q < I + 1 /\ q \in 1 .. I + 1
    BY <1>1
  <2> QED
    BY <1>5, <1>8, <1>9, <2>1
<1>11. I + 1 \in DOMAIN work' /\ work'[I + 1] = Release(t, b)
  <2>1. I + 1 \in 1 .. I + W /\ I + 1 \in 1 .. I + 1
    BY <1>1
  <2> QED
    BY <1>5, <1>8, <1>9, <2>1
<1>12. ASSUME NEW p \in 2 .. W PROVE I + p \in DOMAIN work' /\ work'[I + p] = work[p]
  <2>1. p - 1 \in 1 .. W - 1 /\ I + 1 + (p - 1) = I + p /\ p - 1 + 1 = p /\ I + p \in 1 .. I + W
    BY <1>1
  <2>2. work'[I + 1 + (p - 1)] = tl[p - 1] /\ tl[p - 1] = work[p - 1 + 1]
    BY <1>6, <1>8, <2>1
  <2> QED
    BY <1>9, <2>1, <2>2
<1>13. ASSUME NEW q \in DOMAIN work' PROVE q \in 1 .. I \/ q = I + 1 \/ \E p \in 2 .. W : q = I + p
  <2>1. SUFFICES ASSUME q \notin 1 .. I, q # I + 1 PROVE \E p \in 2 .. W : q = I + p
    OBVIOUS
  <2>2. q \in 1 .. I + W
    BY <1>9
  <2>3. q \in Int /\ I \in Int /\ W \in Int /\ 1 <= q /\ q <= I + W /\ ~(q <= I) /\ q # I + 1
    BY <1>1, <2>1, <2>2
  <2>4. q - I \in 2 .. W
    BY ONLY <2>3
  <2>5. q = I + (q - I)
    BY ONLY <2>3
  <2> QED
    BY <2>4, <2>5
<1> QED
  BY <1>1, <1>8, <1>10, <1>11, <1>12, <1>13 DEF Replaces

LEMMA HeadOfWork ==
    ASSUME AssignTypes, work # <<>>, NEW s, s = Head(work)
    PROVE  IsSeq(work) /\ Len(work) \in Nat \ {0} /\ 1 \in DOMAIN work /\ s = work[1] /\ StepOK(s)
<1>1. IsSeq(work)
  BY DEF AssignTypes
<1>2. Len(work) \in Nat \ {0} /\ DOMAIN work = 1 .. Len(work)
  BY <1>1, LenIs
<1>3. s = work[1]
  BY <1>1, TailIs
<1>4. 1 \in 1 .. Len(work)
  BY <1>2
<1> QED
  BY <1>1, <1>2, <1>3, <1>4 DEF AssignTypes

LEMMA BatchAssigned ==
    ASSUME AssignInv, AssignBatch, phase' = phase
    PROVE  AssignInv'
<1>1. PICK t, b, n, L, taken :
          /\ t = Head(work).tile /\ b = Head(work).batch
          /\ n = (IF b.ops = <<>> THEN 1 ELSE SizeOf(t, b)) /\ L = Len(b.ops)
          /\ taken = TakeIds(t, n * L)
  OBVIOUS
<1>2. PICK s : s = Head(work)
  OBVIOUS
<1>3. /\ work # <<>> /\ s.step = "assign" /\ phase = "assign" /\ dmas' = dmas
  BY <1>2 DEF AssignBatch
<1>4. AssignTypes
  BY DEF AssignInv
<1>5. IsSeq(work) /\ Len(work) \in Nat \ {0} /\ 1 \in DOMAIN work /\ s = work[1] /\ StepOK(s)
  BY <1>2, <1>3, <1>4, HeadOfWork
<1>6. t \in Tile /\ Tree(b) /\ t = s.tile /\ b = s.batch
  BY <1>1, <1>2, <1>3, <1>5 DEF StepOK
<1>7. Node(b) /\ \A c \in ToSet(b.inner) : Tree(c)
  BY <1>6, TreeSplit
<1>8. b.ops \in Seq(Nat) /\ L \in Nat /\ \A k, l \in DOMAIN b.ops : b.ops[k] = b.ops[l] => k = l
  BY <1>1, <1>7, LenProperties DEF Node
<1>9. \A i : Covers(i, work[1]) <=> In(i, b)
  BY <1>3, <1>5, <1>6 DEF Covers
<1>10. \A i : In(i, b) => i \in DOMAIN dmas /\ dmas[i].tile = t
  BY <1>5, <1>6, <1>9 DEF AssignInv, InOneStep
<1>11. ToSet(b.ops) \subseteq DOMAIN dmas
  BY <1>10, InSplit
<1>12. n \in Nat \ {0}
  <2>1. assigned[t] \subseteq BdIds
    BY <1>4, <1>6 DEF AssignTypes
  <2>2. CASE b.ops = <<>>
    BY <1>1, <2>2
  <2>3. CASE b.ops # <<>>
    BY <1>1, <1>7, <2>1, <2>3, SizeIsNat
  <2> QED
    BY <2>2, <2>3
<1>13. /\ Len(taken.ids) = n * L
       /\ assigned' = [assigned EXCEPT ![t] = taken.assigned]
       /\ lastUsed' = [lastUsed EXCEPT ![t] = taken.last]
       /\ bdIdOps' = [i \in DOMAIN bdIdOps |->
                    IF i \notin ToSet(b.ops) THEN bdIdOps[i]
                    ELSE LET k == CHOOSE m \in DOMAIN b.ops : b.ops[m] = i
                         IN [offset |-> Slice(taken.ids, n, k)[1], size |-> n,
                             ids |-> Slice(taken.ids, n, k)]]
       /\ work' = StepsInside(t, b) \o Tail(work)
  <2>1. /\ Len(taken.ids) = n * L
        /\ assigned' = [assigned EXCEPT ![t] = taken.assigned]
        /\ lastUsed' = [lastUsed EXCEPT ![t] = taken.last]
        /\ work' = StepsInside(t, b) \o Tail(work)
    BY <1>1, <1>3 DEF AssignBatch
  <2>2. bdIdOps' = [i \in DOMAIN bdIdOps |->
                    IF i \notin ToSet(b.ops) THEN bdIdOps[i]
                    ELSE LET k == CHOOSE m \in DOMAIN b.ops : b.ops[m] = i
                         IN [offset |-> Slice(taken.ids, n, k)[1], size |-> n,
                             ids |-> Slice(taken.ids, n, k)]]
    BY <1>1, <1>3, ZenonT(120) DEF AssignBatch, Slice
  <2> QED
    BY <2>1, <2>2
<1>14. PICK ops : ops = b.ops
  OBVIOUS
<1>15. NewIds(t, ops)
  <2>1. ops \in Seq(Nat) /\ L = Len(ops) /\ \A k, l \in DOMAIN ops : ops[k] = ops[l] => k = l
    BY <1>1, <1>8, <1>14
  <2>2. ToSet(ops) \subseteq DOMAIN dmas
    BY <1>11, <1>14
  <2>3. Given(ops, n, taken.ids)
    BY <1>13, <1>14 DEF Given
  <2>4. /\ ops \in Seq(Nat) /\ \A k, l \in DOMAIN ops : ops[k] = ops[l] => k = l
        /\ taken = TakeIds(t, n * Len(ops)) /\ Len(taken.ids) = n * Len(ops)
        /\ assigned' = [assigned EXCEPT ![t] = taken.assigned]
    BY <1>1, <1>13, <1>14, <2>1
  <2> QED
    BY ONLY <1>4, <1>6, <1>12, <2>2, <2>3, <2>4, IdsChosen
<1>16. PICK I, W : I = Len(b.inner) /\ W = Len(work)
  OBVIOUS
<1>17. Replaces(t, b, I, W)
  BY <1>3, <1>5, <1>7, <1>13, <1>16, WorkAfter DEF Node
<1>18. /\ IsSeq(work') /\ I \in Nat /\ W \in Nat \ {0} /\ DOMAIN work = 1 .. W /\ DOMAIN b.inner = 1 .. I
       /\ \A q \in 1 .. I : q \in DOMAIN work' /\ q < I + 1 /\ work'[q] = Assign(t, b.inner[q])
       /\ I + 1 \in DOMAIN work' /\ work'[I + 1] = Release(t, b)
       /\ \A p \in 2 .. W : I + p \in DOMAIN work' /\ work'[I + p] = work[p]
       /\ \A q \in DOMAIN work' : q \in 1 .. I \/ q = I + 1 \/ \E p \in 2 .. W : q = I + p
  BY <1>17 DEF Replaces
<1>19. /\ \A q \in 1 .. I : work'[q].step = "assign" /\ work'[q].tile = t /\ work'[q].batch = b.inner[q]
       /\ work'[I + 1].step = "release" /\ work'[I + 1].tile = t /\ work'[I + 1].batch = b
  <2>1. \A x : /\ Assign(t, x).step = "assign" /\ Assign(t, x).tile = t /\ Assign(t, x).batch = x
              /\ Release(t, x).step = "release" /\ Release(t, x).tile = t /\ Release(t, x).batch = x
    BY DEF Assign, Release
  <2>2. ASSUME NEW q \in 1 .. I
        PROVE  work'[q].step = "assign" /\ work'[q].tile = t /\ work'[q].batch = b.inner[q]
    <3>1. PICK x : x = b.inner[q]
      OBVIOUS
    <3>2. work'[q] = Assign(t, x)
      BY <1>18, <3>1
    <3> QED
      BY <2>1, <3>1, <3>2
  <2>3. work'[I + 1] = Release(t, b)
    BY <1>18
  <2> QED
    BY <2>1, <2>2, <2>3
<1>20. /\ \A p \in 2 .. W : p \in DOMAIN work /\ p # 1
       /\ \A p \in DOMAIN work : p = 1 \/ p \in 2 .. W
  BY <1>18
<1>21. \A q \in 1 .. I : b.inner[q] \in ToSet(b.inner)
  BY <1>18 DEF ToSet
\* What a step is about now, it was about before, or the batch was.
<1>22. ASSUME NEW i
       PROVE  /\ \A q \in 1 .. I : Covers(i, work'[q]) <=> In(i, b.inner[q])
              /\ Covers(i, work'[I + 1]) <=> i \in ToSet(ops)
              /\ \A p \in 2 .. W : Covers(i, work'[I + p]) <=> Covers(i, work[p])
  BY <1>14, <1>18, <1>19 DEF Covers
<1>23. ASSUME NEW i
       PROVE  /\ \A q \in 1 .. I : In(i, b.inner[q]) => In(i, b) /\ i \notin ToSet(ops)
              /\ i \in ToSet(ops) => In(i, b)
              /\ \A p, q \in 1 .. I : In(i, b.inner[p]) /\ In(i, b.inner[q]) => p = q
              /\ \A p \in 2 .. W : Covers(i, work[p]) => ~In(i, b)
  <2>1. \A q \in 1 .. I : In(i, b.inner[q]) => In(i, b)
    BY <1>21, InSplit
  <2>2. \A q \in 1 .. I : In(i, b.inner[q]) => i \notin ToSet(ops)
    BY <1>7, <1>14, <1>18 DEF Node
  <2>3. i \in ToSet(ops) => In(i, b)
    BY <1>14, InSplit
  <2>4. \A p, q \in 1 .. I : In(i, b.inner[p]) /\ In(i, b.inner[q]) => p = q
    BY <1>7, <1>18 DEF Node
  <2>5. \A p \in 2 .. W : Covers(i, work[p]) => ~In(i, b)
    BY <1>5, <1>9, <1>20 DEF AssignInv, InOneStep
  <2> QED
    BY <2>1, <2>2, <2>3, <2>4, <2>5
<1>24. InOneStep'
  <2>1. ASSUME NEW q \in DOMAIN work', NEW i, Covers(i, work'[q])
        PROVE  i \in DOMAIN dmas' /\ dmas'[i].tile = work'[q].tile
    <3>1. CASE q \in 1 .. I \/ q = I + 1
      <4>1. In(i, b) /\ work'[q].tile = t
        BY <1>19, <1>22, <1>23, <2>1, <3>1
      <4> QED
        BY <1>3, <1>10, <4>1
    <3>2. CASE \E p \in 2 .. W : q = I + p
      <4>1. PICK p \in 2 .. W : q = I + p
        BY <3>2
      <4>2. Covers(i, work[p]) /\ work'[q] = work[p] /\ p \in DOMAIN work
        BY <1>18, <1>20, <1>22, <2>1, <4>1
      <4> QED
        BY <1>3, <4>2 DEF AssignInv, InOneStep
    <3> QED
      BY <1>18, <3>1, <3>2
  <2>2. ASSUME NEW q \in DOMAIN work', NEW r \in DOMAIN work', NEW i,
               Covers(i, work'[q]), Covers(i, work'[r])
        PROVE  q = r
    <3>1. ASSUME NEW x \in DOMAIN work', Covers(i, work'[x])
          PROVE  \/ x \in 1 .. I /\ In(i, b.inner[x])
                 \/ x = I + 1 /\ i \in ToSet(ops)
                 \/ \E p \in 2 .. W : x = I + p /\ Covers(i, work[p])
      <4>1. CASE x \in 1 .. I
        BY <1>22, <3>1, <4>1
      <4>2. CASE x = I + 1
        BY <1>22, <3>1, <4>2
      <4>3. CASE \E p \in 2 .. W : x = I + p
        BY <1>22, <3>1, <4>3
      <4> QED
        BY <1>18, <4>1, <4>2, <4>3
    <3>2. \A p, x \in 2 .. W : Covers(i, work[p]) /\ Covers(i, work[x]) => p = x
      BY <1>20 DEF AssignInv, InOneStep
    <3>3. CASE q \in 1 .. I /\ In(i, b.inner[q])
      BY <1>23, <2>2, <3>1, <3>3
    <3>4. CASE q = I + 1 /\ i \in ToSet(ops)
      BY <1>23, <2>2, <3>1, <3>4
    <3>5. CASE \E p \in 2 .. W : q = I + p /\ Covers(i, work[p])
      <4>1. PICK p \in 2 .. W : q = I + p /\ Covers(i, work[p])
        BY <3>5
      <4>2. ~In(i, b)
        BY <1>23, <4>1
      <4>3. PICK x \in 2 .. W : r = I + x /\ Covers(i, work[x])
        BY <1>23, <2>2, <3>1, <4>2
      <4> QED
        BY <3>2, <4>1, <4>3
    <3> QED
      BY <2>2, <3>1, <3>3, <3>4, <3>5
  <2> QED
    BY <2>1, <2>2 DEF InOneStep
<1>25. AssignTypes'
  <2>1. ASSUME NEW q \in DOMAIN work' PROVE StepOK(work'[q])
    <3>1. CASE q \in 1 .. I
      <4>1. Tree(b.inner[q])
        BY <1>7, <1>21, <3>1
      <4>2. work'[q] = [step |-> "assign", tile |-> t, batch |-> b.inner[q]]
        BY <1>18, <3>1 DEF Assign
      <4> QED
        BY <1>6, <4>1, <4>2 DEF StepOK
    <3>2. CASE q = I + 1
      <4>1. work'[q] = [step |-> "release", tile |-> t, batch |-> b]
        BY <1>18, <3>2 DEF Release
      <4>2. b.ops \in Seq(Nat)
        BY <1>8
      <4> QED
        BY <1>6, <4>1, <4>2 DEF StepOK
    <3>3. CASE \E p \in 2 .. W : q = I + p
      BY <1>4, <1>18, <1>20, <3>3 DEF AssignTypes
    <3> QED
      BY <1>18, <3>1, <3>2, <3>3
  <2>2. lastUsed' = [u \in Tile |-> lastUsed'[u]]
    <3>1. lastUsed = [u \in Tile |-> lastUsed[u]]
      BY <1>4 DEF AssignTypes
    <3>2. lastUsed' = [u \in Tile |-> IF u = t THEN taken.last ELSE lastUsed[u]]
      BY <1>13, <3>1
    <3> QED
      BY <3>2
  <2>3. /\ assigned' \in [Tile -> SUBSET BdIds] /\ bdIdOps' = [i \in DOMAIN dmas' |-> bdIdOps'[i]]
        /\ \A i \in DOMAIN dmas' : RangeOK(bdIdOps'[i])
    BY <1>3, <1>15 DEF NewIds
  <2>4. dmas' \in Seq([tile : Tile, loop : Nat, begin : Nat, end : Int])
    BY <1>3, <1>4 DEF AssignTypes
  <2> QED
    BY <1>18, <2>1, <2>2, <2>3, <2>4 DEF AssignTypes
<1>26. ASSUME NEW i, NEW u
       PROVE  Held(i, u)' <=> Held(i, u) \/ (u = t /\ i \in ToSet(ops))
  <2>1. ASSUME Held(i, u)' PROVE Held(i, u) \/ (u = t /\ i \in ToSet(ops))
    <3>1. PICK q \in DOMAIN work' : /\ work'[q].step = "release" /\ work'[q].tile = u
                                    /\ i \in ToSet(work'[q].batch.ops)
      BY <2>1 DEF Held
    <3>2. CASE q = I + 1
      BY <1>14, <1>19, <3>1, <3>2
    <3>3. CASE \E p \in 2 .. W : q = I + p
      BY <1>18, <1>20, <3>1, <3>3, ZenonT(60) DEF Held
    <3> QED
      BY <1>18, <1>19, <3>1, <3>2, <3>3
  <2>2. ASSUME Held(i, u) PROVE Held(i, u)'
    <3>1. PICK p \in DOMAIN work : /\ work[p].step = "release" /\ work[p].tile = u
                                   /\ i \in ToSet(work[p].batch.ops)
      BY <2>2 DEF Held
    <3>2. p \in 2 .. W
      BY <1>3, <1>5, <1>20, <3>1
    <3> QED
      BY <1>18, <3>1, <3>2 DEF Held
  <2>3. ASSUME u = t, i \in ToSet(ops) PROVE Held(i, u)'
    BY <1>14, <1>18, <1>19, <2>3 DEF Held
  <2> QED
    BY <2>1, <2>2, <2>3
<1>27. ASSUME NEW i, NEW u, Held(i, u)
       PROVE  i \in DOMAIN dmas /\ i \notin ToSet(ops) /\ ~In(i, b) /\ BdIdsOf(i)' = BdIdsOf(i)
  <2>1. PICK p \in DOMAIN work : work[p].step = "release" /\ i \in ToSet(work[p].batch.ops)
    BY <1>27 DEF Held
  <2>2. Covers(i, work[p]) /\ p # 1
    BY <1>3, <1>5, <2>1 DEF Covers
  <2>3. i \in DOMAIN dmas
    BY <2>2 DEF AssignInv, InOneStep
  <2>4. ~In(i, b) /\ i \notin ToSet(ops)
    BY <1>20, <1>23, <2>2
  <2> QED
    BY <1>15, <2>3, <2>4 DEF NewIds
<1>28. IdsAreHeld'
  <2> SUFFICES ASSUME NEW u \in Tile
               PROVE  /\ \A i : Held(i, u)' => BdIdsOf(i)' \subseteq assigned'[u]
                      /\ \A id \in assigned'[u] : \E i : Held(i, u)' /\ id \in BdIdsOf(i)'
                      /\ \A i, j : Held(i, u)' /\ Held(j, u)' /\ i # j => BdIdsOf(i)' \cap BdIdsOf(j)' = {}
    BY DEF IdsAreHeld
  <2>1. /\ \A i : Held(i, u) => BdIdsOf(i) \subseteq assigned[u]
        /\ \A id \in assigned[u] : \E i : Held(i, u) /\ id \in BdIdsOf(i)
        /\ \A i, j : Held(i, u) /\ Held(j, u) /\ i # j => BdIdsOf(i) \cap BdIdsOf(j) = {}
    BY DEF AssignInv, IdsAreHeld
  <2>2. assigned[u] \subseteq assigned'[u] /\ (u # t => assigned'[u] = assigned[u])
    BY <1>15 DEF NewIds
  <2>3. ASSUME NEW i, Held(i, u)' PROVE BdIdsOf(i)' \subseteq assigned'[u]
    <3>1. CASE Held(i, u)
      BY <1>27, <2>1, <2>2, <3>1
    <3>2. CASE u = t /\ i \in ToSet(ops)
      BY <1>15, <3>2 DEF NewIds
    <3> QED
      BY <1>26, <2>3, <3>1, <3>2
  <2>4. ASSUME NEW id \in assigned'[u] PROVE \E i : Held(i, u)' /\ id \in BdIdsOf(i)'
    <3>1. CASE id \in assigned[u]
      <4>1. PICK i : Held(i, u) /\ id \in BdIdsOf(i)
        BY <2>1, <3>1
      <4> QED
        BY <1>26, <1>27, <4>1
    <3>2. CASE id \notin assigned[u]
      <4>1. u = t
        BY <2>2, <3>2
      <4>2. PICK i \in ToSet(ops) : id \in BdIdsOf(i)'
        BY <1>15, <3>2, <4>1 DEF NewIds
      <4> QED
        BY <1>26, <4>1, <4>2
    <3> QED
      BY <3>1, <3>2
  <2>5. ASSUME NEW i, NEW j, Held(i, u), u = t, j \in ToSet(ops)
        PROVE  BdIdsOf(i)' \cap BdIdsOf(j)' = {}
    <3>1. BdIdsOf(i)' \subseteq assigned[t]
      BY <1>27, <2>1, <2>5
    <3>2. BdIdsOf(j)' \cap assigned[t] = {}
      BY <1>15, <2>5 DEF NewIds
    <3> QED
      BY <3>1, <3>2
  <2>6. ASSUME NEW i, NEW j, Held(i, u)', Held(j, u)', i # j
        PROVE  BdIdsOf(i)' \cap BdIdsOf(j)' = {}
    <3>1. CASE Held(i, u) /\ Held(j, u)
      BY <1>27, <2>1, <2>6, <3>1
    <3>2. CASE Held(i, u) /\ u = t /\ j \in ToSet(ops)
      BY <2>5, <3>2
    <3>3. CASE Held(j, u) /\ u = t /\ i \in ToSet(ops)
      <4>1. BdIdsOf(j)' \cap BdIdsOf(i)' = {}
        BY <2>5, <3>3
      <4> QED
        BY <4>1
    <3>4. CASE i \in ToSet(ops) /\ j \in ToSet(ops)
      BY <1>15, <2>6, <3>4 DEF NewIds
    <3> QED
      BY <1>26, <2>6, <3>1, <3>2, <3>3, <3>4
  <2> QED
    BY <2>3, <2>4, <2>6
<1>29. ASSUME NEW i, Pending(i)' PROVE Pending(i) /\ i \notin ToSet(ops)
  <2>1. PICK q \in DOMAIN work' : work'[q].step = "assign" /\ In(i, work'[q].batch)
    BY <1>29 DEF Pending
  <2>2. CASE q \in 1 .. I
    BY <1>3, <1>5, <1>6, <1>19, <1>23, <2>1, <2>2 DEF Pending
  <2>3. CASE \E p \in 2 .. W : q = I + p
    <3>1. PICK p \in 2 .. W : q = I + p
      BY <2>3
    <3>2. p \in DOMAIN work /\ work[p].step = "assign" /\ In(i, work[p].batch)
      BY <1>18, <1>20, <2>1, <3>1
    <3>3. Covers(i, work[p])
      BY <3>2 DEF Covers
    <3> QED
      BY <1>23, <3>2, <3>3 DEF Pending
  <2> QED
    BY <1>18, <1>19, <2>1, <2>2, <2>3
<1>30. ASSUME NEW x \in DOMAIN dmas, NEW y \in DOMAIN dmas, x # y, PairOK(x, y),
             dmas[x].tile = dmas[y].tile
       PROVE  PairOK(x, y)'
  <2>1. CASE BdIdsOf(x) \cap BdIdsOf(y) = {} /\ ~Pending(x) /\ ~Pending(y)
    <3>1. x \notin ToSet(ops) /\ y \notin ToSet(ops)
      BY <1>3, <1>5, <1>6, <1>23, <2>1 DEF Pending
    <3>2. BdIdsOf(x)' = BdIdsOf(x) /\ BdIdsOf(y)' = BdIdsOf(y)
      BY <1>15, <3>1 DEF NewIds
    <3> QED
      BY <1>29, <2>1, <3>2 DEF PairOK
  <2>2. CASE \E p \in DOMAIN work : work[p].step = "assign" /\ Together(x, y, work[p].batch)
    <3>1. PICK p \in DOMAIN work : work[p].step = "assign" /\ Together(x, y, work[p].batch)
      BY <2>2
    <3>2. CASE p \in 2 .. W
      BY <1>18, <3>1, <3>2 DEF PairOK
    <3>3. CASE p = 1
      <4>1. Together(x, y, b)
        BY <1>5, <1>6, <3>1, <3>3
      <4>2. CASE \E c \in ToSet(b.inner) : Together(x, y, c)
        <5>1. PICK q \in 1 .. I : Together(x, y, b.inner[q])
          BY <1>18, <4>2 DEF ToSet
        <5> QED
          BY <1>18, <1>19, <5>1 DEF PairOK
      <4>3. CASE x \in ToSet(ops) /\ y \in ToSet(ops)
        <5>1. BdIdsOf(x)' \cap BdIdsOf(y)' = {}
          BY <1>15, <1>30, <4>3 DEF NewIds
        <5> QED
          BY <1>29, <4>3, <5>1 DEF PairOK
      <4>4. CASE x \in ToSet(ops) /\ \E c \in ToSet(b.inner) : In(y, c)
        <5>1. PICK q \in 1 .. I : In(y, b.inner[q])
          BY <1>18, <4>4 DEF ToSet
        <5> QED
          BY <1>14, <1>18, <1>19, <4>4, <5>1 DEF PairOK
      <4> QED
        BY <1>14, <4>1, <4>2, <4>3, <4>4, TogetherSplit, InSplit
    <3> QED
      BY <1>20, <3>2, <3>3
  <2>3. CASE \E p, q \in DOMAIN work :
                /\ p < q /\ work[p].step = "assign" /\ In(y, work[p].batch)
                /\ work[q].step = "release" /\ x \in ToSet(work[q].batch.ops)
    <3>1. PICK p \in DOMAIN work, q \in DOMAIN work :
                /\ p < q /\ work[p].step = "assign" /\ In(y, work[p].batch)
                /\ work[q].step = "release" /\ x \in ToSet(work[q].batch.ops)
      BY <2>3
    <3>2. q \in 2 .. W
      BY <1>3, <1>5, <1>20, <3>1
    <3>3. work'[I + q].step = "release" /\ x \in ToSet(work'[I + q].batch.ops) /\ I + q \in DOMAIN work'
      BY <1>18, <3>1, <3>2
    <3>4. CASE p \in 2 .. W
      <4>1. I + p \in DOMAIN work' /\ I + p < I + q /\ work'[I + p] = work[p]
        BY <1>18, <3>1, <3>2, <3>4
      <4> QED
        BY <3>1, <3>3, <4>1 DEF PairOK
    <3>5. CASE p = 1
      <4>1. In(y, b)
        BY <1>5, <1>6, <3>1, <3>5
      <4>2. CASE \E c \in ToSet(b.inner) : In(y, c)
        <5>1. PICK m \in 1 .. I : In(y, b.inner[m])
          BY <1>18, <4>2 DEF ToSet
        <5>2. m < I + q /\ m \in DOMAIN work' /\ work'[m].step = "assign" /\ work'[m].batch = b.inner[m]
          BY <1>18, <1>19, <3>2
        <5> QED
          BY <3>3, <5>1, <5>2 DEF PairOK
      <4>3. CASE y \in ToSet(ops)
        <5>1. Held(x, work[q].tile) /\ Covers(x, work[q])
          BY <3>1 DEF Held, Covers
        <5>2. work[q].tile \in Tile
          BY <1>4 DEF AssignTypes, StepOK
        <5>3. BdIdsOf(x)' = BdIdsOf(x) /\ x \notin ToSet(ops) /\ ~In(x, b)
          BY <1>27, <5>1
        <5>4. BdIdsOf(x)' \cap BdIdsOf(y)' = {}
          <6>1. CASE work[q].tile = t
            <7>1. BdIdsOf(x) \subseteq assigned[t] /\ BdIdsOf(y)' \cap assigned[t] = {}
              BY <1>15, <4>3, <5>1, <5>2, <6>1 DEF AssignInv, IdsAreHeld, NewIds
            <7> QED
              BY <5>3, <7>1
          <6>2. CASE work[q].tile # t
            <7>1. dmas[x].tile = work[q].tile
              BY <3>1, <5>1 DEF AssignInv, InOneStep
            <7>2. dmas[y].tile = t
              BY <1>10, <4>1
            <7> QED
              BY <1>30, <6>2, <7>1, <7>2
          <6> QED
            BY <6>1, <6>2
        <5>5. ~Pending(x)'
          <6>1. SUFFICES ASSUME Pending(x)' PROVE FALSE
            OBVIOUS
          <6>2. Pending(x)
            BY <1>29, <6>1
          <6>3. PICK r \in DOMAIN work : work[r].step = "assign" /\ In(x, work[r].batch)
            BY <6>2 DEF Pending
          <6>4. Covers(x, work[r])
            BY <6>3 DEF Covers
          <6>5. r = q
            BY <5>1, <6>4 DEF AssignInv, InOneStep
          <6> QED
            BY <3>1, <6>3, <6>5
        <5> QED
          BY <1>29, <4>3, <5>4, <5>5 DEF PairOK
      <4> QED
        BY <1>14, <4>1, <4>2, <4>3, InSplit
    <3> QED
      BY <1>20, <3>4, <3>5
  <2> QED
    BY <1>30, <2>1, <2>2, <2>3 DEF PairOK
<1>31. PairsApart'
  <2> SUFFICES ASSUME NEW x \in DOMAIN dmas, NEW y \in DOMAIN dmas, Inside(y, x),
                      dmas[x].tile = dmas[y].tile
               PROVE  PairOK(x, y)'
    <3>1. \A x, y : Inside(y, x)' <=> Inside(y, x)
      BY <1>3 DEF Inside
    <3> QED
      BY <1>3, <3>1 DEF PairsApart
  <2>1. PairOK(x, y)
    BY DEF AssignInv, PairsApart
  <2>2. x # y
    <3>1. dmas[x].begin \in Nat /\ dmas[x].begin < dmas[y].begin
      BY <1>4, DmasAre DEF AssignTypes, Inside
    <3> QED
      BY <3>1
  <2> QED
    BY <1>30, <2>1, <2>2
<1> QED
  BY <1>24, <1>25, <1>28, <1>31 DEF AssignInv

LEMMA BatchReleased ==
    ASSUME AssignInv, ReleaseBatch
    PROVE  AssignInv'
<1>1. PICK s, t, ops, W : s = Head(work) /\ t = s.tile /\ ops = s.batch.ops /\ W = Len(work)
  OBVIOUS
<1>2. PICK ids : ids = UNION {BdIdsOf(i) : i \in ToSet(ops)}
  OBVIOUS
<1>3. /\ work # <<>> /\ s.step = "release" /\ dmas' = dmas /\ lastUsed' = lastUsed /\ bdIdOps' = bdIdOps
      /\ work' = Tail(work) /\ assigned' = [assigned EXCEPT ![t] = @ \ ids]
  BY <1>1, <1>2 DEF ReleaseBatch
<1>4. AssignTypes
  BY DEF AssignInv
<1>5. IsSeq(work) /\ W \in Nat \ {0} /\ 1 \in DOMAIN work /\ s = work[1] /\ StepOK(s)
  BY <1>1, <1>3, <1>4, HeadOfWork
<1>6. t \in Tile
  BY <1>1, <1>5 DEF StepOK
<1>7. DOMAIN work = 1 .. W /\ IsSeq(work') /\ DOMAIN work' = 1 .. W - 1
      /\ \A p \in 1 .. W - 1 : work'[p] = work[p + 1]
  <2>1. IsSeq(work') /\ Len(work') = W - 1 /\ \A p \in 1 .. W - 1 : work'[p] = work[p + 1]
    BY <1>1, <1>3, <1>5, TailIs
  <2> QED
    BY <1>1, <1>5, <2>1, LenIs
<1>8. /\ \A p \in DOMAIN work' : p + 1 \in DOMAIN work /\ p + 1 # 1 /\ work'[p] = work[p + 1]
      /\ \A p \in DOMAIN work : p = 1 \/ (p - 1 \in DOMAIN work' /\ work'[p - 1] = work[p])
      /\ \A p, q \in DOMAIN work' : p + 1 = q + 1 => p = q
      /\ \A p, q \in DOMAIN work : p < q => p - 1 < q - 1
  <2>1. ASSUME NEW p \in DOMAIN work' PROVE p + 1 \in DOMAIN work /\ p + 1 # 1 /\ work'[p] = work[p + 1]
    <3>1. p \in 1 .. W - 1 /\ p + 1 \in 1 .. W /\ p + 1 # 1
      BY <1>5, <1>7
    <3> QED
      BY <1>7, <3>1
  <2>2. ASSUME NEW p \in DOMAIN work, p # 1 PROVE p - 1 \in DOMAIN work' /\ work'[p - 1] = work[p]
    <3>1. p - 1 \in 1 .. W - 1 /\ p - 1 + 1 = p
      BY <1>5, <1>7, <2>2
    <3> QED
      BY <1>7, <3>1
  <2> QED
    BY <1>5, <1>7, <2>1, <2>2
<1>9. \A i, p : p \in DOMAIN work' => (Covers(i, work'[p]) <=> Covers(i, work[p + 1]))
  BY <1>8
<1>10. \A i : i \in ToSet(ops) <=> Covers(i, work[1])
  BY <1>1, <1>3, <1>5 DEF Covers
<1>11. AssignTypes'
  <2>1. \A p \in DOMAIN work' : StepOK(work'[p])
    BY <1>4, <1>8 DEF AssignTypes
  <2>2. assigned' \in [Tile -> SUBSET BdIds]
    BY <1>3, <1>4 DEF AssignTypes
  <2> QED
    BY <1>3, <1>4, <1>7, <2>1, <2>2 DEF AssignTypes
<1>12. InOneStep'
  <2>1. ASSUME NEW p \in DOMAIN work', NEW q \in DOMAIN work', NEW i,
               Covers(i, work'[p]), Covers(i, work'[q])
        PROVE  p = q
    <3>1. p + 1 = q + 1
      BY <1>8, <1>9, <2>1 DEF AssignInv, InOneStep
    <3> QED
      BY <1>8, <3>1
  <2>2. ASSUME NEW p \in DOMAIN work', NEW i, Covers(i, work'[p])
        PROVE  i \in DOMAIN dmas' /\ dmas'[i].tile = work'[p].tile
    BY <1>3, <1>8, <1>9, <2>2 DEF AssignInv, InOneStep
  <2> QED
    BY <2>1, <2>2 DEF InOneStep
<1>13. ASSUME NEW i, NEW u
       PROVE  /\ Held(i, u)' => Held(i, u) /\ i \notin ToSet(ops)
              /\ Held(i, u) => Held(i, u)' \/ (u = t /\ i \in ToSet(ops))
  <2>1. ASSUME Held(i, u)' PROVE Held(i, u) /\ i \notin ToSet(ops)
    <3>1. PICK p \in DOMAIN work' : /\ work'[p].step = "release" /\ work'[p].tile = u
                                    /\ i \in ToSet(work'[p].batch.ops)
      BY <2>1 DEF Held
    <3>2. Covers(i, work[p + 1]) /\ p + 1 # 1 /\ p + 1 \in DOMAIN work
      BY <1>8, <3>1 DEF Covers
    <3>3. i \notin ToSet(ops)
      BY <1>5, <1>10, <3>2 DEF AssignInv, InOneStep
    <3> QED
      BY <1>8, <3>1, <3>3 DEF Held
  <2>2. ASSUME Held(i, u) PROVE Held(i, u)' \/ (u = t /\ i \in ToSet(ops))
    <3>1. PICK p \in DOMAIN work : /\ work[p].step = "release" /\ work[p].tile = u
                                   /\ i \in ToSet(work[p].batch.ops)
      BY <2>2 DEF Held
    <3>2. CASE p = 1
      BY <1>1, <1>5, <3>1, <3>2
    <3>3. CASE p # 1
      BY <1>8, <3>1, <3>3 DEF Held
    <3> QED
      BY <3>2, <3>3
  <2> QED
    BY <2>1, <2>2
<1>14. \A i : BdIdsOf(i)' = BdIdsOf(i)
  BY <1>3 DEF BdIdsOf
<1>15. \A i \in ToSet(ops) : Held(i, t)
  BY <1>1, <1>3, <1>5 DEF Held
<1>16. IdsAreHeld'
  <2> SUFFICES ASSUME NEW u \in Tile
               PROVE  /\ \A i : Held(i, u)' => BdIdsOf(i)' \subseteq assigned'[u]
                      /\ \A id \in assigned'[u] : \E i : Held(i, u)' /\ id \in BdIdsOf(i)'
                      /\ \A i, j : Held(i, u)' /\ Held(j, u)' /\ i # j => BdIdsOf(i)' \cap BdIdsOf(j)' = {}
    BY DEF IdsAreHeld
  <2>1. /\ \A i : Held(i, u) => BdIdsOf(i) \subseteq assigned[u]
        /\ \A id \in assigned[u] : \E i : Held(i, u) /\ id \in BdIdsOf(i)
        /\ \A i, j : Held(i, u) /\ Held(j, u) /\ i # j => BdIdsOf(i) \cap BdIdsOf(j) = {}
    BY DEF AssignInv, IdsAreHeld
  <2>2. assigned'[u] = IF u = t THEN assigned[u] \ ids ELSE assigned[u]
    BY <1>3, <1>4 DEF AssignTypes
  <2>3. ASSUME NEW i, Held(i, u)' PROVE BdIdsOf(i)' \subseteq assigned'[u]
    <3>1. Held(i, u) /\ i \notin ToSet(ops)
      BY <1>13, <2>3
    <3>2. BdIdsOf(i) \subseteq assigned[u]
      BY <2>1, <3>1
    <3>3. CASE u = t
      <4>1. BdIdsOf(i) \cap ids = {}
        <5>1. SUFFICES ASSUME NEW id \in BdIdsOf(i), id \in ids PROVE FALSE
          OBVIOUS
        <5>2. PICK j \in ToSet(ops) : id \in BdIdsOf(j)
          BY <1>2, <5>1
        <5>3. Held(j, u) /\ i # j
          BY <1>15, <3>1, <3>3
        <5>4. BdIdsOf(i) \cap BdIdsOf(j) = {}
          BY <2>1, <3>1, <5>3
        <5> QED
          BY <5>1, <5>2, <5>4
      <4> QED
        BY <1>14, <2>2, <3>2, <3>3, <4>1
    <3>4. CASE u # t
      BY <1>14, <2>2, <3>2, <3>4
    <3> QED
      BY <3>3, <3>4
  <2>4. ASSUME NEW id \in assigned'[u] PROVE \E i : Held(i, u)' /\ id \in BdIdsOf(i)'
    <3>1. id \in assigned[u]
      BY <2>2
    <3>2. PICK i : Held(i, u) /\ id \in BdIdsOf(i)
      BY <2>1, <3>1
    <3>3. ~(u = t /\ i \in ToSet(ops))
      BY <1>2, <2>2, <3>2
    <3> QED
      BY <1>13, <1>14, <3>2, <3>3
  <2>5. ASSUME NEW i, NEW j, Held(i, u)', Held(j, u)', i # j
        PROVE  BdIdsOf(i)' \cap BdIdsOf(j)' = {}
    BY <1>13, <1>14, <2>1, <2>5
  <2> QED
    BY <2>3, <2>4, <2>5
<1>17. ASSUME NEW i, Pending(i)' PROVE Pending(i)
  BY <1>8, <1>17 DEF Pending
<1>18. ASSUME NEW x \in DOMAIN dmas, NEW y \in DOMAIN dmas, PairOK(x, y)
       PROVE  PairOK(x, y)'
  <2>1. CASE BdIdsOf(x) \cap BdIdsOf(y) = {} /\ ~Pending(x) /\ ~Pending(y)
    BY <1>14, <1>17, <2>1 DEF PairOK
  <2>2. CASE \E p \in DOMAIN work : work[p].step = "assign" /\ Together(x, y, work[p].batch)
    <3>1. PICK p \in DOMAIN work : work[p].step = "assign" /\ Together(x, y, work[p].batch)
      BY <2>2
    <3>2. p # 1
      BY <1>3, <1>5, <3>1
    <3> QED
      BY <1>8, <3>1, <3>2 DEF PairOK
  <2>3. CASE \E p, q \in DOMAIN work :
                /\ p < q /\ work[p].step = "assign" /\ In(y, work[p].batch)
                /\ work[q].step = "release" /\ x \in ToSet(work[q].batch.ops)
    <3>1. PICK p \in DOMAIN work, q \in DOMAIN work :
                /\ p < q /\ work[p].step = "assign" /\ In(y, work[p].batch)
                /\ work[q].step = "release" /\ x \in ToSet(work[q].batch.ops)
      BY <2>3
    <3>2. p # 1
      BY <1>3, <1>5, <3>1
    <3>3. q # 1
      BY <1>7, <3>1
    <3>4. p - 1 \in DOMAIN work' /\ work'[p - 1] = work[p] /\ q - 1 \in DOMAIN work' /\ work'[q - 1] = work[q]
      BY <1>8, <3>2, <3>3
    <3>5. p - 1 < q - 1
      BY <1>8, <3>1
    <3> QED
      BY <3>1, <3>4, <3>5 DEF PairOK
  <2> QED
    BY <1>18, <2>1, <2>2, <2>3 DEF PairOK
<1>19. PairsApart'
  <2> SUFFICES ASSUME NEW x \in DOMAIN dmas, NEW y \in DOMAIN dmas, Inside(y, x),
                      dmas[x].tile = dmas[y].tile
               PROVE  PairOK(x, y)'
    <3>1. \A x, y : Inside(y, x)' <=> Inside(y, x)
      BY <1>3 DEF Inside
    <3> QED
      BY <1>3, <3>1 DEF PairsApart
  <2>1. PairOK(x, y)
    BY DEF AssignInv, PairsApart
  <2> QED
    BY <1>18, <2>1
<1> QED
  BY <1>11, <1>12, <1>16, <1>19 DEF AssignInv

-----------------------------------------------------------------------------
LEMMA WalkStep ==
    ASSUME Walk, phase = "walk" => WalkInv', phase' = phase, BatchInv
    PROVE  BatchInv'
<1>1. /\ phase = "walk" /\ work' = work /\ assigned' = assigned /\ lastUsed' = lastUsed
  BY DEF Walk
<1> QED
  BY <1>1 DEF BatchInv

LEMMA BatchStep ==
    ASSUME BatchInv, [Next]_vars
    PROVE  BatchInv'
<1>1. phase = "walk" => WalkInv
  BY DEF BatchInv
<1>2. ASSUME NEW t \in Tile, VisitDma(t) PROVE BatchInv'
  <2>1. Walk /\ phase' = phase
    BY <1>2 DEF VisitDma
  <2> QED
    BY <1>1, <1>2, <2>1, DmaVisited, WalkStep
<1>3. CASE VisitWait
  <2>1. Walk /\ phase' = phase
    BY <1>3 DEF VisitWait
  <2> QED
    BY <1>1, <1>3, <2>1, DmaWaited, WalkStep
<1>4. ASSUME NEW l \in Loops, EnterLoop(l) PROVE BatchInv'
  <2>1. Walk /\ phase' = phase
    BY <1>4 DEF EnterLoop
  <2> QED
    BY <1>1, <1>4, <2>1, LoopEntered, WalkStep
<1>5. CASE LeaveLoop
  <2>1. Walk /\ phase' = phase
    BY <1>5 DEF LeaveLoop
  <2> QED
    BY <1>1, <1>5, <2>1, LoopLeft, WalkStep
<1>6. CASE StartAssigning
  <2>1. phase = "walk" /\ phase' = "assign"
    BY <1>6 DEF StartAssigning
  <2>2. WalkInv /\ assigned = [t \in Tile |-> {}] /\ lastUsed = [t \in Tile |-> NumBdIds + 1]
    BY <2>1 DEF BatchInv
  <2>3. AssignInv'
    BY <1>6, <2>2, AssigningStarts
  <2> QED
    BY <2>1, <2>3 DEF BatchInv
<1>7. CASE AssignBatch
  <2>1. phase = "assign" /\ AssignInv /\ phase' \in {phase, "failed"}
    BY <1>7 DEF AssignBatch, BatchInv
  <2>2. CASE phase' = "failed"
    BY <2>2 DEF BatchInv
  <2>3. CASE phase' = phase
    <3>1. AssignInv'
      BY <1>7, <2>1, <2>3, BatchAssigned
    <3> QED
      BY <2>1, <2>3, <3>1 DEF BatchInv
  <2> QED
    BY <2>1, <2>2, <2>3
<1>8. CASE ReleaseBatch
  <2>1. phase = "assign" /\ AssignInv /\ phase' = phase
    BY <1>8 DEF ReleaseBatch, BatchInv
  <2>2. AssignInv'
    BY <1>8, <2>1, BatchReleased
  <2> QED
    BY <2>1, <2>2 DEF BatchInv
<1>9. ASSUME UNCHANGED <<dmas, work, assigned, lastUsed, bdIdOps>>, AssignInv
      PROVE  AssignInv'
  <2>1. \A i, u : (Held(i, u)' <=> Held(i, u)) /\ (Pending(i)' <=> Pending(i)) /\ BdIdsOf(i)' = BdIdsOf(i)
    BY <1>9 DEF Held, Pending, BdIdsOf
  <2>2. \A i, j : (PairOK(i, j)' <=> PairOK(i, j)) /\ (Inside(i, j)' <=> Inside(i, j))
    BY <1>9, <2>1 DEF PairOK, Inside
  <2>3. AssignTypes'
    BY <1>9 DEF AssignInv, AssignTypes
  <2>4. InOneStep'
    BY <1>9 DEF AssignInv, InOneStep
  <2>5. IdsAreHeld'
    BY <1>9, <2>1 DEF AssignInv, IdsAreHeld
  <2>6. PairsApart'
    BY <1>9, <2>2 DEF AssignInv, PairsApart
  <2> QED
    BY <2>3, <2>4, <2>5, <2>6 DEF AssignInv
<1>10. CASE Finish
  <2>1. /\ phase = "assign" /\ work = <<>> /\ phase' = "done" /\ AssignInv
        /\ UNCHANGED <<dmas, work, assigned, lastUsed, bdIdOps>>
    BY <1>10 DEF Finish, BatchInv
  <2>2. AssignInv'
    BY <1>9, <2>1
  <2> QED
    BY <2>1, <2>2 DEF BatchInv
<1>11. CASE UNCHANGED vars
  <2>1. UNCHANGED <<dmas, work, assigned, lastUsed, bdIdOps>> /\ phase' = phase
    BY <1>11 DEF vars
  <2>2. WalkInv => WalkInv'
    <3> SUFFICES ASSUME WalkInv PROVE WalkInv'
      OBVIOUS
    <3>1. UNCHANGED <<dmas, loops, clock, frames>>
      BY <1>11 DEF vars
    <3>2. \A k, u, m : Root(k, u, m)' = Root(k, u, m)
      BY <3>1 DEF Root
    <3>3. \A i, j : Inside(i, j)' <=> Inside(i, j)
      BY <3>1 DEF Inside
    <3>4. \A i, k, m : AwaitedIn(i, k, m)' <=> AwaitedIn(i, k, m)
      BY <3>1 DEF AwaitedIn, Root
    <3>5. WalkTypes' /\ DmasPast' /\ Nested'
      BY <3>1 DEF WalkInv, WalkTypes, DmasPast, Nested
    <3>6. RootsAreTrees'
      BY <3>1, <3>2 DEF WalkInv, RootsAreTrees
    <3>7. InOneRoot'
      BY <3>1, <3>2 DEF WalkInv, InOneRoot
    <3>8. PairsTogether'
      BY <3>1, <3>2, <3>3 DEF WalkInv, PairsTogether
    <3>9. OpenDmas'
      BY <3>1, <3>4 DEF WalkInv, OpenDmas
    <3> QED
      BY <3>5, <3>6, <3>7, <3>8, <3>9 DEF WalkInv
  <2>3. AssignInv => AssignInv'
    BY <1>9, <2>1
  <2> QED
    BY <2>1, <2>2, <2>3 DEF BatchInv
<1> QED
  BY <1>2, <1>3, <1>4, <1>5, <1>6, <1>7, <1>8, <1>10, <1>11 DEF Next

(* The walk keeps the DMAs of a tile that are outstanding together in one  *)
(* tree of batches, and the assignment takes the ids of a batch after      *)
(* those of the batches around it and gives them back after those of the   *)
(* batches inside: createTileDmaBatchGraph with processDmaBatch.           *)
THEOREM BatchInvariant == Spec => []BatchInv
<1>1. Init => BatchInv
  <2> SUFFICES ASSUME Init PROVE BatchInv
    OBVIOUS
  <2>1. WalkInv
    BY WalkStarts
  <2> QED
    BY <2>1 DEF BatchInv, Init
<1>2. BatchInv /\ [Next]_vars => BatchInv'
  BY BatchStep
<1> QED
  BY <1>1, <1>2, PTL DEF Spec

(* The expression iv % size + offset goes through the ids recorded for a   *)
(* DMA when these are consecutive.                                         *)
LEMMA ExpressionStays ==
    ASSUME NEW i, RangeOK(bdIdOps[i]), Consecutive(i)
    PROVE  UsedBdIds(i) \subseteq BdIdsOf(i)
<1>1. PICK r : r = bdIdOps[i]
  OBVIOUS
<1>2. r.ids \in Seq(BdIds) /\ r.offset \in Nat /\ r.size \in Nat /\ Len(r.ids) = r.size
  BY <1>1 DEF RangeOK
<1>3. \A k \in 1 .. r.size : r.ids[k] = r.offset + k - 1
  BY <1>1 DEF Consecutive
<1>4. ASSUME r.size > 1, NEW iv \in InductionValues(dmas[i].loop)
      PROVE  BdIdExpr(i, iv) \in BdIdsOf(i)
  <2>1. iv \in Nat
    BY DEF InductionValues
  <2>2. iv % r.size \in 0 .. r.size - 1
    BY <1>2, <1>4, <2>1
  <2>3. PICK k : k = (iv % r.size) + 1
    OBVIOUS
  <2>4. k \in 1 .. r.size /\ (iv % r.size) + r.offset = r.offset + k - 1
    BY <1>2, <2>2, <2>3
  <2>5. k \in DOMAIN r.ids /\ r.ids[k] = BdIdExpr(i, iv)
    BY <1>1, <1>2, <1>3, <2>4, LenProperties DEF BdIdExpr
  <2> QED
    BY <1>1, <2>5 DEF BdIdsOf, ToSet
<1> QED
  BY <1>1, <1>4 DEF UsedBdIds

(* Two DMAs of a tile of which one is started while the other waits for    *)
(* its token use no common BD id in any iteration, if the ids recorded for *)
(* each of them are consecutive, for any control code, any number of ids   *)
(* and any loops: getAndAssignBdId and releaseBdId are called in the order *)
(* of the batches, which keeps the recorded ids apart, and the expression  *)
(* of a DMA stays within its ids.                                          *)
THEOREM OutstandingDmasDiffer == Spec => []OutstandingIdsDiffer
<1>1. BatchInv => OutstandingIdsDiffer
  <2> SUFFICES ASSUME BatchInv, phase = "done", NEW i \in DOMAIN dmas, NEW j \in DOMAIN dmas,
                      Inside(j, i), dmas[i].tile = dmas[j].tile, Consecutive(i), Consecutive(j)
               PROVE  UsedBdIds(i) \cap UsedBdIds(j) = {}
    BY DEF OutstandingIdsDiffer
  <2>1. AssignInv /\ work = <<>>
    BY DEF BatchInv
  <2>2. PairOK(i, j)
    BY <2>1 DEF AssignInv, PairsApart
  <2>3. DOMAIN work = {}
    BY <2>1
  <2>4. BdIdsOf(i) \cap BdIdsOf(j) = {}
    BY <2>2, <2>3 DEF PairOK
  <2>5. UsedBdIds(i) \subseteq BdIdsOf(i) /\ UsedBdIds(j) \subseteq BdIdsOf(j)
    BY <2>1, ExpressionStays DEF AssignInv, AssignTypes
  <2> QED
    BY <2>4, <2>5
<1> QED
  BY <1>1, BatchInvariant, PTL

(* When every batch was served no id is taken on any tile:                 *)
(* releaseAssignedBdIdsInDmaOps gives back what                            *)
(* assignRequiredBdIdsInCurrentBatch took.                                 *)
THEOREM IdsAreGivenBack == Spec => []AllIdsReleased
<1>1. BatchInv => AllIdsReleased
  <2> SUFFICES ASSUME BatchInv, phase = "done", NEW t \in Tile
               PROVE  assigned[t] = {}
    BY DEF AllIdsReleased
  <2>1. IdsAreHeld /\ work = <<>>
    BY DEF BatchInv, AssignInv
  <2>2. DOMAIN work = {}
    BY <2>1
  <2>3. \A i : ~Held(i, t)
    BY <2>2 DEF Held
  <2> QED
    BY <2>1, <2>3 DEF IdsAreHeld
<1> QED
  BY <1>1, BatchInvariant, PTL
=============================================================================

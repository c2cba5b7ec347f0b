----------------------------- MODULE ChainProofs -----------------------------
(***************************************************************************)
(* What holds for every set of programs, connections, ports and BD ids.    *)
(* Chaining: at most one open chain of a tile holds a given BD id, which   *)
(* is why checkForChainsWithDuplicateBdId may stop at the first one; if    *)
(* the ids come round in turn, a chain owns its BDs until its push.  The   *)
(* passes: exactly the DMAs with a token are awaited, once, behind them.   *)
(* The run: every token asked for is taken, no sync waits in vain, and     *)
(* no queue is overfilled by a connection whose waits are not delayed.     *)
(***************************************************************************)
EXTENDS ControlCodePipeline, FiniteSetTheorems, SequenceTheorems,
        WellFoundedInduction, TLAPS

-----------------------------------------------------------------------------
(* A set of numbers that is not empty has a smallest one.                    *)
LEMMA Smallest ==
    ASSUME NEW S \in SUBSET Nat, S # {}
    PROVE  \E n \in S : \A m \in S : ~(m < n)
<1> DEFINE R == OpToRel(<, Nat)
<1>1. \E n \in S : \A m \in S : <<m, n>> \notin R
  <2>1. IsWellFoundedOn(R, Nat)
    BY NatLessThanWellFounded
  <2> HIDE DEF R
  <2> QED
    BY <2>1, WFMin
<1>2. \A m, n \in S : m < n => <<m, n>> \in R
  BY DEF OpToRel
<1> QED
  BY <1>1, <1>2

(* What holds at 0 and from each number to the next holds up to N.           *)
LEMMA UpToN ==
    ASSUME NEW N \in Nat, NEW T, 0 \in T, \A n \in 1 .. N : n - 1 \in T => n \in T
    PROVE  0 .. N \subseteq T
<1> DEFINE Bad == {n \in 0 .. N : n \notin T}
<1>1. SUFFICES ASSUME Bad # {} PROVE FALSE
  OBVIOUS
<1>2. Bad \in SUBSET Nat
  OBVIOUS
<1>3. PICK n \in Bad : \A m \in Bad : ~(m < n)
  <2> HIDE DEF Bad
  <2> QED
    BY <1>1, <1>2, Smallest
<1>4. n \in 1 .. N /\ n - 1 \in 0 .. N /\ n - 1 < n
  BY <1>3
<1>5. n - 1 \in T
  BY <1>3, <1>4
<1> QED
  BY <1>3, <1>4, <1>5

(* A recursive function over 0 .. N exists: H makes its next value.          *)
Steps(f, b, H, N) == f[0] = b /\ \A n \in 1 .. N : f[n] = H[<<n, f[n - 1]>>]

(* A recursive function whose values stay in a set does exist.               *)
LEMMA StepsExist ==
    ASSUME NEW N \in Nat, NEW St, NEW b \in St, NEW H \in [(1 .. N) \X St -> St]
    PROVE  \E f \in [0 .. N -> St] : Steps(f, b, H, N)
<1> DEFINE T == {n \in 0 .. N : \E f \in [0 .. n -> St] : Steps(f, b, H, n)}
<1>1. 0 \in T
  <2> DEFINE f == [k \in 0 .. 0 |-> b]
  <2>1. f \in [0 .. 0 -> St] /\ Steps(f, b, H, 0)
    BY DEF Steps
  <2> QED
    BY <2>1
<1>2. ASSUME NEW n \in 1 .. N, n - 1 \in T PROVE n \in T
  <2>1. PICK f \in [0 .. n - 1 -> St] : Steps(f, b, H, n - 1)
    BY <1>2
  <2> DEFINE g == [k \in 0 .. n |-> IF k = n THEN H[<<n, f[n - 1]>>] ELSE f[k]]
  <2>2. n - 1 \in 0 .. n - 1 /\ 0 \in 0 .. n - 1 /\ n \in 0 .. N /\ 0 # n /\ 0 \in 0 .. n
    BY <1>2
  <2>3. H[<<n, f[n - 1]>>] \in St
    BY <2>1, <2>2
  <2>4. g \in [0 .. n -> St]
    <3>1. \A k \in 0 .. n : k # n => k \in 0 .. n - 1
      OBVIOUS
    <3> QED
      BY <2>1, <2>3, <3>1
  <2>5. g[0] = b
    BY <2>1, <2>2 DEF Steps
  <2>6. ASSUME NEW k \in 1 .. n PROVE g[k] = H[<<k, g[k - 1]>>]
    <3>1. k \in 0 .. n /\ k - 1 \in 0 .. n /\ k - 1 # n
      OBVIOUS
    <3>2. g[k - 1] = f[k - 1]
      BY <3>1
    <3>3. CASE k = n
      BY <3>1, <3>2, <3>3
    <3>4. CASE k # n
      <4>1. k \in 1 .. n - 1
        BY <3>4
      <4>2. f[k] = H[<<k, f[k - 1]>>]
        BY <2>1, <4>1 DEF Steps
      <4>3. g[k] = f[k]
        BY <3>1, <3>4
      <4> HIDE DEF g
      <4> QED
        BY <3>2, <4>2, <4>3
    <3> QED
      BY <3>3, <3>4
  <2> HIDE DEF g
  <2>7. Steps(g, b, H, n)
    BY <2>5, <2>6 DEF Steps
  <2> QED
    BY <2>2, <2>4, <2>7
<1>3. N \in T
  <2> HIDE DEF T
  <2>1. 0 .. N \subseteq T
    BY <1>1, <1>2, UpToN
  <2> QED
    BY <2>1
<1> QED
  BY <1>3

(* A sequence of any kind.                                                 *)
IsSeq(s) == s \in Seq(ToSet(s))

(* Every sequence is one of its own entries.                               *)
LEMMA SeqIsSeq ==
    ASSUME NEW S, NEW s \in Seq(S)
    PROVE  IsSeq(s)
<1>1. Len(s) \in Nat /\ DOMAIN s = 1 .. Len(s) /\ s \in [1 .. Len(s) -> S]
  BY LenProperties
<1>2. s \in [1 .. Len(s) -> ToSet(s)]
  BY <1>1 DEF ToSet
<1>3. \A k \in 1 .. Len(s) : s[k] \in ToSet(s)
  BY <1>1 DEF ToSet
<1>4. SubSeq(s, 1, Len(s)) \in Seq(ToSet(s))
  BY <1>1, <1>3, SubSeqProperties
<1>5. SubSeq(s, 1, Len(s)) = s
  BY SubSeqFull
<1> QED
  BY <1>4, <1>5 DEF IsSeq

(* The length and the domain of a sequence of any kind.                    *)
LEMMA LenIs ==
    ASSUME NEW s, IsSeq(s)
    PROVE  Len(s) \in Nat /\ DOMAIN s = 1 .. Len(s) /\ (s # <<>> => Len(s) \in Nat \ {0})
  BY LenProperties, EmptySeq DEF IsSeq

(* All but the last entry.                                                 *)
LEMMA FrontIs ==
    ASSUME NEW s, IsSeq(s), s # <<>>
    PROVE  /\ IsSeq(Front(s)) /\ Len(Front(s)) = Len(s) - 1
           /\ \A k \in 1 .. Len(s) - 1 : Front(s)[k] = s[k]
<1>1. Len(s) \in Nat \ {0} /\ DOMAIN s = 1 .. Len(s)
  BY LenIs
<1>2. \A k \in 1 .. Len(s) - 1 : s[k] \in ToSet(s)
  BY <1>1 DEF ToSet
<1>3. 1 \in Int /\ Len(s) - 1 \in Int
  BY <1>1
<1>4. /\ SubSeq(s, 1, Len(s) - 1) \in Seq(ToSet(s))
      /\ Len(SubSeq(s, 1, Len(s) - 1)) = IF 1 <= Len(s) - 1 THEN Len(s) - 1 - 1 + 1 ELSE 0
      /\ \A k \in 1 .. Len(s) - 1 - 1 + 1 : SubSeq(s, 1, Len(s) - 1)[k] = s[1 + k - 1]
  BY <1>2, <1>3, SubSeqProperties
<1>5. \A k \in 1 .. Len(s) - 1 : k \in 1 .. Len(s) - 1 - 1 + 1 /\ 1 + k - 1 = k
  BY <1>1
<1>6. Len(Front(s)) = Len(s) - 1
  BY <1>1, <1>4 DEF Front
<1> QED
  BY <1>4, <1>5, <1>6, SeqIsSeq DEF Front

(* One sequence behind the other.                                          *)
LEMMA ConcatIs ==
    ASSUME NEW s, IsSeq(s), NEW q, IsSeq(q)
    PROVE  /\ IsSeq(s \o q) /\ Len(s \o q) = Len(s) + Len(q)
           /\ \A k \in 1 .. Len(s) : (s \o q)[k] = s[k]
           /\ \A k \in 1 .. Len(q) : (s \o q)[Len(s) + k] = q[k]
<1>1. PICK S : S = ToSet(s) \cup ToSet(q)
  OBVIOUS
<1>2. s \in Seq(S) /\ q \in Seq(S) /\ Len(s) \in Nat /\ Len(q) \in Nat
  BY <1>1, SeqMonotonic, LenIs DEF IsSeq
<1>3. /\ s \o q \in Seq(S) /\ Len(s \o q) = Len(s) + Len(q)
      /\ \A i \in 1 .. Len(s) + Len(q) :
            (s \o q)[i] = IF i <= Len(s) THEN s[i] ELSE q[i - Len(s)]
  BY <1>2, ConcatProperties
<1>4. \A k \in 1 .. Len(s) : k \in 1 .. Len(s) + Len(q) /\ k <= Len(s)
  BY <1>2
<1>5. \A k \in 1 .. Len(q) : /\ Len(s) + k \in 1 .. Len(s) + Len(q) /\ ~(Len(s) + k <= Len(s))
                             /\ Len(s) + k - Len(s) = k
  BY <1>2
<1>6. \A k \in 1 .. Len(q) : (s \o q)[Len(s) + k] = q[k]
  BY <1>3, <1>5
<1> QED
  BY <1>3, <1>4, <1>6, SeqIsSeq

(* All but the first entry.                                                *)
LEMMA TailIs ==
    ASSUME NEW s, IsSeq(s), s # <<>>
    PROVE  /\ IsSeq(Tail(s)) /\ Len(Tail(s)) = Len(s) - 1 /\ Head(s) = s[1]
           /\ \A k \in 1 .. Len(s) - 1 : Tail(s)[k] = s[k + 1]
<1>1. Len(s) \in Nat \ {0} /\ s \in Seq(ToSet(s))
  BY LenIs DEF IsSeq
<1>2. /\ Tail(s) \in Seq(ToSet(s)) /\ Len(Tail(s)) = Len(s) - 1
      /\ \A i \in 1 .. Len(Tail(s)) : Tail(s)[i] = s[i + 1]
  BY <1>1, HeadTailProperties
<1>3. Head(s) = s[1]
  <2>1. 1 \in 1 .. Len(s) /\ Len(s) \in 1 .. Len(s)
    BY <1>1
  <2>2. Head(SubSeq(s, 1, Len(s))) = s[1]
    BY <1>1, <2>1, HeadTailOfSubSeq
  <2> QED
    BY <1>1, <2>2, SubSeqFull
<1> QED
  BY <1>2, <1>3, SeqIsSeq

(* A function on 1 .. n is a sequence of its values.                        *)
LEMMA FunIsSeq ==
    ASSUME NEW n \in Nat, NEW S, NEW f \in [1 .. n -> S]
    PROVE  f \in Seq(S) /\ Len(f) = n
  OBVIOUS

IsFlattening(f, seqs, n) ==
    f = [i \in 1 .. n |-> IF i = 1 THEN seqs[i] ELSE f[i - 1] \o seqs[i]]

(* FlattenSeq puts the sequences one behind the other.                     *)
LEMMA FlattenSteps ==
    ASSUME NEW S, NEW seqs, IsSeq(seqs), \A k \in 1 .. Len(seqs) : seqs[k] \in Seq(S)
    PROVE  \E h : /\ h[0] = <<>> /\ h[Len(seqs)] = FlattenSeq(seqs)
                  /\ \A n \in 1 .. Len(seqs) : h[n] = h[n - 1] \o seqs[n]
<1>1. PICK N : N = Len(seqs)
  OBVIOUS
<1>2. N \in Nat
  BY <1>1, LenIs
<1>3. CASE N = 0
  <2> DEFINE h == [n \in 0 .. 0 |-> <<>>]
  <2>1. seqs = <<>>
    BY <1>1, <1>3, LenIs
  <2>2. FlattenSeq(seqs) = seqs
    BY <1>1, <1>3 DEF FlattenSeq
  <2>3. h[0] = <<>> /\ h[N] = FlattenSeq(seqs) /\ \A n \in 1 .. N : h[n] = h[n - 1] \o seqs[n]
    BY <1>3, <2>1, <2>2
  <2> HIDE DEF h
  <2> QED
    BY <1>1, <2>3
<1>4. CASE N # 0
  <2> DEFINE H == [x \in (1 .. N) \X Seq(S) |-> x[2] \o seqs[x[1]]]
  <2>1. H \in [(1 .. N) \X Seq(S) -> Seq(S)]
    <3>1. \A n \in 1 .. N, q \in Seq(S) : q \o seqs[n] \in Seq(S)
      BY <1>1, ConcatProperties
    <3> QED
      BY <3>1
  <2>2. <<>> \in Seq(S)
    BY EmptySeq
  <2>3. PICK f \in [0 .. N -> Seq(S)] : Steps(f, <<>>, H, N)
    <3> HIDE DEF H
    <3> QED
      BY <1>2, <2>1, <2>2, StepsExist
  <2>4. ASSUME NEW n \in 1 .. N PROVE f[n] = f[n - 1] \o seqs[n] /\ n - 1 \in 0 .. N /\ n \in 0 .. N
    <3>1. n - 1 \in 0 .. N /\ n \in 0 .. N
      BY <1>2
    <3>2. f[n - 1] \in Seq(S)
      BY <2>3, <3>1
    <3> QED
      BY <2>3, <3>1, <3>2 DEF Steps
  <2> DEFINE r == [i \in 1 .. N |-> f[i]]
  <2>5. IsFlattening(r, seqs, N)
    <3>1. ASSUME NEW i \in 1 .. N PROVE r[i] = IF i = 1 THEN seqs[i] ELSE r[i - 1] \o seqs[i]
      <4>1. CASE i = 1
        <5>1. f[1] = f[0] \o seqs[1] /\ f[0] = <<>>
          <6>1. 1 \in 1 .. N /\ 1 - 1 = 0
            BY <1>2, <1>4
          <6> QED
            BY <2>3, <2>4, <6>1 DEF Steps
        <5>2. seqs[1] \in Seq(S)
          BY <1>1, <4>1
        <5>3. f[1] = seqs[1]
          BY <5>1, <5>2, ConcatEmptySeq
        <5> QED
          BY <4>1, <5>3
      <4>2. CASE i # 1
        <5>1. i - 1 \in 1 .. N
          BY <1>2, <4>2
        <5>2. r[i - 1] = f[i - 1] /\ r[i] = f[i]
          BY <5>1
        <5> HIDE DEF r
        <5> QED
          BY <2>4, <4>2, <5>2
      <4> QED
        BY <4>1, <4>2
    <3>2. r = [i \in 1 .. N |-> r[i]]
      OBVIOUS
    <3> HIDE DEF r
    <3> QED
      BY <3>1, <3>2 DEF IsFlattening
  <2> HIDE DEF r
  <2>6. PICK g : IsFlattening(g, seqs, N) /\ FlattenSeq(seqs) = g[N]
    <3> DEFINE c == CHOOSE h : IsFlattening(h, seqs, N)
    <3>1. IsFlattening(c, seqs, N)
      BY <2>5
    <3>2. FlattenSeq(seqs) = c[N]
      <4>1. Len(seqs) = N /\ N # 0
        BY <1>1, <1>4
      <4>2. FlattenSeq(seqs) =
              (CHOOSE h : h = [i \in 1 .. Len(seqs) |->
                                 IF i = 1 THEN seqs[i] ELSE h[i - 1] \o seqs[i]])[Len(seqs)]
        BY <4>1 DEF FlattenSeq
      <4> QED
        BY <4>1, <4>2 DEF IsFlattening
    <3> QED
      BY <3>1, <3>2
  <2>7. \A i \in 1 .. N : g[i] = IF i = 1 THEN seqs[i] ELSE g[i - 1] \o seqs[i]
    BY <2>6 DEF IsFlattening
  <2> DEFINE h == [n \in 0 .. N |-> IF n = 0 THEN <<>> ELSE g[n]]
  <2>8. ASSUME NEW n \in 1 .. N PROVE h[n] = h[n - 1] \o seqs[n]
    <3>1. n \in 0 .. N /\ n - 1 \in 0 .. N /\ n # 0 /\ (n # 1 => n - 1 # 0)
      BY <1>2
    <3>2. h[n] = g[n] /\ (n # 1 => h[n - 1] = g[n - 1])
      BY <3>1
    <3>3. CASE n = 1
      <4>1. h[n - 1] = <<>>
        BY <1>2, <3>3
      <4>2. g[n] = seqs[n]
        BY <2>7, <3>3
      <4>3. <<>> \o seqs[n] = seqs[n]
        BY <1>1, ConcatEmptySeq
      <4> HIDE DEF h
      <4> QED
        BY <3>2, <4>1, <4>2, <4>3
    <3>4. CASE n # 1
      <4>1. g[n] = g[n - 1] \o seqs[n]
        BY <2>7, <3>4
      <4> HIDE DEF h
      <4> QED
        BY <3>2, <3>4, <4>1
    <3> QED
      BY <3>3, <3>4
  <2>9. h[0] = <<>> /\ h[N] = FlattenSeq(seqs)
    BY <1>2, <1>4, <2>6
  <2> HIDE DEF h
  <2> QED
    BY <1>1, <2>8, <2>9
<1> QED
  BY <1>3, <1>4

(* Sorting by rank.  R is a strict total order on S, as a set of pairs.    *)
StrictOrder(R, S) ==
    /\ \A x \in S : <<x, x>> \notin R
    /\ \A x, y, z \in S : <<x, y>> \in R /\ <<y, z>> \in R => <<x, z>> \in R
    /\ \A x, y \in S : x = y \/ <<x, y>> \in R \/ <<y, x>> \in R
Below(R, S, x) == {y \in S : <<y, x>> \in R}

\* Every element has a rank of its own, and every rank an element.
LEMMA Ranks ==
    ASSUME NEW S, IsFiniteSet(S), NEW R, StrictOrder(R, S)
    PROVE  /\ \A x \in S : Cardinality(Below(R, S, x)) \in 0 .. Cardinality(S) - 1
           /\ \A x, y \in S : Cardinality(Below(R, S, x)) = Cardinality(Below(R, S, y)) => x = y
           /\ \A k \in 1 .. Cardinality(S) : \E x \in S : Cardinality(Below(R, S, x)) = k - 1
<1> DEFINE N == Cardinality(S)
           rank == [x \in S |-> Cardinality(Below(R, S, x))]
<1>1. N \in Nat
  BY FS_CardinalityType
<1>2. ASSUME NEW T \in SUBSET S, NEW U \in SUBSET S, T \subseteq U, T # U
      PROVE  Cardinality(T) \in Nat /\ Cardinality(U) \in Nat /\ Cardinality(T) < Cardinality(U)
  <2>1. IsFiniteSet(T) /\ IsFiniteSet(U)
    BY FS_Subset
  <2>2. Cardinality(T) \in Nat /\ Cardinality(U) \in Nat
    BY <2>1, FS_CardinalityType
  <2>3. Cardinality(T) <= Cardinality(U) /\ (Cardinality(U) = Cardinality(T) => U = T)
    BY <1>2, <2>1, FS_Subset
  <2> QED
    BY <1>2, <2>2, <2>3
<1>3. ASSUME NEW x \in S PROVE rank[x] \in 0 .. N - 1
  <2>1. Below(R, S, x) \in SUBSET S /\ S \in SUBSET S /\ Below(R, S, x) # S
    BY DEF Below, StrictOrder
  <2> QED
    BY <1>1, <1>2, <2>1
<1>4. ASSUME NEW x \in S, NEW y \in S, rank[x] = rank[y] PROVE x = y
  <2>1. ASSUME NEW u \in S, NEW v \in S, <<u, v>> \in R PROVE rank[u] < rank[v]
    <3>1. Below(R, S, u) \in SUBSET S /\ Below(R, S, v) \in SUBSET S
      BY DEF Below
    <3>2. Below(R, S, u) \subseteq Below(R, S, v)
      BY <2>1 DEF Below, StrictOrder
    <3>3. u \in Below(R, S, v) /\ u \notin Below(R, S, u)
      BY <2>1 DEF Below, StrictOrder
    <3> QED
      BY <1>2, <3>1, <3>2, <3>3
  <2>2. rank[x] \in Int /\ rank[y] \in Int
    BY <1>3
  <2> HIDE DEF rank
  <2>3. <<x, y>> \notin R /\ <<y, x>> \notin R
    <3>1. ~(rank[x] < rank[y]) /\ ~(rank[y] < rank[x])
      BY <1>4, <2>2
    <3> QED
      BY <2>1, <3>1
  <2> QED
    BY <2>3 DEF StrictOrder
<1>5. rank \in Surjection(S, 0 .. N - 1)
  <2>1. rank \in [S -> 0 .. N - 1]
    BY <1>3
  <2>2. rank \in Injection(S, 0 .. N - 1)
    <3> HIDE DEF rank
    <3> QED
      BY <1>4, <2>1 DEF Injection, IsInjective
  <2>3. IsFiniteSet(0 .. N - 1) /\ Cardinality(0 .. N - 1) = N
    <3>1. PICK m : m = N - 1 /\ m \in Int
      BY <1>1
    <3>2. 0 \in Int /\ N = IF 0 > m THEN 0 ELSE m - 0 + 1
      BY <1>1, <3>1
    <3>3. IsFiniteSet(0 .. m) /\ Cardinality(0 .. m) = IF 0 > m THEN 0 ELSE m - 0 + 1
      BY ONLY <3>1, <3>2, FS_Interval
    <3> QED
      BY <3>1, <3>2, <3>3
  <2> HIDE DEF rank
  <2> QED
    BY <2>2, <2>3, FS_Injection
<1>6. ASSUME NEW k \in 1 .. N PROVE \E x \in S : rank[x] = k - 1
  <2>1. k - 1 \in 0 .. N - 1
    BY <1>1
  <2> HIDE DEF rank
  <2> QED
    BY <1>5, <2>1 DEF Surjection
<1> QED
  BY <1>3, <1>4, <1>6

(* The empty sequence.                                                     *)
LEMMA EmptyIs == IsSeq(<<>>) /\ Len(<<>>) = 0
  BY EmptySeq DEF IsSeq

(* One more entry.                                                         *)
LEMMA AppendIs ==
    ASSUME NEW s, IsSeq(s), NEW e
    PROVE  /\ IsSeq(Append(s, e)) /\ Len(Append(s, e)) = Len(s) + 1
           /\ Append(s, e)[Len(s) + 1] = e
           /\ \A k \in 1 .. Len(s) : Append(s, e)[k] = s[k]
<1>1. PICK S : S = ToSet(s) \cup {e}
  OBVIOUS
<1>2. s \in Seq(S) /\ e \in S
  BY <1>1, SeqMonotonic DEF IsSeq
<1>3. /\ Append(s, e) \in Seq(S) /\ Len(Append(s, e)) = Len(s) + 1
      /\ Append(s, e)[Len(s) + 1] = e
      /\ \A k \in 1 .. Len(s) : Append(s, e)[k] = s[k]
  BY <1>2, AppendProperties
<1> QED
  BY <1>3, SeqIsSeq

-----------------------------------------------------------------------------
(* How many of the first m entries of a sequence are in a set.             *)
Upto(s, m, E) == Cardinality({k \in 1 .. m : s[k] \in E})
One(b) == IF b THEN 1 ELSE 0

(* The count is a number, and 0 before the first entry.                    *)
LEMMA UptoNat ==
    ASSUME NEW s, NEW m \in Nat, NEW E
    PROVE  /\ Upto(s, m, E) \in Nat /\ IsFiniteSet({k \in 1 .. m : s[k] \in E})
           /\ Upto(s, 0, E) = 0
<1>1. IsFiniteSet(1 .. m)
  BY FS_Interval
<1>2. {k \in 1 .. m : s[k] \in E} \subseteq 1 .. m
  OBVIOUS
<1>3. IsFiniteSet({k \in 1 .. m : s[k] \in E})
  BY <1>1, <1>2, FS_Subset
<1>4. {k \in 1 .. 0 : s[k] \in E} = {}
  OBVIOUS
<1> QED
  BY <1>3, <1>4, FS_CardinalityType, FS_EmptySet DEF Upto

(* One more entry adds one when it is in the set.                          *)
LEMMA UptoStep ==
    ASSUME NEW s, NEW m \in Nat, NEW E
    PROVE  Upto(s, m + 1, E) = Upto(s, m, E) + One(s[m + 1] \in E)
<1> DEFINE S == {k \in 1 .. m : s[k] \in E}
           T == {k \in 1 .. m + 1 : s[k] \in E}
<1>1. IsFiniteSet(S) /\ Cardinality(S) \in Nat
  BY UptoNat DEF Upto
<1>2. CASE s[m + 1] \in E
  <2>1. T = S \cup {m + 1} /\ m + 1 \notin S
    BY <1>2
  <2>2. Cardinality(T) = Cardinality(S) + 1
    BY <1>1, <2>1, FS_AddElement
  <2> QED
    BY <1>2, <2>2 DEF Upto, One
<1>3. CASE s[m + 1] \notin E
  <2>1. T = S
    BY <1>3
  <2>2. Upto(s, m + 1, E) = Upto(s, m, E) /\ Upto(s, m, E) \in Nat
    BY <1>1, <2>1 DEF Upto
  <2>3. One(s[m + 1] \in E) = 0
    BY <1>3 DEF One
  <2> QED
    BY <2>2, <2>3
<1> QED
  BY <1>2, <1>3

(* The count of a longer prefix is not smaller.                            *)
LEMMA UptoGrows ==
    ASSUME NEW s, NEW m \in Nat, NEW n \in Nat, m <= n, NEW E
    PROVE  Upto(s, m, E) <= Upto(s, n, E)
<1>1. {k \in 1 .. m : s[k] \in E} \subseteq {k \in 1 .. n : s[k] \in E}
  OBVIOUS
<1>2. IsFiniteSet({k \in 1 .. n : s[k] \in E})
  BY UptoNat
<1> QED
  BY <1>1, <1>2, FS_Subset DEF Upto

(* A sequence that agrees with another one from entry a on.                *)
Agree(s, a, t, n, E) == \A k \in 1 .. n : s[a + k] \in E <=> t[k] \in E

(* Counting goes on where the other sequence starts.                       *)
LEMMA UptoShift ==
    ASSUME NEW s, NEW t, NEW a \in Nat, NEW n \in Nat, NEW E, Agree(s, a, t, n, E)
    PROVE  \A m \in 0 .. n : Upto(s, a + m, E) = Upto(s, a, E) + Upto(t, m, E)
<1> DEFINE T == {m \in 0 .. n : Upto(s, a + m, E) = Upto(s, a, E) + Upto(t, m, E)}
<1>1. 0 \in T
  <2>1. 0 \in Nat /\ 0 \in 0 .. n /\ a + 0 = a
    OBVIOUS
  <2>2. Upto(s, a, E) \in Nat /\ Upto(t, 0, E) = 0
    BY <2>1, UptoNat
  <2> QED
    BY <2>1, <2>2
<1>2. ASSUME NEW m \in 1 .. n, m - 1 \in T PROVE m \in T
  <2>1. PICK j \in Nat : j = m - 1
    OBVIOUS
  <2>2. m = j + 1 /\ a + m = (a + j) + 1 /\ a + j \in Nat
    BY <2>1
  <2>3. Upto(s, a + m, E) = Upto(s, a + j, E) + One(s[a + m] \in E)
    BY <2>2, UptoStep
  <2>4. Upto(t, m, E) = Upto(t, j, E) + One(t[m] \in E)
    BY <2>2, UptoStep
  <2>5. One(s[a + m] \in E) = One(t[m] \in E) /\ One(t[m] \in E) \in Nat
    BY DEF One, Agree
  <2>6. Upto(s, a + j, E) = Upto(s, a, E) + Upto(t, j, E)
    BY <1>2, <2>1
  <2>7. Upto(s, a, E) \in Nat /\ Upto(t, j, E) \in Nat
    BY UptoNat
  <2> QED
    BY <2>3, <2>4, <2>5, <2>6, <2>7
<1> HIDE DEF T
<1>3. 0 .. n \subseteq T
  BY <1>1, <1>2, UpToN
<1> QED
  BY <1>3 DEF T

(* Only membership in the set counts.                                      *)
LEMMA UptoSame ==
    ASSUME NEW s, NEW t, NEW n \in Nat, NEW E, \A k \in 1 .. n : s[k] \in E <=> t[k] \in E
    PROVE  Upto(s, n, E) = Upto(t, n, E)
<1>1. {k \in 1 .. n : s[k] \in E} = {k \in 1 .. n : t[k] \in E}
  OBVIOUS
<1> QED
  BY <1>1 DEF Upto

(* Counting over two sequences, one behind the other.                      *)
LEMMA UptoConcat ==
    ASSUME NEW s, IsSeq(s), NEW t, IsSeq(t), NEW E
    PROVE  /\ \A m \in 0 .. Len(s) : Upto(s \o t, m, E) = Upto(s, m, E)
           /\ \A m \in 0 .. Len(t) : Upto(s \o t, Len(s) + m, E) = Upto(s, Len(s), E) + Upto(t, m, E)
<1>1. PICK q, a, n : q = s \o t /\ a = Len(s) /\ n = Len(t)
  OBVIOUS
<1>2. /\ \A k \in 1 .. a : q[k] = s[k]
      /\ \A k \in 1 .. n : q[a + k] = t[k]
      /\ a \in Nat /\ n \in Nat
  BY <1>1, ConcatIs, LenIs
<1>3. ASSUME NEW m \in 0 .. a PROVE Upto(q, m, E) = Upto(s, m, E)
  <2>1. m \in Nat /\ \A k \in 1 .. m : q[k] \in E <=> s[k] \in E
    BY <1>2
  <2> QED
    BY <2>1, UptoSame
<1>4. Upto(q, a, E) = Upto(s, a, E)
  BY <1>2, <1>3
<1>5. \A m \in 0 .. n : Upto(q, a + m, E) = Upto(q, a, E) + Upto(t, m, E)
  <2>1. Agree(q, a, t, n, E)
    BY <1>2 DEF Agree
  <2> QED
    BY <1>2, <2>1, UptoShift
<1> QED
  BY <1>1, <1>3, <1>4, <1>5

(* Counting without the first entry.                                       *)
LEMMA UptoTail ==
    ASSUME NEW s, IsSeq(s), s # <<>>, NEW E
    PROVE  \A m \in 0 .. Len(s) - 1 : Upto(s, m + 1, E) = One(s[1] \in E) + Upto(Tail(s), m, E)
<1>1. PICK t, n : t = Tail(s) /\ n = Len(s) - 1
  OBVIOUS
<1>2. n \in Nat /\ \A k \in 1 .. n : t[k] = s[k + 1]
  BY <1>1, TailIs, LenIs
<1>6. n \in Nat
  BY <1>2
<1>3. \A k \in 1 .. n : s[1 + k] \in E <=> t[k] \in E
  <2>1. \A k \in 1 .. n : 1 + k = k + 1
    BY <1>6
  <2> QED
    BY <1>2, <2>1
<1>4. \A m \in 0 .. n : Upto(s, 1 + m, E) = Upto(s, 1, E) + Upto(t, m, E)
  <2>1. 1 \in Nat
    OBVIOUS
  <2>2. Agree(s, 1, t, n, E)
    BY <1>3 DEF Agree
  <2> QED
    BY ONLY <1>6, <2>1, <2>2, UptoShift
<1>5. Upto(s, 1, E) = One(s[1] \in E)
  <2>1. 0 \in Nat /\ 0 + 1 = 1
    OBVIOUS
  <2>2. Upto(s, 0 + 1, E) = Upto(s, 0, E) + One(s[0 + 1] \in E)
    BY <2>1, UptoStep
  <2>3. Upto(s, 0, E) = 0
    BY <2>1, UptoNat
  <2>4. One(s[1] \in E) \in Nat
    BY DEF One
  <2> QED
    BY <2>1, <2>2, <2>3, <2>4
<1>7. \A m \in 0 .. n : m + 1 = 1 + m
  BY <1>2
<1> QED
  BY <1>1, <1>4, <1>5, <1>7

(* Counting with one more entry behind.                                    *)
LEMMA UptoAppend ==
    ASSUME NEW s, IsSeq(s), NEW e, NEW E
    PROVE  /\ \A m \in 0 .. Len(s) : Upto(Append(s, e), m, E) = Upto(s, m, E)
           /\ Upto(Append(s, e), Len(s) + 1, E) = Upto(s, Len(s), E) + One(e \in E)
<1>1. PICK q, n : q = Append(s, e) /\ n = Len(s)
  OBVIOUS
<1>2. n \in Nat /\ q[n + 1] = e /\ \A k \in 1 .. n : q[k] = s[k]
  BY <1>1, AppendIs, LenIs
<1>3. ASSUME NEW m \in 0 .. n PROVE Upto(q, m, E) = Upto(s, m, E)
  <2>1. m \in Nat /\ \A k \in 1 .. m : q[k] \in E <=> s[k] \in E
    BY <1>2
  <2> QED
    BY <2>1, UptoSame
<1>4. Upto(q, n + 1, E) = Upto(q, n, E) + One(e \in E)
  BY <1>2, UptoStep
<1> QED
  BY <1>1, <1>2, <1>3, <1>4

-----------------------------------------------------------------------------
(* What is left of a code: entry k of d is entry f[k] of c.  N entries of  *)
(* c are looked at.                                                        *)
IsGone(o, gone) == o.kind = "wait" /\ o.ops \subseteq gone
Embeds(f, d, c, N, gone) ==
    /\ IsSeq(d)
    /\ f \in [1 .. Len(d) -> 1 .. N]
    /\ \A k, l \in 1 .. Len(d) : k < l => f[k] < f[l]
    /\ \A k \in 1 .. Len(d) : d[k] = c[f[k]] /\ ~IsGone(c[f[k]], gone)
    /\ \A m \in 1 .. N : ~IsGone(c[m], gone) => \E k \in 1 .. Len(d) : f[k] = m

(* One more operation of the code, erased or kept.                         *)
LEMMA EmbedsStep ==
    ASSUME NEW c, NEW gone, NEW j \in Nat, NEW d, NEW f, Embeds(f, d, c, j, gone)
    PROVE  /\ IsGone(c[j + 1], gone) => Embeds(f, d, c, j + 1, gone)
           /\ ~IsGone(c[j + 1], gone) =>
                \E g : Embeds(g, d \o <<c[j + 1]>>, c, j + 1, gone)
<1>1. /\ IsSeq(d) /\ f \in [1 .. Len(d) -> 1 .. j]
      /\ \A k, l \in 1 .. Len(d) : k < l => f[k] < f[l]
      /\ \A k \in 1 .. Len(d) : d[k] = c[f[k]] /\ ~IsGone(c[f[k]], gone)
      /\ \A m \in 1 .. j : ~IsGone(c[m], gone) => \E k \in 1 .. Len(d) : f[k] = m
  BY DEF Embeds
<1>2. PICK n : n = Len(d) /\ n \in Nat
  BY <1>1, LenIs
<1>3. CASE IsGone(c[j + 1], gone)
  <2>1. \A m \in 1 .. j + 1 : m = j + 1 \/ m \in 1 .. j
    OBVIOUS
  <2>2. f \in [1 .. n -> 1 .. j + 1]
    <3>1. \A k \in 1 .. n : f[k] \in 1 .. j + 1
      BY <1>1, <1>2
    <3> QED
      BY <1>1, <1>2, <3>1
  <2>3. \A m \in 1 .. j + 1 : ~IsGone(c[m], gone) => \E k \in 1 .. n : f[k] = m
    BY <1>1, <1>2, <1>3, <2>1
  <2> QED
    BY <1>1, <1>2, <1>3, <2>2, <2>3 DEF Embeds
<1>4. CASE ~IsGone(c[j + 1], gone)
  <2>1. PICK e : e = d \o <<c[j + 1]>>
    OBVIOUS
  <2>2. PICK g : g = [k \in 1 .. n + 1 |-> IF k = n + 1 THEN j + 1 ELSE f[k]]
    OBVIOUS
  <2>3. IsSeq(<<c[j + 1]>>) /\ Len(<<c[j + 1]>>) = 1 /\ <<c[j + 1]>>[1] = c[j + 1]
    <3>1. <<c[j + 1]>> \in Seq({c[j + 1]}) /\ Len(<<c[j + 1]>>) = 1
      OBVIOUS
    <3> QED
      BY <3>1, SeqIsSeq
  <2>4. /\ IsSeq(e) /\ Len(e) = n + 1
        /\ \A k \in 1 .. n : e[k] = d[k]
        /\ e[n + 1] = c[j + 1]
    <3>1. PICK t : t = <<c[j + 1]>>
      OBVIOUS
    <3>2. 1 \in 1 .. 1
      OBVIOUS
    <3>3. IsSeq(t) /\ Len(t) = 1 /\ t[1] = c[j + 1] /\ e = d \o t
      BY <2>1, <2>3, <3>1
    <3>4. /\ IsSeq(e) /\ Len(e) = n + 1
          /\ \A k \in 1 .. n : e[k] = d[k]
          /\ \A k \in 1 .. 1 : e[n + k] = t[k]
      <4>1. IsSeq(d) /\ IsSeq(t)
        BY <1>1, <3>3
      <4>2. /\ IsSeq(d \o t) /\ Len(d \o t) = Len(d) + Len(t)
            /\ \A k \in 1 .. Len(d) : (d \o t)[k] = d[k]
            /\ \A k \in 1 .. Len(t) : (d \o t)[Len(d) + k] = t[k]
        BY ONLY <4>1, ConcatIs
      <4> QED
        BY <1>2, <3>3, <4>2
    <3> QED
      BY <3>2, <3>3, <3>4
  <2>5. /\ \A k \in 1 .. n : g[k] = f[k] /\ f[k] \in 1 .. j
        /\ g[n + 1] = j + 1
        /\ \A k \in 1 .. n + 1 : k = n + 1 \/ k \in 1 .. n
        /\ n + 1 \in 1 .. n + 1 /\ \A k \in 1 .. n : k \in 1 .. n + 1
    <3>1. n + 1 \in 1 .. n + 1
      BY <1>2
    <3>2. \A k \in 1 .. n : k \in 1 .. n + 1 /\ k # n + 1
      BY <1>2
    <3>3. \A k \in 1 .. n + 1 : k = n + 1 \/ k \in 1 .. n
      BY <1>2
    <3> QED
      BY <1>1, <1>2, <2>2, <3>1, <3>2, <3>3
  <2>6. g \in [1 .. n + 1 -> 1 .. j + 1]
    <3>1. \A k \in 1 .. n + 1 : g[k] \in 1 .. j + 1
      <4>1. \A m \in 1 .. j : m \in 1 .. j + 1
        OBVIOUS
      <4>2. j + 1 \in 1 .. j + 1
        OBVIOUS
      <4> QED
        BY <2>5, <4>1, <4>2
    <3> QED
      BY <2>2, <3>1
  <2>7. \A k, l \in 1 .. n + 1 : k < l => g[k] < g[l]
    <3> SUFFICES ASSUME NEW k \in 1 .. n + 1, NEW l \in 1 .. n + 1, k < l PROVE g[k] < g[l]
      OBVIOUS
    <3>1. k \in 1 .. n
      BY <1>2
    <3>2. CASE l = n + 1
      <4>1. g[k] \in 1 .. j /\ g[l] = j + 1
        BY <2>5, <3>1, <3>2
      <4> QED
        BY <4>1
    <3>3. CASE l \in 1 .. n
      BY <1>1, <1>2, <2>5, <3>1, <3>3
    <3> QED
      BY <2>5, <3>2, <3>3
  <2>8. \A k \in 1 .. n + 1 : e[k] = c[g[k]] /\ ~IsGone(c[g[k]], gone)
    BY <1>1, <1>2, <1>4, <2>4, <2>5
  <2>9. ASSUME NEW m \in 1 .. j + 1, ~IsGone(c[m], gone) PROVE \E k \in 1 .. n + 1 : g[k] = m
    <3>1. CASE m = j + 1
      BY <2>5, <3>1
    <3>2. CASE m # j + 1
      <4>1. m \in 1 .. j
        BY <3>2
      <4>2. PICK k \in 1 .. n : f[k] = m
        BY <1>1, <1>2, <2>9, <4>1
      <4> QED
        BY <2>5, <4>2
    <3> QED
      BY <3>1, <3>2
  <2>10. Embeds(g, e, c, j + 1, gone)
    BY <2>4, <2>6, <2>7, <2>8, <2>9 DEF Embeds
  <2> QED
    BY <1>4, <2>1, <2>10
<1> QED
  BY <1>3, <1>4

(* EraseWaits keeps the operations that are not gone, in their order.      *)
LEMMA EraseEmbeds ==
    ASSUME NEW c, IsSeq(c), NEW gone
    PROVE  \E f : Embeds(f, EraseWaits(c, gone), c, Len(c), gone)
<1>1. PICK N : N = Len(c) /\ N \in Nat /\ DOMAIN c = 1 .. N
  BY LenIs
<1>2. PICK seqs : seqs = [k \in 1 .. N |-> IF IsGone(c[k], gone) THEN <<>> ELSE <<c[k]>>]
  OBVIOUS
<1>3. EraseWaits(c, gone) = FlattenSeq(seqs)
  BY <1>1, <1>2 DEF EraseWaits, IsGone
<1>4. PICK S : S = ToSet(c)
  OBVIOUS
<1>5. \A k \in 1 .. N : seqs[k] = (IF IsGone(c[k], gone) THEN <<>> ELSE <<c[k]>>)
                        /\ seqs[k] \in Seq(S)
  <2> SUFFICES ASSUME NEW k \in 1 .. N
               PROVE seqs[k] = (IF IsGone(c[k], gone) THEN <<>> ELSE <<c[k]>>)
                     /\ seqs[k] \in Seq(S)
    OBVIOUS
  <2>1. c[k] \in S
    BY <1>1, <1>4 DEF ToSet
  <2>2. <<c[k]>> \in Seq(S) /\ <<>> \in Seq(S)
    BY <2>1
  <2> QED
    BY <1>2, <2>2
<1>6. IsSeq(seqs) /\ Len(seqs) = N
  <2>1. seqs \in [1 .. N -> Seq(S)]
    BY <1>2, <1>5
  <2> QED
    BY <1>1, <2>1, FunIsSeq, SeqIsSeq
<1>7. PICK h : /\ h[0] = <<>> /\ h[N] = FlattenSeq(seqs)
               /\ \A n \in 1 .. N : h[n] = h[n - 1] \o seqs[n]
  BY <1>5, <1>6, FlattenSteps
<1> DEFINE T == {n \in 0 .. N : \E f : Embeds(f, h[n], c, n, gone)}
<1>8. 0 \in T
  <2>1. PICK f : f = [k \in 1 .. 0 |-> 1]
    OBVIOUS
  <2>2. Embeds(f, <<>>, c, 0, gone)
    <3>1. f \in [1 .. 0 -> 1 .. 0]
      BY <2>1
    <3>2. 1 .. 0 = {}
      OBVIOUS
    <3> QED
      BY <3>1, <3>2, EmptyIs DEF Embeds
  <2>3. 0 \in 0 .. N
    BY <1>1
  <2> QED
    BY <1>7, <2>2, <2>3
<1>9. ASSUME NEW n \in 1 .. N, n - 1 \in T PROVE n \in T
  <2>1. PICK j \in Nat : j = n - 1
    OBVIOUS
  <2>2. n = j + 1 /\ n \in 0 .. N
    BY <1>1, <2>1
  <2>3. PICK f : Embeds(f, h[j], c, j, gone)
    BY <1>9, <2>1
  <2>4. h[n] = h[j] \o seqs[n]
    BY <1>7, <2>1
  <2>5. CASE IsGone(c[n], gone)
    <3>1. h[n] = h[j]
      <4>1. seqs[n] = <<>>
        BY <1>5, <2>5
      <4>2. h[j] \in Seq(ToSet(h[j]))
        BY <2>3 DEF Embeds, IsSeq
      <4>3. h[j] \o <<>> = h[j]
        BY <4>2, ConcatEmptySeq
      <4> QED
        BY <2>4, <4>1, <4>3
    <3>2. Embeds(f, h[j], c, n, gone)
      BY <2>2, <2>3, <2>5, EmbedsStep
    <3> QED
      BY <2>2, <3>1, <3>2
  <2>6. CASE ~IsGone(c[n], gone)
    <3>1. seqs[n] = <<c[n]>>
      BY <1>5, <2>6
    <3>2. \E g : Embeds(g, h[j] \o <<c[n]>>, c, n, gone)
      BY <2>2, <2>3, <2>6, EmbedsStep
    <3> QED
      BY <2>2, <2>4, <3>1, <3>2
  <2> QED
    BY <2>5, <2>6
<1>10. N \in T
  <2> HIDE DEF T
  <2>1. 0 .. N \subseteq T
    BY <1>1, <1>8, <1>9, UpToN
  <2> QED
    BY <1>1, <2>1
<1> QED
  BY <1>1, <1>3, <1>7, <1>10

-----------------------------------------------------------------------------
(* Codes of n DMAs: every DMA occurs once, in program order, and at most   *)
(* one wait names it, behind it.                                           *)
IsOp(o, n) == \/ \E i \in 1 .. n : o = Dma(i)
              \/ \E is \in SUBSET (1 .. n) : is # {} /\ o = Wait(is)
              \/ o = Barrier
IsCode(c, n) == IsSeq(c) /\ \A k \in 1 .. Len(c) : IsOp(c[k], n)

AtDma(c, k, i) == c[k] = Dma(i)
AtWait(c, k, i) == c[k].kind = "wait" /\ i \in c[k].ops

DmasInOrder(c, n) ==
    /\ \A i \in 1 .. n : \E k \in 1 .. Len(c) : AtDma(c, k, i)
    /\ \A i, j \in 1 .. n, k, l \in 1 .. Len(c) :
         AtDma(c, k, i) /\ AtDma(c, l, j) => (i < j <=> k < l)
WaitsOnce(c, n) ==
    \A i \in 1 .. n, k, l \in 1 .. Len(c) : AtWait(c, k, i) /\ AtWait(c, l, i) => k = l
WaitsBehind(c, n) ==
    \A i \in 1 .. n, k, l \in 1 .. Len(c) : AtDma(c, k, i) /\ AtWait(c, l, i) => k < l
CodeOK(c, n) == IsCode(c, n) /\ DmasInOrder(c, n) /\ WaitsOnce(c, n) /\ WaitsBehind(c, n)

(* The DMAs a wait of the code names.                                      *)
Awaited(c, n) == {i \in 1 .. n : \E k \in 1 .. Len(c) : AtWait(c, k, i)}

(* The waits among the first m operations name one DMA each.               *)
Singles(c, m) == \A k \in 1 .. m : c[k].kind = "wait" => \E i : c[k] = Wait({i})

(* An operation tells its kind and its DMAs.                               *)
LEMMA OpFacts ==
    /\ \A i : Dma(i).kind = "dma" /\ Dma(i).ops = {i}
    /\ \A is : Wait(is).kind = "wait" /\ Wait(is).ops = is
    /\ Barrier.kind = "barrier"
    /\ "dma" # "wait" /\ "dma" # "barrier" /\ "wait" # "barrier"
  BY DEF Dma, Wait, Barrier

(* What an operation of each kind is.                                      *)
LEMMA KindFacts ==
    ASSUME NEW n, NEW o, IsOp(o, n)
    PROVE  /\ o.kind = "dma" => \E i \in 1 .. n : o = Dma(i)
           /\ o.kind = "wait" => o.ops # {} /\ o.ops \in SUBSET (1 .. n) /\ o = Wait(o.ops)
           /\ o.kind = "barrier" => o = Barrier
<1>1. CASE \E i \in 1 .. n : o = Dma(i)
  BY <1>1, OpFacts
<1>2. CASE \E is \in SUBSET (1 .. n) : is # {} /\ o = Wait(is)
  BY <1>2, OpFacts
<1>3. CASE o = Barrier
  BY <1>3, OpFacts
<1> QED
  BY <1>1, <1>2, <1>3 DEF IsOp

(* A DMA has one place in the code.                                        *)
LEMMA DmaOnce ==
    ASSUME NEW c, NEW n \in Nat, CodeOK(c, n), NEW i \in 1 .. n, NEW k \in 1 .. Len(c),
           NEW l \in 1 .. Len(c), AtDma(c, k, i), AtDma(c, l, i)
    PROVE  k = l
<1>1. (i < i <=> k < l) /\ (i < i <=> l < k)
  BY DEF CodeOK, DmasInOrder
<1>2. k \in Int /\ l \in Int /\ i \in Int
  OBVIOUS
<1> QED
  BY <1>1, <1>2

(* Erasing keeps the DMAs, and the waits that are not gone.                *)
LEMMA EraseKeepsCode ==
    ASSUME NEW c, NEW n \in Nat, CodeOK(c, n), NEW gone, NEW d, NEW f,
           Embeds(f, d, c, Len(c), gone)
    PROVE  CodeOK(d, n)
<1>0. PICK N : N = Len(c) /\ N \in Nat
  BY LenIs DEF CodeOK, IsCode
<1>1. /\ IsSeq(d) /\ f \in [1 .. Len(d) -> 1 .. N]
      /\ \A k, l \in 1 .. Len(d) : k < l => f[k] < f[l]
      /\ \A k \in 1 .. Len(d) : d[k] = c[f[k]] /\ ~IsGone(c[f[k]], gone)
      /\ \A m \in 1 .. N : ~IsGone(c[m], gone) => \E k \in 1 .. Len(d) : f[k] = m
  BY <1>0 DEF Embeds
<1>2. Len(d) \in Nat
  BY <1>1, LenIs
<1>3. \A k \in 1 .. Len(d) : f[k] \in 1 .. N
  BY <1>1
<1>4. \A k, l \in 1 .. Len(d) : (k < l <=> f[k] < f[l]) /\ (f[k] = f[l] => k = l)
  <2> SUFFICES ASSUME NEW k \in 1 .. Len(d), NEW l \in 1 .. Len(d)
               PROVE (k < l <=> f[k] < f[l]) /\ (f[k] = f[l] => k = l)
    OBVIOUS
  <2>1. k \in Int /\ l \in Int /\ f[k] \in Int /\ f[l] \in Int
    BY <1>3
  <2>2. (k < l => f[k] < f[l]) /\ (l < k => f[l] < f[k])
    BY <1>1
  <2> QED
    BY <2>1, <2>2
<1>5. IsCode(d, n)
  BY <1>0, <1>1, <1>3 DEF CodeOK, IsCode
<1>6. DmasInOrder(d, n)
  <2>1. ASSUME NEW i \in 1 .. n PROVE \E k \in 1 .. Len(d) : AtDma(d, k, i)
    <3>1. PICK m \in 1 .. N : c[m] = Dma(i)
      BY <1>0 DEF CodeOK, DmasInOrder, AtDma
    <3>2. ~IsGone(c[m], gone)
      BY <3>1, OpFacts DEF IsGone
    <3>3. PICK k \in 1 .. Len(d) : f[k] = m
      BY <1>1, <3>2
    <3>4. d[k] = Dma(i)
      BY <1>1, <3>1, <3>3
    <3> QED
      BY <3>4 DEF AtDma
  <2>2. ASSUME NEW i \in 1 .. n, NEW j \in 1 .. n, NEW k \in 1 .. Len(d), NEW l \in 1 .. Len(d),
               AtDma(d, k, i), AtDma(d, l, j)
        PROVE i < j <=> k < l
    <3>1. AtDma(c, f[k], i) /\ AtDma(c, f[l], j)
      BY <1>1, <2>2 DEF AtDma
    <3>2. i < j <=> f[k] < f[l]
      BY <1>0, <1>3, <3>1 DEF CodeOK, DmasInOrder
    <3> QED
      BY <1>4, <3>2
  <2> QED
    BY <2>1, <2>2 DEF DmasInOrder
<1>7. WaitsOnce(d, n)
  <2> SUFFICES ASSUME NEW i \in 1 .. n, NEW k \in 1 .. Len(d), NEW l \in 1 .. Len(d),
                      AtWait(d, k, i), AtWait(d, l, i)
               PROVE k = l
    BY DEF WaitsOnce
  <2>1. AtWait(c, f[k], i) /\ AtWait(c, f[l], i)
    BY <1>1 DEF AtWait
  <2>2. f[k] = f[l]
    BY <1>0, <1>3, <2>1 DEF CodeOK, WaitsOnce
  <2> QED
    BY <1>4, <2>2
<1>8. WaitsBehind(d, n)
  <2> SUFFICES ASSUME NEW i \in 1 .. n, NEW k \in 1 .. Len(d), NEW l \in 1 .. Len(d),
                      AtDma(d, k, i), AtWait(d, l, i)
               PROVE k < l
    BY DEF WaitsBehind
  <2>1. AtDma(c, f[k], i) /\ AtWait(c, f[l], i)
    BY <1>1 DEF AtDma, AtWait
  <2>2. f[k] < f[l]
    BY <1>0, <1>3, <2>1 DEF CodeOK, WaitsBehind
  <2> QED
    BY <1>4, <2>2
<1> QED
  BY <1>5, <1>6, <1>7, <1>8 DEF CodeOK

(* When every wait names one DMA, exactly the waits for `gone' go.         *)
LEMMA EraseSingles ==
    ASSUME NEW c, NEW n \in Nat, CodeOK(c, n), Singles(c, Len(c)), NEW gone, NEW d, NEW f,
           Embeds(f, d, c, Len(c), gone)
    PROVE  Singles(d, Len(d)) /\ Awaited(d, n) = Awaited(c, n) \ gone
<1>0. PICK N : N = Len(c) /\ N \in Nat
  BY LenIs DEF CodeOK, IsCode
<1>1. /\ f \in [1 .. Len(d) -> 1 .. N]
      /\ \A k \in 1 .. Len(d) : d[k] = c[f[k]] /\ ~IsGone(c[f[k]], gone)
      /\ \A m \in 1 .. N : ~IsGone(c[m], gone) => \E k \in 1 .. Len(d) : f[k] = m
  BY <1>0 DEF Embeds
<1>2. \A k \in 1 .. Len(d) : f[k] \in 1 .. N
  BY <1>1
<1>3. Singles(d, Len(d))
  <2> SUFFICES ASSUME NEW k \in 1 .. Len(d), d[k].kind = "wait" PROVE \E i : d[k] = Wait({i})
    BY DEF Singles
  <2>1. PICK m \in 1 .. N : m = f[k]
    BY <1>2
  <2>2. c[m] = d[k]
    BY <1>1, <2>1
  <2>3. \E i : c[m] = Wait({i})
    BY <1>0, <2>2 DEF Singles
  <2> QED
    BY <2>2, <2>3
<1>4. ASSUME NEW i \in 1 .. n, NEW m \in 1 .. N, AtWait(c, m, i)
      PROVE c[m] = Wait({i})
  <2>1. PICK j : c[m] = Wait({j})
    BY <1>0, <1>4 DEF Singles, AtWait
  <2>2. i \in {j}
    BY <1>4, <2>1, OpFacts DEF AtWait
  <2> QED
    BY <2>1, <2>2
<1>5. ASSUME NEW i \in Awaited(d, n) PROVE i \in Awaited(c, n) \ gone
  <2>1. i \in 1 .. n
    BY DEF Awaited
  <2>2. PICK k \in 1 .. Len(d) : AtWait(d, k, i)
    BY DEF Awaited
  <2>3. AtWait(c, f[k], i)
    BY <1>1, <2>2 DEF AtWait
  <2>4. c[f[k]] = Wait({i})
    BY <1>2, <1>4, <2>1, <2>3
  <2>5. i \notin gone
    <3>1. ~IsGone(Wait({i}), gone)
      BY <1>1, <2>4
    <3> QED
      BY <3>1, OpFacts DEF IsGone
  <2> QED
    BY <1>0, <1>2, <2>1, <2>3, <2>5 DEF Awaited
<1>6. ASSUME NEW i \in Awaited(c, n), i \notin gone PROVE i \in Awaited(d, n)
  <2>1. i \in 1 .. n
    BY DEF Awaited
  <2>2. PICK m \in 1 .. N : AtWait(c, m, i)
    BY <1>0 DEF Awaited
  <2>3. ~IsGone(c[m], gone)
    BY <1>6, <2>2 DEF IsGone, AtWait
  <2>4. PICK k \in 1 .. Len(d) : f[k] = m
    BY <1>1, <2>3
  <2>5. AtWait(d, k, i)
    BY <1>1, <2>2, <2>4 DEF AtWait
  <2> QED
    BY <2>1, <2>5 DEF Awaited
<1> QED
  BY <1>3, <1>5, <1>6

(* The operations before the first that goes stay in place.                *)
Stays(c, m, gone) == \A k \in 1 .. m : ~IsGone(c[k], gone)

(* Erasing behind the m-th operation leaves the first m in place.          *)
LEMMA EraseFromPos ==
    ASSUME NEW c, IsSeq(c), NEW gone, NEW d, NEW f, Embeds(f, d, c, Len(c), gone),
           NEW m \in 0 .. Len(c), Stays(c, m, gone)
    PROVE  /\ m <= Len(d) /\ \A k \in 1 .. m : f[k] = k /\ d[k] = c[k]
           /\ \A k \in 1 .. Len(d) : k > m => f[k] > m
<1>0. PICK N : N = Len(c) /\ N \in Nat
  BY LenIs
<1>1. /\ IsSeq(d) /\ f \in [1 .. Len(d) -> 1 .. N]
      /\ \A k, l \in 1 .. Len(d) : k < l => f[k] < f[l]
      /\ \A k \in 1 .. Len(d) : d[k] = c[f[k]] /\ ~IsGone(c[f[k]], gone)
      /\ \A j \in 1 .. N : ~IsGone(c[j], gone) => \E k \in 1 .. Len(d) : f[k] = j
  BY <1>0 DEF Embeds
<1>2. Len(d) \in Nat /\ \A k \in 1 .. Len(d) : f[k] \in 1 .. N
  BY <1>1, LenIs
<1> DEFINE T == {k \in 0 .. m : k <= Len(d) /\ \A j \in 1 .. k : f[j] = j}
<1>3. 0 \in T
  BY <1>2
<1>4. ASSUME NEW k \in 1 .. m, k - 1 \in T PROVE k \in T
  <2>1. k - 1 \in Nat /\ k - 1 <= Len(d) /\ \A j \in 1 .. k - 1 : f[j] = j
    BY <1>4
  <2>2. k \in 1 .. N /\ ~IsGone(c[k], gone)
    BY <1>0 DEF Stays
  <2>3. PICK l \in 1 .. Len(d) : f[l] = k
    BY <1>1, <2>2
  <2>4. l \notin 1 .. k - 1
    <3>1. l \in 1 .. k - 1 => l = k
      BY <2>1, <2>3
    <3> QED
      BY <3>1
  <2>5. l >= k
    BY <2>4
  <2>6. CASE l = k
    <3>1. \A j \in 1 .. k : j = k \/ j \in 1 .. k - 1
      OBVIOUS
    <3> QED
      BY <2>1, <2>3, <2>6, <3>1
  <2>7. CASE l > k
    <3>1. k \in 1 .. Len(d) /\ k < l
      BY <1>2, <2>7
    <3>2. f[k] < k /\ f[k] \in 1 .. N
      BY <1>1, <1>2, <2>3, <3>1
    <3>3. f[k] \in 1 .. k - 1 /\ f[k] \in 1 .. Len(d) /\ f[k] < k
      BY <1>2, <2>1, <3>1, <3>2
    <3>4. f[f[k]] = f[k] /\ f[f[k]] < f[k]
      <4>1. f[f[k]] = f[k]
        BY <2>1, <3>3
      <4>2. f[f[k]] < f[k]
        BY <1>1, <3>1, <3>3
      <4> QED
        BY <4>1, <4>2
    <3> QED
      BY <3>2, <3>4
  <2> QED
    BY <2>5, <2>6, <2>7
<1>5. m \in T
  <2>1. m \in Nat /\ m \in 0 .. m
    OBVIOUS
  <2> HIDE DEF T
  <2>2. 0 .. m \subseteq T
    BY <1>3, <1>4, <2>1, UpToN
  <2> QED
    BY <2>1, <2>2
<1>6. \A k \in 1 .. m : k \in 1 .. Len(d) /\ f[k] = k
  BY <1>2, <1>5
<1>7. ASSUME NEW k \in 1 .. Len(d), k > m PROVE f[k] > m
  <2>1. CASE m = 0
    BY <1>2, <2>1
  <2>2. CASE m # 0
    <3>1. m \in 1 .. m
      BY <2>2
    <3>2. m \in 1 .. Len(d) /\ f[m] = m /\ m < k
      BY <1>6, <1>7, <3>1
    <3>3. f[m] < f[k] /\ f[k] \in 1 .. N
      BY <1>1, <1>2, <3>2
    <3> QED
      BY <3>2, <3>3
  <2> QED
    BY <2>1, <2>2
<1> QED
  BY <1>1, <1>5, <1>6, <1>7

-----------------------------------------------------------------------------
(* A code under construction: the DMAs in A and, behind them, single waits *)
(* for those in B.                                                         *)
Part(c, n, A, B) ==
    /\ IsCode(c, n) /\ Singles(c, Len(c)) /\ WaitsOnce(c, n) /\ WaitsBehind(c, n)
    /\ A = {i \in 1 .. n : \E k \in 1 .. Len(c) : AtDma(c, k, i)}
    /\ B = Awaited(c, n)
    /\ \A i, j \in 1 .. n, k, l \in 1 .. Len(c) :
         AtDma(c, k, i) /\ AtDma(c, l, j) => (i < j <=> k < l)

(* One more operation.                                                     *)
IsNext(d, c, o) == /\ IsSeq(d) /\ Len(d) = Len(c) + 1 /\ d[Len(c) + 1] = o
                   /\ \A k \in 1 .. Len(c) : d[k] = c[k]

(* Adding one operation behind a code.                                     *)
LEMMA NextIs ==
    ASSUME NEW c, IsSeq(c), NEW o
    PROVE  IsNext(c \o <<o>>, c, o)
<1>1. PICK t : t = <<o>>
  OBVIOUS
<1>2. IsSeq(t) /\ Len(t) = 1 /\ t[1] = o
  <2>1. t \in Seq({o}) /\ Len(t) = 1 /\ t[1] = o
    BY <1>1
  <2> QED
    BY <2>1, SeqIsSeq
<1>3. /\ IsSeq(c \o t) /\ Len(c \o t) = Len(c) + Len(t)
      /\ \A k \in 1 .. Len(c) : (c \o t)[k] = c[k]
      /\ \A k \in 1 .. Len(t) : (c \o t)[Len(c) + k] = t[k]
  <2>1. IsSeq(c) /\ IsSeq(t)
    BY <1>2
  <2> QED
    BY ONLY <2>1, ConcatIs
<1>4. 1 \in 1 .. 1
  OBVIOUS
<1> QED
  BY <1>1, <1>2, <1>3, <1>4 DEF IsNext

(* Where the operations of the longer code are.                            *)
LEMMA NextAt ==
    ASSUME NEW c, IsSeq(c), NEW d, NEW o, IsNext(d, c, o)
    PROVE  /\ \A k \in 1 .. Len(d) : k = Len(d) \/ (k \in 1 .. Len(c) /\ k < Len(d))
           /\ Len(d) \in 1 .. Len(d) /\ \A k \in 1 .. Len(c) : k \in 1 .. Len(d) /\ k < Len(d)
           /\ \A i : AtDma(d, Len(d), i) <=> o = Dma(i)
           /\ \A i : AtWait(d, Len(d), i) <=> o.kind = "wait" /\ i \in o.ops
           /\ \A i, k : k \in 1 .. Len(c) => /\ AtDma(d, k, i) <=> AtDma(c, k, i)
                                             /\ AtWait(d, k, i) <=> AtWait(c, k, i)
<1>1. Len(c) \in Nat /\ Len(d) = Len(c) + 1
  BY LenIs DEF IsNext
<1>2. /\ \A k \in 1 .. Len(d) : k = Len(d) \/ (k \in 1 .. Len(c) /\ k < Len(d))
      /\ Len(d) \in 1 .. Len(d) /\ \A k \in 1 .. Len(c) : k \in 1 .. Len(d) /\ k < Len(d)
  BY <1>1
<1>3. d[Len(d)] = o /\ \A k \in 1 .. Len(c) : d[k] = c[k]
  BY <1>1 DEF IsNext
<1> QED
  BY <1>2, <1>3 DEF AtDma, AtWait

(* One more single wait, DMA or barrier.                                   *)
LEMMA NextSingle ==
    ASSUME NEW c, NEW n, IsCode(c, n), Singles(c, Len(c)), NEW o, IsOp(o, n),
           NEW d, IsNext(d, c, o), o.kind = "wait" => \E i : o = Wait({i})
    PROVE  IsCode(d, n) /\ Singles(d, Len(d))
<1>1. IsSeq(c)
  BY DEF IsCode
<1>2. /\ \A k \in 1 .. Len(d) : k = Len(d) \/ (k \in 1 .. Len(c) /\ k < Len(d))
      /\ IsSeq(d) /\ d[Len(d)] = o /\ \A k \in 1 .. Len(c) : d[k] = c[k]
  BY <1>1, NextAt, LenIs DEF IsNext
<1>3. ASSUME NEW k \in 1 .. Len(d)
      PROVE IsOp(d[k], n) /\ (d[k].kind = "wait" => \E i : d[k] = Wait({i}))
  <2>1. CASE k = Len(d)
    BY <1>2, <2>1
  <2>2. CASE k \in 1 .. Len(c)
    <3>1. d[k] = c[k] /\ IsOp(c[k], n)
      BY <1>2, <2>2 DEF IsCode
    <3>2. c[k].kind = "wait" => \E i : c[k] = Wait({i})
      BY <2>2 DEF Singles
    <3> QED
      BY <3>1, <3>2
  <2> QED
    BY <1>2, <2>1, <2>2
<1> QED
  BY <1>2, <1>3 DEF IsCode, Singles

(* One more DMA, later than the others.                                    *)
LEMMA PartDma ==
    ASSUME NEW n \in Nat, NEW c, NEW A, NEW B, Part(c, n, A, B), B \subseteq A,
           NEW j \in 1 .. n, \A a \in A : a < j, NEW d, IsNext(d, c, Dma(j))
    PROVE  Part(d, n, A \cup {j}, B)
<1>1. IsSeq(c)
  BY DEF Part, IsCode
<1>2. /\ \A k \in 1 .. Len(d) : k = Len(d) \/ (k \in 1 .. Len(c) /\ k < Len(d))
      /\ Len(d) \in 1 .. Len(d) /\ \A k \in 1 .. Len(c) : k \in 1 .. Len(d) /\ k < Len(d)
      /\ \A i : AtDma(d, Len(d), i) <=> i = j
      /\ \A i : ~AtWait(d, Len(d), i)
      /\ \A i, k : k \in 1 .. Len(c) => /\ AtDma(d, k, i) <=> AtDma(c, k, i)
                                        /\ AtWait(d, k, i) <=> AtWait(c, k, i)
  <2>1. \A i : Dma(j) = Dma(i) <=> i = j
    <3>1. \A i : {j} = {i} <=> i = j
      OBVIOUS
    <3> QED
      BY <3>1, OpFacts
  <2>2. Dma(j).kind # "wait"
    BY OpFacts
  <2> QED
    BY <1>1, <2>1, <2>2, NextAt
<1>3. IsCode(d, n) /\ Singles(d, Len(d))
  <2>1. IsOp(Dma(j), n) /\ Dma(j).kind # "wait"
    BY OpFacts DEF IsOp
  <2> QED
    BY <2>1, NextSingle DEF Part
<1>4. B = Awaited(d, n)
  <2>1. \A i : (\E k \in 1 .. Len(d) : AtWait(d, k, i)) <=> \E k \in 1 .. Len(c) : AtWait(c, k, i)
    BY <1>2
  <2>2. B = Awaited(c, n)
    BY DEF Part
  <2> QED
    BY <2>1, <2>2 DEF Awaited
<1>5. WaitsOnce(d, n)
  <2>1. WaitsOnce(c, n)
    BY DEF Part
  <2> QED
    BY <1>2, <2>1 DEF WaitsOnce
<1>6. j \notin A /\ j \notin B
  BY DEF Part
<1>7. WaitsBehind(d, n)
  <2> SUFFICES ASSUME NEW i \in 1 .. n, NEW k \in 1 .. Len(d), NEW l \in 1 .. Len(d),
                      AtDma(d, k, i), AtWait(d, l, i)
               PROVE k < l
    BY DEF WaitsBehind
  <2>1. l \in 1 .. Len(c) /\ AtWait(c, l, i)
    BY <1>2
  <2>2. i \in B
    BY <2>1 DEF Part, Awaited
  <2>3. k \in 1 .. Len(c) /\ AtDma(c, k, i)
    BY <1>2, <1>6, <2>2
  <2> QED
    BY <2>1, <2>3 DEF Part, WaitsBehind
<1>8. A \cup {j} = {i \in 1 .. n : \E k \in 1 .. Len(d) : AtDma(d, k, i)}
  BY <1>2 DEF Part
<1>9. ASSUME NEW i \in 1 .. n, NEW m \in 1 .. n, NEW k \in 1 .. Len(d), NEW l \in 1 .. Len(d),
             AtDma(d, k, i), AtDma(d, l, m)
      PROVE i < m <=> k < l
  <2>1. CASE k = Len(d) /\ l = Len(d)
    BY <1>2, <1>9, <2>1
  <2>2. CASE k = Len(d) /\ l # Len(d)
    <3>1. i = j /\ l < k
      BY <1>2, <1>9, <2>2
    <3>2. l \in 1 .. Len(c) /\ AtDma(c, l, m)
      BY <1>2, <1>9, <2>2
    <3>3. m \in A
      BY <3>2 DEF Part
    <3>4. m < j
      BY <3>3
    <3> QED
      BY <3>1, <3>4
  <2>3. CASE k # Len(d) /\ l = Len(d)
    <3>1. m = j /\ k < l
      BY <1>2, <1>9, <2>3
    <3>2. k \in 1 .. Len(c) /\ AtDma(c, k, i)
      BY <1>2, <1>9, <2>3
    <3>3. i \in A
      BY <3>2 DEF Part
    <3>4. i < j
      BY <3>3
    <3> QED
      BY <3>1, <3>4
  <2>4. CASE k # Len(d) /\ l # Len(d)
    BY <1>2, <1>9, <2>4 DEF Part
  <2> QED
    BY <2>1, <2>2, <2>3, <2>4
<1> QED
  BY <1>3, <1>4, <1>5, <1>7, <1>8, <1>9 DEF Part

(* A wait for a DMA that no wait names yet.                                *)
LEMMA PartWait ==
    ASSUME NEW n \in Nat, NEW c, NEW A, NEW B, Part(c, n, A, B),
           NEW j \in A \ B, NEW d, IsNext(d, c, Wait({j}))
    PROVE  Part(d, n, A, B \cup {j})
<1>1. IsSeq(c) /\ j \in 1 .. n
  BY DEF Part, IsCode
<1>2. /\ \A k \in 1 .. Len(d) : k = Len(d) \/ (k \in 1 .. Len(c) /\ k < Len(d))
      /\ Len(d) \in 1 .. Len(d) /\ \A k \in 1 .. Len(c) : k \in 1 .. Len(d) /\ k < Len(d)
      /\ \A i : ~AtDma(d, Len(d), i)
      /\ \A i : AtWait(d, Len(d), i) <=> i = j
      /\ \A i, k : k \in 1 .. Len(c) => /\ AtDma(d, k, i) <=> AtDma(c, k, i)
                                        /\ AtWait(d, k, i) <=> AtWait(c, k, i)
  <2>1. \A i : i \in Wait({j}).ops <=> i = j
    BY OpFacts
  <2>2. Wait({j}).kind = "wait" /\ \A i : Wait({j}) # Dma(i)
    BY OpFacts
  <2> QED
    BY <1>1, <2>1, <2>2, NextAt
<1>3. IsCode(d, n) /\ Singles(d, Len(d))
  <2>1. IsOp(Wait({j}), n)
    <3>1. {j} \in SUBSET (1 .. n) /\ {j} # {}
      BY <1>1
    <3> QED
      BY <3>1 DEF IsOp
  <2> QED
    BY <2>1, NextSingle DEF Part
<1>4. B \cup {j} = Awaited(d, n)
  BY <1>1, <1>2 DEF Part, Awaited
<1>5. WaitsOnce(d, n)
  <2> SUFFICES ASSUME NEW i \in 1 .. n, NEW k \in 1 .. Len(d), NEW l \in 1 .. Len(d),
                      AtWait(d, k, i), AtWait(d, l, i)
               PROVE k = l
    BY DEF WaitsOnce
  <2>1. ASSUME NEW m \in 1 .. Len(c), AtWait(d, m, i) PROVE i # j
    <3>1. AtWait(c, m, i)
      BY <1>2, <2>1
    <3>2. i \in B
      BY <3>1 DEF Part, Awaited
    <3> QED
      BY <3>2
  <2>2. CASE i = j
    BY <1>2, <2>1, <2>2
  <2>3. CASE i # j
    <3>1. k \in 1 .. Len(c) /\ l \in 1 .. Len(c) /\ AtWait(c, k, i) /\ AtWait(c, l, i)
      BY <1>2, <2>3
    <3> QED
      BY <3>1 DEF Part, WaitsOnce
  <2> QED
    BY <2>2, <2>3
<1>6. WaitsBehind(d, n)
  <2> SUFFICES ASSUME NEW i \in 1 .. n, NEW k \in 1 .. Len(d), NEW l \in 1 .. Len(d),
                      AtDma(d, k, i), AtWait(d, l, i)
               PROVE k < l
    BY DEF WaitsBehind
  <2>1. k \in 1 .. Len(c) /\ AtDma(c, k, i) /\ k < Len(d)
    BY <1>2
  <2>2. CASE l = Len(d)
    BY <2>1, <2>2
  <2>3. CASE l # Len(d)
    <3>1. l \in 1 .. Len(c) /\ AtWait(c, l, i)
      BY <1>2, <2>3
    <3> QED
      BY <2>1, <3>1 DEF Part, WaitsBehind
  <2> QED
    BY <2>2, <2>3
<1>7. A = {i \in 1 .. n : \E k \in 1 .. Len(d) : AtDma(d, k, i)}
  BY <1>2 DEF Part
<1>8. ASSUME NEW i \in 1 .. n, NEW m \in 1 .. n, NEW k \in 1 .. Len(d), NEW l \in 1 .. Len(d),
             AtDma(d, k, i), AtDma(d, l, m)
      PROVE i < m <=> k < l
  BY <1>2, <1>8 DEF Part
<1> QED
  BY <1>3, <1>4, <1>5, <1>6, <1>7, <1>8 DEF Part

(* One more barrier.                                                       *)
LEMMA PartBarrier ==
    ASSUME NEW n \in Nat, NEW c, NEW A, NEW B, Part(c, n, A, B),
           NEW d, IsNext(d, c, Barrier)
    PROVE  Part(d, n, A, B)
<1>1. IsSeq(c)
  BY DEF Part, IsCode
<1>2. /\ \A k \in 1 .. Len(d) : k = Len(d) \/ (k \in 1 .. Len(c) /\ k < Len(d))
      /\ Len(d) \in 1 .. Len(d) /\ \A k \in 1 .. Len(c) : k \in 1 .. Len(d) /\ k < Len(d)
      /\ \A i : ~AtDma(d, Len(d), i) /\ ~AtWait(d, Len(d), i)
      /\ \A i, k : k \in 1 .. Len(c) => /\ AtDma(d, k, i) <=> AtDma(c, k, i)
                                        /\ AtWait(d, k, i) <=> AtWait(c, k, i)
  <2>1. Barrier.kind # "wait" /\ \A i : Barrier # Dma(i)
    BY OpFacts
  <2> QED
    BY <1>1, <2>1, NextAt
<1>3. IsCode(d, n) /\ Singles(d, Len(d))
  <2>1. IsOp(Barrier, n) /\ Barrier.kind # "wait"
    BY OpFacts DEF IsOp
  <2> QED
    BY <2>1, NextSingle DEF Part
<1>4. B = Awaited(d, n)
  <2>1. \A i : (\E k \in 1 .. Len(d) : AtWait(d, k, i)) <=> \E k \in 1 .. Len(c) : AtWait(c, k, i)
    BY <1>2
  <2>2. B = Awaited(c, n)
    BY DEF Part
  <2> QED
    BY <2>1, <2>2 DEF Awaited
<1>5. WaitsOnce(d, n) /\ WaitsBehind(d, n)
  <2>1. WaitsOnce(c, n) /\ WaitsBehind(c, n)
    BY DEF Part
  <2> QED
    BY <1>2, <2>1 DEF WaitsOnce, WaitsBehind
<1>6. A = {i \in 1 .. n : \E k \in 1 .. Len(d) : AtDma(d, k, i)}
  BY <1>2 DEF Part
<1>7. ASSUME NEW i \in 1 .. n, NEW m \in 1 .. n, NEW k \in 1 .. Len(d), NEW l \in 1 .. Len(d),
             AtDma(d, k, i), AtDma(d, l, m)
      PROVE i < m <=> k < l
  BY <1>2, <1>7 DEF Part
<1> QED
  BY <1>3, <1>4, <1>5, <1>6, <1>7 DEF Part

-----------------------------------------------------------------------------
(* The waits behind DMA k of the source code, innermost first.             *)
WaitsAt(k, until) == [m \in 1 .. k |-> IF until[k + 1 - m] = k
                                       THEN <<Wait({k + 1 - m})>> ELSE <<>>]
PieceAt(k, until, barriers) == <<Dma(k)>> \o FlattenSeq(WaitsAt(k, until))
                               \o (IF k \in barriers THEN <<Barrier>> ELSE <<>>)

(* Concatenation is associative.                                           *)
LEMMA ConcatAssoc ==
    ASSUME NEW a, NEW b, NEW c, IsSeq(a), IsSeq(b), IsSeq(c)
    PROVE  a \o (b \o c) = (a \o b) \o c
<1>1. PICK S : S = ToSet(a) \cup (ToSet(b) \cup ToSet(c))
  OBVIOUS
<1>2. a \in Seq(S) /\ b \in Seq(S) /\ c \in Seq(S)
  BY <1>1, SeqMonotonic DEF IsSeq
<1>3. (a \o b) \o c = a \o (b \o c)
  BY ONLY <1>2, ConcatAssociative
<1> QED
  BY ONLY <1>3

(* Nothing behind a sequence.                                              *)
LEMMA ConcatNone ==
    ASSUME NEW a, IsSeq(a)
    PROVE  a \o <<>> = a
  BY ConcatEmptySeq DEF IsSeq

(* A sequence of one entry.                                                *)
LEMMA OneIsSeq == ASSUME NEW e PROVE IsSeq(<<e>>)
<1>1. <<e>> \in Seq({e})
  OBVIOUS
<1> QED
  BY <1>1, SeqIsSeq

(* One more operation, with a part behind it.                              *)
LEMMA NextOfConcat ==
    ASSUME NEW c, NEW v, IsSeq(c), IsSeq(v), NEW o
    PROVE  IsNext(c \o (v \o <<o>>), c \o v, o) /\ IsSeq(v \o <<o>>)
<1>1. PICK e : e = <<o>> /\ IsSeq(e)
  BY OneIsSeq
<1>2. c \o (v \o e) = (c \o v) \o e
  BY <1>1, ConcatAssoc
<1>3. IsSeq(v \o e) /\ IsSeq(c \o v)
  BY <1>1, ConcatIs
<1>4. IsNext((c \o v) \o <<o>>, c \o v, o)
  BY <1>3, NextIs
<1> QED
  BY <1>1, <1>2, <1>3, <1>4

(* What is known of the brackets: they end at a later DMA.                 *)
EndsLater(until, n) == \A i \in 1 .. n : until[i] \in i .. n
EndedBy(until, n, k) == {i \in 1 .. n : until[i] <= k}

(* The waits that end at a DMA's place, one after the other.               *)
LEMMA WaitsOfPiece ==
    ASSUME NEW n \in Nat, NEW until, EndsLater(until, n), NEW k \in 1 .. n, NEW c,
           Part(c, n, 1 .. k, EndedBy(until, n, k - 1))
    PROVE  /\ IsSeq(FlattenSeq(WaitsAt(k, until)))
           /\ Part(c \o FlattenSeq(WaitsAt(k, until)), n, 1 .. k, EndedBy(until, n, k))
<1>1. PICK W : W = WaitsAt(k, until)
  OBVIOUS
<1>2. PICK S : S = {Wait({i}) : i \in 1 .. n}
  OBVIOUS
<1>3. \A m \in 1 .. k : W[m] = IF until[k + 1 - m] = k THEN <<Wait({k + 1 - m})>> ELSE <<>>
  BY <1>1 DEF WaitsAt
<1>4. ASSUME NEW m \in 1 .. k PROVE W[m] \in Seq(S)
  <2>1. k + 1 - m \in 1 .. n
    OBVIOUS
  <2>2. PICK e \in S : e = Wait({k + 1 - m})
    BY <1>2, <2>1
  <2>3. <<e>> \in Seq(S) /\ <<>> \in Seq(S)
    OBVIOUS
  <2> QED
    BY <1>3, <2>2, <2>3
<1>5. IsSeq(W) /\ Len(W) = k
  <2>1. W \in [1 .. k -> Seq(S)]
    BY <1>1, <1>4 DEF WaitsAt
  <2>2. k \in Nat
    OBVIOUS
  <2>3. W \in Seq(Seq(S)) /\ Len(W) = k
    BY <2>1, <2>2, FunIsSeq
  <2> QED
    BY <2>3, SeqIsSeq
<1>6. PICK g : /\ g[0] = <<>> /\ g[k] = FlattenSeq(W)
               /\ \A m \in 1 .. k : g[m] = g[m - 1] \o W[m]
  BY <1>4, <1>5, FlattenSteps
<1> DEFINE B(m) == EndedBy(until, n, k - 1) \cup {i \in 1 .. n : until[i] = k /\ i > k - m}
           T == {m \in 0 .. k : IsSeq(g[m]) /\ Part(c \o g[m], n, 1 .. k, B(m))}
<1>7. IsSeq(c)
  BY DEF Part, IsCode
<1>8. 0 \in T
  <2>1. B(0) = EndedBy(until, n, k - 1)
    BY DEF EndsLater
  <2>2. c \o <<>> = c
    BY <1>7, ConcatNone
  <2>3. 0 \in 0 .. k
    OBVIOUS
  <2> QED
    BY <1>6, <2>1, <2>2, <2>3, EmptyIs
<1>9. ASSUME NEW m \in 1 .. k, m - 1 \in T PROVE m \in T
  <2>1. PICK i : i = k + 1 - m /\ i \in 1 .. k /\ i \in 1 .. n
    OBVIOUS
  <2>2. IsSeq(g[m - 1]) /\ Part(c \o g[m - 1], n, 1 .. k, B(m - 1))
    BY <1>9
  <2>3. g[m] = g[m - 1] \o W[m] /\ m \in 0 .. k
    <3>1. m \in 0 .. k
      OBVIOUS
    <3> QED
      BY <1>6, <3>1
  <2>4. CASE until[i] = k
    <3>1. B(m) = B(m - 1) \cup {i} /\ i \notin B(m - 1)
      <4>1. i \notin EndedBy(until, n, k - 1)
        BY <2>4 DEF EndedBy
      <4>2. \A j \in 1 .. n : j > k - m <=> j = i \/ j > k - (m - 1)
        BY <2>1
      <4>3. ~(i > k - (m - 1))
        BY <2>1
      <4> QED
        BY <2>1, <2>4, <4>1, <4>2, <4>3
    <3>2. W[m] = <<Wait({i})>>
      BY <1>3, <2>1, <2>4
    <3>3. PICK d : d = c \o g[m]
      OBVIOUS
    <3>4. IsSeq(c) /\ IsSeq(g[m - 1])
      BY <1>7, <2>2
    <3>5. IsNext(d, c \o g[m - 1], Wait({i})) /\ IsSeq(g[m])
      <4>1. PICK v, o : v = g[m - 1] /\ o = Wait({i})
        OBVIOUS
      <4>2. IsNext(c \o (v \o <<o>>), c \o v, o) /\ IsSeq(v \o <<o>>)
        BY <3>4, <4>1, NextOfConcat
      <4> QED
        BY <2>3, <3>2, <3>3, <4>1, <4>2
    <3>6. i \in (1 .. k) \ B(m - 1)
      BY <2>1, <3>1
    <3>7. Part(d, n, 1 .. k, B(m - 1) \cup {i})
      <4> HIDE DEF B
      <4> QED
        BY <2>2, <3>5, <3>6, PartWait
    <3> QED
      BY <2>3, <3>1, <3>3, <3>5, <3>7
  <2>5. CASE until[i] # k
    <3>1. B(m) = B(m - 1)
      <4>1. \A j \in 1 .. n : j > k - m <=> j = i \/ j > k - (m - 1)
        BY <2>1
      <4> QED
        BY <2>5, <4>1
    <3>2. W[m] = <<>>
      BY <1>3, <2>1, <2>5
    <3>3. g[m] = g[m - 1]
      BY <2>2, <2>3, <3>2, ConcatNone
    <3> QED
      BY <2>2, <2>3, <3>1, <3>3
  <2> QED
    BY <2>4, <2>5
<1>10. k \in T
  <2> HIDE DEF T
  <2>1. k \in Nat /\ k \in 0 .. k
    OBVIOUS
  <2>2. 0 .. k \subseteq T
    BY <1>8, <1>9, <2>1, UpToN
  <2> QED
    BY <2>1, <2>2
<1>11. B(k) = EndedBy(until, n, k)
  <2>1. \A i \in 1 .. n : i > k - k /\ (until[i] <= k <=> until[i] <= k - 1 \/ until[i] = k)
    BY DEF EndsLater
  <2> QED
    BY <2>1 DEF EndedBy
<1> QED
  BY <1>1, <1>6, <1>10, <1>11

(* The operations of one DMA keep the partial code well-formed.            *)
LEMMA PieceOK ==
    ASSUME NEW n \in Nat, NEW until, EndsLater(until, n), NEW barriers, NEW k \in 1 .. n,
           NEW c, Part(c, n, 1 .. k - 1, EndedBy(until, n, k - 1))
    PROVE  /\ IsSeq(PieceAt(k, until, barriers))
           /\ Part(c \o PieceAt(k, until, barriers), n, 1 .. k, EndedBy(until, n, k))
<1>1. IsSeq(c)
  BY DEF Part, IsCode
<1>2. PICK c1 : c1 = c \o <<Dma(k)>>
  OBVIOUS
<1>3. Part(c1, n, 1 .. k, EndedBy(until, n, k - 1))
  <2>1. IsNext(c1, c, Dma(k))
    BY <1>1, <1>2, NextIs
  <2>2. EndedBy(until, n, k - 1) \subseteq 1 .. k - 1
    BY DEF EndedBy, EndsLater
  <2>3. \A a \in 1 .. k - 1 : a < k
    OBVIOUS
  <2>4. (1 .. k - 1) \cup {k} = 1 .. k
    OBVIOUS
  <2>5. Part(c1, n, (1 .. k - 1) \cup {k}, EndedBy(until, n, k - 1))
    BY <2>1, <2>2, <2>3, PartDma
  <2> QED
    BY <2>4, <2>5
<1>4. PICK w : w = FlattenSeq(WaitsAt(k, until))
  OBVIOUS
<1>5. IsSeq(w) /\ Part(c1 \o w, n, 1 .. k, EndedBy(until, n, k))
  BY <1>3, <1>4, WaitsOfPiece
<1>6. PICK b : b = IF k \in barriers THEN <<Barrier>> ELSE <<>>
  OBVIOUS
<1>7. IsSeq(b) /\ Part((c1 \o w) \o b, n, 1 .. k, EndedBy(until, n, k))
  <2>1. IsSeq(c1 \o w)
    BY <1>5 DEF Part, IsCode
  <2>2. CASE k \in barriers
    <3>1. PICK d : d = (c1 \o w) \o <<Barrier>>
      OBVIOUS
    <3>2. IsNext(d, c1 \o w, Barrier)
      BY <2>1, <3>1, NextIs
    <3>3. Part(d, n, 1 .. k, EndedBy(until, n, k))
      BY <1>5, <3>2, PartBarrier
    <3> QED
      BY <1>6, <2>2, <3>1, <3>3, OneIsSeq
  <2>3. CASE k \notin barriers
    <3>1. (c1 \o w) \o <<>> = c1 \o w
      BY <2>1, ConcatNone
    <3> QED
      BY <1>5, <1>6, <2>3, <3>1, EmptyIs
  <2> QED
    BY <2>2, <2>3
<1>8. PICK e : e = <<Dma(k)>> /\ IsSeq(e)
  BY OneIsSeq
<1>9. PieceAt(k, until, barriers) = (e \o w) \o b /\ c1 = c \o e
  BY <1>2, <1>4, <1>6, <1>8 DEF PieceAt
<1>10. IsSeq(e \o w) /\ IsSeq((e \o w) \o b)
  BY <1>5, <1>7, <1>8, ConcatIs
<1>11. c \o ((e \o w) \o b) = (c1 \o w) \o b
  <2>1. c \o ((e \o w) \o b) = (c \o (e \o w)) \o b
    <3>1. PICK v : v = e \o w /\ IsSeq(v) /\ IsSeq(c) /\ IsSeq(b)
      BY <1>1, <1>7, <1>10
    <3>a. IsSeq(c) /\ IsSeq(v) /\ IsSeq(b)
      BY <3>1
    <3>2. c \o (v \o b) = (c \o v) \o b
      BY ONLY <3>a, ConcatAssoc
    <3> QED
      BY <3>1, <3>2
  <2>2. c \o (e \o w) = (c \o e) \o w
    <3>1. IsSeq(c) /\ IsSeq(e) /\ IsSeq(w)
      BY <1>1, <1>5, <1>8
    <3> QED
      BY ONLY <3>1, ConcatAssoc
  <2> QED
    BY <1>9, <2>1, <2>2
<1> QED
  BY <1>7, <1>9, <1>10, <1>11

(* Flattening sequences of any kind.                                       *)
LEMMA FlattenIsSeq ==
    ASSUME NEW S, NEW seqs, IsSeq(seqs), \A k \in 1 .. Len(seqs) : seqs[k] \in Seq(S)
    PROVE  FlattenSeq(seqs) \in Seq(S)
<1>1. PICK N : N = Len(seqs) /\ N \in Nat
  BY LenIs
<1>2. PICK h : /\ h[0] = <<>> /\ h[N] = FlattenSeq(seqs)
               /\ \A n \in 1 .. N : h[n] = h[n - 1] \o seqs[n]
  BY <1>1, FlattenSteps
<1> DEFINE T == {n \in 0 .. N : h[n] \in Seq(S)}
<1>3. 0 \in T
  <2>1. 0 \in 0 .. N /\ <<>> \in Seq(S)
    BY <1>1
  <2> QED
    BY <1>2, <2>1
<1>4. ASSUME NEW n \in 1 .. N, n - 1 \in T PROVE n \in T
  <2>1. h[n] = h[n - 1] \o seqs[n] /\ h[n - 1] \in Seq(S) /\ seqs[n] \in Seq(S)
    BY <1>1, <1>2, <1>4
  <2>2. h[n] \in Seq(S)
    BY <2>1, ConcatProperties
  <2> QED
    BY <2>2
<1>5. N \in T
  <2> HIDE DEF T
  <2>1. 0 .. N \subseteq T
    BY <1>1, <1>3, <1>4, UpToN
  <2> QED
    BY <1>1, <2>1
<1> QED
  BY <1>2, <1>5

(* The operations of one DMA are a sequence.                               *)
LEMMA PieceIsSeq ==
    ASSUME NEW n \in Nat, NEW until, NEW barriers, NEW k \in 1 .. n,
           NEW S, S = ({Dma(i) : i \in 1 .. n} \cup {Wait({i}) : i \in 1 .. n}) \cup {Barrier}
    PROVE  PieceAt(k, until, barriers) \in Seq(S)
<1>1. PICK W : W = WaitsAt(k, until)
  OBVIOUS
<1>2. \A m \in 1 .. k : W[m] = IF until[k + 1 - m] = k THEN <<Wait({k + 1 - m})>> ELSE <<>>
  BY <1>1 DEF WaitsAt
<1>3. ASSUME NEW m \in 1 .. k PROVE W[m] \in Seq(S)
  <2>1. k + 1 - m \in 1 .. n
    OBVIOUS
  <2>2. PICK e \in S : e = Wait({k + 1 - m})
    BY <2>1
  <2>3. <<e>> \in Seq(S) /\ <<>> \in Seq(S)
    OBVIOUS
  <2> QED
    BY <1>2, <2>2, <2>3
<1>4. IsSeq(W) /\ Len(W) = k
  <2>1. W \in [1 .. k -> Seq(S)]
    BY <1>1, <1>3 DEF WaitsAt
  <2>2. k \in Nat
    OBVIOUS
  <2>3. W \in Seq(Seq(S)) /\ Len(W) = k
    BY <2>1, <2>2, FunIsSeq
  <2> QED
    BY <2>3, SeqIsSeq
<1>5. PICK w : w = FlattenSeq(W) /\ w \in Seq(S)
  BY <1>3, <1>4, FlattenIsSeq
<1>6. PICK e \in Seq(S) : e = <<Dma(k)>>
  <2>1. PICK o \in S : o = Dma(k)
    OBVIOUS
  <2>2. <<o>> \in Seq(S)
    OBVIOUS
  <2> QED
    BY <2>1, <2>2
<1>7. PICK b \in Seq(S) : b = IF k \in barriers THEN <<Barrier>> ELSE <<>>
  <2>1. PICK o \in S : o = Barrier
    OBVIOUS
  <2>3. <<o>> \in Seq(S)
    BY ONLY o \in S
  <2>2. <<o>> \in Seq(S) /\ <<>> \in Seq(S)
    BY <2>3, EmptySeq
  <2> QED
    BY <2>1, <2>2
<1>8. (e \o w) \o b \in Seq(S)
  <2>1. e \o w \in Seq(S)
    BY <1>5, ConcatProperties
  <2> QED
    BY <2>1, ConcatProperties
<1> QED
  BY <1>1, <1>5, <1>6, <1>7, <1>8 DEF PieceAt

(* Piece by piece the code gets the next DMA and the waits that end there. *)
IsBuilt(h, c, n, until, barriers) ==
    /\ h[0] = <<>> /\ h[n] = c
    /\ \A k \in 1 .. n : h[k] = h[k - 1] \o PieceAt(k, until, barriers)
    /\ \A k \in 0 .. n : Part(h[k], n, 1 .. k, EndedBy(until, n, k))

(* This is how the source code comes about.                                *)
LEMMA SourceSteps ==
    ASSUME NEW n \in Nat, NEW until, EndsLater(until, n), NEW barriers,
           NEW c, c = SourceCode(n, until, barriers)
    PROVE  \E h : IsBuilt(h, c, n, until, barriers)
<1>1. PICK P : P = [k \in 1 .. n |-> PieceAt(k, until, barriers)]
  OBVIOUS
<1>3. c = FlattenSeq(P)
  BY <1>1 DEF SourceCode, PieceAt, WaitsAt
<1>4. PICK S : S = ({Dma(i) : i \in 1 .. n} \cup {Wait({i}) : i \in 1 .. n}) \cup {Barrier}
  OBVIOUS
<1>5. \A k \in 1 .. n : P[k] = PieceAt(k, until, barriers) /\ P[k] \in Seq(S)
  BY <1>1, <1>4, PieceIsSeq
<1>6. IsSeq(P) /\ Len(P) = n
  <2>1. P \in [1 .. n -> Seq(S)]
    BY <1>1, <1>5
  <2> QED
    BY <2>1, FunIsSeq, SeqIsSeq
<1>7. PICK h : /\ h[0] = <<>> /\ h[n] = c
               /\ \A k \in 1 .. n : h[k] = h[k - 1] \o P[k]
  BY <1>3, <1>5, <1>6, FlattenSteps
<1> DEFINE T == {k \in 0 .. n : Part(h[k], n, 1 .. k, EndedBy(until, n, k))}
<1>8. 0 \in T
  <2>1. EndedBy(until, n, 0) = {} /\ 1 .. 0 = {}
    BY DEF EndedBy, EndsLater
  <2>2. Part(<<>>, n, {}, {})
    <3>1. \A k : k \notin 1 .. 0
      OBVIOUS
    <3> QED
      BY <3>1, EmptyIs DEF Part, IsCode, Singles, WaitsOnce, WaitsBehind, Awaited
  <2>3. 0 \in 0 .. n
    OBVIOUS
  <2> QED
    BY <1>7, <2>1, <2>2, <2>3
<1>9. ASSUME NEW k \in 1 .. n, k - 1 \in T PROVE k \in T
  <2>1. Part(h[k - 1], n, 1 .. k - 1, EndedBy(until, n, k - 1))
    BY <1>9
  <2>2. Part(h[k - 1] \o PieceAt(k, until, barriers), n, 1 .. k, EndedBy(until, n, k))
    BY <2>1, PieceOK
  <2>3. h[k] = h[k - 1] \o PieceAt(k, until, barriers)
    BY <1>5, <1>7
  <2>4. k \in 0 .. n
    OBVIOUS
  <2> QED
    BY <2>2, <2>3, <2>4
<1>10. 0 .. n \subseteq T
  <2> HIDE DEF T
  <2> QED
    BY <1>8, <1>9, UpToN
<1>11. \A k \in 0 .. n : Part(h[k], n, 1 .. k, EndedBy(until, n, k))
  BY <1>10
<1> QED
  BY <1>5, <1>7, <1>11 DEF IsBuilt

(* The source code: every DMA in program order, awaited once and behind it.*)
LEMMA SourceCodeOK ==
    ASSUME NEW n \in Nat, NEW until, EndsLater(until, n), NEW barriers
    PROVE  /\ CodeOK(SourceCode(n, until, barriers), n)
           /\ Singles(SourceCode(n, until, barriers), Len(SourceCode(n, until, barriers)))
           /\ Awaited(SourceCode(n, until, barriers), n) = 1 .. n
<1>1. PICK c : c = SourceCode(n, until, barriers)
  OBVIOUS
<1>2. PICK h : IsBuilt(h, c, n, until, barriers)
  BY <1>1, SourceSteps
<1>3. Part(c, n, 1 .. n, EndedBy(until, n, n))
  <2>1. n \in 0 .. n
    OBVIOUS
  <2> QED
    BY <1>2, <2>1 DEF IsBuilt
<1>4. EndedBy(until, n, n) = 1 .. n
  BY DEF EndedBy, EndsLater
<1>5. DmasInOrder(c, n)
  <2>1. \A i \in 1 .. n : \E k \in 1 .. Len(c) : AtDma(c, k, i)
    BY <1>3 DEF Part
  <2> QED
    BY <1>3, <2>1 DEF Part, DmasInOrder
<1> QED
  BY <1>1, <1>3, <1>4, <1>5 DEF Part, CodeOK

(* Every DMA keeps its connection, and the chain of a connection holds     *)
(* DMAs of the connection.  The passes rewrite the other operands.         *)
DmasKept ==
    \A i \in DOMAIN dmaOps : /\ {"conn", "bd"} \subseteq DOMAIN dmaOps[i]
                             /\ ConnOf(i) \in Connection
ChainsKept == chain \in [Connection -> Seq(DOMAIN dmaOps)]
ChainsOwn == \A c \in Connection : \A k \in DOMAIN chain[c] : ConnOf(chain[c][k]) = c

ChainInv == DmasKept /\ ChainsKept /\ ChainsOwn /\ OpenBdIdsDisjoint

(* Linking BDs changes neither the connection nor the BD id of a DMA.      *)
LEMMA LinkingKeepsDmas ==
    ASSUME DmasKept, NEW broken, NEW ops, ops = LinkedOps(broken)
    PROVE  /\ DOMAIN ops = DOMAIN dmaOps
           /\ \A i \in DOMAIN dmaOps :
                /\ {"conn", "bd"} \subseteq DOMAIN ops[i]
                /\ ops[i].conn = dmaOps[i].conn
                /\ ops[i].bd = dmaOps[i].bd
<1>1. DOMAIN ops = DOMAIN dmaOps
  BY DEF LinkedOps
<1>2. ASSUME NEW i \in DOMAIN dmaOps
      PROVE  /\ {"conn", "bd"} \subseteq DOMAIN ops[i]
             /\ ops[i].conn = dmaOps[i].conn
             /\ ops[i].bd = dmaOps[i].bd
  <2>1. {"conn", "bd"} \subseteq DOMAIN dmaOps[i]
    BY DEF DmasKept
  <2>2. \/ ops[i] = dmaOps[i]
        \/ \E a : ops[i] = [dmaOps[i] EXCEPT !.startBd = a]
        \/ \E a, b : ops[i] = [dmaOps[i] EXCEPT !.startBd = a, !.nextBd = b,
                                                !.token = FALSE]
    BY Zenon DEF LinkedOps
  <2>3. CASE ops[i] = dmaOps[i]
    BY <2>1, <2>3
  <2>4. CASE \E a : ops[i] = [dmaOps[i] EXCEPT !.startBd = a]
    BY <2>1, <2>4
  <2>5. CASE \E a, b : ops[i] = [dmaOps[i] EXCEPT !.startBd = a, !.nextBd = b,
                                                  !.token = FALSE]
    BY <2>1, <2>5
  <2> QED
    BY <2>2, <2>3, <2>4, <2>5
<1> QED
  BY <1>1, <1>2

(* Whatever else a step does, the invariant survives if no DMA changes its *)
(* connection or id and chains only lose members.                          *)
LEMMA ChainsMayShrink ==
    ASSUME ChainInv,
           DOMAIN dmaOps' = DOMAIN dmaOps,
           \A i \in DOMAIN dmaOps : /\ {"conn", "bd"} \subseteq DOMAIN dmaOps'[i]
                                    /\ dmaOps'[i].conn = dmaOps[i].conn
                                    /\ dmaOps'[i].bd = dmaOps[i].bd,
           \/ chain' = chain
           \/ chain' = [c \in Connection |-> <<>>]
    PROVE  ChainInv'
<1>1. DmasKept'
  BY DEF ChainInv, DmasKept, ConnOf
<1>2. ChainsKept'
  <2>1. CASE chain' = chain
    BY <2>1 DEF ChainInv, ChainsKept
  <2>2. CASE chain' = [c \in Connection |-> <<>>]
    BY <2>2, EmptySeq DEF ChainsKept
  <2> QED
    BY <2>1, <2>2
<1>3. OpenBdIdsDisjoint'
  <2> SUFFICES ASSUME NEW c \in Connection, NEW d \in Connection,
                      NEW k \in DOMAIN chain'[c], NEW m \in DOMAIN chain'[d],
                      TileOf[c] = TileOf[d],
                      dmaOps'[chain'[c][k]].bd = dmaOps'[chain'[d][m]].bd
               PROVE  c = d /\ k = m
    BY DEF OpenBdIdsDisjoint, BdOf
  <2>1. chain' = chain
    OBVIOUS
  <2>2. chain[c][k] \in DOMAIN dmaOps /\ chain[d][m] \in DOMAIN dmaOps
    BY <2>1 DEF ChainInv, ChainsKept
  <2>3. BdOf(chain[c][k]) = BdOf(chain[d][m])
    BY <2>1, <2>2 DEF BdOf
  <2> QED
    BY <2>1, <2>3 DEF ChainInv, OpenBdIdsDisjoint
<1>4. ChainsOwn'
  <2> SUFFICES ASSUME NEW c \in Connection, NEW k \in DOMAIN chain'[c]
               PROVE  dmaOps'[chain'[c][k]].conn = c
    BY DEF ChainsOwn, ConnOf
  <2>1. chain' = chain
    OBVIOUS
  <2>2. chain[c][k] \in DOMAIN dmaOps /\ ConnOf(chain[c][k]) = c
    BY <2>1 DEF ChainInv, ChainsKept, ChainsOwn
  <2> QED
    BY <2>1, <2>2 DEF ConnOf
<1> QED
  BY <1>1, <1>2, <1>3, <1>4 DEF ChainInv

(* The DMA that the walk visits joins the chain of its connection.  Any    *)
(* chain with its id is the only one, so breaking the one found suffices.  *)
LEMMA VisitKeepsDisjoint == ASSUME ChainInv, VisitDma PROVE ChainInv'
<1>0. PICK i \in DOMAIN dmaOps : \E dup \in DuplicateBreaks(i) :
        /\ dmaOps' = LinkedOps(chainsToBreak \cup dup)
        /\ chain' = [c \in Connection |->
             (IF c \in chainsToBreak \cup dup THEN <<>> ELSE chain[c])
             \o (IF c = ConnOf(i) THEN <<i>> ELSE <<>>)]
  BY Zenon DEF VisitDma
<1>1. PICK dup \in DuplicateBreaks(i) :
        /\ dmaOps' = LinkedOps(chainsToBreak \cup dup)
        /\ chain' = [c \in Connection |->
             (IF c \in chainsToBreak \cup dup THEN <<>> ELSE chain[c])
             \o (IF c = ConnOf(i) THEN <<i>> ELSE <<>>)]
  BY <1>0, Zenon
<1> DEFINE broken == chainsToBreak \cup dup
           kept(c) == IF c \in broken THEN <<>> ELSE chain[c]
           new(c) == IF c = ConnOf(i) THEN <<i>> ELSE <<>>
<1>2. /\ DOMAIN dmaOps' = DOMAIN dmaOps
      /\ \A j \in DOMAIN dmaOps : /\ {"conn", "bd"} \subseteq DOMAIN dmaOps'[j]
                                  /\ dmaOps'[j].conn = dmaOps[j].conn
                                  /\ dmaOps'[j].bd = dmaOps[j].bd
  BY <1>1, LinkingKeepsDmas DEF ChainInv
<1>3. DmasKept'
  BY <1>2 DEF ChainInv, DmasKept, ConnOf
<1>4. \A c \in Connection : /\ kept(c) \in Seq(DOMAIN dmaOps)
                            /\ new(c) \in Seq(DOMAIN dmaOps)
                            /\ chain'[c] = kept(c) \o new(c)
  <2> TAKE c \in Connection
  <2>1. chain[c] \in Seq(DOMAIN dmaOps)
    BY DEF ChainInv, ChainsKept
  <2>2. kept(c) \in Seq(DOMAIN dmaOps)
    BY <2>1, EmptySeq
  <2>3. new(c) \in Seq(DOMAIN dmaOps)
    <3>1. <<i>> \in Seq(DOMAIN dmaOps)
      BY <1>0
    <3> QED
      BY <3>1, EmptySeq
  <2>4. chain'[c] = kept(c) \o new(c)
    BY <1>1
  <2> QED
    BY <2>2, <2>3, <2>4
<1>5. ChainsKept'
  <2>1. ASSUME NEW c \in Connection PROVE chain'[c] \in Seq(DOMAIN dmaOps)
    <3> HIDE DEF kept, new
    <3> QED
      BY <1>4, ConcatProperties
  <2>2. chain' \in [Connection -> Seq(DOMAIN dmaOps)]
    BY <1>1, <2>1
  <2> QED
    BY <1>2, <2>2 DEF ChainsKept
<1>6. ASSUME NEW c \in Connection, NEW k \in DOMAIN chain'[c]
      PROVE  /\ chain'[c][k] \in DOMAIN dmaOps
             /\ \/ c \notin broken /\ k \in DOMAIN chain[c] /\ chain'[c][k] = chain[c][k]
                \/ c = ConnOf(i) /\ k = Len(kept(c)) + 1 /\ chain'[c][k] = i
  <2> DEFINE s == kept(c)
             t == new(c)
  <2>1. s \in Seq(DOMAIN dmaOps) /\ t \in Seq(DOMAIN dmaOps) /\ chain'[c] = s \o t
    BY <1>4
  <2>2. /\ DOMAIN s = 1 .. Len(s) /\ Len(s) \in Nat
        /\ s = <<>> \/ (c \notin broken /\ s = chain[c])
        /\ \/ Len(t) = 0
           \/ c = ConnOf(i) /\ t = <<i>> /\ Len(t) = 1
    BY <2>1
  <2> HIDE DEF s, t
  <2>3. /\ k \in 1 .. Len(s) + Len(t)
        /\ (s \o t)[k] = IF k <= Len(s) THEN s[k] ELSE t[k - Len(s)]
    BY <2>1, ConcatProperties, LenProperties
  <2>4. CASE k <= Len(s)
    <3>1. k \in DOMAIN s /\ chain'[c][k] = s[k]
      BY <2>1, <2>2, <2>3, <2>4
    <3>2. s # <<>>
      BY <3>1, EmptySeq
    <3> QED
      BY <2>1, <2>2, <3>1, <3>2
  <2>5. CASE k > Len(s)
    <3>1. Len(s) \in Nat /\ k \in 1 .. Len(s) + Len(t) /\ k > Len(s)
      BY <2>2, <2>3, <2>5
    <3>2. Len(t) # 0
      BY <3>1
    <3>3. c = ConnOf(i) /\ t = <<i>> /\ Len(t) = 1
      BY <2>2, <3>2, Zenon
    <3>4. k = Len(s) + 1
      BY <3>1, <3>3
    <3>5. k - Len(s) = 1 /\ ~(k <= Len(s))
      BY <3>1, <3>4
    <3>6. chain'[c][k] = t[1]
      BY <2>1, <2>3, <3>5
    <3>7. chain'[c][k] = i
      BY <3>3, <3>6
    <3> QED
      BY <1>0, <3>3, <3>4, <3>7 DEF s
  <2> QED
    BY <2>2, <2>3, <2>4, <2>5
(* An old member with the new DMA's id would be in a chain that breaks.    *)
<1>7. ASSUME NEW c \in Connection, NEW k \in DOMAIN chain[c], c \notin broken,
             TileOf[c] = TileOf[ConnOf(i)]
      PROVE  BdOf(chain[c][k]) # BdOf(i)
  <2>0. SUFFICES ASSUME BdOf(chain[c][k]) = BdOf(i) PROVE FALSE
    OBVIOUS
  <2>1. c \in WithDuplicate(i)
    <3>1. chain[c] \in Seq(DOMAIN dmaOps) /\ chain[c] # <<>>
      BY DEF ChainInv, ChainsKept
    <3>2. chain[c][k] \in ToSet(chain[c])
      BY <3>1 DEF ToSet
    <3> QED
      BY <1>7, <2>0, <3>1, <3>2 DEF WithDuplicate, OpenChains, ChainBdIds
  <2>2. PICK d \in WithDuplicate(i) : dup = {d, ConnOf(i)}
    BY <2>1 DEF DuplicateBreaks
  <2>3. PICK m \in DOMAIN chain[d] : BdOf(chain[d][m]) = BdOf(i)
    BY <2>2 DEF WithDuplicate, OpenChains, ChainBdIds, ToSet, ChainInv, ChainsKept
  <2>4. c = d
    BY <1>7, <2>0, <2>3 DEF ChainInv, OpenBdIdsDisjoint, WithDuplicate, OpenChains
  <2> QED
    BY <1>7, <2>2, <2>4
<1>8. OpenBdIdsDisjoint'
  <2> SUFFICES ASSUME NEW c \in Connection, NEW d \in Connection,
                      NEW k \in DOMAIN chain'[c], NEW m \in DOMAIN chain'[d],
                      TileOf[c] = TileOf[d],
                      dmaOps'[chain'[c][k]].bd = dmaOps'[chain'[d][m]].bd
               PROVE  c = d /\ k = m
    BY DEF OpenBdIdsDisjoint, BdOf
  <2>1. BdOf(chain'[c][k]) = BdOf(chain'[d][m])
    BY <1>2, <1>6 DEF BdOf
  <2>2. CASE /\ c \notin broken /\ k \in DOMAIN chain[c] /\ chain'[c][k] = chain[c][k]
             /\ d \notin broken /\ m \in DOMAIN chain[d] /\ chain'[d][m] = chain[d][m]
    BY <2>1, <2>2 DEF ChainInv, OpenBdIdsDisjoint
  <2>3. CASE /\ c \notin broken /\ k \in DOMAIN chain[c] /\ chain'[c][k] = chain[c][k]
             /\ d = ConnOf(i) /\ chain'[d][m] = i
    BY <2>1, <2>3, <1>7
  <2>4. CASE /\ c = ConnOf(i) /\ chain'[c][k] = i
             /\ d \notin broken /\ m \in DOMAIN chain[d] /\ chain'[d][m] = chain[d][m]
    BY <2>1, <2>4, <1>7
  <2>5. CASE /\ c = ConnOf(i) /\ k = Len(kept(c)) + 1
             /\ d = ConnOf(i) /\ m = Len(kept(d)) + 1
    BY <2>5
  <2> QED
    BY <1>6, <2>2, <2>3, <2>4, <2>5
<1>9. ChainsOwn'
  <2> SUFFICES ASSUME NEW c \in Connection, NEW k \in DOMAIN chain'[c]
               PROVE  dmaOps'[chain'[c][k]].conn = c
    BY DEF ChainsOwn, ConnOf
  <2>1. chain'[c][k] \in DOMAIN dmaOps /\ dmaOps[chain'[c][k]].conn = c
    BY <1>6 DEF ChainInv, ChainsOwn, ConnOf
  <2> QED
    BY <1>2, <2>1
<1> QED
  BY <1>3, <1>5, <1>8, <1>9 DEF ChainInv

(* Every reachable state of the pipeline satisfies the invariant.          *)
THEOREM ChainInvariant == Spec => []ChainInv
<1>1. Init => ChainInv
  <2> SUFFICES ASSUME Init PROVE ChainInv
    OBVIOUS
  <2>1. chain = [c \in Connection |-> <<>>]
    BY DEF Init, ChainInit
  <2>2. DmasKept
    <3>1. source.ops \in Seq([conn : Connection, bd : BdId, repeat : Nat \ {0}])
      BY ProgramsAssumption DEF Init
    <3>2. \A i \in DOMAIN source.ops : source.ops[i].conn \in Connection
      <4>1. PICK ops, R : ops = source.ops /\ R = [conn : Connection, bd : BdId, repeat : Nat \ {0}]
        OBVIOUS
      <4>2. ops \in [1 .. Len(ops) -> R] /\ DOMAIN ops = 1 .. Len(ops)
        BY <3>1, <4>1, LenProperties
      <4>3. \A i \in DOMAIN ops : ops[i] \in R
        BY <4>2
      <4> QED
        BY <4>1, <4>3
    <3> QED
      BY <3>2 DEF Init, DmasKept, NewDma, ConnOf
  <2> QED
    BY <2>1, <2>2 DEF ChainInv, ChainsKept, ChainsOwn, OpenBdIdsDisjoint
<1>2. ChainInv /\ [Next]_vars => ChainInv'
  <2> SUFFICES ASSUME ChainInv, [Next]_vars PROVE ChainInv'
    OBVIOUS
  <2>1. CASE dmaOps' = dmaOps /\ chain' = chain
    BY <2>1, ChainsMayShrink DEF ChainInv, DmasKept
  <2>2. CASE VisitDma
    BY <2>2, VisitKeepsDisjoint
  <2>3. CASE FinishChains
    <3>1. dmaOps' = LinkedOps(OpenChains) /\ chain' = [c \in Connection |-> <<>>]
      BY <2>3 DEF FinishChains
    <3> QED
      BY <3>1, LinkingKeepsDmas, ChainsMayShrink DEF ChainInv
  <2>4. CASE FinishQueues /\ chain' = chain
    <3>1. dmaOps' = [i \in DOMAIN dmaOps |->
                      [dmaOps[i] EXCEPT !.token = @ /\ i \notin FoldedDmas]]
      BY <2>4 DEF FinishQueues
    <3>2. /\ DOMAIN dmaOps' = DOMAIN dmaOps
          /\ \A i \in DOMAIN dmaOps :
               /\ {"conn", "bd"} \subseteq DOMAIN dmaOps'[i]
               /\ dmaOps'[i].conn = dmaOps[i].conn
               /\ dmaOps'[i].bd = dmaOps[i].bd
      BY <3>1 DEF ChainInv, DmasKept
    <3> QED
      BY <2>4, <3>2, ChainsMayShrink
  <2>5. \/ dmaOps' = dmaOps /\ chain' = chain
        \/ VisitDma \/ FinishChains
        \/ FinishQueues /\ chain' = chain
    BY DEF Next, vars, codeVars, chainVars, Compile, Run, SkipFold, ChainNext,
           FoldNext, ControlCodeLowering, VisitRepeatDma, VisitBarrier,
           VisitOther, VisitWaitByQueue, VisitBarrierByQueue, VisitWaitByBatch,
           VisitBarrierByBatch, VisitDmaByFold, FinishBatches, Controller, Issue,
           ExecuteWriteBd, ExecutePush, ExecuteSync, DmaPort, StartTask, FinishBd
  <2> QED
    BY <2>1, <2>2, <2>3, <2>4, <2>5
<1> QED
  BY <1>1, <1>2, PTL DEF Spec

(* At most one open chain of a tile holds a given BD id, whatever the      *)
(* program, the placement of its connections and the number of BD ids.     *)
THEOREM OneChainPerBdId == Spec => []OpenBdIdsDisjoint
<1>1. ChainInv => OpenBdIdsDisjoint
  BY DEF ChainInv
<1> QED
  BY <1>1, ChainInvariant, PTL

-----------------------------------------------------------------------------
(* The DMAs of the program that is compiled, with their operands.          *)
NumDmas == Len(source.ops)
DmaRec == [conn : Connection, bd : BdId, repeat : Nat \ {0}, token : BOOLEAN,
           nextBd : BdId \cup {NoBd}, startBd : BdId \cup {NoBd}]
TypedDmas(ops, n) == DOMAIN ops = 1 .. n /\ \A i \in 1 .. n : ops[i] \in DmaRec
DmasTyped == NumDmas \in Nat /\ TypedDmas(dmaOps, NumDmas)
Tokened(ops, n) == {i \in 1 .. n : ops[i].token}

(* What linking the chains in `broken' does to a DMA: the inner ones get   *)
(* their next BD and lose their token, the others keep theirs.             *)
LinkedAs(new, old, inner) ==
    /\ new \in DmaRec
    /\ new.conn = old.conn /\ new.bd = old.bd /\ new.repeat = old.repeat
    /\ IF inner THEN new.token = FALSE /\ new.nextBd # NoBd
       ELSE new.token = old.token /\ new.nextBd = old.nextBd

(* A chain read from its other end.                                        *)
LEMMA ReversedIs ==
    ASSUME NEW S, NEW s \in Seq(S)
    PROVE  /\ DOMAIN Reverse(s) = 1 .. Len(s) /\ Len(Reverse(s)) = Len(s) /\ Len(s) \in Nat
           /\ \A k \in 1 .. Len(s) : Reverse(s)[k] = s[Len(s) + 1 - k]
<1>1. Len(s) \in Nat
  BY LenProperties
<1>2. Reverse(s) = [k \in 1 .. Len(s) |-> s[(Len(s) - k) + 1]]
  BY DEF Reverse
<1>3. \A k \in 1 .. Len(s) : (Len(s) - k) + 1 = Len(s) + 1 - k
  BY <1>1
<1>4. Reverse(s) \in [1 .. Len(s) -> S]
  <2>1. \A k \in 1 .. Len(s) : (Len(s) - k) + 1 \in 1 .. Len(s)
    BY <1>1
  <2>2. \A k \in 1 .. Len(s) : s[k] \in S
    BY LenProperties
  <2>3. \A k \in 1 .. Len(s) : s[(Len(s) - k) + 1] \in S
    BY <2>1, <2>2
  <2> QED
    BY <1>2, <2>3
<1>5. Len(Reverse(s)) = Len(s)
  BY <1>1, <1>4, FunIsSeq
<1> QED
  BY <1>1, <1>2, <1>3, <1>5

(* Linking does to every DMA what LinkedAs says.                           *)
LEMMA LinkedFacts ==
    ASSUME ChainInv, DmasTyped, NEW broken, NEW ops, ops = LinkedOps(broken),
           NEW i \in 1 .. NumDmas
    PROVE  LinkedAs(ops[i], dmaOps[i], i \in Inner(broken))
<1>1. PICK c \in Connection : c = ConnOf(i) /\ dmaOps[i] \in DmaRec
  BY DEF DmasTyped, TypedDmas, DmaRec, ConnOf
<1>2. PICK q, L : q = chain[c] /\ L = Len(q)
  OBVIOUS
<1>3. q \in Seq(DOMAIN dmaOps) /\ DOMAIN dmaOps = 1 .. NumDmas /\ DOMAIN q = 1 .. L /\ L \in Nat
  BY <1>2, LenProperties DEF ChainInv, ChainsKept, DmasTyped, TypedDmas
<1>4. PICK s : s = Reverse(q)
  OBVIOUS
<1>5. /\ DOMAIN s = 1 .. L /\ Len(s) = L
      /\ \A k \in 1 .. L : s[k] = q[L + 1 - k] /\ L + 1 - k \in 1 .. L
  <2>1. \A k \in 1 .. L : L + 1 - k \in 1 .. L
    BY <1>3
  <2> QED
    BY <1>2, <1>3, <1>4, <2>1, ReversedIs
<1>6. \A k, m \in 1 .. L : q[k] = q[m] => k = m
  BY <1>2, <1>3 DEF ChainInv, OpenBdIdsDisjoint
<1>7. i \in DOMAIN dmaOps
  BY <1>3
<1>8. ops[i] = IF ~(c \in broken /\ i \in ToSet(s) /\ Links(s)) THEN dmaOps[i]
               ELSE LET k == CHOOSE m \in DOMAIN s : s[m] = i
                    IN IF k = Len(s)
                       THEN [dmaOps[i] EXCEPT !.startBd = BdOf(s[1])]
                       ELSE [dmaOps[i] EXCEPT !.startBd = BdOf(s[1]),
                                              !.nextBd  = BdOf(s[k + 1]),
                                              !.token   = FALSE]
  <2>1. c = ConnOf(i) /\ s = Reverse(chain[ConnOf(i)])
    BY <1>1, <1>2, <1>4
  <2>2. ops[i] = LET c1 == ConnOf(i)
                     s1 == Reverse(chain[c1])
                 IN IF ~(c1 \in broken /\ i \in ToSet(s1) /\ Links(s1)) THEN dmaOps[i]
                    ELSE LET k == CHOOSE m \in DOMAIN s1 : s1[m] = i
                         IN IF k = Len(s1)
                            THEN [dmaOps[i] EXCEPT !.startBd = BdOf(s1[1])]
                            ELSE [dmaOps[i] EXCEPT !.startBd = BdOf(s1[1]),
                                                   !.nextBd  = BdOf(s1[k + 1]),
                                                   !.token   = FALSE]
    BY <1>7 DEF LinkedOps
  <2> QED
    BY <2>1, <2>2
<1>13. \A k \in 1 .. L : s[k] \in 1 .. NumDmas
  <2>1. \A k \in 1 .. L : q[k] \in 1 .. NumDmas
    <3>1. q \in Seq(1 .. NumDmas) /\ Len(q) = L
      BY <1>2, <1>3
    <3> QED
      BY <3>1, LenProperties
  <2> QED
    BY <1>5, <2>1
<1>9. i \in Inner(broken) <=> c \in broken /\ q # <<>> /\ i \in ToSet(Tail(q))
  <2>1. ASSUME NEW d \in broken \cap OpenChains, i \in ToSet(Tail(chain[d])) PROVE d = c
    <3>1. PICK u : u = chain[d] /\ d \in Connection
      BY DEF OpenChains
    <3>2. u \in Seq(DOMAIN dmaOps) /\ u # <<>> /\ IsSeq(u)
      BY <3>1, SeqIsSeq DEF ChainInv, ChainsKept, OpenChains
    <3>3. /\ IsSeq(Tail(u)) /\ Len(Tail(u)) = Len(u) - 1 /\ Len(u) \in Nat \ {0}
          /\ \A k \in 1 .. Len(u) - 1 : Tail(u)[k] = u[k + 1]
      BY <3>2, TailIs, LenIs
    <3>4. DOMAIN Tail(u) = 1 .. Len(u) - 1
      BY <3>3, LenIs
    <3>5. PICK k \in 1 .. Len(u) - 1 : Tail(u)[k] = i
      BY <2>1, <3>1, <3>4 DEF ToSet
    <3>6. k + 1 \in DOMAIN u /\ u[k + 1] = i
      BY <3>2, <3>3, <3>5, LenIs
    <3> QED
      BY <1>1, <3>1, <3>6 DEF ChainInv, ChainsOwn
  <2>2. ASSUME i \in Inner(broken) PROVE c \in broken /\ q # <<>> /\ i \in ToSet(Tail(q))
    <3>1. PICK d \in broken \cap OpenChains : i \in ToSet(Tail(chain[d]))
      BY <2>2 DEF Inner
    <3> QED
      BY <1>2, <2>1, <3>1 DEF OpenChains
  <2>3. ASSUME c \in broken, q # <<>>, i \in ToSet(Tail(q)) PROVE i \in Inner(broken)
    <3>1. c \in broken \cap OpenChains
      BY <1>2, <2>3 DEF OpenChains
    <3> QED
      BY <1>2, <2>3, <3>1 DEF Inner
  <2> QED
    BY <2>2, <2>3
<1>10. q # <<>> => /\ DOMAIN Tail(q) = 1 .. L - 1 /\ L >= 1
                   /\ \A k \in 1 .. L - 1 : Tail(q)[k] = q[k + 1] /\ k + 1 \in 1 .. L
  <2> SUFFICES ASSUME q # <<>>
               PROVE /\ DOMAIN Tail(q) = 1 .. L - 1 /\ L >= 1
                     /\ \A k \in 1 .. L - 1 : Tail(q)[k] = q[k + 1] /\ k + 1 \in 1 .. L
    OBVIOUS
  <2>1. IsSeq(q)
    BY <1>3, SeqIsSeq
  <2>2. /\ IsSeq(Tail(q)) /\ Len(Tail(q)) = L - 1 /\ L \in Nat \ {0}
        /\ \A k \in 1 .. L - 1 : Tail(q)[k] = q[k + 1]
    BY <1>2, <2>1, TailIs, LenIs
  <2>3. DOMAIN Tail(q) = 1 .. L - 1
    BY <2>2, LenIs
  <2> QED
    BY <2>2, <2>3
<1>11. CASE ~(c \in broken /\ i \in ToSet(s) /\ Links(s))
  <2>1. i \notin Inner(broken)
    <3>1. SUFFICES ASSUME i \in Inner(broken) PROVE FALSE
      OBVIOUS
    <3>2. c \in broken /\ q # <<>> /\ i \in ToSet(Tail(q))
      BY <1>9, <3>1
    <3>3. PICK k \in 1 .. L - 1 : q[k + 1] = i
      BY <1>10, <3>2 DEF ToSet
    <3>4. L >= 2 /\ L - k \in 1 .. L /\ L + 1 - (L - k) = k + 1
      BY <1>3, <3>3
    <3>5. s[L - k] = i
      BY <1>5, <3>3, <3>4
    <3>6. i \in ToSet(s) /\ Links(s)
      BY <1>5, <3>4, <3>5 DEF ToSet, Links
    <3> QED
      BY <1>11, <3>2, <3>6
  <2> QED
    BY <1>1, <1>8, <1>11, <2>1 DEF LinkedAs
<1>12. CASE c \in broken /\ i \in ToSet(s) /\ Links(s)
  <2>1. c \in broken /\ i \in ToSet(s) /\ L >= 2
    BY <1>5, <1>12 DEF Links
  <2>2. \E m \in DOMAIN s : s[m] = i
    BY <2>1 DEF ToSet
  <2>3. PICK k : k = CHOOSE m \in DOMAIN s : s[m] = i
    OBVIOUS
  <2>4. k \in 1 .. L /\ s[k] = i
    BY <1>5, <2>2, <2>3
  <2>5. q[L + 1 - k] = i /\ L + 1 - k \in 1 .. L
    BY <1>5, <2>4
  <2>6. q # <<>>
    BY <1>2, <2>1, LenIs, SeqIsSeq
  <2>7. PICK b \in BdId : b = BdOf(s[1])
    <3>1. s[1] \in 1 .. NumDmas
      <4>1. 1 \in 1 .. L
        BY <1>3, <2>1
      <4> QED
        BY <1>13, <4>1
    <3> QED
      BY <3>1 DEF DmasTyped, TypedDmas, DmaRec, BdOf
  <2>8. CASE k = L
    <3>1. ops[i] = [dmaOps[i] EXCEPT !.startBd = b]
      BY <1>5, <1>8, <1>12, <2>3, <2>7, <2>8
    <3>2. i \notin Inner(broken)
      <4>1. SUFFICES ASSUME i \in ToSet(Tail(q)) PROVE FALSE
        BY <1>9
      <4>2. PICK m \in 1 .. L - 1 : q[m + 1] = i
        BY <1>10, <2>6, <4>1 DEF ToSet
      <4>3. m + 1 \in 1 .. L /\ 1 \in 1 .. L /\ L + 1 - k = 1
        BY <1>3, <2>1, <2>8
      <4> QED
        BY <1>6, <2>5, <4>2, <4>3
    <3>3. ops[i] = [conn |-> dmaOps[i].conn, bd |-> dmaOps[i].bd, repeat |-> dmaOps[i].repeat,
                    token |-> dmaOps[i].token, nextBd |-> dmaOps[i].nextBd, startBd |-> b]
      BY <1>1, <3>1 DEF DmaRec
    <3>4. b \in BdId \cup {NoBd}
      BY <2>7
    <3>5. ops[i] \in DmaRec
      BY <1>1, <3>3, <3>4 DEF DmaRec
    <3> QED
      BY <3>2, <3>3, <3>5 DEF LinkedAs
  <2>9. CASE k # L
    <3>1. k + 1 \in 1 .. L /\ L - k \in 1 .. L - 1 /\ (L - k) + 1 = L + 1 - k
      BY <1>3, <2>4, <2>9
    <3>2. PICK e \in BdId : e = BdOf(s[k + 1])
      <4>1. s[k + 1] \in 1 .. NumDmas
        BY <1>13, <3>1
      <4> QED
        BY <4>1 DEF DmasTyped, TypedDmas, DmaRec, BdOf
    <3>3. ops[i] = [dmaOps[i] EXCEPT !.startBd = b, !.nextBd = e, !.token = FALSE]
      BY <1>5, <1>8, <1>12, <2>3, <2>7, <2>9, <3>2
    <3>4. i \in Inner(broken)
      <4>1. Tail(q)[L - k] = i /\ L - k \in DOMAIN Tail(q)
        BY <1>10, <2>5, <2>6, <3>1
      <4>2. i \in ToSet(Tail(q))
        BY <4>1 DEF ToSet
      <4> QED
        BY <1>9, <2>1, <2>6, <4>2
    <3>5. ops[i] = [conn |-> dmaOps[i].conn, bd |-> dmaOps[i].bd, repeat |-> dmaOps[i].repeat,
                    token |-> FALSE, nextBd |-> e, startBd |-> b]
      BY <1>1, <3>3 DEF DmaRec
    <3>6. b \in BdId \cup {NoBd} /\ e \in BdId \cup {NoBd} /\ e # NoBd /\ FALSE \in BOOLEAN
      BY <2>7, <3>2, NoBdAssumption
    <3>7. ops[i] \in DmaRec
      BY <1>1, <3>5, <3>6 DEF DmaRec
    <3> QED
      BY <3>4, <3>5, <3>6, <3>7 DEF LinkedAs
  <2> QED
    BY <2>8, <2>9
<1> QED
  BY <1>11, <1>12

-----------------------------------------------------------------------------
(* The batch of waits: they are single waits behind the visited position,  *)
(* latest first; before it all waits are single.                           *)
BatchOK(c, p, ws, n) ==
    /\ p \in 0 .. Len(c) /\ Singles(c, p)
    /\ IsSeq(ws)
    /\ \A k \in 1 .. Len(ws) : \E i \in 1 .. n :
         ws[k] = {i} /\ \E q \in 1 .. Len(c) : q > p /\ c[q] = Wait({i})
    /\ \A k, l \in 1 .. Len(ws), q, r \in 1 .. Len(c) :
         k < l /\ c[q] = Wait(ws[k]) /\ c[r] = Wait(ws[l]) => r < q

(* The DMAs of the batch.                                                  *)
InBatch(ws) == UNION ToSet(ws)

(* Merging moves the waits of the batch to the latest one, and nothing else*)
(* to another place in the order.                                          *)
Delayed(m, c, ws, n) ==
    \E f \in [1 .. Len(m) -> 1 .. Len(c)] :
        /\ \A k, l \in 1 .. Len(m) : f[k] < f[l] => k < l
        /\ \A i \in 1 .. n, k \in 1 .. Len(m) :
             /\ AtDma(m, k, i) => AtDma(c, f[k], i)
             /\ AtWait(m, k, i) => \/ AtWait(c, f[k], i)
                                   \/ i \in InBatch(ws) /\ c[f[k]] = Wait(ws[1])

(* The code with the waits of the batch merged into the latest one.        *)
MergedAs(m, c, p, n) == /\ CodeOK(m, n) /\ Awaited(m, n) = Awaited(c, n)
                        /\ p <= Len(m) /\ \A k \in 1 .. p : m[k] = c[k]

MergedWaits(m, kept, ws, rest) ==
    m = [k \in DOMAIN kept |-> IF kept[k] = Wait(ws[1]) THEN Wait(ws[1] \cup rest)
                                ELSE kept[k]]

(* A wait for one DMA names it.                                             *)
LEMMA WaitOfOne ==
    ASSUME NEW c, NEW k, NEW i, c[k] = Wait({i})
    PROVE  AtWait(c, k, i)
  BY OpFacts DEF AtWait

(* Erasing the batch and putting its wait in keeps the code.               *)
LEMMA MergeTwo ==
    ASSUME NEW n \in Nat, NEW c, CodeOK(c, n), NEW p, NEW ws, BatchOK(c, p, ws, n), Len(ws) >= 2,
           NEW rest, rest = UNION ToSet(Tail(ws)),
           NEW kept, kept = EraseWaits(c, rest),
           NEW m, MergedWaits(m, kept, ws, rest)
    PROVE  MergedAs(m, c, p, n) /\ Delayed(m, c, ws, n)
<1>1. PICK L : L = Len(ws) /\ L \in Nat /\ L >= 2
  BY LenIs DEF BatchOK
<1>2. PICK N : N = Len(c) /\ N \in Nat /\ IsSeq(c)
  BY LenIs DEF CodeOK, IsCode
<1>3. /\ p \in 0 .. N /\ Singles(c, p)
      /\ \A k \in 1 .. L : \E i \in 1 .. n :
           ws[k] = {i} /\ \E q \in 1 .. N : q > p /\ c[q] = Wait({i})
      /\ \A k, l \in 1 .. L, q, r \in 1 .. N :
           k < l /\ c[q] = Wait(ws[k]) /\ c[r] = Wait(ws[l]) => r < q
  BY <1>1, <1>2 DEF BatchOK
<1>4. /\ DOMAIN Tail(ws) = 1 .. L - 1
      /\ \A k \in 1 .. L - 1 : Tail(ws)[k] = ws[k + 1]
  <2>1. IsSeq(ws) /\ ws # <<>>
    BY <1>1, EmptyIs DEF BatchOK
  <2>2. /\ IsSeq(Tail(ws)) /\ Len(Tail(ws)) = L - 1
        /\ \A k \in 1 .. L - 1 : Tail(ws)[k] = ws[k + 1]
    BY <1>1, <2>1, TailIs
  <2> QED
    BY <2>2, LenIs
<1>5. PICK a \in 1 .. n : ws[1] = {a} /\ \E q \in 1 .. N : q > p /\ c[q] = Wait({a})
  <2>1. 1 \in 1 .. L
    BY <1>1
  <2> QED
    BY <1>3, <2>1
<1>6. PICK qa \in 1 .. N : qa > p /\ c[qa] = Wait({a})
  BY <1>5
(* A DMA of the rest has its wait behind p, before that of a.              *)
<1>7. ASSUME NEW i \in rest
      PROVE  i \in 1 .. n /\ i # a /\ \E q \in 1 .. N : q > p /\ c[q] = Wait({i}) /\ q < qa
  <2>1. PICK k \in 1 .. L - 1 : i \in ws[k + 1]
    BY <1>4 DEF ToSet
  <2>2. k + 1 \in 1 .. L /\ 1 \in 1 .. L /\ 1 < k + 1
    BY <1>1
  <2>3. PICK j \in 1 .. n : ws[k + 1] = {j} /\ \E q \in 1 .. N : q > p /\ c[q] = Wait({j})
    BY <1>3, <2>2
  <2>4. i = j
    BY <2>1, <2>3
  <2>5. PICK q \in 1 .. N : q > p /\ c[q] = Wait({i})
    BY <2>3, <2>4
  <2>6. c[q] = Wait(ws[k + 1]) /\ c[qa] = Wait(ws[1])
    BY <1>5, <1>6, <2>3, <2>4, <2>5
  <2>7. q < qa
    BY <1>3, <2>2, <2>6
  <2>8. i # a
    <3>1. SUFFICES ASSUME i = a PROVE FALSE
      OBVIOUS
    <3>2. c[qa] = Wait(ws[k + 1])
      BY <1>6, <2>3, <2>4, <3>1
    <3>3. qa < qa
      BY <1>3, <2>2, <2>6, <3>2
    <3> QED
      BY <3>3
  <2> QED
    BY <2>4, <2>5, <2>7, <2>8
<1>8. WaitsOnce(c, n) /\ WaitsBehind(c, n)
  BY DEF CodeOK
<1>9. PICK f : Embeds(f, kept, c, N, rest)
  BY <1>2, EraseEmbeds
<1>10. PICK M : M = Len(kept) /\ M \in Nat /\ DOMAIN kept = 1 .. M
  BY <1>9, LenIs DEF Embeds
<1>11. /\ f \in [1 .. M -> 1 .. N]
       /\ \A k, l \in 1 .. M : k < l => f[k] < f[l]
       /\ \A k \in 1 .. M : kept[k] = c[f[k]] /\ ~IsGone(c[f[k]], rest)
       /\ \A j \in 1 .. N : ~IsGone(c[j], rest) => \E k \in 1 .. M : f[k] = j
  BY <1>9, <1>10 DEF Embeds
<1>12. \A k \in 1 .. M : f[k] \in 1 .. N
  BY <1>11
<1>13. \A k, l \in 1 .. M : f[k] < f[l] => k < l
  <2> SUFFICES ASSUME NEW k \in 1 .. M, NEW l \in 1 .. M, f[k] < f[l] PROVE k < l
    OBVIOUS
  <2>1. l < k => f[l] < f[k]
    BY <1>11
  <2>2. f[k] \in Int /\ f[l] \in Int /\ k \in Int /\ l \in Int
    BY <1>12
  <2> QED
    BY <2>1, <2>2
<1>14. CodeOK(kept, n)
  BY <1>2, <1>9, EraseKeepsCode
<1>15. Stays(c, p, rest)
  <2> SUFFICES ASSUME NEW k \in 1 .. p, IsGone(c[k], rest) PROVE FALSE
    BY DEF Stays
  <2>1. PICK i : c[k] = Wait({i})
    BY <1>3 DEF Singles, IsGone
  <2>2. i \in rest
    BY <2>1, OpFacts DEF IsGone
  <2>3. PICK q \in 1 .. N : q > p /\ c[q] = Wait({i}) /\ i \in 1 .. n
    BY <1>7, <2>2
  <2>4. AtWait(c, k, i) /\ AtWait(c, q, i)
    BY <2>1, <2>3, WaitOfOne
  <2>6. k \in 1 .. N /\ k <= p
    BY <1>2, <1>3
  <2>5. k = q
    BY <1>2, <1>8, <2>3, <2>4, <2>6 DEF WaitsOnce
  <2> QED
    BY <1>3, <2>3, <2>5, <2>6
<1>16. p <= M /\ \A k \in 1 .. p : f[k] = k /\ kept[k] = c[k]
  <2>1. p \in 0 .. Len(c) /\ Embeds(f, kept, c, Len(c), rest) /\ IsSeq(c)
    BY <1>2, <1>3, <1>9
  <2>2. p <= Len(kept) /\ \A k \in 1 .. p : f[k] = k /\ kept[k] = c[k]
    BY ONLY <1>15, <2>1, EraseFromPos
  <2> QED
    BY <1>10, <2>2
<1>17. PICK ka \in 1 .. M : f[ka] = qa
  <2>1. ~IsGone(c[qa], rest)
    <3>1. a \notin rest
      BY <1>7
    <3>2. PICK w : w = c[qa] /\ w = Wait({a})
      BY <1>6
    <3>3. w.ops = {a}
      BY <3>2, OpFacts
    <3>4. ~IsGone(w, rest)
      BY <3>1, <3>3 DEF IsGone
    <3> QED
      BY <3>2, <3>4
  <2> QED
    BY <1>11, <2>1
<1>18. kept[ka] = Wait({a}) /\ ka > p
  <2>1. kept[ka] = Wait({a})
    BY <1>6, <1>11, <1>17
  <2>2. CASE ka <= p
    <3>1. ka \in 1 .. p
      BY <1>3, <2>2
    <3> QED
      BY <1>6, <1>16, <1>17, <3>1
  <2> QED
    BY <1>3, <2>1, <2>2
<1>19. \A k \in 1 .. M : kept[k] = Wait({a}) <=> k = ka
  <2> SUFFICES ASSUME NEW k \in 1 .. M, kept[k] = Wait({a}) PROVE k = ka
    BY <1>18
  <2>1. AtWait(kept, k, a) /\ AtWait(kept, ka, a)
    BY <1>18, WaitOfOne
  <2> QED
    BY <1>10, <1>14, <2>1 DEF CodeOK, WaitsOnce
<1>20. /\ DOMAIN m = 1 .. M /\ m[ka] = Wait({a} \cup rest)
       /\ \A k \in 1 .. M : k # ka => m[k] = kept[k]
  <2>1. DOMAIN m = 1 .. M /\ DOMAIN kept = 1 .. M
    BY <1>10 DEF MergedWaits
  <2>2. \A k \in 1 .. M : m[k] = IF kept[k] = Wait({a}) THEN Wait({a} \cup rest) ELSE kept[k]
    <3>1. m = [k \in 1 .. M |-> IF kept[k] = Wait(ws[1]) THEN Wait(ws[1] \cup rest) ELSE kept[k]]
      BY <2>1 DEF MergedWaits
    <3>2. ws[1] = {a}
      BY <1>5
    <3> QED
      BY ONLY <3>1, <3>2
  <2>3. ka \in 1 .. M
    BY <1>17
  <2>4. m[ka] = Wait({a} \cup rest)
    BY ONLY <2>2, <2>3, <1>19
  <2>5. ASSUME NEW k \in 1 .. M, k # ka
        PROVE  m[k] = kept[k]
    BY ONLY <2>2, <2>5, <1>19
  <2> QED
    BY <2>1, <2>4, <2>5
<1>21. IsSeq(m) /\ Len(m) = M
  <2>1. PICK S : S = {m[k] : k \in 1 .. M}
    OBVIOUS
  <2>2. m \in [1 .. M -> S]
    <3>1. m = [k \in 1 .. M |-> m[k]]
      BY <1>10 DEF MergedWaits
    <3>2. \A k \in 1 .. M : m[k] \in S
      BY <2>1, Zenon
    <3> QED
      BY <3>1, <3>2
  <2> QED
    <3>1. m \in Seq(S) /\ Len(m) = M
      BY <1>10, <2>2, FunIsSeq
    <3> QED
      BY <3>1, SeqIsSeq
(* Where waits and DMAs are in the merged code.                            *)
<1>22. \A i \in 1 .. n, k \in 1 .. M : /\ AtDma(m, k, i) <=> AtDma(kept, k, i)
                                       /\ AtWait(m, k, i) <=> AtWait(kept, k, i) \/ (k = ka /\ i \in rest)
  <2> SUFFICES ASSUME NEW i \in 1 .. n, NEW k \in 1 .. M
               PROVE /\ AtDma(m, k, i) <=> AtDma(kept, k, i)
                     /\ AtWait(m, k, i) <=> AtWait(kept, k, i) \/ (k = ka /\ i \in rest)
    OBVIOUS
  <2>1. CASE k = ka
    <3>1. /\ Wait({a}) # Dma(i) /\ Wait({a} \cup rest) # Dma(i)
          /\ Wait({a}).kind = "wait" /\ Wait({a} \cup rest).kind = "wait"
          /\ Wait({a}).ops = {a} /\ Wait({a} \cup rest).ops = {a} \cup rest
      BY OpFacts
    <3> QED
      BY <1>18, <1>20, <2>1, <3>1 DEF AtDma, AtWait
  <2>2. CASE k # ka
    BY <1>20, <2>2 DEF AtDma, AtWait
  <2> QED
    BY <2>1, <2>2
<1>23. ASSUME NEW i \in rest, NEW k \in 1 .. M, AtWait(kept, k, i) PROVE FALSE
  <2>1. AtWait(c, f[k], i)
    BY <1>11, <1>23 DEF AtWait
  <2>2. PICK q \in 1 .. N : c[q] = Wait({i}) /\ i \in 1 .. n
    BY <1>7
  <2>3. AtWait(c, q, i)
    BY <2>2, WaitOfOne
  <2>4. f[k] = q
    BY <1>2, <1>8, <1>12, <2>1, <2>2, <2>3 DEF WaitsOnce
  <2>5. ~IsGone(Wait({i}), rest)
    BY <1>11, <2>2, <2>4
  <2> QED
    BY <2>5, OpFacts DEF IsGone
<1>24. IsCode(m, n)
  <2>1. ASSUME NEW k \in 1 .. M PROVE IsOp(m[k], n)
    <3>1. CASE k = ka
      <4>1. {a} \cup rest \in SUBSET (1 .. n) /\ {a} \cup rest # {}
        BY <1>7
      <4> QED
        BY <1>20, <3>1, <4>1 DEF IsOp
    <3>2. CASE k # ka
      BY <1>10, <1>14, <1>20, <3>2 DEF CodeOK, IsCode
    <3> QED
      BY <3>1, <3>2
  <2> QED
    BY <1>21, <2>1 DEF IsCode
<1>25. DmasInOrder(m, n)
  <2>1. DmasInOrder(kept, n)
    BY <1>14 DEF CodeOK
  <2>2. Len(m) = M /\ Len(kept) = M
    BY <1>10, <1>21
  <2>3. \A i \in 1 .. n : \E k \in 1 .. M : AtDma(m, k, i)
    BY <1>22, <2>1, <2>2 DEF DmasInOrder
  <2>4. ASSUME NEW i \in 1 .. n, NEW j \in 1 .. n, NEW k \in 1 .. M, NEW l \in 1 .. M,
               AtDma(m, k, i), AtDma(m, l, j)
        PROVE i < j <=> k < l
    <3>1. AtDma(kept, k, i) /\ AtDma(kept, l, j)
      BY <1>22, <2>4
    <3> QED
      BY <2>1, <2>2, <3>1 DEF DmasInOrder
  <2> QED
    BY <2>2, <2>3, <2>4 DEF DmasInOrder
<1>26. WaitsOnce(m, n)
  <2> SUFFICES ASSUME NEW i \in 1 .. n, NEW k \in 1 .. M, NEW l \in 1 .. M,
                      AtWait(m, k, i), AtWait(m, l, i)
               PROVE k = l
    BY <1>21 DEF WaitsOnce
  <2>1. CASE i \in rest
    <3>1. ~AtWait(kept, k, i) /\ ~AtWait(kept, l, i)
      BY <1>23, <2>1
    <3> QED
      BY <1>22, <3>1
  <2>2. CASE i \notin rest
    <3>1. AtWait(kept, k, i) /\ AtWait(kept, l, i)
      BY <1>22, <2>2
    <3> QED
      BY <1>10, <1>14, <3>1 DEF CodeOK, WaitsOnce
  <2> QED
    BY <2>1, <2>2
<1>27. WaitsBehind(m, n)
  <2> SUFFICES ASSUME NEW i \in 1 .. n, NEW k \in 1 .. M, NEW l \in 1 .. M,
                      AtDma(m, k, i), AtWait(m, l, i)
               PROVE k < l
    BY <1>21 DEF WaitsBehind
  <2>1. AtDma(kept, k, i)
    BY <1>22
  <2>2. CASE i \in rest
    <3>1. l = ka
      BY <1>22, <1>23, <2>2
    <3>2. PICK q \in 1 .. N : c[q] = Wait({i}) /\ q < qa
      BY <1>7, <2>2
    <3>3. AtDma(c, f[k], i) /\ AtWait(c, q, i)
      BY <1>11, <2>1, <3>2, WaitOfOne DEF AtDma
    <3>4. f[k] < q
      BY <1>2, <1>8, <1>12, <3>3 DEF WaitsBehind
    <3>5. f[k] \in 1 .. N
      BY <1>12
    <3>6. f[k] < f[ka]
      BY <1>17, <3>2, <3>4, <3>5
    <3> QED
      BY <1>13, <3>1, <3>6
  <2>3. CASE i \notin rest
    <3>1. AtWait(kept, l, i)
      BY <1>22, <2>3
    <3> QED
      BY <1>10, <1>14, <2>1, <3>1 DEF CodeOK, WaitsBehind
  <2> QED
    BY <2>2, <2>3
<1>28. Awaited(m, n) = Awaited(c, n)
  <2>1. ASSUME NEW i \in 1 .. n, NEW k \in 1 .. M, AtWait(m, k, i) PROVE i \in Awaited(c, n)
    <3>1. CASE i \in rest
      <4>1. PICK q \in 1 .. N : c[q] = Wait({i})
        BY <1>7, <3>1
      <4> QED
        BY <1>2, <4>1, WaitOfOne DEF Awaited
    <3>2. CASE i \notin rest
      <4>1. AtWait(kept, k, i)
        BY <1>22, <2>1, <3>2
      <4>2. AtWait(c, f[k], i)
        BY <1>11, <4>1 DEF AtWait
      <4> QED
        BY <1>2, <1>12, <4>2 DEF Awaited
    <3> QED
      BY <3>1, <3>2
  <2>2. ASSUME NEW i \in 1 .. n, NEW q \in 1 .. N, AtWait(c, q, i) PROVE i \in Awaited(m, n)
    <3>1. CASE IsGone(c[q], rest)
      <4>1. i \in rest
        BY <2>2, <3>1 DEF IsGone, AtWait
      <4>2. AtWait(m, ka, i)
        BY <1>22, <4>1
      <4> QED
        BY <1>21, <4>2 DEF Awaited
    <3>2. CASE ~IsGone(c[q], rest)
      <4>1. PICK k \in 1 .. M : f[k] = q
        BY <1>11, <3>2
      <4>2. AtWait(kept, k, i)
        BY <1>11, <2>2, <4>1 DEF AtWait
      <4>3. AtWait(m, k, i)
        BY <1>22, <4>2
      <4> QED
        BY <1>21, <4>3 DEF Awaited
    <3> QED
      BY <3>1, <3>2
  <2> QED
    BY <1>2, <1>21, <2>1, <2>2 DEF Awaited
<1>29. \A k \in 1 .. p : m[k] = c[k]
  <2> SUFFICES ASSUME NEW k \in 1 .. p PROVE m[k] = c[k]
    OBVIOUS
  <2>1. k \in 1 .. M /\ k # ka
    <3>1. k <= p /\ p \in Nat /\ p <= M /\ k \in Nat /\ k >= 1
      BY <1>3, <1>16
    <3> QED
      BY <1>10, <1>18, <3>1
  <2> QED
    BY <1>16, <1>20, <2>1
<1>30. Delayed(m, c, ws, n)
  <2>1. ASSUME NEW i \in 1 .. n, NEW k \in 1 .. M
        PROVE  /\ AtDma(m, k, i) => AtDma(c, f[k], i)
               /\ AtWait(m, k, i) => \/ AtWait(c, f[k], i)
                                     \/ i \in InBatch(ws) /\ c[f[k]] = Wait(ws[1])
    <3>1. kept[k] = c[f[k]]
      BY <1>11
    <3>2. AtDma(kept, k, i) => AtDma(c, f[k], i)
      BY <3>1 DEF AtDma
    <3>3. AtWait(kept, k, i) => AtWait(c, f[k], i)
      BY <3>1 DEF AtWait
    <3>4. ASSUME k = ka, i \in rest PROVE i \in InBatch(ws) /\ c[f[k]] = Wait(ws[1])
      <4>1. PICK x \in 1 .. L - 1 : i \in ws[x + 1]
        BY <1>4, <3>4 DEF ToSet
      <4>2. x + 1 \in DOMAIN ws
        BY <1>1, <4>1, LenIs DEF BatchOK
      <4>3. ws[x + 1] \in ToSet(ws)
        BY <4>2 DEF ToSet
      <4>4. i \in InBatch(ws)
        BY <4>1, <4>3 DEF InBatch
      <4>5. c[f[k]] = Wait(ws[1])
        BY <1>5, <1>6, <1>17, <3>4
      <4> QED
        BY <4>4, <4>5
    <3> QED
      BY <1>22, <3>2, <3>3, <3>4
  <2>2. Len(m) = M /\ Len(c) = N
    BY <1>2, <1>21
  <2>3. \A i \in 1 .. n, k \in 1 .. Len(m) :
             /\ AtDma(m, k, i) => AtDma(c, f[k], i)
             /\ AtWait(m, k, i) => \/ AtWait(c, f[k], i)
                                   \/ i \in InBatch(ws) /\ c[f[k]] = Wait(ws[1])
    BY <2>1, <2>2
  <2>4. f \in [1 .. Len(m) -> 1 .. Len(c)] /\ \A k, l \in 1 .. Len(m) : f[k] < f[l] => k < l
    BY <1>11, <1>13, <2>2
  <2> QED
    BY ONLY <2>3, <2>4 DEF Delayed
<1> QED
  BY <1>16, <1>21, <1>24, <1>25, <1>26, <1>27, <1>28, <1>29, <1>30 DEF MergedAs, CodeOK

(* Merging a batch of waits keeps the code and what it awaits.             *)
LEMMA MergeKeepsCode ==
    ASSUME NEW n \in Nat, CodeOK(code, n), BatchOK(code, pos, waitOps, n)
    PROVE  MergedAs(MergedCode, code, pos, n) /\ Delayed(MergedCode, code, waitOps, n)
<1>1. CASE Len(waitOps) < 2
  <2>1. MergedCode = code
    BY <1>1 DEF MergedCode
  <2>2. PICK N, f : N = Len(code) /\ f = [k \in 1 .. N |-> k]
    OBVIOUS
  <2>3. f \in [1 .. N -> 1 .. N] /\ \A k \in 1 .. N : f[k] = k
    BY <2>2
  <2>4. Delayed(code, code, waitOps, n)
    BY <2>2, <2>3 DEF Delayed
  <2> QED
    BY <2>1, <2>4 DEF MergedAs, BatchOK
<1>2. CASE ~(Len(waitOps) < 2)
  <2>1. Len(waitOps) >= 2
    BY <1>2, LenIs DEF BatchOK
  <2>2. PICK rest : rest = UNION ToSet(Tail(waitOps))
    OBVIOUS
  <2>3. PICK kept : kept = EraseWaits(code, rest)
    OBVIOUS
  <2>4. PICK m : m = MergedCode
    OBVIOUS
  <2>5. MergedWaits(m, kept, waitOps, rest)
    BY <1>2, <2>2, <2>3, <2>4 DEF MergedCode, MergedWaits
  <2>6. MergedAs(m, code, pos, n) /\ Delayed(m, code, waitOps, n)
    BY <2>1, <2>2, <2>3, <2>5, MergeTwo
  <2> QED
    BY <2>4, <2>6
<1> QED
  BY <1>1, <1>2

-----------------------------------------------------------------------------
(* What the passes keep: the code is one of the n DMAs, and exactly those  *)
(* with a token are awaited.                                               *)
PassOK(n, ops, c, st, p, ws) ==
    /\ n \in Nat /\ TypedDmas(ops, n)
    /\ \A i \in 1 .. n : ops[i].nextBd # NoBd => ~ops[i].token
    /\ CodeOK(c, n) /\ Awaited(c, n) = Tokened(ops, n)
    /\ st \in {"chain", "queue"} => Singles(c, Len(c)) /\ ws = <<>>
    /\ st = "batch" => BatchOK(c, p, ws, n)
PassInv == source \in Programs /\ PassOK(NumDmas, dmaOps, code, stage, pos, waitOps)

(* Erasing single waits keeps the code, without the erased DMAs' waits.    *)
LEMMA EraseOK ==
    ASSUME NEW n \in Nat, NEW c, CodeOK(c, n), Singles(c, Len(c)), NEW gone,
           NEW d, d = EraseWaits(c, gone)
    PROVE  CodeOK(d, n) /\ Singles(d, Len(d)) /\ Awaited(d, n) = Awaited(c, n) \ gone
<1>1. IsSeq(c)
  BY DEF CodeOK, IsCode
<1>2. PICK f : Embeds(f, d, c, Len(c), gone)
  BY <1>1, EraseEmbeds
<1> QED
  BY <1>2, EraseKeepsCode, EraseSingles

(* A walk that goes on without a wait keeps the batch.                     *)
LEMMA BatchBack ==
    ASSUME NEW n \in Nat, NEW c, IsSeq(c), NEW p, p > 0, NEW ws, BatchOK(c, p, ws, n)
    PROVE  BatchOK(c, p - 1, ws, n)
<1>1. Len(c) \in Nat /\ p \in 0 .. Len(c)
  BY LenIs DEF BatchOK
<1>2. p - 1 \in 0 .. Len(c) /\ \A q \in 1 .. Len(c) : q > p => q > p - 1
  BY <1>1
<1>3. Singles(c, p - 1)
  <2>1. \A k \in 1 .. p - 1 : k \in 1 .. p
    BY <1>1
  <2> QED
    BY <2>1 DEF BatchOK, Singles
<1> QED
  BY <1>2, <1>3 DEF BatchOK

(* The visited wait is a single one.                                       *)
VisitsWait(n, c, p, o) == /\ n \in Nat /\ CodeOK(c, n) /\ p \in 1 .. Len(c) /\ Singles(c, p)
                          /\ o = c[p] /\ o.kind = "wait"

(* It names one DMA of the program.                                        *)
LEMMA VisitedWait ==
    ASSUME NEW n, NEW c, NEW p, NEW o, VisitsWait(n, c, p, o)
    PROVE  \E i \in 1 .. n : o.ops = {i} /\ o = Wait({i})
<1>1. p \in 1 .. p /\ Singles(c, p) /\ o = c[p] /\ o.kind = "wait"
  BY DEF VisitsWait
<1>2. PICK j : o = Wait({j})
  BY <1>1 DEF Singles
<1>3. o.ops = {j}
  BY <1>2, OpFacts
<1>4. j \in 1 .. n
  <2>1. IsOp(o, n)
    BY DEF VisitsWait, CodeOK, IsCode
  <2>2. o.ops \in SUBSET (1 .. n)
    BY <1>1, <2>1, KindFacts
  <2> QED
    BY <1>3, <2>2
<1> QED
  BY <1>2, <1>3, <1>4

(* A wait of another connection joins the batch.                           *)
LEMMA BatchGrows ==
    ASSUME NEW n \in Nat, NEW c, CodeOK(c, n), NEW p, p > 0, NEW ws, BatchOK(c, p, ws, n),
           c[p].kind = "wait", NEW i \in c[p].ops
    PROVE  BatchOK(c, p - 1, Append(ws, c[p].ops), n)
<1>1. PICK N : N = Len(c) /\ N \in Nat /\ IsSeq(c)
  BY LenIs DEF CodeOK, IsCode
<1>2. p \in 1 .. N /\ Singles(c, p) /\ IsSeq(ws)
  BY <1>1 DEF BatchOK
<1>3. i \in 1 .. n /\ c[p].ops = {i} /\ c[p] = Wait({i})
  <2>1. PICK o : o = c[p]
    OBVIOUS
  <2>2. VisitsWait(n, c, p, o)
    BY <1>1, <1>2, <2>1 DEF VisitsWait
  <2>3. PICK j \in 1 .. n : o.ops = {j} /\ o = Wait({j})
    BY <2>2, VisitedWait
  <2> QED
    BY <2>1, <2>3
<1>4. PICK L, vs : L = Len(ws) /\ L \in Nat /\ vs = Append(ws, {i})
  BY <1>2, LenIs
<1>5. /\ IsSeq(vs) /\ Len(vs) = L + 1 /\ vs[L + 1] = {i}
      /\ \A k \in 1 .. L : vs[k] = ws[k]
  BY <1>2, <1>4, AppendIs
<1>6. BatchOK(c, p - 1, ws, n)
  BY <1>1, BatchBack
<1>7. \A k \in 1 .. L + 1 : k = L + 1 \/ k \in 1 .. L
  BY <1>4
<1>8. ASSUME NEW k \in 1 .. L + 1
      PROVE \E j \in 1 .. n : vs[k] = {j} /\ \E q \in 1 .. N : q > p - 1 /\ c[q] = Wait({j})
  <2>1. CASE k = L + 1
    <3>1. p > p - 1
      BY <1>2
    <3> QED
      BY <1>2, <1>3, <1>5, <2>1, <3>1
  <2>2. CASE k \in 1 .. L
    <3>1. Len(ws) = L /\ Len(c) = N /\ vs[k] = ws[k]
      BY <1>1, <1>4, <1>5, <2>2
    <3>2. \E j \in 1 .. n : ws[k] = {j} /\ \E q \in 1 .. N : q > p - 1 /\ c[q] = Wait({j})
      BY <1>6, <2>2, <3>1 DEF BatchOK
    <3> QED
      BY <3>1, <3>2
  <2> QED
    BY <1>7, <2>1, <2>2
<1>9. ASSUME NEW k \in 1 .. L + 1, NEW l \in 1 .. L + 1, NEW q \in 1 .. N, NEW r \in 1 .. N,
             k < l, c[q] = Wait(vs[k]), c[r] = Wait(vs[l])
      PROVE r < q
  <2>1. k \in 1 .. L
    BY <1>4, <1>9
  <2>2. CASE l \in 1 .. L
    BY <1>1, <1>4, <1>5, <1>6, <1>9, <2>1, <2>2 DEF BatchOK
  <2>3. CASE l = L + 1
    <3>1. AtWait(c, r, i) /\ AtWait(c, p, i)
      BY <1>3, <1>5, <1>9, <2>3, WaitOfOne
    <3>2. WaitsOnce(c, n)
      BY DEF CodeOK
    <3>3. r = p
      BY <1>1, <1>2, <1>3, <3>1, <3>2 DEF WaitsOnce
    <3>4. PICK j \in 1 .. n : ws[k] = {j} /\ \E u \in 1 .. N : u > p /\ c[u] = Wait({j})
      BY <1>1, <1>4, <2>1 DEF BatchOK
    <3>5. PICK u \in 1 .. N : u > p /\ c[u] = Wait({j})
      BY <3>4
    <3>6. AtWait(c, u, j) /\ AtWait(c, q, j)
      BY <1>5, <1>9, <2>1, <3>4, <3>5, WaitOfOne
    <3>7. u = q
      BY <1>1, <3>2, <3>6 DEF WaitsOnce
    <3> QED
      BY <3>3, <3>5, <3>7
  <2> QED
    BY <1>7, <2>2, <2>3
<1>10. BatchOK(c, p - 1, vs, n)
  BY <1>1, <1>5, <1>6, <1>8, <1>9 DEF BatchOK
<1> QED
  BY <1>3, <1>4, <1>10

(* The merged batch gives way to one that starts at the visited wait.      *)
LEMMA BatchRestarts ==
    ASSUME NEW n \in Nat, NEW c, CodeOK(c, n), NEW p, p > 0, NEW ws, BatchOK(c, p, ws, n),
           c[p].kind = "wait", NEW i \in c[p].ops, NEW m, MergedAs(m, c, p, n)
    PROVE  BatchOK(m, p - 1, <<c[p].ops>>, n)
<1>1. PICK N : N = Len(c) /\ N \in Nat /\ IsSeq(c)
  BY LenIs DEF CodeOK, IsCode
<1>2. p \in 1 .. N /\ Singles(c, p)
  BY <1>1 DEF BatchOK
<1>3. i \in 1 .. n /\ c[p].ops = {i} /\ c[p] = Wait({i})
  <2>1. PICK o : o = c[p]
    OBVIOUS
  <2>2. VisitsWait(n, c, p, o)
    BY <1>1, <1>2, <2>1 DEF VisitsWait
  <2>3. PICK j \in 1 .. n : o.ops = {j} /\ o = Wait({j})
    BY <2>2, VisitedWait
  <2> QED
    BY <2>1, <2>3
<1>4. /\ Len(m) \in Nat /\ p <= Len(m) /\ \A k \in 1 .. p : m[k] = c[k]
  BY LenIs DEF MergedAs, CodeOK, IsCode
<1>5. p - 1 \in 0 .. Len(m) /\ p \in 1 .. Len(m) /\ p > p - 1 /\ m[p] = Wait({i})
  BY <1>2, <1>3, <1>4
<1>6. Singles(m, p - 1)
  <2>1. \A k \in 1 .. p - 1 : k \in 1 .. p
    BY <1>2
  <2> QED
    BY <1>2, <1>4, <2>1 DEF Singles
<1>7. PICK vs : vs = <<{i}>>
  OBVIOUS
<1>8. IsSeq(vs) /\ Len(vs) = 1 /\ vs[1] = {i}
  BY <1>7, OneIsSeq
<1>9. \A k \in 1 .. 1 : k = 1
  OBVIOUS
<1>10. BatchOK(m, p - 1, vs, n)
  <2>1. \A k, l \in 1 .. 1 : ~(k < l)
    OBVIOUS
  <2>2. \A k \in 1 .. 1 : \E j \in 1 .. n :
           vs[k] = {j} /\ \E q \in 1 .. Len(m) : q > p - 1 /\ m[q] = Wait({j})
    BY <1>3, <1>5, <1>8, <1>9
  <2> QED
    BY <1>5, <1>6, <1>8, <2>1, <2>2 DEF BatchOK
<1> QED
  BY <1>3, <1>7, <1>10

(* Linking chains erases the waits of exactly the DMAs that lose a token.  *)
LEMMA LinkingKeepsPass ==
    ASSUME ChainInv, NEW n, n = NumDmas, PassOK(n, dmaOps, code, "chain", pos, waitOps),
           NEW broken, NEW ops, ops = LinkedOps(broken), NEW c, c = LinkedCode(broken),
           NEW st \in {"chain", "queue"}, NEW p
    PROVE  PassOK(n, ops, c, st, p, waitOps)
<1>1. /\ n \in Nat /\ TypedDmas(dmaOps, n)
      /\ \A i \in 1 .. n : dmaOps[i].nextBd # NoBd => ~dmaOps[i].token
      /\ CodeOK(code, n) /\ Awaited(code, n) = Tokened(dmaOps, n)
      /\ Singles(code, Len(code)) /\ waitOps = <<>>
  BY DEF PassOK
<1>2. DmasTyped
  BY <1>1 DEF DmasTyped
<1>3. \A i \in 1 .. n : LinkedAs(ops[i], dmaOps[i], i \in Inner(broken))
  BY <1>2, LinkedFacts
<1>4. TypedDmas(ops, n)
  <2>1. DOMAIN ops = 1 .. n
    BY <1>1 DEF LinkedOps, TypedDmas
  <2>2. \A i \in 1 .. n : ops[i] \in DmaRec
    BY <1>3 DEF LinkedAs
  <2> QED
    BY <2>1, <2>2 DEF TypedDmas
<1>5. \A i \in 1 .. n : ops[i].nextBd # NoBd => ~ops[i].token
  <2> SUFFICES ASSUME NEW i \in 1 .. n PROVE ops[i].nextBd # NoBd => ~ops[i].token
    OBVIOUS
  <2>1. CASE i \in Inner(broken)
    BY <1>3, <2>1 DEF LinkedAs
  <2>2. CASE i \notin Inner(broken)
    BY <1>1, <1>3, <2>2 DEF LinkedAs
  <2> QED
    BY <2>1, <2>2
<1>6. Tokened(ops, n) = Tokened(dmaOps, n) \ Inner(broken)
  <2>1. \A i \in 1 .. n : ops[i].token <=> dmaOps[i].token /\ i \notin Inner(broken)
    <3> SUFFICES ASSUME NEW i \in 1 .. n
                 PROVE ops[i].token <=> dmaOps[i].token /\ i \notin Inner(broken)
      OBVIOUS
    <3>1. CASE i \in Inner(broken)
      BY <1>3, <3>1 DEF LinkedAs
    <3>2. CASE i \notin Inner(broken)
      BY <1>3, <3>2 DEF LinkedAs
    <3> QED
      BY <3>1, <3>2
  <2> QED
    BY <2>1 DEF Tokened
<1>7. CodeOK(c, n) /\ Singles(c, Len(c)) /\ Awaited(c, n) = Awaited(code, n) \ Inner(broken)
  BY <1>1, EraseOK DEF LinkedCode
<1> QED
  BY <1>1, <1>4, <1>5, <1>6, <1>7 DEF PassOK

(* Folding by queue: whatever is folded, wait and token go together.       *)
LEMMA FoldingKeepsPass ==
    ASSUME NEW n, PassOK(n, dmaOps, code, "queue", pos, waitOps), NEW gone,
           NEW ops, ops = [i \in DOMAIN dmaOps |->
                             [dmaOps[i] EXCEPT !.token = @ /\ i \notin gone]],
           NEW c, c = EraseWaits(code, gone)
    PROVE  PassOK(n, ops, c, "batch", Len(c), waitOps)
<1>1. /\ n \in Nat /\ TypedDmas(dmaOps, n)
      /\ \A i \in 1 .. n : dmaOps[i].nextBd # NoBd => ~dmaOps[i].token
      /\ CodeOK(code, n) /\ Awaited(code, n) = Tokened(dmaOps, n)
      /\ Singles(code, Len(code)) /\ waitOps = <<>>
  BY DEF PassOK
<1>2. CodeOK(c, n) /\ Singles(c, Len(c)) /\ Awaited(c, n) = Awaited(code, n) \ gone
  BY <1>1, EraseOK
<1>3. \A i \in 1 .. n : /\ ops[i] \in DmaRec /\ ops[i].nextBd = dmaOps[i].nextBd
                        /\ ops[i].token <=> dmaOps[i].token /\ i \notin gone
  <2> SUFFICES ASSUME NEW i \in 1 .. n
               PROVE /\ ops[i] \in DmaRec /\ ops[i].nextBd = dmaOps[i].nextBd
                     /\ ops[i].token <=> dmaOps[i].token /\ i \notin gone
    OBVIOUS
  <2>1. PICK b \in BOOLEAN : b = (dmaOps[i].token /\ i \notin gone)
    OBVIOUS
  <2>2. dmaOps[i] \in DmaRec
    BY <1>1 DEF TypedDmas
  <2>3. ops[i] = [dmaOps[i] EXCEPT !.token = dmaOps[i].token /\ i \notin gone]
    BY <1>1 DEF TypedDmas
  <2>4. ops[i] = [dmaOps[i] EXCEPT !.token = b]
    BY <2>1, <2>3
  <2>5. ops[i] \in DmaRec /\ ops[i].nextBd = dmaOps[i].nextBd /\ ops[i].token = b
    BY <2>2, <2>4 DEF DmaRec
  <2> QED
    BY <2>1, <2>5
<1>4. TypedDmas(ops, n)
  <2>1. DOMAIN ops = 1 .. n
    BY <1>1 DEF TypedDmas
  <2> QED
    BY <1>3, <2>1 DEF TypedDmas
<1>5. Tokened(ops, n) = Tokened(dmaOps, n) \ gone
  BY <1>3 DEF Tokened
<1>6. BatchOK(c, Len(c), waitOps, n)
  <2>1. Len(c) \in Nat /\ Len(c) \in 0 .. Len(c)
    BY <1>2, LenIs DEF CodeOK, IsCode
  <2>2. \A k : k \notin 1 .. 0
    OBVIOUS
  <2> QED
    BY <1>1, <1>2, <2>1, <2>2, EmptyIs DEF BatchOK
<1> QED
  BY <1>1, <1>2, <1>3, <1>4, <1>5, <1>6 DEF PassOK

(* The source code awaits every DMA, and every DMA has a token.            *)
LEMMA PassStarts == Init => PassInv
<1> SUFFICES ASSUME Init PROVE PassInv
  OBVIOUS
<1>1. PICK n : n = NumDmas
  OBVIOUS
<1>2. PICK R : R = [conn : Connection, bd : BdId, repeat : Nat \ {0}]
  OBVIOUS
<1>3. PICK src : src = source.ops /\ src \in Seq(R) /\ LegalProgram(src, source.until, source.barriers)
  BY <1>2, ProgramsAssumption DEF Init
<1>4. n \in Nat /\ DOMAIN src = 1 .. n /\ n = Len(src) /\ \A i \in 1 .. n : src[i] \in R
  BY <1>1, <1>3, LenProperties DEF NumDmas
<1>5. \A i \in 1 .. n : dmaOps[i] = NewDma(src[i].conn, src[i].bd, src[i].repeat)
  BY <1>3, <1>4 DEF Init
<1>6. DOMAIN dmaOps = 1 .. n
  BY <1>3, <1>4 DEF Init
<1>7. ASSUME NEW i \in 1 .. n
      PROVE dmaOps[i] \in DmaRec /\ dmaOps[i].token = TRUE /\ dmaOps[i].nextBd = NoBd
  <2>1. src[i].conn \in Connection /\ src[i].bd \in BdId /\ src[i].repeat \in Nat \ {0}
    BY <1>2, <1>4
  <2>2. dmaOps[i] = [conn |-> src[i].conn, bd |-> src[i].bd, repeat |-> src[i].repeat,
                     token |-> TRUE, nextBd |-> NoBd, startBd |-> NoBd]
    BY <1>5 DEF NewDma
  <2>3. TRUE \in BOOLEAN /\ NoBd \in BdId \cup {NoBd}
    OBVIOUS
  <2>4. dmaOps[i] \in DmaRec
    BY <2>1, <2>2, <2>3 DEF DmaRec
  <2> QED
    BY <2>2, <2>4
<1>8. EndsLater(source.until, n)
  BY <1>3, <1>4 DEF LegalProgram, Nested, EndsLater
<1>9. code = SourceCode(n, source.until, source.barriers)
  BY <1>3, <1>4 DEF Init
<1>10. CodeOK(code, n) /\ Singles(code, Len(code)) /\ Awaited(code, n) = 1 .. n
  BY <1>4, <1>8, <1>9, SourceCodeOK
<1>11. Tokened(dmaOps, n) = 1 .. n
  BY <1>7 DEF Tokened
<1>12. stage # "batch" /\ waitOps = <<>> /\ source \in Programs
  BY DEF Init, FirstStage, FoldInit
<1>13. TypedDmas(dmaOps, n)
  BY <1>6, <1>7 DEF TypedDmas
<1> QED
  BY <1>1, <1>4, <1>7, <1>10, <1>11, <1>12, <1>13 DEF PassInv, PassOK

(* Every step of the passes, the lowering and the run keeps it.            *)
LEMMA PassGoesOn ==
    ASSUME PassInv, ChainInv, [Next]_vars
    PROVE  PassInv'
<1>1. PICK n : n = NumDmas
  OBVIOUS
<1>2. source' = source /\ NumDmas' = n /\ source \in Programs
  BY <1>1 DEF PassInv, Next, Compile, Run, vars, NumDmas
<1>3. PassOK(n, dmaOps, code, stage, pos, waitOps)
  BY <1>1 DEF PassInv
<1>4. SUFFICES PassOK(n, dmaOps', code', stage', pos', waitOps')
  BY <1>2 DEF PassInv
<1>5. /\ n \in Nat /\ CodeOK(code, n) /\ Awaited(code, n) = Tokened(dmaOps, n)
      /\ TypedDmas(dmaOps, n) /\ \A i \in 1 .. n : dmaOps[i].nextBd # NoBd => ~dmaOps[i].token
      /\ stage = "batch" => BatchOK(code, pos, waitOps, n)
  BY <1>3 DEF PassOK
<1>6. CASE VisitDma /\ UNCHANGED foldVars
  <2>1. PICK i \in DOMAIN dmaOps : \E dup \in DuplicateBreaks(i) :
          /\ dmaOps' = LinkedOps(chainsToBreak \cup dup)
          /\ code' = LinkedCode(chainsToBreak \cup dup)
    BY <1>6, Zenon DEF VisitDma
  <2>2. PICK broken : dmaOps' = LinkedOps(broken) /\ code' = LinkedCode(broken)
    BY <2>1
  <2>3. stage = "chain" /\ stage' = stage /\ waitOps' = waitOps
    BY <1>6 DEF VisitDma, foldVars
  <2>4. PassOK(n, dmaOps, code, "chain", pos, waitOps)
    BY <1>3, <2>3
  <2>5. PassOK(n, dmaOps', code', "chain", pos', waitOps)
    BY <1>1, <2>2, <2>4, LinkingKeepsPass
  <2> QED
    BY <2>3, <2>5
<1>7. CASE FinishChains /\ UNCHANGED foldVars
  <2>1. /\ dmaOps' = LinkedOps(OpenChains) /\ code' = LinkedCode(OpenChains)
        /\ stage = "chain" /\ stage' = "queue" /\ waitOps' = waitOps
    BY <1>7 DEF FinishChains, foldVars
  <2>2. PassOK(n, dmaOps, code, "chain", pos, waitOps)
    BY <1>3, <2>1
  <2>3. PassOK(n, dmaOps', code', "queue", pos', waitOps)
    BY <1>1, <2>1, <2>2, LinkingKeepsPass
  <2> QED
    BY <2>1, <2>3
<1>8. CASE /\ dmaOps' = dmaOps /\ code' = code /\ stage' = stage /\ waitOps' = waitOps
           /\ stage # "batch" \/ pos' = pos
  BY <1>3, <1>8 DEF PassOK
<1>9. CASE FinishQueues
  <2>1. /\ dmaOps' = [i \in DOMAIN dmaOps |->
                        [dmaOps[i] EXCEPT !.token = @ /\ i \notin FoldedDmas]]
        /\ code' = EraseWaits(code, FoldedDmas) /\ pos' = Len(code')
        /\ stage = "queue" /\ stage' = "batch" /\ waitOps' = waitOps
    BY <1>9 DEF FinishQueues
  <2>2. PassOK(n, dmaOps, code, "queue", pos, waitOps)
    BY <1>3, <2>1
  <2>3. PICK ops, c, gone : ops = dmaOps' /\ c = code' /\ gone = FoldedDmas
    OBVIOUS
  <2>4. ops = [i \in DOMAIN dmaOps |-> [dmaOps[i] EXCEPT !.token = @ /\ i \notin gone]]
    BY <2>1, <2>3
  <2>5. c = EraseWaits(code, gone)
    BY <2>1, <2>3
  <2>6. PassOK(n, ops, c, "batch", Len(c), waitOps)
    BY <2>2, <2>4, <2>5, FoldingKeepsPass
  <2> QED
    BY <2>1, <2>3, <2>6
<1>10. CASE VisitWaitByBatch
  <2>1. /\ stage = "batch" /\ pos > 0 /\ code[pos].kind = "wait" /\ pos' = pos - 1
        /\ dmaOps' = dmaOps /\ stage' = stage
    BY <1>10 DEF VisitWaitByBatch
  <2>2. PICK i \in code[pos].ops :
          \/ waitOps' = Append(waitOps, code[pos].ops) /\ code' = code
          \/ waitOps' = <<code[pos].ops>> /\ code' = MergedCode
    BY <1>10 DEF VisitWaitByBatch
  <2>3. BatchOK(code, pos, waitOps, n)
    BY <1>5, <2>1
  <2>4. CASE waitOps' = Append(waitOps, code[pos].ops) /\ code' = code
    <3>1. BatchOK(code, pos - 1, Append(waitOps, code[pos].ops), n)
      BY <1>5, <2>1, <2>3, BatchGrows
    <3> QED
      BY <1>5, <2>1, <2>4, <3>1 DEF PassOK
  <2>5. CASE waitOps' = <<code[pos].ops>> /\ code' = MergedCode
    <3>1. MergedAs(code', code, pos, n)
      BY <1>5, <2>3, <2>5, MergeKeepsCode
    <3>2. BatchOK(code', pos - 1, <<code[pos].ops>>, n)
      BY <1>5, <2>1, <2>3, <3>1, BatchRestarts
    <3> QED
      BY <1>5, <2>1, <2>5, <3>1, <3>2 DEF PassOK, MergedAs
  <2> QED
    BY <2>2, <2>4, <2>5
<1>11. CASE /\ stage = "batch" /\ pos > 0 /\ pos' = pos - 1
            /\ dmaOps' = dmaOps /\ code' = code /\ stage' = stage /\ waitOps' = waitOps
  <2>1. BatchOK(code, pos - 1, waitOps, n)
    <3>1. IsSeq(code) /\ BatchOK(code, pos, waitOps, n)
      BY <1>5, <1>11 DEF CodeOK, IsCode
    <3> QED
      BY <1>5, <1>11, <3>1, BatchBack
  <2> QED
    BY <1>5, <1>11, <2>1 DEF PassOK
<1>12. CASE FinishBatches
  <2>1. /\ stage = "batch" /\ stage' = "lower" /\ code' = MergedCode /\ dmaOps' = dmaOps
    BY <1>12 DEF FinishBatches
  <2>2. MergedAs(code', code, pos, n)
    BY <1>5, <2>1, MergeKeepsCode
  <2> QED
    BY <1>5, <2>1, <2>2 DEF PassOK, MergedAs
<1>13. CASE /\ dmaOps' = dmaOps /\ code' = code /\ stage' \in {"lower", "run"}
  BY <1>5, <1>13 DEF PassOK
<1>14. CASE ChainNext /\ UNCHANGED <<foldVars, shimVars, source>>
  <2>1. \/ VisitDma \/ FinishChains
        \/ dmaOps' = dmaOps /\ code' = code /\ stage' = stage /\ stage # "batch"
    BY <1>14 DEF ChainNext, VisitRepeatDma, VisitBarrier, VisitOther, chainVars
  <2>2. UNCHANGED foldVars /\ waitOps' = waitOps
    BY <1>14 DEF foldVars
  <2> QED
    BY <1>6, <1>7, <1>8, <2>1, <2>2
<1>15. CASE FoldNext
  <2>1. \/ FinishQueues \/ VisitWaitByBatch \/ FinishBatches
        \/ /\ dmaOps' = dmaOps /\ code' = code /\ stage' = stage /\ waitOps' = waitOps
           /\ stage # "batch" \/ (pos > 0 /\ pos' = pos - 1)
    BY <1>15 DEF FoldNext, VisitWaitByQueue, VisitBarrierByQueue, VisitBarrierByBatch,
                 VisitDmaByFold, foldVars
  <2> QED
    BY <1>8, <1>9, <1>10, <1>11, <1>12, <2>1
<1>16. CASE SkipFold \/ ControlCodeLowering
  BY <1>13, <1>16 DEF SkipFold, ControlCodeLowering
<1>17. CASE UNCHANGED vars
  BY <1>8, <1>17 DEF vars, codeVars, foldVars
<1>18. CASE Run
  <2>1. UNCHANGED codeVars /\ UNCHANGED foldVars
    BY <1>18 DEF Run, Controller, Issue, ExecuteWriteBd, ExecutePush, ExecuteSync, DmaPort,
                 StartTask, FinishBd
  <2> QED
    BY <1>8, <2>1 DEF codeVars, foldVars
<1> QED
  BY <1>14, <1>15, <1>16, <1>17, <1>18 DEF Next, Compile

(* Through chaining, folding and merging the code stays well-formed: every *)
(* DMA once and in program order, and at most one wait for it, behind it;  *)
(* the DMAs with a wait are exactly those with a token, so that a linked   *)
(* DMA, which has no push, is never waited for.                            *)
THEOREM PassInvariant == Spec => []PassInv
<1>1. Init => PassInv
  BY PassStarts
<1>2. PassInv /\ ChainInv /\ [Next]_vars => PassInv'
  BY PassGoesOn
<1> QED
  BY <1>1, <1>2, ChainInvariant, PTL DEF Spec

-----------------------------------------------------------------------------
(* Ports, and the instructions of the controller.                          *)
Coord == Nat \X Nat \X Nat

(* A connection's port is its tile, direction and channel.                 *)
LEMMA PortIs ==
    ASSUME NEW c \in Connection
    PROVE  /\ PortOn(c) = <<TileOf[c], PortOf[c][1], PortOf[c][2]>>
           /\ PortOn(c) \in Coord /\ PortOn(c) \in Port /\ PortOn(c)[1] = TileOf[c]
<1>1. TileOf[c] \in Nat /\ PortOf[c] \in Nat \X Nat
  BY TileAssumption, PortAssumption
<1>2. PICK t \in Nat, a \in Nat, b \in Nat : t = TileOf[c] /\ PortOf[c] = <<a, b>>
  BY <1>1
<1>3. <<t>> \o <<a, b>> = <<t, a, b>>
  <2>1. PICK u, v : u = <<t>> /\ v = <<a, b>>
    OBVIOUS
  <2>2. u \in Seq(Nat) /\ v \in Seq(Nat) /\ Len(u) = 1 /\ Len(v) = 2
        /\ u[1] = t /\ v[1] = a /\ v[2] = b
    BY <2>1
  <2>3. PICK w : w = u \o v
    OBVIOUS
  <2>4. /\ w \in Seq(Nat) /\ Len(w) = 3
        /\ \A i \in 1 .. 3 : w[i] = IF i <= 1 THEN u[i] ELSE v[i - 1]
    <3>1. u \in Seq(Nat) /\ v \in Seq(Nat)
      BY <2>2
    <3>2. /\ u \o v \in Seq(Nat) /\ Len(u \o v) = Len(u) + Len(v)
          /\ \A i \in 1 .. Len(u) + Len(v) :
               (u \o v)[i] = IF i <= Len(u) THEN u[i] ELSE v[i - Len(u)]
      BY ONLY <3>1, ConcatProperties
    <3>3. Len(u) + Len(v) = 3
      BY <2>2
    <3> QED
      BY <2>2, <2>3, <3>2, <3>3
  <2>5. w[1] = t /\ w[2] = a /\ w[3] = b
    BY <2>2, <2>4
  <2>6. PICK x : x = <<t, a, b>>
    OBVIOUS
  <2>7. x \in Seq(Nat) /\ Len(x) = 3 /\ x[1] = t /\ x[2] = a /\ x[3] = b
    BY <2>6
  <2>8. \A i \in 1 .. 3 : w[i] = x[i]
    BY <2>5, <2>7
  <2>9. w = x
    BY <2>4, <2>7, <2>8, SeqEqual
  <2> QED
    BY <2>1, <2>3, <2>6, <2>9
<1>4. PortOn(c) = <<t, a, b>> /\ <<t, a, b>>[1] = t
  BY <1>2, <1>3 DEF PortOn
<1>5. PortOn(c) \in Port
  BY DEF Port, PortOn
<1> QED
  BY <1>2, <1>4, <1>5 DEF Coord

(* Ports are triples of numbers.                                           *)
LEMMA PortsAre == \A p \in Port : p \in Coord
<1> SUFFICES ASSUME NEW p \in Port PROVE p \in Coord
  OBVIOUS
<1>1. PICK c \in Connection : p = PortOn(c)
  BY DEF Port, PortOn
<1> QED
  BY <1>1, PortIs

Desc == [op : Nat, next : BdId \cup {NoBd}]
WriteRec == [kind : {"write"}, tile : Tile, bd : BdId, desc : Desc]
PushRec == [kind : {"push"}, port : Port, token : BOOLEAN, bd : BdId]
SyncRec == [kind : {"sync"}, port : Coord, colNum : Nat]
Instr == (WriteRec \cup PushRec) \cup SyncRec

(* The pushes that ask port p for a token, and the syncs that take one.    *)
Tickets(p) == {e \in PushRec : e.port = p /\ e.token}
Covers(s, p) == \E k \in 0 .. s.colNum - 1 : p = <<s.port[1] + k, s.port[2], s.port[3]>>
Syncs(p) == {s \in SyncRec : Covers(s, p)}

(* Writes, pushes and syncs are different instructions.                    *)
LEMMA KindsDiffer ==
    /\ \A e \in WriteRec : \A p : e \notin Tickets(p) /\ e \notin Syncs(p)
    /\ \A e \in PushRec : \A p : e \notin Syncs(p)
    /\ \A e \in SyncRec : \A p : e \notin Tickets(p)
<1>1. \A e \in WriteRec : e.kind = "write"
  BY DEF WriteRec
<1>2. \A e \in PushRec : e.kind = "push"
  BY DEF PushRec
<1>3. \A e \in SyncRec : e.kind = "sync"
  BY DEF SyncRec
<1>4. "write" # "push" /\ "write" # "sync" /\ "push" # "sync"
  OBVIOUS
<1> QED
  BY <1>1, <1>2, <1>3, <1>4 DEF Tickets, Syncs

(* A sync of n columns and one of n + 1.                                   *)
LEMMA CoversGrow ==
    ASSUME NEW l \in Coord, NEW n \in Nat, NEW p \in Coord,
           l[2] = p[2], l[3] = p[3], l[1] + n = p[1], NEW q \in Coord
    PROVE  /\ Sync(l, n + 1) \in SyncRec
           /\ Covers(Sync(l, n + 1), q) <=> Covers(Sync(l, n), q) \/ q = p
           /\ ~Covers(Sync(l, n), p)
<1>1. PICK a \in Nat, b \in Nat, c \in Nat : l = <<a, b, c>>
  BY DEF Coord
<1>2. PICK x \in Nat, y \in Nat, z \in Nat : q = <<x, y, z>>
  BY DEF Coord
<1>3. p = <<a + n, b, c>>
  BY <1>1 DEF Coord
<1>4. \A m \in Nat : Covers(Sync(l, m), q) <=> \E k \in 0 .. m - 1 : q = <<a + k, b, c>>
  BY <1>1 DEF Covers, Sync
<1>5. \A m \in Nat : (\E k \in 0 .. m - 1 : q = <<a + k, b, c>>)
                       <=> y = b /\ z = c /\ a <= x /\ x < a + m
  <2> SUFFICES ASSUME NEW m \in Nat
               PROVE (\E k \in 0 .. m - 1 : q = <<a + k, b, c>>)
                       <=> y = b /\ z = c /\ a <= x /\ x < a + m
    OBVIOUS
  <2>1. ASSUME NEW k \in 0 .. m - 1, q = <<a + k, b, c>>
        PROVE y = b /\ z = c /\ a <= x /\ x < a + m
    <3>1. x = a + k /\ y = b /\ z = c
      BY <1>2, <2>1
    <3> QED
      BY <3>1
  <2>2. ASSUME y = b, z = c, a <= x, x < a + m
        PROVE \E k \in 0 .. m - 1 : q = <<a + k, b, c>>
    <3>1. x - a \in 0 .. m - 1 /\ a + (x - a) = x
      BY <2>2
    <3> QED
      BY <1>2, <2>2, <3>1
  <2> QED
    BY <2>1, <2>2
<1>6. n + 1 \in Nat
  OBVIOUS
<1>7. q = p <=> x = a + n /\ y = b /\ z = c
  BY <1>2, <1>3
<1>8. Covers(Sync(l, n + 1), q) <=> Covers(Sync(l, n), q) \/ q = p
  <2>1. Covers(Sync(l, n), q) <=> y = b /\ z = c /\ a <= x /\ x < a + n
    BY <1>4, <1>5
  <2>2. Covers(Sync(l, n + 1), q) <=> y = b /\ z = c /\ a <= x /\ x < a + (n + 1)
    BY <1>4, <1>5, <1>6
  <2> QED
    BY <1>7, <2>1, <2>2
<1>9. ~Covers(Sync(l, n), p)
  <2>1. ASSUME NEW k \in 0 .. n - 1, p = <<a + k, b, c>> PROVE FALSE
    <3>1. a + n = a + k
      BY <1>3, <2>1
    <3> QED
      BY <3>1
  <2>2. Covers(Sync(l, n), p) => \E k \in 0 .. n - 1 : p = <<a + k, b, c>>
    BY <1>1 DEF Covers, Sync
  <2> QED
    BY <2>1, <2>2
<1>10. Sync(l, n + 1) \in SyncRec
  BY DEF Sync, SyncRec
<1> QED
  BY <1>8, <1>9, <1>10

(* A sync of one column.                                                   *)
LEMMA CoversOne ==
    ASSUME NEW p \in Coord, NEW q \in Coord
    PROVE  Sync(p, 1) \in SyncRec /\ (Covers(Sync(p, 1), q) <=> q = p)
<1>1. PICK a \in Nat, b \in Nat, c \in Nat : p = <<a, b, c>>
  BY DEF Coord
<1>2. Covers(Sync(p, 1), q) <=> \E k \in 0 .. 1 - 1 : q = <<a + k, b, c>>
  BY <1>1 DEF Covers, Sync
<1>3. \A k \in 0 .. 1 - 1 : k = 0 /\ a + k = a
  OBVIOUS
<1>4. 0 \in 0 .. 1 - 1
  OBVIOUS
<1>5. Sync(p, 1) \in SyncRec
  BY DEF Sync, SyncRec
<1> QED
  BY <1>1, <1>2, <1>3, <1>4, <1>5

(* Adding a port to the syncs takes one more token, from this port.        *)
LEMMA AddSyncIs ==
    ASSUME NEW b \in Seq(SyncRec), NEW p \in Coord, NEW q \in Coord
    PROVE  /\ AddSync(b, p) \in Seq(SyncRec)
           /\ Upto(AddSync(b, p), Len(AddSync(b, p)), Syncs(q))
                = Upto(b, Len(b), Syncs(q)) + One(q = p)
<1>1. IsSeq(b) /\ Len(b) \in Nat
  BY SeqIsSeq, LenIs
<1> DEFINE l == Last(b)
<1>2. CASE b # <<>> /\ l.port[2] = p[2] /\ l.port[3] = p[3] /\ l.port[1] + l.colNum = p[1]
  <2>1. Len(b) \in Nat \ {0} /\ l = b[Len(b)] /\ l \in SyncRec
    <3>1. Len(b) \in Nat \ {0}
      BY <1>1, <1>2, LenIs
    <3>2. Len(b) \in 1 .. Len(b)
      BY <3>1
    <3> QED
      BY <3>1, <3>2, LenProperties DEF Last
  <2>2. PICK m, f : m = Len(b) - 1 /\ f = Front(b)
    OBVIOUS
  <2>3. m \in Nat /\ Len(b) = m + 1
    BY <2>1, <2>2
  <2>4. /\ f \in Seq(SyncRec) /\ IsSeq(f) /\ Len(f) = m
        /\ \A k \in 1 .. m : f[k] = b[k]
    <3>1. IsSeq(f) /\ Len(f) = m /\ \A k \in 1 .. m : f[k] = b[k]
      BY <1>1, <1>2, <2>2, FrontIs
    <3>2. \A k \in 1 .. m : f[k] \in SyncRec
      <4>1. \A k \in 1 .. m : k \in 1 .. Len(b)
        BY <2>3
      <4> QED
        BY <3>1, <4>1, LenProperties
    <3>3. ToSet(f) \subseteq SyncRec
      BY <3>1, <3>2, LenIs DEF ToSet
    <3> QED
      BY <3>1, <3>3, SeqMonotonic DEF IsSeq
  <2>5. PICK lp \in Coord, cn \in Nat : lp = l.port /\ cn = l.colNum /\ l = Sync(lp, cn)
    BY <2>1 DEF SyncRec, Sync
  <2>6. PICK e : e = Sync(lp, cn + 1)
    OBVIOUS
  <2>7. AddSync(b, p) = Append(f, e)
    BY <1>2, <2>2, <2>5, <2>6 DEF AddSync
  <2>8. /\ e \in SyncRec
        /\ Covers(e, q) <=> Covers(l, q) \/ q = p
        /\ ~Covers(l, p)
    <3>1. lp[2] = p[2] /\ lp[3] = p[3] /\ lp[1] + cn = p[1]
      BY <1>2, <2>5
    <3>2. /\ Sync(lp, cn + 1) \in SyncRec
          /\ Covers(Sync(lp, cn + 1), q) <=> Covers(Sync(lp, cn), q) \/ q = p
          /\ ~Covers(Sync(lp, cn), p)
      BY <3>1, CoversGrow
    <3> QED
      BY <2>5, <2>6, <3>2
  <2>9. Append(f, e) \in Seq(SyncRec) /\ Len(Append(f, e)) = m + 1
    BY <2>4, <2>8, AppendProperties
  <2>10. Upto(Append(f, e), m + 1, Syncs(q)) = Upto(f, m, Syncs(q)) + One(e \in Syncs(q))
    BY <2>4, UptoAppend
  <2>11. Upto(b, m + 1, Syncs(q)) = Upto(b, m, Syncs(q)) + One(b[m + 1] \in Syncs(q))
    BY <2>3, UptoStep
  <2>12. Upto(f, m, Syncs(q)) = Upto(b, m, Syncs(q))
    BY <2>3, <2>4, UptoSame
  <2>13. One(e \in Syncs(q)) = One(b[m + 1] \in Syncs(q)) + One(q = p)
    <3>1. b[m + 1] = l
      BY <2>1, <2>3
    <3>2. (e \in Syncs(q) <=> l \in Syncs(q) \/ q = p) /\ ~(l \in Syncs(q) /\ q = p)
      BY <2>1, <2>8 DEF Syncs
    <3> QED
      BY <3>1, <3>2 DEF One
  <2>14. Upto(b, m, Syncs(q)) \in Nat /\ One(b[m + 1] \in Syncs(q)) \in Nat /\ One(q = p) \in Nat
    BY <2>3, UptoNat DEF One
  <2> QED
    BY <2>3, <2>7, <2>9, <2>10, <2>11, <2>12, <2>13, <2>14
<1>3. CASE ~(b # <<>> /\ l.port[2] = p[2] /\ l.port[3] = p[3] /\ l.port[1] + l.colNum = p[1])
  <2>1. PICK e : e = Sync(p, 1)
    OBVIOUS
  <2>2. AddSync(b, p) = Append(b, e)
    BY <1>3, <2>1 DEF AddSync
  <2>3. e \in SyncRec /\ (Covers(e, q) <=> q = p)
    BY <2>1, CoversOne
  <2>4. Append(b, e) \in Seq(SyncRec) /\ Len(Append(b, e)) = Len(b) + 1
    BY <2>3, AppendProperties
  <2>5. Upto(Append(b, e), Len(b) + 1, Syncs(q)) = Upto(b, Len(b), Syncs(q)) + One(e \in Syncs(q))
    BY <1>1, UptoAppend
  <2>6. One(e \in Syncs(q)) = One(q = p)
    BY <2>3 DEF Syncs, One
  <2> QED
    BY <2>2, <2>4, <2>5, <2>6
<1> QED
  BY <1>2, <1>3

-----------------------------------------------------------------------------
(* The waits that are lowered.                                             *)
OnPort(is, q) == {i \in is : PortOn(ConnOf(i)) = q}
Waitable(is) == IsFiniteSet(is) /\ is \in SUBSET Nat /\ \A i \in is : ConnOf(i) \in Connection

\* Sorting the pushes lists every one of them once.
LEMMA SortedOnce ==
    ASSUME NEW is, Waitable(is), NEW s, s = SortPushes(is), NEW m, m = Cardinality(is)
    PROVE  /\ m \in Nat /\ DOMAIN s = 1 .. m
           /\ \A k \in 1 .. m : s[k] \in is
           /\ \A k, l \in 1 .. m : s[k] = s[l] => k = l
           /\ \A i \in is : \E k \in 1 .. m : s[k] = i
<1>1. PICK R : R = {e \in is \X is : SortsBefore(e[1], e[2])}
  OBVIOUS
<1>2. \A i, j \in is : <<i, j>> \in R <=> SortsBefore(i, j)
  BY <1>1
<1>3. PICK P : P = [i \in is |-> PortOn(ConnOf(i))]
  OBVIOUS
<1>4. \A i \in is : P[i] \in Coord /\ i \in Nat
  BY <1>3, PortIs DEF Waitable
<1>5. \A i, j \in is : SortsBefore(i, j) <=>
          \/ P[i][2] < P[j][2]
          \/ P[i][2] = P[j][2] /\ P[i][3] < P[j][3]
          \/ P[i][2] = P[j][2] /\ P[i][3] = P[j][3] /\ P[i][1] < P[j][1]
          \/ P[i] = P[j] /\ i < j
  BY <1>3 DEF SortsBefore
<1>6. \A i \in is : P[i][1] \in Nat /\ P[i][2] \in Nat /\ P[i][3] \in Nat
                    /\ P[i] = <<P[i][1], P[i][2], P[i][3]>>
  BY <1>4 DEF Coord
<1>7. StrictOrder(R, is)
  <2>1. \A x \in is : ~SortsBefore(x, x)
    BY <1>4, <1>5, <1>6
  <2>2. ASSUME NEW x \in is, NEW y \in is, NEW z \in is, SortsBefore(x, y), SortsBefore(y, z)
        PROVE SortsBefore(x, z)
    <3>1. PICK x1, x2, x3 \in Nat : P[x] = <<x1, x2, x3>>
      BY <1>6
    <3>2. PICK y1, y2, y3 \in Nat : P[y] = <<y1, y2, y3>>
      BY <1>6
    <3>3. PICK z1, z2, z3 \in Nat : P[z] = <<z1, z2, z3>>
      BY <1>6
    <3>4. \/ x2 < y2 \/ (x2 = y2 /\ x3 < y3)
          \/ (x2 = y2 /\ x3 = y3 /\ x1 < y1) \/ (x1 = y1 /\ x2 = y2 /\ x3 = y3 /\ x < y)
      BY <1>5, <2>2, <3>1, <3>2
    <3>5. \/ y2 < z2 \/ (y2 = z2 /\ y3 < z3)
          \/ (y2 = z2 /\ y3 = z3 /\ y1 < z1) \/ (y1 = z1 /\ y2 = z2 /\ y3 = z3 /\ y < z)
      BY <1>5, <2>2, <3>2, <3>3
    <3>6. x \in Nat /\ y \in Nat /\ z \in Nat
      BY <1>4
    <3>7. \/ x2 < z2 \/ (x2 = z2 /\ x3 < z3)
          \/ (x2 = z2 /\ x3 = z3 /\ x1 < z1) \/ (x1 = z1 /\ x2 = z2 /\ x3 = z3 /\ x < z)
      BY <3>4, <3>5, <3>6
    <3> QED
      BY <1>5, <3>1, <3>3, <3>7
  <2>3. ASSUME NEW x \in is, NEW y \in is PROVE x = y \/ SortsBefore(x, y) \/ SortsBefore(y, x)
    <3>1. PICK x1, x2, x3 \in Nat : P[x] = <<x1, x2, x3>>
      BY <1>6
    <3>2. PICK y1, y2, y3 \in Nat : P[y] = <<y1, y2, y3>>
      BY <1>6
    <3>3. x \in Nat /\ y \in Nat
      BY <1>4
    <3>4. \/ x = y
          \/ x2 < y2 \/ (x2 = y2 /\ x3 < y3)
          \/ (x2 = y2 /\ x3 = y3 /\ x1 < y1) \/ (x1 = y1 /\ x2 = y2 /\ x3 = y3 /\ x < y)
          \/ y2 < x2 \/ (y2 = x2 /\ y3 < x3)
          \/ (y2 = x2 /\ y3 = x3 /\ y1 < x1) \/ (y1 = x1 /\ y2 = x2 /\ y3 = x3 /\ y < x)
      BY <3>3
    <3> QED
      BY <1>5, <3>1, <3>2, <3>4
  <2> QED
    BY <1>2, <2>1, <2>2, <2>3 DEF StrictOrder
<1>8. \A i \in is : Below(R, is, i) = {j \in is : SortsBefore(j, i)}
  BY <1>2 DEF Below
<1>9. /\ \A k \in 1 .. m : \E x \in is : Cardinality(Below(R, is, x)) = k - 1
      /\ \A x, y \in is : Cardinality(Below(R, is, x)) = Cardinality(Below(R, is, y)) => x = y
      /\ \A x \in is : Cardinality(Below(R, is, x)) \in 0 .. m - 1
  <2>1. IsFiniteSet(is) /\ m = Cardinality(is)
    BY DEF Waitable
  <2> QED
    BY ONLY <2>1, <1>7, Ranks
<1>10. m \in Nat
  BY FS_CardinalityType DEF Waitable
<1>11. DOMAIN s = 1 .. m /\
       \A k \in 1 .. m : s[k] = CHOOSE i \in is : Cardinality({j \in is : SortsBefore(j, i)}) = k - 1
  BY DEF SortPushes
<1>12. ASSUME NEW k \in 1 .. m PROVE s[k] \in is /\ Cardinality(Below(R, is, s[k])) = k - 1
  <2>1. \E i \in is : Cardinality({j \in is : SortsBefore(j, i)}) = k - 1
    BY <1>8, <1>9
  <2>2. s[k] \in is /\ Cardinality({j \in is : SortsBefore(j, s[k])}) = k - 1
    BY <1>11, <2>1, Zenon
  <2> QED
    BY <1>8, <2>2
<1>13. ASSUME NEW k \in 1 .. m, NEW l \in 1 .. m, s[k] = s[l] PROVE k = l
  <2>1. k - 1 = l - 1
    BY <1>12, <1>13
  <2> QED
    BY <2>1
<1>14. ASSUME NEW i \in is PROVE \E k \in 1 .. m : s[k] = i
  <2>1. PICK r : r = Cardinality(Below(R, is, i)) /\ r \in 0 .. m - 1
    BY <1>9
  <2>2. r + 1 \in 1 .. m /\ (r + 1) - 1 = r
    BY <1>10, <2>1
  <2>3. s[r + 1] \in is /\ Cardinality(Below(R, is, s[r + 1])) = r
    BY <1>12, <2>2
  <2> QED
    BY <1>9, <2>1, <2>2, <2>3
<1> QED
  BY <1>10, <1>11, <1>12, <1>13, <1>14

\* So counting sorted pushes counts the pushes.
LEMMA SortedCount ==
    ASSUME NEW is, Waitable(is), NEW q
    PROVE  Cardinality({k \in 1 .. Cardinality(is) : PortOn(ConnOf(SortPushes(is)[k])) = q})
             = Cardinality(OnPort(is, q))
<1>1. PICK s, m : s = SortPushes(is) /\ m = Cardinality(is)
  OBVIOUS
<1>2. /\ m \in Nat
      /\ \A k \in 1 .. m : s[k] \in is
      /\ \A k, l \in 1 .. m : s[k] = s[l] => k = l
      /\ \A i \in is : \E k \in 1 .. m : s[k] = i
  BY <1>1, SortedOnce
<1>3. PICK K : K = {k \in 1 .. m : PortOn(ConnOf(s[k])) = q}
  OBVIOUS
<1>4. IsFiniteSet(K)
  <2>1. IsFiniteSet(1 .. m)
    BY <1>2, FS_Interval
  <2> QED
    BY <1>3, <2>1, FS_Subset
<1>5. PICK g : g = [k \in K |-> s[k]]
  OBVIOUS
<1>6. g \in [K -> OnPort(is, q)]
  BY <1>2, <1>3, <1>5 DEF OnPort
<1>7. \A k, l \in K : g[k] = g[l] => k = l
  BY <1>2, <1>3, <1>5
<1>8. \A i \in OnPort(is, q) : \E k \in K : g[k] = i
  BY <1>2, <1>3, <1>5 DEF OnPort
<1>9. g \in Bijection(K, OnPort(is, q))
  BY <1>6, <1>7, <1>8 DEF Bijection, Injection, Surjection, IsInjective
<1>10. Cardinality(OnPort(is, q)) = Cardinality(K)
  <2>1. PICK Q : Q = OnPort(is, q)
    OBVIOUS
  <2>2. ExistsBijection(K, Q)
    BY <1>9, <2>1 DEF ExistsBijection
  <2>3. Cardinality(Q) = Cardinality(K)
    BY ONLY <1>4, <2>2, FS_Bijection
  <2> QED
    BY <2>1, <2>3
<1> QED
  BY <1>1, <1>3, <1>10

(* A wait takes one token per DMA, from that DMA's port.                   *)
IsBatches(b, is) ==
    b = [n \in 0 .. Cardinality(is) |->
            IF n = 0 THEN <<>> ELSE AddSync(b[n - 1], PortOn(ConnOf(SortPushes(is)[n])))]

(* The syncs of a wait are built port by port.                             *)
LEMMA LowerWaitIs ==
    ASSUME NEW is, Waitable(is)
    PROVE  \E b \in [0 .. Cardinality(is) -> Seq(SyncRec)] :
             /\ LowerWait(is) = b[Cardinality(is)] /\ b[0] = <<>>
             /\ \A n \in 1 .. Cardinality(is) :
                  b[n] = AddSync(b[n - 1], PortOn(ConnOf(SortPushes(is)[n])))
<1>1. PICK s, m : s = SortPushes(is) /\ m = Cardinality(is)
  OBVIOUS
<1>2. m \in Nat /\ \A k \in 1 .. m : s[k] \in is
  BY <1>1, SortedOnce
<1>3. \A n \in 1 .. m : PortOn(ConnOf(s[n])) \in Coord
  BY <1>2, PortIs DEF Waitable
<1> DEFINE H == [x \in (1 .. m) \X Seq(SyncRec) |-> AddSync(x[2], PortOn(ConnOf(s[x[1]])))]
<1>4. H \in [(1 .. m) \X Seq(SyncRec) -> Seq(SyncRec)]
  <2>1. \A n \in 1 .. m, q \in Seq(SyncRec) : AddSync(q, PortOn(ConnOf(s[n]))) \in Seq(SyncRec)
    BY <1>3, AddSyncIs
  <2> QED
    BY <2>1
<1>5. <<>> \in Seq(SyncRec)
  BY EmptySeq
<1>6. PICK f \in [0 .. m -> Seq(SyncRec)] : Steps(f, <<>>, H, m)
  <2> HIDE DEF H
  <2> QED
    BY <1>2, <1>4, <1>5, StepsExist
<1>7. f[0] = <<>> /\ \A n \in 1 .. m : f[n] = AddSync(f[n - 1], PortOn(ConnOf(s[n])))
  <2>1. ASSUME NEW n \in 1 .. m PROVE f[n] = AddSync(f[n - 1], PortOn(ConnOf(s[n])))
    <3>1. n - 1 \in 0 .. m
      BY <1>2
    <3>2. f[n - 1] \in Seq(SyncRec)
      BY <1>6, <3>1
    <3> QED
      BY <1>6, <3>2 DEF Steps
  <2> QED
    BY <1>6, <2>1 DEF Steps
<1>8. IsBatches(f, is)
  <2> HIDE DEF H
  <2>1. f = [n \in 0 .. m |-> f[n]]
    BY <1>6
  <2>2. \A n \in 0 .. m : f[n] = IF n = 0 THEN <<>> ELSE AddSync(f[n - 1], PortOn(ConnOf(s[n])))
    <3>1. \A n \in 0 .. m : n # 0 => n \in 1 .. m
      BY <1>2
    <3> QED
      BY <1>7, <3>1
  <2> QED
    BY <1>1, <2>1, <2>2 DEF IsBatches
<1>9. PICK b : b = CHOOSE g : IsBatches(g, is)
  OBVIOUS
<1>10. IsBatches(b, is)
  BY <1>8, <1>9
<1>11. LowerWait(is) = b[m]
  BY <1>1, <1>9 DEF LowerWait, IsBatches
<1>12. b = [n \in 0 .. m |-> IF n = 0 THEN <<>> ELSE AddSync(b[n - 1], PortOn(ConnOf(s[n])))]
  BY <1>1, <1>10 DEF IsBatches
<1>13. /\ DOMAIN b = 0 .. m /\ b[0] = <<>>
       /\ \A n \in 1 .. m : b[n] = AddSync(b[n - 1], PortOn(ConnOf(s[n])))
  <2>1. 0 \in 0 .. m /\ \A n \in 1 .. m : n \in 0 .. m /\ n # 0
    BY <1>2
  <2>2. DOMAIN b = 0 .. m /\ \A n \in 0 .. m :
          b[n] = IF n = 0 THEN <<>> ELSE AddSync(b[n - 1], PortOn(ConnOf(s[n])))
    BY <1>12
  <2> QED
    BY <2>1, <2>2
<1>14. \A n \in 0 .. m : b[n] \in Seq(SyncRec)
  <2> DEFINE T == {n \in 0 .. m : b[n] \in Seq(SyncRec)}
  <2>1. 0 \in T
    <3>1. 0 \in 0 .. m /\ b[0] \in Seq(SyncRec)
      BY ONLY <1>2, <1>5, <1>13
    <3> QED
      BY ONLY <3>1
  <2>2. ASSUME NEW n \in 1 .. m, n - 1 \in T PROVE n \in T
    <3>1. b[n] \in Seq(SyncRec)
      BY <1>3, <1>13, <2>2, AddSyncIs
    <3> QED
      BY <3>1
  <2> HIDE DEF T
  <2>3. 0 .. m \subseteq T
    BY <1>2, <2>1, <2>2, UpToN
  <2> QED
    BY <2>3 DEF T
<1>15. b \in [0 .. m -> Seq(SyncRec)]
  <2>1. b = [n \in 0 .. m |-> b[n]]
    BY <1>12, <1>13
  <2> QED
    BY <1>14, <2>1
<1> QED
  BY <1>1, <1>11, <1>13, <1>15

(* A wait takes as many tokens of a port as it has DMAs there.             *)
LEMMA LowerWaitCount ==
    ASSUME NEW is, Waitable(is), NEW q \in Coord
    PROVE  /\ LowerWait(is) \in Seq(SyncRec)
           /\ Upto(LowerWait(is), Len(LowerWait(is)), Syncs(q)) = Cardinality(OnPort(is, q))
           /\ Cardinality(OnPort(is, q)) \in Nat
<1>1. PICK s, m : s = SortPushes(is) /\ m = Cardinality(is)
  OBVIOUS
<1>2. m \in Nat /\ \A k \in 1 .. m : s[k] \in is
  BY <1>1, SortedOnce
<1>3. PICK b \in [0 .. m -> Seq(SyncRec)] :
             /\ LowerWait(is) = b[m] /\ b[0] = <<>>
             /\ \A n \in 1 .. m : b[n] = AddSync(b[n - 1], PortOn(ConnOf(s[n])))
  BY <1>1, LowerWaitIs
<1>4. PICK r : r = [k \in 1 .. m |-> PortOn(ConnOf(s[k]))]
  OBVIOUS
<1>5. \A k \in 1 .. m : r[k] = PortOn(ConnOf(s[k])) /\ r[k] \in Coord
  BY <1>2, <1>4, PortIs DEF Waitable
<1>6. \A n \in 0 .. m : b[n] \in Seq(SyncRec)
  BY <1>3
<1> DEFINE T == {n \in 0 .. m : Upto(b[n], Len(b[n]), Syncs(q)) = Upto(r, n, {q})}
<1>14. \A n \in 0 .. m : n \in T <=> Upto(b[n], Len(b[n]), Syncs(q)) = Upto(r, n, {q})
  OBVIOUS
<1>7. 0 \in T
  <2> HIDE DEF T
  <2>1. 0 \in Nat /\ 0 \in 0 .. m
    BY <1>2
  <2>2. Upto(b[0], 0, Syncs(q)) = 0 /\ Upto(r, 0, {q}) = 0
    BY <2>1, UptoNat
  <2>3. Len(b[0]) = 0
    BY <1>3, EmptyIs
  <2>4. Upto(b[0], Len(b[0]), Syncs(q)) = Upto(r, 0, {q})
    BY <2>2, <2>3
  <2> QED
    BY <1>14, <2>1, <2>4
<1>8. ASSUME NEW n \in 1 .. m, n - 1 \in T PROVE n \in T
  <2>1. PICK j \in Nat : j = n - 1
    BY <1>2
  <2>2. n = j + 1 /\ j \in 0 .. m /\ n \in 0 .. m
    BY <1>2, <2>1
  <2>3. b[j] \in Seq(SyncRec) /\ b[n] = AddSync(b[j], r[n])
    BY <1>3, <1>5, <1>6, <2>1, <2>2
  <2>4. r[n] \in Coord
    BY <1>5
  <2>5. Upto(AddSync(b[j], r[n]), Len(AddSync(b[j], r[n])), Syncs(q))
          = Upto(b[j], Len(b[j]), Syncs(q)) + One(q = r[n])
    <3>1. PICK d, p : d = b[j] /\ p = r[n]
      OBVIOUS
    <3>2. d \in Seq(SyncRec) /\ p \in Coord /\ q \in Coord
      BY <2>3, <2>4, <3>1
    <3>3. Upto(AddSync(d, p), Len(AddSync(d, p)), Syncs(q)) = Upto(d, Len(d), Syncs(q)) + One(q = p)
      BY ONLY <3>2, AddSyncIs
    <3> QED
      BY <3>1, <3>3
  <2>6. Upto(r, j + 1, {q}) = Upto(r, j, {q}) + One(r[j + 1] \in {q})
    BY UptoStep
  <2>7. One(r[j + 1] \in {q}) = One(q = r[n])
    BY <2>2 DEF One
  <2> QED
    BY <1>8, <2>1, <2>2, <2>3, <2>5, <2>6, <2>7
<1> HIDE DEF T
<1>9. 0 .. m \subseteq T
  BY <1>2, <1>7, <1>8, UpToN
<1>10. Upto(b[m], Len(b[m]), Syncs(q)) = Upto(r, m, {q})
  <2>1. m \in 0 .. m
    BY <1>2
  <2> QED
    BY <1>9, <2>1 DEF T
<1>11. Upto(r, m, {q}) = Cardinality(OnPort(is, q))
  <2>1. {k \in 1 .. m : r[k] \in {q}} = {k \in 1 .. m : PortOn(ConnOf(s[k])) = q}
    BY <1>5
  <2> QED
    BY <1>1, <2>1, SortedCount DEF Upto
<1>12. LowerWait(is) \in Seq(SyncRec)
  BY <1>2, <1>3
<1>13. Cardinality(OnPort(is, q)) \in Nat
  BY <1>2, <1>11, UptoNat
<1> QED
  BY <1>3, <1>10, <1>11, <1>12, <1>13

-----------------------------------------------------------------------------
(* The lowered code: each DMA of a token asks for one, each wait takes one *)
(* per DMA, and never before the push that asks for it.                    *)
Without(s, E) == \A k \in 1 .. Len(s) : s[k] \notin E

(* Nothing to count.                                                       *)
LEMMA UptoNone ==
    ASSUME NEW s, NEW E, Without(s, E), IsSeq(s)
    PROVE  \A m \in 0 .. Len(s) : Upto(s, m, E) = 0
<1> SUFFICES ASSUME NEW m \in 0 .. Len(s) PROVE Upto(s, m, E) = 0
  OBVIOUS
<1>1. Len(s) \in Nat
  BY LenIs
<1>2. {k \in 1 .. m : s[k] \in E} = {}
  BY <1>1 DEF Without
<1> QED
  BY <1>2, FS_EmptySet DEF Upto

(* The DMAs the passes leave are typed, and a linked one has no token.     *)
DmasReady(n) == /\ n \in Nat /\ TypedDmas(dmaOps, n)
                /\ \A i \in 1 .. n : dmaOps[i].nextBd # NoBd => ~dmaOps[i].token

(* What a lowered operation asks of port q.                                *)
Asks(x, q, t) == /\ x \in Seq(Instr) /\ Without(x, Syncs(q))
                 /\ Upto(x, Len(x), Tickets(q)) = One(t)
Takes(x, q, is) == /\ x \in Seq(Instr) /\ Without(x, Tickets(q))
                   /\ Upto(x, Len(x), Syncs(q)) = Cardinality(OnPort(is, q))

(* A DMA becomes a write of its BD, and a push with its token if it is not *)
(* linked to a next one.                                                   *)
IsWriteAndPush(x, i) ==
    /\ x \in Seq(Instr) /\ x[1] \in WriteRec
    /\ IF dmaOps[i].nextBd # NoBd THEN Len(x) = 1
       ELSE /\ Len(x) = 2 /\ x[2] \in PushRec
            /\ x[2].port = PortOn(ConnOf(i)) /\ x[2].token = dmaOps[i].token

\* This is what LowerDma gives.
LEMMA LowerDmaIs ==
    ASSUME NEW n, DmasReady(n), NEW i \in 1 .. n
    PROVE  IsWriteAndPush(LowerDma(i), i)
<1>1. PICK d : d = dmaOps[i] /\ d \in DmaRec
  BY DEF DmasReady, TypedDmas
<1>2. PICK c \in Connection : c = ConnOf(i)
  <2>1. d.conn \in Connection /\ d = dmaOps[i]
    BY <1>1 DEF DmaRec
  <2> QED
    BY <2>1 DEF ConnOf
<1>3. PICK w, p, x : w = WriteBd(i) /\ p = Push(i) /\ x = LowerDma(i)
  OBVIOUS
<1>4. /\ BdOf(i) = d.bd /\ d.bd \in BdId /\ d.token \in BOOLEAN
      /\ d.nextBd \in BdId \cup {NoBd} /\ d.startBd \in BdId \cup {NoBd}
  BY <1>1 DEF DmaRec, BdOf
<1>5. w \in WriteRec
  <2>1. [op |-> i, next |-> d.nextBd] \in Desc
    BY <1>4 DEF Desc, DmasReady
  <2>2. TileOf[c] \in Tile
    BY DEF Tile
  <2>3. w = [kind |-> "write", tile |-> TileOf[c], bd |-> d.bd,
             desc |-> [op |-> i, next |-> d.nextBd]]
    BY <1>1, <1>2, <1>3, <1>4 DEF WriteBd
  <2> QED
    BY <1>4, <2>1, <2>2, <2>3 DEF WriteRec
<1>6. p \in PushRec /\ p.port = PortOn(ConnOf(i)) /\ p.token = d.token
  <2>1. PortOn(c) \in Port
    BY PortIs
  <2>2. p = [kind |-> "push", port |-> PortOn(c), token |-> d.token,
             bd |-> IF d.startBd = NoBd THEN d.bd ELSE d.startBd]
    BY <1>1, <1>2, <1>3, <1>4 DEF Push
  <2>3. (IF d.startBd = NoBd THEN d.bd ELSE d.startBd) \in BdId
    BY <1>4
  <2> QED
    BY <1>2, <1>4, <2>1, <2>2, <2>3 DEF PushRec
<1>7. CASE d.nextBd = NoBd
  <2>1. PICK u, v : x = u \o v /\ u = <<w>> /\ v = <<p>>
    BY <1>1, <1>3, <1>7 DEF LowerDma
  <2>2. u \in Seq(Instr) /\ v \in Seq(Instr) /\ Len(u) = 1 /\ Len(v) = 1 /\ u[1] = w /\ v[1] = p
    BY <1>5, <1>6, <2>1 DEF Instr
  <2>3. 1 \in 1 .. 1 /\ IsSeq(u) /\ IsSeq(v) /\ 1 + 1 = 2
    BY <2>2, SeqIsSeq
  <2>4. x \in Seq(Instr)
    BY <2>1, <2>2, ConcatProperties
  <2>5. /\ Len(u \o v) = Len(u) + Len(v)
        /\ \A k \in 1 .. Len(u) : (u \o v)[k] = u[k]
        /\ \A k \in 1 .. Len(v) : (u \o v)[Len(u) + k] = v[k]
    BY ONLY <2>3, ConcatIs
  <2>6. Len(x) = 2 /\ x[1] = w /\ x[2] = p
    BY <2>1, <2>2, <2>3, <2>5
  <2> QED
    BY <1>1, <1>3, <1>5, <1>6, <1>7, <2>4, <2>6 DEF IsWriteAndPush
<1>8. CASE d.nextBd # NoBd
  <2>1. x = <<w>>
    <3>1. x = <<w>> \o <<>>
      BY <1>1, <1>3, <1>8 DEF LowerDma
    <3>2. <<w>> \in Seq(Instr)
      BY <1>5 DEF Instr
    <3> QED
      BY <3>1, <3>2, ConcatEmptySeq
  <2>2. x \in Seq(Instr) /\ Len(x) = 1 /\ x[1] = w
    BY <1>5, <2>1 DEF Instr
  <2> QED
    BY <1>1, <1>3, <1>5, <1>8, <2>2 DEF IsWriteAndPush
<1> QED
  BY <1>7, <1>8

(* A lowered DMA asks for its token, if it has one, and takes none.        *)
LEMMA LowerDmaAsks ==
    ASSUME NEW n, DmasReady(n), NEW i \in 1 .. n, NEW q
    PROVE  Asks(LowerDma(i), q, dmaOps[i].token /\ PortOn(ConnOf(i)) = q)
<1>1. PICK x : x = LowerDma(i) /\ IsWriteAndPush(x, i)
  BY LowerDmaIs
<1>2. PICK t \in BOOLEAN : t <=> dmaOps[i].token /\ PortOn(ConnOf(i)) = q
  OBVIOUS
<1>3. One(dmaOps[i].token /\ PortOn(ConnOf(i)) = q) = One(t) /\ dmaOps[i].token \in BOOLEAN
      /\ (dmaOps[i].nextBd # NoBd => ~t)
  BY <1>2 DEF One, DmasReady, TypedDmas, DmaRec
<1>4. x \in Seq(Instr) /\ x[1] \notin Tickets(q) /\ x[1] \notin Syncs(q)
  BY <1>1, KindsDiffer DEF IsWriteAndPush
<1>5. CASE dmaOps[i].nextBd = NoBd
  <2>1. Len(x) = 2 /\ x[2] \notin Syncs(q) /\ (x[2] \in Tickets(q) <=> t)
    <3>1. /\ Len(x) = 2 /\ x[2] \in PushRec
          /\ x[2].port = PortOn(ConnOf(i)) /\ x[2].token = dmaOps[i].token
      BY <1>1, <1>5 DEF IsWriteAndPush
    <3>2. x[2] \in Tickets(q) <=> x[2].port = q /\ x[2].token
      BY <3>1 DEF Tickets
    <3> QED
      BY <1>2, <3>1, <3>2, KindsDiffer
  <2>2. Upto(x, 2, Tickets(q)) = One(t)
    <3>1. {k \in 1 .. 2 : x[k] \in Tickets(q)} = IF t THEN {2} ELSE {}
      BY <1>4, <2>1
    <3> QED
      BY <3>1, FS_EmptySet, FS_Singleton DEF Upto, One
  <2>3. Without(x, Syncs(q))
    BY <1>4, <2>1 DEF Without
  <2> QED
    BY <1>1, <1>3, <1>4, <2>1, <2>2, <2>3 DEF Asks
<1>6. CASE dmaOps[i].nextBd # NoBd
  <2>1. Len(x) = 1
    BY <1>1, <1>6 DEF IsWriteAndPush
  <2>2. Without(x, Tickets(q)) /\ Without(x, Syncs(q))
    BY <1>4, <2>1 DEF Without
  <2>3. Upto(x, Len(x), Tickets(q)) = 0
    <3>1. Len(x) \in 0 .. Len(x) /\ IsSeq(x)
      BY <1>4, <2>1, SeqIsSeq
    <3> QED
      BY <2>2, <3>1, UptoNone
  <2>4. One(t) = 0
    BY <1>3, <1>6 DEF One
  <2> QED
    BY <1>1, <1>3, <1>4, <2>2, <2>3, <2>4 DEF Asks
<1> QED
  BY <1>5, <1>6

(* A lowered wait takes a token for each of its DMAs and asks for none.    *)
LEMMA LowerWaitTakes ==
    ASSUME NEW n, DmasReady(n), NEW is \in SUBSET (1 .. n), NEW q \in Coord
    PROVE  Takes(LowerWait(is), q, is) /\ Waitable(is)
<1>1. Waitable(is)
  <2>1. n \in Nat
    BY DEF DmasReady
  <2>2. IsFiniteSet(is)
    <3>1. IsFiniteSet(1 .. n)
      BY <2>1, FS_Interval
    <3>2. is \subseteq 1 .. n
      OBVIOUS
    <3> QED
      BY ONLY <3>1, <3>2, FS_Subset
  <2>3. \A i \in 1 .. n : ConnOf(i) \in Connection
    BY DEF DmasReady, TypedDmas, DmaRec, ConnOf
  <2> QED
    BY <2>1, <2>2, <2>3 DEF Waitable
<1>2. PICK x : x = LowerWait(is)
  OBVIOUS
<1>3. x \in Seq(SyncRec) /\ Upto(x, Len(x), Syncs(q)) = Cardinality(OnPort(is, q))
  BY <1>1, <1>2, LowerWaitCount
<1>4. x \in Seq(Instr)
  BY <1>3, SeqMonotonic DEF Instr
<1>5. Without(x, Tickets(q))
  <2>1. \A k \in 1 .. Len(x) : x[k] \in SyncRec
    BY <1>3, LenProperties
  <2> QED
    BY <2>1, KindsDiffer DEF Without
<1> QED
  BY <1>1, <1>2, <1>3, <1>4, <1>5 DEF Takes

-----------------------------------------------------------------------------
(* The tokens that the first j operations of the code c ask of port q, and *)
(* take from it.                                                           *)
AskedBy(c, n, q, j) == {i \in Tokened(dmaOps, n) : /\ PortOn(ConnOf(i)) = q
                                                   /\ \E k \in 1 .. j : AtDma(c, k, i)}
TakenBy(c, n, q, j) == {i \in 1 .. n : /\ PortOn(ConnOf(i)) = q
                                       /\ \E k \in 1 .. j : AtWait(c, k, i)}
Compiled(c, n) == /\ DmasReady(n) /\ CodeOK(c, n)
                  /\ Awaited(c, n) = Tokened(dmaOps, n)

(* Instructions that never take a token of q that was not asked for.       *)
NoEarlySync(x, q) == \A m \in 0 .. Len(x) : Upto(x, m, Syncs(q)) <= Upto(x, m, Tickets(q))
Lowered(x, q, a, b) ==
    /\ x \in Seq(Instr) /\ NoEarlySync(x, q)
    /\ Upto(x, Len(x), Tickets(q)) = a /\ Upto(x, Len(x), Syncs(q)) = b

(* Up to every operation no more is taken than was asked for.              *)
LEMMA CountsOf ==
    ASSUME NEW c, NEW n, Compiled(c, n), NEW q, NEW j \in 0 .. Len(c)
    PROVE  /\ IsFiniteSet(AskedBy(c, n, q, j)) /\ IsFiniteSet(TakenBy(c, n, q, j))
           /\ Cardinality(AskedBy(c, n, q, j)) \in Nat
           /\ Cardinality(TakenBy(c, n, q, j)) \in Nat
           /\ TakenBy(c, n, q, j) \subseteq AskedBy(c, n, q, j)
           /\ Cardinality(TakenBy(c, n, q, j)) <= Cardinality(AskedBy(c, n, q, j))
<1>1. PICK A, B : A = AskedBy(c, n, q, j) /\ B = TakenBy(c, n, q, j)
  OBVIOUS
<1>2. n \in Nat /\ Len(c) \in Nat /\ Tokened(dmaOps, n) \subseteq 1 .. n
  BY LenIs DEF Compiled, DmasReady, CodeOK, IsCode, Tokened
<1>3. IsFiniteSet(1 .. n)
  BY <1>2, FS_Interval
<1>4. A \subseteq 1 .. n /\ B \subseteq 1 .. n
  BY <1>1, <1>2 DEF AskedBy, TakenBy
<1>5. IsFiniteSet(A) /\ IsFiniteSet(B)
  BY ONLY <1>3, <1>4, FS_Subset
<1>6. B \subseteq A
  <2> SUFFICES ASSUME NEW i \in B PROVE i \in A
    OBVIOUS
  <2>1. PICK k \in 1 .. j : AtWait(c, k, i)
    BY <1>1 DEF TakenBy
  <2>2. k \in 1 .. Len(c) /\ i \in 1 .. n /\ PortOn(ConnOf(i)) = q
    BY <1>1, <1>2 DEF TakenBy
  <2>3. i \in Tokened(dmaOps, n)
    BY <2>1, <2>2 DEF Awaited, Compiled
  <2>4. PICK l \in 1 .. Len(c) : AtDma(c, l, i)
    BY <2>2 DEF Compiled, CodeOK, DmasInOrder
  <2>5. l < k
    BY <2>1, <2>2, <2>4 DEF Compiled, CodeOK, WaitsBehind
  <2>6. l \in 1 .. j
    BY <1>2, <2>2, <2>5
  <2> QED
    BY <1>1, <2>2, <2>3, <2>4, <2>6 DEF AskedBy
<1>7. Cardinality(B) <= Cardinality(A)
  BY ONLY <1>5, <1>6, FS_Subset
<1>8. Cardinality(A) \in Nat /\ Cardinality(B) \in Nat
  BY <1>5, FS_CardinalityType
<1> QED
  BY <1>1, <1>5, <1>6, <1>7, <1>8

(* One more piece behind h.                                                *)
LEMMA LowerOneMore ==
    ASSUME NEW h, NEW x, NEW q, NEW a \in Nat, NEW b \in Nat, NEW a1 \in Nat, NEW b1 \in Nat,
           Lowered(h, q, a, b), x \in Seq(Instr), b <= a, b1 <= a1,
           Upto(x, Len(x), Tickets(q)) = a1 - a, Upto(x, Len(x), Syncs(q)) = b1 - b,
           Without(x, Syncs(q)) \/ Without(x, Tickets(q))
    PROVE  Lowered(h \o x, q, a1, b1)
<1>1. PICK g, E, F : g = h \o x /\ E = Tickets(q) /\ F = Syncs(q)
  OBVIOUS
<1>2. h \in Seq(Instr) /\ IsSeq(h) /\ IsSeq(x) /\ Len(h) \in Nat /\ Len(x) \in Nat
  BY SeqIsSeq, LenIs DEF Lowered
<1>3. g \in Seq(Instr) /\ Len(g) = Len(h) + Len(x)
  BY <1>1, <1>2, ConcatProperties
<1>4. \A D : /\ \A m \in 0 .. Len(h) : Upto(g, m, D) = Upto(h, m, D)
             /\ \A m \in 0 .. Len(x) : Upto(g, Len(h) + m, D) = Upto(h, Len(h), D) + Upto(x, m, D)
  BY <1>1, <1>2, UptoConcat
<1>5. /\ Upto(h, Len(h), E) = a /\ Upto(h, Len(h), F) = b
      /\ Upto(x, Len(x), E) = a1 - a /\ Upto(x, Len(x), F) = b1 - b
  BY <1>1 DEF Lowered
<1>6. Upto(g, Len(g), E) = a1 /\ Upto(g, Len(g), F) = b1
  <2>1. Len(x) \in 0 .. Len(x)
    BY <1>2
  <2>2. /\ Upto(g, Len(h) + Len(x), E) = Upto(h, Len(h), E) + Upto(x, Len(x), E)
        /\ Upto(g, Len(h) + Len(x), F) = Upto(h, Len(h), F) + Upto(x, Len(x), F)
    BY <1>4, <2>1
  <2> QED
    BY <1>3, <1>5, <2>2
<1>7. ASSUME NEW m \in 0 .. Len(g) PROVE Upto(g, m, F) <= Upto(g, m, E)
  <2>1. CASE m <= Len(h)
    <3>1. m \in 0 .. Len(h)
      BY <1>2, <2>1
    <3> QED
      BY <1>1, <1>4, <3>1 DEF Lowered, NoEarlySync
  <2>2. CASE m > Len(h)
    <3>1. PICK k : k = m - Len(h)
      OBVIOUS
    <3>2. k \in 0 .. Len(x) /\ m = Len(h) + k /\ k <= Len(x) /\ k \in Nat
      BY <1>2, <1>3, <2>2, <3>1
    <3>3. Upto(g, m, F) = b + Upto(x, k, F) /\ Upto(g, m, E) = a + Upto(x, k, E)
      BY <1>4, <1>5, <3>2
    <3>4. /\ Upto(x, k, F) \in Nat /\ Upto(x, k, E) \in Nat
          /\ Upto(x, k, F) <= Upto(x, Len(x), F)
      BY <1>2, <3>2, UptoNat, UptoGrows
    <3>5. CASE Without(x, F)
      <4>1. Upto(x, k, F) = 0
        BY <1>2, <3>2, <3>5, UptoNone
      <4> QED
        BY <3>3, <3>4, <4>1
    <3>6. CASE Without(x, E)
      <4>1. Len(x) \in 0 .. Len(x)
        BY <1>2
      <4>2. Upto(x, k, E) = 0 /\ Upto(x, Len(x), E) = 0
        BY <1>2, <3>2, <3>6, <4>1, UptoNone
      <4>3. a1 = a
        BY <1>5, <4>2
      <4> QED
        BY <1>5, <3>3, <3>4, <4>2, <4>3
    <3> QED
      BY <1>1, <3>5, <3>6
  <2> QED
    BY <1>2, <1>3, <2>1, <2>2
<1> QED
  BY <1>1, <1>3, <1>6, <1>7 DEF Lowered, NoEarlySync

(* What the next operation adds to both counts.                            *)
LEMMA PieceAdds ==
    ASSUME NEW c, NEW n, Compiled(c, n), NEW q \in Coord, NEW j \in 1 .. Len(c), NEW x,
           x = Lower(c[j])
    PROVE  /\ x \in Seq(Instr)
           /\ Upto(x, Len(x), Tickets(q))
                = Cardinality(AskedBy(c, n, q, j)) - Cardinality(AskedBy(c, n, q, j - 1))
           /\ Upto(x, Len(x), Syncs(q))
                = Cardinality(TakenBy(c, n, q, j)) - Cardinality(TakenBy(c, n, q, j - 1))
           /\ Without(x, Syncs(q)) \/ Without(x, Tickets(q))
<1>1. PICK A, B, A1, B1, o : /\ A = AskedBy(c, n, q, j - 1) /\ B = TakenBy(c, n, q, j - 1)
                             /\ A1 = AskedBy(c, n, q, j) /\ B1 = TakenBy(c, n, q, j)
                             /\ o = c[j]
  OBVIOUS
<1>2. Len(c) \in Nat /\ n \in Nat /\ IsOp(o, n) /\ CodeOK(c, n)
  BY <1>1, LenIs DEF Compiled, DmasReady, CodeOK, IsCode
<1>3. j \in 0 .. Len(c) /\ j - 1 \in 0 .. Len(c)
  BY <1>2
<1>4. /\ IsFiniteSet(A) /\ IsFiniteSet(B) /\ IsFiniteSet(A1) /\ IsFiniteSet(B1)
      /\ Cardinality(A) \in Nat /\ Cardinality(B) \in Nat
  BY <1>1, <1>3, CountsOf
<1>5. \A k \in 1 .. j : k = j \/ k \in 1 .. j - 1
  BY <1>2
<1>6. \A k \in 1 .. j - 1 : k \in 1 .. j /\ k \in 1 .. Len(c) /\ k # j
  BY <1>2
<1>7. j \in 1 .. j
  BY <1>2
<1>8. A1 = A \cup {i \in Tokened(dmaOps, n) : PortOn(ConnOf(i)) = q /\ AtDma(c, j, i)}
  BY <1>1, <1>5, <1>6, <1>7 DEF AskedBy
<1>9. B1 = B \cup {i \in 1 .. n : PortOn(ConnOf(i)) = q /\ AtWait(c, j, i)}
  BY <1>1, <1>5, <1>6, <1>7 DEF TakenBy
<1>10. CASE \E i \in 1 .. n : o = Dma(i)
  <2>1. PICK i \in 1 .. n : o = Dma(i)
    BY <1>10
  <2>2. PICK t \in BOOLEAN : t <=> dmaOps[i].token /\ PortOn(ConnOf(i)) = q
    OBVIOUS
  <2>3. x = LowerDma(i)
    <3>1. o.kind = "dma" /\ o.ops = {i}
      BY <2>1, OpFacts
    <3>2. (CHOOSE e \in {i} : TRUE) = i
      OBVIOUS
    <3> QED
      BY <1>1, <3>1, <3>2 DEF Lower
  <2>4. Asks(x, q, t)
    <3>1. Asks(x, q, dmaOps[i].token /\ PortOn(ConnOf(i)) = q)
      BY <2>3, LowerDmaAsks DEF Compiled
    <3>2. One(dmaOps[i].token /\ PortOn(ConnOf(i)) = q) = One(t)
      BY <2>2 DEF One
    <3> QED
      BY <3>1, <3>2 DEF Asks
  <2>5. \A m \in 1 .. n : AtDma(c, j, m) <=> m = i
    <3>1. ASSUME NEW m \in 1 .. n, Dma(i) = Dma(m) PROVE m = i
      <4>1. Dma(i).ops = {i} /\ Dma(m).ops = {m}
        BY OpFacts
      <4>2. {i} = {m}
        BY <3>1, <4>1
      <4> QED
        BY <4>2
    <3> QED
      BY <1>1, <2>1, <3>1 DEF AtDma
  <2>6. \A m : ~AtWait(c, j, m)
    BY <1>1, <2>1, OpFacts DEF AtWait
  <2>7. B1 = B
    BY <1>9, <2>6
  <2>8. i \notin A
    <3>1. ASSUME NEW k \in 1 .. j - 1, AtDma(c, k, i) PROVE FALSE
      <4>1. AtDma(c, j, i) /\ k \in 1 .. Len(c) /\ k # j
        BY <1>6, <2>5
      <4> QED
        BY <1>2, <3>1, <4>1, DmaOnce
    <3> QED
      BY <1>1, <3>1 DEF AskedBy
  <2>9. Cardinality(A1) = Cardinality(A) + One(t)
    <3>1. CASE t
      <4>1. A1 = A \cup {i}
        BY <1>8, <2>2, <2>5, <3>1 DEF Tokened
      <4>2. Cardinality(A1) = Cardinality(A) + 1
        BY <1>4, <2>8, <4>1, FS_AddElement
      <4> QED
        BY <3>1, <4>2 DEF One
    <3>2. CASE ~t
      <4>1. A1 = A
        BY <1>8, <2>2, <2>5, <3>2 DEF Tokened
      <4> QED
        BY <1>4, <3>2, <4>1 DEF One
    <3> QED
      BY <3>1, <3>2
  <2>10. Upto(x, Len(x), Syncs(q)) = 0
    <3>1. IsSeq(x) /\ Len(x) \in 0 .. Len(x) /\ Without(x, Syncs(q))
      <4>1. IsSeq(x)
        BY <2>4, SeqIsSeq DEF Asks
      <4> QED
        BY <2>4, <4>1, LenIs DEF Asks
    <3> QED
      BY <3>1, UptoNone
  <2>11. One(t) \in Nat
    BY DEF One
  <2> QED
    BY <1>1, <1>4, <2>4, <2>7, <2>9, <2>10, <2>11 DEF Asks
<1>11. CASE \E is \in SUBSET (1 .. n) : is # {} /\ o = Wait(is)
  <2>1. PICK is \in SUBSET (1 .. n) : o = Wait(is)
    BY <1>11
  <2>2. x = LowerWait(is)
    BY <1>1, <2>1, OpFacts DEF Lower
  <2>3. Takes(x, q, is)
    BY <2>2, LowerWaitTakes DEF Compiled
  <2>4. A1 = A
    <3>1. \A i : ~AtDma(c, j, i)
      BY <1>1, <2>1, OpFacts DEF AtDma
    <3> QED
      BY <1>8, <3>1
  <2>5. \A i : AtWait(c, j, i) <=> i \in is
    BY <1>1, <2>1, OpFacts DEF AtWait
  <2>6. B1 = B \cup OnPort(is, q)
    BY <1>9, <2>5 DEF OnPort
  <2>7. B \cap OnPort(is, q) = {}
    <3>1. ASSUME NEW i \in B, i \in is PROVE FALSE
      <4>1. PICK k \in 1 .. j - 1 : AtWait(c, k, i) /\ i \in 1 .. n
        BY <1>1 DEF TakenBy
      <4>2. AtWait(c, j, i) /\ k \in 1 .. Len(c) /\ k # j
        BY <1>6, <2>5, <3>1
      <4> QED
        BY <1>2, <4>1, <4>2 DEF CodeOK, WaitsOnce
    <3> QED
      BY <3>1 DEF OnPort
  <2>8. IsFiniteSet(OnPort(is, q))
    <3>1. OnPort(is, q) \subseteq B1
      BY <2>6
    <3> QED
      BY ONLY <1>4, <3>1, FS_Subset
  <2>9. Cardinality(B1) = Cardinality(B) + Cardinality(OnPort(is, q)) - Cardinality(B \cap OnPort(is, q))
    BY <1>4, <2>6, <2>8, FS_Union
  <2>10. Cardinality(B \cap OnPort(is, q)) = 0 /\ Cardinality(OnPort(is, q)) \in Nat
    BY <2>7, <2>8, FS_EmptySet, FS_CardinalityType
  <2>11. Upto(x, Len(x), Tickets(q)) = 0
    <3>1. IsSeq(x) /\ Len(x) \in 0 .. Len(x) /\ Without(x, Tickets(q))
      <4>1. IsSeq(x)
        BY <2>3, SeqIsSeq DEF Takes
      <4> QED
        BY <2>3, <4>1, LenIs DEF Takes
    <3> QED
      BY <3>1, UptoNone
  <2> QED
    BY <1>1, <1>4, <2>3, <2>4, <2>9, <2>10, <2>11 DEF Takes
<1>12. CASE o = Barrier
  <2>1. x = <<>>
    BY <1>1, <1>12, OpFacts DEF Lower
  <2>2. x \in Seq(Instr) /\ Len(x) = 0 /\ 0 \in Nat
    BY <2>1, EmptySeq
  <2>3. A1 = A /\ B1 = B
    <3>1. \A i : ~AtDma(c, j, i) /\ ~AtWait(c, j, i)
      BY <1>1, <1>12, OpFacts DEF AtDma, AtWait
    <3> QED
      BY <1>8, <1>9, <3>1
  <2>4. Upto(x, Len(x), Tickets(q)) = 0 /\ Upto(x, Len(x), Syncs(q)) = 0
    BY <2>2, UptoNat
  <2>5. Without(x, Syncs(q))
    BY <2>2 DEF Without
  <2> QED
    BY <1>1, <1>4, <2>2, <2>3, <2>4, <2>5
<1> QED
  BY <1>2, <1>10, <1>11, <1>12 DEF IsOp

(* The instructions x for code c, lowered up to every operation.           *)
LoweredUpTo(h, c, n, q, x) ==
    /\ h[0] = <<>> /\ h[Len(c)] = x
    /\ \A j \in 1 .. Len(c) : h[j] = h[j - 1] \o Lower(c[j])
    /\ \A j \in 0 .. Len(c) :
         Lowered(h[j], q, Cardinality(AskedBy(c, n, q, j)), Cardinality(TakenBy(c, n, q, j)))

(* Up to every operation, what is taken has been asked for before.         *)
LEMMA LoweringSteps ==
    ASSUME NEW c, NEW n, Compiled(c, n), NEW q \in Coord, NEW x,
           x = FlattenSeq([k \in DOMAIN c |-> Lower(c[k])])
    PROVE  \E h : LoweredUpTo(h, c, n, q, x)
<1>1. PICK N : N = Len(c) /\ N \in Nat /\ DOMAIN c = 1 .. N
  BY LenIs DEF Compiled, CodeOK, IsCode
<1>2. PICK seqs : seqs = [k \in 1 .. N |-> Lower(c[k])]
  OBVIOUS
<1>3. x = FlattenSeq(seqs) /\ \A k \in 1 .. N : seqs[k] = Lower(c[k])
  BY <1>1, <1>2
<1>4. \A k \in 1 .. N : seqs[k] \in Seq(Instr)
  <2> SUFFICES ASSUME NEW k \in 1 .. N PROVE seqs[k] \in Seq(Instr)
    OBVIOUS
  <2>1. PICK y : y = Lower(c[k])
    OBVIOUS
  <2>2. k \in 1 .. Len(c)
    BY <1>1
  <2>3. y \in Seq(Instr)
    BY <2>1, <2>2, PieceAdds
  <2> QED
    BY <1>3, <2>1, <2>3
<1>5. IsSeq(seqs) /\ Len(seqs) = N
  <2>1. seqs \in [1 .. N -> Seq(Instr)]
    BY <1>2, <1>4
  <2>2. seqs \in Seq(Seq(Instr)) /\ Len(seqs) = N
    BY <1>1, <2>1, FunIsSeq
  <2> QED
    BY <2>2, SeqIsSeq
<1>6. PICK h : /\ h[0] = <<>> /\ h[N] = x
               /\ \A j \in 1 .. N : h[j] = h[j - 1] \o seqs[j]
  <2>1. \A k \in 1 .. Len(seqs) : seqs[k] \in Seq(Instr)
    BY <1>4, <1>5
  <2>2. \E h : /\ h[0] = <<>> /\ h[Len(seqs)] = FlattenSeq(seqs)
               /\ \A j \in 1 .. Len(seqs) : h[j] = h[j - 1] \o seqs[j]
    BY ONLY <1>5, <2>1, FlattenSteps
  <2> QED
    BY <1>3, <1>5, <2>2
<1>7. PICK ca, cb : /\ ca = [j \in 0 .. N |-> Cardinality(AskedBy(c, n, q, j))]
                    /\ cb = [j \in 0 .. N |-> Cardinality(TakenBy(c, n, q, j))]
  OBVIOUS
<1>8. \A j \in 0 .. N : /\ ca[j] = Cardinality(AskedBy(c, n, q, j))
                        /\ cb[j] = Cardinality(TakenBy(c, n, q, j))
                        /\ ca[j] \in Nat /\ cb[j] \in Nat /\ cb[j] <= ca[j]
  BY <1>1, <1>7, CountsOf
<1> DEFINE T == {j \in 0 .. N : Lowered(h[j], q, ca[j], cb[j])}
<1>9. 0 \in T
  <2>1. 0 \in 0 .. N /\ 0 \in Nat
    BY <1>1
  <2>2. PICK e : e = h[0]
    OBVIOUS
  <2>3. e \in Seq(Instr) /\ Len(e) = 0
    BY <1>6, <2>2, EmptySeq
  <2>4. AskedBy(c, n, q, 0) = {} /\ TakenBy(c, n, q, 0) = {}
    BY DEF AskedBy, TakenBy
  <2>5. ca[0] = 0 /\ cb[0] = 0
    BY <1>8, <2>1, <2>4, FS_EmptySet
  <2>6. Upto(e, 0, Tickets(q)) = 0 /\ Upto(e, 0, Syncs(q)) = 0
    BY <2>1, UptoNat
  <2>7. NoEarlySync(e, q)
    <3>1. \A m \in 0 .. 0 : m = 0
      OBVIOUS
    <3> QED
      BY <2>3, <2>6, <3>1 DEF NoEarlySync
  <2>8. Lowered(h[0], q, ca[0], cb[0])
    BY <2>2, <2>3, <2>5, <2>6, <2>7 DEF Lowered
  <2> QED
    BY ONLY <2>1, <2>8
<1>10. ASSUME NEW j \in 1 .. N, j - 1 \in T PROVE j \in T
  <2>1. PICK i, y, g : i = j - 1 /\ y = seqs[j] /\ g = h[i]
    OBVIOUS
  <2>2. i \in 0 .. N /\ j \in 0 .. N /\ j \in 1 .. Len(c)
    BY <1>1, <2>1
  <2>3. y = Lower(c[j])
    BY <1>3, <2>1
  <2>4. /\ y \in Seq(Instr)
        /\ Upto(y, Len(y), Tickets(q))
             = Cardinality(AskedBy(c, n, q, j)) - Cardinality(AskedBy(c, n, q, j - 1))
        /\ Upto(y, Len(y), Syncs(q))
             = Cardinality(TakenBy(c, n, q, j)) - Cardinality(TakenBy(c, n, q, j - 1))
        /\ Without(y, Syncs(q)) \/ Without(y, Tickets(q))
    BY <2>2, <2>3, PieceAdds
  <2>5. PICK a, b, a1, b1 : a = ca[i] /\ b = cb[i] /\ a1 = ca[j] /\ b1 = cb[j]
    OBVIOUS
  <2>6. a \in Nat /\ b \in Nat /\ a1 \in Nat /\ b1 \in Nat /\ b <= a /\ b1 <= a1
    BY <1>8, <2>2, <2>5
  <2>7. Upto(y, Len(y), Tickets(q)) = a1 - a /\ Upto(y, Len(y), Syncs(q)) = b1 - b
    <3>1. /\ a1 = Cardinality(AskedBy(c, n, q, j)) /\ b1 = Cardinality(TakenBy(c, n, q, j))
          /\ a = Cardinality(AskedBy(c, n, q, i)) /\ b = Cardinality(TakenBy(c, n, q, i))
      BY <1>8, <2>2, <2>5
    <3> QED
      BY <2>1, <2>4, <3>1
  <2>8. Lowered(g, q, a, b)
    BY <1>10, <2>1, <2>5
  <2>9. Lowered(g \o y, q, a1, b1)
    <3>1. y \in Seq(Instr) /\ b <= a /\ b1 <= a1 /\ (Without(y, Syncs(q)) \/ Without(y, Tickets(q)))
      BY <2>4, <2>6
    <3> QED
      BY <2>6, <2>7, <2>8, <3>1, LowerOneMore
  <2>10. h[j] = g \o y
    BY <1>6, <2>1
  <2>11. Lowered(h[j], q, ca[j], cb[j])
    BY <2>5, <2>9, <2>10
  <2> QED
    BY ONLY <2>2, <2>11
<1> HIDE DEF T
<1>11. 0 .. N \subseteq T
  BY <1>1, <1>9, <1>10, UpToN
<1>12. \A j \in 0 .. N : Lowered(h[j], q, Cardinality(AskedBy(c, n, q, j)), Cardinality(TakenBy(c, n, q, j)))
  BY <1>8, <1>11 DEF T
<1>13. \A j \in 1 .. N : h[j] = h[j - 1] \o Lower(c[j])
  BY <1>3, <1>6
<1> QED
  BY <1>1, <1>6, <1>12, <1>13 DEF LoweredUpTo

(* Lowering code of the passes gives as many tokens as it takes, and each  *)
(* one is asked for before it is taken.                                    *)
LEMMA LoweringBalances ==
    ASSUME NEW c, NEW n, Compiled(c, n), NEW q \in Coord, NEW x,
           x = FlattenSeq([k \in DOMAIN c |-> Lower(c[k])])
    PROVE  \E a \in Nat : Lowered(x, q, a, a)
<1>1. PICK N : N = Len(c) /\ N \in Nat /\ N \in 0 .. N
  BY LenIs DEF Compiled, CodeOK, IsCode
<1>2. PICK h : LoweredUpTo(h, c, n, q, x)
  BY LoweringSteps
<1>3. AskedBy(c, n, q, N) = TakenBy(c, n, q, N)
  <2>1. \A i \in 1 .. n : (\E k \in 1 .. N : AtWait(c, k, i)) <=> i \in Tokened(dmaOps, n)
    BY <1>1 DEF Compiled, Awaited
  <2>2. \A i \in 1 .. n : \E k \in 1 .. N : AtDma(c, k, i)
    BY <1>1 DEF Compiled, CodeOK, DmasInOrder
  <2>3. Tokened(dmaOps, n) \subseteq 1 .. n
    BY DEF Tokened
  <2> QED
    BY <2>1, <2>2, <2>3 DEF AskedBy, TakenBy
<1>4. PICK a : a = Cardinality(AskedBy(c, n, q, N)) /\ a = Cardinality(TakenBy(c, n, q, N))
  BY <1>3
<1>5. a \in Nat
  BY <1>1, <1>4, CountsOf
<1>6. Lowered(x, q, a, a)
  BY <1>1, <1>2, <1>4 DEF LoweredUpTo
<1> QED
  BY <1>5, <1>6

-----------------------------------------------------------------------------
(* The account of the tokens: at port p there are tokens, and tasks that   *)
(* will still give one; the instructions that are left ask for more, and   *)
(* take them all.                                                          *)
QTask == [bd : BdId, token : BOOLEAN]
Owing == {t \in QTask : t.token}
Pending(p) == Upto(queue[p], Len(queue[p]), Owing)
                + One(active[p] # NoTask /\ active[p].token)
Owed(p) == tokens[p] + Pending(p)

Balanced(s, o, p) ==
    /\ o + Upto(s, Len(s), Tickets(p)) = Upto(s, Len(s), Syncs(p))
    /\ \A m \in 0 .. Len(s) : Upto(s, m, Syncs(p)) <= o + Upto(s, m, Tickets(p))

DeviceTyped ==
    /\ instrs \in Seq(Instr)
    /\ bdTable \in [Tile -> [BdId -> Desc]]
    /\ queue \in [Port -> Seq(QTask)]
    /\ active \in [Port -> Task \cup {NoTask}]
    /\ tokens \in [Port -> Nat]
DeviceIdle == instrs = <<>> /\ \A p \in Port : queue[p] = <<>> /\ active[p] = NoTask /\ tokens[p] = 0
TokenAccount == /\ DeviceTyped
                /\ stage # "run" => DeviceIdle
                /\ \A p \in Port : Balanced(instrs, Owed(p), p)

(* The account is one of numbers.                                          *)
LEMMA OweNat ==
    ASSUME DeviceTyped, NEW p \in Port
    PROVE  /\ queue[p] \in Seq(QTask) /\ IsSeq(queue[p]) /\ Len(queue[p]) \in Nat
           /\ active[p] \in Task \cup {NoTask} /\ tokens[p] \in Nat
           /\ Pending(p) \in Nat /\ Owed(p) \in Nat
<1>1. queue[p] \in Seq(QTask) /\ active[p] \in Task \cup {NoTask} /\ tokens[p] \in Nat
  BY DEF DeviceTyped
<1>2. IsSeq(queue[p]) /\ Len(queue[p]) \in Nat
  BY <1>1, SeqIsSeq, LenIs
<1>3. Upto(queue[p], Len(queue[p]), Owing) \in Nat
  BY <1>2, UptoNat
<1>4. One(active[p] # NoTask /\ active[p].token) \in Nat
  BY DEF One
<1> QED
  BY <1>1, <1>2, <1>3, <1>4 DEF Pending, Owed

\* Executing the first instruction.
LEMMA BalancedTail ==
    ASSUME NEW s \in Seq(Instr), s # <<>>, NEW p, NEW o \in Nat, Balanced(s, o, p),
           NEW o1 \in Nat, o1 = o + One(s[1] \in Tickets(p)) - One(s[1] \in Syncs(p))
    PROVE  Balanced(Tail(s), o1, p)
<1>1. PICK t, n, E, F : t = Tail(s) /\ n = Len(t) /\ E = Tickets(p) /\ F = Syncs(p)
  OBVIOUS
<1>2. IsSeq(s)
  BY SeqIsSeq
<1>3. n \in Nat /\ Len(s) = n + 1 /\ n = Len(s) - 1
  <2>1. Len(s) \in Nat \ {0}
    BY <1>2, LenIs
  <2>2. Len(Tail(s)) = Len(s) - 1
    BY <1>2, TailIs
  <2> QED
    BY <1>1, <2>1, <2>2
<1>4. \A D : \A m \in 0 .. n : Upto(s, m + 1, D) = One(s[1] \in D) + Upto(t, m, D)
  BY <1>1, <1>2, <1>3, UptoTail
<1>5. n \in 0 .. n /\ \A m \in 0 .. n : m + 1 \in 0 .. Len(s) /\ m \in Nat
  BY <1>3
<1>6. \A D : One(s[1] \in D) \in Nat /\ \A m \in 0 .. n : Upto(t, m, D) \in Nat
  BY <1>5, UptoNat DEF One
<1>7. /\ o + Upto(s, n + 1, E) = Upto(s, n + 1, F)
      /\ \A m \in 0 .. n : Upto(s, m + 1, F) <= o + Upto(s, m + 1, E)
  BY <1>1, <1>3, <1>5 DEF Balanced
<1>8. o1 + Upto(t, n, E) = Upto(t, n, F)
  <2>1. PICK e, f, x, y : /\ e = One(s[1] \in E) /\ f = One(s[1] \in F)
                          /\ x = Upto(t, n, E) /\ y = Upto(t, n, F)
    OBVIOUS
  <2>2. Upto(s, n + 1, E) = e + x /\ Upto(s, n + 1, F) = f + y
    BY <1>4, <1>5, <2>1
  <2>3. e \in Nat /\ f \in Nat /\ x \in Nat /\ y \in Nat
    BY <1>5, <1>6, <2>1
  <2>4. o1 = o + e - f
    BY <1>1, <2>1
  <2>5. o + (e + x) = f + y
    BY <1>7, <2>2
  <2>6. o1 + x = y
    BY ONLY <2>3, <2>4, <2>5, o \in Nat
  <2> QED
    BY <2>1, <2>6
<1>9. ASSUME NEW m \in 0 .. n PROVE Upto(t, m, F) <= o1 + Upto(t, m, E)
  <2>1. /\ Upto(s, m + 1, E) = One(s[1] \in E) + Upto(t, m, E)
        /\ Upto(s, m + 1, F) = One(s[1] \in F) + Upto(t, m, F)
    BY <1>4
  <2>2. /\ One(s[1] \in E) \in Nat /\ One(s[1] \in F) \in Nat
        /\ Upto(t, m, E) \in Nat /\ Upto(t, m, F) \in Nat
    BY <1>6
  <2>3. o1 = o + One(s[1] \in E) - One(s[1] \in F)
    BY <1>1
  <2>4. Upto(s, m + 1, F) <= o + Upto(s, m + 1, E)
    BY <1>7
  <2>5. PICK e, f, x, y \in Nat : /\ e = One(s[1] \in E) /\ f = One(s[1] \in F)
                                  /\ x = Upto(t, m, E) /\ y = Upto(t, m, F)
    BY <2>2
  <2>6. o1 = o + e - f /\ f + y <= o + (e + x)
    BY <2>1, <2>3, <2>4, <2>5
  <2>7. y <= o1 + x
    BY ONLY <2>6, o \in Nat, e \in Nat, f \in Nat, x \in Nat, y \in Nat
  <2> QED
    BY <2>5, <2>7
<1> QED
  BY <1>1, <1>8, <1>9 DEF Balanced

\* The first instruction tells its kind.
LEMMA FirstIs ==
    ASSUME NEW s \in Seq(Instr), s # <<>>
    PROVE  /\ Head(s) = s[1] /\ Tail(s) \in Seq(Instr) /\ 1 \in 1 .. Len(s)
           /\ s[1] \in Instr
           /\ s[1].kind = "write" => s[1] \in WriteRec
           /\ s[1].kind = "push" => s[1] \in PushRec
           /\ s[1].kind = "sync" => s[1] \in SyncRec
<1>1. IsSeq(s)
  BY SeqIsSeq
<1>2. Len(s) \in Nat \ {0} /\ Head(s) = s[1]
  BY <1>1, LenIs, TailIs
<1>3. 1 \in 1 .. Len(s)
  BY <1>2
<1>4. s[1] \in Instr
  BY <1>3, LenProperties
<1>5. Tail(s) \in Seq(Instr)
  BY HeadTailProperties
<1>6. \A e \in WriteRec : e.kind = "write"
  BY DEF WriteRec
<1>7. \A e \in PushRec : e.kind = "push"
  BY DEF PushRec
<1>8. \A e \in SyncRec : e.kind = "sync"
  BY DEF SyncRec
<1>9. "write" # "push" /\ "write" # "sync" /\ "push" # "sync"
  OBVIOUS
<1> QED
  BY <1>2, <1>3, <1>4, <1>5, <1>6, <1>7, <1>8, <1>9 DEF Instr

(* Before the control code is lowered nothing is owed.                     *)
LEMMA AccountStarts == Init => TokenAccount
<1> SUFFICES ASSUME Init PROVE TokenAccount
  OBVIOUS
<1>1. ShimInit
  BY DEF Init
<1>2. DeviceTyped
  <2>1. <<>> \in Seq(Instr) /\ <<>> \in Seq(QTask)
    BY EmptySeq
  <2>2. EmptyBd \in Desc
    BY DEF EmptyBd, Desc
  <2> QED
    BY <1>1, <2>1, <2>2 DEF ShimInit, DeviceTyped
<1>3. DeviceIdle
  BY <1>1 DEF ShimInit, DeviceIdle
<1>4. ASSUME NEW p \in Port PROVE Balanced(instrs, Owed(p), p)
  <2>1. Len(instrs) = 0 /\ Len(queue[p]) = 0 /\ tokens[p] = 0 /\ 0 \in Nat
    BY <1>3, EmptyIs DEF DeviceIdle
  <2>2. \A s, D : Upto(s, 0, D) = 0
    BY <2>1, UptoNat
  <2>3. Owed(p) = 0
    BY <1>3, <2>1, <2>2 DEF Owed, Pending, One, DeviceIdle
  <2>4. \A m \in 0 .. 0 : m = 0
    OBVIOUS
  <2> QED
    BY <2>1, <2>2, <2>3, <2>4 DEF Balanced
<1> QED
  BY <1>2, <1>3, <1>4 DEF TokenAccount

(* Writing a BD moves no token.                                            *)
LEMMA WriteKeepsAccount ==
    ASSUME TokenAccount, ExecuteWriteBd
    PROVE  TokenAccount'
<1>1. PICK s, w : s = instrs /\ w = s[1]
  OBVIOUS
<1>2. /\ stage = "run" /\ s # <<>> /\ s \in Seq(Instr) /\ instrs' = Tail(s) /\ stage' = stage
      /\ w \in WriteRec /\ w \in Instr /\ Tail(s) \in Seq(Instr)
      /\ UNCHANGED <<queue, active, tokens>>
      /\ bdTable' = [bdTable EXCEPT ![w.tile][w.bd] = w.desc]
  BY <1>1, FirstIs DEF TokenAccount, DeviceTyped, ExecuteWriteBd, Issue, codeVars
<1>3. DeviceTyped'
  <2>1. w.tile \in Tile /\ w.bd \in BdId /\ w.desc \in Desc
    BY <1>2 DEF WriteRec
  <2>2. bdTable' \in [Tile -> [BdId -> Desc]]
    BY <1>2, <2>1 DEF TokenAccount, DeviceTyped
  <2> QED
    BY <1>2, <2>2 DEF TokenAccount, DeviceTyped
<1>4. ASSUME NEW p \in Port PROVE Balanced(instrs', Owed(p)', p)
  <2>1. PICK o \in Nat : o = Owed(p)
    BY OweNat DEF TokenAccount
  <2>2. Owed(p)' = o
    BY <1>2, <2>1 DEF Owed, Pending
  <2>3. w \notin Tickets(p) /\ w \notin Syncs(p)
    BY <1>2, KindsDiffer
  <2>4. o = o + One(s[1] \in Tickets(p)) - One(s[1] \in Syncs(p))
    BY <1>1, <2>3 DEF One
  <2>5. Balanced(s, o, p)
    BY <1>1, <2>1 DEF TokenAccount
  <2>6. Balanced(Tail(s), o, p)
    BY <1>2, <2>4, <2>5, BalancedTail
  <2> QED
    BY <1>2, <2>2, <2>6
<1> QED
  BY <1>2, <1>3, <1>4 DEF TokenAccount

(* A push moves what its port owes from the instructions to the queue.     *)
LEMMA PushKeepsAccount ==
    ASSUME TokenAccount, ExecutePush
    PROVE  TokenAccount'
<1>1. PICK s, w, t : s = instrs /\ w = s[1] /\ t = [bd |-> w.bd, token |-> w.token]
  OBVIOUS
<1>2. /\ stage = "run" /\ s # <<>> /\ s \in Seq(Instr) /\ instrs' = Tail(s) /\ stage' = stage
      /\ w \in PushRec /\ w \in Instr /\ Tail(s) \in Seq(Instr)
      /\ UNCHANGED <<bdTable, active, tokens>>
      /\ queue' = [queue EXCEPT ![w.port] = Append(@, t)]
  BY <1>1, FirstIs DEF TokenAccount, DeviceTyped, ExecutePush, Issue, codeVars
<1>3. w.port \in Port /\ w.bd \in BdId /\ w.token \in BOOLEAN /\ t \in QTask
      /\ (t \in Owing <=> w.token)
  <2>1. w.port \in Port /\ w.bd \in BdId /\ w.token \in BOOLEAN
    BY <1>2 DEF PushRec
  <2>2. t \in QTask /\ t.token = w.token
    BY <1>1, <2>1 DEF QTask
  <2> QED
    BY <2>1, <2>2 DEF Owing
<1>4. DeviceTyped'
  <2>1. \A p \in Port : queue[p] \in Seq(QTask) /\ Append(queue[p], t) \in Seq(QTask)
    BY <1>3, AppendProperties DEF TokenAccount, DeviceTyped
  <2>2. queue' \in [Port -> Seq(QTask)]
    BY <1>2, <1>3, <2>1 DEF TokenAccount, DeviceTyped
  <2> QED
    BY <1>2, <2>2 DEF TokenAccount, DeviceTyped
<1>5. ASSUME NEW p \in Port PROVE Balanced(instrs', Owed(p)', p)
  <2>1. PICK o \in Nat, q \in Seq(QTask) : o = Owed(p) /\ q = queue[p]
    BY OweNat DEF TokenAccount
  <2>2. w \notin Syncs(p) /\ (w \in Tickets(p) <=> p = w.port /\ w.token)
    BY <1>2, KindsDiffer DEF Tickets
  <2>3. /\ IsSeq(q) /\ Len(q) \in Nat /\ tokens[p] \in Nat
        /\ Upto(q, Len(q), Owing) \in Nat
        /\ One(active[p] # NoTask /\ active[p].token) \in Nat
    BY <2>1, OweNat, UptoNat DEF TokenAccount, One
  <2>4. PICK a, b \in Nat : a = Upto(q, Len(q), Owing) /\ b = One(active[p] # NoTask /\ active[p].token)
    BY <2>3
  <2>5. o = tokens[p] + (a + b)
    BY <2>1, <2>4 DEF Owed, Pending
  <2>6. Owed(p)' = tokens[p] + (Upto(queue'[p], Len(queue'[p]), Owing) + b)
    BY <1>2, <2>4 DEF Owed, Pending
  <2>7. Owed(p)' = o + One(w \in Tickets(p))
    <3>1. CASE p = w.port
      <4>1. queue'[p] = Append(q, t)
        BY <1>2, <1>3, <2>1, <3>1 DEF TokenAccount, DeviceTyped
      <4>2. Len(Append(q, t)) = Len(q) + 1
        BY <2>3, AppendIs
      <4>3. Upto(Append(q, t), Len(q) + 1, Owing) = a + One(t \in Owing)
        BY <2>3, <2>4, UptoAppend
      <4>4. PICK e \in Nat : e = One(w \in Tickets(p)) /\ e = One(t \in Owing)
        BY <1>3, <2>2, <3>1 DEF One
      <4>5. Owed(p)' = tokens[p] + ((a + e) + b)
        BY <2>6, <4>1, <4>2, <4>3, <4>4
      <4>6. Owed(p)' = o + e
        BY ONLY <2>3, <2>5, <4>5, a \in Nat, b \in Nat, e \in Nat
      <4> QED
        BY <4>4, <4>6
    <3>2. CASE p # w.port
      <4>1. queue'[p] = q
        BY <1>2, <2>1, <3>2 DEF TokenAccount, DeviceTyped
      <4>2. One(w \in Tickets(p)) = 0
        BY <2>2, <3>2 DEF One
      <4> QED
        BY <2>3, <2>4, <2>5, <2>6, <4>1, <4>2
    <3> QED
      BY <3>1, <3>2
  <2>8. PICK o1 : o1 = Owed(p)'
    OBVIOUS
  <2>9. o1 \in Nat /\ o1 = o + One(s[1] \in Tickets(p)) - One(s[1] \in Syncs(p))
    <3>1. One(w \in Tickets(p)) \in Nat /\ One(w \in Syncs(p)) = 0
      BY <2>2 DEF One
    <3> QED
      BY <1>1, <2>7, <2>8, <3>1
  <2>10. Balanced(s, o, p)
    BY <1>1, <2>1 DEF TokenAccount
  <2>11. Balanced(Tail(s), o1, p)
    BY <1>2, <2>9, <2>10, BalancedTail
  <2> QED
    BY <1>2, <2>8, <2>11
<1> QED
  BY <1>2, <1>4, <1>5 DEF TokenAccount

(* A sync takes tokens that are there.                                     *)
LEMMA SyncKeepsAccount ==
    ASSUME TokenAccount, ExecuteSync
    PROVE  TokenAccount'
<1>1. PICK s, w, ports : /\ s = instrs /\ w = s[1]
        /\ ports = {<<w.port[1] + k, w.port[2], w.port[3]>> : k \in 0 .. w.colNum - 1}
  OBVIOUS
<1>2. /\ stage = "run" /\ s # <<>> /\ s \in Seq(Instr) /\ instrs' = Tail(s) /\ stage' = stage
      /\ w \in SyncRec /\ w \in Instr /\ Tail(s) \in Seq(Instr)
      /\ UNCHANGED <<bdTable, queue, active>>
      /\ \A q \in ports : tokens[q] > 0
      /\ tokens' = [q \in Port |-> IF q \in ports THEN tokens[q] - 1 ELSE tokens[q]]
  <2>1. /\ stage = "run" /\ s # <<>> /\ Head(s).kind = "sync" /\ instrs' = Tail(s)
        /\ stage' = stage
    BY <1>1 DEF ExecuteSync, Issue, codeVars
  <2>2. s \in Seq(Instr)
    BY <1>1 DEF TokenAccount, DeviceTyped
  <2>3. Head(s) = w /\ w \in SyncRec /\ w \in Instr /\ Tail(s) \in Seq(Instr)
    BY <1>1, <2>1, <2>2, FirstIs
  <2>4. UNCHANGED <<bdTable, queue, active>>
    BY DEF ExecuteSync
  <2>5. /\ \A q \in ports : tokens[q] > 0
        /\ tokens' = [q \in Port |-> IF q \in ports THEN tokens[q] - 1 ELSE tokens[q]]
    <3>1. Head(instrs) = w
      BY <1>1, <2>3
    <3> QED
      BY <1>1, <3>1 DEF ExecuteSync
  <2> QED
    BY <2>1, <2>2, <2>3, <2>4, <2>5
<1>3. \A q \in Port : tokens[q] \in Nat
  BY DEF TokenAccount, DeviceTyped
<1>4. DeviceTyped'
  <2>1. tokens' \in [Port -> Nat]
    BY <1>2, <1>3
  <2> QED
    BY <1>2, <2>1 DEF TokenAccount, DeviceTyped
<1>5. ASSUME NEW p \in Port PROVE Balanced(instrs', Owed(p)', p)
  <2>1. PICK o, b \in Nat : o = Owed(p) /\ b = Pending(p) /\ o = tokens[p] + b
    BY OweNat DEF TokenAccount, Owed
  <2>2. w \notin Tickets(p) /\ (w \in Syncs(p) <=> p \in ports)
    BY <1>1, <1>2, KindsDiffer DEF Syncs, Covers
  <2>3. Pending(p)' = b
    BY <1>2, <2>1 DEF Pending
  <2>4. PICK o1 : o1 = Owed(p)'
    OBVIOUS
  <2>5. o1 = tokens'[p] + b
    BY <2>3, <2>4 DEF Owed
  <2>6. o1 \in Nat /\ o1 = o - One(w \in Syncs(p))
    <3>1. CASE p \in ports
      <4>1. tokens'[p] = tokens[p] - 1 /\ tokens[p] > 0
        BY <1>2, <3>1
      <4>2. One(w \in Syncs(p)) = 1
        BY <2>2, <3>1 DEF One
      <4> QED
        BY <1>3, <2>1, <2>5, <4>1, <4>2
    <3>2. CASE p \notin ports
      <4>1. tokens'[p] = tokens[p]
        BY <1>2, <3>2
      <4>2. One(w \in Syncs(p)) = 0
        BY <2>2, <3>2 DEF One
      <4> QED
        BY <1>3, <2>1, <2>5, <4>1, <4>2
    <3> QED
      BY <3>1, <3>2
  <2>7. o1 = o + One(s[1] \in Tickets(p)) - One(s[1] \in Syncs(p))
    <3>1. One(w \in Tickets(p)) = 0 /\ One(w \in Syncs(p)) \in Nat
      BY <2>2 DEF One
    <3> QED
      BY <1>1, <2>6, <3>1
  <2>8. Balanced(s, o, p)
    BY <1>1, <2>1 DEF TokenAccount
  <2>9. Balanced(Tail(s), o1, p)
    BY <1>2, <2>6, <2>7, <2>8, BalancedTail
  <2> QED
    BY <1>2, <2>4, <2>9
<1> QED
  BY <1>2, <1>4, <1>5 DEF TokenAccount

(* A started task owes what it owed in the queue.                          *)
LEMMA StartKeepsAccount ==
    ASSUME TokenAccount, stage = "run", NEW r \in Port, StartTask(r)
    PROVE  TokenAccount'
<1>1. PICK q, t : q = queue[r] /\ t = Head(queue[r])
  OBVIOUS
<1>2. /\ active[r] = NoTask /\ q # <<>> /\ stage' = stage /\ instrs' = instrs
      /\ active' = [active EXCEPT ![r] =
            [bd |-> t.bd, token |-> t.token, desc |-> bdTable[r[1]][t.bd]]]
      /\ queue' = [queue EXCEPT ![r] = Tail(@)]
      /\ UNCHANGED <<bdTable, tokens>>
  BY <1>1 DEF StartTask, codeVars
<1>3. DeviceTyped /\ q \in Seq(QTask) /\ IsSeq(q)
  BY <1>1, OweNat DEF TokenAccount
<1>4. /\ t \in QTask /\ t = q[1] /\ IsSeq(Tail(q)) /\ Tail(q) \in Seq(QTask)
      /\ Len(Tail(q)) = Len(q) - 1 /\ Len(q) \in Nat \ {0}
  <2>1. Len(q) \in Nat \ {0} /\ Len(Tail(q)) = Len(q) - 1 /\ t = q[1] /\ IsSeq(Tail(q))
    BY <1>1, <1>2, <1>3, TailIs, LenIs
  <2>2. q[1] \in QTask
    <3>1. 1 \in 1 .. Len(q)
      BY <2>1
    <3> QED
      BY <1>3, <3>1, LenProperties
  <2>3. Tail(q) \in Seq(QTask)
    BY <1>2, <1>3, HeadTailProperties
  <2> QED
    BY <2>1, <2>2, <2>3
<1>5. PICK a : a = [bd |-> t.bd, token |-> t.token, desc |-> bdTable[r[1]][t.bd]]
  OBVIOUS
<1>6. t.bd \in BdId /\ t.token \in BOOLEAN
  BY <1>4 DEF QTask
<1>7. a \in Task /\ a.token = t.token /\ a # NoTask
  <2>1. r[1] \in Tile
    <3>1. PICK c \in Connection : r = PortOn(c)
      BY DEF Port, PortOn
    <3> QED
      BY <3>1, PortIs DEF Tile
  <2>2. bdTable[r[1]][t.bd] \in Desc
    BY <1>3, <1>6, <2>1 DEF DeviceTyped
  <2>3. a \in Task
    BY <1>5, <1>6, <2>2 DEF Task, Desc
  <2> QED
    BY <1>5, <2>3, NoTaskAssumption
<1>8. DeviceTyped'
  <2>1. active' \in [Port -> Task \cup {NoTask}]
    BY <1>2, <1>3, <1>5, <1>7 DEF DeviceTyped
  <2>2. queue' \in [Port -> Seq(QTask)]
    BY <1>1, <1>2, <1>3, <1>4 DEF DeviceTyped
  <2> QED
    BY <1>2, <1>3, <2>1, <2>2 DEF DeviceTyped
<1>9. ASSUME NEW p \in Port PROVE Owed(p)' = Owed(p)
  <2>1. CASE p = r
    <3>1. queue'[p] = Tail(q) /\ active'[p] = a
      BY <1>1, <1>2, <1>3, <1>5, <2>1 DEF DeviceTyped
    <3>12. PICK L \in Nat \ {0} : L = Len(q)
      BY <1>4
    <3>2. PICK n \in Nat : n = Len(q) - 1
      BY <3>12
    <3>3. \A m \in 0 .. n : Upto(q, m + 1, Owing) = One(q[1] \in Owing) + Upto(Tail(q), m, Owing)
      BY <1>2, <1>3, <3>2, UptoTail
    <3>4. n \in 0 .. n /\ n + 1 = Len(q) /\ n = Len(Tail(q))
      BY <1>4, <3>2
    <3>5. Upto(q, Len(q), Owing) = One(q[1] \in Owing) + Upto(Tail(q), n, Owing)
      BY <3>3, <3>4
    <3>6. One(q[1] \in Owing) = One(active'[p] # NoTask /\ active'[p].token)
      <4>1. q[1] \in Owing <=> t.token
        BY <1>4 DEF Owing
      <4>2. (active'[p] # NoTask /\ active'[p].token) <=> t.token
        BY <1>7, <3>1
      <4> QED
        BY <4>1, <4>2 DEF One
    <3>7. One(active[p] # NoTask /\ active[p].token) = 0
      BY <1>2, <2>1 DEF One
    <3>8. Upto(Tail(q), n, Owing) \in Nat /\ One(q[1] \in Owing) \in Nat
      BY <3>2, UptoNat DEF One
    <3>9. Pending(p) = One(q[1] \in Owing) + Upto(Tail(q), n, Owing)
      BY <1>1, <2>1, <3>5, <3>7, <3>8 DEF Pending
    <3>10. Pending(p)' = Upto(Tail(q), n, Owing) + One(q[1] \in Owing)
      BY <3>1, <3>4, <3>6 DEF Pending
    <3>11. Pending(p)' = Pending(p)
      BY <3>8, <3>9, <3>10
    <3> QED
      BY <1>2, <3>11 DEF Owed
  <2>2. CASE p # r
    <3>1. queue'[p] = queue[p] /\ active'[p] = active[p]
      BY <1>2, <1>3, <2>2 DEF DeviceTyped
    <3> QED
      BY <1>2, <3>1 DEF Owed, Pending
  <2> QED
    BY <2>1, <2>2
<1> QED
  BY <1>2, <1>8, <1>9 DEF TokenAccount

(* A linked BD goes on; the last one pays the token.                       *)
LEMMA FinishKeepsAccount ==
    ASSUME TokenAccount, stage = "run", NEW r \in Port, FinishBd(r)
    PROVE  TokenAccount'
<1>1. PICK a : a = active[r]
  OBVIOUS
<1>2. /\ a # NoTask /\ stage' = stage /\ instrs' = instrs /\ UNCHANGED <<bdTable, queue>>
      /\ IF a.desc.next # NoBd
         THEN /\ active' = [active EXCEPT ![r] =
                   [a EXCEPT !.bd = a.desc.next, !.desc = bdTable[r[1]][a.desc.next]]]
              /\ tokens' = tokens
         ELSE /\ active' = [active EXCEPT ![r] = NoTask]
              /\ tokens' = [tokens EXCEPT ![r] = IF a.token THEN @ + 1 ELSE @]
  BY <1>1 DEF FinishBd, codeVars
<1>3. DeviceTyped /\ a \in Task /\ \A p \in Port : tokens[p] \in Nat
  BY <1>1, <1>2 DEF TokenAccount, DeviceTyped
<1>4. a.bd \in BdId /\ a.token \in BOOLEAN /\ a.desc \in Desc /\ a.desc.next \in BdId \cup {NoBd}
      /\ a = [bd |-> a.bd, token |-> a.token, desc |-> a.desc]
  BY <1>3 DEF Task, Desc
<1>5. CASE a.desc.next # NoBd
  <2>1. PICK x, y, e : /\ x = a.desc.next /\ y = bdTable[r[1]][a.desc.next]
                       /\ e = [a EXCEPT !.bd = x, !.desc = y]
    OBVIOUS
  <2>3. active' = [active EXCEPT ![r] = e] /\ tokens' = tokens
    BY <1>2, <1>5, <2>1
  <2>4. e \in Task /\ e.token = a.token /\ e # NoTask
    <3>1. r[1] \in Tile
      <4>1. PICK c \in Connection : r = PortOn(c)
        BY DEF Port, PortOn
      <4> QED
        BY <4>1, PortIs DEF Tile
    <3>2. x \in BdId
      BY <1>4, <1>5, <2>1
    <3>3. y \in Desc
      BY <1>3, <2>1, <3>1, <3>2 DEF DeviceTyped
    <3>4. a \in [bd : BdId, token : BOOLEAN, desc : Desc]
      BY <1>3 DEF Task, Desc
    <3>5. e \in [bd : BdId, token : BOOLEAN, desc : Desc] /\ e.token = a.token
      BY ONLY <2>1, <3>2, <3>3, <3>4
    <3>6. e \in Task
      BY <3>5 DEF Task, Desc
    <3> QED
      BY <3>5, <3>6, NoTaskAssumption
  <2>5. DeviceTyped'
    <3>1. active' \in [Port -> Task \cup {NoTask}]
      BY <1>3, <2>3, <2>4 DEF DeviceTyped
    <3> QED
      BY <1>2, <1>3, <2>3, <3>1 DEF DeviceTyped
  <2>6. ASSUME NEW p \in Port PROVE Owed(p)' = Owed(p)
    <3>1. (active'[p] # NoTask /\ active'[p].token) <=> (active[p] # NoTask /\ active[p].token)
      <4>1. CASE p = r
        <5>1. active'[p] = e
          BY <1>3, <2>3, <4>1 DEF DeviceTyped
        <5> QED
          BY <1>1, <1>2, <2>4, <4>1, <5>1
      <4>2. CASE p # r
        BY <1>3, <2>3, <4>2 DEF DeviceTyped
      <4> QED
        BY <4>1, <4>2
    <3>2. One(active'[p] # NoTask /\ active'[p].token) = One(active[p] # NoTask /\ active[p].token)
      BY <3>1 DEF One
    <3>3. queue' = queue /\ tokens' = tokens
      BY <1>2, <2>3
    <3>4. Pending(p)' = Upto(queue[p], Len(queue[p]), Owing) + One(active'[p] # NoTask /\ active'[p].token)
      BY <3>3 DEF Pending
    <3> QED
      BY <3>2, <3>3, <3>4 DEF Owed, Pending
  <2> QED
    BY <1>2, <2>5, <2>6 DEF TokenAccount
<1>6. CASE a.desc.next = NoBd
  <2>1. /\ active' = [active EXCEPT ![r] = NoTask]
        /\ tokens' = [tokens EXCEPT ![r] = IF a.token THEN @ + 1 ELSE @]
    BY <1>2, <1>6
  <2>2. DeviceTyped'
    <3>1. active' \in [Port -> Task \cup {NoTask}]
      BY <1>3, <2>1 DEF DeviceTyped
    <3>2. tokens' \in [Port -> Nat]
      BY <1>3, <2>1 DEF DeviceTyped
    <3> QED
      BY <1>2, <1>3, <3>1, <3>2 DEF DeviceTyped
  <2>3. ASSUME NEW p \in Port PROVE Owed(p)' = Owed(p)
    <3>1. CASE p = r
      <4>1. active'[p] = NoTask /\ tokens'[p] = IF a.token THEN tokens[p] + 1 ELSE tokens[p]
        BY <1>3, <2>1, <3>1 DEF DeviceTyped
      <4>2. PICK n \in Nat : n = Upto(queue[p], Len(queue[p]), Owing)
        BY <1>3, OweNat, UptoNat
      <4>3. One(active'[p] # NoTask /\ active'[p].token) = 0
        BY <4>1 DEF One
      <4>4. One(active[p] # NoTask /\ active[p].token) = IF a.token THEN 1 ELSE 0
        BY <1>1, <1>2, <3>1 DEF One
      <4>5. Owed(p)' = tokens'[p] + (n + 0)
        <5>1. queue' = queue
          BY <1>2
        <5> QED
          BY <4>2, <4>3, <5>1 DEF Owed, Pending
      <4>6. Owed(p) = tokens[p] + (n + (IF a.token THEN 1 ELSE 0))
        BY <4>2, <4>4 DEF Owed, Pending
      <4> QED
        BY <1>3, <4>1, <4>5, <4>6
    <3>2. CASE p # r
      <4>1. active'[p] = active[p] /\ tokens'[p] = tokens[p] /\ queue' = queue
        BY <1>2, <1>3, <2>1, <3>2 DEF DeviceTyped
      <4> QED
        BY <4>1 DEF Owed, Pending
    <3> QED
      BY <3>1, <3>2
  <2> QED
    BY <1>2, <2>2, <2>3 DEF TokenAccount
<1> QED
  BY <1>5, <1>6

(* The lowered code asks each port for what it takes from it.              *)
LEMMA LoweringKeepsAccount ==
    ASSUME PassInv, TokenAccount, ControlCodeLowering
    PROVE  TokenAccount'
<1>1. PICK n, x : n = NumDmas /\ x = FlattenSeq([k \in DOMAIN code |-> Lower(code[k])])
  OBVIOUS
<1>2. Compiled(code, n)
  BY <1>1 DEF PassInv, PassOK, Compiled, DmasReady
<1>3. /\ instrs' = x /\ stage = "lower" /\ stage' = "run"
      /\ UNCHANGED <<bdTable, queue, active, tokens>>
  BY <1>1 DEF ControlCodeLowering, deviceVars
<1>4. DeviceIdle
  BY <1>3 DEF TokenAccount
<1>5. x \in Seq(Instr)
  <2>1. <<0, 0, 0>> \in Coord
    BY DEF Coord
  <2>2. \E a \in Nat : Lowered(x, <<0, 0, 0>>, a, a)
    BY <1>1, <1>2, <2>1, LoweringBalances
  <2> QED
    BY <2>2 DEF Lowered
<1>6. DeviceTyped'
  BY <1>3, <1>5 DEF TokenAccount, DeviceTyped
<1>7. ASSUME NEW p \in Port PROVE Balanced(x, Owed(p)', p)
  <2>1. p \in Coord
    BY PortsAre
  <2>2. PICK a \in Nat : Lowered(x, p, a, a)
    BY <1>1, <1>2, <2>1, LoweringBalances
  <2>3. Owed(p)' = 0
    <3>1. queue'[p] = <<>> /\ active'[p] = NoTask /\ tokens'[p] = 0 /\ Len(<<>>) = 0 /\ 0 \in Nat
      BY <1>3, <1>4, EmptyIs DEF DeviceIdle
    <3>2. Upto(queue'[p], 0, Owing) = 0
      BY <3>1, UptoNat
    <3> QED
      BY <3>1, <3>2 DEF Owed, Pending, One
  <2>4. Len(x) \in Nat /\ IsSeq(x)
    BY <1>5, SeqIsSeq, LenIs
  <2>5. \A m \in 0 .. Len(x) : Upto(x, m, Tickets(p)) \in Nat
    <3>1. \A m \in 0 .. Len(x) : m \in Nat
      BY <2>4
    <3> QED
      BY <3>1, UptoNat
  <2> QED
    BY <2>2, <2>3, <2>5 DEF Lowered, NoEarlySync, Balanced
<1> QED
  BY <1>3, <1>6, <1>7 DEF TokenAccount

(* At every port, the tokens there and those its tasks will still give     *)
(* are exactly the ones that the rest of the control code takes without    *)
(* asking for them.                                                        *)
THEOREM TokenAccountInvariant == Spec => []TokenAccount
<1>1. Init => TokenAccount
  BY AccountStarts
<1>2. ASSUME TokenAccount, PassInv, [Next]_vars PROVE TokenAccount'
  <2>1. CASE UNCHANGED <<instrs, deviceVars>> /\ (stage = "run" <=> stage' = "run")
    BY <1>2, <2>1 DEF TokenAccount, DeviceTyped, DeviceIdle, Owed, Pending, deviceVars
  <2>2. CASE ControlCodeLowering
    BY <1>2, <2>2, LoweringKeepsAccount
  <2>3. CASE ChainNext /\ UNCHANGED <<foldVars, shimVars, source>>
    <3>1. stage = "chain" /\ stage' \in {"chain", "queue"}
      BY <2>3 DEF ChainNext, VisitDma, VisitRepeatDma, VisitBarrier, VisitOther, FinishChains
    <3> QED
      BY <2>1, <2>3, <3>1 DEF shimVars
  <2>4. CASE (SkipFold \/ FoldNext) /\ UNCHANGED <<chainVars, shimVars, source>>
    <3>1. stage \in {"queue", "batch"} /\ stage' \in {"queue", "batch", "lower"}
      BY <2>4 DEF SkipFold, FoldNext, VisitWaitByQueue, VisitBarrierByQueue, FinishQueues,
                  VisitWaitByBatch, VisitBarrierByBatch, FinishBatches, VisitDmaByFold
    <3> QED
      BY <2>1, <2>4, <3>1 DEF shimVars
  <2>5. CASE Run
    BY <1>2, <2>5, WriteKeepsAccount, PushKeepsAccount, SyncKeepsAccount, StartKeepsAccount,
       FinishKeepsAccount DEF Run, Controller, DmaPort
  <2>6. CASE UNCHANGED vars
    BY <2>1, <2>6 DEF vars, shimVars, codeVars
  <2> QED
    BY <1>2, <2>2, <2>3, <2>4, <2>5, <2>6 DEF Next, Compile
<1> QED
  BY <1>1, <1>2, PassInvariant, PTL DEF Spec

(* When the control code ends, no token is left and no task will give one. *)
THEOREM NoTokenIsLeft == Spec => []NoTokenLeft
<1>1. TokenAccount => NoTokenLeft
  <2> SUFFICES ASSUME TokenAccount, instrs = <<>>, NEW p \in Port PROVE tokens[p] = 0
    BY DEF NoTokenLeft
  <2>1. Len(instrs) = 0 /\ 0 \in Nat
    BY EmptyIs
  <2>2. Upto(instrs, 0, Tickets(p)) = 0 /\ Upto(instrs, 0, Syncs(p)) = 0
    BY <2>1, UptoNat
  <2>3. PICK o \in Nat : o = Owed(p)
    BY OweNat DEF TokenAccount
  <2>4. o + 0 = 0
    BY <2>1, <2>2, <2>3 DEF TokenAccount, Balanced
  <2>5. tokens[p] \in Nat /\ Pending(p) \in Nat /\ o = tokens[p] + Pending(p)
    BY <2>3, OweNat DEF TokenAccount, Owed
  <2> QED
    BY <2>4, <2>5
<1> QED
  BY <1>1, TokenAccountInvariant, PTL

(* No sync waits in vain: while the controller is at a sync and one of its *)
(* ports has no token, that port has a task that ends with one.            *)
SyncIsServed ==
    \A p \in Port :
        instrs # <<>> /\ Head(instrs) \in Syncs(p) /\ tokens[p] = 0
            => \/ active[p] # NoTask /\ active[p].token
               \/ \E k \in 1 .. Len(queue[p]) : queue[p][k].token

(* This is why the controller never hangs at a sync, up to the scheduling. *)
THEOREM SyncsAreServed == Spec => []SyncIsServed
<1>1. TokenAccount => SyncIsServed
  <2> SUFFICES ASSUME TokenAccount, NEW p \in Port, instrs # <<>>, Head(instrs) \in Syncs(p),
                      tokens[p] = 0,
                      ~(active[p] # NoTask /\ active[p].token),
                      ~\E k \in 1 .. Len(queue[p]) : queue[p][k].token
               PROVE FALSE
    BY DEF SyncIsServed
  <2>1. PICK s : s = instrs /\ s \in Seq(Instr) /\ s # <<>> /\ Head(s) \in Syncs(p)
    BY DEF TokenAccount, DeviceTyped
  <2>2. s[1] \in Syncs(p) /\ 1 \in 1 .. Len(s) /\ s[1] \in SyncRec
    BY <2>1, FirstIs DEF Syncs
  <2>3. s[1] \notin Tickets(p)
    BY <2>2, KindsDiffer
  <2>4. 0 \in Nat /\ 0 + 1 = 1 /\ 1 \in 0 .. Len(s)
    BY <2>2
  <2>5. \A D : Upto(s, 1, D) = One(s[1] \in D)
    <3> SUFFICES ASSUME NEW D PROVE Upto(s, 1, D) = One(s[1] \in D)
      OBVIOUS
    <3>1. Upto(s, 0 + 1, D) = Upto(s, 0, D) + One(s[0 + 1] \in D)
      BY <2>4, UptoStep
    <3>2. Upto(s, 0, D) = 0 /\ One(s[1] \in D) \in Nat
      BY <2>4, UptoNat DEF One
    <3> QED
      BY <2>4, <3>1, <3>2
  <2>6. Upto(s, 1, Syncs(p)) = 1 /\ Upto(s, 1, Tickets(p)) = 0
    BY <2>2, <2>3, <2>5 DEF One
  <2>7. Owed(p) = 0
    <3>1. PICK q : q = queue[p]
      OBVIOUS
    <3>2. IsSeq(q) /\ Len(q) \in 0 .. Len(q) /\ Len(q) \in Nat
      BY <3>1, OweNat DEF TokenAccount
    <3>3. Without(q, Owing)
      BY <3>1 DEF Without, Owing
    <3>4. Upto(q, Len(q), Owing) = 0
      BY <3>2, <3>3, UptoNone
    <3>5. One(active[p] # NoTask /\ active[p].token) = 0
      BY DEF One
    <3> QED
      BY <3>1, <3>4, <3>5 DEF Owed, Pending
  <2>8. 1 <= 0 + 0
    BY <2>1, <2>4, <2>6, <2>7 DEF TokenAccount, Balanced
  <2> QED
    BY <2>8
<1> QED
  BY <1>1, TokenAccountInvariant, PTL

-----------------------------------------------------------------------------
(* A chain and the BDs it needs until it is pushed.  V holds the DMAs that *)
(* the walk has seen, from the end of the program.                         *)
SpanOf(ops, i, j) ==
    /\ i < j /\ ops[j].conn = ops[i].conn
    /\ ops[i].repeat = 1 /\ ops[j].repeat = 1
    /\ \A k \in i .. j - 1 :
         ops[k].conn = ops[i].conn /\ ops[k].repeat = 1 => ops[k].nextBd # NoBd
KeepsBd(ops, n, i) ==
    \A j \in 1 .. n : SpanOf(ops, i, j) =>
        \A k \in i + 1 .. j : SameTile(ops, k, i) => ops[k].bd # ops[i].bd

FromTheEnd(V, n) == V \subseteq 1 .. n /\ \A i \in V, j \in 1 .. n : j > i => j \in V
(* Chains hold DMAs that were seen, without gaps, latest first.            *)
MembersSeen(ops, ch, V) ==
    \A c \in Connection : \A i \in ToSet(ch[c]) :
        i \in V /\ ops[i].conn = c /\ ops[i].repeat = 1
NoGap(ops, ch, V) ==
    \A c \in Connection : \A i \in ToSet(ch[c]), h \in V :
        ops[h].conn = c /\ ops[h].repeat = 1 /\ h < i => h \in ToSet(ch[c])
Falling(ch) ==
    \A c \in Connection : \A k, l \in 1 .. Len(ch[c]) : k < l => ch[c][l] < ch[c][k]
(* Only chains that are closed are linked, and these own their BDs.        *)
OpenUnlinked(ops, ch, V, n) ==
    \A i \in 1 .. n : i \notin V \/ i \in ToSet(ch[ops[i].conn]) => ops[i].nextBd = NoBd
ClosedKeep(ops, ch, V, n) ==
    \A i \in V : i \notin ToSet(ch[ops[i].conn]) => KeepsBd(ops, n, i)
(* The ids of an open chain have not come round again.                     *)
NotAgain(ops, ch, V) ==
    \A c \in Connection : \A j \in ToSet(ch[c]), q \in V :
        q < j /\ ops[q].repeat = 1 /\ TileOf[ops[q].conn] = TileOf[c] => ops[q].bd # ops[j].bd
OwnsBds(ops, ch, V, n) ==
    /\ FromTheEnd(V, n) /\ MembersSeen(ops, ch, V) /\ NoGap(ops, ch, V) /\ Falling(ch)
    /\ OpenUnlinked(ops, ch, V, n) /\ ClosedKeep(ops, ch, V, n) /\ NotAgain(ops, ch, V)

(* What a step may not change of a DMA.                                    *)
SameDmas(ops, old, n) ==
    \A i \in 1 .. n : /\ ops[i].conn = old[i].conn /\ ops[i].bd = old[i].bd
                      /\ ops[i].repeat = old[i].repeat

(* Then the ids still come round in turn.                                  *)
LEMMA RotationKept ==
    ASSUME NEW n, NEW old, NEW ops, DOMAIN old = 1 .. n, DOMAIN ops = 1 .. n, n \in Nat,
           SameDmas(ops, old, n), Rotates(old)
    PROVE  Rotates(ops)
<1> SUFFICES ASSUME NEW i \in 1 .. n, NEW k \in 1 .. n, NEW j \in 1 .. n,
                    i < k, SameTile(ops, i, k), ops[i].bd = ops[k].bd, k < j, SameTile(ops, i, j)
             PROVE \E q \in i + 1 .. k : /\ SameTile(ops, i, q) /\ ops[q].bd = ops[j].bd
                                         /\ ops[q].repeat = 1
  BY DEF Rotates
<1>0. SameTile(old, i, k) /\ old[i].bd = old[k].bd /\ SameTile(old, i, j)
  BY DEF SameTile, SameDmas
<1>1. PICK q \in i + 1 .. k : SameTile(old, i, q) /\ old[q].bd = old[j].bd /\ old[q].repeat = 1
  BY <1>0 DEF Rotates
<1>2. q \in 1 .. n
  OBVIOUS
<1> QED
  BY <1>1, <1>2 DEF SameTile, SameDmas

(* A DMA that linking gives a next BD is in the chain of its connection.   *)
LEMMA InnerIn ==
    ASSUME ChainInv, DmasTyped, NEW broken, NEW i \in Inner(broken)
    PROVE  i \in 1 .. NumDmas /\ ConnOf(i) \in broken /\ i \in ToSet(chain[ConnOf(i)])
<1>1. PICK d \in broken \cap OpenChains : i \in ToSet(Tail(chain[d]))
  BY DEF Inner
<1>2. PICK u : u = chain[d] /\ d \in Connection
  BY DEF OpenChains
<1>3. u \in Seq(1 .. NumDmas) /\ u # <<>> /\ IsSeq(u)
  BY <1>1, <1>2, SeqIsSeq DEF ChainInv, ChainsKept, OpenChains, DmasTyped, TypedDmas
<1>4. /\ IsSeq(Tail(u)) /\ Len(Tail(u)) = Len(u) - 1 /\ Len(u) \in Nat \ {0}
      /\ \A k \in 1 .. Len(u) - 1 : Tail(u)[k] = u[k + 1]
  BY <1>3, TailIs, LenIs
<1>5. DOMAIN Tail(u) = 1 .. Len(u) - 1
  BY <1>4, LenIs
<1>6. PICK k \in 1 .. Len(u) - 1 : Tail(u)[k] = i
  BY <1>1, <1>2, <1>5 DEF ToSet
<1>7. k + 1 \in 1 .. Len(u) /\ DOMAIN u = 1 .. Len(u) /\ u[k + 1] = i
  BY <1>3, <1>4, <1>6, LenIs
<1>8. i \in 1 .. NumDmas
  <2>1. \A l \in 1 .. Len(u) : u[l] \in 1 .. NumDmas
    BY <1>3, LenProperties
  <2> QED
    BY <1>7, <2>1
<1>9. ConnOf(i) = d
  BY <1>2, <1>7 DEF ChainInv, ChainsOwn
<1> QED
  BY <1>1, <1>2, <1>7, <1>8, <1>9 DEF ToSet

(* The latest DMA of a chain is not linked to another one.                 *)
LEMMA TopOf ==
    ASSUME ChainInv, DmasTyped, Falling(chain), NEW c \in Connection, NEW i \in ToSet(chain[c])
    PROVE  \E t \in ToSet(chain[c]) : i <= t /\ \A broken : t \notin Inner(broken)
<1>1. PICK u : u = chain[c]
  OBVIOUS
<1>2. u \in Seq(1 .. NumDmas) /\ DOMAIN u = 1 .. Len(u) /\ Len(u) \in Nat
  BY <1>1, LenProperties DEF ChainInv, ChainsKept, DmasTyped, TypedDmas
<1>3. \A l \in 1 .. Len(u) : u[l] \in 1 .. NumDmas
  BY <1>2, LenProperties
<1>4. PICK k \in 1 .. Len(u) : u[k] = i
  BY <1>1, <1>2 DEF ToSet
<1>5. 1 \in 1 .. Len(u) /\ u # <<>>
  <2>1. Len(u) # 0
    BY <1>4
  <2> QED
    BY <1>2, <2>1, EmptyIs
<1>6. PICK t : t = u[1]
  OBVIOUS
<1>7. t \in ToSet(u) /\ t \in 1 .. NumDmas
  BY <1>2, <1>3, <1>5, <1>6 DEF ToSet
<1>8. \A l \in 1 .. Len(u) : l = 1 \/ u[l] < t
  BY <1>1, <1>2, <1>5, <1>6 DEF Falling
<1>9. i <= t
  BY <1>3, <1>4, <1>7, <1>8, <1>6 DEF DmasTyped
<1>10. ConnOf(t) = c
  BY <1>1, <1>2, <1>5, <1>6 DEF ChainInv, ChainsOwn
<1>11. ASSUME NEW broken, t \in Inner(broken) PROVE FALSE
  <2>1. PICK d \in broken \cap OpenChains : t \in ToSet(Tail(chain[d]))
    BY <1>11 DEF Inner
  <2>2. PICK v : v = chain[d] /\ d \in Connection
    BY DEF OpenChains
  <2>3. v \in Seq(1 .. NumDmas) /\ v # <<>> /\ IsSeq(v)
    BY <2>1, <2>2, SeqIsSeq DEF ChainInv, ChainsKept, OpenChains, DmasTyped, TypedDmas
  <2>4. /\ IsSeq(Tail(v)) /\ Len(Tail(v)) = Len(v) - 1 /\ Len(v) \in Nat \ {0}
        /\ \A l \in 1 .. Len(v) - 1 : Tail(v)[l] = v[l + 1]
    BY <2>3, TailIs, LenIs
  <2>5. DOMAIN Tail(v) = 1 .. Len(v) - 1
    BY <2>4, LenIs
  <2>6. PICK l \in 1 .. Len(v) - 1 : Tail(v)[l] = t
    BY <2>1, <2>2, <2>5 DEF ToSet
  <2>7. l + 1 \in 1 .. Len(v) /\ DOMAIN v = 1 .. Len(v) /\ v[l + 1] = t /\ l + 1 # 1
    BY <2>3, <2>4, <2>6, LenIs
  <2>8. d = c
    BY <1>10, <2>2, <2>7 DEF ChainInv, ChainsOwn
  <2>9. u[l + 1] = t /\ l + 1 \in 1 .. Len(u)
    BY <1>1, <2>2, <2>7, <2>8
  <2>10. t < t
    BY <1>8, <2>7, <2>9
  <2> QED
    BY <1>7, <2>10 DEF DmasTyped
<1> QED
  BY <1>1, <1>7, <1>9, <1>11

(* No DMA between two of an open chain has the id of the first: an id that *)
(* comes round is followed by all others, and the last one's would have    *)
(* broken the chain.                                                       *)
LEMMA OpenKeeps ==
    ASSUME ChainInv, NEW n, n = NumDmas, DmasTyped, NEW V, OwnsBds(dmaOps, chain, V, n),
           Rotates(dmaOps), NEW c \in Connection,
           NEW i \in ToSet(chain[c]), NEW j \in ToSet(chain[c]), i < j,
           NEW k \in i + 1 .. j, SameTile(dmaOps, k, i)
    PROVE  dmaOps[k].bd # dmaOps[i].bd
<1>1. SUFFICES ASSUME dmaOps[k].bd = dmaOps[i].bd PROVE FALSE
  OBVIOUS
<1>2. DOMAIN dmaOps = 1 .. n /\ n \in Nat
  BY DEF DmasTyped, TypedDmas
<1>3. V \subseteq 1 .. n /\ i \in V /\ j \in V /\ dmaOps[i].conn = c /\ dmaOps[j].conn = c
  BY DEF OwnsBds, FromTheEnd, MembersSeen
<1>4. i \in 1 .. n /\ j \in 1 .. n /\ k \in 1 .. n /\ i < k
  BY <1>2, <1>3
<1>5. CASE k = j
  <2>1. PICK u : u = chain[c] /\ u \in Seq(1 .. n)
    BY <1>2 DEF ChainInv, ChainsKept
  <2>2. PICK a \in DOMAIN u, b \in DOMAIN u : u[a] = i /\ u[b] = j
    BY <2>1 DEF ToSet
  <2>3. a = b
    BY <1>1, <1>5, <2>1, <2>2 DEF ChainInv, OpenBdIdsDisjoint, BdOf
  <2> QED
    BY <1>4, <2>2, <2>3
<1>6. CASE k # j
  <2>1. k < j
    BY <1>4, <1>6
  <2>2. SameTile(dmaOps, i, k) /\ SameTile(dmaOps, i, j)
    BY <1>3 DEF SameTile
  <2>3. PICK q \in i + 1 .. k : /\ SameTile(dmaOps, i, q) /\ dmaOps[q].bd = dmaOps[j].bd
                                /\ dmaOps[q].repeat = 1
    BY <1>1, <1>2, <1>4, <2>1, <2>2 DEF Rotates
  <2>4. q \in 1 .. n /\ q > i /\ q < j
    BY <1>2, <1>4, <2>1
  <2>5. q \in V
    BY <1>3, <2>4 DEF OwnsBds, FromTheEnd
  <2>6. NotAgain(dmaOps, chain, V)
    BY DEF OwnsBds
  <2> QED
    BY <1>3, <2>3, <2>4, <2>5, <2>6 DEF NotAgain, SameTile
<1> QED
  BY <1>5, <1>6

(* Closing chains keeps the BDs of every chain its own.                    *)
LEMMA LinkingOwns ==
    ASSUME ChainInv, NEW n, n = NumDmas, DmasTyped, NEW V, OwnsBds(dmaOps, chain, V, n),
           Rotates(dmaOps), NEW broken, NEW ops, ops = LinkedOps(broken),
           NEW ch, ch = [c \in Connection |-> IF c \in broken THEN <<>> ELSE chain[c]]
    PROVE  OwnsBds(ops, ch, V, n) /\ SameDmas(ops, dmaOps, n)
<1>1. /\ n \in Nat /\ DOMAIN dmaOps = 1 .. n /\ V \subseteq 1 .. n
      /\ \A i \in 1 .. n : dmaOps[i].conn \in Connection
  BY DEF OwnsBds, FromTheEnd, DmasTyped, TypedDmas, DmaRec
<1>2. /\ FromTheEnd(V, n) /\ MembersSeen(dmaOps, chain, V) /\ NoGap(dmaOps, chain, V)
      /\ Falling(chain) /\ OpenUnlinked(dmaOps, chain, V, n) /\ ClosedKeep(dmaOps, chain, V, n)
      /\ NotAgain(dmaOps, chain, V)
  BY DEF OwnsBds
<1>3. \A i \in 1 .. n : /\ ops[i].conn = dmaOps[i].conn /\ ops[i].bd = dmaOps[i].bd
                        /\ ops[i].repeat = dmaOps[i].repeat
                        /\ ops[i].nextBd # dmaOps[i].nextBd => i \in Inner(broken)
  <2> SUFFICES ASSUME NEW i \in 1 .. n
               PROVE /\ ops[i].conn = dmaOps[i].conn /\ ops[i].bd = dmaOps[i].bd
                     /\ ops[i].repeat = dmaOps[i].repeat
                     /\ ops[i].nextBd # dmaOps[i].nextBd => i \in Inner(broken)
    OBVIOUS
  <2>1. LinkedAs(ops[i], dmaOps[i], i \in Inner(broken))
    BY LinkedFacts
  <2> QED
    BY <2>1 DEF LinkedAs
<1>4. SameDmas(ops, dmaOps, n)
  BY <1>3 DEF SameDmas
<1>5. \A c \in Connection : \/ c \in broken /\ ToSet(ch[c]) = {} /\ Len(ch[c]) = 0
                            \/ c \notin broken /\ ch[c] = chain[c]
  <2>1. ToSet(<<>>) = {} /\ Len(<<>>) = 0
    BY EmptyIs DEF ToSet
  <2> QED
    BY <2>1
<1>6. \A i \in Inner(broken) : i \in 1 .. n /\ dmaOps[i].conn \in broken
                               /\ i \in ToSet(chain[dmaOps[i].conn])
  BY InnerIn DEF ConnOf
<1>7. MembersSeen(ops, ch, V) /\ NoGap(ops, ch, V)
  <2>1. \A c \in Connection : \A i \in ToSet(ch[c]) : i \in ToSet(chain[c]) /\ ch[c] = chain[c]
    BY <1>5
  <2>2. MembersSeen(ops, ch, V)
    <3> SUFFICES ASSUME NEW c \in Connection, NEW i \in ToSet(ch[c])
                 PROVE  i \in V /\ ops[i].conn = c /\ ops[i].repeat = 1
      BY DEF MembersSeen
    <3>1. i \in V /\ dmaOps[i].conn = c /\ dmaOps[i].repeat = 1
      BY <1>2, <2>1 DEF MembersSeen
    <3> QED
      BY <1>1, <1>3, <3>1
  <2>3. NoGap(ops, ch, V)
    BY <1>1, <1>2, <1>3, <2>1 DEF NoGap
  <2> QED
    BY <2>2, <2>3
<1>8. Falling(ch)
  <2> SUFFICES ASSUME NEW c \in Connection, NEW k \in 1 .. Len(ch[c]), NEW l \in 1 .. Len(ch[c]),
                      k < l
               PROVE ch[c][l] < ch[c][k]
    BY DEF Falling
  <2>1. CASE c \in broken
    <3>1. Len(ch[c]) = 0
      BY <1>5, <2>1
    <3> QED
      BY <3>1
  <2>2. CASE ch[c] = chain[c]
    BY <1>2, <2>2 DEF Falling
  <2> QED
    BY <1>5, <2>1, <2>2
<1>9. OpenUnlinked(ops, ch, V, n)
  <2> SUFFICES ASSUME NEW i \in 1 .. n, i \notin V \/ i \in ToSet(ch[ops[i].conn])
               PROVE  ops[i].nextBd = NoBd
    BY DEF OpenUnlinked
  <2>1. PICK c \in Connection : c = dmaOps[i].conn /\ ops[i].conn = c
    BY <1>1, <1>3
  <2>2. i \notin Inner(broken)
    <3>1. SUFFICES ASSUME i \in Inner(broken) PROVE FALSE
      OBVIOUS
    <3>2. c \in broken /\ i \in ToSet(chain[c])
      BY <1>6, <2>1, <3>1
    <3>3. i \in V /\ ToSet(ch[c]) = {}
      BY <1>2, <1>5, <3>2 DEF MembersSeen
    <3> QED
      BY <2>1, <3>3
  <2>3. i \notin V \/ i \in ToSet(chain[dmaOps[i].conn])
    BY <1>5, <2>1
  <2>4. dmaOps[i].nextBd = NoBd
    BY <1>2, <2>3 DEF OpenUnlinked
  <2> QED
    BY <1>3, <2>2, <2>4
<1>10. NotAgain(ops, ch, V)
  <2> SUFFICES ASSUME NEW c \in Connection, NEW j \in ToSet(ch[c]), NEW q \in V
               PROVE  q < j /\ ops[q].repeat = 1 /\ TileOf[ops[q].conn] = TileOf[c]
                        => ops[q].bd # ops[j].bd
    BY DEF NotAgain
  <2> SUFFICES ASSUME q < j, ops[q].repeat = 1, TileOf[ops[q].conn] = TileOf[c]
               PROVE  ops[q].bd # ops[j].bd
    OBVIOUS
  <2>1. j \in ToSet(chain[c])
    BY <1>5
  <2>2. j \in V /\ j \in 1 .. n /\ q \in 1 .. n
    BY <1>1, <1>2, <2>1 DEF MembersSeen
  <2> QED
    BY <1>2, <1>3, <2>1, <2>2 DEF NotAgain
<1>11. ClosedKeep(ops, ch, V, n)
  <2> SUFFICES ASSUME NEW i \in V, i \notin ToSet(ch[ops[i].conn]),
                      NEW j \in 1 .. n, SpanOf(ops, i, j),
                      NEW k \in i + 1 .. j, SameTile(ops, k, i)
               PROVE  ops[k].bd # ops[i].bd
    BY DEF ClosedKeep, KeepsBd
  <2>1. i \in 1 .. n /\ k \in 1 .. n /\ i < j
    BY <1>1 DEF SpanOf
  <2>2. PICK c \in Connection : c = dmaOps[i].conn /\ ops[i].conn = c
    BY <1>1, <1>3, <2>1
  <2>3. /\ dmaOps[j].conn = c /\ dmaOps[i].repeat = 1 /\ dmaOps[j].repeat = 1
        /\ SameTile(dmaOps, k, i)
    BY <1>3, <2>1, <2>2 DEF SpanOf, SameTile
  <2>4. \A m \in i .. j - 1 : dmaOps[m].conn = c /\ dmaOps[m].repeat = 1 => ops[m].nextBd # NoBd
    <3> SUFFICES ASSUME NEW m \in i .. j - 1, dmaOps[m].conn = c, dmaOps[m].repeat = 1
                 PROVE  ops[m].nextBd # NoBd
      OBVIOUS
    <3>1. m \in 1 .. n
      BY <1>1, <2>1
    <3> QED
      BY <1>3, <2>2, <3>1 DEF SpanOf
  <2>5. CASE i \in ToSet(chain[c])
    <3>1. PICK t \in ToSet(chain[c]) : i <= t /\ \A b : t \notin Inner(b)
      BY <1>2, <2>5, TopOf
    <3>2. t \in V /\ t \in 1 .. n /\ dmaOps[t].conn = c /\ dmaOps[t].repeat = 1
      BY <1>1, <1>2, <3>1 DEF MembersSeen
    <3>3. ops[t].nextBd = NoBd
      <4>1. dmaOps[t].nextBd = NoBd
        BY <1>2, <3>1, <3>2 DEF OpenUnlinked
      <4> QED
        BY <1>3, <3>1, <3>2, <4>1
    <3>4. t \notin i .. j - 1
      BY <2>4, <3>2, <3>3
    <3>5. j <= t
      BY <1>1, <2>1, <3>1, <3>2, <3>4
    <3>6. j \in V
      BY <1>2, <2>1 DEF FromTheEnd
    <3>7. j \in ToSet(chain[c])
      <4>1. CASE j = t
        BY <3>1, <4>1
      <4>2. CASE j # t
        <5>1. j < t
          BY <1>1, <3>2, <3>5, <4>2
        <5> QED
          BY <1>2, <2>3, <3>1, <3>6, <5>1 DEF NoGap
      <4> QED
        BY <4>1, <4>2
    <3>8. dmaOps[k].bd # dmaOps[i].bd
      BY <2>1, <2>3, <2>5, <3>7, OpenKeeps
    <3> QED
      BY <1>3, <2>1, <3>8
  <2>6. CASE i \notin ToSet(chain[c])
    <3>1. SpanOf(dmaOps, i, j)
      <4>1. ASSUME NEW m \in i .. j - 1, dmaOps[m].conn = c, dmaOps[m].repeat = 1
            PROVE  dmaOps[m].nextBd # NoBd
        <5>1. m \in 1 .. n /\ i <= m
          BY <1>1, <2>1
        <5>2. m \notin Inner(broken)
          <6>1. SUFFICES ASSUME m \in Inner(broken) PROVE FALSE
            OBVIOUS
          <6>2. m \in ToSet(chain[c])
            BY <1>6, <4>1, <6>1
          <6>3. i < m
            BY <1>1, <2>1, <2>6, <5>1, <6>2
          <6> QED
            BY <1>2, <2>2, <2>3, <2>6, <6>2, <6>3 DEF NoGap
        <5>3. ops[m].nextBd = dmaOps[m].nextBd
          BY <1>3, <5>1, <5>2
        <5> QED
          BY <2>4, <4>1, <5>3
      <4> QED
        BY <2>1, <2>2, <2>3, <4>1 DEF SpanOf
    <3>2. KeepsBd(dmaOps, n, i)
      BY <1>2, <2>2, <2>6 DEF ClosedKeep
    <3>3. dmaOps[k].bd # dmaOps[i].bd
      BY <2>3, <3>1, <3>2 DEF KeepsBd
    <3> QED
      BY <1>3, <2>1, <3>3
  <2> QED
    BY <2>5, <2>6
<1> QED
  BY <1>2, <1>4, <1>7, <1>8, <1>9, <1>10, <1>11 DEF OwnsBds

(* A DMA that the walk sees and does not chain.                            *)
LEMMA SkipOwns ==
    ASSUME NEW n, NEW ops, NEW ch, NEW V, OwnsBds(ops, ch, V, n), NEW i \in 1 .. n, i \notin V,
           ops[i].repeat # 1, FromTheEnd(V \cup {i}, n), n \in Nat
    PROVE  OwnsBds(ops, ch, V \cup {i}, n)
<1>1. /\ FromTheEnd(V, n) /\ MembersSeen(ops, ch, V) /\ NoGap(ops, ch, V)
      /\ Falling(ch) /\ OpenUnlinked(ops, ch, V, n) /\ ClosedKeep(ops, ch, V, n)
      /\ NotAgain(ops, ch, V)
  BY DEF OwnsBds
<1>2. MembersSeen(ops, ch, V \cup {i})
  BY <1>1 DEF MembersSeen
<1>3. NoGap(ops, ch, V \cup {i})
  BY <1>1 DEF NoGap
<1>4. OpenUnlinked(ops, ch, V \cup {i}, n)
  BY <1>1 DEF OpenUnlinked
<1>5. ClosedKeep(ops, ch, V \cup {i}, n)
  BY <1>1 DEF ClosedKeep, KeepsBd, SpanOf
<1>6. NotAgain(ops, ch, V \cup {i})
  BY <1>1 DEF NotAgain
<1> QED
  BY <1>1, <1>2, <1>3, <1>4, <1>5, <1>6 DEF OwnsBds

(* A DMA that joins the chain of its connection, when no open chain of its *)
(* tile has its id.                                                        *)
LEMMA JoinOwns ==
    ASSUME NEW n \in Nat, NEW ops, NEW ch, NEW V, OwnsBds(ops, ch, V, n),
           NEW i \in 1 .. n, i \notin V, ops[i].repeat = 1,
           \A j \in 1 .. n : ops[j].conn \in Connection,
           FromTheEnd(V \cup {i}, n), \A c \in Connection : ch[c] \in Seq(1 .. n),
           \A c \in Connection : \A j \in ToSet(ch[c]) :
               TileOf[ops[i].conn] = TileOf[c] => ops[i].bd # ops[j].bd,
           NEW to, to = [c \in Connection |-> ch[c] \o (IF c = ops[i].conn THEN <<i>> ELSE <<>>)]
    PROVE  OwnsBds(ops, to, V \cup {i}, n)
<1>1. /\ FromTheEnd(V, n) /\ MembersSeen(ops, ch, V) /\ NoGap(ops, ch, V)
      /\ Falling(ch) /\ OpenUnlinked(ops, ch, V, n) /\ ClosedKeep(ops, ch, V, n)
      /\ NotAgain(ops, ch, V)
  BY DEF OwnsBds
<1>2. V \subseteq 1 .. n /\ \A j \in V : i < j
  <2>1. V \subseteq 1 .. n
    BY <1>1 DEF FromTheEnd
  <2>2. ASSUME NEW j \in V PROVE i < j
    <3>1. i \in V \/ ~(j < i)
      BY <1>1 DEF FromTheEnd
    <3> QED
      BY <2>1, <3>1
  <2> QED
    BY <2>1, <2>2
<1>3. ASSUME NEW c \in Connection, c # ops[i].conn PROVE to[c] = ch[c]
  <2>1. to[c] = ch[c] \o <<>> /\ ch[c] \in Seq(1 .. n)
    BY <1>3
  <2> QED
    BY <2>1, ConcatEmptySeq
<1>4. PICK d \in Connection : d = ops[i].conn
  OBVIOUS
<1>5. PICK u, v : u = ch[d] /\ v = to[d] /\ u \in Seq(1 .. n) /\ Len(u) \in Nat
  BY LenProperties
<1>6. /\ Len(v) = Len(u) + 1 /\ DOMAIN v = 1 .. Len(u) + 1 /\ DOMAIN u = 1 .. Len(u)
      /\ \A k \in 1 .. Len(u) : v[k] = u[k]
      /\ v[Len(u) + 1] = i
  <2>1. PICK e : e = <<i>> /\ IsSeq(e) /\ Len(e) = 1 /\ e[1] = i
    BY OneIsSeq
  <2>2. IsSeq(u) /\ v = u \o e
    BY <1>4, <1>5, <2>1, SeqIsSeq
  <2>3. /\ IsSeq(v) /\ Len(v) = Len(u) + 1 /\ \A k \in 1 .. Len(u) : v[k] = u[k]
        /\ \A k \in 1 .. 1 : v[Len(u) + k] = e[k]
    BY <2>1, <2>2, ConcatIs
  <2>4. 1 \in 1 .. 1
    OBVIOUS
  <2>5. v[Len(u) + 1] = i
    BY <2>1, <2>3, <2>4
  <2> QED
    BY <2>2, <2>3, <2>5, LenIs
<1>7. ToSet(v) = ToSet(u) \cup {i}
  <2>0. PICK L \in Nat : L = Len(u)
    BY <1>5
  <2>1. L + 1 \in 1 .. L + 1 /\ \A k \in 1 .. L : k \in 1 .. L + 1
    OBVIOUS
  <2>2. \A k \in 1 .. L + 1 : k = L + 1 \/ k \in 1 .. L
    OBVIOUS
  <2>3. ToSet(v) = {v[k] : k \in 1 .. L + 1} /\ ToSet(u) = {u[k] : k \in 1 .. L}
    BY <1>6, <2>0 DEF ToSet
  <2>4. ASSUME NEW e PROVE e \in ToSet(v) <=> e \in ToSet(u) \cup {i}
    <3>1. ASSUME e \in ToSet(v) PROVE e \in ToSet(u) \cup {i}
      <4>1. PICK k \in 1 .. L + 1 : v[k] = e
        BY <2>3, <3>1
      <4>2. CASE k = L + 1
        BY <1>6, <2>0, <4>1, <4>2
      <4>3. CASE k \in 1 .. L
        BY <1>6, <2>0, <2>3, <4>1, <4>3
      <4> QED
        BY <2>2, <4>2, <4>3
    <3>2. ASSUME e \in ToSet(u) PROVE e \in ToSet(v)
      BY <1>6, <2>0, <2>1, <2>3, <3>2
    <3>3. i \in ToSet(v)
      BY <1>6, <2>0, <2>1, <2>3
    <3> QED
      BY <3>1, <3>2, <3>3
  <2> QED
    BY <2>4
<1>8. \A c \in Connection : ToSet(to[c]) = ToSet(ch[c]) \cup {j \in {i} : c = d}
  BY <1>3, <1>4, <1>5, <1>7
<1>9. MembersSeen(ops, to, V \cup {i})
  <2> SUFFICES ASSUME NEW c \in Connection, NEW j \in ToSet(to[c])
               PROVE  j \in V \cup {i} /\ ops[j].conn = c /\ ops[j].repeat = 1
    BY DEF MembersSeen
  <2>1. CASE j \in ToSet(ch[c])
    BY <1>1, <2>1 DEF MembersSeen
  <2>2. CASE j = i /\ c = d
    BY <1>4, <2>2
  <2> QED
    BY <1>8, <2>1, <2>2
<1>10. NoGap(ops, to, V \cup {i})
  <2> SUFFICES ASSUME NEW c \in Connection, NEW j \in ToSet(to[c]), NEW h \in V \cup {i},
                      ops[h].conn = c, ops[h].repeat = 1, h < j
               PROVE  h \in ToSet(to[c])
    BY DEF NoGap
  <2>1. CASE h = i
    BY <1>4, <1>8, <2>1
  <2>2. CASE h # i
    <3>1. h \in V /\ i < h /\ h \in 1 .. n
      BY <1>2, <2>2
    <3>2. j # i
      BY <3>1
    <3>3. j \in ToSet(ch[c])
      BY <1>8, <3>2
    <3> QED
      BY <1>1, <1>8, <3>1, <3>3 DEF NoGap
  <2> QED
    BY <2>1, <2>2
<1>11. Falling(to)
  <2> SUFFICES ASSUME NEW c \in Connection, NEW k \in 1 .. Len(to[c]), NEW l \in 1 .. Len(to[c]),
                      k < l
               PROVE to[c][l] < to[c][k]
    BY DEF Falling
  <2>1. CASE c # d
    BY <1>1, <1>3, <1>4, <2>1 DEF Falling
  <2>2. CASE c = d
    <3>0. PICK L \in Nat : L = Len(u) /\ Len(to[c]) = L + 1 /\ v = to[c]
      BY <1>5, <1>6, <2>2
    <3>1. k \in 1 .. Len(u) /\ v[k] = u[k]
      <4>0. k \in 1 .. L + 1 /\ l \in 1 .. L + 1 /\ k < l
        BY <3>0
      <4>1. k \in 1 .. L
        BY ONLY L \in Nat, <4>0
      <4> QED
        BY <1>6, <3>0, <4>1
    <3>2. CASE l = Len(u) + 1
      <4>1. v[l] = i /\ u[k] \in ToSet(u)
        BY <1>6, <3>1, <3>2 DEF ToSet
      <4>2. u[k] \in V
        BY <1>1, <1>5, <4>1 DEF MembersSeen
      <4> QED
        BY <1>2, <1>5, <2>2, <3>1, <4>1, <4>2
    <3>3. CASE l # Len(u) + 1
      <4>0. l \in 1 .. L
        <5>1. l \in 1 .. L + 1 /\ l # L + 1
          BY <3>0, <3>3
        <5> QED
          BY ONLY L \in Nat, <5>1
      <4>1. l \in 1 .. Len(u) /\ v[l] = u[l]
        BY <1>6, <3>0, <4>0
      <4>2. u[l] < u[k]
        BY <1>1, <1>5, <3>1, <4>1 DEF Falling
      <4> QED
        BY <1>5, <2>2, <3>1, <4>1, <4>2
    <3> QED
      BY <3>2, <3>3
  <2> QED
    BY <2>1, <2>2
<1>12. OpenUnlinked(ops, to, V \cup {i}, n)
  <2> SUFFICES ASSUME NEW j \in 1 .. n, j \notin V \cup {i} \/ j \in ToSet(to[ops[j].conn])
               PROVE  ops[j].nextBd = NoBd
    BY DEF OpenUnlinked
  <2>1. CASE j \notin V
    BY <1>1, <2>1 DEF OpenUnlinked
  <2>2. CASE j \in V /\ j \in ToSet(to[ops[j].conn])
    <3>1. j # i
      BY <2>2
    <3>2. j \in ToSet(ch[ops[j].conn])
      BY <1>8, <2>2, <3>1
    <3> QED
      BY <1>1, <3>2 DEF OpenUnlinked
  <2> QED
    BY <2>1, <2>2
<1>13. ClosedKeep(ops, to, V \cup {i}, n)
  <2> SUFFICES ASSUME NEW j \in V \cup {i}, j \notin ToSet(to[ops[j].conn])
               PROVE  KeepsBd(ops, n, j)
    BY DEF ClosedKeep
  <2>0. j \in 1 .. n /\ ops[j].conn \in Connection
    BY <1>2
  <2>1. j # i
    BY <1>4, <1>8
  <2>2. j \notin ToSet(ch[ops[j].conn])
    BY <1>8, <2>0
  <2> QED
    BY <1>1, <2>1, <2>2 DEF ClosedKeep
<1>14. NotAgain(ops, to, V \cup {i})
  <2> SUFFICES ASSUME NEW c \in Connection, NEW j \in ToSet(to[c]), NEW q \in V \cup {i}
               PROVE  q < j /\ ops[q].repeat = 1 /\ TileOf[ops[q].conn] = TileOf[c]
                        => ops[q].bd # ops[j].bd
    BY DEF NotAgain
  <2> SUFFICES ASSUME q < j, ops[q].repeat = 1, TileOf[ops[q].conn] = TileOf[c]
               PROVE  ops[q].bd # ops[j].bd
    OBVIOUS
  <2>1. j # i
    <3>1. q = i \/ i < q
      BY <1>2
    <3>2. q \in 1 .. n
      BY <1>2
    <3>3. ~(q < i)
      BY <3>1, <3>2
    <3> QED
      BY <3>3
  <2>2. j \in ToSet(ch[c])
    BY <1>8, <2>1
  <2>3. CASE q = i
    BY <1>4, <2>2, <2>3
  <2>4. CASE q \in V
    BY <1>1, <2>2, <2>4 DEF NotAgain
  <2> QED
    BY <2>3, <2>4
<1> QED
  BY <1>9, <1>10, <1>11, <1>12, <1>13, <1>14 DEF OwnsBds

(* The DMAs behind a place of the code.                                    *)
SeenIn(c, p, n) == {i \in 1 .. n : \A k \in 1 .. Len(c) : AtDma(c, k, i) => k > p}

(* They are the last ones of the program.                                  *)
LEMMA SeenFromTheEnd ==
    ASSUME NEW n \in Nat, NEW c, CodeOK(c, n), NEW p \in Nat
    PROVE  FromTheEnd(SeenIn(c, p, n), n)
<1>1. ASSUME NEW i \in SeenIn(c, p, n), NEW j \in 1 .. n, j > i, NEW k \in 1 .. Len(c),
             AtDma(c, k, j)
      PROVE  k > p
  <2>1. PICK l \in 1 .. Len(c) : AtDma(c, l, i)
    BY DEF CodeOK, DmasInOrder, SeenIn
  <2>2. l > p /\ i \in 1 .. n
    BY <2>1 DEF SeenIn
  <2>3. i < j
    BY <1>1, <2>2
  <2>4. l < k
    BY <1>1, <2>1, <2>2, <2>3 DEF CodeOK, DmasInOrder
  <2> QED
    BY <2>2, <2>4
<1> QED
  BY <1>1 DEF FromTheEnd, SeenIn

(* One step of the walk: the DMA at that place is added, if it is one.     *)
LEMMA SeenStep ==
    ASSUME NEW n \in Nat, NEW c, CodeOK(c, n), NEW p \in 1 .. Len(c)
    PROVE  /\ \A i \in 1 .. n : c[p] = Dma(i) =>
                i \notin SeenIn(c, p, n) /\ SeenIn(c, p - 1, n) = SeenIn(c, p, n) \cup {i}
           /\ c[p].kind # "dma" => SeenIn(c, p - 1, n) = SeenIn(c, p, n)
<1>1. \A k \in 1 .. Len(c) : (k > p - 1 <=> k > p \/ k = p)
  OBVIOUS
<1>2. ASSUME NEW i \in 1 .. n, c[p] = Dma(i)
      PROVE i \notin SeenIn(c, p, n) /\ SeenIn(c, p - 1, n) = SeenIn(c, p, n) \cup {i}
  <2>1. AtDma(c, p, i) /\ ~(p > p)
    BY <1>2 DEF AtDma
  <2>2. i \notin SeenIn(c, p, n)
    BY <2>1 DEF SeenIn
  <2>3. ASSUME NEW k \in 1 .. Len(c), AtDma(c, k, i) PROVE k = p
    BY <2>1, <2>3 DEF CodeOK, DmasInOrder
  <2>4. ASSUME NEW j \in 1 .. n, AtDma(c, p, j) PROVE j = i
    BY <2>1, <2>4 DEF CodeOK, DmasInOrder
  <2>5. ASSUME NEW j \in 1 .. n
        PROVE  j \in SeenIn(c, p - 1, n) <=> j \in SeenIn(c, p, n) \cup {i}
    <3>1. CASE j = i
      <4>1. j \in SeenIn(c, p - 1, n)
        BY <1>1, <2>3, <3>1 DEF SeenIn
      <4> QED
        BY <3>1, <4>1
    <3>2. CASE j # i
      <4>1. \A k \in 1 .. Len(c) : AtDma(c, k, j) => k # p
        BY <2>4, <3>2
      <4> QED
        BY <1>1, <3>2, <4>1 DEF SeenIn
    <3> QED
      BY <3>1, <3>2
  <2>6. SeenIn(c, p - 1, n) \subseteq 1 .. n /\ SeenIn(c, p, n) \cup {i} \subseteq 1 .. n
    BY DEF SeenIn
  <2> QED
    BY <2>2, <2>5, <2>6
<1>3. ASSUME c[p].kind # "dma" PROVE SeenIn(c, p - 1, n) = SeenIn(c, p, n)
  <2>1. \A j \in 1 .. n : ~AtDma(c, p, j)
    BY <1>3, OpFacts DEF AtDma
  <2>2. \A j \in 1 .. n, k \in 1 .. Len(c) : AtDma(c, k, j) => (k > p - 1 <=> k > p)
    BY <1>1, <2>1
  <2> QED
    BY <2>2 DEF SeenIn
<1> QED
  BY <1>2, <1>3

(* Erasing waits behind that place leaves these DMAs behind it.            *)
LEMMA SeenErased ==
    ASSUME NEW n \in Nat, NEW c, CodeOK(c, n), NEW p \in 0 .. Len(c), NEW gone, Stays(c, p, gone),
           NEW d, d = EraseWaits(c, gone)
    PROVE  /\ p <= Len(d) /\ \A k \in 1 .. p : d[k] = c[k]
           /\ SeenIn(d, p, n) = SeenIn(c, p, n)
<1>1. PICK N : N = Len(c) /\ N \in Nat /\ IsSeq(c)
  BY LenIs DEF CodeOK, IsCode
<1>2. PICK f : Embeds(f, d, c, Len(c), gone)
  BY <1>1, EraseEmbeds
<1>3. /\ IsSeq(d) /\ f \in [1 .. Len(d) -> 1 .. N]
      /\ \A k \in 1 .. Len(d) : d[k] = c[f[k]]
      /\ \A j \in 1 .. N : ~IsGone(c[j], gone) => \E k \in 1 .. Len(d) : f[k] = j
  BY <1>1, <1>2 DEF Embeds
<1>4. /\ p <= Len(d) /\ \A k \in 1 .. p : f[k] = k /\ d[k] = c[k]
      /\ \A k \in 1 .. Len(d) : k > p => f[k] > p
  BY <1>1, <1>2, EraseFromPos
<1>5. Len(d) \in Nat /\ p \in Nat
  BY <1>3, LenIs
<1>6. \A k \in 1 .. Len(d) : f[k] \in 1 .. N /\ (k > p <=> f[k] > p)
  <2> SUFFICES ASSUME NEW k \in 1 .. Len(d) PROVE f[k] \in 1 .. N /\ (k > p <=> f[k] > p)
    OBVIOUS
  <2>1. CASE k > p
    BY <1>3, <1>4, <2>1
  <2>2. CASE ~(k > p)
    <3>1. k \in 1 .. p
      BY <1>5, <2>2
    <3> QED
      BY <1>3, <1>4, <2>2, <3>1
  <2> QED
    BY <2>1, <2>2
<1>7. ASSUME NEW i \in 1 .. n PROVE i \in SeenIn(d, p, n) <=> i \in SeenIn(c, p, n)
  <2>1. ASSUME i \in SeenIn(c, p, n), NEW k \in 1 .. Len(d), AtDma(d, k, i) PROVE k > p
    <3>1. AtDma(c, f[k], i)
      BY <1>3, <2>1 DEF AtDma
    <3> QED
      BY <1>1, <1>6, <2>1, <3>1 DEF SeenIn
  <2>2. ASSUME i \in SeenIn(d, p, n), NEW j \in 1 .. N, AtDma(c, j, i) PROVE j > p
    <3>1. ~IsGone(c[j], gone)
      BY <2>2, OpFacts DEF AtDma, IsGone
    <3>2. PICK k \in 1 .. Len(d) : f[k] = j
      BY <1>3, <3>1
    <3>3. AtDma(d, k, i)
      BY <1>3, <2>2, <3>2 DEF AtDma
    <3>4. k > p
      BY <2>2, <3>3 DEF SeenIn
    <3> QED
      BY <1>6, <3>2, <3>4
  <2> QED
    BY <1>1, <2>1, <2>2 DEF SeenIn
<1>8. SeenIn(d, p, n) = SeenIn(c, p, n)
  BY <1>7 DEF SeenIn
<1> QED
  BY <1>4, <1>8

-----------------------------------------------------------------------------
(* The invariant of the walk: the DMAs behind its place, the open chains   *)
(* and the closed ones; and what is needed of the passes' own invariant.   *)
OwnInv ==
    /\ Rotates(dmaOps)
    /\ stage = "chain" => /\ pos \in 0 .. Len(code)
                          /\ OwnsBds(dmaOps, chain, SeenIn(code, pos, NumDmas), NumDmas)
    /\ ChainOwnsItsBds
PassFacts == /\ NumDmas \in Nat /\ TypedDmas(dmaOps, NumDmas) /\ CodeOK(code, NumDmas)
             /\ stage = "chain" => Singles(code, Len(code))

(* The waits that linking erases are behind the place of the walk.         *)
LEMMA LinkedStays ==
    ASSUME ChainInv, NEW n, n = NumDmas, PassFacts, stage = "chain", pos \in 0 .. Len(code),
           OwnsBds(dmaOps, chain, SeenIn(code, pos, n), n), NEW broken
    PROVE  Stays(code, pos, Inner(broken))
<1> SUFFICES ASSUME NEW k \in 1 .. pos, IsGone(code[k], Inner(broken)) PROVE FALSE
  BY DEF Stays
<1>1. n \in Nat /\ TypedDmas(dmaOps, n) /\ CodeOK(code, n) /\ Singles(code, Len(code)) /\ DmasTyped
  BY DEF PassFacts, DmasTyped
<1>2. Len(code) \in Nat /\ k \in 1 .. Len(code)
  BY <1>1, LenIs DEF CodeOK, IsCode
<1>3. code[k].kind = "wait" /\ code[k].ops \subseteq Inner(broken)
  BY DEF IsGone
<1>4. PICK i : code[k] = Wait({i})
  BY <1>1, <1>2, <1>3 DEF Singles
<1>5. code[k].ops = {i}
  BY <1>4, OpFacts
<1>6. i \in 1 .. n /\ ConnOf(i) \in Connection /\ i \in ToSet(chain[ConnOf(i)])
  <2>1. i \in 1 .. n /\ i \in ToSet(chain[ConnOf(i)])
    BY <1>1, <1>3, <1>5, InnerIn
  <2> QED
    BY <1>1, <2>1 DEF TypedDmas, DmaRec, ConnOf
<1>7. i \in SeenIn(code, pos, n)
  BY <1>6 DEF OwnsBds, MembersSeen
<1>8. PICK l \in 1 .. Len(code) : AtDma(code, l, i)
  BY <1>1, <1>6 DEF CodeOK, DmasInOrder
<1>9. l > pos
  BY <1>7, <1>8 DEF SeenIn
<1>10. l < k
  BY <1>1, <1>2, <1>3, <1>5, <1>6, <1>8 DEF CodeOK, WaitsBehind, AtWait
<1> QED
  BY <1>2, <1>9, <1>10

(* When all chains are closed and all DMAs seen, every chain owns its BDs. *)
LEMMA AllClosed ==
    ASSUME NEW n, NEW ops, NEW ch, OwnsBds(ops, ch, 1 .. n, n),
           \A c \in Connection : ToSet(ch[c]) = {}, \A i \in 1 .. n : ops[i].conn \in Connection
    PROVE  \A i \in 1 .. n : KeepsBd(ops, n, i)
BY DEF OwnsBds, ClosedKeep

(* This is what the property says.                                         *)
LEMMA KeptIsOwned ==
    ASSUME DOMAIN dmaOps = 1 .. NumDmas, NumDmas \in Nat,
           \A i \in 1 .. NumDmas : KeepsBd(dmaOps, NumDmas, i)
    PROVE  ChainOwnsItsBds
<1> SUFFICES ASSUME NEW i \in 1 .. NumDmas, NEW j \in 1 .. NumDmas, InChainOf(i, j),
                    NEW k \in i + 1 .. j, TileOf[ConnOf(k)] = TileOf[ConnOf(i)]
             PROVE  BdOf(k) # BdOf(i)
  BY DEF ChainOwnsItsBds
<1>1. SpanOf(dmaOps, i, j)
  BY DEF InChainOf, SpanOf, ConnOf
<1> QED
  BY <1>1 DEF KeepsBd, SameTile, ConnOf, BdOf

(* The walk comes to a DMA that joins a chain.                             *)
LEMMA VisitOwns ==
    ASSUME ChainInv, PassFacts, PassFacts', OwnInv, source' = source, VisitDma
    PROVE  OwnInv'
<1>1. PICK n, V : n = NumDmas /\ V = SeenIn(code, pos, n)
  OBVIOUS
<1>2. /\ stage = "chain" /\ stage' = "chain" /\ pos > 0 /\ pos' = pos - 1
      /\ pos \in 0 .. Len(code) /\ OwnsBds(dmaOps, chain, V, n) /\ Rotates(dmaOps)
  BY <1>1 DEF VisitDma, OwnInv
<1>3. /\ n \in Nat /\ NumDmas' = n /\ DOMAIN dmaOps = 1 .. n /\ DOMAIN dmaOps' = 1 .. n
      /\ DmasTyped /\ CodeOK(code, n) /\ CodeOK(code', n)
      /\ \A i \in 1 .. n : dmaOps[i].conn \in Connection /\ dmaOps'[i].conn \in Connection
  BY <1>1 DEF PassFacts, TypedDmas, DmasTyped, NumDmas, DmaRec
<1>4. PICK i \in 1 .. n : /\ code[pos] = Dma(i) /\ dmaOps[i].repeat = 1
        /\ \E dup \in DuplicateBreaks(i) :
             /\ dmaOps' = LinkedOps(chainsToBreak \cup dup)
             /\ code' = LinkedCode(chainsToBreak \cup dup)
             /\ chain' = [c \in Connection |->
                  (IF c \in chainsToBreak \cup dup THEN <<>> ELSE chain[c])
                  \o (IF c = ConnOf(i) THEN <<i>> ELSE <<>>)]
  BY <1>3, Zenon DEF VisitDma
<1>5. PICK dup \in DuplicateBreaks(i) :
             /\ dmaOps' = LinkedOps(chainsToBreak \cup dup)
             /\ code' = LinkedCode(chainsToBreak \cup dup)
             /\ chain' = [c \in Connection |->
                  (IF c \in chainsToBreak \cup dup THEN <<>> ELSE chain[c])
                  \o (IF c = ConnOf(i) THEN <<i>> ELSE <<>>)]
  BY <1>4, Zenon
<1>6. PICK broken : broken = chainsToBreak \cup dup
  OBVIOUS
<1>7. PICK ch : ch = [c \in Connection |-> IF c \in broken THEN <<>> ELSE chain[c]]
  OBVIOUS
<1>8. dmaOps' = LinkedOps(broken) /\ code' = LinkedCode(broken)
  BY <1>5, <1>6
<1>9. OwnsBds(dmaOps', ch, V, n) /\ SameDmas(dmaOps', dmaOps, n)
  BY <1>1, <1>2, <1>3, <1>7, <1>8, LinkingOwns
<1>10. chain' = [c \in Connection |-> ch[c] \o (IF c = dmaOps'[i].conn THEN <<i>> ELSE <<>>)]
  <2>1. dmaOps'[i].conn = ConnOf(i)
    BY <1>9 DEF SameDmas, ConnOf
  <2> QED
    BY <1>5, <1>6, <1>7, <2>1
<1>11. Len(code) \in Nat /\ pos \in 1 .. Len(code) /\ pos \in Nat
  BY <1>2, <1>3, LenIs DEF CodeOK, IsCode
<1>12. /\ pos <= Len(code') /\ code'[pos] = Dma(i) /\ SeenIn(code', pos, n) = V
  <2>1. Stays(code, pos, Inner(broken))
    BY <1>1, <1>2, LinkedStays
  <2>2. PICK gone : gone = Inner(broken)
    OBVIOUS
  <2>3. code' = EraseWaits(code, gone) /\ Stays(code, pos, gone)
    BY <1>8, <2>1, <2>2 DEF LinkedCode
  <2>4. PICK d : d = code'
    OBVIOUS
  <2>5. /\ pos <= Len(d) /\ \A k \in 1 .. pos : d[k] = code[k]
        /\ SeenIn(d, pos, n) = SeenIn(code, pos, n)
    BY <1>2, <1>3, <2>3, <2>4, SeenErased
  <2>6. pos \in 1 .. pos
    BY <1>11
  <2> QED
    BY <1>1, <1>4, <2>4, <2>5, <2>6
<1>13. /\ i \notin V /\ SeenIn(code', pos', n) = V \cup {i} /\ pos' \in 0 .. Len(code')
       /\ FromTheEnd(V \cup {i}, n)
  <2>1. Len(code') \in Nat
    BY <1>3, LenIs DEF CodeOK, IsCode
  <2>2. pos \in 1 .. Len(code') /\ pos - 1 \in Nat /\ pos - 1 \in 0 .. Len(code')
    BY <1>11, <1>12, <2>1
  <2>3. PICK d : d = code' /\ CodeOK(d, n)
    BY <1>3
  <2>4. i \notin SeenIn(d, pos, n) /\ SeenIn(d, pos - 1, n) = SeenIn(d, pos, n) \cup {i}
    BY <1>3, <1>12, <2>2, <2>3, SeenStep
  <2>5. FromTheEnd(SeenIn(d, pos - 1, n), n)
    BY <1>3, <2>2, <2>3, SeenFromTheEnd
  <2> QED
    BY <1>2, <1>12, <2>2, <2>3, <2>4, <2>5
<1>14. \A c \in Connection : ch[c] \in Seq(1 .. n)
  <2> SUFFICES ASSUME NEW c \in Connection PROVE ch[c] \in Seq(1 .. n)
    OBVIOUS
  <2>1. chain[c] \in Seq(1 .. n)
    BY <1>3 DEF ChainInv, ChainsKept
  <2>2. ch[c] = <<>> \/ ch[c] = chain[c]
    BY <1>7
  <2> QED
    BY <2>1, <2>2, EmptySeq
(* A chain with the id of the DMA is the one that was broken.              *)
<1>15. ASSUME NEW c \in Connection, NEW j \in ToSet(ch[c]), TileOf[dmaOps'[i].conn] = TileOf[c],
              dmaOps'[i].bd = dmaOps'[j].bd
       PROVE  FALSE
  <2>1. c \notin broken /\ ch[c] = chain[c]
    <3>1. ToSet(<<>>) = {}
      BY EmptyIs DEF ToSet
    <3> QED
      BY <1>7, <1>15, <3>1
  <2>2. PICK u : u = chain[c] /\ u \in Seq(1 .. n) /\ DOMAIN u = 1 .. Len(u)
    BY <1>3, LenProperties DEF ChainInv, ChainsKept
  <2>3. PICK k \in DOMAIN u : u[k] = j
    BY <1>15, <2>1, <2>2 DEF ToSet
  <2>4. j \in 1 .. n
    BY <1>15, <2>1, <1>2 DEF OwnsBds, MembersSeen, FromTheEnd
  <2>5. BdOf(j) = BdOf(i) /\ TileOf[c] = TileOf[ConnOf(i)]
    BY <1>9, <1>15, <2>4 DEF SameDmas, BdOf, ConnOf
  <2>6. c \in WithDuplicate(i)
    <3>1. chain[c] # <<>>
      BY <2>1, <1>15, EmptyIs DEF ToSet
    <3>2. BdOf(i) \in ChainBdIds(c)
      BY <1>15, <2>1, <2>5 DEF ChainBdIds
    <3> QED
      BY <2>5, <3>1, <3>2 DEF WithDuplicate, OpenChains
  <2>7. PICK d \in WithDuplicate(i) : dup = {d, ConnOf(i)}
    BY <2>6, <1>5 DEF DuplicateBreaks
  <2>8. d \in Connection /\ TileOf[d] = TileOf[ConnOf(i)] /\ BdOf(i) \in ChainBdIds(d)
    BY <2>7 DEF WithDuplicate, OpenChains
  <2>9. PICK m \in DOMAIN chain[d] : BdOf(chain[d][m]) = BdOf(i)
    BY <2>8 DEF ChainBdIds, ToSet
  <2>10. c = d
    BY <2>2, <2>3, <2>5, <2>8, <2>9 DEF ChainInv, OpenBdIdsDisjoint
  <2> QED
    BY <1>6, <2>1, <2>7, <2>10
<1>16. OwnsBds(dmaOps', chain', V \cup {i}, n)
  <2>1. PICK ops, to : ops = dmaOps' /\ to = chain'
    OBVIOUS
  <2>2. /\ OwnsBds(ops, ch, V, n) /\ ops[i].repeat = 1
        /\ to = [c \in Connection |-> ch[c] \o (IF c = ops[i].conn THEN <<i>> ELSE <<>>)]
        /\ \A j \in 1 .. n : ops[j].conn \in Connection
    BY <1>3, <1>4, <1>9, <1>10, <2>1 DEF SameDmas
  <2>3. \A c \in Connection : \A j \in ToSet(ch[c]) :
               TileOf[ops[i].conn] = TileOf[c] => ops[i].bd # ops[j].bd
    BY <1>15, <2>1
  <2>4. OwnsBds(ops, to, V \cup {i}, n)
    BY <1>3, <1>13, <1>14, <2>2, <2>3, JoinOwns
  <2> QED
    BY <2>1, <2>4
<1>17. Rotates(dmaOps')
  BY <1>2, <1>3, <1>9, RotationKept
<1>18. ChainOwnsItsBds'
  BY <1>2 DEF ChainOwnsItsBds
<1> QED
  BY <1>2, <1>3, <1>13, <1>16, <1>17, <1>18 DEF OwnInv

(* The walk passes another operation.                                      *)
LEMMA PassesOwns ==
    ASSUME PassFacts, OwnInv, source' = source,
           stage = "chain", pos > 0, pos' = pos - 1, UNCHANGED <<dmaOps, code, stage, chain>>,
           \/ code[pos].kind # "dma"
           \/ \E i \in DOMAIN dmaOps : code[pos] = Dma(i) /\ dmaOps[i].repeat > 1
    PROVE  OwnInv'
<1>1. PICK n, V : n = NumDmas /\ V = SeenIn(code, pos, n)
  OBVIOUS
<1>2. pos \in 0 .. Len(code) /\ OwnsBds(dmaOps, chain, V, n) /\ Rotates(dmaOps)
  BY <1>1 DEF OwnInv
<1>3. /\ n \in Nat /\ NumDmas' = n /\ DOMAIN dmaOps = 1 .. n /\ CodeOK(code, n)
  BY <1>1 DEF PassFacts, TypedDmas, NumDmas
<1>4. Len(code) \in Nat /\ pos \in 1 .. Len(code) /\ pos - 1 \in Nat /\ pos - 1 \in 0 .. Len(code)
  BY <1>2, <1>3, LenIs DEF CodeOK, IsCode
<1>5. OwnsBds(dmaOps, chain, SeenIn(code, pos - 1, n), n)
  <2>1. CASE code[pos].kind # "dma"
    BY <1>1, <1>2, <1>3, <1>4, <2>1, SeenStep
  <2>2. CASE \E i \in DOMAIN dmaOps : code[pos] = Dma(i) /\ dmaOps[i].repeat > 1
    <3>1. PICK i \in 1 .. n : code[pos] = Dma(i) /\ dmaOps[i].repeat # 1
      BY <1>3, <2>2
    <3>2. i \notin V /\ SeenIn(code, pos - 1, n) = V \cup {i}
      BY <1>1, <1>3, <1>4, <3>1, SeenStep
    <3>3. FromTheEnd(V \cup {i}, n)
      BY <1>3, <1>4, <3>2, SeenFromTheEnd
    <3>4. OwnsBds(dmaOps, chain, V \cup {i}, n)
      BY <1>2, <1>3, <3>1, <3>2, <3>3, SkipOwns
    <3> QED
      BY <3>2, <3>4
  <2> QED
    BY <2>1, <2>2
<1>6. ChainOwnsItsBds'
  BY DEF ChainOwnsItsBds
<1> QED
  BY <1>2, <1>3, <1>4, <1>5, <1>6 DEF OwnInv

(* At the beginning of the code all chains are closed.                     *)
LEMMA FinishOwns ==
    ASSUME ChainInv, PassFacts, PassFacts', OwnInv, source' = source, FinishChains
    PROVE  OwnInv'
<1>1. PICK n, V : n = NumDmas /\ V = SeenIn(code, pos, n)
  OBVIOUS
<1>2. /\ stage = "chain" /\ stage' = "queue" /\ pos = 0 /\ dmaOps' = LinkedOps(OpenChains)
      /\ OwnsBds(dmaOps, chain, V, n) /\ Rotates(dmaOps)
  BY <1>1 DEF FinishChains, OwnInv
<1>3. /\ n \in Nat /\ NumDmas' = n /\ DOMAIN dmaOps = 1 .. n /\ DOMAIN dmaOps' = 1 .. n
      /\ DmasTyped /\ CodeOK(code, n)
      /\ \A i \in 1 .. n : dmaOps[i].conn \in Connection /\ dmaOps'[i].conn \in Connection
  BY <1>1 DEF PassFacts, TypedDmas, DmasTyped, NumDmas, DmaRec
<1>4. V = 1 .. n
  BY <1>1, <1>2 DEF SeenIn
<1>5. PICK ch : ch = [c \in Connection |-> IF c \in OpenChains THEN <<>> ELSE chain[c]]
  OBVIOUS
<1>6. OwnsBds(dmaOps', ch, V, n) /\ SameDmas(dmaOps', dmaOps, n)
  BY <1>1, <1>2, <1>3, <1>5, LinkingOwns
<1>7. \A c \in Connection : ToSet(ch[c]) = {}
  <2>1. \A c \in Connection : ch[c] = <<>>
    BY <1>5 DEF OpenChains
  <2> QED
    BY <2>1, EmptyIs DEF ToSet
<1>8. \A i \in 1 .. n : KeepsBd(dmaOps', n, i)
  BY <1>3, <1>4, <1>6, <1>7, AllClosed
<1>9. ChainOwnsItsBds'
  <2> SUFFICES ASSUME NEW i \in 1 .. n, NEW j \in 1 .. n, InChainOf(i, j)',
                      NEW k \in i + 1 .. j, TileOf[ConnOf(k)'] = TileOf[ConnOf(i)']
               PROVE  BdOf(k)' # BdOf(i)'
    BY <1>3 DEF ChainOwnsItsBds
  <2>1. SpanOf(dmaOps', i, j)
    BY DEF InChainOf, SpanOf, ConnOf
  <2> QED
    BY <1>8, <2>1 DEF KeepsBd, SameTile, ConnOf, BdOf
<1>10. Rotates(dmaOps')
  BY <1>2, <1>3, <1>6, RotationKept
<1> QED
  BY <1>2, <1>9, <1>10 DEF OwnInv

(* The programs whose BD ids come round in turn.                           *)
RotatingPrograms == \A p \in Programs : Rotates(p.ops)

(* At first nothing is linked and no chain is open.                        *)
LEMMA OwnStarts == ASSUME RotatingPrograms, Init, PassInv PROVE OwnInv
<1>1. PICK n, src : n = NumDmas /\ src = source.ops
  OBVIOUS
<1>2. /\ n \in Nat /\ TypedDmas(dmaOps, n) /\ CodeOK(code, n) /\ DOMAIN dmaOps = 1 .. n
      /\ DOMAIN src = 1 .. n
  BY <1>1 DEF PassInv, PassOK, TypedDmas, Init
<1>3. \A i \in 1 .. n : /\ dmaOps[i].conn = src[i].conn /\ dmaOps[i].bd = src[i].bd
                        /\ dmaOps[i].repeat = src[i].repeat /\ dmaOps[i].nextBd = NoBd
  BY <1>1, <1>2 DEF Init, NewDma
<1>4. SameDmas(dmaOps, src, n)
  BY <1>3 DEF SameDmas
<1>5. Rotates(dmaOps)
  <2>1. Rotates(src)
    BY <1>1 DEF RotatingPrograms, Init
  <2> QED
    BY <1>2, <1>4, <2>1, RotationKept
<1>6. pos = Len(code) /\ Len(code) \in Nat
  BY <1>2, LenIs DEF Init, CodeOK, IsCode
<1>7. SeenIn(code, pos, n) = {}
  <2> SUFFICES ASSUME NEW i \in SeenIn(code, pos, n) PROVE FALSE
    OBVIOUS
  <2>1. PICK k \in 1 .. Len(code) : AtDma(code, k, i)
    BY <1>2 DEF CodeOK, DmasInOrder, SeenIn
  <2>2. k > pos
    BY <2>1 DEF SeenIn
  <2> QED
    BY <1>6, <2>2
<1>8. OwnsBds(dmaOps, chain, {}, n)
  <2>1. \A c \in Connection : chain[c] = <<>>
    BY DEF Init, ChainInit
  <2>2. \A c \in Connection : ToSet(chain[c]) = {} /\ Len(chain[c]) = 0
    BY <2>1, EmptyIs DEF ToSet
  <2>3. \A k : k \notin 1 .. 0
    OBVIOUS
  <2>4. FromTheEnd({}, n) /\ MembersSeen(dmaOps, chain, {}) /\ NoGap(dmaOps, chain, {})
    BY <2>2 DEF FromTheEnd, MembersSeen, NoGap
  <2>5. Falling(chain) /\ OpenUnlinked(dmaOps, chain, {}, n) /\ ClosedKeep(dmaOps, chain, {}, n)
    BY <1>3, <2>2, <2>3 DEF Falling, OpenUnlinked, ClosedKeep
  <2>6. NotAgain(dmaOps, chain, {})
    BY DEF NotAgain
  <2> QED
    BY <2>4, <2>5, <2>6 DEF OwnsBds
<1>9. ChainOwnsItsBds
  <2>1. ASSUME NEW i \in 1 .. n, NEW j \in 1 .. n PROVE ~SpanOf(dmaOps, i, j)
    <3>1. i < j => i \in i .. j - 1
      BY <1>2
    <3> QED
      BY <1>3, <3>1 DEF SpanOf
  <2>2. \A i \in 1 .. n : KeepsBd(dmaOps, n, i)
    BY <2>1 DEF KeepsBd
  <2> QED
    BY <1>1, <1>2, <2>2, KeptIsOwned
<1>10. pos \in 0 .. Len(code)
  BY <1>6
<1> QED
  BY <1>1, <1>5, <1>7, <1>8, <1>9, <1>10 DEF OwnInv

(* The passes behind it change neither the DMAs' ids nor their links.      *)
LEMMA LaterOwns ==
    ASSUME PassFacts, PassFacts', source' = source, OwnInv, stage # "chain", stage' # "chain",
           \A i \in 1 .. NumDmas : /\ dmaOps'[i].conn = dmaOps[i].conn
                                   /\ dmaOps'[i].bd = dmaOps[i].bd
                                   /\ dmaOps'[i].repeat = dmaOps[i].repeat
                                   /\ dmaOps'[i].nextBd = dmaOps[i].nextBd
    PROVE  OwnInv'
<1>1. PICK n : n = NumDmas /\ n \in Nat /\ DOMAIN dmaOps = 1 .. n /\ DOMAIN dmaOps' = 1 .. n
  BY DEF PassFacts, TypedDmas, NumDmas
<1>2. Rotates(dmaOps')
  BY <1>1, RotationKept DEF OwnInv, SameDmas
<1>3. ChainOwnsItsBds'
  <2> SUFFICES ASSUME NEW i \in 1 .. n, NEW j \in 1 .. n, InChainOf(i, j)',
                      NEW k \in i + 1 .. j, TileOf[ConnOf(k)'] = TileOf[ConnOf(i)']
               PROVE  BdOf(k)' # BdOf(i)'
    BY <1>1 DEF ChainOwnsItsBds
  <2>1. k \in 1 .. n /\ \A m \in i .. j - 1 : m \in 1 .. n
    BY <1>1
  <2>2. InChainOf(i, j) /\ TileOf[ConnOf(k)] = TileOf[ConnOf(i)]
    BY <1>1, <2>1 DEF InChainOf, ConnOf
  <2>3. BdOf(k) # BdOf(i)
    BY <1>1, <2>2 DEF OwnInv, ChainOwnsItsBds
  <2> QED
    BY <1>1, <2>1, <2>3 DEF BdOf
<1> QED
  BY <1>2, <1>3 DEF OwnInv

(* Every step of the pipeline keeps the invariant.                         *)
LEMMA OwnGoesOn ==
    ASSUME ChainInv, PassInv, PassInv', OwnInv, [Next]_vars
    PROVE  OwnInv'
<1>1. PassFacts /\ PassFacts' /\ source' = source
  BY DEF PassInv, PassOK, PassFacts, Next, Compile, Run, vars
<1>2. CASE stage = "chain" /\ ChainNext
  <2>1. CASE VisitDma
    BY <1>1, <2>1, VisitOwns
  <2>2. CASE FinishChains
    BY <1>1, <2>2, FinishOwns
  <2>3. CASE VisitRepeatDma \/ VisitBarrier \/ VisitOther
    <3>1. \/ code[pos].kind # "dma"
          \/ \E i \in DOMAIN dmaOps : code[pos] = Dma(i) /\ dmaOps[i].repeat > 1
      BY <2>3 DEF VisitRepeatDma, VisitBarrier, VisitOther
    <3>2. pos > 0 /\ pos' = pos - 1 /\ UNCHANGED <<dmaOps, code, stage, chain>>
      BY <2>3 DEF VisitRepeatDma, VisitBarrier, VisitOther, chainVars
    <3> QED
      BY <1>1, <1>2, <3>1, <3>2, PassesOwns
  <2> QED
    BY <1>2, <2>1, <2>2, <2>3 DEF ChainNext
<1>3. CASE UNCHANGED <<dmaOps, code, stage, pos, chain>>
  BY <1>1, <1>3 DEF OwnInv, NumDmas, ChainOwnsItsBds, InChainOf, ConnOf, BdOf
<1>4. CASE stage # "chain" /\ stage' # "chain" /\ dmaOps' = dmaOps
  BY <1>1, <1>4, LaterOwns
<1>5. CASE FinishQueues
  <2>1. /\ stage # "chain" /\ stage' # "chain"
        /\ dmaOps' = [i \in DOMAIN dmaOps |->
                        [dmaOps[i] EXCEPT !.token = @ /\ i \notin FoldedDmas]]
    BY <1>5 DEF FinishQueues
  <2>2. ASSUME NEW i \in 1 .. NumDmas
        PROVE  /\ dmaOps'[i].conn = dmaOps[i].conn /\ dmaOps'[i].bd = dmaOps[i].bd
               /\ dmaOps'[i].repeat = dmaOps[i].repeat /\ dmaOps'[i].nextBd = dmaOps[i].nextBd
    <3>1. PICK b, o : b = (dmaOps[i].token /\ i \notin FoldedDmas) /\ o = dmaOps[i]
      OBVIOUS
    <3>2. o \in DmaRec /\ dmaOps'[i] = [o EXCEPT !.token = b]
      BY <1>1, <2>1, <3>1 DEF PassFacts, TypedDmas
    <3> QED
      BY <3>1, <3>2 DEF DmaRec
  <2> QED
    BY <1>1, <2>1, <2>2, LaterOwns
<1> QED
  <2>1. CASE Compile
    <3>1. CASE ChainNext
      BY <1>2, <3>1 DEF ChainNext, VisitDma, VisitRepeatDma, VisitBarrier, VisitOther, FinishChains
    <3>2. CASE SkipFold \/ ControlCodeLowering \/ FoldNext
      <4>1. FinishQueues \/ (stage # "chain" /\ stage' # "chain" /\ dmaOps' = dmaOps)
        BY <3>2 DEF SkipFold, ControlCodeLowering, FoldNext, VisitWaitByQueue, VisitBarrierByQueue,
                    VisitWaitByBatch, VisitBarrierByBatch, FinishBatches, VisitDmaByFold
      <4> QED
        BY <1>4, <1>5, <4>1
    <3> QED
      BY <2>1, <3>1, <3>2 DEF Compile
  <2>2. CASE Run
    <3>1. UNCHANGED codeVars /\ chain' = chain
      BY <2>2 DEF Run, Controller, Issue, ExecuteWriteBd, ExecutePush, ExecuteSync, DmaPort,
                  StartTask, FinishBd, chainVars
    <3> QED
      BY <1>3, <3>1 DEF codeVars
  <2>3. CASE UNCHANGED vars
    BY <1>3, <2>3 DEF vars, codeVars, chainVars
  <2> QED
    BY <2>1, <2>2, <2>3 DEF Next

(* No DMA between a linked DMA and the push of its chain uses its BD on    *)
(* the tile: breaking the one chain with a duplicate id is enough, as long *)
(* as the ids of the tile come round in turn.                              *)
THEOREM ChainsOwnTheirBds == ASSUME RotatingPrograms PROVE Spec => []ChainOwnsItsBds
<1>1. Init /\ PassInv => OwnInv
  BY OwnStarts
<1>2. ChainInv /\ PassInv /\ PassInv' /\ OwnInv /\ [Next]_vars => OwnInv'
  BY OwnGoesOn
<1>3. OwnInv => ChainOwnsItsBds
  BY DEF OwnInv
<1> QED
  BY <1>1, <1>2, <1>3, ChainInvariant, PassInvariant, PTL DEF Spec

-----------------------------------------------------------------------------
(* Where waits stand in the source code: a bracket is closed before the    *)
(* next DMA behind it.                                                     *)
Within(c, n, until) ==
    \A i, j \in 1 .. n, k, l \in 1 .. Len(c) :
        AtWait(c, k, i) /\ AtDma(c, l, j) /\ until[i] < j => k < l

(* The next piece of the code closes its brackets, too.                    *)
LEMMA PieceWithin ==
    ASSUME NEW n \in Nat, NEW until, EndsLater(until, n), NEW k \in 1 .. n, NEW c, NEW x, NEW d,
           IsSeq(x), d = c \o x, Part(c, n, 1 .. k - 1, EndedBy(until, n, k - 1)),
           Part(d, n, 1 .. k, EndedBy(until, n, k)), Within(c, n, until)
    PROVE  Within(d, n, until)
<1>1. IsSeq(c) /\ Len(c) \in Nat /\ Len(x) \in Nat
  BY LenIs DEF Part, IsCode
<1>2. /\ IsSeq(d) /\ Len(d) = Len(c) + Len(x)
      /\ \A a \in 1 .. Len(c) : d[a] = c[a]
  BY <1>1, ConcatIs
<1>3. \A a \in 1 .. Len(c) : a \in 1 .. Len(d)
  BY <1>1, <1>2
<1> SUFFICES ASSUME NEW i \in 1 .. n, NEW j \in 1 .. n, NEW a \in 1 .. Len(d), NEW b \in 1 .. Len(d),
                    AtWait(d, a, i), AtDma(d, b, j), until[i] < j
             PROVE  a < b
  BY DEF Within
<1>4. j \in 1 .. k /\ until[i] \in i .. n
  BY DEF Part, EndsLater
<1>5. i \in EndedBy(until, n, k - 1)
  BY <1>4 DEF EndedBy
<1>6. PICK e \in 1 .. Len(c) : AtWait(c, e, i)
  BY <1>5 DEF Part, Awaited
<1>7. a = e
  <2>1. AtWait(d, e, i) /\ e \in 1 .. Len(d)
    BY <1>2, <1>3, <1>6 DEF AtWait
  <2> QED
    BY <2>1 DEF Part, WaitsOnce
<1>8. CASE b \in 1 .. Len(c)
  <2>1. AtDma(c, b, j)
    BY <1>2, <1>8 DEF AtDma
  <2> QED
    BY <1>6, <1>7, <1>8, <2>1 DEF Within
<1>9. CASE b \notin 1 .. Len(c)
  BY <1>1, <1>2, <1>7, <1>9
<1> QED
  BY <1>8, <1>9

(* So does all of the source code.                                         *)
LEMMA SourceWithin ==
    ASSUME NEW n \in Nat, NEW until, EndsLater(until, n), NEW barriers
    PROVE  Within(SourceCode(n, until, barriers), n, until)
<1>1. PICK c : c = SourceCode(n, until, barriers)
  OBVIOUS
<1>2. PICK h : IsBuilt(h, c, n, until, barriers)
  BY <1>1, SourceSteps
<1> DEFINE T == {k \in 0 .. n : Within(h[k], n, until)}
<1>3. 0 \in T
  <2>1. \A k : k \notin 1 .. 0
    OBVIOUS
  <2>2. h[0] = <<>> /\ 0 \in 0 .. n
    BY <1>2 DEF IsBuilt
  <2>3. Within(<<>>, n, until)
    BY <2>1, EmptyIs DEF Within
  <2> QED
    BY <2>2, <2>3
<1>4. ASSUME NEW k \in 1 .. n, k - 1 \in T PROVE k \in T
  <2>1. k - 1 \in 0 .. n /\ k \in 0 .. n /\ Within(h[k - 1], n, until)
    BY <1>4
  <2>2. /\ h[k] = h[k - 1] \o PieceAt(k, until, barriers)
        /\ Part(h[k - 1], n, 1 .. k - 1, EndedBy(until, n, k - 1))
        /\ Part(h[k], n, 1 .. k, EndedBy(until, n, k))
    BY <1>2, <2>1 DEF IsBuilt
  <2>3. IsSeq(PieceAt(k, until, barriers))
    BY PieceIsSeq, SeqIsSeq
  <2>4. Within(h[k], n, until)
    BY <2>1, <2>2, <2>3, PieceWithin
  <2> QED
    BY <2>1, <2>4
<1>5. n \in T
  <2> HIDE DEF T
  <2>1. 0 .. n \subseteq T
    BY <1>3, <1>4, UpToN
  <2> QED
    BY <2>1
<1> QED
  BY <1>1, <1>2, <1>5 DEF IsBuilt

(* A wait is prompt if it stands before the next DMA.  In code c those up  *)
(* to position p are, and those of the DMAs in B.                          *)
Prompt(c, n, p, B) ==
    \A i, j \in 1 .. n, k, l \in 1 .. Len(c) :
        AtWait(c, k, i) /\ (k <= p \/ i \in B) /\ AtDma(c, l, j) /\ i < j => k < l

(* Merged waits come later, but before the next DMA of their connection    *)
(* that has a wait of its own.                                             *)
Spaced(c, ops, n) ==
    \A i, j \in 1 .. n, k, l \in 1 .. Len(c) :
        AtWait(c, k, i) /\ AtDma(c, l, j) /\ i < j
        /\ ops[j].token /\ ops[j].conn = ops[i].conn => k < l

(* Erasing waits leaves the others prompt.                                 *)
LEMMA ErasePrompt ==
    ASSUME NEW n \in Nat, NEW c, IsSeq(c), Prompt(c, n, Len(c), {}),
           NEW gone, NEW d, d = EraseWaits(c, gone)
    PROVE  Prompt(d, n, Len(d), {})
<1>1. PICK f : Embeds(f, d, c, Len(c), gone)
  BY EraseEmbeds
<1>2. Len(c) \in Nat /\ IsSeq(d) /\ Len(d) \in Nat
  BY <1>1, LenIs DEF Embeds
<1>3. /\ \A k \in 1 .. Len(d) : f[k] \in 1 .. Len(c) /\ d[k] = c[f[k]]
      /\ \A k, l \in 1 .. Len(d) : k < l => f[k] < f[l]
  BY <1>1 DEF Embeds
<1> SUFFICES ASSUME NEW i \in 1 .. n, NEW j \in 1 .. n, NEW k \in 1 .. Len(d), NEW l \in 1 .. Len(d),
                    AtWait(d, k, i), AtDma(d, l, j), i < j
             PROVE  k < l
  BY DEF Prompt
<1>4. AtWait(c, f[k], i) /\ AtDma(c, f[l], j) /\ f[k] <= Len(c)
  <2>1. f[k] \in 1 .. Len(c) /\ d[k] = c[f[k]]
    BY <1>3
  <2>2. f[l] \in 1 .. Len(c) /\ d[l] = c[f[l]]
    BY <1>3
  <2>3. AtWait(c, f[k], i)
    BY <2>1 DEF AtWait
  <2>4. AtDma(c, f[l], j)
    BY <2>2 DEF AtDma
  <2> QED
    BY <1>2, <2>1, <2>3, <2>4
<1>5. f[k] < f[l]
  BY <1>3, <1>4 DEF Prompt
<1>6. ~(l < k)
  <2>1. l < k => f[l] < f[k]
    BY <1>3
  <2>2. f[k] \in 1 .. Len(c) /\ f[l] \in 1 .. Len(c)
    BY <1>3
  <2> QED
    BY <1>2, <1>5, <2>1, <2>2
<1>7. k # l
  <2>1. f[k] \in 1 .. Len(c)
    BY <1>3
  <2> QED
    BY <1>2, <1>5, <2>1
<1> QED
  BY <1>2, <1>6, <1>7

(* Prompt waits are spaced.                                                *)
LEMMA PromptIsSpaced ==
    ASSUME NEW n \in Nat, NEW c, IsSeq(c), Prompt(c, n, Len(c), {}), NEW ops
    PROVE  Spaced(c, ops, n)
<1>1. Len(c) \in Nat
  BY LenIs
<1>2. \A k \in 1 .. Len(c) : k <= Len(c)
  BY <1>1
<1> QED
  BY <1>2 DEF Prompt, Spaced

-----------------------------------------------------------------------------
(* The DMAs with a push, those of a connection in a stretch of the program,*)
(* and a stretch without one of T.                                         *)
Pushed(ops, n) == {i \in 1 .. n : ops[i].nextBd = NoBd}
Members(ops, V, q, lo, hi) == {i \in V : ops[i].conn = q /\ lo < i /\ i <= hi}
FreeOf(ops, T, q, lo, hi) == \A t \in T : lo < t /\ t <= hi => ops[t].conn # q

(* A stretch with none of T has less than a full queue of V.               *)
Gaps(ops, n, V, T) ==
    \A q \in Connection, lo, hi \in 0 .. n :
        FreeOf(ops, T, q, lo, hi) => Cardinality(Members(ops, V, q, lo, hi)) < MaxQueueSize

(* Members are counted.                                                    *)
LEMMA MembersNat ==
    ASSUME NEW n \in Nat, NEW ops, NEW V \in SUBSET (1 .. n), NEW q, NEW lo, NEW hi
    PROVE  /\ IsFiniteSet(Members(ops, V, q, lo, hi))
           /\ Cardinality(Members(ops, V, q, lo, hi)) \in Nat
<1>1. IsFiniteSet(1 .. n)
  BY FS_Interval
<1>2. Members(ops, V, q, lo, hi) \in SUBSET (1 .. n)
  BY DEF Members
<1> QED
  BY <1>1, <1>2, FS_Subset, FS_CardinalityType

(* A shorter stretch or fewer DMAs have fewer members.                     *)
LEMMA MembersFewer ==
    ASSUME NEW n \in Nat, NEW ops, NEW V \in SUBSET (1 .. n), NEW U, NEW q,
           NEW lo, NEW hi, NEW lo1, NEW hi1,
           Members(ops, U, q, lo1, hi1) \subseteq Members(ops, V, q, lo, hi)
    PROVE  Cardinality(Members(ops, U, q, lo1, hi1)) <= Cardinality(Members(ops, V, q, lo, hi))
  BY MembersNat, FS_Subset

(* One more DMA is one more member, if it is one.                          *)
LEMMA MembersMore ==
    ASSUME NEW n \in Nat, NEW ops, NEW V \in SUBSET (1 .. n), NEW i \in 1 .. n, i \notin V,
           NEW q, NEW lo, NEW hi
    PROVE  /\ ops[i].conn # q \/ ~(lo < i /\ i <= hi) =>
                Members(ops, V \cup {i}, q, lo, hi) = Members(ops, V, q, lo, hi)
           /\ ops[i].conn = q /\ lo < i /\ i <= hi =>
                Cardinality(Members(ops, V \cup {i}, q, lo, hi))
                  = Cardinality(Members(ops, V, q, lo, hi)) + 1
<1>1. PICK A : A = Members(ops, V, q, lo, hi)
  OBVIOUS
<1>2. IsFiniteSet(A) /\ i \notin A
  <2>1. IsFiniteSet(A)
    BY <1>1, MembersNat
  <2>2. i \notin A
    BY <1>1 DEF Members
  <2> QED
    BY <2>1, <2>2
<1>3. ops[i].conn # q \/ ~(lo < i /\ i <= hi) => Members(ops, V \cup {i}, q, lo, hi) = A
  BY <1>1 DEF Members
<1>4. ops[i].conn = q /\ lo < i /\ i <= hi => Members(ops, V \cup {i}, q, lo, hi) = A \cup {i}
  BY <1>1 DEF Members
<1>5. Cardinality(A \cup {i}) = Cardinality(A) + 1
  BY <1>2, FS_AddElement
<1> QED
  BY <1>1, <1>3, <1>4, <1>5

(* The walk reaches DMA i, in front of all it has seen.                    *)
InFront(n, V, i) == /\ n \in Nat /\ V \in SUBSET (1 .. n) /\ i \in 1 .. n
                    /\ \A v \in V : i < v

(* Folding it: between it and the wait kept for it there are few DMAs.     *)
LEMMA FoldGaps ==
    ASSUME NEW n, NEW V, NEW i, InFront(n, V, i), NEW ops, NEW F, NEW t \in V \ F,
           ops[t].conn = ops[i].conn, Gaps(ops, n, V, V \ F),
           Cardinality(Members(ops, V, ops[i].conn, 0, t - 1)) + 1 < MaxQueueSize
    PROVE  /\ Gaps(ops, n, V \cup {i}, (V \cup {i}) \ (F \cup {i}))
           /\ Cardinality(Members(ops, V \cup {i}, ops[i].conn, 0, t - 1))
                = Cardinality(Members(ops, V, ops[i].conn, 0, t - 1)) + 1
<1>1. /\ n \in Nat /\ V \in SUBSET (1 .. n) /\ i \in 1 .. n /\ i \notin V /\ i < t /\ t \in 1 .. n
      /\ V \cup {i} \in SUBSET (1 .. n)
  BY DEF InFront
<1>2. (V \cup {i}) \ (F \cup {i}) = V \ F
  BY <1>1
<1>3. 0 < i /\ i <= t - 1
  BY <1>1
<1>4. Cardinality(Members(ops, V \cup {i}, ops[i].conn, 0, t - 1))
        = Cardinality(Members(ops, V, ops[i].conn, 0, t - 1)) + 1
  BY <1>1, <1>3, MembersMore
<1>5. ASSUME NEW q \in Connection, NEW lo \in 0 .. n, NEW hi \in 0 .. n, FreeOf(ops, V \ F, q, lo, hi)
      PROVE  Cardinality(Members(ops, V \cup {i}, q, lo, hi)) < MaxQueueSize
  <2>1. CASE ops[i].conn # q \/ ~(lo < i /\ i <= hi)
    <3>1. Members(ops, V \cup {i}, q, lo, hi) = Members(ops, V, q, lo, hi)
      BY <1>1, <2>1, MembersMore
    <3> QED
      BY <1>5, <3>1 DEF Gaps
  <2>2. CASE ops[i].conn = q /\ lo < i /\ i <= hi
    <3>1. hi < t
      BY <1>1, <1>5, <2>2 DEF FreeOf
    <3>2. Members(ops, V \cup {i}, q, lo, hi) \subseteq Members(ops, V \cup {i}, q, 0, t - 1)
      <4>1. \A v \in V \cup {i} : lo < v /\ v <= hi => 0 < v /\ v <= t - 1
        BY <1>1, <3>1
      <4> QED
        BY <4>1 DEF Members
    <3>3. Cardinality(Members(ops, V \cup {i}, q, lo, hi))
            <= Cardinality(Members(ops, V \cup {i}, q, 0, t - 1))
      BY ONLY <1>1, <3>2, MembersFewer
    <3>4. PICK a, b : /\ a = Cardinality(Members(ops, V \cup {i}, q, lo, hi))
                      /\ b = Cardinality(Members(ops, V, q, 0, t - 1))
      OBVIOUS
    <3>5. a \in Nat /\ b \in Nat
      BY <1>1, <3>4, MembersNat
    <3>6. b + 1 < MaxQueueSize /\ a <= b + 1
      BY <1>4, <2>2, <3>3, <3>4
    <3> QED
      BY QueueAssumption, <3>4, <3>5, <3>6
  <2> QED
    BY <2>1, <2>2
<1> QED
  BY <1>2, <1>4, <1>5 DEF Gaps

(* Keeping its wait ends the stretch.                                      *)
LEMMA KeepGaps ==
    ASSUME NEW n, NEW V, NEW i, InFront(n, V, i), NEW ops, NEW F, F \subseteq V,
           Gaps(ops, n, V, V \ F)
    PROVE  /\ Gaps(ops, n, V \cup {i}, (V \cup {i}) \ F)
           /\ Cardinality(Members(ops, V \cup {i}, ops[i].conn, 0, i - 1)) = 0
<1>1. /\ n \in Nat /\ V \in SUBSET (1 .. n) /\ i \in 1 .. n /\ i \notin V
  BY DEF InFront
<1>2. (V \cup {i}) \ F = (V \ F) \cup {i}
  BY <1>1
<1>3. Members(ops, V \cup {i}, ops[i].conn, 0, i - 1) = {}
  <2>1. \A v \in V \cup {i} : ~(v <= i - 1)
    BY <1>1 DEF InFront
  <2> QED
    BY <2>1 DEF Members
<1>4. ASSUME NEW q \in Connection, NEW lo \in 0 .. n, NEW hi \in 0 .. n,
             FreeOf(ops, (V \ F) \cup {i}, q, lo, hi)
      PROVE  Cardinality(Members(ops, V \cup {i}, q, lo, hi)) < MaxQueueSize
  <2>1. ops[i].conn # q \/ ~(lo < i /\ i <= hi)
    BY <1>4 DEF FreeOf
  <2>2. Members(ops, V \cup {i}, q, lo, hi) = Members(ops, V, q, lo, hi)
    BY <1>1, <2>1, MembersMore
  <2>3. FreeOf(ops, V \ F, q, lo, hi)
    BY <1>4 DEF FreeOf
  <2> QED
    BY <2>2, <2>3 DEF Gaps
<1> QED
  BY <1>2, <1>3, <1>4, FS_EmptySet DEF Gaps

(* A connection that is not the DMA's has the members it had.              *)
LEMMA OthersKeep ==
    ASSUME NEW n, NEW V, NEW i, InFront(n, V, i), NEW ops, NEW q, ops[i].conn # q
    PROVE  \A hi : Members(ops, V \cup {i}, q, 0, hi) = Members(ops, V, q, 0, hi)
  BY DEF Members

(* The DMAs whose waits the walk has seen.                                 *)
SeenWaits(c, p, n) == {i \in 1 .. n : \E k \in 1 .. Len(c) : k > p /\ AtWait(c, k, i)}

(* A step back over a wait for DMA i sees it too, over another operation   *)
(* nothing new.                                                            *)
LEMMA SeenWaitStep ==
    ASSUME NEW n \in Nat, NEW c, CodeOK(c, n), NEW p \in 1 .. Len(c)
    PROVE  /\ \A i \in 1 .. n : c[p] = Wait({i}) =>
                i \notin SeenWaits(c, p, n) /\ SeenWaits(c, p - 1, n) = SeenWaits(c, p, n) \cup {i}
           /\ c[p].kind # "wait" => SeenWaits(c, p - 1, n) = SeenWaits(c, p, n)
<1>1. Len(c) \in Nat /\ WaitsOnce(c, n)
  BY LenIs DEF CodeOK, IsCode
<1>2. \A k \in 1 .. Len(c) : k > p - 1 <=> k > p \/ k = p
  BY <1>1
<1>3. ASSUME NEW i \in 1 .. n, c[p] = Wait({i})
      PROVE  /\ i \notin SeenWaits(c, p, n)
             /\ SeenWaits(c, p - 1, n) = SeenWaits(c, p, n) \cup {i}
  <2>1. \A j : AtWait(c, p, j) <=> j = i
    <3>1. c[p].kind = "wait" /\ c[p].ops = {i}
      BY <1>3, OpFacts
    <3> QED
      BY <3>1 DEF AtWait
  <2>2. i \notin SeenWaits(c, p, n)
    <3>1. SUFFICES ASSUME NEW k \in 1 .. Len(c), k > p, AtWait(c, k, i) PROVE FALSE
      BY DEF SeenWaits
    <3>2. k = p
      BY <1>1, <2>1, <3>1 DEF WaitsOnce
    <3> QED
      BY <3>1, <3>2
  <2> QED
    BY <1>2, <2>1, <2>2 DEF SeenWaits
<1>4. c[p].kind # "wait" => SeenWaits(c, p - 1, n) = SeenWaits(c, p, n)
  BY <1>2 DEF SeenWaits, AtWait
<1> QED
  BY <1>3, <1>4

-----------------------------------------------------------------------------
(* The queues of waits: none is empty.  All but the first wait of each are *)
(* folded.                                                                 *)
QueuesOK(qs) == IsSeq(qs) /\ \A k \in 1 .. Len(qs) : IsSeq(qs[k]) /\ qs[k] # <<>>
FoldedIn(qs) == UNION {UNION ToSet(Tail(q)) : q \in ToSet(qs)}
FoldedAt(qs, j, k) == \E m \in 1 .. Len(qs[k]) - 1 : j \in qs[k][m + 1]

(* A DMA is folded if it is behind the first place of a queue.             *)
LEMMA FoldedIs ==
    ASSUME NEW qs, QueuesOK(qs)
    PROVE  \A j : j \in FoldedIn(qs) <=> \E k \in 1 .. Len(qs) : FoldedAt(qs, j, k)
<1>1. DOMAIN qs = 1 .. Len(qs)
  BY LenIs DEF QueuesOK
<1>2. ASSUME NEW j, NEW k \in 1 .. Len(qs)
      PROVE  j \in UNION ToSet(Tail(qs[k])) <=> FoldedAt(qs, j, k)
  <2>1. PICK s : s = qs[k]
    OBVIOUS
  <2>2. IsSeq(s) /\ s # <<>>
    BY <2>1 DEF QueuesOK
  <2>3. /\ IsSeq(Tail(s)) /\ Len(Tail(s)) = Len(s) - 1
        /\ \A m \in 1 .. Len(s) - 1 : Tail(s)[m] = s[m + 1]
    BY <2>2, TailIs
  <2>4. DOMAIN Tail(s) = 1 .. Len(s) - 1
    BY <2>3, LenIs
  <2>5. j \in UNION ToSet(Tail(s)) <=> \E m \in 1 .. Len(s) - 1 : j \in s[m + 1]
    BY <2>3, <2>4 DEF ToSet
  <2> QED
    BY <2>1, <2>5 DEF FoldedAt
<1> SUFFICES ASSUME NEW j
             PROVE  j \in FoldedIn(qs) <=> \E k \in 1 .. Len(qs) : FoldedAt(qs, j, k)
  OBVIOUS
<1>3. j \in FoldedIn(qs) <=> \E k \in 1 .. Len(qs) : j \in UNION ToSet(Tail(qs[k]))
  <2>1. ASSUME j \in FoldedIn(qs) PROVE \E k \in 1 .. Len(qs) : j \in UNION ToSet(Tail(qs[k]))
    <3>1. PICK q \in ToSet(qs) : j \in UNION ToSet(Tail(q))
      BY <2>1 DEF FoldedIn
    <3>2. PICK k \in 1 .. Len(qs) : q = qs[k]
      BY <1>1, <3>1 DEF ToSet
    <3> QED
      BY <3>1, <3>2
  <2>2. ASSUME NEW k \in 1 .. Len(qs), j \in UNION ToSet(Tail(qs[k])) PROVE j \in FoldedIn(qs)
    <3>1. qs[k] \in ToSet(qs)
      BY <1>1 DEF ToSet
    <3> QED
      BY <2>2, <3>1 DEF FoldedIn
  <2> QED
    BY <2>1, <2>2
<1> QED
  BY <1>2, <1>3

(* A wait that joins the last queue is folded.                             *)
LEMMA FoldOn ==
    ASSUME NEW qs, QueuesOK(qs), qs # <<>>, NEW i,
           NEW to, to = Front(qs) \o <<Append(Last(qs), {i})>>
    PROVE  QueuesOK(to) /\ to # <<>> /\ FoldedIn(to) = FoldedIn(qs) \cup {i}
<1>1. PICK L : L = Len(qs) /\ L \in Nat /\ L >= 1 /\ IsSeq(qs)
  BY LenIs DEF QueuesOK
<1>2. PICK s : s = qs[L]
  OBVIOUS
<1>3. IsSeq(s) /\ s # <<>> /\ Last(qs) = s /\ Len(s) \in Nat /\ Len(s) >= 1
  <2>1. L \in 1 .. L
    BY <1>1
  <2> QED
    BY <1>1, <1>2, <2>1, LenIs DEF QueuesOK, Last
<1>4. PICK v : v = Append(s, {i})
  OBVIOUS
<1>5. /\ IsSeq(v) /\ Len(v) = Len(s) + 1 /\ v[Len(s) + 1] = {i}
      /\ \A k \in 1 .. Len(s) : v[k] = s[k]
  BY <1>3, <1>4, AppendIs
<1>6. IsNext(to, Front(qs), v) /\ Len(Front(qs)) = L - 1 /\ \A k \in 1 .. L - 1 : Front(qs)[k] = qs[k]
  <2>1. /\ IsSeq(Front(qs)) /\ Len(Front(qs)) = L - 1
        /\ \A k \in 1 .. L - 1 : Front(qs)[k] = qs[k]
    BY <1>1, FrontIs
  <2>2. IsNext(Front(qs) \o <<v>>, Front(qs), v)
    BY <2>1, NextIs
  <2> QED
    BY <1>3, <1>4, <2>1, <2>2
<1>7. IsSeq(to) /\ Len(to) = L /\ to[L] = v /\ \A k \in 1 .. L - 1 : to[k] = qs[k]
  <2>1. PICK u : u = Front(qs) /\ IsNext(to, u, v) /\ Len(u) = L - 1
    BY <1>6
  <2>2. L - 1 + 1 = L
    BY <1>1
  <2>3. IsSeq(to) /\ Len(to) = L /\ to[L] = v /\ \A k \in 1 .. L - 1 : to[k] = u[k]
    BY <2>1, <2>2 DEF IsNext
  <2> QED
    BY <1>6, <2>1, <2>3
<1>8. \A k \in 1 .. L : k = L \/ k \in 1 .. L - 1
  BY <1>1
<1>9. v # <<>>
  BY <1>3, <1>5, EmptyIs
<1>10. QueuesOK(to) /\ to # <<>>
  <2>1. ASSUME NEW k \in 1 .. L PROVE IsSeq(to[k]) /\ to[k] # <<>>
    <3>1. CASE k = L
      BY <1>5, <1>7, <1>9, <3>1
    <3>2. CASE k \in 1 .. L - 1
      <4>1. IsSeq(qs[k]) /\ qs[k] # <<>>
        BY <1>1 DEF QueuesOK
      <4> QED
        BY <1>7, <3>2, <4>1
    <3> QED
      BY <1>8, <3>1, <3>2
  <2>2. to # <<>>
    BY <1>1, <1>7, EmptyIs
  <2> QED
    BY <1>7, <2>1, <2>2 DEF QueuesOK
<1>11. ASSUME NEW j PROVE FoldedAt(to, j, L) <=> FoldedAt(qs, j, L) \/ j = i
  <2>1. \A m \in 1 .. Len(s) : m = Len(s) \/ (m \in 1 .. Len(s) - 1 /\ m + 1 \in 1 .. Len(s))
    BY <1>3
  <2>2. Len(s) \in 1 .. Len(s) /\ Len(v) - 1 = Len(s)
    BY <1>3, <1>5
  <2>3. \A m \in 1 .. Len(s) - 1 : m \in 1 .. Len(s) /\ v[m + 1] = s[m + 1]
    BY <1>3, <1>5
  <2>4. FoldedAt(to, j, L) <=> \E m \in 1 .. Len(s) : j \in v[m + 1]
    BY <1>7, <2>2 DEF FoldedAt
  <2>5. FoldedAt(qs, j, L) <=> \E m \in 1 .. Len(s) - 1 : j \in s[m + 1]
    BY <1>2 DEF FoldedAt
  <2>6. j \in v[Len(s) + 1] <=> j = i
    BY <1>5
  <2> QED
    BY <2>1, <2>2, <2>3, <2>4, <2>5, <2>6
<1>12. ASSUME NEW j, NEW k \in 1 .. L - 1 PROVE FoldedAt(to, j, k) <=> FoldedAt(qs, j, k)
  BY <1>7 DEF FoldedAt
<1>13. ASSUME NEW j PROVE j \in FoldedIn(to) <=> j \in FoldedIn(qs) \/ j = i
  <2>1. j \in FoldedIn(to) <=> \E k \in 1 .. L : FoldedAt(to, j, k)
    BY <1>7, <1>10, FoldedIs
  <2>2. j \in FoldedIn(qs) <=> \E k \in 1 .. L : FoldedAt(qs, j, k)
    BY <1>1, FoldedIs
  <2>3. L \in 1 .. L
    BY <1>1
  <2> QED
    BY <1>8, <1>11, <1>12, <2>1, <2>2, <2>3
<1> QED
  BY <1>10, <1>13

(* A wait that starts a queue is not.                                      *)
LEMMA FoldNew ==
    ASSUME NEW qs, QueuesOK(qs), NEW w, NEW to, to = Append(qs, <<w>>)
    PROVE  QueuesOK(to) /\ to # <<>> /\ FoldedIn(to) = FoldedIn(qs)
<1>1. PICK L : L = Len(qs) /\ L \in Nat /\ IsSeq(qs)
  BY LenIs DEF QueuesOK
<1>2. PICK v : v = <<w>>
  OBVIOUS
<1>3. IsSeq(v) /\ Len(v) = 1 /\ v # <<>>
  BY <1>2, OneIsSeq
<1>4. IsSeq(to) /\ Len(to) = L + 1 /\ to[L + 1] = v /\ \A k \in 1 .. L : to[k] = qs[k]
  BY <1>1, <1>2, AppendIs
<1>5. \A k \in 1 .. L + 1 : k = L + 1 \/ k \in 1 .. L
  BY <1>1
<1>6. QueuesOK(to) /\ to # <<>>
  <2>1. \A k \in 1 .. L + 1 : IsSeq(to[k]) /\ to[k] # <<>>
    BY <1>1, <1>3, <1>4, <1>5 DEF QueuesOK
  <2> QED
    BY <1>1, <1>4, <2>1, EmptyIs DEF QueuesOK
<1>7. ASSUME NEW j PROVE ~FoldedAt(to, j, L + 1)
  <2>1. \A m : m \notin 1 .. 1 - 1
    OBVIOUS
  <2> QED
    BY <1>3, <1>4, <2>1 DEF FoldedAt
<1>8. ASSUME NEW j, NEW k \in 1 .. L PROVE FoldedAt(to, j, k) <=> FoldedAt(qs, j, k)
  BY <1>4 DEF FoldedAt
<1>9. ASSUME NEW j PROVE j \in FoldedIn(to) <=> j \in FoldedIn(qs)
  <2>1. j \in FoldedIn(to) <=> \E k \in 1 .. L + 1 : FoldedAt(to, j, k)
    BY <1>4, <1>6, FoldedIs
  <2>2. j \in FoldedIn(qs) <=> \E k \in 1 .. L : FoldedAt(qs, j, k)
    BY <1>1, FoldedIs
  <2>3. \A k \in 1 .. L : k \in 1 .. L + 1
    BY <1>1
  <2> QED
    BY <1>5, <1>7, <1>8, <2>1, <2>2, <2>3
<1> QED
  BY <1>6, <1>9

-----------------------------------------------------------------------------
(* The queue a connection collects waits for: the ids it holds tell how    *)
(* many DMAs were folded since the wait that is kept.                      *)
OpenQueue(ops, ids, qs, V, q) ==
    /\ qs # <<>> /\ IsFiniteSet(ids[q]) /\ Cardinality(ids[q]) <= MaxQueueSize
    /\ \E t \in V \ FoldedIn(qs) :
         ops[t].conn = q /\ Cardinality(Members(ops, V, q, 0, t - 1)) < Cardinality(ids[q])

(* What the walk of foldDmaWaitsByQueue has seen, and done with it.        *)
Queued(n, ops, V, ids, qs) ==
    /\ ids \in [Connection -> SUBSET BdId]
    /\ QueuesOK(qs) /\ FoldedIn(qs) \subseteq V
    /\ Gaps(ops, n, V, V \ FoldedIn(qs))
    /\ \A q \in Connection : ids[q] # {} => OpenQueue(ops, ids, qs, V, q)

(* A wait joins the queue of its connection.                               *)
LEMMA JoinQueue ==
    ASSUME NEW n, NEW V, NEW i, InFront(n, V, i), NEW ops, NEW ids, NEW qs, Queued(n, ops, V, ids, qs),
           NEW q0 \in Connection, NEW b0 \in BdId, ops[i].conn = q0,
           ids[q0] # {}, Cardinality(ids[q0]) < MaxQueueSize, b0 \notin ids[q0],
           NEW js, js = [ids EXCEPT ![q0] = @ \cup {b0}],
           NEW to, to = Front(qs) \o <<Append(Last(qs), {i})>>
    PROVE  Queued(n, ops, V \cup {i}, js, to)
<1>1. /\ ids \in [Connection -> SUBSET BdId] /\ QueuesOK(qs) /\ FoldedIn(qs) \subseteq V
      /\ Gaps(ops, n, V, V \ FoldedIn(qs))
      /\ \A q \in Connection : ids[q] # {} => OpenQueue(ops, ids, qs, V, q)
  BY DEF Queued
<1>2. OpenQueue(ops, ids, qs, V, q0)
  BY <1>1
<1>3. PICK t \in V \ FoldedIn(qs) :
        ops[t].conn = q0 /\ Cardinality(Members(ops, V, q0, 0, t - 1)) < Cardinality(ids[q0])
  BY <1>2 DEF OpenQueue
<1>4. PICK a, b : a = Cardinality(Members(ops, V, q0, 0, t - 1)) /\ b = Cardinality(ids[q0])
  OBVIOUS
<1>5. n \in Nat /\ V \in SUBSET (1 .. n) /\ i \notin V
  BY DEF InFront
<1>6. a \in Nat /\ b \in Nat /\ a < b /\ b < MaxQueueSize /\ IsFiniteSet(ids[q0]) /\ qs # <<>>
  BY <1>2, <1>3, <1>4, <1>5, MembersNat, FS_CardinalityType DEF OpenQueue
<1>7. a + 1 < MaxQueueSize /\ a + 1 < b + 1 /\ b + 1 <= MaxQueueSize
  BY <1>6, QueueAssumption
<1>8. PICK F : F = FoldedIn(qs)
  OBVIOUS
<1>9. /\ Gaps(ops, n, V \cup {i}, (V \cup {i}) \ (F \cup {i}))
      /\ Cardinality(Members(ops, V \cup {i}, q0, 0, t - 1)) = a + 1
  <2>1. t \in V \ F /\ ops[t].conn = ops[i].conn /\ Gaps(ops, n, V, V \ F)
    BY <1>1, <1>3, <1>8
  <2>2. Cardinality(Members(ops, V, ops[i].conn, 0, t - 1)) = a
    BY <1>4
  <2>3. Cardinality(Members(ops, V, ops[i].conn, 0, t - 1)) + 1 < MaxQueueSize
    BY <1>7, <2>2
  <2>4. /\ Gaps(ops, n, V \cup {i}, (V \cup {i}) \ (F \cup {i}))
        /\ Cardinality(Members(ops, V \cup {i}, ops[i].conn, 0, t - 1))
             = Cardinality(Members(ops, V, ops[i].conn, 0, t - 1)) + 1
    <3>1. InFront(n, V, i)
      OBVIOUS
    <3> QED
      BY ONLY <2>1, <2>3, <3>1, FoldGaps
  <2>5. ops[i].conn = q0
    OBVIOUS
  <2> QED
    BY ONLY <2>2, <2>4, <2>5
<1>10. QueuesOK(to) /\ to # <<>> /\ FoldedIn(to) = F \cup {i}
  BY <1>1, <1>6, <1>8, FoldOn
<1>11. /\ js \in [Connection -> SUBSET BdId] /\ js[q0] = ids[q0] \cup {b0}
       /\ \A q \in Connection : q # q0 => js[q] = ids[q]
  BY <1>1
<1>12. IsFiniteSet(js[q0]) /\ Cardinality(js[q0]) = b + 1
  BY <1>4, <1>6, <1>11, FS_AddElement
<1>13. ASSUME NEW q \in Connection, js[q] # {} PROVE OpenQueue(ops, js, to, V \cup {i}, q)
  <2>1. CASE q = q0
    <3>1. t \in (V \cup {i}) \ FoldedIn(to)
      BY <1>3, <1>5, <1>8, <1>10
    <3> QED
      BY <1>3, <1>7, <1>9, <1>10, <1>12, <2>1, <3>1 DEF OpenQueue
  <2>2. CASE q # q0
    <3>1. OpenQueue(ops, ids, qs, V, q) /\ js[q] = ids[q]
      BY <1>1, <1>11, <1>13, <2>2
    <3>2. PICK u \in V \ F :
            ops[u].conn = q /\ Cardinality(Members(ops, V, q, 0, u - 1)) < Cardinality(ids[q])
      BY <1>8, <3>1 DEF OpenQueue
    <3>3. Members(ops, V \cup {i}, q, 0, u - 1) = Members(ops, V, q, 0, u - 1)
      BY <2>2, OthersKeep
    <3>4. u \in (V \cup {i}) \ FoldedIn(to)
      BY <1>5, <1>10, <3>2
    <3> QED
      BY <1>10, <3>1, <3>2, <3>3, <3>4 DEF OpenQueue
  <2> QED
    BY <2>1, <2>2
<1> QED
  BY <1>1, <1>8, <1>9, <1>10, <1>11, <1>13 DEF Queued

(* A wait that cannot starts a queue and stays.                            *)
LEMMA StartQueue ==
    ASSUME NEW n, NEW V, NEW i, InFront(n, V, i), NEW ops, NEW ids, NEW qs, Queued(n, ops, V, ids, qs),
           NEW q0 \in Connection, NEW b0 \in BdId, ops[i].conn = q0,
           NEW js, js = [ids EXCEPT ![q0] = {b0}],
           NEW to, to = Append(qs, <<{i}>>)
    PROVE  Queued(n, ops, V \cup {i}, js, to)
<1>1. /\ ids \in [Connection -> SUBSET BdId] /\ QueuesOK(qs) /\ FoldedIn(qs) \subseteq V
      /\ Gaps(ops, n, V, V \ FoldedIn(qs))
      /\ \A q \in Connection : ids[q] # {} => OpenQueue(ops, ids, qs, V, q)
  BY DEF Queued
<1>2. PICK F : F = FoldedIn(qs)
  OBVIOUS
<1>3. n \in Nat /\ V \in SUBSET (1 .. n) /\ i \notin V /\ F \subseteq V
  BY <1>1, <1>2 DEF InFront
<1>4. /\ Gaps(ops, n, V \cup {i}, (V \cup {i}) \ F)
      /\ Cardinality(Members(ops, V \cup {i}, q0, 0, i - 1)) = 0
  BY <1>1, <1>2, KeepGaps
<1>5. QueuesOK(to) /\ to # <<>> /\ FoldedIn(to) = F
  BY <1>1, <1>2, FoldNew
<1>6. /\ js \in [Connection -> SUBSET BdId] /\ js[q0] = {b0}
      /\ \A q \in Connection : q # q0 => js[q] = ids[q]
  BY <1>1
<1>7. IsFiniteSet(js[q0]) /\ Cardinality(js[q0]) = 1
  BY <1>6, FS_Singleton
<1>8. 1 <= MaxQueueSize /\ 0 < 1
  BY QueueAssumption
<1>9. ASSUME NEW q \in Connection, js[q] # {} PROVE OpenQueue(ops, js, to, V \cup {i}, q)
  <2>1. CASE q = q0
    <3>1. i \in (V \cup {i}) \ FoldedIn(to)
      BY <1>3, <1>5
    <3> QED
      BY <1>4, <1>5, <1>7, <1>8, <2>1, <3>1 DEF OpenQueue
  <2>2. CASE q # q0
    <3>1. OpenQueue(ops, ids, qs, V, q) /\ js[q] = ids[q]
      BY <1>1, <1>6, <1>9, <2>2
    <3>2. PICK u \in V \ F :
            ops[u].conn = q /\ Cardinality(Members(ops, V, q, 0, u - 1)) < Cardinality(ids[q])
      BY <1>2, <3>1 DEF OpenQueue
    <3>3. Members(ops, V \cup {i}, q, 0, u - 1) = Members(ops, V, q, 0, u - 1)
      BY <2>2, OthersKeep
    <3>4. u \in (V \cup {i}) \ FoldedIn(to)
      BY <1>5, <3>2
    <3> QED
      BY <1>5, <3>1, <3>2, <3>3, <3>4 DEF OpenQueue
  <2> QED
    BY <2>1, <2>2
<1> QED
  BY <1>1, <1>2, <1>4, <1>5, <1>6, <1>9 DEF Queued

(* Among prompt waits the walk reaches the latest DMA it has not seen.     *)
LEMMA PromptInFront ==
    ASSUME NEW n \in Nat, NEW c, CodeOK(c, n), Prompt(c, n, Len(c), {}),
           NEW p \in 1 .. Len(c), NEW i \in 1 .. n, c[p] = Wait({i})
    PROVE  InFront(n, SeenWaits(c, p, n), i)
<1>1. Len(c) \in Nat /\ WaitsOnce(c, n) /\ WaitsBehind(c, n) /\ DmasInOrder(c, n)
  BY LenIs DEF CodeOK, IsCode
<1>2. AtWait(c, p, i)
  BY WaitOfOne
<1>3. ASSUME NEW v \in SeenWaits(c, p, n) PROVE i < v
  <2>1. PICK k \in 1 .. Len(c) : k > p /\ AtWait(c, k, v) /\ v \in 1 .. n
    BY <1>3 DEF SeenWaits
  <2>2. v # i
    BY <1>1, <1>2, <2>1 DEF WaitsOnce
  <2>3. SUFFICES ASSUME v < i PROVE FALSE
    BY <2>1, <2>2
  <2>4. PICK l \in 1 .. Len(c) : AtDma(c, l, i)
    BY <1>1 DEF DmasInOrder
  <2>5. k <= Len(c)
    BY <1>1
  <2>6. k < l
    BY <2>1, <2>3, <2>4, <2>5 DEF Prompt
  <2>7. l < p
    BY <1>1, <1>2, <2>4 DEF WaitsBehind
  <2> QED
    BY <1>1, <2>1, <2>6, <2>7
<1> QED
  BY <1>3 DEF InFront, SeenWaits

-----------------------------------------------------------------------------
(* The waits of a batch, those of different connections, are prompt like   *)
(* the ones that are not yet seen, and no other seen wait is for an earlier*)
(* DMA than its first.                                                     *)
SeenBehind(c, p, n) ==
    \A i \in SeenWaits(c, p, n), j \in Awaited(c, n) \ SeenWaits(c, p, n) : j < i
Apart(ops, B) == \A i, j \in B : ops[i].conn = ops[j].conn => i = j
Noted(ops, cs, B) == cs = {} \/ \A i \in B : ops[i].conn \in cs
FirstOfSeen(c, p, n, ws) ==
    \A a \in 1 .. n, j \in SeenWaits(c, p, n) :
        ws # <<>> /\ ws[1] = {a} /\ j <= a => j \in InBatch(ws)
Batched(n, ops, c, p, cs, ws) ==
    /\ Prompt(c, n, p, InBatch(ws)) /\ SeenBehind(c, p, n)
    /\ Apart(ops, InBatch(ws)) /\ Noted(ops, cs, InBatch(ws))
    /\ FirstOfSeen(c, p, n, ws) /\ (cs # {} => ws # <<>>)

(* Before the folding every push has a token and its wait right behind it, *)
(* afterwards there are few pushes between two that have one, and a wait   *)
(* comes before the next push of its connection with a token.              *)
SpacingOK(n, ops, c, st, p, ids, qs, cs, ws) ==
    /\ st \in {"chain", "queue"} =>
         cs = {} /\ Pushed(ops, n) = Tokened(ops, n) /\ Prompt(c, n, Len(c), {})
    /\ st = "chain" => ids = NoIds /\ qs = <<>>
    /\ st = "queue" => p \in 0 .. Len(c) /\ Queued(n, ops, SeenWaits(c, p, n), ids, qs)
    /\ st = "batch" => Batched(n, ops, c, p, cs, ws)
    /\ st \notin {"chain", "queue"} =>
         Gaps(ops, n, Pushed(ops, n), Tokened(ops, n)) /\ Spaced(c, ops, n)
SpacingInv == SpacingOK(NumDmas, dmaOps, code, stage, pos, bdIds, waitOpQueues, connectionOps, waitOps)

(* At the end of the code no wait has been seen.                           *)
LEMMA NoneSeen ==
    ASSUME NEW n \in Nat, NEW c, IsSeq(c)
    PROVE  SeenWaits(c, Len(c), n) = {}
<1>1. \A k \in 1 .. Len(c) : ~(k > Len(c))
  BY LenIs
<1> QED
  BY <1>1 DEF SeenWaits

(* There is nothing in the queues then.                                    *)
LEMMA QueuesStart ==
    ASSUME NEW n \in Nat, NEW ops
    PROVE  Queued(n, ops, {}, NoIds, <<>>)
<1>1. QueuesOK(<<>>) /\ FoldedIn(<<>>) = {}
  <2>1. \A k : k \notin 1 .. 0
    OBVIOUS
  <2>2. ToSet(<<>>) = {}
    BY EmptyIs DEF ToSet
  <2> QED
    BY <2>1, <2>2, EmptyIs DEF QueuesOK, FoldedIn
<1>2. \A q, lo, hi : Members(ops, {}, q, lo, hi) = {}
  BY DEF Members
<1>3. Gaps(ops, n, {}, {})
  BY <1>2, FS_EmptySet, QueueAssumption DEF Gaps
<1>4. NoIds \in [Connection -> SUBSET BdId] /\ \A q \in Connection : NoIds[q] = {}
  BY DEF NoIds
<1> QED
  BY <1>1, <1>3, <1>4 DEF Queued

(* Linking a chain takes push, token and wait from the same DMAs.          *)
LEMMA LinkingSpaces ==
    ASSUME ChainInv, NEW n, n = NumDmas, PassOK(n, dmaOps, code, "chain", pos, waitOps),
           Pushed(dmaOps, n) = Tokened(dmaOps, n), Prompt(code, n, Len(code), {}),
           NEW broken, NEW ops, ops = LinkedOps(broken), NEW c, c = LinkedCode(broken)
    PROVE  Pushed(ops, n) = Tokened(ops, n) /\ Prompt(c, n, Len(c), {})
<1>1. n \in Nat /\ TypedDmas(dmaOps, n) /\ CodeOK(code, n)
  BY DEF PassOK
<1>2. DmasTyped
  BY <1>1 DEF DmasTyped
<1>3. ASSUME NEW i \in 1 .. n PROVE ops[i].nextBd = NoBd <=> ops[i].token
  <2>1. LinkedAs(ops[i], dmaOps[i], i \in Inner(broken))
    BY <1>2, LinkedFacts
  <2>2. dmaOps[i].nextBd = NoBd <=> dmaOps[i].token
    BY DEF Pushed, Tokened
  <2>3. CASE i \in Inner(broken)
    BY <2>1, <2>3 DEF LinkedAs
  <2>4. CASE i \notin Inner(broken)
    BY <2>1, <2>2, <2>4 DEF LinkedAs
  <2> QED
    BY <2>3, <2>4
<1>4. IsSeq(code)
  BY <1>1 DEF CodeOK, IsCode
<1>5. Prompt(c, n, Len(c), {})
  BY <1>1, <1>4, ErasePrompt DEF LinkedCode
<1> QED
  BY <1>3, <1>5 DEF Pushed, Tokened

(* The walk visits a wait and puts it in a queue.                          *)
LEMMA VisitQueues ==
    ASSUME NEW n, n = NumDmas, PassOK(n, dmaOps, code, "queue", pos, waitOps),
           Prompt(code, n, Len(code), {}), pos \in 0 .. Len(code),
           Queued(n, dmaOps, SeenWaits(code, pos, n), bdIds, waitOpQueues), VisitWaitByQueue
    PROVE  Queued(n, dmaOps, SeenWaits(code, pos - 1, n), bdIds', waitOpQueues')
<1>1. /\ n \in Nat /\ TypedDmas(dmaOps, n) /\ CodeOK(code, n) /\ Singles(code, Len(code))
      /\ pos > 0 /\ code[pos].kind = "wait"
  BY DEF PassOK, VisitWaitByQueue
<1>2. pos \in 1 .. Len(code) /\ Singles(code, pos)
  <2>1. Len(code) \in Nat
    BY <1>1, LenIs DEF CodeOK, IsCode
  <2>2. pos \in 0 .. Len(code) /\ pos > 0
    BY <1>1
  <2>3. pos \in 1 .. Len(code) /\ \A k \in 1 .. pos : k \in 1 .. Len(code)
    BY ONLY <2>1, <2>2
  <2>4. Singles(code, pos)
    BY ONLY <1>1, <2>3 DEF Singles
  <2> QED
    BY ONLY <2>3, <2>4
<1>3. PICK i \in 1 .. n : code[pos].ops = {i} /\ code[pos] = Wait({i})
  <2>1. PICK o : o = code[pos]
    OBVIOUS
  <2>2. VisitsWait(n, code, pos, o)
    BY ONLY <1>1, <1>2, <2>1 DEF VisitsWait
  <2>3. PICK i \in 1 .. n : o.ops = {i} /\ o = Wait({i})
    BY ONLY <2>2, VisitedWait
  <2> QED
    BY ONLY <2>1, <2>3
<1>4. PICK V : V = SeenWaits(code, pos, n)
  OBVIOUS
<1>5. InFront(n, V, i) /\ SeenWaits(code, pos - 1, n) = V \cup {i}
  BY <1>1, <1>2, <1>3, <1>4, PromptInFront, SeenWaitStep
<1>6. PICK q0, b0 : q0 = dmaOps[i].conn /\ b0 = dmaOps[i].bd
  OBVIOUS
<1>7. q0 \in Connection /\ b0 \in BdId /\ ConnOf(i) = q0 /\ BdOf(i) = b0
  BY <1>1, <1>6 DEF TypedDmas, DmaRec, ConnOf, BdOf
<1>8. Queued(n, dmaOps, V, bdIds, waitOpQueues)
  BY <1>4
<1>9. CASE /\ CanFoldByQueue(i)
           /\ bdIds' = [bdIds EXCEPT ![q0] = @ \cup {b0}]
           /\ waitOpQueues' = Front(waitOpQueues) \o <<Append(Last(waitOpQueues), {i})>>
  <2>1. bdIds[q0] # {} /\ Cardinality(bdIds[q0]) < MaxQueueSize /\ b0 \notin bdIds[q0]
    BY <1>7, <1>9 DEF CanFoldByQueue, IsDuplicateBdId
  <2>2. InFront(n, V, i) /\ dmaOps[i].conn = q0 /\ q0 \in Connection /\ b0 \in BdId
    BY <1>5, <1>6, <1>7
  <2>3. PICK js, to : js = bdIds' /\ to = waitOpQueues'
    OBVIOUS
  <2>4. /\ js = [bdIds EXCEPT ![q0] = @ \cup {b0}]
        /\ to = Front(waitOpQueues) \o <<Append(Last(waitOpQueues), {i})>>
    BY ONLY <1>9, <2>3
  <2>5. Queued(n, dmaOps, V \cup {i}, js, to)
    BY ONLY <1>8, <2>1, <2>2, <2>4, JoinQueue
  <2> QED
    BY ONLY <1>5, <2>3, <2>5
<1>10. CASE /\ bdIds' = [bdIds EXCEPT ![q0] = {b0}]
            /\ waitOpQueues' = Append(waitOpQueues, <<{i}>>)
  <2>1. InFront(n, V, i) /\ dmaOps[i].conn = q0 /\ q0 \in Connection /\ b0 \in BdId
    BY <1>5, <1>6, <1>7
  <2>2. PICK js, to : js = bdIds' /\ to = waitOpQueues'
    OBVIOUS
  <2>3. js = [bdIds EXCEPT ![q0] = {b0}] /\ to = Append(waitOpQueues, <<{i}>>)
    BY ONLY <1>10, <2>2
  <2>4. Queued(n, dmaOps, V \cup {i}, js, to)
    BY ONLY <1>8, <2>1, <2>3, StartQueue
  <2> QED
    BY ONLY <1>5, <2>2, <2>4
<1> QED
  <2>1. PICK j \in {i} :
          \/ /\ CanFoldByQueue(j)
             /\ bdIds' = [bdIds EXCEPT ![ConnOf(j)] = @ \cup {BdOf(j)}]
             /\ waitOpQueues' = Front(waitOpQueues) \o <<Append(Last(waitOpQueues), {i})>>
          \/ /\ bdIds' = [bdIds EXCEPT ![ConnOf(j)] = {BdOf(j)}]
             /\ waitOpQueues' = Append(waitOpQueues, <<{i}>>)
    BY <1>3 DEF VisitWaitByQueue
  <2>2. j = i
    BY <2>1
  <2> QED
    BY <1>7, <1>9, <1>10, <2>1, <2>2

(* The walk passes a barrier: the queues are closed.                       *)
LEMMA QueuesClose ==
    ASSUME NEW n, NEW ops, NEW V, NEW ids, NEW qs, Queued(n, ops, V, ids, qs)
    PROVE  Queued(n, ops, V, NoIds, qs)
  BY DEF Queued, NoIds

(* Where all have tokens there is no gap.                                  *)
LEMMA NoGapAtAll ==
    ASSUME NEW n \in Nat, NEW ops, NEW V
    PROVE  Gaps(ops, n, V, V)
<1>1. SUFFICES ASSUME NEW q \in Connection, NEW lo \in 0 .. n, NEW hi \in 0 .. n,
                      FreeOf(ops, V, q, lo, hi)
               PROVE  Cardinality(Members(ops, V, q, lo, hi)) < MaxQueueSize
  BY DEF Gaps
<1>2. Members(ops, V, q, lo, hi) = {}
  BY <1>1 DEF FreeOf, Members
<1> QED
  BY <1>2, FS_EmptySet, QueueAssumption

-----------------------------------------------------------------------------
(* The waits of a batch have been seen, the first names one DMA.           *)
LEMMA BatchSeen ==
    ASSUME NEW n \in Nat, NEW c, NEW p, NEW ws, BatchOK(c, p, ws, n)
    PROVE  /\ InBatch(ws) \subseteq SeenWaits(c, p, n)
           /\ ws # <<>> => \E a \in 1 .. n : ws[1] = {a} /\ a \in InBatch(ws)
<1>1. /\ IsSeq(ws)
      /\ \A k \in 1 .. Len(ws) : \E i \in 1 .. n :
           ws[k] = {i} /\ \E q \in 1 .. Len(c) : q > p /\ c[q] = Wait({i})
  BY DEF BatchOK
<1>2. Len(ws) \in Nat /\ DOMAIN ws = 1 .. Len(ws) /\ (ws # <<>> => Len(ws) \in Nat \ {0})
  BY <1>1, LenIs
<1>3. ASSUME NEW i \in InBatch(ws) PROVE i \in SeenWaits(c, p, n)
  <2>1. PICK k \in 1 .. Len(ws) : i \in ws[k]
    BY <1>2 DEF InBatch, ToSet
  <2>2. PICK j \in 1 .. n : ws[k] = {j} /\ \E q \in 1 .. Len(c) : q > p /\ c[q] = Wait({j})
    BY <1>1
  <2>3. PICK q \in 1 .. Len(c) : q > p /\ c[q] = Wait({j})
    BY <2>2
  <2>4. i = j /\ AtWait(c, q, i)
    BY <2>1, <2>2, <2>3, WaitOfOne
  <2> QED
    BY <2>3, <2>4 DEF SeenWaits
<1>4. ASSUME ws # <<>> PROVE \E a \in 1 .. n : ws[1] = {a} /\ a \in InBatch(ws)
  <2>1. 1 \in 1 .. Len(ws)
    BY <1>2, <1>4
  <2>2. PICK a \in 1 .. n : ws[1] = {a}
    BY <1>1, <2>1
  <2>3. ws[1] \in ToSet(ws)
    BY <1>2, <2>1 DEF ToSet
  <2>4. a \in InBatch(ws)
    BY <2>2, <2>3 DEF InBatch
  <2> QED
    BY <2>2, <2>4
<1> QED
  BY <1>3, <1>4

(* Merging the batch keeps the waits spaced.                               *)
LEMMA MergeSpaces ==
    ASSUME NEW n \in Nat, NEW c, CodeOK(c, n), NEW p, NEW ws, BatchOK(c, p, ws, n), NEW ops, NEW cs,
           Batched(n, ops, c, p, cs, ws), Awaited(c, n) = Tokened(ops, n), Spaced(c, ops, n),
           NEW m, CodeOK(m, n), Delayed(m, c, ws, n)
    PROVE  Spaced(m, ops, n)
<1>1. PICK f \in [1 .. Len(m) -> 1 .. Len(c)] :
        /\ \A k, l \in 1 .. Len(m) : f[k] < f[l] => k < l
        /\ \A i \in 1 .. n, k \in 1 .. Len(m) :
             /\ AtDma(m, k, i) => AtDma(c, f[k], i)
             /\ AtWait(m, k, i) => \/ AtWait(c, f[k], i)
                                   \/ i \in InBatch(ws) /\ c[f[k]] = Wait(ws[1])
  BY DEF Delayed
<1> SUFFICES ASSUME NEW i \in 1 .. n, NEW j \in 1 .. n, NEW k \in 1 .. Len(m), NEW l \in 1 .. Len(m),
                    AtWait(m, k, i), AtDma(m, l, j), i < j, ops[j].token, ops[j].conn = ops[i].conn
             PROVE  k < l
  BY DEF Spaced
<1>2. f[k] \in 1 .. Len(c) /\ f[l] \in 1 .. Len(c) /\ AtDma(c, f[l], j)
  BY <1>1
<1>3. CASE AtWait(c, f[k], i)
  <2>1. f[k] < f[l]
    BY <1>2, <1>3 DEF Spaced
  <2> QED
    BY <1>1, <2>1
<1>4. CASE i \in InBatch(ws) /\ c[f[k]] = Wait(ws[1])
  <2>1. ws # <<>>
    <3>1. ToSet(<<>>) = {}
      BY EmptyIs DEF ToSet
    <3> QED
      BY <1>4, <3>1 DEF InBatch
  <2>2. PICK a \in 1 .. n : ws[1] = {a} /\ a \in InBatch(ws)
    BY <2>1, BatchSeen
  <2>3. AtWait(c, f[k], a)
    BY <1>4, <2>2, WaitOfOne
  <2>4. CASE a < j
    <3>1. f[k] < f[l]
      BY <1>2, <2>2, <2>3, <2>4 DEF Batched, Prompt
    <3> QED
      BY <1>1, <3>1
  <2>5. CASE ~(a < j)
    <3>1. j <= a
      BY <2>5
    <3>2. i \in SeenWaits(c, p, n) /\ j \in Awaited(c, n)
      BY <1>4, BatchSeen DEF Tokened
    <3>3. j \in SeenWaits(c, p, n)
      <4>1. j \notin SeenWaits(c, p, n) => j < i
        BY <3>2 DEF Batched, SeenBehind
      <4> QED
        BY <4>1
    <3>4. j \in InBatch(ws)
      BY <2>1, <2>2, <3>1, <3>3 DEF Batched, FirstOfSeen
    <3>5. i = j
      BY <1>4, <3>4 DEF Batched, Apart
    <3> QED
      BY <3>5
  <2> QED
    BY <2>4, <2>5
<1> QED
  BY <1>1, <1>3, <1>4

(* The merged code has the same waits behind the place of the walk.        *)
LEMMA MergedSeen ==
    ASSUME NEW n \in Nat, NEW c, CodeOK(c, n), NEW p \in 1 .. Len(c), NEW m, MergedAs(m, c, p, n)
    PROVE  SeenWaits(m, p, n) = SeenWaits(c, p, n)
<1>1. /\ Len(m) \in Nat /\ Len(c) \in Nat /\ WaitsOnce(m, n) /\ WaitsOnce(c, n)
      /\ p <= Len(m) /\ p <= Len(c) /\ \A k \in 1 .. p : m[k] = c[k]
  BY LenIs DEF MergedAs, CodeOK, IsCode
<1>2. \A i \in 1 .. n, k \in 1 .. p : AtWait(m, k, i) <=> AtWait(c, k, i)
  BY <1>1 DEF AtWait
<1>3. \A k \in 1 .. p : k \in 1 .. Len(m) /\ k \in 1 .. Len(c)
  BY <1>1
<1>4. Awaited(m, n) = Awaited(c, n)
  BY DEF MergedAs
<1>5. ASSUME NEW i \in SeenWaits(m, p, n) PROVE i \in SeenWaits(c, p, n)
  <2>1. PICK k \in 1 .. Len(m) : k > p /\ AtWait(m, k, i) /\ i \in 1 .. n
    BY DEF SeenWaits
  <2>2. PICK l \in 1 .. Len(c) : AtWait(c, l, i)
    BY <1>4, <2>1 DEF Awaited
  <2>3. CASE l \in 1 .. p
    <3>1. AtWait(m, l, i) /\ l \in 1 .. Len(m)
      BY <1>2, <1>3, <2>1, <2>2, <2>3
    <3>2. l = k
      BY <1>1, <2>1, <3>1 DEF WaitsOnce
    <3> QED
      BY <2>1, <2>3, <3>2
  <2>4. CASE l \notin 1 .. p
    <3>1. l > p
      BY <2>2, <2>4
    <3> QED
      BY <2>1, <2>2, <3>1 DEF SeenWaits
  <2> QED
    BY <2>3, <2>4
<1>6. ASSUME NEW i \in SeenWaits(c, p, n) PROVE i \in SeenWaits(m, p, n)
  <2>1. PICK k \in 1 .. Len(c) : k > p /\ AtWait(c, k, i) /\ i \in 1 .. n
    BY DEF SeenWaits
  <2>2. PICK l \in 1 .. Len(m) : AtWait(m, l, i)
    BY <1>4, <2>1 DEF Awaited
  <2>3. CASE l \in 1 .. p
    <3>1. AtWait(c, l, i) /\ l \in 1 .. Len(c)
      BY <1>2, <1>3, <2>1, <2>2, <2>3
    <3>2. l = k
      BY <1>1, <2>1, <3>1 DEF WaitsOnce
    <3> QED
      BY <2>1, <2>3, <3>2
  <2>4. CASE l \notin 1 .. p
    <3>1. l > p
      BY <2>2, <2>4
    <3> QED
      BY <2>1, <2>2, <3>1 DEF SeenWaits
  <2> QED
    BY <2>3, <2>4
<1> QED
  BY <1>5, <1>6

(* The walk of the batches reaches a wait for DMA i, with all seen waits   *)
(* for DMAs behind those not yet seen.                                     *)
AtBatchWait(n, ops, c, p, cs, ws, i) ==
    /\ n \in Nat /\ CodeOK(c, n) /\ p \in 1 .. Len(c) /\ i \in 1 .. n
    /\ c[p] = Wait({i}) /\ Batched(n, ops, c, p, cs, ws)

\* With it, still all behind are seen.
LEMMA SeesBehind ==
    ASSUME NEW n, NEW ops, NEW c, NEW p, NEW cs, NEW ws, NEW i, AtBatchWait(n, ops, c, p, cs, ws, i)
    PROVE  /\ SeenBehind(c, p - 1, n)
           /\ SeenWaits(c, p - 1, n) = SeenWaits(c, p, n) \cup {i}
           /\ i \in Awaited(c, n) \ SeenWaits(c, p, n)
<1>1. /\ n \in Nat /\ CodeOK(c, n) /\ p \in 1 .. Len(c) /\ i \in 1 .. n /\ c[p] = Wait({i})
      /\ SeenBehind(c, p, n) /\ Prompt(c, n, p, InBatch(ws))
  BY DEF AtBatchWait, Batched
<1>2. AtWait(c, p, i)
  BY <1>1, WaitOfOne
<1>3. i \notin SeenWaits(c, p, n) /\ SeenWaits(c, p - 1, n) = SeenWaits(c, p, n) \cup {i}
  BY <1>1, SeenWaitStep
<1>4. i \in Awaited(c, n)
  BY <1>1, <1>2 DEF Awaited
<1>5. ASSUME NEW j \in Awaited(c, n) \ SeenWaits(c, p - 1, n) PROVE j < i
  <2>1. j \in 1 .. n /\ j # i /\ j \notin SeenWaits(c, p, n)
    BY <1>3 DEF Awaited
  <2>2. PICK k \in 1 .. Len(c) : AtWait(c, k, j)
    BY DEF Awaited
  <2>3. k < p
    <3>1. k # p
      <4>1. c[p].ops = {i}
        BY <1>1, OpFacts
      <4> QED
        BY <2>1, <2>2, <4>1 DEF AtWait
    <3>2. ~(k > p)
      BY <2>1, <2>2 DEF SeenWaits
    <3> QED
      BY <1>1, <3>1, <3>2
  <2>4. PICK l \in 1 .. Len(c) : AtDma(c, l, j)
    BY <1>1, <2>1 DEF CodeOK, DmasInOrder
  <2>5. l < k
    BY <1>1, <2>1, <2>2, <2>4 DEF CodeOK, WaitsBehind
  <2>6. i < j => p < l
    BY <1>1, <1>2, <2>1, <2>4 DEF Prompt
  <2> QED
    BY <1>1, <2>1, <2>3, <2>5, <2>6
<1>6. SeenBehind(c, p - 1, n)
  <2> SUFFICES ASSUME NEW h \in SeenWaits(c, p - 1, n), NEW j \in Awaited(c, n) \ SeenWaits(c, p - 1, n)
               PROVE  j < h
    BY DEF SeenBehind
  <2>1. CASE h = i
    BY <1>5, <2>1
  <2>2. CASE h \in SeenWaits(c, p, n)
    BY <1>1, <1>3, <2>2 DEF SeenBehind
  <2> QED
    BY <1>3, <2>1, <2>2
<1> QED
  BY <1>3, <1>4, <1>6

(* The batch goes on over anything but a wait; a barrier closes it.        *)
LEMMA BatchedBack ==
    ASSUME NEW n \in Nat, NEW ops, NEW c, CodeOK(c, n), NEW p \in 1 .. Len(c), c[p].kind # "wait",
           NEW cs, NEW ws, Batched(n, ops, c, p, cs, ws), NEW ds \in {cs, {}}
    PROVE  Batched(n, ops, c, p - 1, ds, ws)
<1>1. SeenWaits(c, p - 1, n) = SeenWaits(c, p, n)
  BY SeenWaitStep
<1>2. Prompt(c, n, p - 1, InBatch(ws))
  <2>1. Len(c) \in Nat
    BY LenIs DEF CodeOK, IsCode
  <2>2. \A k \in 1 .. Len(c) : k <= p - 1 => k <= p
    BY <2>1
  <2> QED
    BY <2>2 DEF Batched, Prompt
<1>3. SeenBehind(c, p - 1, n) /\ FirstOfSeen(c, p - 1, n, ws)
  BY <1>1 DEF Batched, SeenBehind, FirstOfSeen
<1> QED
  BY <1>2, <1>3 DEF Batched, Noted

(* A wait of another connection joins the batch.                           *)
LEMMA BatchedJoin ==
    ASSUME NEW n, NEW ops, NEW c, NEW p, NEW cs, NEW ws, NEW i, AtBatchWait(n, ops, c, p, cs, ws, i),
           IsSeq(ws), cs # {}, ops[i].conn \notin cs,
           NEW ds, ds = cs \cup {ops[i].conn}, NEW vs, vs = Append(ws, {i})
    PROVE  Batched(n, ops, c, p - 1, ds, vs)
<1>1. /\ n \in Nat /\ CodeOK(c, n) /\ p \in 1 .. Len(c) /\ i \in 1 .. n /\ c[p] = Wait({i})
      /\ Prompt(c, n, p, InBatch(ws)) /\ Apart(ops, InBatch(ws)) /\ Noted(ops, cs, InBatch(ws))
      /\ FirstOfSeen(c, p, n, ws) /\ ws # <<>>
  BY DEF AtBatchWait, Batched
<1>2. /\ SeenBehind(c, p - 1, n)
      /\ SeenWaits(c, p - 1, n) = SeenWaits(c, p, n) \cup {i}
  BY SeesBehind
<1>3. PICK L : L = Len(ws) /\ L \in Nat \ {0} /\ DOMAIN ws = 1 .. L
  BY <1>1, LenIs
<1>4. /\ IsSeq(vs) /\ Len(vs) = L + 1 /\ vs[L + 1] = {i}
      /\ \A k \in 1 .. L : vs[k] = ws[k]
  BY <1>3, AppendIs
<1>5. DOMAIN vs = 1 .. L + 1 /\ 1 \in 1 .. L
  BY <1>3, <1>4, LenIs
<1>6. InBatch(vs) = InBatch(ws) \cup {i}
  <2>1. ToSet(vs) = ToSet(ws) \cup {{i}}
    <3>1. \A k \in 1 .. L + 1 : k = L + 1 \/ k \in 1 .. L
      BY <1>3
    <3>2. L + 1 \in 1 .. L + 1 /\ \A k \in 1 .. L : k \in 1 .. L + 1
      BY <1>3
    <3> QED
      BY <1>3, <1>4, <1>5, <3>1, <3>2 DEF ToSet
  <2> QED
    BY <2>1 DEF InBatch
<1>7. Prompt(c, n, p - 1, InBatch(vs))
  <2> SUFFICES ASSUME NEW h \in 1 .. n, NEW j \in 1 .. n, NEW k \in 1 .. Len(c), NEW l \in 1 .. Len(c),
                      AtWait(c, k, h), k <= p - 1 \/ h \in InBatch(vs), AtDma(c, l, j), h < j
               PROVE  k < l
    BY DEF Prompt
  <2>1. k <= p \/ h \in InBatch(ws)
    <3>1. k <= p - 1 => k <= p
      BY <1>1
    <3>2. h = i => k = p
      BY <1>1, WaitOfOne DEF CodeOK, WaitsOnce
    <3>3. k = p => k <= p
      BY <1>1
    <3> QED
      BY <1>6, <3>1, <3>2, <3>3
  <2> QED
    BY <1>1, <2>1 DEF Prompt
<1>8. \A b \in InBatch(ws) : ops[b].conn \in cs
  BY <1>1 DEF Noted
<1>9. Apart(ops, InBatch(vs))
  BY <1>1, <1>6, <1>8 DEF Apart
<1>10. Noted(ops, ds, InBatch(vs))
  BY <1>6, <1>8 DEF Noted
<1>11. FirstOfSeen(c, p - 1, n, vs)
  <2>1. vs[1] = ws[1]
    BY <1>4, <1>5
  <2> QED
    BY <1>1, <1>2, <1>6, <2>1 DEF FirstOfSeen
<1>12. vs # <<>>
  BY <1>3, <1>4, EmptyIs
<1> QED
  BY <1>2, <1>7, <1>9, <1>10, <1>11, <1>12 DEF Batched

(* Another one starts the next batch, in the merged code.                  *)
LEMMA BatchedRestart ==
    ASSUME NEW n, NEW ops, NEW c, NEW p, NEW cs, NEW ws, NEW i, AtBatchWait(n, ops, c, p, cs, ws, i),
           NEW m, MergedAs(m, c, p, n), NEW ds, NEW vs, vs = <<{i}>>, ds = {ops[i].conn}
    PROVE  Batched(n, ops, m, p - 1, ds, vs)
<1>1. /\ n \in Nat /\ CodeOK(c, n) /\ p \in 1 .. Len(c) /\ i \in 1 .. n /\ c[p] = Wait({i})
      /\ Prompt(c, n, p, InBatch(ws)) /\ SeenBehind(c, p, n)
  BY DEF AtBatchWait, Batched
<1>2. /\ SeenBehind(c, p - 1, n)
      /\ SeenWaits(c, p - 1, n) = SeenWaits(c, p, n) \cup {i}
      /\ i \in Awaited(c, n) \ SeenWaits(c, p, n)
  BY SeesBehind
<1>3. /\ CodeOK(m, n) /\ Len(m) \in Nat /\ p <= Len(m) /\ \A k \in 1 .. p : m[k] = c[k]
      /\ Awaited(m, n) = Awaited(c, n)
  BY LenIs DEF MergedAs, CodeOK, IsCode
<1>4. /\ p \in 1 .. Len(m) /\ m[p] = Wait({i}) /\ Len(c) \in Nat /\ p <= Len(c)
      /\ \A k \in 1 .. p : k \in 1 .. Len(m) /\ k \in 1 .. Len(c)
  BY <1>1, <1>3, LenIs DEF CodeOK, IsCode
<1>5. SeenWaits(m, p - 1, n) = SeenWaits(c, p - 1, n)
  <2>1. SeenWaits(m, p, n) = SeenWaits(c, p, n)
    BY <1>1, MergedSeen
  <2>2. SeenWaits(m, p - 1, n) = SeenWaits(m, p, n) \cup {i}
    BY <1>1, <1>3, <1>4, SeenWaitStep
  <2> QED
    BY <1>2, <2>1, <2>2
<1>6. SeenBehind(m, p - 1, n)
  BY <1>2, <1>3, <1>5 DEF SeenBehind
<1>7. IsSeq(vs) /\ Len(vs) = 1 /\ vs[1] = {i} /\ InBatch(vs) = {i}
  <2>1. IsSeq(vs) /\ Len(vs) = 1 /\ vs[1] = {i}
    BY OneIsSeq
  <2>2. DOMAIN vs = 1 .. 1 /\ \A k \in 1 .. 1 : k = 1
    BY <2>1, LenIs
  <2>3. 1 \in 1 .. 1
    OBVIOUS
  <2>4. ToSet(vs) = {{i}}
    BY <2>1, <2>2, <2>3 DEF ToSet
  <2> QED
    BY <2>1, <2>4 DEF InBatch
<1>8. Prompt(m, n, p - 1, InBatch(vs))
  <2> SUFFICES ASSUME NEW h \in 1 .. n, NEW j \in 1 .. n, NEW k \in 1 .. Len(m), NEW l \in 1 .. Len(m),
                      AtWait(m, k, h), k <= p - 1 \/ h \in InBatch(vs), AtDma(m, l, j), h < j
               PROVE  k < l
    BY DEF Prompt
  <2>1. k \in 1 .. p
    <3>1. k <= p - 1 => k \in 1 .. p
      BY <1>1
    <3>2. h = i => k = p
      <4>1. AtWait(m, p, i)
        BY <1>4, WaitOfOne
      <4> QED
        BY <1>3, <1>4, <4>1 DEF CodeOK, WaitsOnce
    <3>3. k = p => k \in 1 .. p
      BY <1>1
    <3> QED
      BY <1>7, <3>1, <3>2, <3>3
  <2>2. AtWait(c, k, h) /\ k \in 1 .. Len(c) /\ k <= p
    BY <1>3, <1>4, <2>1 DEF AtWait
  <2>3. CASE l \in 1 .. p
    <3>1. AtDma(c, l, j) /\ l \in 1 .. Len(c)
      BY <1>3, <1>4, <2>3 DEF AtDma
    <3> QED
      BY <1>1, <2>2, <3>1 DEF Prompt
  <2>4. CASE l \notin 1 .. p
    BY <1>1, <2>1, <2>4
  <2> QED
    BY <2>3, <2>4
<1>9. FirstOfSeen(m, p - 1, n, vs)
  <2> SUFFICES ASSUME NEW a \in 1 .. n, NEW j \in SeenWaits(m, p - 1, n), vs[1] = {a}, j <= a
               PROVE  j \in InBatch(vs)
    BY DEF FirstOfSeen
  <2>1. a = i
    BY <1>7
  <2>2. CASE j \in SeenWaits(c, p, n)
    <3>1. i < j /\ j \in 1 .. n
      BY <1>1, <1>2, <2>2 DEF SeenBehind, SeenWaits
    <3> QED
      BY <1>1, <2>1, <3>1
  <2> QED
    BY <1>2, <1>5, <1>7, <2>2
<1>10. Apart(ops, InBatch(vs)) /\ Noted(ops, ds, InBatch(vs)) /\ vs # <<>>
  BY <1>7, EmptyIs DEF Apart, Noted
<1> QED
  BY <1>6, <1>8, <1>9, <1>10 DEF Batched

(* When the batches begin none is open.                                    *)
LEMMA BatchedStart ==
    ASSUME NEW n \in Nat, NEW c, IsSeq(c), Prompt(c, n, Len(c), {}), NEW ops
    PROVE  Batched(n, ops, c, Len(c), {}, <<>>)
<1>1. InBatch(<<>>) = {}
  <2>1. ToSet(<<>>) = {}
    BY EmptyIs DEF ToSet
  <2> QED
    BY <2>1 DEF InBatch
<1>2. SeenWaits(c, Len(c), n) = {}
  BY NoneSeen
<1> QED
  BY <1>1, <1>2 DEF Batched, SeenBehind, Apart, Noted, FirstOfSeen

-----------------------------------------------------------------------------
(* Only the connections of the DMAs count for the gaps.                    *)
LEMMA GapsSame ==
    ASSUME NEW n \in Nat, NEW ops, NEW old, \A i \in 1 .. n : ops[i].conn = old[i].conn,
           NEW V \in SUBSET (1 .. n), NEW T \in SUBSET (1 .. n), Gaps(old, n, V, T)
    PROVE  Gaps(ops, n, V, T)
<1> SUFFICES ASSUME NEW q \in Connection, NEW lo \in 0 .. n, NEW hi \in 0 .. n,
                    FreeOf(ops, T, q, lo, hi)
             PROVE  Cardinality(Members(ops, V, q, lo, hi)) < MaxQueueSize
  BY DEF Gaps
<1>1. Members(ops, V, q, lo, hi) = Members(old, V, q, lo, hi)
  <2>1. \A i \in V : ops[i].conn = old[i].conn
    OBVIOUS
  <2> QED
    BY <2>1 DEF Members
<1>2. FreeOf(old, T, q, lo, hi)
  <2>1. \A i \in T : ops[i].conn = old[i].conn
    OBVIOUS
  <2> QED
    BY <2>1 DEF FreeOf
<1> QED
  BY <1>1, <1>2 DEF Gaps

(* Folding by queue leaves few pushes between two with a token.            *)
LEMMA FoldingSpaces ==
    ASSUME NEW n, PassOK(n, dmaOps, code, "queue", pos, waitOps),
           Pushed(dmaOps, n) = Tokened(dmaOps, n), Prompt(code, n, Len(code), {}),
           NEW ids, NEW qs, Queued(n, dmaOps, SeenWaits(code, 0, n), ids, qs),
           NEW gone, gone = FoldedIn(qs),
           NEW ops, ops = [i \in DOMAIN dmaOps |->
                             [dmaOps[i] EXCEPT !.token = @ /\ i \notin gone]],
           NEW d, d = EraseWaits(code, gone)
    PROVE  /\ Gaps(ops, n, Pushed(ops, n), Tokened(ops, n))
           /\ Spaced(d, ops, n) /\ Prompt(d, n, Len(d), {}) /\ IsSeq(d)
<1>1. /\ n \in Nat /\ TypedDmas(dmaOps, n) /\ CodeOK(code, n) /\ IsSeq(code)
      /\ Awaited(code, n) = Tokened(dmaOps, n)
  BY DEF PassOK, CodeOK, IsCode
<1>2. PICK V : V = Tokened(dmaOps, n)
  OBVIOUS
<1>3. V \in SUBSET (1 .. n)
  BY <1>2 DEF Tokened
<1>4. SeenWaits(code, 0, n) = V
  <2>1. \A k \in 1 .. Len(code) : k > 0
    OBVIOUS
  <2>2. SeenWaits(code, 0, n) = Awaited(code, n)
    BY <2>1 DEF SeenWaits, Awaited
  <2> QED
    BY <1>1, <1>2, <2>2
<1>5. Gaps(dmaOps, n, V, V \ gone)
  BY <1>4 DEF Queued
<1>6. \A i \in 1 .. n : /\ ops[i].conn = dmaOps[i].conn /\ ops[i].nextBd = dmaOps[i].nextBd
                        /\ ops[i].token <=> dmaOps[i].token /\ i \notin gone
  <2> SUFFICES ASSUME NEW i \in 1 .. n
               PROVE /\ ops[i].conn = dmaOps[i].conn /\ ops[i].nextBd = dmaOps[i].nextBd
                     /\ ops[i].token <=> dmaOps[i].token /\ i \notin gone
    OBVIOUS
  <2>1. PICK b \in BOOLEAN : b = (dmaOps[i].token /\ i \notin gone)
    OBVIOUS
  <2>2. dmaOps[i] \in DmaRec
    BY <1>1 DEF TypedDmas
  <2>3. ops[i] = [dmaOps[i] EXCEPT !.token = dmaOps[i].token /\ i \notin gone]
    BY <1>1 DEF TypedDmas
  <2>4. ops[i] = [dmaOps[i] EXCEPT !.token = b]
    BY <2>1, <2>3
  <2>5. /\ ops[i].conn = dmaOps[i].conn /\ ops[i].nextBd = dmaOps[i].nextBd /\ ops[i].token = b
    BY <2>2, <2>4 DEF DmaRec
  <2> QED
    BY <2>1, <2>5
<1>7. Pushed(ops, n) = V /\ Tokened(ops, n) = V \ gone
  <2>1. Pushed(ops, n) = Pushed(dmaOps, n)
    BY <1>6 DEF Pushed
  <2>2. Tokened(ops, n) = Tokened(dmaOps, n) \ gone
    BY <1>6 DEF Tokened
  <2> QED
    BY <1>2, <2>1, <2>2
<1>8. Gaps(ops, n, V, V \ gone)
  <2>1. \A i \in 1 .. n : ops[i].conn = dmaOps[i].conn
    BY <1>6
  <2>2. V \ gone \in SUBSET (1 .. n)
    BY <1>3
  <2> QED
    BY ONLY <1>1, <1>3, <1>5, <2>1, <2>2, GapsSame
<1>9. IsSeq(d)
  <2>1. PICK f : Embeds(f, d, code, Len(code), gone)
    BY <1>1, EraseEmbeds
  <2> QED
    BY <2>1 DEF Embeds
<1>10. Prompt(d, n, Len(d), {})
  BY <1>1, ErasePrompt
<1>11. Spaced(d, ops, n)
  BY <1>1, <1>9, <1>10, PromptIsSpaced
<1> QED
  BY <1>7, <1>8, <1>9, <1>10, <1>11

(* The source code waits promptly, and every DMA is pushed with a token.   *)
LEMMA SpacingStarts == ASSUME PromptPrograms, Init, PassInv PROVE SpacingInv
<1>1. PICK n : n = NumDmas
  OBVIOUS
<1>2. /\ n \in Nat /\ IsSeq(code) /\ TypedDmas(dmaOps, n) /\ source \in Programs
  BY <1>1 DEF PassInv, PassOK, CodeOK, IsCode
<1>3. PICK R : R = [conn : Connection, bd : BdId, repeat : Nat \ {0}]
  OBVIOUS
<1>4. PICK src : src = source.ops /\ src \in Seq(R) /\ LegalProgram(src, source.until, source.barriers)
  BY <1>3, ProgramsAssumption DEF Init
<1>5. n = Len(src) /\ DOMAIN src = 1 .. n
  BY <1>1, <1>4, LenProperties DEF NumDmas
<1>6. \A i \in 1 .. n : dmaOps[i].nextBd = NoBd /\ dmaOps[i].token
  BY <1>4, <1>5 DEF Init, NewDma
<1>7. Pushed(dmaOps, n) = Tokened(dmaOps, n)
  BY <1>6 DEF Pushed, Tokened
<1>8. EndsLater(source.until, n)
  BY <1>4, <1>5 DEF LegalProgram, Nested, EndsLater
<1>9. code = SourceCode(n, source.until, source.barriers)
  BY <1>4, <1>5 DEF Init
<1>10. Within(code, n, source.until)
  BY <1>2, <1>8, <1>9, SourceWithin
<1>11. \A i \in 1 .. n : source.until[i] = i
  BY <1>2, <1>4, <1>5 DEF PromptPrograms
<1>12. Prompt(code, n, Len(code), {})
  BY <1>10, <1>11 DEF Within, Prompt
<1>13. stage \in {"chain", "queue"} /\ pos = Len(code) /\ bdIds = NoIds /\ waitOpQueues = <<>>
       /\ connectionOps = {}
  BY DEF Init, FirstStage, FoldInit
<1>14. Queued(n, dmaOps, SeenWaits(code, pos, n), bdIds, waitOpQueues)
  BY <1>2, <1>13, NoneSeen, QueuesStart
<1>15. pos \in 0 .. Len(code)
  BY <1>2, <1>13, LenIs
<1>16. SpacingOK(n, dmaOps, code, stage, pos, bdIds, waitOpQueues, connectionOps, waitOps)
  BY <1>7, <1>12, <1>13, <1>14, <1>15 DEF SpacingOK
<1> QED
  BY <1>1, <1>16 DEF SpacingInv

(* A visited wait joins the batch or starts the next one.                  *)
LEMMA VisitBatches ==
    ASSUME NEW n, PassOK(n, dmaOps, code, "batch", pos, waitOps),
           Batched(n, dmaOps, code, pos, connectionOps, waitOps), Spaced(code, dmaOps, n),
           VisitWaitByBatch
    PROVE  /\ Batched(n, dmaOps, code', pos - 1, connectionOps', waitOps')
           /\ Spaced(code', dmaOps, n)
<1>1. /\ n \in Nat /\ CodeOK(code, n) /\ BatchOK(code, pos, waitOps, n) /\ TypedDmas(dmaOps, n)
      /\ Awaited(code, n) = Tokened(dmaOps, n) /\ pos > 0 /\ code[pos].kind = "wait"
  BY DEF PassOK, VisitWaitByBatch
<1>2. /\ pos \in 1 .. Len(code) /\ Singles(code, pos) /\ IsSeq(waitOps)
  <2>1. pos \in 0 .. Len(code) /\ Singles(code, pos) /\ IsSeq(waitOps) /\ Len(code) \in Nat
    BY <1>1, LenIs DEF BatchOK, CodeOK, IsCode
  <2> QED
    BY <1>1, <2>1
<1>3. PICK i \in 1 .. n : code[pos].ops = {i} /\ code[pos] = Wait({i})
  <2>1. PICK o, c, p : o = code[pos] /\ c = code /\ p = pos
    OBVIOUS
  <2>2. VisitsWait(n, c, p, o)
    BY <1>1, <1>2, <2>1 DEF VisitsWait
  <2>3. PICK i \in 1 .. n : o.ops = {i} /\ o = Wait({i})
    BY <2>2, VisitedWait
  <2> QED
    BY <2>1, <2>3
<1>4. AtBatchWait(n, dmaOps, code, pos, connectionOps, waitOps, i)
  BY <1>1, <1>2, <1>3 DEF AtBatchWait
<1>5. PICK ds, vs, m : ds = connectionOps' /\ vs = waitOps' /\ m = code'
  OBVIOUS
<1>6. CASE /\ CanFoldByBatch(i) /\ connectionOps' = connectionOps \cup {ConnOf(i)}
           /\ waitOps' = Append(waitOps, {i}) /\ code' = code
  <2>1. dmaOps[i].conn \notin connectionOps /\ connectionOps # {}
    BY <1>6 DEF CanFoldByBatch, ConnOf
  <2>2. ds = connectionOps \cup {dmaOps[i].conn} /\ vs = Append(waitOps, {i})
    BY <1>5, <1>6 DEF ConnOf
  <2>3. Batched(n, dmaOps, code, pos - 1, ds, vs)
    BY ONLY <1>2, <1>4, <2>1, <2>2, BatchedJoin
  <2> QED
    BY <1>5, <1>6, <2>3
<1>7. CASE connectionOps' = {ConnOf(i)} /\ waitOps' = <<{i}>> /\ code' = MergedCode
  <2>1. MergedAs(m, code, pos, n) /\ Delayed(m, code, waitOps, n)
    BY <1>1, <1>5, <1>7, MergeKeepsCode
  <2>2. ds = {dmaOps[i].conn} /\ vs = <<{i}>>
    BY <1>5, <1>7 DEF ConnOf
  <2>3. Batched(n, dmaOps, m, pos - 1, ds, vs)
    BY ONLY <1>4, <2>1, <2>2, BatchedRestart
  <2>4. CodeOK(m, n)
    BY <2>1 DEF MergedAs
  <2>5. Spaced(m, dmaOps, n)
    BY <1>1, <2>1, <2>4, MergeSpaces
  <2> QED
    BY <1>5, <2>3, <2>5
<1> QED
  <2>1. PICK j \in {i} :
          \/ /\ CanFoldByBatch(j) /\ connectionOps' = connectionOps \cup {ConnOf(j)}
             /\ waitOps' = Append(waitOps, {i}) /\ code' = code
          \/ connectionOps' = {ConnOf(j)} /\ waitOps' = <<{i}>> /\ code' = MergedCode
    BY <1>3 DEF VisitWaitByBatch
  <2>2. j = i
    BY <2>1
  <2> QED
    BY <1>6, <1>7, <2>1, <2>2

(* Every step keeps the spacing.                                           *)
LEMMA SpacingGoesOn ==
    ASSUME PassInv, PassInv', ChainInv, SpacingInv, [Next]_vars
    PROVE  SpacingInv'
<1>1. PICK n : n = NumDmas
  OBVIOUS
<1>2. NumDmas' = n
  BY <1>1 DEF Next, Compile, Run, vars, NumDmas
<1>3. PassOK(n, dmaOps, code, stage, pos, waitOps) /\ PassOK(n, dmaOps', code', stage', pos', waitOps')
  BY <1>1, <1>2 DEF PassInv
<1>4. SpacingOK(n, dmaOps, code, stage, pos, bdIds, waitOpQueues, connectionOps, waitOps)
  BY <1>1 DEF SpacingInv
<1>5. SUFFICES SpacingOK(n, dmaOps', code', stage', pos', bdIds', waitOpQueues', connectionOps', waitOps')
  BY <1>2 DEF SpacingInv
<1>6. /\ n \in Nat /\ TypedDmas(dmaOps, n) /\ CodeOK(code, n) /\ IsSeq(code) /\ Len(code) \in Nat
      /\ Awaited(code, n) = Tokened(dmaOps, n) /\ IsSeq(code') /\ Len(code') \in Nat
      /\ stage = "batch" => BatchOK(code, pos, waitOps, n)
  BY <1>3, LenIs DEF PassOK, CodeOK, IsCode
<1>7. stage \in {"chain", "queue"} =>
        connectionOps = {} /\ Pushed(dmaOps, n) = Tokened(dmaOps, n) /\ Prompt(code, n, Len(code), {})
  BY <1>4 DEF SpacingOK
<1>8. "chain" # "queue" /\ "chain" # "batch" /\ "queue" # "batch" /\ "lower" \notin {"chain", "queue", "batch"}
      /\ "run" \notin {"chain", "queue", "batch"}
  OBVIOUS
<1>9. CASE VisitDma /\ UNCHANGED foldVars
  <2>1. PICK i \in DOMAIN dmaOps : \E dup \in DuplicateBreaks(i) :
          /\ dmaOps' = LinkedOps(chainsToBreak \cup dup)
          /\ code' = LinkedCode(chainsToBreak \cup dup)
    BY <1>9, Zenon DEF VisitDma
  <2>2. PICK broken : dmaOps' = LinkedOps(broken) /\ code' = LinkedCode(broken)
    BY <2>1
  <2>3. stage = "chain" /\ stage' = stage
    BY <1>9 DEF VisitDma
  <2>4. PassOK(n, dmaOps, code, "chain", pos, waitOps)
    BY <1>3, <2>3
  <2>5. PICK ops, c : ops = dmaOps' /\ c = code'
    OBVIOUS
  <2>6. ops = LinkedOps(broken) /\ c = LinkedCode(broken)
    BY <2>2, <2>5
  <2>7. Pushed(dmaOps, n) = Tokened(dmaOps, n) /\ Prompt(code, n, Len(code), {})
    BY <1>7, <2>3
  <2>8. Pushed(ops, n) = Tokened(ops, n) /\ Prompt(c, n, Len(c), {})
    BY <1>1, <2>4, <2>6, <2>7, LinkingSpaces
  <2>9. bdIds = NoIds /\ waitOpQueues = <<>> /\ connectionOps = {}
    BY <1>4, <2>3 DEF SpacingOK
  <2>10. bdIds' = bdIds /\ waitOpQueues' = waitOpQueues /\ connectionOps' = connectionOps
    BY <1>9 DEF foldVars
  <2> QED
    BY <1>8, <2>3, <2>5, <2>8, <2>9, <2>10 DEF SpacingOK
<1>10. CASE FinishChains /\ UNCHANGED foldVars
  <2>1. /\ dmaOps' = LinkedOps(OpenChains) /\ code' = LinkedCode(OpenChains)
        /\ stage = "chain" /\ stage' = "queue" /\ pos' = Len(code')
    BY <1>10 DEF FinishChains
  <2>2. PassOK(n, dmaOps, code, "chain", pos, waitOps)
    BY <1>3, <2>1
  <2>3. PICK ops, c, broken : ops = dmaOps' /\ c = code' /\ broken = OpenChains
    OBVIOUS
  <2>4. ops = LinkedOps(broken) /\ c = LinkedCode(broken)
    BY <2>1, <2>3
  <2>5. Pushed(dmaOps, n) = Tokened(dmaOps, n) /\ Prompt(code, n, Len(code), {})
    BY <1>7, <2>1
  <2>6. Pushed(ops, n) = Tokened(ops, n) /\ Prompt(c, n, Len(c), {})
    BY <1>1, <2>2, <2>4, <2>5, LinkingSpaces
  <2>7. bdIds' = NoIds /\ waitOpQueues' = <<>> /\ connectionOps' = {}
    BY <1>4, <1>10, <2>1 DEF SpacingOK, foldVars
  <2>8. IsSeq(c) /\ pos' = Len(c) /\ Len(c) \in 0 .. Len(c)
    BY <1>6, <2>1, <2>3
  <2>9. Queued(n, ops, SeenWaits(c, Len(c), n), NoIds, <<>>)
    BY <1>6, <2>8, NoneSeen, QueuesStart
  <2> QED
    BY <1>8, <2>1, <2>3, <2>6, <2>7, <2>8, <2>9 DEF SpacingOK
<1>11. CASE /\ stage = "chain" /\ stage' = "chain" /\ dmaOps' = dmaOps /\ code' = code
            /\ UNCHANGED foldVars
  BY <1>4, <1>8, <1>11 DEF SpacingOK, foldVars
<1>12. ASSUME stage = "queue", stage' = "queue", pos > 0, pos' = pos - 1, dmaOps' = dmaOps, code' = code,
              connectionOps' = connectionOps,
              Queued(n, dmaOps, SeenWaits(code, pos - 1, n), bdIds', waitOpQueues')
       PROVE  SpacingOK(n, dmaOps', code', stage', pos', bdIds', waitOpQueues', connectionOps', waitOps')
  <2>1. pos \in 0 .. Len(code)
    BY <1>4, <1>12 DEF SpacingOK
  <2>2. pos - 1 \in 0 .. Len(code)
    BY <1>6, <1>12, <2>1
  <2> QED
    BY <1>7, <1>8, <1>12, <2>2 DEF SpacingOK
<1>13. CASE VisitWaitByQueue
  <2>1. /\ stage = "queue" /\ stage' = stage /\ pos > 0 /\ pos' = pos - 1 /\ dmaOps' = dmaOps
        /\ code' = code /\ connectionOps' = connectionOps
    BY <1>13 DEF VisitWaitByQueue
  <2>2. /\ PassOK(n, dmaOps, code, "queue", pos, waitOps) /\ Prompt(code, n, Len(code), {})
        /\ pos \in 0 .. Len(code) /\ Queued(n, dmaOps, SeenWaits(code, pos, n), bdIds, waitOpQueues)
    BY <1>3, <1>4, <1>7, <2>1 DEF SpacingOK
  <2>3. Queued(n, dmaOps, SeenWaits(code, pos - 1, n), bdIds', waitOpQueues')
    BY <1>1, <1>13, <2>2, VisitQueues
  <2> QED
    BY <1>12, <2>1, <2>3
<1>14. CASE stage = "queue" /\ (VisitBarrierByQueue \/ VisitDmaByFold)
  <2>1. /\ stage' = stage /\ pos > 0 /\ pos' = pos - 1 /\ dmaOps' = dmaOps /\ code' = code
        /\ connectionOps' = connectionOps /\ code[pos].kind # "wait"
        /\ bdIds' \in {bdIds, NoIds} /\ waitOpQueues' = waitOpQueues
    BY <1>14 DEF VisitBarrierByQueue, VisitDmaByFold, foldVars
  <2>2. pos \in 0 .. Len(code) /\ Queued(n, dmaOps, SeenWaits(code, pos, n), bdIds, waitOpQueues)
    BY <1>4, <1>14 DEF SpacingOK
  <2>3. pos \in 1 .. Len(code)
    BY <1>6, <2>1, <2>2
  <2>4. SeenWaits(code, pos - 1, n) = SeenWaits(code, pos, n)
    BY <1>6, <2>1, <2>3, SeenWaitStep
  <2>5. Queued(n, dmaOps, SeenWaits(code, pos, n), NoIds, waitOpQueues)
    BY <2>2, QueuesClose
  <2>6. Queued(n, dmaOps, SeenWaits(code, pos - 1, n), bdIds', waitOpQueues')
    BY <2>1, <2>2, <2>4, <2>5
  <2> QED
    BY <1>12, <1>14, <2>1, <2>6
<1>15. CASE FinishQueues
  <2>1. /\ dmaOps' = [i \in DOMAIN dmaOps |->
                        [dmaOps[i] EXCEPT !.token = @ /\ i \notin FoldedDmas]]
        /\ code' = EraseWaits(code, FoldedDmas) /\ pos' = Len(code') /\ pos = 0
        /\ stage = "queue" /\ stage' = "batch" /\ connectionOps' = connectionOps /\ waitOps' = waitOps
    BY <1>15 DEF FinishQueues
  <2>2. PICK ops, d, gone : ops = dmaOps' /\ d = code' /\ gone = FoldedIn(waitOpQueues)
    OBVIOUS
  <2>3. gone = FoldedDmas
    BY <2>2 DEF FoldedIn, FoldedDmas
  <2>4. ops = [i \in DOMAIN dmaOps |-> [dmaOps[i] EXCEPT !.token = @ /\ i \notin gone]]
        /\ d = EraseWaits(code, gone)
    BY <2>1, <2>2, <2>3
  <2>5. /\ PassOK(n, dmaOps, code, "queue", pos, waitOps) /\ Pushed(dmaOps, n) = Tokened(dmaOps, n)
        /\ Prompt(code, n, Len(code), {})
        /\ Queued(n, dmaOps, SeenWaits(code, 0, n), bdIds, waitOpQueues)
    BY <1>3, <1>4, <1>7, <2>1 DEF SpacingOK
  <2>6. /\ Gaps(ops, n, Pushed(ops, n), Tokened(ops, n))
        /\ Spaced(d, ops, n) /\ Prompt(d, n, Len(d), {}) /\ IsSeq(d)
    BY ONLY <2>2, <2>4, <2>5, FoldingSpaces
  <2>7. Batched(n, ops, d, Len(d), {}, <<>>)
    BY <1>6, <2>6, BatchedStart
  <2>8. connectionOps' = {} /\ waitOps' = <<>>
    BY <1>3, <1>7, <2>1 DEF PassOK
  <2> QED
    BY <1>8, <2>1, <2>2, <2>6, <2>7, <2>8 DEF SpacingOK
<1>16. CASE SkipFold
  <2>1. stage = "queue" /\ stage' = "lower" /\ dmaOps' = dmaOps /\ code' = code
    BY <1>16 DEF SkipFold
  <2>2. Gaps(dmaOps, n, Pushed(dmaOps, n), Tokened(dmaOps, n))
    BY <1>6, <1>7, <2>1, NoGapAtAll
  <2>3. Spaced(code, dmaOps, n)
    BY <1>6, <1>7, <2>1, PromptIsSpaced
  <2> QED
    BY <1>8, <2>1, <2>2, <2>3 DEF SpacingOK
<1>17. stage = "batch" => /\ Batched(n, dmaOps, code, pos, connectionOps, waitOps)
                          /\ Gaps(dmaOps, n, Pushed(dmaOps, n), Tokened(dmaOps, n))
                          /\ Spaced(code, dmaOps, n)
                          /\ PassOK(n, dmaOps, code, "batch", pos, waitOps)
  BY <1>3, <1>4, <1>8 DEF SpacingOK
<1>18. CASE VisitWaitByBatch
  <2>1. stage = "batch" /\ stage' = stage /\ pos' = pos - 1 /\ dmaOps' = dmaOps
    BY <1>18 DEF VisitWaitByBatch
  <2>2. /\ Batched(n, dmaOps, code', pos - 1, connectionOps', waitOps')
        /\ Spaced(code', dmaOps, n)
    BY <1>17, <1>18, <2>1, VisitBatches
  <2> QED
    BY <1>8, <1>17, <2>1, <2>2 DEF SpacingOK
<1>19. CASE stage = "batch" /\ (VisitBarrierByBatch \/ VisitDmaByFold)
  <2>1. /\ stage' = stage /\ pos > 0 /\ pos' = pos - 1 /\ dmaOps' = dmaOps /\ code' = code
        /\ connectionOps' \in {connectionOps, {}} /\ code[pos].kind # "wait" /\ waitOps' = waitOps
    BY <1>19 DEF VisitBarrierByBatch, VisitDmaByFold, foldVars
  <2>2. pos \in 1 .. Len(code)
    <3>1. pos \in 0 .. Len(code)
      BY <1>6, <1>19 DEF BatchOK
    <3> QED
      BY <1>6, <2>1, <3>1
  <2>3. PICK ds : ds = connectionOps' /\ ds \in {connectionOps, {}}
    BY <2>1
  <2>4. Batched(n, dmaOps, code, pos - 1, ds, waitOps)
    BY <1>6, <1>17, <1>19, <2>1, <2>2, <2>3, BatchedBack
  <2> QED
    BY <1>8, <1>17, <1>19, <2>1, <2>3, <2>4 DEF SpacingOK
<1>20. CASE FinishBatches
  <2>1. stage = "batch" /\ stage' = "lower" /\ code' = MergedCode /\ dmaOps' = dmaOps
    BY <1>20 DEF FinishBatches
  <2>2. PICK m : m = code'
    OBVIOUS
  <2>3. MergedAs(m, code, pos, n) /\ Delayed(m, code, waitOps, n)
    BY <1>6, <2>1, <2>2, MergeKeepsCode
  <2>4. CodeOK(m, n)
    BY <2>3 DEF MergedAs
  <2>5. Spaced(m, dmaOps, n)
    BY <1>6, <1>17, <2>1, <2>3, <2>4, MergeSpaces
  <2> QED
    BY <1>8, <1>17, <2>1, <2>2, <2>5 DEF SpacingOK
<1>21. CASE /\ dmaOps' = dmaOps /\ code' = code /\ stage \in {"lower", "run"} /\ stage' = "run"
  BY <1>4, <1>8, <1>21 DEF SpacingOK
<1>22. CASE /\ UNCHANGED codeVars /\ UNCHANGED foldVars
  BY <1>4, <1>22 DEF codeVars, foldVars
<1>23. CASE ChainNext /\ UNCHANGED <<foldVars, shimVars, source>>
  <2>1. \/ VisitDma \/ FinishChains
        \/ dmaOps' = dmaOps /\ code' = code /\ stage' = stage /\ stage = "chain"
    BY <1>23 DEF ChainNext, VisitRepeatDma, VisitBarrier, VisitOther, chainVars
  <2>2. UNCHANGED foldVars
    BY <1>23
  <2> QED
    BY <1>9, <1>10, <1>11, <2>1, <2>2
<1>24. CASE FoldNext
  <2>1. stage = "queue" \/ stage = "batch"
    BY <1>24 DEF FoldNext, VisitWaitByQueue, VisitBarrierByQueue, FinishQueues, VisitWaitByBatch,
                 VisitBarrierByBatch, FinishBatches, VisitDmaByFold
  <2>2. VisitBarrierByQueue => stage = "queue"
    BY DEF VisitBarrierByQueue
  <2>3. VisitBarrierByBatch => stage = "batch"
    BY DEF VisitBarrierByBatch
  <2> QED
    BY <1>13, <1>14, <1>15, <1>18, <1>19, <1>20, <1>24, <2>1, <2>2, <2>3 DEF FoldNext
<1>25. CASE ControlCodeLowering
  BY <1>21, <1>25 DEF ControlCodeLowering
<1>26. CASE UNCHANGED vars
  BY <1>22, <1>26 DEF vars
<1>27. CASE Run
  <2>1. UNCHANGED codeVars /\ UNCHANGED foldVars
    BY <1>27 DEF Run, Controller, Issue, ExecuteWriteBd, ExecutePush, ExecuteSync, DmaPort,
                 StartTask, FinishBd
  <2> QED
    BY <1>22, <2>1
<1> QED
  BY <1>16, <1>23, <1>24, <1>25, <1>26, <1>27 DEF Next, Compile

(* Where waits are prompt, folding leaves less than a full queue of pushes *)
(* between two of a connection that have a token, and merging keeps a wait *)
(* before the next such push.                                              *)
THEOREM SpacingInvariant == ASSUME PromptPrograms PROVE Spec => []SpacingInv
<1>1. Init /\ PassInv => SpacingInv
  BY SpacingStarts
<1>2. PassInv /\ PassInv' /\ ChainInv /\ SpacingInv /\ [Next]_vars => SpacingInv'
  BY SpacingGoesOn
<1> QED
  BY <1>1, <1>2, ChainInvariant, PassInvariant, PTL DEF Spec

-----------------------------------------------------------------------------
(* The DMAs that the first j operations of c push to port q.               *)
PushedBy(c, n, q, j) == {i \in Pushed(dmaOps, n) : /\ PortOn(ConnOf(i)) = q
                                                   /\ \E k \in 1 .. j : AtDma(c, k, i)}

(* The waits of connection r stand ahead of its later DMAs.                *)
InTurn(c, n, r) ==
    \A i, j \in 1 .. n, k, l \in 1 .. Len(c) :
        AtWait(c, k, i) /\ AtDma(c, l, j) /\ i < j
        /\ dmaOps[i].conn = r /\ dmaOps[j].conn = r => k < l

(* The most that is outstanding at a port: a full queue then, and less     *)
(* than two in any case.                                                   *)
Bound == 2 * MaxQueueSize - 1
LimitFor(c, n, r) == IF InTurn(c, n, r) THEN MaxQueueSize ELSE Bound

(* The first j operations of c have the DMAs up to lo.                     *)
Reaches(c, n, j, lo) == \A i \in 1 .. n : (\E k \in 1 .. j : AtDma(c, k, i)) <=> i <= lo

(* The DMAs come in order, so there is such a one.                         *)
LEMMA ReachedUpTo ==
    ASSUME NEW c, NEW n \in Nat, CodeOK(c, n), NEW j \in 0 .. Len(c)
    PROVE  \E lo \in 0 .. n : Reaches(c, n, j, lo)
<1>1. PICK N : N = Len(c) /\ N \in Nat
  BY LenIs DEF CodeOK, IsCode
<1> DEFINE T == {m \in 0 .. N : \E lo \in 0 .. n : Reaches(c, n, m, lo)}
<1>2. 0 \in T
  <2>1. 0 \in 0 .. N /\ 0 \in 0 .. n
    BY <1>1
  <2>2. Reaches(c, n, 0, 0)
    BY DEF Reaches
  <2> QED
    BY <2>1, <2>2
<1>3. ASSUME NEW m \in 1 .. N, m - 1 \in T PROVE m \in T
  <2>1. m \in 0 .. N /\ m \in 1 .. Len(c) /\ \A k \in 1 .. m : k \in 1 .. Len(c) /\ (k = m \/ k \in 1 .. m - 1)
    BY <1>1
  <2>2. PICK lo \in 0 .. n : Reaches(c, n, m - 1, lo)
    BY <1>3
  <2>3. CASE \E i \in 1 .. n : AtDma(c, m, i)
    <3>1. PICK i \in 1 .. n : AtDma(c, m, i)
      BY <2>3
    <3>2. i \in 0 .. n
      OBVIOUS
    <3>3. ASSUME NEW a \in 1 .. n PROVE (\E k \in 1 .. m : AtDma(c, k, a)) <=> a <= i
      <4>1. ASSUME NEW k \in 1 .. m, AtDma(c, k, a) PROVE a <= i
        <5>1. i < a <=> m < k
          BY <2>1, <3>1, <4>1 DEF CodeOK, DmasInOrder
        <5> QED
          BY <2>1, <5>1
      <4>2. ASSUME a <= i PROVE \E k \in 1 .. m : AtDma(c, k, a)
        <5>1. PICK k \in 1 .. Len(c) : AtDma(c, k, a)
          BY DEF CodeOK, DmasInOrder
        <5>2. i < a <=> m < k
          BY <2>1, <3>1, <5>1 DEF CodeOK, DmasInOrder
        <5>3. k \in 1 .. m
          BY <1>1, <4>2, <5>2
        <5> QED
          BY <5>1, <5>3
      <4> QED
        BY <4>1, <4>2
    <3>4. Reaches(c, n, m, i)
      BY <3>3 DEF Reaches
    <3> QED
      BY <2>1, <3>2, <3>4
  <2>4. CASE ~\E i \in 1 .. n : AtDma(c, m, i)
    <3>1. \A i \in 1 .. n : (\E k \in 1 .. m : AtDma(c, k, i)) <=> \E k \in 1 .. m - 1 : AtDma(c, k, i)
      <4>1. \A k \in 1 .. m - 1 : k \in 1 .. m
        BY <1>1
      <4> QED
        BY <2>1, <2>4, <4>1
    <3>2. Reaches(c, n, m, lo)
      BY <2>2, <3>1 DEF Reaches
    <3> QED
      BY <2>1, <3>2
  <2> QED
    BY <2>3, <2>4
<1> HIDE DEF T
<1>4. 0 .. N \subseteq T
  BY <1>1, <1>2, <1>3, UpToN
<1> QED
  BY <1>1, <1>4 DEF T

(* A stretch, cut in two.                                                  *)
LEMMA MembersMeet ==
    ASSUME NEW n \in Nat, NEW ops, NEW V \in SUBSET (1 .. n), NEW q,
           NEW lo \in Int, NEW mid \in Int, NEW hi \in Int
    PROVE  Cardinality(Members(ops, V, q, lo, hi))
             <= Cardinality(Members(ops, V, q, lo, mid)) + Cardinality(Members(ops, V, q, mid, hi))
<1>1. PICK A, B, C : /\ A = Members(ops, V, q, lo, mid) /\ B = Members(ops, V, q, mid, hi)
                     /\ C = Members(ops, V, q, lo, hi)
  OBVIOUS
<1>2. /\ IsFiniteSet(A) /\ IsFiniteSet(B) /\ Cardinality(A) \in Nat /\ Cardinality(B) \in Nat
  BY <1>1, MembersNat
<1>3. C \subseteq A \cup B
  <2>1. \A i \in V : lo < i /\ i <= hi => (lo < i /\ i <= mid) \/ (mid < i /\ i <= hi)
    OBVIOUS
  <2> QED
    BY <1>1, <2>1 DEF Members
<1>4. /\ IsFiniteSet(A \cup B)
      /\ Cardinality(A \cup B) = Cardinality(A) + Cardinality(B) - Cardinality(A \cap B)
  BY <1>2, FS_Union
<1>5. IsFiniteSet(A \cap B) /\ Cardinality(A \cap B) \in Nat
  <2>1. A \cap B \subseteq A
    OBVIOUS
  <2>2. IsFiniteSet(A \cap B)
    BY ONLY <1>2, <2>1, FS_Subset
  <2> QED
    BY <2>2, FS_CardinalityType
<1>6. IsFiniteSet(C) /\ Cardinality(C) <= Cardinality(A \cup B)
  BY ONLY <1>3, <1>4, FS_Subset
<1>7. Cardinality(C) \in Nat
  BY <1>6, FS_CardinalityType
<1> QED
  BY <1>1, <1>2, <1>4, <1>5, <1>6, <1>7

(* A stretch with at most one of T has less than two full queues.          *)
LEMMA FewBetween ==
    ASSUME NEW n \in Nat, NEW ops, NEW V \in SUBSET (1 .. n), NEW T \in SUBSET (1 .. n),
           Gaps(ops, n, V, T), NEW q \in Connection, NEW lo \in 0 .. n, NEW hi \in 0 .. n,
           \A s, t \in T : ops[s].conn = q /\ lo < s /\ s <= hi
                           /\ ops[t].conn = q /\ lo < t /\ t <= hi => s = t
    PROVE  Cardinality(Members(ops, V, q, lo, hi)) <= Bound
<1>1. Cardinality(Members(ops, V, q, lo, hi)) \in Nat /\ MaxQueueSize \in Nat \ {0}
  BY MembersNat, QueueAssumption
<1>2. CASE FreeOf(ops, T, q, lo, hi)
  BY <1>1, <1>2 DEF Gaps, Bound
<1>3. CASE ~FreeOf(ops, T, q, lo, hi)
  <2>1. PICK t \in T : ops[t].conn = q /\ lo < t /\ t <= hi
    BY <1>3 DEF FreeOf
  <2>2. t \in 0 .. n /\ t - 1 \in 0 .. n /\ t \in Int /\ t - 1 \in Int /\ lo \in Int /\ hi \in Int
    BY <2>1
  <2>3. FreeOf(ops, T, q, lo, t - 1) /\ FreeOf(ops, T, q, t, hi)
    <3> SUFFICES ASSUME NEW s \in T, ops[s].conn = q, (lo < s /\ s <= t - 1) \/ (t < s /\ s <= hi)
                 PROVE  FALSE
      BY DEF FreeOf
    <3>1. s \in Int /\ lo < s /\ s <= hi /\ s # t
      BY <2>1, <2>2
    <3> QED
      BY <2>1, <3>1
  <2>4. PICK a, b, c, d, e : /\ a = Cardinality(Members(ops, V, q, lo, t - 1))
                             /\ b = Cardinality(Members(ops, V, q, t - 1, t))
                             /\ c = Cardinality(Members(ops, V, q, t, hi))
                             /\ d = Cardinality(Members(ops, V, q, t - 1, hi))
                             /\ e = Cardinality(Members(ops, V, q, lo, hi))
    OBVIOUS
  <2>5. a \in Nat /\ b \in Nat /\ c \in Nat /\ d \in Nat /\ e \in Nat
    BY <2>4, MembersNat
  <2>6. a < MaxQueueSize /\ c < MaxQueueSize
    BY <2>2, <2>3, <2>4 DEF Gaps
  <2>7. b <= 1
    <3>1. Members(ops, V, q, t - 1, t) \subseteq {t}
      <4>1. \A i \in V : t - 1 < i /\ i <= t => i = t
        BY <2>2
      <4> QED
        BY <4>1 DEF Members
    <3>2. IsFiniteSet({t}) /\ Cardinality({t}) = 1
      BY FS_Singleton
    <3>3. Cardinality(Members(ops, V, q, t - 1, t)) <= Cardinality({t})
      BY ONLY <3>1, <3>2, FS_Subset
    <3> QED
      BY <2>4, <3>2, <3>3
  <2>8. e <= a + d /\ d <= b + c
    BY <2>2, <2>4, MembersMeet
  <2>9. e <= 2 * MaxQueueSize - 1
    BY <1>1, <2>5, <2>6, <2>7, <2>8
  <2> QED
    BY <2>4, <2>9 DEF Bound
<1> QED
  BY <1>2, <1>3

(* A stretch with nothing behind its first of T has at most a full queue.  *)
LEMMA FewUpTo ==
    ASSUME NEW n \in Nat, NEW ops, NEW V \in SUBSET (1 .. n), NEW T \in SUBSET (1 .. n),
           Gaps(ops, n, V, T), NEW q \in Connection, NEW lo \in 0 .. n, NEW hi \in 0 .. n,
           \A t \in T, i \in 1 .. n : ops[t].conn = q /\ lo < t
                                    /\ ops[i].conn = q /\ i <= hi => i <= t
    PROVE  Cardinality(Members(ops, V, q, lo, hi)) <= MaxQueueSize
<1>1. Cardinality(Members(ops, V, q, lo, hi)) \in Nat /\ MaxQueueSize \in Nat \ {0}
  BY MembersNat, QueueAssumption
<1>2. CASE FreeOf(ops, T, q, lo, hi)
  BY <1>1, <1>2 DEF Gaps
<1>3. CASE ~FreeOf(ops, T, q, lo, hi)
  <2>1. PICK t \in T : ops[t].conn = q /\ lo < t /\ t <= hi
    BY <1>3 DEF FreeOf
  <2>2. t \in 1 .. n /\ t - 1 \in 0 .. n /\ t \in Int /\ t - 1 \in Int /\ lo \in Int /\ hi \in Int
    BY <2>1
  <2>3. FreeOf(ops, T, q, lo, t - 1)
    <3> SUFFICES ASSUME NEW s \in T, ops[s].conn = q, lo < s, s <= t - 1 PROVE FALSE
      BY DEF FreeOf
    <3>1. s \in Int /\ t <= s
      BY <2>1, <2>2
    <3> QED
      BY <2>2, <3>1
  <2>4. PICK a, b, e : /\ a = Cardinality(Members(ops, V, q, lo, t - 1))
                       /\ b = Cardinality(Members(ops, V, q, t - 1, hi))
                       /\ e = Cardinality(Members(ops, V, q, lo, hi))
    OBVIOUS
  <2>5. a \in Nat /\ b \in Nat /\ e \in Nat
    BY <2>4, MembersNat
  <2>6. a < MaxQueueSize
    BY <2>2, <2>3, <2>4 DEF Gaps
  <2>7. b <= 1
    <3>1. Members(ops, V, q, t - 1, hi) \subseteq {t}
      <4> SUFFICES ASSUME NEW i \in V, ops[i].conn = q, t - 1 < i, i <= hi PROVE i = t
        BY DEF Members
      <4>1. i \in 1 .. n /\ i <= t
        BY <2>1
      <4> QED
        BY <2>2, <4>1
    <3>2. IsFiniteSet({t}) /\ Cardinality({t}) = 1
      BY FS_Singleton
    <3>3. Cardinality(Members(ops, V, q, t - 1, hi)) <= Cardinality({t})
      BY ONLY <3>1, <3>2, FS_Subset
    <3> QED
      BY <2>4, <3>2, <3>3
  <2>8. e <= a + b
    BY <2>2, <2>4, MembersMeet
  <2> QED
    BY <1>1, <2>4, <2>5, <2>6, <2>7, <2>8
<1> QED
  BY <1>2, <1>3

\* The DMAs pushed to the port of connection r are those of r.
LEMMA PushedAre ==
    ASSUME OneConnectionPerPort, NEW c, NEW n, Compiled(c, n), NEW r \in Connection,
           NEW q, q = PortOn(r), NEW j, NEW lo, Reaches(c, n, j, lo)
    PROVE  /\ PushedBy(c, n, q, j) = Members(dmaOps, Pushed(dmaOps, n), r, 0, lo)
           /\ \A i \in 1 .. n : PortOn(ConnOf(i)) = q <=> dmaOps[i].conn = r
<1>1. ASSUME NEW i \in 1 .. n PROVE PortOn(ConnOf(i)) = q <=> dmaOps[i].conn = r
  <2>1. dmaOps[i].conn \in Connection
    BY DEF Compiled, DmasReady, TypedDmas, DmaRec
  <2> QED
    BY <2>1 DEF OneConnectionPerPort, ConnOf
<1>2. \A i \in Pushed(dmaOps, n) : i \in 1 .. n /\ 0 < i
  BY DEF Pushed
<1> QED
  BY <1>1, <1>2 DEF PushedBy, Members, Reaches

(* Running ahead to operation k while only the tokens asked for up to j    *)
(* are there: the pushes between keep to the limit.                        *)
LEMMA FewAhead ==
    ASSUME OneConnectionPerPort, NEW c, NEW n, Compiled(c, n),
           Gaps(dmaOps, n, Pushed(dmaOps, n), Tokened(dmaOps, n)), Spaced(c, dmaOps, n),
           NEW r \in Connection, NEW q, q = PortOn(r),
           NEW j \in 0 .. Len(c), NEW k \in 0 .. Len(c),
           Cardinality(TakenBy(c, n, q, k)) <= Cardinality(AskedBy(c, n, q, j))
    PROVE  /\ Cardinality(PushedBy(c, n, q, k)) <= Cardinality(PushedBy(c, n, q, j)) + LimitFor(c, n, r)
           /\ Cardinality(PushedBy(c, n, q, k)) \in Nat
<1>1. n \in Nat /\ CodeOK(c, n) /\ Len(c) \in Nat /\ MaxQueueSize \in Nat \ {0}
  BY LenIs, QueueAssumption DEF Compiled, DmasReady, CodeOK, IsCode
<1>2. PICK lo \in 0 .. n : Reaches(c, n, j, lo)
  BY <1>1, ReachedUpTo
<1>3. PICK hi \in 0 .. n : Reaches(c, n, k, hi)
  BY <1>1, ReachedUpTo
<1>4. PICK V, T : V = Pushed(dmaOps, n) /\ T = Tokened(dmaOps, n)
  OBVIOUS
<1>5. V \in SUBSET (1 .. n) /\ T \in SUBSET (1 .. n) /\ 0 \in Int /\ lo \in Int /\ hi \in Int
  BY <1>4 DEF Pushed, Tokened
<1>6. /\ PushedBy(c, n, q, j) = Members(dmaOps, V, r, 0, lo)
      /\ PushedBy(c, n, q, k) = Members(dmaOps, V, r, 0, hi)
      /\ \A i \in 1 .. n : PortOn(ConnOf(i)) = q <=> dmaOps[i].conn = r
  BY <1>2, <1>3, <1>4, PushedAre
<1>7. PICK A, K : A = AskedBy(c, n, q, j) /\ K = TakenBy(c, n, q, k)
  OBVIOUS
<1>8. /\ IsFiniteSet(A) /\ IsFiniteSet(K) /\ Cardinality(A) \in Nat /\ Cardinality(K) \in Nat
      /\ Cardinality(K) <= Cardinality(A)
  BY <1>7, CountsOf
<1>9. \A i \in A : i \in T /\ dmaOps[i].conn = r /\ i <= lo
  <2> SUFFICES ASSUME NEW i \in A PROVE i \in T /\ dmaOps[i].conn = r /\ i <= lo
    OBVIOUS
  <2>1. i \in T /\ PortOn(ConnOf(i)) = q /\ \E m \in 1 .. j : AtDma(c, m, i)
    BY <1>4, <1>7 DEF AskedBy
  <2>2. i \in 1 .. n
    BY <1>5, <2>1
  <2> QED
    BY <1>2, <1>6, <2>1, <2>2 DEF Reaches
\* The waits ahead of a DMA that is reached have been passed.
<1>10. ASSUME NEW s \in T, NEW t \in 1 .. n, dmaOps[s].conn = r, dmaOps[t].conn = r, s < t, t <= hi,
              dmaOps[t].token \/ InTurn(c, n, r)
       PROVE  s \in K
  <2>1. s \in 1 .. n
    BY <1>5
  <2>2. PICK l \in 1 .. k : AtDma(c, l, t)
    BY <1>3, <1>10, <2>1 DEF Reaches
  <2>3. PICK w \in 1 .. Len(c) : AtWait(c, w, s)
    BY <1>4, <2>1 DEF Compiled, Awaited
  <2>4. l \in 1 .. Len(c)
    BY <1>1
  <2>5. w < l
    BY <1>10, <2>1, <2>2, <2>3, <2>4 DEF Spaced, InTurn
  <2>6. w \in 1 .. k
    BY <1>1, <2>5
  <2> QED
    BY <1>6, <1>7, <1>10, <2>1, <2>3, <2>6 DEF TakenBy
\* No token is taken that was not asked for, so that these are few.
<1>11. ASSUME NEW s \in T, NEW t \in 1 .. n, dmaOps[s].conn = r, dmaOps[t].conn = r,
              lo < s, s < t, t <= hi, dmaOps[t].token \/ InTurn(c, n, r)
       PROVE  FALSE
  <2>1. s \in K
    BY <1>10, <1>11
  <2>2. s \notin A
    BY <1>5, <1>9, <1>11
  <2>3. A \subseteq K
    <3> SUFFICES ASSUME NEW i \in A PROVE i \in K
      OBVIOUS
    <3>1. i \in T /\ dmaOps[i].conn = r /\ i <= lo
      BY <1>9
    <3>2. i \in Int /\ s \in Int /\ t \in Int
      BY <1>5, <3>1
    <3>3. i < t
      BY <1>5, <1>11, <3>1, <3>2
    <3> QED
      BY <1>10, <1>11, <3>1, <3>3
  <2>4. A \cup {s} \subseteq K
    BY <2>1, <2>3
  <2>5. Cardinality(A \cup {s}) = Cardinality(A) + 1
    BY <1>8, <2>2, FS_AddElement
  <2>6. Cardinality(A \cup {s}) <= Cardinality(K)
    BY ONLY <1>8, <2>4, FS_Subset
  <2> QED
    BY <1>8, <2>5, <2>6
<1>12. Gaps(dmaOps, n, V, T)
  BY <1>4
<1>13. ASSUME InTurn(c, n, r)
       PROVE  Cardinality(Members(dmaOps, V, r, lo, hi)) <= LimitFor(c, n, r)
  <2>1. \A t \in T, i \in 1 .. n : dmaOps[t].conn = r /\ lo < t
                                  /\ dmaOps[i].conn = r /\ i <= hi => i <= t
    <3> SUFFICES ASSUME NEW t \in T, NEW i \in 1 .. n, dmaOps[t].conn = r, lo < t,
                        dmaOps[i].conn = r, i <= hi
                 PROVE  i <= t
      OBVIOUS
    <3>1. t \in Int /\ i \in Int
      BY <1>5
    <3>2. ~(t < i)
      BY <1>11, <1>13
    <3> QED
      BY <3>1, <3>2
  <2>2. Cardinality(Members(dmaOps, V, r, lo, hi)) <= MaxQueueSize
    BY ONLY <1>1, <1>5, <1>12, <2>1, FewUpTo, r \in Connection, lo \in 0 .. n, hi \in 0 .. n
  <2> QED
    BY <1>13, <2>2 DEF LimitFor
<1>14. ASSUME ~InTurn(c, n, r)
       PROVE  Cardinality(Members(dmaOps, V, r, lo, hi)) <= LimitFor(c, n, r)
  <2>1. \A s, t \in T : dmaOps[s].conn = r /\ lo < s /\ s <= hi
                         /\ dmaOps[t].conn = r /\ lo < t /\ t <= hi => s = t
    <3> SUFFICES ASSUME NEW s \in T, NEW t \in T, dmaOps[s].conn = r, lo < s, s <= hi,
                        dmaOps[t].conn = r, lo < t, t <= hi
                 PROVE  s = t
      OBVIOUS
    <3>1. s \in 1 .. n /\ t \in 1 .. n /\ dmaOps[s].token /\ dmaOps[t].token
      BY <1>4, <1>5 DEF Tokened
    <3>2. ~(s < t) /\ ~(t < s)
      BY <1>11, <3>1
    <3> QED
      BY <3>1, <3>2
  <2>2. Cardinality(Members(dmaOps, V, r, lo, hi)) <= Bound
    BY ONLY <1>1, <1>5, <1>12, <2>1, FewBetween, r \in Connection, lo \in 0 .. n, hi \in 0 .. n
  <2> QED
    BY <1>14, <2>2 DEF LimitFor
<1>15. Cardinality(Members(dmaOps, V, r, 0, hi))
         <= Cardinality(Members(dmaOps, V, r, 0, lo)) + Cardinality(Members(dmaOps, V, r, lo, hi))
  BY ONLY <1>1, <1>5, MembersMeet
<1>16. PICK x, y, z, B : /\ x = Cardinality(Members(dmaOps, V, r, 0, hi))
                         /\ y = Cardinality(Members(dmaOps, V, r, 0, lo))
                         /\ z = Cardinality(Members(dmaOps, V, r, lo, hi))
                         /\ B = LimitFor(c, n, r)
  OBVIOUS
<1>17. x \in Nat /\ y \in Nat /\ z \in Nat /\ B \in Nat
  <2>1. x \in Nat /\ y \in Nat /\ z \in Nat
    BY <1>1, <1>5, <1>16, MembersNat
  <2> QED
    BY <1>1, <1>16, <2>1 DEF LimitFor, Bound
<1>18. x <= y + B
  <2>1. Cardinality(Members(dmaOps, V, r, lo, hi)) <= LimitFor(c, n, r)
    BY <1>13, <1>14
  <2>2. z <= B
    BY ONLY <1>16, <2>1
  <2>3. x <= y + z
    BY ONLY <1>15, <1>16
  <2> QED
    BY ONLY <1>17, <2>2, <2>3
<1>19. Cardinality(PushedBy(c, n, q, k)) = x /\ Cardinality(PushedBy(c, n, q, j)) = y
  BY <1>6, <1>16
<1> QED
  BY ONLY <1>16, <1>17, <1>18, <1>19

-----------------------------------------------------------------------------
(* The pushes to port q among the instructions.                            *)
Pushes(q) == {e \in PushRec : e.port = q}

(* They are not syncs or writes, and only they ask for tokens.             *)
LEMMA PushFacts ==
    /\ \A q : Tickets(q) \subseteq Pushes(q)
    /\ \A q : \A e \in WriteRec \cup SyncRec : e \notin Pushes(q)
<1>1. \A e \in WriteRec : e.kind = "write"
  BY DEF WriteRec
<1>2. \A e \in PushRec : e.kind = "push"
  BY DEF PushRec
<1>3. \A e \in SyncRec : e.kind = "sync"
  BY DEF SyncRec
<1>4. "write" # "push" /\ "sync" # "push"
  OBVIOUS
<1>5. \A q : \A e \in Pushes(q) : e.kind = "push"
  BY <1>2 DEF Pushes
<1>6. \A q : \A e \in WriteRec \cup SyncRec : e \notin Pushes(q)
  BY <1>1, <1>3, <1>4, <1>5
<1>7. \A q : Tickets(q) \subseteq Pushes(q)
  BY DEF Tickets, Pushes
<1> QED
  BY <1>6, <1>7

(* A larger set is met at least as often.                                  *)
LEMMA UptoWider ==
    ASSUME NEW s, NEW m \in Nat, NEW E, NEW F, E \subseteq F
    PROVE  Upto(s, m, E) <= Upto(s, m, F)
<1>1. {k \in 1 .. m : s[k] \in E} \subseteq {k \in 1 .. m : s[k] \in F}
  OBVIOUS
<1>2. IsFiniteSet({k \in 1 .. m : s[k] \in F})
  BY UptoNat
<1> QED
  BY <1>1, <1>2, FS_Subset DEF Upto

(* A lowered operation has its push to q, if any, at its end.              *)
PushesLast(x, q, t) ==
    /\ Upto(x, Len(x), Pushes(q)) = t
    /\ \A m \in 0 .. Len(x) : m < Len(x) => Upto(x, m, Pushes(q)) = 0

\* A DMA is pushed unless it is linked to a next one.
LEMMA DmaPushesLast ==
    ASSUME NEW n, DmasReady(n), NEW i \in 1 .. n, NEW q
    PROVE  PushesLast(LowerDma(i), q, One(dmaOps[i].nextBd = NoBd /\ PortOn(ConnOf(i)) = q))
<1>1. PICK x, E : x = LowerDma(i) /\ IsWriteAndPush(x, i) /\ E = Pushes(q)
  BY LowerDmaIs
<1>2. PICK t \in BOOLEAN : t <=> dmaOps[i].nextBd = NoBd /\ PortOn(ConnOf(i)) = q
  OBVIOUS
<1>3. One(dmaOps[i].nextBd = NoBd /\ PortOn(ConnOf(i)) = q) = One(t)
  BY <1>2 DEF One
<1>4. x[1] \notin E
  BY <1>1, PushFacts DEF IsWriteAndPush
<1>5. 0 \in Nat /\ 1 \in Nat /\ 0 + 1 = 1 /\ 1 + 1 = 2
  OBVIOUS
<1>6. Upto(x, 0, E) = 0 /\ Upto(x, 1, E) = 0
  <2>1. Upto(x, 0, E) = 0
    BY <1>5, UptoNat
  <2>2. {k \in 1 .. 1 : x[k] \in E} = {}
    BY <1>4
  <2> QED
    BY <2>1, <2>2, FS_EmptySet DEF Upto
<1>7. CASE dmaOps[i].nextBd = NoBd
  <2>1. Len(x) = 2 /\ (x[2] \in E <=> t)
    <3>1. Len(x) = 2 /\ x[2] \in PushRec /\ x[2].port = PortOn(ConnOf(i))
      BY <1>1, <1>7 DEF IsWriteAndPush
    <3>2. x[2] \in E <=> x[2].port = q
      BY <1>1, <3>1 DEF Pushes
    <3> QED
      BY <1>2, <1>7, <3>1, <3>2
  <2>2. Upto(x, 2, E) = One(t)
    <3>1. {k \in 1 .. 2 : x[k] \in E} = IF t THEN {2} ELSE {}
      BY <1>4, <2>1
    <3> QED
      BY <3>1, FS_EmptySet, FS_Singleton DEF Upto, One
  <2>3. \A m \in 0 .. 2 : m < 2 => m = 0 \/ m = 1
    OBVIOUS
  <2> QED
    BY <1>1, <1>3, <1>6, <2>1, <2>2, <2>3 DEF PushesLast
<1>8. CASE dmaOps[i].nextBd # NoBd
  <2>1. Len(x) = 1 /\ One(t) = 0
    BY <1>1, <1>2, <1>8 DEF IsWriteAndPush, One
  <2>2. \A m \in 0 .. 1 : m < 1 => m = 0
    OBVIOUS
  <2> QED
    BY <1>1, <1>3, <1>6, <2>1, <2>2 DEF PushesLast
<1> QED
  BY <1>7, <1>8

\* Instructions without pushes.
LEMMA NoPushesLast ==
    ASSUME NEW x, IsSeq(x), NEW q, Without(x, Pushes(q))
    PROVE  PushesLast(x, q, 0)
<1>1. \A m \in 0 .. Len(x) : Upto(x, m, Pushes(q)) = 0
  BY UptoNone
<1>2. Len(x) \in 0 .. Len(x)
  BY LenIs
<1> QED
  BY <1>1, <1>2 DEF PushesLast

(* What the next operation pushes.                                         *)
LEMMA PiecePushes ==
    ASSUME NEW c, NEW n, Compiled(c, n), NEW q \in Coord, NEW j \in 1 .. Len(c), NEW x,
           x = Lower(c[j])
    PROVE  /\ PushesLast(x, q, Cardinality(PushedBy(c, n, q, j)) - Cardinality(PushedBy(c, n, q, j - 1)))
           /\ Cardinality(PushedBy(c, n, q, j)) \in Nat
           /\ Cardinality(PushedBy(c, n, q, j - 1)) \in Nat
<1>1. PICK P, P1, o : P = PushedBy(c, n, q, j - 1) /\ P1 = PushedBy(c, n, q, j) /\ o = c[j]
  OBVIOUS
<1>2. Len(c) \in Nat /\ n \in Nat /\ IsOp(o, n) /\ CodeOK(c, n) /\ x \in Seq(Instr)
  BY <1>1, LenIs, PieceAdds DEF Compiled, DmasReady, CodeOK, IsCode
<1>3. IsFiniteSet(1 .. n) /\ P \subseteq 1 .. n /\ P1 \subseteq 1 .. n
  <2>1. IsFiniteSet(1 .. n)
    BY <1>2, FS_Interval
  <2> QED
    BY <1>1, <2>1 DEF PushedBy, Pushed
<1>4. IsFiniteSet(P) /\ IsFiniteSet(P1) /\ Cardinality(P) \in Nat /\ Cardinality(P1) \in Nat
  <2>1. IsFiniteSet(P) /\ IsFiniteSet(P1)
    BY ONLY <1>3, FS_Subset
  <2> QED
    BY <2>1, FS_CardinalityType
<1>5. \A k \in 1 .. j : k = j \/ k \in 1 .. j - 1
  BY <1>2
<1>6. \A k \in 1 .. j - 1 : k \in 1 .. j /\ k \in 1 .. Len(c) /\ k # j
  BY <1>2
<1>7. j \in 1 .. j
  BY <1>2
<1>8. P1 = P \cup {i \in Pushed(dmaOps, n) : PortOn(ConnOf(i)) = q /\ AtDma(c, j, i)}
  BY <1>1, <1>5, <1>6, <1>7 DEF PushedBy
<1>9. CASE \E i \in 1 .. n : o = Dma(i)
  <2>1. PICK i \in 1 .. n : o = Dma(i)
    BY <1>9
  <2>2. PICK t \in BOOLEAN : t <=> dmaOps[i].nextBd = NoBd /\ PortOn(ConnOf(i)) = q
    OBVIOUS
  <2>3. x = LowerDma(i)
    <3>1. o.kind = "dma" /\ o.ops = {i}
      BY <2>1, OpFacts
    <3>2. (CHOOSE e \in {i} : TRUE) = i
      OBVIOUS
    <3> QED
      BY <1>1, <3>1, <3>2 DEF Lower
  <2>4. PushesLast(x, q, One(t))
    <3>1. PushesLast(x, q, One(dmaOps[i].nextBd = NoBd /\ PortOn(ConnOf(i)) = q))
      BY <2>3, DmaPushesLast DEF Compiled
    <3>2. One(dmaOps[i].nextBd = NoBd /\ PortOn(ConnOf(i)) = q) = One(t)
      BY <2>2 DEF One
    <3> QED
      BY <3>1, <3>2
  <2>5. \A m \in 1 .. n : AtDma(c, j, m) <=> m = i
    <3>1. ASSUME NEW m \in 1 .. n, Dma(i) = Dma(m) PROVE m = i
      <4>1. Dma(i).ops = {i} /\ Dma(m).ops = {m}
        BY OpFacts
      <4>2. {i} = {m}
        BY <3>1, <4>1
      <4> QED
        BY <4>2
    <3> QED
      BY <1>1, <2>1, <3>1 DEF AtDma
  <2>6. i \notin P
    <3>1. ASSUME NEW k \in 1 .. j - 1, AtDma(c, k, i) PROVE FALSE
      <4>1. AtDma(c, j, i) /\ k \in 1 .. Len(c) /\ k # j
        BY <1>6, <2>5
      <4> QED
        BY <1>2, <3>1, <4>1, DmaOnce
    <3> QED
      BY <1>1, <3>1 DEF PushedBy
  <2>7. Cardinality(P1) = Cardinality(P) + One(t)
    <3>1. CASE t
      <4>1. P1 = P \cup {i}
        BY <1>8, <2>2, <2>5, <3>1 DEF Pushed
      <4>2. Cardinality(P1) = Cardinality(P) + 1
        BY <1>4, <2>6, <4>1, FS_AddElement
      <4> QED
        BY <3>1, <4>2 DEF One
    <3>2. CASE ~t
      <4>1. P1 = P
        BY <1>8, <2>2, <2>5, <3>2 DEF Pushed
      <4> QED
        BY <1>4, <3>2, <4>1 DEF One
    <3> QED
      BY <3>1, <3>2
  <2>8. One(t) \in Nat
    BY DEF One
  <2>9. Cardinality(P1) - Cardinality(P) = One(t)
    BY <1>4, <2>7, <2>8
  <2> QED
    BY <1>1, <1>4, <2>4, <2>9
<1>10. CASE ~\E i \in 1 .. n : o = Dma(i)
  <2>1. P1 = P
    <3>1. \A i \in Pushed(dmaOps, n) : ~AtDma(c, j, i)
      BY <1>1, <1>10 DEF AtDma, Pushed
    <3> QED
      BY <1>8, <3>1
  <2>2. Without(x, Pushes(q)) /\ IsSeq(x)
    <3>1. CASE \E is \in SUBSET (1 .. n) : is # {} /\ o = Wait(is)
      <4>1. PICK is \in SUBSET (1 .. n) : o = Wait(is)
        BY <3>1
      <4>2. x = LowerWait(is)
        BY <1>1, <4>1, OpFacts DEF Lower
      <4>3. Waitable(is)
        BY LowerWaitTakes DEF Compiled
      <4>4. x \in Seq(SyncRec)
        BY <4>2, <4>3, LowerWaitCount
      <4>5. \A k \in 1 .. Len(x) : x[k] \in SyncRec
        BY <4>4, LenProperties
      <4> QED
        BY <1>2, <4>5, PushFacts, SeqIsSeq DEF Without
    <3>2. CASE o = Barrier
      <4>1. x = <<>>
        BY <1>1, <3>2, OpFacts DEF Lower
      <4>2. Len(x) = 0
        BY <4>1, EmptyIs
      <4> QED
        BY <1>2, <4>2, SeqIsSeq DEF Without
    <3> QED
      BY <1>2, <1>10, <3>1, <3>2 DEF IsOp
  <2>3. PushesLast(x, q, 0)
    BY <2>2, NoPushesLast
  <2>4. Cardinality(P1) - Cardinality(P) = 0
    BY <1>4, <2>1
  <2> QED
    BY <1>1, <1>4, <2>3, <2>4
<1> QED
  BY <1>9, <1>10

(* At every point of the lowered code, what has been asked for and pushed  *)
(* is what the operations up to some point of c ask for and push, and no   *)
(* fewer tokens have been taken.                                           *)
LiesAt(s, e, c, n, q, i) ==
    /\ Upto(s, e, Tickets(q)) = Cardinality(AskedBy(c, n, q, i))
    /\ Upto(s, e, Pushes(q)) = Cardinality(PushedBy(c, n, q, i))
    /\ Cardinality(TakenBy(c, n, q, i)) <= Upto(s, e, Syncs(q))
Follows(s, c, n, q, j) ==
    /\ \A e \in 0 .. Len(s) : \E i \in 0 .. Len(c) : LiesAt(s, e, c, n, q, i)
    /\ Upto(s, Len(s), Pushes(q)) = Cardinality(PushedBy(c, n, q, j))

(* This holds for the code lowered up to every operation.                  *)
LEMMA LoweringFollows ==
    ASSUME NEW c, NEW n, Compiled(c, n), NEW q \in Coord, NEW x, NEW h, LoweredUpTo(h, c, n, q, x)
    PROVE  Follows(x, c, n, q, Len(c)) /\ Len(x) \in Nat
<1>1. PICK N : N = Len(c) /\ N \in Nat
  BY LenIs DEF Compiled, CodeOK, IsCode
<1>2. PICK E, F, G : E = Tickets(q) /\ F = Pushes(q) /\ G = Syncs(q)
  OBVIOUS
<1>3. ASSUME NEW j \in 0 .. N
      PROVE  /\ h[j] \in Seq(Instr) /\ IsSeq(h[j]) /\ Len(h[j]) \in Nat
             /\ Upto(h[j], Len(h[j]), E) = Cardinality(AskedBy(c, n, q, j))
             /\ Upto(h[j], Len(h[j]), G) = Cardinality(TakenBy(c, n, q, j))
  <2>1. Lowered(h[j], q, Cardinality(AskedBy(c, n, q, j)), Cardinality(TakenBy(c, n, q, j)))
    BY <1>1 DEF LoweredUpTo
  <2>2. h[j] \in Seq(Instr)
    BY <2>1 DEF Lowered
  <2>3. IsSeq(h[j]) /\ Len(h[j]) \in Nat
    BY <2>2, SeqIsSeq, LenIs
  <2> QED
    BY <1>2, <2>1, <2>2, <2>3 DEF Lowered
<1> DEFINE T == {j \in 0 .. N : Follows(h[j], c, n, q, j)}
<1>4. 0 \in T
  <2>1. 0 \in 0 .. N /\ 0 \in Nat /\ h[0] = <<>> /\ 0 \in 0 .. Len(c)
    BY <1>1 DEF LoweredUpTo
  <2>2. PICK s : s = h[0]
    OBVIOUS
  <2>3. Len(s) = 0
    BY <2>1, <2>2, EmptyIs
  <2>4. Upto(s, 0, E) = 0 /\ Upto(s, 0, F) = 0 /\ Upto(s, 0, G) = 0
    BY <2>1, UptoNat
  <2>5. AskedBy(c, n, q, 0) = {} /\ TakenBy(c, n, q, 0) = {} /\ PushedBy(c, n, q, 0) = {}
    BY DEF AskedBy, TakenBy, PushedBy
  <2>6. LiesAt(s, 0, c, n, q, 0)
    BY <1>2, <2>4, <2>5, FS_EmptySet DEF LiesAt
  <2>7. \A e \in 0 .. 0 : e = 0
    OBVIOUS
  <2>8. Follows(s, c, n, q, 0)
    BY <1>2, <2>1, <2>3, <2>4, <2>5, <2>6, <2>7, FS_EmptySet DEF Follows
  <2> QED
    BY <2>1, <2>2, <2>8
<1>5. ASSUME NEW j \in 1 .. N, j - 1 \in T PROVE j \in T
  <2>1. PICK i, g, y, s : i = j - 1 /\ g = h[i] /\ y = Lower(c[j]) /\ s = h[j]
    OBVIOUS
  <2>2. i \in 0 .. N /\ j \in 0 .. N /\ j \in 1 .. Len(c) /\ i \in 0 .. Len(c) /\ j \in 0 .. Len(c)
    BY <1>1, <2>1
  <2>3. s = g \o y
    BY <2>1, <2>2 DEF LoweredUpTo
  <2>4. y \in Seq(Instr)
    BY <2>1, <2>2, PieceAdds
  <2>5. IsSeq(g) /\ IsSeq(y) /\ Len(g) \in Nat /\ Len(y) \in Nat
    BY <1>3, <2>1, <2>2, <2>4, SeqIsSeq, LenIs
  <2>6. Len(s) = Len(g) + Len(y)
    BY <2>3, <2>5, ConcatIs
  <2>7. \A D : /\ \A m \in 0 .. Len(g) : Upto(s, m, D) = Upto(g, m, D)
               /\ \A m \in 0 .. Len(y) : Upto(s, Len(g) + m, D) = Upto(g, Len(g), D) + Upto(y, m, D)
    BY <2>3, <2>5, UptoConcat
  <2>8. PICK a, b \in Nat : a = Cardinality(PushedBy(c, n, q, i)) /\ b = Cardinality(PushedBy(c, n, q, j))
    BY <2>1, <2>2, PiecePushes
  <2>9. /\ Upto(y, Len(y), F) = b - a
        /\ \A m \in 0 .. Len(y) : m < Len(y) => Upto(y, m, F) = 0
    <3>1. PushesLast(y, q, Cardinality(PushedBy(c, n, q, j)) - Cardinality(PushedBy(c, n, q, j - 1)))
      BY <2>1, <2>2, PiecePushes
    <3>2. PushesLast(y, q, b - a)
      BY <2>1, <2>8, <3>1
    <3> QED
      BY <1>2, <3>2 DEF PushesLast
  <2>10. /\ \A e \in 0 .. Len(g) : \E k \in 0 .. Len(c) : LiesAt(g, e, c, n, q, k)
         /\ Upto(g, Len(g), F) = a
    BY <1>2, <1>5, <2>1, <2>8 DEF Follows
  <2>11. Upto(s, Len(s), F) = b
    <3>1. Len(y) \in 0 .. Len(y)
      BY <2>5
    <3>2. Upto(s, Len(g) + Len(y), F) = Upto(g, Len(g), F) + Upto(y, Len(y), F)
      BY <2>7, <3>1
    <3> QED
      BY <2>6, <2>8, <2>9, <2>10, <3>2
  <2>12. ASSUME NEW e \in 0 .. Len(s) PROVE \E k \in 0 .. Len(c) : LiesAt(s, e, c, n, q, k)
    <3>1. CASE e <= Len(g)
      <4>1. e \in 0 .. Len(g)
        BY <2>5, <3>1
      <4>2. PICK k \in 0 .. Len(c) : LiesAt(g, e, c, n, q, k)
        BY <2>10, <4>1
      <4>3. LiesAt(s, e, c, n, q, k)
        BY <2>7, <4>1, <4>2 DEF LiesAt
      <4> QED
        BY <4>3
    <3>2. CASE e = Len(s)
      <4>1. Cardinality(TakenBy(c, n, q, j)) <= Cardinality(TakenBy(c, n, q, j))
        BY <2>2, CountsOf
      <4>2. LiesAt(s, e, c, n, q, j)
        BY <1>2, <1>3, <2>1, <2>2, <2>8, <2>11, <3>2, <4>1 DEF LiesAt
      <4> QED
        BY <2>2, <4>2
    <3>3. CASE e > Len(g) /\ e # Len(s)
      <4>1. PICK m : m = e - Len(g)
        OBVIOUS
      <4>2. m \in 0 .. Len(y) /\ m < Len(y) /\ e = Len(g) + m /\ m \in Nat
        BY <2>5, <2>6, <3>3, <4>1
      <4>3. \A D : Upto(s, e, D) = Upto(g, Len(g), D) + Upto(y, m, D)
        BY <2>7, <4>2
      <4>4. Upto(y, m, E) \in Nat /\ Upto(y, m, F) \in Nat /\ Upto(y, m, G) \in Nat
        BY <4>2, UptoNat
      <4>5. Upto(y, m, F) = 0
        BY <2>9, <4>2
      <4>6. Upto(y, m, E) = 0
        <5>1. Upto(y, m, E) <= Upto(y, m, F)
          BY <1>2, <4>2, PushFacts, UptoWider
        <5> QED
          BY <4>4, <4>5, <5>1
      <4>7. PICK u, v : u = Cardinality(AskedBy(c, n, q, i)) /\ v = Cardinality(TakenBy(c, n, q, i))
        OBVIOUS
      <4>8. u \in Nat /\ v \in Nat
        BY <2>2, <4>7, CountsOf
      <4>9. Upto(g, Len(g), E) = u /\ Upto(g, Len(g), G) = v
        BY <1>3, <2>1, <2>2, <4>7
      <4>10. Upto(s, e, E) = u /\ Upto(s, e, F) = a /\ v <= Upto(s, e, G)
        BY <2>8, <2>10, <4>3, <4>4, <4>5, <4>6, <4>8, <4>9
      <4>11. LiesAt(s, e, c, n, q, i)
        BY <1>2, <2>8, <4>7, <4>10 DEF LiesAt
      <4> QED
        BY <2>2, <4>11
    <3> QED
      BY <2>5, <2>6, <3>1, <3>2, <3>3
  <2>13. Follows(s, c, n, q, j)
    BY <1>2, <2>8, <2>11, <2>12 DEF Follows
  <2> QED
    BY <2>1, <2>2, <2>13
<1> HIDE DEF T
<1>6. 0 .. N \subseteq T
  BY <1>1, <1>4, <1>5, UpToN
<1>7. N \in T
  BY <1>1, <1>6
<1>8. h[N] = x /\ N \in 0 .. N
  BY <1>1 DEF LoweredUpTo
<1> QED
  BY <1>1, <1>3, <1>7, <1>8 DEF T

(* At most B pushes are between e and m, if the syncs up to m take no more *)
(* tokens than the pushes up to e ask for, and o more.                     *)
Ahead(s, o, q, B) ==
    \A e, m \in 0 .. Len(s) :
        Upto(s, m, Syncs(q)) <= o + Upto(s, e, Tickets(q))
            => Upto(s, m, Pushes(q)) <= Upto(s, e, Pushes(q)) + B

(* The lowered code does not run ahead further than the limit.             *)
LEMMA LoweredAhead ==
    ASSUME OneConnectionPerPort, NEW c, NEW n, Compiled(c, n),
           Gaps(dmaOps, n, Pushed(dmaOps, n), Tokened(dmaOps, n)), Spaced(c, dmaOps, n),
           NEW r \in Connection, NEW q, q = PortOn(r), NEW x,
           x = FlattenSeq([k \in DOMAIN c |-> Lower(c[k])])
    PROVE  Ahead(x, 0, q, LimitFor(c, n, r))
<1>1. q \in Coord
  BY PortIs
<1>2. Follows(x, c, n, q, Len(c)) /\ Len(x) \in Nat
  <2>1. PICK h : LoweredUpTo(h, c, n, q, x)
    BY <1>1, LoweringSteps
  <2> QED
    BY <1>1, <2>1, LoweringFollows
<1>3. SUFFICES ASSUME NEW e \in 0 .. Len(x), NEW m \in 0 .. Len(x),
                      Upto(x, m, Syncs(q)) <= 0 + Upto(x, e, Tickets(q))
               PROVE  Upto(x, m, Pushes(q)) <= Upto(x, e, Pushes(q)) + LimitFor(c, n, r)
  BY DEF Ahead
<1>4. PICK j \in 0 .. Len(c) : LiesAt(x, e, c, n, q, j)
  BY <1>2 DEF Follows
<1>5. PICK k \in 0 .. Len(c) : LiesAt(x, m, c, n, q, k)
  BY <1>2 DEF Follows
<1>6. PICK a, t, u : /\ a = Cardinality(AskedBy(c, n, q, j)) /\ t = Cardinality(TakenBy(c, n, q, k))
                     /\ u = Upto(x, m, Syncs(q))
  OBVIOUS
<1>7. a \in Nat /\ t \in Nat
  BY <1>6, CountsOf
<1>8. u \in Nat
  <2>1. m \in Nat
    BY <1>2
  <2> QED
    BY <1>6, <2>1, UptoNat
<1>9. t <= a
  <2>1. t <= u
    BY <1>5, <1>6 DEF LiesAt
  <2>2. u <= 0 + a
    BY <1>3, <1>4, <1>6 DEF LiesAt
  <2> QED
    BY <1>7, <1>8, <2>1, <2>2
<1>10. Cardinality(PushedBy(c, n, q, k)) <= Cardinality(PushedBy(c, n, q, j)) + LimitFor(c, n, r)
  BY <1>6, <1>9, FewAhead
<1> QED
  BY <1>4, <1>5, <1>10 DEF LiesAt

-----------------------------------------------------------------------------
(* Where a port may be when the controller reaches m: with e tasks of the  *)
(* queue behind it (t tokens are there, the active task gives b more), or  *)
(* at its active task.                                                     *)
InQueue(s, Q, o, p, B) ==
    \A e \in 0 .. Len(Q), m \in 0 .. Len(s) :
        Upto(s, m, Syncs(p)) <= o + Upto(Q, e, Owing)
            => (Len(Q) - e) + Upto(s, m, Pushes(p)) <= B
Working(s, Q, t, p, B) ==
    \A m \in 0 .. Len(s) :
        Upto(s, m, Syncs(p)) <= t => (Len(Q) + 1) + Upto(s, m, Pushes(p)) <= B
Bounded(s, Q, t, b, busy, p, B) ==
    /\ Ahead(s, t + (Upto(Q, Len(Q), Owing) + b), p, B)
    /\ InQueue(s, Q, t + b, p, B)
    /\ busy => Working(s, Q, t, p, B)

Busy(p) == active[p] # NoTask
Gives(p) == One(active[p] # NoTask /\ active[p].token)
AccountOf(p, B) == Bounded(instrs, queue[p], tokens[p], Gives(p), Busy(p), p, B)

(* Counting behind the first instruction.                                  *)
LEMMA TailCounts ==
    ASSUME NEW s \in Seq(Instr), s # <<>>
    PROVE  /\ Len(Tail(s)) \in Nat /\ Tail(s) \in Seq(Instr)
           /\ \A m \in 0 .. Len(Tail(s)) : m + 1 \in 0 .. Len(s)
           /\ \A D : One(s[1] \in D) \in Nat
           /\ \A D : \A m \in 0 .. Len(Tail(s)) :
                Upto(Tail(s), m, D) \in Nat /\ Upto(s, m + 1, D) = One(s[1] \in D) + Upto(Tail(s), m, D)
<1>1. PICK t, n : t = Tail(s) /\ n = Len(t)
  OBVIOUS
<1>2. IsSeq(s) /\ t \in Seq(Instr)
  BY <1>1, SeqIsSeq, HeadTailProperties
<1>3. n \in Nat /\ Len(s) = n + 1 /\ n = Len(s) - 1
  <2>1. Len(s) \in Nat \ {0}
    BY <1>2, LenIs
  <2>2. Len(Tail(s)) = Len(s) - 1
    BY <1>2, TailIs
  <2> QED
    BY <1>1, <2>1, <2>2
<1>4. \A D : \A m \in 0 .. n : Upto(s, m + 1, D) = One(s[1] \in D) + Upto(t, m, D)
  BY <1>1, <1>2, <1>3, UptoTail
<1>5. \A m \in 0 .. n : m + 1 \in 0 .. Len(s) /\ m \in Nat
  BY <1>3
<1>6. \A D : One(s[1] \in D) \in Nat /\ \A m \in 0 .. n : Upto(t, m, D) \in Nat
  BY <1>5, UptoNat DEF One
<1> QED
  BY <1>1, <1>2, <1>3, <1>4, <1>5, <1>6

(* The controller is one instruction closer to everything ahead.           *)
LEMMA AheadTail ==
    ASSUME NEW B \in Nat, NEW s \in Seq(Instr), s # <<>>, NEW p,
           NEW o \in Nat, Ahead(s, o, p, B), NEW o1 \in Nat,
           o1 = o + One(s[1] \in Tickets(p)) - One(s[1] \in Syncs(p))
    PROVE  Ahead(Tail(s), o1, p, B)
<1> SUFFICES ASSUME NEW e \in 0 .. Len(Tail(s)), NEW m \in 0 .. Len(Tail(s)),
                    Upto(Tail(s), m, Syncs(p)) <= o1 + Upto(Tail(s), e, Tickets(p))
             PROVE  Upto(Tail(s), m, Pushes(p)) <= Upto(Tail(s), e, Pushes(p)) + B
  BY DEF Ahead
<1>1. PICK x, y, u \in Nat : /\ x = One(s[1] \in Tickets(p)) /\ y = One(s[1] \in Syncs(p))
                             /\ u = One(s[1] \in Pushes(p))
  BY TailCounts
<1>2. PICK a, c, d, f \in Nat : /\ a = Upto(Tail(s), e, Tickets(p)) /\ c = Upto(Tail(s), m, Syncs(p))
                                /\ d = Upto(Tail(s), m, Pushes(p)) /\ f = Upto(Tail(s), e, Pushes(p))
  BY TailCounts
<1>3. e + 1 \in 0 .. Len(s) /\ m + 1 \in 0 .. Len(s)
  BY TailCounts
<1>4. /\ Upto(s, e + 1, Tickets(p)) = x + a /\ Upto(s, m + 1, Syncs(p)) = y + c
      /\ Upto(s, m + 1, Pushes(p)) = u + d /\ Upto(s, e + 1, Pushes(p)) = u + f
  BY <1>1, <1>2, TailCounts
<1>5. y + c <= o + (x + a)
  <2>1. o1 = o + x - y /\ c <= o1 + a
    BY <1>1, <1>2
  <2> QED
    BY <2>1
<1>6. u + d <= (u + f) + B
  BY <1>3, <1>4, <1>5 DEF Ahead
<1>7. d <= f + B
  BY ONLY <1>6, B \in Nat, u \in Nat, d \in Nat, f \in Nat
<1> QED
  BY <1>2, <1>7

(* Executing an instruction that is not a push to p.                       *)
LEMMA BoundedTail ==
    ASSUME NEW B \in Nat, NEW s \in Seq(Instr), s # <<>>, NEW Q, IsSeq(Q),
           NEW t \in Nat, NEW b \in Nat, NEW busy,
           NEW p, Bounded(s, Q, t, b, busy, p, B), s[1] \notin Pushes(p),
           NEW t1 \in Nat, t1 = t - One(s[1] \in Syncs(p))
    PROVE  Bounded(Tail(s), Q, t1, b, busy, p, B)
<1>1. PICK y \in Nat : y = One(s[1] \in Syncs(p))
  BY TailCounts
<1>2. One(s[1] \in Pushes(p)) = 0 /\ One(s[1] \in Tickets(p)) = 0
  BY PushFacts DEF One
<1>3. PICK L, w \in Nat : L = Len(Q) /\ w = Upto(Q, L, Owing)
  BY LenIs, UptoNat
<1>4. t1 = t - y
  BY <1>1
<1>5. Ahead(Tail(s), t1 + (w + b), p, B)
  <2>1. t1 + (w + b) = (t + (w + b)) + 0 - y /\ t + (w + b) \in Nat /\ t1 + (w + b) \in Nat
    BY <1>4
  <2>2. Ahead(s, t + (w + b), p, B)
    BY <1>3 DEF Bounded
  <2> QED
    BY <1>1, <1>2, <2>1, <2>2, AheadTail
<1>6. ASSUME NEW m \in 0 .. Len(Tail(s))
      PROVE  /\ m + 1 \in 0 .. Len(s) /\ Upto(s, m + 1, Pushes(p)) = Upto(Tail(s), m, Pushes(p))
             /\ Upto(s, m + 1, Syncs(p)) = y + Upto(Tail(s), m, Syncs(p))
             /\ Upto(Tail(s), m, Syncs(p)) \in Nat
  <2>1. /\ Upto(s, m + 1, Pushes(p)) = One(s[1] \in Pushes(p)) + Upto(Tail(s), m, Pushes(p))
        /\ Upto(s, m + 1, Syncs(p)) = One(s[1] \in Syncs(p)) + Upto(Tail(s), m, Syncs(p))
        /\ Upto(Tail(s), m, Pushes(p)) \in Nat /\ Upto(Tail(s), m, Syncs(p)) \in Nat
        /\ m + 1 \in 0 .. Len(s)
    BY TailCounts
  <2> QED
    BY <1>1, <1>2, <2>1
<1>7. ASSUME NEW e \in 0 .. Len(Q), NEW m \in 0 .. Len(Tail(s)),
             Upto(Tail(s), m, Syncs(p)) <= (t1 + b) + Upto(Q, e, Owing)
      PROVE  (Len(Q) - e) + Upto(Tail(s), m, Pushes(p)) <= B
  <2>1. PICK c, d \in Nat : c = Upto(Tail(s), m, Syncs(p)) /\ d = Upto(Q, e, Owing)
    <3>1. e \in Nat
      BY <1>3
    <3> QED
      BY <1>6, <3>1, UptoNat
  <2>2. y + c <= (t + b) + d
    <3>1. c <= (t1 + b) + d
      BY <1>7, <2>1
    <3> QED
      BY ONLY <1>4, <3>1, t \in Nat, b \in Nat, c \in Nat, d \in Nat, y \in Nat
  <2>3. Upto(s, m + 1, Syncs(p)) <= (t + b) + Upto(Q, e, Owing) /\ m + 1 \in 0 .. Len(s)
    BY <1>6, <2>1, <2>2
  <2>4. (Len(Q) - e) + Upto(s, m + 1, Pushes(p)) <= B
    BY <2>3 DEF Bounded, InQueue
  <2> QED
    BY <1>6, <2>4
<1>8. ASSUME busy, NEW m \in 0 .. Len(Tail(s)), Upto(Tail(s), m, Syncs(p)) <= t1
      PROVE  (Len(Q) + 1) + Upto(Tail(s), m, Pushes(p)) <= B
  <2>1. PICK c \in Nat : c = Upto(Tail(s), m, Syncs(p))
    BY <1>6
  <2>2. y + c <= t
    BY <1>4, <1>8, <2>1
  <2>3. Upto(s, m + 1, Syncs(p)) <= t /\ m + 1 \in 0 .. Len(s)
    BY <1>6, <2>1, <2>2
  <2>4. (Len(Q) + 1) + Upto(s, m + 1, Pushes(p)) <= B
    BY <1>8, <2>3 DEF Bounded, Working
  <2> QED
    BY <1>6, <2>4
<1> QED
  BY <1>3, <1>5, <1>7, <1>8 DEF Bounded, InQueue, Working

(* Executing a push to p.                                                  *)
LEMMA BoundedPush ==
    ASSUME NEW B \in Nat, NEW s \in Seq(Instr), s # <<>>, NEW Q, IsSeq(Q),
           NEW t \in Nat, NEW b \in Nat, NEW busy,
           NEW p, Bounded(s, Q, t, b, busy, p, B), s[1] \in Pushes(p),
           NEW k, k \in Owing <=> s[1] \in Tickets(p)
    PROVE  Bounded(Tail(s), Append(Q, k), t, b, busy, p, B)
<1>1. PICK x \in Nat : x = One(s[1] \in Tickets(p)) /\ x = One(k \in Owing)
  BY DEF One
<1>2. One(s[1] \in Pushes(p)) = 1 /\ One(s[1] \in Syncs(p)) = 0
  <2>1. s[1] \in PushRec
    BY DEF Pushes
  <2> QED
    BY <2>1, KindsDiffer DEF One
<1>3. PICK L, w \in Nat : L = Len(Q) /\ w = Upto(Q, L, Owing)
  BY LenIs, UptoNat
<1>13. PICK R : R = Append(Q, k)
  OBVIOUS
<1>4. /\ Len(R) = L + 1 /\ \A e \in 0 .. L : Upto(R, e, Owing) = Upto(Q, e, Owing)
      /\ Upto(R, L + 1, Owing) = w + x
  BY <1>1, <1>3, <1>13, AppendIs, UptoAppend
<1>5. Ahead(s, t + (w + b), p, B)
  BY <1>3 DEF Bounded
<1>6. Ahead(Tail(s), t + ((w + x) + b), p, B)
  <2>1. t + ((w + x) + b) = (t + (w + b)) + x - 0 /\ t + (w + b) \in Nat /\ t + ((w + x) + b) \in Nat
    OBVIOUS
  <2> QED
    BY <1>1, <1>2, <1>5, <2>1, AheadTail
<1>7. ASSUME NEW m \in 0 .. Len(Tail(s))
      PROVE  /\ m + 1 \in 0 .. Len(s) /\ Upto(s, m + 1, Pushes(p)) = 1 + Upto(Tail(s), m, Pushes(p))
             /\ Upto(s, m + 1, Syncs(p)) = Upto(Tail(s), m, Syncs(p))
             /\ Upto(Tail(s), m, Pushes(p)) \in Nat
  <2>1. /\ Upto(s, m + 1, Pushes(p)) = One(s[1] \in Pushes(p)) + Upto(Tail(s), m, Pushes(p))
        /\ Upto(s, m + 1, Syncs(p)) = One(s[1] \in Syncs(p)) + Upto(Tail(s), m, Syncs(p))
        /\ Upto(Tail(s), m, Pushes(p)) \in Nat /\ Upto(Tail(s), m, Syncs(p)) \in Nat
        /\ m + 1 \in 0 .. Len(s)
    BY TailCounts
  <2> QED
    BY <1>2, <2>1
<1>9. ASSUME NEW e \in 0 .. L + 1, NEW m \in 0 .. Len(Tail(s)),
             Upto(Tail(s), m, Syncs(p)) <= (t + b) + Upto(R, e, Owing)
      PROVE  ((L + 1) - e) + Upto(Tail(s), m, Pushes(p)) <= B
  <2>1. PICK g \in Nat : g = Upto(Tail(s), m, Pushes(p)) /\ Upto(s, m + 1, Pushes(p)) = 1 + g
    BY <1>7
  <2>2. CASE e <= L
    <3>1. e \in 0 .. L
      BY <2>2
    <3>2. Upto(s, m + 1, Syncs(p)) <= (t + b) + Upto(Q, e, Owing) /\ m + 1 \in 0 .. Len(s)
      BY <1>4, <1>7, <1>9, <3>1
    <3>3. (L - e) + (1 + g) <= B
      BY <1>3, <2>1, <3>1, <3>2 DEF Bounded, InQueue
    <3> QED
      BY <2>1, <3>1, <3>3
  <2>3. CASE e = L + 1
    <3>1. 1 \in 0 .. Len(s) /\ 0 \in Nat /\ 0 + 1 = 1
      BY FirstIs
    <3>2. Upto(s, 1, Tickets(p)) = x /\ Upto(s, 1, Pushes(p)) = 1
      <4>1. \A D : Upto(s, 1, D) = Upto(s, 0, D) + One(s[1] \in D)
        BY <3>1, UptoStep
      <4>2. \A D : Upto(s, 0, D) = 0 /\ One(s[1] \in D) \in Nat
        BY <3>1, UptoNat DEF One
      <4>3. \A D : Upto(s, 1, D) = One(s[1] \in D)
        BY <4>1, <4>2
      <4> QED
        BY <1>1, <1>2, <4>3
    <3>3. PICK c : c = Upto(Tail(s), m, Syncs(p))
      OBVIOUS
    <3>4. c <= (t + b) + (w + x)
      BY <1>4, <1>9, <2>3, <3>3
    <3>5. c <= (t + (w + b)) + x
      <4>1. (t + b) + (w + x) = (t + (w + b)) + x
        OBVIOUS
      <4> QED
        BY <3>4, <4>1
    <3>6. Upto(s, m + 1, Syncs(p)) <= (t + (w + b)) + Upto(s, 1, Tickets(p)) /\ m + 1 \in 0 .. Len(s)
      BY <1>7, <3>2, <3>3, <3>5
    <3>7. 1 + g <= 1 + B
      BY <1>5, <2>1, <3>1, <3>2, <3>6 DEF Ahead
    <3> QED
      BY <2>1, <2>3, <3>7
  <2> QED
    BY <2>2, <2>3
<1>10. ASSUME busy, NEW m \in 0 .. Len(Tail(s)), Upto(Tail(s), m, Syncs(p)) <= t
       PROVE  ((L + 1) + 1) + Upto(Tail(s), m, Pushes(p)) <= B
  <2>1. PICK g \in Nat : g = Upto(Tail(s), m, Pushes(p)) /\ Upto(s, m + 1, Pushes(p)) = 1 + g
    BY <1>7
  <2>2. Upto(s, m + 1, Syncs(p)) <= t /\ m + 1 \in 0 .. Len(s)
    BY <1>7, <1>10
  <2>3. (L + 1) + (1 + g) <= B
    BY <1>3, <1>10, <2>1, <2>2 DEF Bounded, Working
  <2> QED
    BY <2>1, <2>3
<1>11. InQueue(Tail(s), R, t + b, p, B)
  BY <1>4, <1>9 DEF InQueue
<1>12. busy => Working(Tail(s), R, t, p, B)
  BY <1>4, <1>10 DEF Working
<1> QED
  BY <1>3, <1>4, <1>6, <1>11, <1>12, <1>13 DEF Bounded

(* A port starts the first task of its queue.                              *)
LEMMA BoundedStart ==
    ASSUME NEW B \in Nat, NEW s, NEW Q, IsSeq(Q), Q # <<>>, NEW t \in Nat, NEW p, NEW b,
           Bounded(s, Q, t, 0, b, p, B)
    PROVE  Bounded(s, Tail(Q), t, One(Q[1] \in Owing), TRUE, p, B)
<1>1. PICK x \in Nat : x = One(Q[1] \in Owing)
  BY DEF One
<1>2. PICK R : R = Tail(Q)
  OBVIOUS
<1>3. PICK n \in Nat : n = Len(Q) - 1
  <2>1. PICK L \in Nat \ {0} : L = Len(Q)
    BY LenIs
  <2> QED
    BY <2>1
<1>4. Len(R) = n /\ Len(Q) = n + 1
  <2>1. Len(Q) \in Nat \ {0} /\ Len(Tail(Q)) = Len(Q) - 1
    BY LenIs, TailIs
  <2> QED
    BY <1>2, <1>3, <2>1
<1>5. \A e \in 0 .. n : Upto(Q, e + 1, Owing) = x + Upto(R, e, Owing)
  BY <1>1, <1>2, <1>3, UptoTail
<1>6. \A e \in 0 .. n : Upto(R, e, Owing) \in Nat
  <2>1. \A e \in 0 .. n : e \in Nat
    OBVIOUS
  <2> QED
    BY <2>1, UptoNat
<1>7. Ahead(s, t + (Upto(R, n, Owing) + x), p, B)
  <2>1. n \in 0 .. n
    BY <1>3
  <2>2. PICK w \in Nat : w = Upto(R, n, Owing) /\ Upto(Q, n + 1, Owing) = x + w
    BY <1>5, <1>6, <2>1
  <2>3. t + ((x + w) + 0) = t + (w + x)
    OBVIOUS
  <2>4. Ahead(s, t + ((x + w) + 0), p, B)
    BY <1>4, <2>2 DEF Bounded
  <2> QED
    BY <2>2, <2>3, <2>4
<1>8. ASSUME NEW e \in 0 .. n, NEW m \in 0 .. Len(s),
             Upto(s, m, Syncs(p)) <= (t + x) + Upto(R, e, Owing)
      PROVE  (n - e) + Upto(s, m, Pushes(p)) <= B
  <2>1. e + 1 \in 0 .. Len(Q) /\ (n + 1) - (e + 1) = n - e
    BY <1>4
  <2>2. PICK w \in Nat : w = Upto(R, e, Owing) /\ Upto(Q, e + 1, Owing) = x + w
    BY <1>5, <1>6
  <2>3. (t + x) + w = (t + 0) + (x + w)
    OBVIOUS
  <2>4. Upto(s, m, Syncs(p)) <= (t + 0) + Upto(Q, e + 1, Owing)
    BY <1>8, <2>2, <2>3
  <2>5. (Len(Q) - (e + 1)) + Upto(s, m, Pushes(p)) <= B
    BY <2>1, <2>4 DEF Bounded, InQueue
  <2> QED
    BY <1>4, <2>1, <2>5
<1>9. ASSUME NEW m \in 0 .. Len(s), Upto(s, m, Syncs(p)) <= t
      PROVE  (n + 1) + Upto(s, m, Pushes(p)) <= B
  <2>1. 0 \in 0 .. Len(Q) /\ 0 \in Nat /\ (n + 1) - 0 = n + 1
    BY <1>4
  <2>2. Upto(Q, 0, Owing) = 0
    BY <2>1, UptoNat
  <2>3. (t + 0) + 0 = t
    OBVIOUS
  <2>4. Upto(s, m, Syncs(p)) <= (t + 0) + Upto(Q, 0, Owing)
    BY <1>9, <2>2, <2>3
  <2>5. (Len(Q) - 0) + Upto(s, m, Pushes(p)) <= B
    BY <2>1, <2>4 DEF Bounded, InQueue
  <2> QED
    BY <1>4, <2>1, <2>5
<1>10. InQueue(s, R, t + x, p, B)
  BY <1>4, <1>8 DEF InQueue
<1>11. Working(s, R, t, p, B)
  BY <1>4, <1>9 DEF Working
<1> QED
  BY <1>1, <1>2, <1>4, <1>7, <1>10, <1>11 DEF Bounded

(* A task ends and gives its token.                                        *)
LEMMA BoundedEnd ==
    ASSUME NEW B \in Nat, NEW s, NEW Q, IsSeq(Q), NEW t \in Nat, NEW b \in Nat, NEW p, NEW busy,
           Bounded(s, Q, t, b, busy, p, B)
    PROVE  Bounded(s, Q, t + b, 0, FALSE, p, B)
<1>1. PICK w \in Nat : w = Upto(Q, Len(Q), Owing)
  BY LenIs, UptoNat
<1>2. (t + b) + (w + 0) = t + (w + b) /\ (t + b) + 0 = t + b
  OBVIOUS
<1> QED
  BY <1>1, <1>2 DEF Bounded

(* A port with nothing to do, and what it will be asked for.               *)
LEMMA BoundedIdle ==
    ASSUME NEW B \in Nat, NEW s, NEW Q, Q = <<>>, NEW p, Ahead(s, 0, p, B), Len(s) \in Nat
    PROVE  Bounded(s, Q, 0, 0, FALSE, p, B)
<1>1. Len(Q) = 0 /\ 0 \in Nat /\ 0 \in 0 .. Len(s) /\ \A e \in 0 .. 0 : e = 0
  BY EmptyIs
<1>2. Upto(Q, 0, Owing) = 0 /\ Upto(s, 0, Tickets(p)) = 0 /\ Upto(s, 0, Pushes(p)) = 0
  BY <1>1, UptoNat
<1>3. Ahead(s, 0 + (Upto(Q, Len(Q), Owing) + 0), p, B)
  BY <1>1, <1>2
<1>4. ASSUME NEW m \in 0 .. Len(s), Upto(s, m, Syncs(p)) <= (0 + 0) + 0
      PROVE  (0 - 0) + Upto(s, m, Pushes(p)) <= B
  <2>1. Upto(s, m, Pushes(p)) \in Nat
    <3>1. m \in Nat
      OBVIOUS
    <3> QED
      BY <3>1, UptoNat
  <2>2. Upto(s, m, Syncs(p)) <= 0 + Upto(s, 0, Tickets(p))
    BY <1>2, <1>4
  <2>3. Upto(s, m, Pushes(p)) <= 0 + B
    BY <1>1, <1>2, <2>2 DEF Ahead
  <2> QED
    BY <2>1, <2>3
<1>5. InQueue(s, Q, 0 + 0, p, B)
  BY <1>1, <1>2, <1>4 DEF InQueue
<1> QED
  BY <1>3, <1>5 DEF Bounded

-----------------------------------------------------------------------------
\* The parts of the account of a port.
LEMMA AccountParts ==
    ASSUME TokenAccount, NEW p \in Port
    PROVE  /\ instrs \in Seq(Instr) /\ IsSeq(instrs) /\ Len(instrs) \in Nat
           /\ queue[p] \in Seq(QTask) /\ IsSeq(queue[p]) /\ Len(queue[p]) \in Nat
           /\ tokens[p] \in Nat /\ Gives(p) \in Nat
<1>1. DeviceTyped
  BY DEF TokenAccount
<1>2. instrs \in Seq(Instr) /\ Gives(p) \in Nat
  BY <1>1 DEF DeviceTyped, Gives, One
<1> QED
  BY <1>1, <1>2, OweNat, SeqIsSeq, LenIs

(* The controller's steps keep the bound: a write, ...                     *)
LEMMA WriteKeepsBound ==
    ASSUME TokenAccount, NEW p \in Port, NEW B \in Nat, AccountOf(p, B), ExecuteWriteBd
    PROVE  AccountOf(p, B)'
<1> SUFFICES Bounded(instrs', queue'[p], tokens'[p], Gives(p)', Busy(p)', p, B)
  BY DEF AccountOf
<1>1. PICK s, w : s = instrs /\ w = s[1]
  OBVIOUS
<1>2. /\ s # <<>> /\ s \in Seq(Instr) /\ instrs' = Tail(s) /\ w \in WriteRec
      /\ UNCHANGED <<queue, active, tokens>>
  BY <1>1, FirstIs DEF TokenAccount, DeviceTyped, ExecuteWriteBd, Issue
<1>3. w \notin Pushes(p) /\ One(w \in Syncs(p)) = 0
  BY <1>2, PushFacts, KindsDiffer DEF One
<1>4. PICK t, b \in Nat : t = tokens[p] /\ b = Gives(p)
  BY AccountParts
<1>5. Bounded(s, queue[p], t, b, Busy(p), p, B) /\ IsSeq(queue[p])
  BY <1>1, <1>4, AccountParts DEF AccountOf
<1>6. t = t - One(s[1] \in Syncs(p))
  BY <1>1, <1>3
<1>7. s[1] \notin Pushes(p)
  BY <1>1, <1>3
<1>8. Bounded(Tail(s), queue[p], t, b, Busy(p), p, B)
  BY ONLY <1>2, <1>5, <1>6, <1>7, BoundedTail, t \in Nat, b \in Nat
<1>9. Gives(p)' = b /\ Busy(p)' = Busy(p) /\ tokens'[p] = t /\ queue'[p] = queue[p]
  BY <1>2, <1>4 DEF Gives, Busy
<1> QED
  BY <1>2, <1>8, <1>9

(* ... a push, ...                                                         *)
LEMMA PushKeepsBound ==
    ASSUME TokenAccount, NEW p \in Port, NEW B \in Nat, AccountOf(p, B), ExecutePush
    PROVE  AccountOf(p, B)'
<1> SUFFICES Bounded(instrs', queue'[p], tokens'[p], Gives(p)', Busy(p)', p, B)
  BY DEF AccountOf
<1>1. PICK s, w, k : s = instrs /\ w = s[1] /\ k = [bd |-> w.bd, token |-> w.token]
  OBVIOUS
<1>2. /\ s # <<>> /\ s \in Seq(Instr) /\ instrs' = Tail(s) /\ w \in PushRec
      /\ UNCHANGED <<active, tokens>> /\ queue' = [queue EXCEPT ![w.port] = Append(@, k)]
  BY <1>1, FirstIs DEF TokenAccount, DeviceTyped, ExecutePush, Issue
<1>3. w.port \in Port /\ w.bd \in BdId /\ w.token \in BOOLEAN
  BY <1>2 DEF PushRec
<1>4. PICK t, b \in Nat : t = tokens[p] /\ b = Gives(p)
  BY AccountParts
<1>5. Bounded(s, queue[p], t, b, Busy(p), p, B) /\ IsSeq(queue[p])
  BY <1>1, <1>4, AccountParts DEF AccountOf
<1>6. Gives(p)' = b /\ Busy(p)' = Busy(p) /\ tokens'[p] = t
  BY <1>2, <1>4 DEF Gives, Busy
<1>7. CASE p = w.port
  <2>1. queue'[p] = Append(queue[p], k)
    BY <1>2, <1>3, <1>7 DEF TokenAccount, DeviceTyped
  <2>2. s[1] \in Pushes(p)
    BY <1>1, <1>2, <1>7 DEF Pushes
  <2>3. k \in Owing <=> s[1] \in Tickets(p)
    <3>1. k \in QTask /\ k.token = w.token
      BY <1>1, <1>3 DEF QTask
    <3>2. k \in Owing <=> w.token
      BY <3>1 DEF Owing
    <3>3. s[1] \in Tickets(p) <=> w.token
      BY <1>1, <1>2, <1>7 DEF Tickets
    <3> QED
      BY <3>2, <3>3
  <2>4. Bounded(Tail(s), Append(queue[p], k), t, b, Busy(p), p, B)
    BY ONLY <1>2, <1>5, <2>2, <2>3, BoundedPush, t \in Nat, b \in Nat
  <2> QED
    BY <1>2, <1>6, <2>1, <2>4
<1>8. CASE p # w.port
  <2>1. queue'[p] = queue[p]
    BY <1>2, <1>8 DEF TokenAccount, DeviceTyped
  <2>2. s[1] \notin Pushes(p)
    BY <1>1, <1>8 DEF Pushes
  <2>3. t = t - One(s[1] \in Syncs(p))
    BY <1>1, <1>2, KindsDiffer DEF One
  <2>4. Bounded(Tail(s), queue[p], t, b, Busy(p), p, B)
    BY ONLY <1>2, <1>5, <2>2, <2>3, BoundedTail, t \in Nat, b \in Nat
  <2> QED
    BY <1>2, <1>6, <2>1, <2>4
<1> QED
  BY <1>7, <1>8

(* ... and a sync.                                                         *)
LEMMA SyncKeepsBound ==
    ASSUME TokenAccount, NEW p \in Port, NEW B \in Nat, AccountOf(p, B), ExecuteSync
    PROVE  AccountOf(p, B)'
<1> SUFFICES Bounded(instrs', queue'[p], tokens'[p], Gives(p)', Busy(p)', p, B)
  BY DEF AccountOf
<1>1. PICK s, w, ports : /\ s = instrs /\ w = s[1]
        /\ ports = {<<w.port[1] + k, w.port[2], w.port[3]>> : k \in 0 .. w.colNum - 1}
  OBVIOUS
<1>2. s \in Seq(Instr) /\ s # <<>> /\ Head(s).kind = "sync" /\ instrs' = Tail(s)
      /\ UNCHANGED <<queue, active>>
  BY <1>1 DEF ExecuteSync, Issue, TokenAccount, DeviceTyped
<1>3. Head(s) = w /\ w \in SyncRec
  BY <1>1, <1>2, FirstIs
<1>4. /\ \A q \in ports : tokens[q] > 0
      /\ tokens' = [q \in Port |-> IF q \in ports THEN tokens[q] - 1 ELSE tokens[q]]
  <2>1. Head(instrs) = w
    BY <1>1, <1>3
  <2> QED
    BY <1>1, <2>1 DEF ExecuteSync
<1>5. PICK t, b \in Nat : t = tokens[p] /\ b = Gives(p)
  BY AccountParts
<1>6. Bounded(s, queue[p], t, b, Busy(p), p, B) /\ IsSeq(queue[p])
  BY <1>1, <1>5, AccountParts DEF AccountOf
<1>7. s[1] \notin Pushes(p) /\ (w \in Syncs(p) <=> p \in ports)
  BY <1>1, <1>3, PushFacts DEF Syncs, Covers
<1>8. PICK t1 : t1 = tokens'[p]
  OBVIOUS
<1>9. t1 \in Nat /\ t1 = t - One(s[1] \in Syncs(p))
  <2>1. CASE p \in ports
    <3>1. t1 = t - 1 /\ t > 0
      BY <1>4, <1>5, <1>8, <2>1
    <3> QED
      BY <1>1, <1>7, <2>1, <3>1 DEF One
  <2>2. CASE p \notin ports
    <3>1. t1 = t
      BY <1>4, <1>5, <1>8, <2>2
    <3> QED
      BY <1>1, <1>7, <2>2, <3>1 DEF One
  <2> QED
    BY <2>1, <2>2
<1>10. Bounded(Tail(s), queue[p], t1, b, Busy(p), p, B)
  BY ONLY <1>2, <1>6, <1>7, <1>9, BoundedTail, t \in Nat, b \in Nat
<1>11. Gives(p)' = b /\ Busy(p)' = Busy(p) /\ queue'[p] = queue[p]
  BY <1>2, <1>5 DEF Gives, Busy
<1> QED
  BY <1>2, <1>8, <1>10, <1>11

(* A port starts a task.                                                   *)
LEMMA StartKeepsBound ==
    ASSUME TokenAccount, TokenAccount', NEW p \in Port, NEW B \in Nat, AccountOf(p, B),
           NEW r \in Port, StartTask(r)
    PROVE  AccountOf(p, B)'
<1> SUFFICES Bounded(instrs', queue'[p], tokens'[p], Gives(p)', Busy(p)', p, B)
  BY DEF AccountOf
<1>1. PICK Q, k, a : /\ Q = queue[r] /\ k = Head(queue[r])
                     /\ a = [bd |-> k.bd, token |-> k.token, desc |-> bdTable[r[1]][k.bd]]
  OBVIOUS
<1>2. /\ active[r] = NoTask /\ Q # <<>> /\ instrs' = instrs /\ tokens' = tokens
      /\ active' = [active EXCEPT ![r] = a] /\ queue' = [queue EXCEPT ![r] = Tail(@)]
  BY <1>1 DEF StartTask
<1>3. DeviceTyped /\ DeviceTyped'
  BY DEF TokenAccount
<1>4. CASE p # r
  <2>1. queue'[p] = queue[p] /\ active'[p] = active[p]
    BY <1>2, <1>3, <1>4 DEF DeviceTyped
  <2>2. Gives(p)' = Gives(p) /\ Busy(p)' = Busy(p)
    BY <2>1 DEF Gives, Busy
  <2> QED
    BY <1>2, <2>1, <2>2 DEF AccountOf
<1>5. CASE p = r
  <2>1. queue'[p] = Tail(Q) /\ active'[p] = a
    BY <1>1, <1>2, <1>3, <1>5 DEF DeviceTyped
  <2>2. Q \in Seq(QTask) /\ IsSeq(Q)
    BY <1>1, AccountParts
  <2>3. k = Q[1] /\ k \in QTask
    <3>1. Len(Q) \in Nat \ {0} /\ k = Q[1]
      BY <1>1, <1>2, <2>2, TailIs, LenIs
    <3>2. 1 \in 1 .. Len(Q)
      BY <3>1
    <3> QED
      BY <2>2, <3>1, <3>2, LenProperties
  <2>4. a # NoTask
    <3>1. k.bd \in BdId /\ k.token \in BOOLEAN
      BY <2>3 DEF QTask
    <3>2. r[1] \in Tile
      <4>1. PICK c \in Connection : r = PortOn(c)
        BY DEF Port, PortOn
      <4> QED
        BY <4>1, PortIs DEF Tile
    <3>3. bdTable[r[1]][k.bd] \in Desc
      BY <1>3, <3>1, <3>2 DEF DeviceTyped
    <3>4. a \in Task
      BY <1>1, <3>1, <3>3 DEF Task, Desc
    <3> QED
      BY <3>4, NoTaskAssumption
  <2>5. PICK t \in Nat : t = tokens[p]
    BY AccountParts
  <2>6. Gives(p) = 0
    BY <1>2, <1>5 DEF Gives, One
  <2>7. Bounded(instrs, Q, t, 0, Busy(p), p, B)
    BY <1>1, <1>5, <2>5, <2>6 DEF AccountOf
  <2>8. Bounded(instrs, Tail(Q), t, One(Q[1] \in Owing), TRUE, p, B)
    BY ONLY <1>2, <2>2, <2>7, BoundedStart, t \in Nat
  <2>9. Gives(p)' = One(Q[1] \in Owing)
    <3>1. Q[1] \in Owing <=> k.token
      BY <2>3 DEF Owing
    <3>2. a.token = k.token
      BY <1>1
    <3>3. (active'[p] # NoTask /\ active'[p].token) <=> Q[1] \in Owing
      BY <2>1, <2>4, <3>1, <3>2
    <3> QED
      BY <3>3 DEF Gives, One
  <2>10. Busy(p)' = TRUE
    BY <2>1, <2>4 DEF Busy
  <2> QED
    BY <1>2, <2>1, <2>5, <2>8, <2>9, <2>10
<1> QED
  BY <1>4, <1>5

(* A port finishes a BD: it goes on, or ends the task.                     *)
LEMMA FinishKeepsBound ==
    ASSUME TokenAccount, TokenAccount', NEW p \in Port, NEW B \in Nat, AccountOf(p, B),
           NEW r \in Port, FinishBd(r)
    PROVE  AccountOf(p, B)'
<1> SUFFICES Bounded(instrs', queue'[p], tokens'[p], Gives(p)', Busy(p)', p, B)
  BY DEF AccountOf
<1>1. PICK a : a = active[r]
  OBVIOUS
<1>2. /\ a # NoTask /\ instrs' = instrs /\ queue' = queue
      /\ IF a.desc.next # NoBd
         THEN /\ active' = [active EXCEPT ![r] =
                   [a EXCEPT !.bd = a.desc.next, !.desc = bdTable[r[1]][a.desc.next]]]
              /\ tokens' = tokens
         ELSE /\ active' = [active EXCEPT ![r] = NoTask]
              /\ tokens' = [tokens EXCEPT ![r] = IF a.token THEN @ + 1 ELSE @]
  BY <1>1 DEF FinishBd
<1>3. DeviceTyped /\ DeviceTyped' /\ a \in Task
  BY <1>1, <1>2 DEF TokenAccount, DeviceTyped
<1>4. a.bd \in BdId /\ a.token \in BOOLEAN /\ a.desc \in Desc /\ a.desc.next \in BdId \cup {NoBd}
  BY <1>3 DEF Task, Desc
<1>5. PICK t, b \in Nat : t = tokens[p] /\ b = Gives(p)
  BY AccountParts
<1>6. Bounded(instrs, queue[p], t, b, Busy(p), p, B) /\ IsSeq(queue[p])
  BY <1>5, AccountParts DEF AccountOf
<1>7. CASE p # r
  <2>1. active'[p] = active[p] /\ tokens'[p] = tokens[p]
    BY <1>2, <1>3, <1>7 DEF DeviceTyped
  <2>2. Gives(p)' = b /\ Busy(p)' = Busy(p)
    BY <1>5, <2>1 DEF Gives, Busy
  <2> QED
    BY <1>2, <1>5, <1>6, <2>1, <2>2
<1>8. CASE p = r /\ a.desc.next # NoBd
  <2>1. PICK x, y, e : /\ x = a.desc.next /\ y = bdTable[r[1]][a.desc.next]
                       /\ e = [a EXCEPT !.bd = x, !.desc = y]
    OBVIOUS
  <2>2. active'[p] = e /\ tokens' = tokens
    BY <1>2, <1>3, <1>8, <2>1 DEF DeviceTyped
  <2>3. e.token = a.token /\ e # NoTask
    <3>1. r[1] \in Tile
      <4>1. PICK c \in Connection : r = PortOn(c)
        BY DEF Port, PortOn
      <4> QED
        BY <4>1, PortIs DEF Tile
    <3>2. x \in BdId
      BY <1>4, <1>8, <2>1
    <3>3. y \in Desc
      BY <1>3, <2>1, <3>1, <3>2 DEF DeviceTyped
    <3>4. a \in [bd : BdId, token : BOOLEAN, desc : Desc]
      BY <1>3 DEF Task, Desc
    <3>5. e \in [bd : BdId, token : BOOLEAN, desc : Desc] /\ e.token = a.token
      BY ONLY <2>1, <3>2, <3>3, <3>4
    <3>6. e \in Task
      BY <3>5 DEF Task, Desc
    <3> QED
      BY <3>5, <3>6, NoTaskAssumption
  <2>4. (active'[p] # NoTask /\ active'[p].token) <=> (active[p] # NoTask /\ active[p].token)
    BY <1>1, <1>2, <1>8, <2>2, <2>3
  <2>5. Gives(p)' = b
    BY <1>5, <2>4 DEF Gives, One
  <2>6. Busy(p)' = TRUE /\ Busy(p) = TRUE
    BY <1>1, <1>2, <1>8, <2>2, <2>3 DEF Busy
  <2> QED
    BY <1>2, <1>5, <1>6, <2>2, <2>5, <2>6
<1>9. CASE p = r /\ a.desc.next = NoBd
  <2>1. /\ active'[p] = NoTask
        /\ tokens'[p] = IF a.token THEN tokens[p] + 1 ELSE tokens[p]
    BY <1>2, <1>3, <1>9 DEF DeviceTyped
  <2>2. b = IF a.token THEN 1 ELSE 0
    BY <1>1, <1>2, <1>5, <1>9 DEF Gives, One
  <2>3. tokens'[p] = t + b
    BY <1>4, <1>5, <2>1, <2>2
  <2>4. Bounded(instrs, queue[p], t + b, 0, FALSE, p, B)
    BY <1>6, BoundedEnd
  <2>5. Gives(p)' = 0 /\ Busy(p)' = FALSE
    BY <2>1 DEF Gives, Busy, One
  <2> QED
    BY <1>2, <2>3, <2>4, <2>5
<1> QED
  BY <1>7, <1>8, <1>9

(* The compiled code keeps to the limit of the port's connection.          *)
LEMMA LoweringKeepsBound ==
    ASSUME OneConnectionPerPort, PassInv, SpacingInv, TokenAccount, ControlCodeLowering,
           NEW r \in Connection, NEW p \in Port, p = PortOn(r),
           NEW B \in Nat, B = LimitFor(code, NumDmas, r)
    PROVE  AccountOf(p, B)'
<1> SUFFICES Bounded(instrs', queue'[p], tokens'[p], Gives(p)', Busy(p)', p, B)
  BY DEF AccountOf
<1>1. PICK n, x : n = NumDmas /\ x = FlattenSeq([k \in DOMAIN code |-> Lower(code[k])])
  OBVIOUS
<1>2. Compiled(code, n)
  BY <1>1 DEF PassInv, PassOK, Compiled, DmasReady
<1>3. /\ instrs' = x /\ stage = "lower" /\ UNCHANGED <<queue, active, tokens>>
  BY <1>1 DEF ControlCodeLowering, deviceVars
<1>4. DeviceIdle
  BY <1>3 DEF TokenAccount
<1>5. "lower" \notin {"chain", "queue"}
  OBVIOUS
<1>6. Gaps(dmaOps, n, Pushed(dmaOps, n), Tokened(dmaOps, n)) /\ Spaced(code, dmaOps, n)
  BY <1>1, <1>3, <1>5 DEF SpacingInv, SpacingOK
<1>7. B = LimitFor(code, n, r)
  BY <1>1
<1>8. Ahead(x, 0, p, B)
  <2>1. Ahead(x, 0, p, LimitFor(code, n, r))
    BY <1>1, <1>2, <1>6, LoweredAhead
  <2> QED
    BY <1>7, <2>1
<1>9. Len(x) \in Nat
  <2>1. p \in Coord
    BY PortsAre
  <2>2. \E a \in Nat : Lowered(x, p, a, a)
    BY <1>1, <1>2, <2>1, LoweringBalances
  <2> QED
    BY <2>2, SeqIsSeq, LenIs DEF Lowered
<1>10. queue'[p] = <<>> /\ tokens'[p] = 0 /\ active'[p] = NoTask
  BY <1>3, <1>4 DEF DeviceIdle
<1>11. Gives(p)' = 0 /\ Busy(p)' = FALSE
  BY <1>10 DEF Gives, Busy, One
<1>12. Bounded(x, queue'[p], 0, 0, FALSE, p, B)
  BY <1>8, <1>9, <1>10, BoundedIdle
<1> QED
  BY <1>3, <1>10, <1>11, <1>12

(* While the code runs each port keeps to the limit of its connection.     *)
BoundAccount ==
    stage = "run" =>
        \A r \in Connection : AccountOf(PortOn(r), LimitFor(code, NumDmas, r))

\* The run starts with the lowering, and leaves the code alone.
LEMMA RunStages ==
    ASSUME [Next]_vars, stage' = "run"
    PROVE  /\ UNCHANGED <<code, dmaOps, source>>
           /\ ControlCodeLowering \/ (stage = "run" /\ (Run \/ UNCHANGED <<instrs, deviceVars>>))
<1>1. /\ "chain" # "run" /\ "queue" # "run" /\ "batch" # "run" /\ "lower" # "run"
  OBVIOUS
<1>2. ~ChainNext
  BY <1>1 DEF ChainNext, VisitDma, VisitRepeatDma, VisitBarrier, VisitOther, FinishChains
<1>3. ~SkipFold /\ ~FoldNext
  BY <1>1 DEF SkipFold, FoldNext, VisitWaitByQueue, VisitBarrierByQueue, FinishQueues,
              VisitWaitByBatch, VisitBarrierByBatch, FinishBatches, VisitDmaByFold
<1>4. CASE Compile
  <2>1. ControlCodeLowering /\ source' = source
    BY <1>2, <1>3, <1>4 DEF Compile
  <2> QED
    BY <2>1 DEF ControlCodeLowering
<1>5. CASE Run
  <2>1. stage = "run" /\ UNCHANGED codeVars
    BY <1>5 DEF Run, Controller, DmaPort, ExecuteWriteBd, ExecutePush, ExecuteSync, Issue,
                StartTask, FinishBd
  <2> QED
    BY <1>5, <2>1 DEF codeVars, Run
<1>6. CASE UNCHANGED vars
  BY <1>6 DEF vars, codeVars, shimVars, deviceVars
<1> QED
  BY <1>4, <1>5, <1>6 DEF Next

LEMMA LimitIs ==
    ASSUME NEW c, NEW n, NEW r
    PROVE  LimitFor(c, n, r) \in Nat /\ LimitFor(c, n, r) <= Bound
  BY QueueAssumption DEF LimitFor, Bound

LEMMA StepKeepsBound ==
    ASSUME OneConnectionPerPort, PassInv, SpacingInv, TokenAccount, TokenAccount',
           BoundAccount, [Next]_vars
    PROVE  BoundAccount'
<1> SUFFICES ASSUME stage' = "run", NEW r \in Connection
             PROVE  AccountOf(PortOn(r), LimitFor(code, NumDmas, r))'
  BY DEF BoundAccount
<1>1. PICK p \in Port : p = PortOn(r)
  BY DEF Port, PortOn
<1>2. PICK B \in Nat : B = LimitFor(code, NumDmas, r)
  BY LimitIs
<1>3. UNCHANGED <<code, dmaOps, source>>
  BY RunStages
<1>4. LimitFor(code, NumDmas, r)' = B
  <2>1. NumDmas' = NumDmas
    BY <1>3 DEF NumDmas
  <2>2. InTurn(code, NumDmas, r)' <=> InTurn(code, NumDmas, r)
    BY <1>3, <2>1 DEF InTurn, AtWait, AtDma
  <2> QED
    BY <1>2, <2>2 DEF LimitFor, Bound
<1>5. AccountOf(p, B)'
  <2>1. CASE ControlCodeLowering
    BY <1>1, <1>2, <2>1, LoweringKeepsBound
  <2>2. ASSUME stage = "run" PROVE AccountOf(p, B)
    BY <1>1, <1>2, <2>2 DEF BoundAccount
  <2>3. CASE stage = "run" /\ UNCHANGED <<instrs, deviceVars>>
    BY <2>2, <2>3 DEF AccountOf, Gives, Busy, deviceVars
  <2>4. CASE stage = "run" /\ Run
    BY <2>2, <2>4, WriteKeepsBound, PushKeepsBound, SyncKeepsBound, StartKeepsBound,
       FinishKeepsBound DEF Run, Controller, DmaPort
  <2> QED
    BY <2>1, <2>3, <2>4, RunStages
<1> QED
  BY <1>1, <1>4, <1>5 DEF AccountOf

\* What the account says of a port now.
LEMMA WithinLimit ==
    ASSUME TokenAccount, BoundAccount, NEW r \in Connection
    PROVE  Outstanding(PortOn(r)) <= LimitFor(code, NumDmas, r)
<1>1. PICK p \in Port : p = PortOn(r)
  BY DEF Port, PortOn
<1>2. PICK B \in Nat : B = LimitFor(code, NumDmas, r)
  BY LimitIs
<1> SUFFICES Outstanding(p) <= B
  BY <1>1, <1>2
<1>3. CASE stage # "run"
  <2>1. queue[p] = <<>> /\ active[p] = NoTask
    BY <1>3 DEF TokenAccount, DeviceIdle
  <2> QED
    BY <2>1, EmptyIs DEF Outstanding
<1>4. CASE stage = "run"
  <2>1. PICK L, t, b \in Nat : L = Len(queue[p]) /\ t = tokens[p] /\ b = Gives(p)
    BY AccountParts
  <2>2. Bounded(instrs, queue[p], t, b, Busy(p), p, B)
    BY <1>1, <1>2, <1>4, <2>1 DEF BoundAccount, AccountOf
  <2>3. 0 \in 0 .. Len(instrs) /\ 0 \in 0 .. L /\ 0 \in Nat
    BY AccountParts
  <2>4. Upto(instrs, 0, Syncs(p)) = 0 /\ Upto(instrs, 0, Pushes(p)) = 0 /\ Upto(queue[p], 0, Owing) = 0
    BY <2>3, UptoNat
  <2>5. CASE active[p] = NoTask
    <3>1. 0 <= (t + b) + 0
      OBVIOUS
    <3>2. (L - 0) + 0 <= B
      BY <2>1, <2>2, <2>3, <2>4, <3>1 DEF Bounded, InQueue
    <3> QED
      BY <2>1, <2>5, <3>2 DEF Outstanding
  <2>6. CASE active[p] # NoTask
    <3>1. (L + 1) + 0 <= B
      BY <2>1, <2>2, <2>3, <2>4, <2>6 DEF Bounded, Working, Busy
    <3> QED
      BY <2>1, <2>6, <3>1 DEF Outstanding
  <2> QED
    BY <2>5, <2>6
<1> QED
  BY <1>3, <1>4

\* A connection whose waits are not delayed is one whose waits come in turn.
LEMMA NotDelayed ==
    ASSUME PassInv, NEW r \in Connection, ~WaitDelayed(r)
    PROVE  InTurn(code, NumDmas, r)
<1>1. PICK n : n = NumDmas
  OBVIOUS
<1>2. Len(code) \in Nat /\ DOMAIN code = 1 .. Len(code)
  <2>1. IsSeq(code)
    BY DEF PassInv, PassOK, CodeOK, IsCode
  <2> QED
    BY <2>1, LenIs
<1> SUFFICES ASSUME NEW i \in 1 .. n, NEW j \in 1 .. n,
                    NEW k \in 1 .. Len(code), NEW l \in 1 .. Len(code),
                    AtWait(code, k, i), AtDma(code, l, j), i < j,
                    dmaOps[i].conn = r, dmaOps[j].conn = r
             PROVE  k < l
  BY <1>1 DEF InTurn
<1>3. /\ code[k].kind = "wait" /\ i \in code[k].ops
      /\ code[l].kind = "dma" /\ j \in code[l].ops
  BY OpFacts DEF AtWait, AtDma
<1>4. ~(l < k)
  BY <1>2, <1>3 DEF WaitDelayed, ConnOf
<1>5. k # l
  BY <1>3
<1> QED
  BY <1>2, <1>4, <1>5

\* The account is kept.
LEMMA BoundInvariant ==
    ASSUME PromptPrograms, OneConnectionPerPort
    PROVE  Spec => [](PassInv /\ TokenAccount /\ BoundAccount)
<1>1. Init => BoundAccount
  BY DEF Init, FirstStage, BoundAccount
<1>2. ASSUME PassInv, SpacingInv, TokenAccount, TokenAccount', BoundAccount, [Next]_vars
      PROVE  BoundAccount'
  BY <1>2, StepKeepsBound
<1> QED
  BY <1>1, <1>2, PassInvariant, SpacingInvariant, TokenAccountInvariant, PTL DEF Spec

(* With waits right behind their DMAs and a port for every connection, the *)
(* passes keep a wait for every full queue: no more than that is queued    *)
(* and carried out at the port of a connection, unless one of its waits    *)
(* was merged behind its later pushes.                                     *)
THEOREM QueuesAreKept ==
    ASSUME PromptPrograms, OneConnectionPerPort PROVE Spec => []QueuesFit
<1>1. PassInv /\ TokenAccount /\ BoundAccount => QueuesFit
  <2> SUFFICES ASSUME PassInv, TokenAccount, BoundAccount, NEW r \in Connection, ~WaitDelayed(r)
               PROVE  Outstanding(PortOn(r)) <= MaxQueueSize
    BY DEF QueuesFit
  <2>1. LimitFor(code, NumDmas, r) = MaxQueueSize
    BY NotDelayed DEF LimitFor
  <2>2. Outstanding(PortOn(r)) <= LimitFor(code, NumDmas, r)
    BY WithinLimit
  <2> QED
    BY <2>1, <2>2
<1> QED
  BY <1>1, BoundInvariant, PTL

(* Merged waits are not delayed past the next wait of their connection:    *)
(* what is outstanding at its port then stays below two full queues.       *)
THEOREM TasksAreBounded ==
    ASSUME PromptPrograms, OneConnectionPerPort PROVE Spec => []OutstandingBound
<1>1. TokenAccount /\ BoundAccount => OutstandingBound
  <2> SUFFICES ASSUME TokenAccount, BoundAccount, NEW p \in Port
               PROVE  Outstanding(p) <= Bound
    BY DEF OutstandingBound, Bound
  <2>1. PICK r \in Connection : p = PortOn(r)
    BY DEF Port, PortOn
  <2>2. Outstanding(PortOn(r)) <= LimitFor(code, NumDmas, r)
    BY WithinLimit
  <2>3. PICK L : L = LimitFor(code, NumDmas, r)
    OBVIOUS
  <2>4. L \in Nat /\ L <= Bound
    BY <2>3, LimitIs
  <2>5. Outstanding(p) \in Nat
    <3>1. PICK x \in Nat : x = Len(queue[p])
      BY AccountParts
    <3>2. Outstanding(p) = x + (IF active[p] = NoTask THEN 0 ELSE 1)
      BY <3>1 DEF Outstanding
    <3> QED
      BY <3>2
  <2>6. Bound \in Nat
    BY QueueAssumption DEF Bound
  <2>7. Outstanding(p) <= L
    BY <2>1, <2>2, <2>3
  <2> QED
    BY <2>4, <2>5, <2>6, <2>7
<1> QED
  BY <1>1, BoundInvariant, PTL

=============================================================================

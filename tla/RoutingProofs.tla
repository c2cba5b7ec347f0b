---------------------------- MODULE RoutingProofs ----------------------------
(* What a switch is configured for, whatever the flows, their routes, the    *)
(* ports of a tile and the limits of the device: a master port listens to    *)
(* one arbiter, and with the option detectArbiterDeadlock no two packets     *)
(* share a part of their master ports only.                                  *)
(* The search for a component ends within as many steps as there are slots,  *)
(* for the components it grows through are ever larger; it has then found a  *)
(* set of slots closed under sharing a master port, and merging such sets    *)
(* keeps them closed.  So slots that share a master port have one arbiter.   *)
(* A rule of a slave port has the amsel of a slot whose earlier destinations *)
(* are those of every id it lists, so their components are the same one.     *)
(* An arbiter without a second msel has one set of master ports, which all   *)
(* its slots go to.                                                          *)
(* Recursive definitions are functions here, and what holds of them step by  *)
(* step is shown up to their last step by a smallest counterexample (UpToN). *)
EXTENDS PacketRouting, FiniteSetTheorems, SequenceTheorems, WellFoundedInduction, TLAPS

-------------------------------------------------------------------------------
(* A set of numbers that is not empty has a smallest one.                    *)
LEMMA Smallest ==
    ASSUME NEW S \in SUBSET Nat, S # {}
    PROVE  \E n \in S : \A m \in S : ~(m < n)
<1> DEFINE R == OpToRel(<, Nat)
<1>1. \E n \in S : \A m \in S : <<m, n>> \notin R
  <2>1. IsWellFoundedOn(R, Nat)
    BY NatLessThanWellFounded
  <2> HIDE DEF R
  <2> QED
    BY <2>1, WFMin
<1>2. \A m, n \in S : m < n => <<m, n>> \in R
  BY DEF OpToRel
<1> QED
  BY <1>1, <1>2

(* The minimum of such a set is in it and below all others.                  *)
LEMMA SmallestMin ==
    ASSUME NEW S \in SUBSET Nat, S # {}
    PROVE  Min(S) \in S /\ \A m \in S : Min(S) <= m
<1>1. PICK n \in S : \A m \in S : ~(m < n)
  BY Smallest
<1>2. \A m \in S : n <= m
  BY <1>1
<1> QED
  BY <1>2 DEF Min

(* What holds at 0 and from each number to the next holds up to N.           *)
LEMMA UpToN ==
    ASSUME NEW N \in Nat, NEW T, 0 \in T, \A n \in 1 .. N : n - 1 \in T => n \in T
    PROVE  0 .. N \subseteq T
<1> DEFINE Bad == {n \in 0 .. N : n \notin T}
<1>1. SUFFICES ASSUME Bad # {} PROVE FALSE
  OBVIOUS
<1>2. Bad \in SUBSET Nat
  OBVIOUS
<1>3. PICK n \in Bad : \A m \in Bad : ~(m < n)
  <2> HIDE DEF Bad
  <2> QED
    BY <1>1, <1>2, Smallest
<1>4. n \in 1 .. N /\ n - 1 \in 0 .. N /\ n - 1 < n
  BY <1>3
<1>5. n - 1 \in T
  BY <1>3, <1>4
<1> QED
  BY <1>3, <1>4, <1>5

(* A recursive function over 0 .. N exists: H makes its next value.          *)
Steps(f, b, H, N) == f[0] = b /\ \A n \in 1 .. N : f[n] = H[<<n, f[n - 1]>>]

(* A recursive function whose values stay in a set does exist.               *)
LEMMA StepsExist ==
    ASSUME NEW N \in Nat, NEW St, NEW b \in St, NEW H \in [(1 .. N) \X St -> St]
    PROVE  \E f \in [0 .. N -> St] : Steps(f, b, H, N)
<1> DEFINE T == {n \in 0 .. N : \E f \in [0 .. n -> St] : Steps(f, b, H, n)}
<1>1. 0 \in T
  <2> DEFINE f == [k \in 0 .. 0 |-> b]
  <2>1. f \in [0 .. 0 -> St] /\ Steps(f, b, H, 0)
    BY DEF Steps
  <2> QED
    BY <2>1
<1>2. ASSUME NEW n \in 1 .. N, n - 1 \in T PROVE n \in T
  <2>1. PICK f \in [0 .. n - 1 -> St] : Steps(f, b, H, n - 1)
    BY <1>2
  <2> DEFINE g == [k \in 0 .. n |-> IF k = n THEN H[<<n, f[n - 1]>>] ELSE f[k]]
  <2>2. n - 1 \in 0 .. n - 1 /\ 0 \in 0 .. n - 1 /\ n \in 0 .. N /\ 0 # n /\ 0 \in 0 .. n
    BY <1>2
  <2>3. H[<<n, f[n - 1]>>] \in St
    BY <2>1, <2>2
  <2>4. g \in [0 .. n -> St]
    <3>1. \A k \in 0 .. n : k # n => k \in 0 .. n - 1
      OBVIOUS
    <3> QED
      BY <2>1, <2>3, <3>1
  <2>5. g[0] = b
    BY <2>1, <2>2 DEF Steps
  <2>6. ASSUME NEW k \in 1 .. n PROVE g[k] = H[<<k, g[k - 1]>>]
    <3>1. k \in 0 .. n /\ k - 1 \in 0 .. n /\ k - 1 # n
      OBVIOUS
    <3>2. g[k - 1] = f[k - 1]
      BY <3>1
    <3>3. CASE k = n
      BY <3>1, <3>2, <3>3
    <3>4. CASE k # n
      <4>1. k \in 1 .. n - 1
        BY <3>4
      <4>2. f[k] = H[<<k, f[k - 1]>>]
        BY <2>1, <4>1 DEF Steps
      <4>3. g[k] = f[k]
        BY <3>1, <3>4
      <4> HIDE DEF g
      <4> QED
        BY <3>2, <4>2, <4>3
    <3> QED
      BY <3>3, <3>4
  <2> HIDE DEF g
  <2>7. Steps(g, b, H, n)
    BY <2>5, <2>6 DEF Steps
  <2> QED
    BY <2>2, <2>4, <2>7
<1>3. N \in T
  <2> HIDE DEF T
  <2>1. 0 .. N \subseteq T
    BY <1>1, <1>2, UpToN
  <2> QED
    BY <2>1
<1> QED
  BY <1>3

-------------------------------------------------------------------------------
(* A set of slots is closed if it has, with a slot in use, all slots that    *)
(* share a master port with it.                                              *)
Closed(g, dests) ==
    \A s, r \in DOMAIN dests : Overlap(dests[s], dests[r]) => (s \in g <=> r \in g)

(* Overlapping sets overlap either way, and themselves.                      *)
LEMMA OverlapSymmetric ==
    ASSUME NEW c, NEW d, Overlap(c, d)
    PROVE  Overlap(d, c) /\ Overlap(c, c)
  BY DEF Overlap

(* A step of the search that finds nothing new has found a closed set.       *)
LEMMA SearchEnds ==
    ASSUME NEW dests, NEW g \in SUBSET DOMAIN dests, SharesMaster(g, dests) = g
    PROVE  Closed(g, dests)
<1> SUFFICES ASSUME NEW s \in DOMAIN dests, NEW r \in DOMAIN dests,
                    Overlap(dests[s], dests[r]), s \in g
             PROVE  r \in g
  BY OverlapSymmetric DEF Closed
<1>1. Overlap(dests[r], dests[s])
  BY OverlapSymmetric
<1> QED
  BY <1>1 DEF SharesMaster

(* A step from a closed set stays closed: only slots without a master port   *)
(* can be lost.                                                              *)
LEMMA SearchKeepsClosed ==
    ASSUME NEW dests, NEW g \in SUBSET DOMAIN dests, Closed(g, dests)
    PROVE  Closed(SharesMaster(g, dests), dests)
<1> SUFFICES ASSUME NEW s \in DOMAIN dests, NEW r \in DOMAIN dests,
                    Overlap(dests[s], dests[r]), s \in SharesMaster(g, dests)
             PROVE  r \in SharesMaster(g, dests)
  BY OverlapSymmetric DEF Closed
<1>1. PICK k \in g : Overlap(dests[s], dests[k])
  BY DEF SharesMaster
<1>2. s \in g
  BY <1>1 DEF Closed
<1>3. Overlap(dests[r], dests[s])
  BY OverlapSymmetric
<1> QED
  BY <1>2, <1>3 DEF SharesMaster

IsSearch(f, slot, dests, N) ==
    f = [n \in 0 .. N |-> IF n = 0 THEN {slot} ELSE SharesMaster(f[n - 1], dests)]

(* The search of a component is a function of the number of steps.           *)
LEMMA SearchExists ==
    ASSUME NEW slot, NEW dests, NEW N \in Nat
    PROVE  \E f : IsSearch(f, slot, dests, N)
<1> DEFINE St == SUBSET ({slot} \cup DOMAIN dests)
           H == [x \in (1 .. N) \X St |-> SharesMaster(x[2], dests)]
<1>1. H \in [(1 .. N) \X St -> St] /\ {slot} \in St
  BY DEF SharesMaster
<1>2. PICK f \in [0 .. N -> St] : Steps(f, {slot}, H, N)
  <2> HIDE DEF St, H
  <2> QED
    BY <1>1, StepsExist
<1>3. ASSUME NEW n \in 1 .. N PROVE f[n] = SharesMaster(f[n - 1], dests)
  <2>1. n - 1 \in 0 .. N
    OBVIOUS
  <2>2. f[n - 1] \in St
    BY <1>2, <2>1
  <2> QED
    BY <1>2, <2>2 DEF Steps
<1>4. f[0] = {slot}
  BY <1>2 DEF Steps
<1>5. f = [n \in 0 .. N |-> IF n = 0 THEN {slot} ELSE SharesMaster(f[n - 1], dests)]
  <2>1. f = [n \in 0 .. N |-> f[n]]
    BY <1>2
  <2>2. \A n \in 0 .. N : f[n] = IF n = 0 THEN {slot} ELSE SharesMaster(f[n - 1], dests)
    BY <1>3, <1>4
  <2> QED
    BY <2>1, <2>2
<1> QED
  BY <1>5 DEF IsSearch

(* solve()'s search for the slots that are to share an arbiter: it ends      *)
(* with as many steps as there are slots, and has found a closed set.        *)
LEMMA ComponentClosed ==
    ASSUME NEW slot, NEW dests, IsFiniteSet(DOMAIN dests)
    PROVE  /\ Closed(Component(slot, dests), dests)
           /\ Component(slot, dests) \subseteq {slot} \cup DOMAIN dests
           /\ slot \in DOMAIN dests /\ dests[slot] # {} => slot \in Component(slot, dests)
<1> DEFINE D == DOMAIN dests
           N == Cardinality(D)
<1>1. N \in Nat
  BY FS_CardinalityType
<1>2. PICK f : IsSearch(f, slot, dests, N) /\ Component(slot, dests) = f[N]
  <2> DEFINE c == CHOOSE f : IsSearch(f, slot, dests, N)
  <2>1. IsSearch(c, slot, dests, N)
    BY <1>1, SearchExists
  <2>2. Component(slot, dests) = c[N]
    BY DEF Component, IsSearch
  <2> QED
    BY <2>1, <2>2
<1> HIDE DEF D, N
<1>3. f[0] = {slot} /\ \A n \in 1 .. N : f[n] = SharesMaster(f[n - 1], dests)
  <2>1. 0 \in 0 .. N /\ \A n \in 1 .. N : n \in 0 .. N /\ n # 0
    BY <1>1
  <2>2. \A n \in 0 .. N : f[n] = IF n = 0 THEN {slot} ELSE SharesMaster(f[n - 1], dests)
    BY <1>2 DEF IsSearch
  <2> QED
    BY <2>1, <2>2
<1>4. \A n \in 1 .. N : f[n] \subseteq D
  BY <1>3 DEF SharesMaster, D
<1> DEFINE Enough(n) == (f[n] \subseteq D /\ Closed(f[n], dests))
                        \/ (IsFiniteSet(f[n]) /\ Cardinality(f[n]) >= n)
           T == {n \in 0 .. N : Enough(n)}
<1>5. 0 \in T
  <2>1. IsFiniteSet(f[0]) /\ Cardinality(f[0]) = 1
    BY <1>3, FS_Singleton
  <2> QED
    BY <1>1, <2>1
<1>6. ASSUME NEW n \in 1 .. N, n - 1 \in T PROVE n \in T
  <2>1. f[n] = SharesMaster(f[n - 1], dests) /\ f[n] \subseteq D
    BY <1>3, <1>4
  <2>2. CASE f[n - 1] \subseteq D /\ Closed(f[n - 1], dests)
    BY <1>1, <2>1, <2>2, SearchKeepsClosed DEF D
  <2>3. CASE n = 1
    <3>1. CASE f[n] = {}
      BY <2>1, <3>1 DEF Closed
    <3>2. CASE f[n] # {}
      <4>1. IsFiniteSet(f[n]) /\ Cardinality(f[n]) \in Nat /\ Cardinality(f[n]) # 0
        BY <2>1, <3>2, FS_Subset, FS_CardinalityType, FS_EmptySet DEF D
      <4> QED
        BY <4>1, <2>3
    <3> QED
      BY <3>1, <3>2
  <2>4. CASE n # 1 /\ IsFiniteSet(f[n - 1]) /\ Cardinality(f[n - 1]) >= n - 1
    <3>1. n - 1 \in 1 .. N
      BY <1>1, <2>4
    <3>2. f[n - 1] = SharesMaster(f[n - 2], dests) /\ f[n - 1] \subseteq D
      <4>1. (n - 1) - 1 = n - 2
        OBVIOUS
      <4> QED
        BY <1>3, <1>4, <3>1, <4>1
    <3>3. f[n - 1] \subseteq f[n]
      BY <2>1, <3>2, OverlapSymmetric DEF SharesMaster
    <3>4. IsFiniteSet(f[n]) /\ Cardinality(f[n]) \in Nat
      BY <2>1, FS_Subset, FS_CardinalityType DEF D
    <3>5. CASE f[n - 1] = f[n]
      BY <2>1, <3>2, <3>5, SearchEnds DEF D
    <3>6. CASE f[n - 1] # f[n]
      <4>1. Cardinality(f[n - 1]) \in Nat /\ Cardinality(f[n - 1]) < Cardinality(f[n])
        <5>1. f[n - 1] \in SUBSET f[n]
          BY <3>3
        <5>2. /\ Cardinality(f[n - 1]) <= Cardinality(f[n])
              /\ Cardinality(f[n]) = Cardinality(f[n - 1]) => f[n] = f[n - 1]
          BY <3>4, <5>1, FS_Subset
        <5>3. Cardinality(f[n - 1]) \in Nat
          BY <2>4, FS_CardinalityType
        <5> QED
          BY <3>4, <3>6, <5>2, <5>3
      <4> QED
        BY <2>4, <3>4, <4>1
    <3> QED
      BY <3>5, <3>6
  <2> QED
    BY <1>6, <2>2, <2>3, <2>4
<1>7. N \in T
  <2> HIDE DEF T
  <2> QED
    BY <1>1, <1>5, <1>6, UpToN
<1>8. f[N] \subseteq {slot} \cup D
  <2>1. N = 0 \/ N \in 1 .. N
    BY <1>1
  <2> QED
    BY <1>3, <1>4, <2>1
<1>9. Closed(f[N], dests)
  <2>1. CASE N = 0
    <3>1. D = {}
      BY <2>1, FS_EmptySet DEF D, N
    <3> QED
      BY <3>1 DEF Closed, D
  <2>2. CASE N # 0 /\ IsFiniteSet(f[N]) /\ Cardinality(f[N]) >= N
    <3>1. f[N] \in SUBSET D
      BY <1>1, <1>4, <2>2
    <3>2. Cardinality(f[N]) <= N /\ (N = Cardinality(f[N]) => D = f[N])
      BY <3>1, FS_Subset DEF D, N
    <3>3. Cardinality(f[N]) \in Nat
      BY <2>2, FS_CardinalityType
    <3>4. D = f[N]
      BY <1>1, <2>2, <3>2, <3>3
    <3> QED
      BY <3>4 DEF Closed, D
  <2> QED
    BY <1>7, <2>1, <2>2
<1>10. ASSUME slot \in DOMAIN dests, dests[slot] # {} PROVE slot \in f[N]
  <2> DEFINE U == {n \in 0 .. N : slot \in f[n]}
  <2>1. 0 \in U
    BY <1>1, <1>3
  <2>2. ASSUME NEW n \in 1 .. N, n - 1 \in U PROVE n \in U
    <3>1. Overlap(dests[slot], dests[slot])
      BY <1>10 DEF Overlap
    <3> QED
      BY <1>3, <1>10, <2>2, <3>1 DEF SharesMaster
  <2> HIDE DEF U
  <2>3. 0 .. N \subseteq U
    BY <1>1, <2>1, <2>2, UpToN
  <2> QED
    BY <1>1, <2>3 DEF U
<1> QED
  BY <1>2, <1>8, <1>9, <1>10 DEF D

-------------------------------------------------------------------------------
ClosedSets(X, dests) == {g \in SUBSET X : Closed(g, dests)}

(* Merging two closed sets of slots gives a closed set.                      *)
LEMMA ClosedUnion ==
    ASSUME NEW X, NEW dests, NEW g \in ClosedSets(X, dests), NEW h \in ClosedSets(X, dests)
    PROVE  g \cup h \in ClosedSets(X, dests)
  BY DEF ClosedSets, Closed

(* The steps of PortGroups: all sets of slots that it makes are closed.      *)
IsGrouping(f, sorted, dests) ==
    f = [n \in 0 .. Len(sorted) |->
           IF n = 0 THEN <<>> ELSE AddComponent(f[n - 1], sorted[n], dests)]

(* PortGroups, step by step: the sets are closed all along.                  *)
GroupingSteps(g, X, sorted, dests) ==
    /\ g[0] = <<>> /\ PortGroups(sorted, dests) = g[Len(sorted)]
    /\ \A n \in 0 .. Len(sorted) : g[n] \in Seq(ClosedSets(X, dests))
    /\ \A n \in 1 .. Len(sorted) : g[n] = AddComponent(g[n - 1], sorted[n], dests)

LEMMA PortGroupsSteps ==
    ASSUME NEW X, NEW dests, IsFiniteSet(DOMAIN dests), DOMAIN dests \subseteq X,
           NEW sorted \in Seq(X)
    PROVE  \E g : GroupingSteps(g, X, sorted, dests)
<1> DEFINE N == Len(sorted)
           St == Seq(ClosedSets(X, dests))
           H == [x \in (1 .. N) \X St |-> AddComponent(x[2], sorted[x[1]], dests)]
<1>1. N \in Nat /\ \A n \in 1 .. N : sorted[n] \in X
  BY LenProperties
<1>2. ASSUME NEW gs \in St, NEW slot \in X PROVE AddComponent(gs, slot, dests) \in St
  <2>1. Component(slot, dests) \in ClosedSets(X, dests)
    BY ComponentClosed DEF ClosedSets
  <2>2. Append(gs, Component(slot, dests)) \in St
    BY <2>1, AppendProperties
  <2> QED
    BY <2>2 DEF AddComponent
<1>3. H \in [(1 .. N) \X St -> St] /\ <<>> \in St
  <2>1. <<>> \in St
    BY EmptySeq
  <2> HIDE DEF N, St
  <2> QED
    BY <1>1, <1>2, <2>1
<1>4. PICK f \in [0 .. N -> St] : Steps(f, <<>>, H, N)
  <2> HIDE DEF N, St, H
  <2> QED
    BY <1>1, <1>3, StepsExist
<1>5. IsGrouping(f, sorted, dests)
  <2>1. ASSUME NEW n \in 1 .. N PROVE f[n] = AddComponent(f[n - 1], sorted[n], dests)
    <3>1. n - 1 \in 0 .. N
      OBVIOUS
    <3> HIDE DEF St, N
    <3>2. f[n - 1] \in St
      BY <1>4, <3>1
    <3> QED
      BY <1>4, <3>2 DEF Steps
  <2>2. f[0] = <<>>
    BY <1>4 DEF Steps
  <2> HIDE DEF St
  <2>3. f = [n \in 0 .. N |-> f[n]]
    BY <1>4
  <2>4. \A n \in 0 .. N : f[n] = IF n = 0 THEN <<>> ELSE AddComponent(f[n - 1], sorted[n], dests)
    BY <2>1, <2>2
  <2> QED
    BY <2>3, <2>4 DEF IsGrouping
<1>6. PICK g : IsGrouping(g, sorted, dests) /\ PortGroups(sorted, dests) = g[N]
  <2> DEFINE c == CHOOSE h : IsGrouping(h, sorted, dests)
  <2>1. IsGrouping(c, sorted, dests)
    BY <1>5
  <2>2. PortGroups(sorted, dests) = c[N]
    BY DEF PortGroups, IsGrouping
  <2> QED
    BY <2>1, <2>2
<1> DEFINE T == {n \in 0 .. N : g[n] \in St}
<1>7. \A n \in 0 .. N : g[n] = IF n = 0 THEN <<>> ELSE AddComponent(g[n - 1], sorted[n], dests)
  BY <1>6 DEF IsGrouping
<1>8. g[0] = <<>> /\ \A n \in 1 .. N : g[n] = AddComponent(g[n - 1], sorted[n], dests)
  <2>1. 0 \in 0 .. N /\ \A n \in 1 .. N : n \in 0 .. N /\ n # 0
    BY <1>1
  <2> QED
    BY <1>7, <2>1
<1>9. 0 .. N \subseteq T
  <2> HIDE DEF St
  <2>1. 0 \in T
    BY <1>1, <1>3, <1>8
  <2>2. ASSUME NEW n \in 1 .. N, n - 1 \in T PROVE n \in T
    <3>1. n \in 0 .. N /\ g[n - 1] \in St
      BY <1>1, <2>2
    <3> QED
      BY <1>1, <1>2, <1>8, <3>1
  <2> HIDE DEF T, N
  <2> QED
    BY <1>1, <2>1, <2>2, UpToN
<1>10. \A n \in 0 .. Len(sorted) : g[n] \in Seq(ClosedSets(X, dests))
  BY <1>9
<1>11. GroupingSteps(g, X, sorted, dests)
  BY <1>6, <1>8, <1>10 DEF GroupingSteps
<1> QED
  BY <1>11

(* Replacing an element of a sequence, if there is one to replace.           *)
LEMMA ExceptInSeq ==
    ASSUME NEW S, NEW seq \in Seq(S), NEW i, NEW e, i \in 1 .. Len(seq) => e \in S
    PROVE  [seq EXCEPT ![i] = e] \in Seq(S)
<1>1. CASE i \in 1 .. Len(seq)
  BY <1>1, ExceptSeq
<1>2. CASE i \notin 1 .. Len(seq)
  <2>1. DOMAIN seq = 1 .. Len(seq) /\ seq = [k \in 1 .. Len(seq) |-> seq[k]]
    BY LenProperties
  <2>2. [seq EXCEPT ![i] = e] = seq
    BY <1>2, <2>1
  <2> QED
    BY <2>2
<1> QED
  BY <1>1, <1>2

(* A step of solve() gives an arbiter closed sets of slots only.             *)
LEMMA MergeClosed ==
    ASSUME NEW X, NEW dests, NEW keys, NEW arbiters \in Seq(ClosedSets(X, dests)),
           NEW g \in ClosedSets(X, dests)
    PROVE  Merge(arbiters, g, keys) \in Seq(ClosedSets(X, dests))
<1> DEFINE CS == ClosedSets(X, dests)
           room == {a \in DOMAIN arbiters :
                      Cardinality(MSelSets(arbiters[a], keys)) + Cardinality(g) < NumMSels}
<1>1. NoSolution \in Seq(CS)
  <2>1. {} \in CS
    BY DEF ClosedSets, Closed
  <2> HIDE DEF CS
  <2> QED
    BY <2>1 DEF NoSolution
<1>2. Append(arbiters, g) \in Seq(CS)
  BY AppendProperties
<1>3. \A a : [arbiters EXCEPT ![a] = @ \cup g] \in Seq(CS)
  <2> TAKE a
  <2>1. a \in 1 .. Len(arbiters) => arbiters[a] \cup g \in CS
    BY ElementOfSeq, ClosedUnion
  <2> HIDE DEF CS
  <2>2. arbiters \in Seq(CS)
    BY DEF CS
  <2> QED
    BY <2>1, <2>2, ExceptInSeq
<1> HIDE DEF CS
<1> HIDE DEF room
<1>4. \/ Merge(arbiters, g, keys) = NoSolution
      \/ Merge(arbiters, g, keys) = Append(arbiters, g)
      \/ Merge(arbiters, g, keys) = [arbiters EXCEPT ![Min(room)] = @ \cup g]
  BY DEF Merge, room
<1> QED
  BY <1>1, <1>2, <1>3, <1>4 DEF CS

(* The steps of solve(): every arbiter serves a closed set of slots.         *)
IsSolution(f, groups, keys) ==
    f = [n \in 0 .. Len(groups) |-> IF n = 0 THEN <<>> ELSE Merge(f[n - 1], groups[n], keys)]

(* Solve, step by step: arbiters have closed sets of slots all along.        *)
LEMMA SolveSteps ==
    ASSUME NEW X, NEW dests, NEW keys, NEW groups \in Seq(ClosedSets(X, dests))
    PROVE  \E g : /\ g[0] = <<>> /\ Solve(groups, keys) = g[Len(groups)]
                  /\ \A n \in 0 .. Len(groups) : g[n] \in Seq(ClosedSets(X, dests))
                  /\ \A n \in 1 .. Len(groups) : g[n] = Merge(g[n - 1], groups[n], keys)
<1> DEFINE N == Len(groups)
           St == Seq(ClosedSets(X, dests))
           H == [x \in (1 .. N) \X St |-> Merge(x[2], groups[x[1]], keys)]
<1>1. N \in Nat /\ \A n \in 1 .. N : groups[n] \in ClosedSets(X, dests)
  BY LenProperties
<1>2. ASSUME NEW as \in St, NEW g \in ClosedSets(X, dests) PROVE Merge(as, g, keys) \in St
  BY MergeClosed
<1>3. H \in [(1 .. N) \X St -> St] /\ <<>> \in St
  <2>1. <<>> \in St
    BY EmptySeq
  <2> HIDE DEF N, St
  <2> QED
    BY <1>1, <1>2, <2>1
<1>4. PICK f \in [0 .. N -> St] : Steps(f, <<>>, H, N)
  <2> HIDE DEF N, St, H
  <2> QED
    BY <1>1, <1>3, StepsExist
<1>5. IsSolution(f, groups, keys)
  <2>1. ASSUME NEW n \in 1 .. N PROVE f[n] = Merge(f[n - 1], groups[n], keys)
    <3>1. n - 1 \in 0 .. N
      OBVIOUS
    <3> HIDE DEF St, N
    <3>2. f[n - 1] \in St
      BY <1>4, <3>1
    <3> QED
      BY <1>4, <3>2 DEF Steps
  <2>2. f[0] = <<>>
    BY <1>4 DEF Steps
  <2> HIDE DEF St
  <2>3. f = [n \in 0 .. N |-> f[n]]
    BY <1>4
  <2>4. \A n \in 0 .. N : f[n] = IF n = 0 THEN <<>> ELSE Merge(f[n - 1], groups[n], keys)
    BY <2>1, <2>2
  <2> QED
    BY <2>3, <2>4 DEF IsSolution
<1>6. PICK g : IsSolution(g, groups, keys) /\ Solve(groups, keys) = g[N]
  <2> DEFINE c == CHOOSE h : IsSolution(h, groups, keys)
  <2>1. IsSolution(c, groups, keys)
    BY <1>5
  <2>2. Solve(groups, keys) = c[N]
    BY DEF Solve, IsSolution
  <2> QED
    BY <2>1, <2>2
<1> DEFINE T == {n \in 0 .. N : g[n] \in St}
<1>7. \A n \in 0 .. N : g[n] = IF n = 0 THEN <<>> ELSE Merge(g[n - 1], groups[n], keys)
  BY <1>6 DEF IsSolution
<1>8. g[0] = <<>> /\ \A n \in 1 .. N : g[n] = Merge(g[n - 1], groups[n], keys)
  <2>1. 0 \in 0 .. N /\ \A n \in 1 .. N : n \in 0 .. N /\ n # 0
    BY <1>1
  <2> QED
    BY <1>7, <2>1
<1>9. 0 .. N \subseteq T
  <2> HIDE DEF St
  <2>1. 0 \in T
    BY <1>1, <1>3, <1>8
  <2>2. ASSUME NEW n \in 1 .. N, n - 1 \in T PROVE n \in T
    <3>1. n \in 0 .. N /\ g[n - 1] \in St
      BY <1>1, <2>2
    <3> QED
      BY <1>1, <1>2, <1>8, <3>1
  <2> HIDE DEF T, N
  <2> QED
    BY <1>1, <2>1, <2>2, UpToN
<1> QED
  BY <1>6, <1>8, <1>9


-------------------------------------------------------------------------------
(* A switch has finitely many slots.                                         *)
LEMMA SlotFinite == IsFiniteSet(Slot)
<1>1. IsFiniteSet(PacketId)
  <2>1. MaskBits \in Nat /\ 2 \in Nat
    BY SwitchAssumption
  <2>2. 2 ^ MaskBits \in Int
    BY <2>1
  <2>3. 2 ^ MaskBits - 1 \in Int
    BY <2>2
  <2> QED
    BY <2>3, FS_Interval DEF PacketId
<1>2. IsFiniteSet(ToSet(PortOrder))
  <2>1. Len(PortOrder) \in Nat /\ DOMAIN PortOrder = 1 .. Len(PortOrder)
    BY PortsAssumption, LenProperties
  <2>2. PortOrder \in Surjection(1 .. Len(PortOrder), ToSet(PortOrder))
    BY <2>1, PortsAssumption, LenProperties DEF Surjection, ToSet
  <2> QED
    BY <2>1, <2>2, FS_Interval, FS_Surjection
<1> QED
  BY <1>1, <1>2, FS_Product DEF Slot

-------------------------------------------------------------------------------
(* Sorting by rank.  R is a strict total order on S, as a set of pairs.      *)
StrictOrder(R, S) ==
    /\ \A x \in S : <<x, x>> \notin R
    /\ \A x, y, z \in S : <<x, y>> \in R /\ <<y, z>> \in R => <<x, z>> \in R
    /\ \A x, y \in S : x = y \/ <<x, y>> \in R \/ <<y, x>> \in R
Below(R, S, x) == {y \in S : <<y, x>> \in R}

\* Every element has a rank of its own, and every rank an element.
LEMMA Ranks ==
    ASSUME NEW S, IsFiniteSet(S), NEW R, StrictOrder(R, S)
    PROVE  /\ \A x \in S : Cardinality(Below(R, S, x)) \in 0 .. Cardinality(S) - 1
           /\ \A x, y \in S : Cardinality(Below(R, S, x)) = Cardinality(Below(R, S, y)) => x = y
           /\ \A k \in 1 .. Cardinality(S) : \E x \in S : Cardinality(Below(R, S, x)) = k - 1
<1> DEFINE N == Cardinality(S)
           rank == [x \in S |-> Cardinality(Below(R, S, x))]
<1>1. N \in Nat
  BY FS_CardinalityType
<1>2. ASSUME NEW T \in SUBSET S, NEW U \in SUBSET S, T \subseteq U, T # U
      PROVE  Cardinality(T) \in Nat /\ Cardinality(U) \in Nat /\ Cardinality(T) < Cardinality(U)
  <2>1. IsFiniteSet(T) /\ IsFiniteSet(U)
    BY FS_Subset
  <2>2. Cardinality(T) \in Nat /\ Cardinality(U) \in Nat
    BY <2>1, FS_CardinalityType
  <2>3. Cardinality(T) <= Cardinality(U) /\ (Cardinality(U) = Cardinality(T) => U = T)
    BY <1>2, <2>1, FS_Subset
  <2> QED
    BY <1>2, <2>2, <2>3
<1>3. ASSUME NEW x \in S PROVE rank[x] \in 0 .. N - 1
  <2>1. Below(R, S, x) \in SUBSET S /\ S \in SUBSET S /\ Below(R, S, x) # S
    BY DEF Below, StrictOrder
  <2> QED
    BY <1>1, <1>2, <2>1
<1>4. ASSUME NEW x \in S, NEW y \in S, rank[x] = rank[y] PROVE x = y
  <2>1. ASSUME NEW u \in S, NEW v \in S, <<u, v>> \in R PROVE rank[u] < rank[v]
    <3>1. Below(R, S, u) \in SUBSET S /\ Below(R, S, v) \in SUBSET S
      BY DEF Below
    <3>2. Below(R, S, u) \subseteq Below(R, S, v)
      BY <2>1 DEF Below, StrictOrder
    <3>3. u \in Below(R, S, v) /\ u \notin Below(R, S, u)
      BY <2>1 DEF Below, StrictOrder
    <3> QED
      BY <1>2, <3>1, <3>2, <3>3
  <2>2. rank[x] \in Int /\ rank[y] \in Int
    BY <1>3
  <2> HIDE DEF rank
  <2>3. <<x, y>> \notin R /\ <<y, x>> \notin R
    <3>1. ~(rank[x] < rank[y]) /\ ~(rank[y] < rank[x])
      BY <1>4, <2>2
    <3> QED
      BY <2>1, <3>1
  <2> QED
    BY <2>3 DEF StrictOrder
<1>5. rank \in Surjection(S, 0 .. N - 1)
  <2>1. rank \in [S -> 0 .. N - 1]
    BY <1>3
  <2>2. rank \in Injection(S, 0 .. N - 1)
    <3> HIDE DEF rank
    <3> QED
      BY <1>4, <2>1 DEF Injection, IsInjective
  <2>3. IsFiniteSet(0 .. N - 1) /\ Cardinality(0 .. N - 1) = N
    BY <1>1, FS_Interval
  <2> HIDE DEF rank
  <2> QED
    BY <2>2, <2>3, FS_Injection
<1>6. ASSUME NEW k \in 1 .. N PROVE \E x \in S : rank[x] = k - 1
  <2>1. k - 1 \in 0 .. N - 1
    BY <1>1
  <2> HIDE DEF rank
  <2> QED
    BY <1>5, <2>1 DEF Surjection
<1> QED
  BY <1>3, <1>4, <1>6

\* So the sequence of the elements by rank has every element once.
IsByRank(s, R, S) ==
    /\ s \in [1 .. Cardinality(S) -> S]
    /\ \A k \in 1 .. Cardinality(S) : Cardinality(Below(R, S, s[k])) = k - 1

(* Sorting by rank loses no element and repeats none: no two elements of a   *)
(* strict order have the same rank, so every rank up to the size is one's.   *)
LEMMA SortedByRank ==
    ASSUME NEW S, IsFiniteSet(S), NEW R, StrictOrder(R, S), NEW s, IsByRank(s, R, S)
    PROVE  /\ s \in Seq(S) /\ Len(s) = Cardinality(S)
           /\ \A x \in S : \E k \in 1 .. Len(s) : s[k] = x
           /\ \A j, k \in 1 .. Len(s) : s[j] = s[k] => j = k
<1> DEFINE N == Cardinality(S)
<1>1. N \in Nat
  BY FS_CardinalityType
<1>2. \A k \in 1 .. N : s[k] \in S /\ Cardinality(Below(R, S, s[k])) = k - 1
  BY DEF IsByRank
<1>3. s \in [1 .. N -> S]
  BY <1>2 DEF IsByRank
<1>4. s \in Seq(S) /\ Len(s) = N
  BY <1>1, <1>3, SeqDef
<1>5. ASSUME NEW x \in S PROVE \E k \in 1 .. N : s[k] = x
  <2> DEFINE k == Cardinality(Below(R, S, x)) + 1
  <2>1. Cardinality(Below(R, S, x)) \in 0 .. N - 1
    BY Ranks
  <2>2. k \in 1 .. N /\ Cardinality(Below(R, S, x)) = k - 1
    BY <1>1, <2>1
  <2> HIDE DEF k
  <2>3. s[k] = x
    BY <1>2, <2>2, Ranks
  <2> QED
    BY <2>2, <2>3
<1>6. ASSUME NEW j \in 1 .. N, NEW k \in 1 .. N, s[j] = s[k] PROVE j = k
  BY <1>1, <1>2, <1>6
<1> QED
  BY <1>4, <1>5, <1>6

-------------------------------------------------------------------------------
(* The slots are sorted by port number and packet id.                        *)
LEMMA SlotFacts ==
    ASSUME NEW s \in Slot
    PROVE  /\ s = <<s[1], s[2]>> /\ s[2] \in Nat
           /\ PortNumber(s[1]) \in Nat /\ PortOrder[PortNumber(s[1])] = s[1]
<1>1. s = <<s[1], s[2]>> /\ s[1] \in ToSet(PortOrder) /\ s[2] \in PacketId
  BY DEF Slot
<1>2. \A x \in PacketId : x \in Nat
  BY DEF PacketId
<1>3. PICK k \in DOMAIN PortOrder : PortOrder[k] = s[1]
  BY <1>1 DEF ToSet
<1>4. DOMAIN PortOrder = 1 .. Len(PortOrder) /\ Len(PortOrder) \in Nat
  BY PortsAssumption, LenProperties
<1>5. PortNumber(s[1]) \in DOMAIN PortOrder /\ PortOrder[PortNumber(s[1])] = s[1]
  BY <1>3 DEF PortNumber
<1> QED
  BY <1>1, <1>2, <1>4, <1>5

SlotOrder == {p \in Slot \X Slot : Before(p[1], p[2])}

(* sortBySrc compares by a strict order of the slots.                        *)
LEMMA SlotOrderStrict ==
    ASSUME NEW slots \in SUBSET Slot
    PROVE  StrictOrder(SlotOrder, slots)
<1>1. \A s, r \in Slot : <<s, r>> \in SlotOrder <=> Before(s, r)
  BY DEF SlotOrder
<1>2. ASSUME NEW s \in Slot PROVE ~Before(s, s)
  BY SlotFacts DEF Before
<1>3. ASSUME NEW s \in Slot, NEW r \in Slot, NEW q \in Slot, Before(s, r), Before(r, q)
      PROVE  Before(s, q)
  BY <1>3, SlotFacts DEF Before
<1>4. ASSUME NEW s \in Slot, NEW r \in Slot PROVE s = r \/ Before(s, r) \/ Before(r, s)
  <2>1. CASE PortNumber(s[1]) = PortNumber(r[1])
    <3>1. s[1] = r[1]
      BY <2>1, SlotFacts
    <3>2. s[2] = r[2] \/ s[2] < r[2] \/ r[2] < s[2]
      BY SlotFacts
    <3>3. s[2] = r[2] => s = r
      BY <3>1, SlotFacts
    <3> QED
      BY <3>1, <3>2, <3>3 DEF Before
  <2>2. CASE PortNumber(s[1]) # PortNumber(r[1])
    <3>1. PortNumber(s[1]) \in Nat /\ PortNumber(r[1]) \in Nat
      BY SlotFacts
    <3>2. PortNumber(s[1]) < PortNumber(r[1]) \/ PortNumber(r[1]) < PortNumber(s[1])
      BY <2>2, <3>1
    <3> QED
      BY <3>2 DEF Before
  <2> QED
    BY <2>1, <2>2
<1> HIDE DEF SlotOrder
<1>5. \A x \in slots : x \in Slot
  OBVIOUS
<1> QED
  BY <1>1, <1>2, <1>3, <1>4, <1>5 DEF StrictOrder

(* SortSlots is a list of the slots it is given.                             *)
LEMMA SlotsSorted ==
    ASSUME NEW slots \in SUBSET Slot
    PROVE  /\ SortSlots(slots) \in Seq(slots)
           /\ \A s \in slots : \E k \in 1 .. Len(SortSlots(slots)) : SortSlots(slots)[k] = s
<1>1. \A s \in slots : {r \in slots : Before(r, s)} = Below(SlotOrder, slots, s)
  BY DEF Below, SlotOrder
<1>2. IsFiniteSet(slots) /\ StrictOrder(SlotOrder, slots)
  BY SlotFinite, FS_Subset, SlotOrderStrict
<1>3. ASSUME NEW k \in 1 .. Cardinality(slots)
      PROVE  /\ SortSlots(slots)[k] \in slots
             /\ Cardinality(Below(SlotOrder, slots, SortSlots(slots)[k])) = k - 1
  <2>1. SortSlots(slots)[k] = CHOOSE s \in slots : Cardinality({r \in slots : Before(r, s)}) = k - 1
    BY DEF SortSlots
  <2>2. PICK x \in slots : Cardinality(Below(SlotOrder, slots, x)) = k - 1
    BY <1>2, Ranks
  <2>3. Cardinality({r \in slots : Before(r, x)}) = k - 1
    BY <1>1, <2>2
  <2>4. /\ SortSlots(slots)[k] \in slots
        /\ Cardinality({r \in slots : Before(r, SortSlots(slots)[k])}) = k - 1
    BY <2>1, <2>3
  <2> QED
    BY <1>1, <2>4
<1>4. SortSlots(slots) \in [1 .. Cardinality(slots) -> slots]
  <2>1. \A k \in 1 .. Cardinality(slots) :
          (CHOOSE s \in slots : Cardinality({r \in slots : Before(r, s)}) = k - 1) \in slots
    BY <1>3 DEF SortSlots
  <2> QED
    BY <2>1 DEF SortSlots
<1>5. IsByRank(SortSlots(slots), SlotOrder, slots)
  BY <1>3, <1>4 DEF IsByRank
<1> QED
  BY <1>2, <1>5, SortedByRank

(* SortBySrc lists all slots, the earlier and the new.                       *)
LEMMA SortedSlots ==
    ASSUME NEW prior \in SUBSET Slot, NEW new \in SUBSET Slot
    PROVE  /\ SortBySrc(prior, new) \in Seq(prior \cup new)
           /\ \A s \in prior \cup new :
                \E k \in 1 .. Len(SortBySrc(prior, new)) : SortBySrc(prior, new)[k] = s
<1> DEFINE X == prior \cup new
<1>1. PICK p : p = SortSlots(prior)
  OBVIOUS
<1>2. PICK n : n = SortSlots(new \ prior)
  OBVIOUS
<1>3. /\ p \in Seq(prior) /\ n \in Seq(new \ prior)
      /\ \A s \in prior : \E k \in 1 .. Len(p) : p[k] = s
      /\ \A s \in new \ prior : \E k \in 1 .. Len(n) : n[k] = s
  BY <1>1, <1>2, SlotsSorted
<1>4. p \in Seq(X) /\ n \in Seq(X)
  BY <1>3, SeqMonotonic
<1>5. PICK q : q = p \o n
  OBVIOUS
<1>6. /\ q \in Seq(X) /\ Len(q) = Len(p) + Len(n) /\ Len(p) \in Nat /\ Len(n) \in Nat
      /\ \A i \in 1 .. Len(p) + Len(n) : q[i] = IF i <= Len(p) THEN p[i] ELSE n[i - Len(p)]
  BY <1>4, <1>5, ConcatProperties, LenProperties
<1>7. ASSUME NEW s \in prior PROVE \E k \in 1 .. Len(q) : q[k] = s
  <2>1. PICK k \in 1 .. Len(p) : p[k] = s
    BY <1>3
  <2>2. k \in 1 .. Len(q) /\ q[k] = s
    BY <1>6, <2>1
  <2> QED
    BY <2>2
<1>8. ASSUME NEW s \in new \ prior PROVE \E k \in 1 .. Len(q) : q[k] = s
  <2>1. PICK k \in 1 .. Len(n) : n[k] = s
    BY <1>3
  <2>2. k + Len(p) \in 1 .. Len(q) /\ q[k + Len(p)] = s
    BY <1>6, <2>1
  <2> QED
    BY <2>2
<1>9. SortBySrc(prior, new) = q
  BY <1>1, <1>2, <1>5 DEF SortBySrc
<1> QED
  BY <1>6, <1>7, <1>8, <1>9

-------------------------------------------------------------------------------
(* The components of a tile are closed.                                      *)
LEMMA GroupsClosed ==
    ASSUME NEW dests, IsFiniteSet(DOMAIN dests), NEW sorted \in Seq(DOMAIN dests)
    PROVE  PortGroups(sorted, dests) \in Seq(ClosedSets(DOMAIN dests, dests))
<1>1. Len(sorted) \in 0 .. Len(sorted)
  BY LenProperties
<1>2. PICK g : GroupingSteps(g, DOMAIN dests, sorted, dests)
  BY PortGroupsSteps
<1> QED
  BY <1>1, <1>2 DEF GroupingSteps

(* All slots that share a master port are given one arbiter.                 *)
LEMMA ArbitersClosed ==
    ASSUME NEW dests, NEW keys, IsFiniteSet(DOMAIN dests), NEW sorted \in Seq(DOMAIN dests)
    PROVE  Solve(PortGroups(sorted, dests), keys) \in Seq(ClosedSets(DOMAIN dests, dests))
<1>1. PICK gs : gs = PortGroups(sorted, dests)
  OBVIOUS
<1>2. gs \in Seq(ClosedSets(DOMAIN dests, dests))
  BY <1>1, GroupsClosed
<1>3. Len(gs) \in 0 .. Len(gs)
  BY <1>2, LenProperties
<1> QED
  BY <1>1, <1>2, <1>3, SolveSteps

(* Every slot is in the set of some arbiter.                                 *)
LEMMA GroupsCover ==
    ASSUME NEW dests, IsFiniteSet(DOMAIN dests), \A s \in DOMAIN dests : dests[s] # {},
           NEW sorted \in Seq(DOMAIN dests), NEW gs, gs = PortGroups(sorted, dests)
    PROVE  \A k \in 1 .. Len(sorted) : \E j \in 1 .. Len(gs) : sorted[k] \in gs[j]
<1> DEFINE N == Len(sorted)
           CS == ClosedSets(DOMAIN dests, dests)
<1>1. N \in Nat /\ \A n \in 1 .. N : sorted[n] \in DOMAIN dests
  BY LenProperties
<1>2. PICK g : /\ g[0] = <<>> /\ gs = g[N]
               /\ \A n \in 0 .. N : g[n] \in Seq(CS)
               /\ \A n \in 1 .. N : g[n] = AddComponent(g[n - 1], sorted[n], dests)
  <2>1. PICK h : GroupingSteps(h, DOMAIN dests, sorted, dests)
    BY PortGroupsSteps
  <2>2. h[0] = <<>> /\ gs = h[N]
    BY <2>1 DEF GroupingSteps
  <2>3. \A n \in 0 .. N : h[n] \in Seq(CS)
    BY <2>1 DEF GroupingSteps
  <2>4. \A n \in 1 .. N : h[n] = AddComponent(h[n - 1], sorted[n], dests)
    BY <2>1 DEF GroupingSteps
  <2> HIDE DEF N, CS
  <2> QED
    BY <2>2, <2>3, <2>4
<1> DEFINE Cover(m) == \A k \in 1 .. m : \E j \in 1 .. Len(g[m]) : sorted[k] \in g[m][j]
           T == {n \in 0 .. N : Cover(n)}
<1> HIDE DEF N, CS
<1>3. 0 \in T
  BY <1>1
<1>4. ASSUME NEW n \in 1 .. N, n - 1 \in T PROVE n \in T
  <2>1. n \in 0 .. N /\ n - 1 \in 0 .. N /\ Cover(n - 1) /\ sorted[n] \in DOMAIN dests
    BY <1>1, <1>4
  <2>2. PICK p, q, c : p = g[n - 1] /\ q = g[n] /\ c = Component(sorted[n], dests)
    OBVIOUS
  <2>3. p \in Seq(CS) /\ c \in CS /\ sorted[n] \in c
    <3>1. c \in CS /\ sorted[n] \in c
      BY <2>1, <2>2, ComponentClosed DEF ClosedSets, CS
    <3> QED
      BY <1>2, <2>1, <2>2, <3>1
  <2>4. DOMAIN p = 1 .. Len(p) /\ Len(p) \in Nat
    BY <2>3, LenProperties
  <2>5. CASE \E k \in DOMAIN p : sorted[n] \in p[k]
    <3>1. q = p
      BY <1>2, <2>2, <2>5 DEF AddComponent
    <3>2. ASSUME NEW k \in 1 .. n PROVE \E j \in 1 .. Len(q) : sorted[k] \in q[j]
      <4>1. CASE k = n
        BY <2>4, <2>5, <3>1, <4>1
      <4>2. CASE k # n
        <5>1. k \in 1 .. n - 1
          BY <4>2
        <5> QED
          BY <2>1, <2>2, <3>1, <5>1
      <4> QED
        BY <4>1, <4>2
    <3> QED
      BY <2>1, <2>2, <3>2
  <2>6. CASE ~\E k \in DOMAIN p : sorted[n] \in p[k]
    <3>1. q = Append(p, c)
      BY <1>2, <2>2, <2>6 DEF AddComponent
    <3>2. Len(q) = Len(p) + 1 /\ (\A i \in 1 .. Len(p) : q[i] = p[i]) /\ q[Len(p) + 1] = c
      BY <2>3, <3>1, AppendProperties
    <3>3. ASSUME NEW k \in 1 .. n PROVE \E j \in 1 .. Len(q) : sorted[k] \in q[j]
      <4>1. CASE k = n
        <5>1. Len(p) + 1 \in 1 .. Len(q)
          BY <2>4, <3>2
        <5> QED
          BY <2>3, <3>2, <4>1, <5>1
      <4>2. CASE k # n
        <5>1. k \in 1 .. n - 1
          BY <4>2
        <5>2. PICK j \in 1 .. Len(p) : sorted[k] \in p[j]
          BY <2>1, <2>2, <5>1
        <5>3. j \in 1 .. Len(q) /\ q[j] = p[j]
          BY <2>4, <3>2
        <5> QED
          BY <5>2, <5>3
      <4> QED
        BY <4>1, <4>2
    <3> QED
      BY <2>1, <2>2, <3>3
  <2> QED
    BY <2>5, <2>6
<1>5. 0 .. N \subseteq T
  <2> HIDE DEF T
  <2> QED
    BY <1>1, <1>3, <1>4, UpToN
<1>6. N \in 0 .. N
  BY <1>1
<1>7. Cover(N)
  BY <1>5, <1>6
<1> QED
  BY <1>2, <1>7 DEF N

\* One step of solve(), which finds an arbiter for the component g.
IsMerge(merged, arbiters, g, keys, X, dests) ==
    /\ arbiters \in Seq(ClosedSets(X, dests)) /\ g \in ClosedSets(X, dests)
    /\ merged = Merge(arbiters, g, keys) /\ merged # NoSolution

(* A step of solve() that does not fail forgets no slot.                     *)
LEMMA MergeCovers ==
    ASSUME NEW X, NEW dests, NEW keys, NEW arbiters, NEW g, NEW merged,
           IsMerge(merged, arbiters, g, keys, X, dests)
    PROVE  /\ arbiters # NoSolution
           /\ \A a \in 1 .. Len(arbiters) : \E b \in 1 .. Len(merged) : arbiters[a] \subseteq merged[b]
           /\ \E b \in 1 .. Len(merged) : g \subseteq merged[b]
<1> DEFINE room == {a \in DOMAIN arbiters :
                      Cardinality(MSelSets(arbiters[a], keys)) + Cardinality(g) < NumMSels}
           a == Min(room)
<1>1. DOMAIN arbiters = 1 .. Len(arbiters) /\ Len(arbiters) \in Nat
  BY LenProperties DEF IsMerge
<1> HIDE DEF room
<1>2. /\ arbiters # NoSolution
      /\ \/ merged = Append(arbiters, g)
         \/ room # {} /\ merged = [arbiters EXCEPT ![a] = @ \cup g]
  BY DEF IsMerge, Merge, room
<1>3. CASE merged = Append(arbiters, g)
  <2>1. /\ Len(merged) = Len(arbiters) + 1 /\ merged[Len(arbiters) + 1] = g
        /\ \A i \in 1 .. Len(arbiters) : merged[i] = arbiters[i]
    BY <1>3, AppendProperties DEF IsMerge
  <2>2. Len(arbiters) + 1 \in 1 .. Len(merged) /\ 1 .. Len(arbiters) \subseteq 1 .. Len(merged)
    BY <1>1, <2>1
  <2> QED
    BY <1>2, <2>1, <2>2
<1>4. CASE room # {} /\ merged = [arbiters EXCEPT ![a] = @ \cup g]
  <2>1. a \in 1 .. Len(arbiters)
    <3>1. room \subseteq 1 .. Len(arbiters)
      BY <1>1 DEF room
    <3>2. room \in SUBSET Nat
      BY <3>1
    <3> QED
      BY <1>4, <3>1, <3>2, SmallestMin
  <2> HIDE DEF a
  <2>2. Len(merged) = Len(arbiters)
    <3>1. arbiters[a] \cup g \in ClosedSets(X, dests)
      BY <2>1, ElementOfSeq, ClosedUnion DEF IsMerge
    <3> QED
      BY <1>4, <2>1, <3>1, ExceptSeq DEF IsMerge
  <2>3. \A i \in 1 .. Len(arbiters) : merged[i] = IF i = a THEN arbiters[a] \cup g ELSE arbiters[i]
    BY <1>1, <1>4
  <2>4. \A i \in 1 .. Len(arbiters) : arbiters[i] \subseteq merged[i]
    BY <2>3
  <2>5. g \subseteq merged[a]
    BY <2>1, <2>3
  <2> QED
    BY <1>2, <2>1, <2>2, <2>4, <2>5
<1> QED
  BY <1>2, <1>3, <1>4

(* solve() gives every component an arbiter if it does not fail.             *)
LEMMA SolveCovers ==
    ASSUME NEW X, NEW dests, NEW keys, NEW groups \in Seq(ClosedSets(X, dests)),
           NEW arbiters, arbiters = Solve(groups, keys), arbiters # NoSolution
    PROVE  \A j \in 1 .. Len(groups) : \E a \in 1 .. Len(arbiters) : groups[j] \subseteq arbiters[a]
<1> DEFINE N == Len(groups)
           CS == ClosedSets(X, dests)
<1>1. N \in Nat /\ \A n \in 1 .. N : groups[n] \in CS
  BY LenProperties
<1>2. PICK g : /\ g[0] = <<>> /\ arbiters = g[N]
               /\ \A n \in 0 .. N : g[n] \in Seq(CS)
               /\ \A n \in 1 .. N : g[n] = Merge(g[n - 1], groups[n], keys)
  BY SolveSteps
<1> DEFINE Cover(n) == \A j \in 1 .. n : \E a \in 1 .. Len(g[n]) : groups[j] \subseteq g[n][a]
           T == {n \in 0 .. N : g[n] = NoSolution \/ Cover(n)}
<1> HIDE DEF N
<1>3. 0 \in T
  BY <1>1
<1>4. ASSUME NEW n \in 1 .. N, n - 1 \in T, g[n] # NoSolution PROVE Cover(n)
  <2>1. n \in 0 .. N /\ n - 1 \in 0 .. N /\ groups[n] \in CS
    BY <1>1, <1>4
  <2>2. PICK p, q : p = g[n - 1] /\ q = g[n]
    OBVIOUS
  <2>3. p \in Seq(CS) /\ q = Merge(p, groups[n], keys) /\ q # NoSolution
    BY <1>2, <1>4, <2>1, <2>2
  <2>4. /\ p # NoSolution
        /\ \A a \in 1 .. Len(p) : \E b \in 1 .. Len(q) : p[a] \subseteq q[b]
        /\ \E b \in 1 .. Len(q) : groups[n] \subseteq q[b]
    <3>1. PICK h : h = groups[n]
      OBVIOUS
    <3>2. IsMerge(q, p, h, keys, X, dests)
      BY <2>1, <2>3, <3>1 DEF IsMerge
    <3>3. /\ p # NoSolution
          /\ \A a \in 1 .. Len(p) : \E b \in 1 .. Len(q) : p[a] \subseteq q[b]
          /\ \E b \in 1 .. Len(q) : h \subseteq q[b]
      BY <3>2, MergeCovers
    <3> QED
      BY <3>1, <3>3
  <2>5. \A j \in 1 .. n - 1 : \E a \in 1 .. Len(p) : groups[j] \subseteq p[a]
    BY <1>4, <2>2, <2>4
  <2>6. ASSUME NEW j \in 1 .. n PROVE \E b \in 1 .. Len(q) : groups[j] \subseteq q[b]
    <3>1. CASE j = n
      BY <2>4, <3>1
    <3>2. CASE j # n
      <4>1. j \in 1 .. n - 1
        BY <3>2
      <4>2. PICK a \in 1 .. Len(p) : groups[j] \subseteq p[a]
        BY <2>5, <4>1
      <4>3. PICK b \in 1 .. Len(q) : p[a] \subseteq q[b]
        BY <2>4
      <4> QED
        BY <4>2, <4>3
    <3> QED
      BY <3>1, <3>2
  <2> QED
    BY <2>2, <2>6
<1>5. 0 .. N \subseteq T
  <2>1. ASSUME NEW n \in 1 .. N, n - 1 \in T PROVE n \in T
    BY <1>1, <1>4, <2>1
  <2> HIDE DEF T
  <2> QED
    BY <1>1, <1>3, <2>1, UpToN
<1>6. N \in 0 .. N
  BY <1>1
<1>7. Cover(N)
  BY <1>2, <1>5, <1>6
<1> QED
  BY <1>2, <1>7 DEF N

(* Every slot has an arbiter if solve() does not fail.                       *)
LEMMA SlotsHaveArbiters ==
    ASSUME NEW dests, NEW keys, IsFiniteSet(DOMAIN dests), \A s \in DOMAIN dests : dests[s] # {},
           NEW sorted \in Seq(DOMAIN dests),
           \A s \in DOMAIN dests : \E k \in 1 .. Len(sorted) : sorted[k] = s,
           NEW arbiters, arbiters = Solve(PortGroups(sorted, dests), keys),
           arbiters # NoSolution
    PROVE  \A s \in DOMAIN dests : /\ ArbiterOf(arbiters, s) \in 1 .. Len(arbiters)
                                   /\ s \in arbiters[ArbiterOf(arbiters, s)]
<1> TAKE s \in DOMAIN dests
<1>1. PICK gs : gs = PortGroups(sorted, dests)
  OBVIOUS
<1>2. gs \in Seq(ClosedSets(DOMAIN dests, dests)) /\ arbiters = Solve(gs, keys)
  BY <1>1, GroupsClosed
<1>3. PICK k \in 1 .. Len(sorted) : sorted[k] = s
  OBVIOUS
<1>4. PICK j \in 1 .. Len(gs) : s \in gs[j]
  BY <1>1, <1>3, GroupsCover
<1>5. PICK a \in 1 .. Len(arbiters) : gs[j] \subseteq arbiters[a]
  <2>1. \A i \in 1 .. Len(gs) : \E a \in 1 .. Len(arbiters) : gs[i] \subseteq arbiters[a]
    <3> DEFINE X == DOMAIN dests
    <3>1. gs \in Seq(ClosedSets(X, dests)) /\ arbiters = Solve(gs, keys) /\ arbiters # NoSolution
      BY <1>2
    <3> HIDE DEF X
    <3> QED
      BY <3>1, SolveCovers, SMTT(120)
  <2> QED
    BY <2>1
<1>6. DOMAIN arbiters = 1 .. Len(arbiters)
  <2>1. arbiters \in Seq(ClosedSets(DOMAIN dests, dests))
    BY ArbitersClosed
  <2> QED
    BY <2>1, LenProperties
<1>7. ArbiterOf(arbiters, s) \in DOMAIN arbiters /\ s \in arbiters[ArbiterOf(arbiters, s)]
  BY <1>4, <1>5, <1>6 DEF ArbiterOf
<1> QED
  BY <1>6, <1>7

(* Slots that share a master port are given the same arbiter.                *)
LEMMA SameArbiter ==
    ASSUME NEW dests, NEW keys, DOMAIN keys = DOMAIN dests,
           NEW arbiters \in Seq(ClosedSets(DOMAIN dests, dests)), NEW sorted,
           NEW s \in DOMAIN dests, NEW r \in DOMAIN dests, Overlap(dests[s], dests[r])
    PROVE  AMSels(arbiters, sorted, keys)[s][1] = AMSels(arbiters, sorted, keys)[r][1]
<1>1. \A k \in DOMAIN arbiters : s \in arbiters[k] <=> r \in arbiters[k]
  <2>1. \A k \in DOMAIN arbiters : arbiters[k] \in ClosedSets(DOMAIN dests, dests)
    BY LenProperties
  <2> QED
    BY <2>1 DEF ClosedSets, Closed
<1>2. ArbiterOf(arbiters, s) = ArbiterOf(arbiters, r)
  BY <1>1 DEF ArbiterOf
<1>3. \A x \in DOMAIN dests : AMSels(arbiters, sorted, keys)[x][1] = ArbiterOf(arbiters, x) - 1
  BY DEF AMSels, AMSelOf
<1> QED
  BY <1>2, <1>3

-------------------------------------------------------------------------------
(* The msels of an arbiter: the sets of master ports of its slots, in the    *)
(* order in which they come up.                                              *)
IsMSelOrder(f, slots, sorted, keys) ==
    f = [n \in 0 .. Len(sorted) |->
           IF n = 0 THEN <<>> ELSE AddMSel(f[n - 1], slots, sorted[n], keys)]

(* MSelOrder, step by step.                                                  *)
LEMMA MSelSteps ==
    ASSUME NEW slots, NEW keys, NEW sorted \in Seq(DOMAIN keys)
    PROVE  \E g : /\ g[0] = <<>> /\ MSelOrder(slots, sorted, keys) = g[Len(sorted)]
                  /\ \A n \in 0 .. Len(sorted) : g[n] \in Seq(Range(keys))
                  /\ \A n \in 1 .. Len(sorted) : g[n] = AddMSel(g[n - 1], slots, sorted[n], keys)
<1> DEFINE N == Len(sorted)
           St == Seq(Range(keys))
           H == [x \in (1 .. N) \X St |-> AddMSel(x[2], slots, sorted[x[1]], keys)]
<1>1. N \in Nat /\ \A n \in 1 .. N : sorted[n] \in DOMAIN keys
  BY LenProperties
<1>2. ASSUME NEW sets \in St, NEW s \in DOMAIN keys PROVE AddMSel(sets, slots, s, keys) \in St
  <2>1. keys[s] \in Range(keys)
    BY DEF Range
  <2>2. Append(sets, keys[s]) \in St
    BY <2>1, AppendProperties
  <2> QED
    BY <2>2 DEF AddMSel
<1>3. H \in [(1 .. N) \X St -> St] /\ <<>> \in St
  <2>1. <<>> \in St
    BY EmptySeq
  <2> HIDE DEF N, St
  <2> QED
    BY <1>1, <1>2, <2>1
<1>4. PICK f \in [0 .. N -> St] : Steps(f, <<>>, H, N)
  <2> HIDE DEF N, St, H
  <2> QED
    BY <1>1, <1>3, StepsExist
<1>5. IsMSelOrder(f, slots, sorted, keys)
  <2>1. ASSUME NEW n \in 1 .. N PROVE f[n] = AddMSel(f[n - 1], slots, sorted[n], keys)
    <3>1. n - 1 \in 0 .. N
      OBVIOUS
    <3> HIDE DEF St, N
    <3>2. f[n - 1] \in St
      BY <1>4, <3>1
    <3> QED
      BY <1>4, <3>2 DEF Steps
  <2>2. f[0] = <<>>
    BY <1>4 DEF Steps
  <2> HIDE DEF St
  <2>3. f = [n \in 0 .. N |-> f[n]]
    BY <1>4
  <2>4. \A n \in 0 .. N : f[n] = IF n = 0 THEN <<>> ELSE AddMSel(f[n - 1], slots, sorted[n], keys)
    BY <2>1, <2>2
  <2> QED
    BY <2>3, <2>4 DEF IsMSelOrder
<1>6. PICK g : IsMSelOrder(g, slots, sorted, keys) /\ MSelOrder(slots, sorted, keys) = g[N]
  <2> DEFINE c == CHOOSE h : IsMSelOrder(h, slots, sorted, keys)
  <2>1. IsMSelOrder(c, slots, sorted, keys)
    BY <1>5
  <2>2. MSelOrder(slots, sorted, keys) = c[N]
    BY DEF MSelOrder, IsMSelOrder
  <2> QED
    BY <2>1, <2>2
<1> DEFINE T == {n \in 0 .. N : g[n] \in St}
<1>7. \A n \in 0 .. N : g[n] = IF n = 0 THEN <<>> ELSE AddMSel(g[n - 1], slots, sorted[n], keys)
  BY <1>6 DEF IsMSelOrder
<1>8. g[0] = <<>> /\ \A n \in 1 .. N : g[n] = AddMSel(g[n - 1], slots, sorted[n], keys)
  <2>1. 0 \in 0 .. N /\ \A n \in 1 .. N : n \in 0 .. N /\ n # 0
    BY <1>1
  <2> QED
    BY <1>7, <2>1
<1>9. 0 .. N \subseteq T
  <2> HIDE DEF St
  <2>1. 0 \in T
    BY <1>1, <1>3, <1>8
  <2>2. ASSUME NEW n \in 1 .. N, n - 1 \in T PROVE n \in T
    <3>1. n \in 0 .. N /\ g[n - 1] \in St
      BY <1>1, <2>2
    <3> QED
      BY <1>1, <1>2, <1>8, <3>1
  <2> HIDE DEF T, N
  <2> QED
    BY <1>1, <2>1, <2>2, UpToN
<1> QED
  BY <1>6, <1>8, <1>9

(* A slot of the arbiter has its set of master ports listed.                 *)
LEMMA AddMSelCovers ==
    ASSUME NEW S, NEW sets \in Seq(S), NEW keys, NEW s, keys[s] \in S, NEW slots,
           NEW more, more = AddMSel(sets, slots, s, keys)
    PROVE  /\ ToSet(sets) \subseteq ToSet(more)
           /\ s \in slots => keys[s] \in ToSet(more)
<1>1. DOMAIN sets = 1 .. Len(sets) /\ Len(sets) \in Nat
  BY LenProperties
<1>2. CASE s \in slots /\ keys[s] \notin ToSet(sets)
  <2>1. more = Append(sets, keys[s])
    BY <1>2 DEF AddMSel
  <2>2. /\ more \in Seq(S) /\ Len(more) = Len(sets) + 1 /\ more[Len(sets) + 1] = keys[s]
        /\ \A i \in 1 .. Len(sets) : more[i] = sets[i]
    BY <2>1, AppendProperties
  <2>3. DOMAIN more = 1 .. Len(sets) + 1
    BY <2>2, LenProperties
  <2>4. Len(sets) + 1 \in DOMAIN more /\ \A i \in DOMAIN sets : i \in DOMAIN more /\ more[i] = sets[i]
    BY <1>1, <2>2, <2>3
  <2> QED
    BY <2>2, <2>4 DEF ToSet
<1>3. CASE ~(s \in slots /\ keys[s] \notin ToSet(sets))
  BY <1>3 DEF AddMSel
<1> QED
  BY <1>2, <1>3

(* The sets of master ports of all slots of an arbiter are listed.           *)
LEMMA MSelsCover ==
    ASSUME NEW slots, NEW keys, NEW sorted \in Seq(DOMAIN keys),
           NEW sets, sets = MSelOrder(slots, sorted, keys)
    PROVE  /\ sets \in Seq(Range(keys))
           /\ \A k \in 1 .. Len(sorted) : sorted[k] \in slots => keys[sorted[k]] \in ToSet(sets)
<1> DEFINE N == Len(sorted)
<1>1. N \in Nat /\ \A n \in 1 .. N : sorted[n] \in DOMAIN keys
  BY LenProperties
<1>2. PICK g : /\ g[0] = <<>> /\ sets = g[N]
               /\ \A n \in 0 .. N : g[n] \in Seq(Range(keys))
               /\ \A n \in 1 .. N : g[n] = AddMSel(g[n - 1], slots, sorted[n], keys)
  BY MSelSteps
<1> DEFINE Cover(n) == \A k \in 1 .. n : sorted[k] \in slots => keys[sorted[k]] \in ToSet(g[n])
           T == {n \in 0 .. N : Cover(n)}
<1> HIDE DEF N
<1>3. 0 \in T
  BY <1>1
<1>4. ASSUME NEW n \in 1 .. N, n - 1 \in T PROVE n \in T
  <2>1. n \in 0 .. N /\ n - 1 \in 0 .. N /\ Cover(n - 1) /\ keys[sorted[n]] \in Range(keys)
    BY <1>1, <1>4 DEF Range
  <2>2. /\ ToSet(g[n - 1]) \subseteq ToSet(g[n])
        /\ sorted[n] \in slots => keys[sorted[n]] \in ToSet(g[n])
    BY <1>2, <2>1, AddMSelCovers
  <2>3. ASSUME NEW k \in 1 .. n, sorted[k] \in slots PROVE keys[sorted[k]] \in ToSet(g[n])
    <3>1. CASE k = n
      BY <2>2, <2>3, <3>1
    <3>2. CASE k # n
      <4>1. k \in 1 .. n - 1
        BY <3>2
      <4> QED
        BY <2>1, <2>2, <2>3, <4>1
    <3> QED
      BY <3>1, <3>2
  <2> QED
    BY <2>1, <2>3
<1>5. 0 .. N \subseteq T
  <2> HIDE DEF T
  <2> QED
    BY <1>1, <1>3, <1>4, UpToN
<1>6. N \in 0 .. N
  BY <1>1
<1>7. Cover(N)
  BY <1>5, <1>6
<1> QED
  BY <1>2, <1>6, <1>7 DEF N

(* Where no arbiter has a second msel, its slots have the same ports.        *)
NoSecondMSel(dests, keys, sorted, arbiters, amsels) ==
    /\ IsFiniteSet(DOMAIN dests) /\ \A s \in DOMAIN dests : dests[s] # {}
    /\ DOMAIN keys = DOMAIN dests /\ \A s \in DOMAIN dests : keys[s][1] = dests[s]
    /\ sorted \in Seq(DOMAIN dests)
    /\ \A s \in DOMAIN dests : \E k \in 1 .. Len(sorted) : sorted[k] = s
    /\ arbiters = Solve(PortGroups(sorted, dests), keys) /\ arbiters # NoSolution
    /\ amsels = AMSels(arbiters, sorted, keys)
    /\ \A s \in DOMAIN amsels : ~(amsels[s][2] > 0)

(* Without a second msel all slots of an arbiter have the same master ports. *)
LEMMA SameMasters ==
    ASSUME NEW dests, NEW keys, NEW sorted, NEW arbiters, NEW amsels,
           NoSecondMSel(dests, keys, sorted, arbiters, amsels),
           NEW s \in DOMAIN dests, NEW r \in DOMAIN dests, amsels[s][1] = amsels[r][1]
    PROVE  dests[s] = dests[r]
<1> DEFINE a == ArbiterOf(arbiters, s)
           sets == MSelOrder(arbiters[a], sorted, keys)
<1>1. ASSUME NEW x \in DOMAIN dests
      PROVE  /\ ArbiterOf(arbiters, x) \in Nat /\ x \in arbiters[ArbiterOf(arbiters, x)]
             /\ amsels[x][1] = ArbiterOf(arbiters, x) - 1
  <2>1. ArbiterOf(arbiters, x) \in 1 .. Len(arbiters) /\ x \in arbiters[ArbiterOf(arbiters, x)]
    BY SlotsHaveArbiters DEF NoSecondMSel
  <2>2. amsels[x] = AMSelOf(x, arbiters, sorted, keys)
    BY DEF AMSels, NoSecondMSel
  <2> QED
    BY <2>1, <2>2 DEF AMSelOf
<1>2. ArbiterOf(arbiters, r) = a
  <2>1. a - 1 = ArbiterOf(arbiters, r) - 1 /\ a \in Nat /\ ArbiterOf(arbiters, r) \in Nat
    BY <1>1
  <2> QED
    BY <2>1
<1>3. ASSUME NEW x \in DOMAIN dests, ArbiterOf(arbiters, x) = a PROVE keys[x] = sets[1]
  <2>1. PICK k \in 1 .. Len(sorted) : sorted[k] = x
    BY DEF NoSecondMSel
  <2>2. PICK q : q = sets
    OBVIOUS
  <2>3. x \in arbiters[a]
    BY <1>1, <1>3
  <2>4. q \in Seq(Range(keys)) /\ keys[x] \in ToSet(q)
    <3>1. sorted \in Seq(DOMAIN keys)
      BY DEF NoSecondMSel
    <3>2. /\ q \in Seq(Range(keys))
          /\ \A i \in 1 .. Len(sorted) : sorted[i] \in arbiters[a] => keys[sorted[i]] \in ToSet(q)
      <4> HIDE DEF a
      <4> QED
        BY <2>2, <3>1, MSelsCover
    <3> QED
      BY <2>1, <2>3, <3>2
  <2>5. DOMAIN q = 1 .. Len(q) /\ Len(q) \in Nat
    BY <2>4, LenProperties
  <2>6. PICK j : j = CHOOSE i \in DOMAIN q : q[i] = keys[x]
    OBVIOUS
  <2>7. j \in DOMAIN q /\ q[j] = keys[x]
    BY <2>4, <2>6 DEF ToSet
  <2>8. amsels[x][2] = j - 1
    <3>1. amsels[x] = AMSelOf(x, arbiters, sorted, keys)
      BY DEF AMSels, NoSecondMSel
    <3> QED
      BY <1>3, <2>2, <2>6, <3>1 DEF AMSelOf
  <2>9. ~(j - 1 > 0)
    BY <2>8 DEF AMSels, NoSecondMSel
  <2>10. j = 1
    BY <2>5, <2>7, <2>9
  <2> QED
    BY <2>2, <2>7, <2>10
<1>4. keys[s] = keys[r]
  BY <1>1, <1>2, <1>3
<1>5. keys[s][1] = dests[s] /\ keys[r][1] = dests[r]
  BY DEF NoSecondMSel
<1> QED
  BY <1>4, <1>5

-------------------------------------------------------------------------------
(* The order of the groups by size and then by the smallest id that only one *)
(* of two has: First(g, h, m) if that is m, and it is in g.                  *)
First(g, h, m) == m \in g \ h /\ \A y \in Nat : y < m => (y \in g <=> y \in h)

LEMMA FirstIsMin ==
    ASSUME NEW g \in SUBSET Nat, NEW h \in SUBSET Nat
    PROVE  g # h /\ Min((g \ h) \cup (h \ g)) \in g <=> \E m \in Nat : First(g, h, m)
<1> DEFINE D == (g \ h) \cup (h \ g)
<1>1. D \in SUBSET Nat /\ (g # h <=> D # {}) /\ \A y \in Nat : y \in D <=> ~(y \in g <=> y \in h)
  OBVIOUS
<1>2. PICK d : d = Min(D)
  OBVIOUS
<1>3. D # {} => d \in D /\ \A y \in D : d <= y
  <2> HIDE DEF D
  <2> QED
    BY <1>1, <1>2, SmallestMin
<1>4. ASSUME g # h, d \in g PROVE First(g, h, d)
  <2>1. d \in g \ h /\ d \in Nat
    BY <1>1, <1>3, <1>4
  <2>2. ASSUME NEW y \in Nat, y < d PROVE y \notin D
    BY <1>1, <1>3, <1>4, <2>1, <2>2
  <2> QED
    BY <1>1, <2>1, <2>2 DEF First
<1>5. ASSUME NEW m \in Nat, First(g, h, m) PROVE g # h /\ d \in g
  <2>1. m \in D /\ m \in g
    BY <1>5 DEF First
  <2>2. d \in D /\ d <= m /\ d \in Nat
    BY <1>1, <1>3, <2>1
  <2>3. ~(d < m)
    BY <1>1, <1>5, <2>2 DEF First
  <2>4. d = m
    BY <2>2, <2>3
  <2> QED
    BY <1>1, <2>1, <2>4
<1> QED
  BY <1>2, <1>4, <1>5

(* There are finitely many packet ids.                                       *)
LEMMA PacketIdFinite == IsFiniteSet(PacketId) /\ PacketId \subseteq Nat
<1>1. MaskBits \in Nat /\ 2 \in Nat
  BY SwitchAssumption
<1>2. 2 ^ MaskBits \in Int
  BY <1>1
<1>3. 2 ^ MaskBits - 1 \in Int
  BY <1>2
<1> QED
  BY <1>3, FS_Interval DEF PacketId

(* sortGroupsBySize compares the groups by a strict order.                   *)
LEMMA SmallerIsStrict ==
    ASSUME NEW g \in SUBSET PacketId, NEW h \in SUBSET PacketId, NEW k \in SUBSET PacketId
    PROVE  /\ ~Smaller(g, g)
           /\ g = h \/ Smaller(g, h) \/ Smaller(h, g)
           /\ Smaller(g, h) /\ Smaller(h, k) => Smaller(g, k)
<1>1. \A x \in SUBSET PacketId : x \in SUBSET Nat /\ Cardinality(x) \in Nat
  BY PacketIdFinite, FS_Subset, FS_CardinalityType
<1>2. \A x, y \in SUBSET PacketId :
        Smaller(x, y) <=> \/ Cardinality(x) < Cardinality(y)
                          \/ Cardinality(x) = Cardinality(y) /\ \E m \in Nat : First(x, y, m)
  BY <1>1, FirstIsMin DEF Smaller
<1>3. ~Smaller(g, g)
  BY <1>1, <1>2 DEF First
<1>4. ASSUME g # h PROVE \E m \in Nat : First(g, h, m) \/ First(h, g, m)
  <2> DEFINE D == (g \ h) \cup (h \ g)
  <2>1. D \in SUBSET Nat /\ D # {}
    BY <1>1, <1>4
  <2>2. PICK m \in D : \A y \in D : ~(y < m)
    <3> HIDE DEF D
    <3> QED
      BY <2>1, Smallest
  <2>3. m \in Nat /\ \A y \in Nat : y < m => (y \in g <=> y \in h)
    BY <2>1, <2>2
  <2> QED
    BY <2>2, <2>3 DEF First
<1>5. g = h \/ Smaller(g, h) \/ Smaller(h, g)
  <2>1. Cardinality(g) < Cardinality(h) \/ Cardinality(h) < Cardinality(g) \/ Cardinality(g) = Cardinality(h)
    BY <1>1
  <2> QED
    BY <1>2, <1>4, <2>1
<1>6. ASSUME NEW m \in Nat, NEW n \in Nat, First(g, h, m), First(h, k, n)
      PROVE  \E l \in Nat : First(g, k, l)
  <2>1. m # n
    BY <1>6 DEF First
  <2>2. CASE m < n
    <3>1. First(g, k, m)
      BY <1>6, <2>2 DEF First
    <3> QED
      BY <3>1
  <2>3. CASE n < m
    <3>1. First(g, k, n)
      BY <1>6, <2>3 DEF First
    <3> QED
      BY <3>1
  <2> QED
    BY <2>1, <2>2, <2>3
<1>7. ASSUME Smaller(g, h), Smaller(h, k) PROVE Smaller(g, k)
  <2>1. Cardinality(g) \in Nat /\ Cardinality(h) \in Nat /\ Cardinality(k) \in Nat
    BY <1>1
  <2>2. CASE Cardinality(g) < Cardinality(h) \/ Cardinality(h) < Cardinality(k)
    <3>1. Cardinality(g) <= Cardinality(h) /\ Cardinality(h) <= Cardinality(k)
      BY <1>2, <1>7, <2>1
    <3>2. Cardinality(g) < Cardinality(k)
      BY <2>1, <2>2, <3>1
    <3> QED
      BY <1>2, <3>2
  <2>3. CASE ~(Cardinality(g) < Cardinality(h)) /\ ~(Cardinality(h) < Cardinality(k))
    BY <1>2, <1>6, <1>7, <2>3
  <2> QED
    BY <2>2, <2>3
<1> QED
  BY <1>3, <1>5, <1>7

(* sortGroupsBySize only reorders the groups.                                *)
LEMMA SortKeepsGroups ==
    ASSUME NEW gs \in Seq(SUBSET PacketId), NEW s, s = SortGroupsBySize(gs)
    PROVE  /\ s \in Seq(SUBSET PacketId)
           /\ \A k \in 1 .. Len(s) : \E i \in 1 .. Len(gs) : s[k] = gs[i]
<1> DEFINE I == 1 .. Len(gs)
           R == {p \in I \X I : Precedes(gs, p[1], p[2])}
<1>1. /\ Len(gs) \in Nat /\ DOMAIN gs = I /\ \A i \in I : gs[i] \in SUBSET PacketId
      /\ IsFiniteSet(I) /\ Cardinality(I) = Len(gs)
  <2>1. Len(gs) \in Nat /\ DOMAIN gs = I /\ \A i \in I : gs[i] \in SUBSET PacketId
    BY LenProperties
  <2>2. IsFiniteSet(I) /\ Cardinality(I) = Len(gs)
    <3>1. PICK n \in Nat : n = Len(gs)
      BY <2>1
    <3>2. IsFiniteSet(1 .. n) /\ Cardinality(1 .. n) = n
      BY FS_Interval
    <3> QED
      BY <3>1, <3>2
  <2> QED
    BY <2>1, <2>2
<1>2. \A i, j \in I : <<i, j>> \in R <=> Precedes(gs, i, j)
  OBVIOUS
<1>3. \A i \in I : {j \in I : Precedes(gs, j, i)} = Below(R, I, i)
  BY DEF Below
<1>4. StrictOrder(R, I)
  <2> HIDE DEF R
  <2>1. ASSUME NEW i \in I PROVE ~Precedes(gs, i, i)
    BY <1>1, SmallerIsStrict DEF Precedes
  <2>2. ASSUME NEW i \in I, NEW j \in I, NEW k \in I, Precedes(gs, i, j), Precedes(gs, j, k)
        PROVE  Precedes(gs, i, k)
    <3>1. gs[i] \in SUBSET PacketId /\ gs[j] \in SUBSET PacketId /\ gs[k] \in SUBSET PacketId
      BY <1>1
    <3>2. Smaller(gs[i], gs[j]) /\ Smaller(gs[j], gs[k]) => Smaller(gs[i], gs[k])
      BY <3>1, SmallerIsStrict
    <3>3. i < j /\ j < k => i < k
      OBVIOUS
    <3> HIDE DEF I
    <3> QED
      BY <2>2, <3>2, <3>3 DEF Precedes
  <2>3. ASSUME NEW i \in I, NEW j \in I PROVE i = j \/ Precedes(gs, i, j) \/ Precedes(gs, j, i)
    <3>1. gs[i] = gs[j] \/ Smaller(gs[i], gs[j]) \/ Smaller(gs[j], gs[i])
      BY <1>1, SmallerIsStrict
    <3>2. i = j \/ i < j \/ j < i
      BY <1>1
    <3> QED
      BY <3>1, <3>2 DEF Precedes
  <2> HIDE DEF I
  <2> QED
    BY <1>2, <2>1, <2>2, <2>3 DEF StrictOrder
<1> DEFINE at(k) == CHOOSE i \in I : Cardinality({j \in I : Precedes(gs, j, i)}) = k - 1
<1>5. ASSUME NEW k \in I PROVE at(k) \in I
  <2> HIDE DEF I, R
  <2>1. PICK x \in I : Cardinality(Below(R, I, x)) = k - 1
    BY <1>1, <1>4, Ranks DEF I
  <2>2. Cardinality({j \in I : Precedes(gs, j, x)}) = k - 1
    BY <1>3, <2>1
  <2> QED
    BY <2>2
<1>6. s = [k \in I |-> gs[at(k)]]
  BY <1>1 DEF SortGroupsBySize
<1> HIDE DEF at
<1>7. s \in [1 .. Len(gs) -> SUBSET PacketId]
  BY <1>1, <1>5, <1>6
<1>8. s \in Seq(SUBSET PacketId) /\ Len(s) = Len(gs)
  <2>1. Len(gs) \in Nat
    BY <1>1
  <2> QED
    BY <1>7, <2>1, SeqDef, LenProperties
<1> QED
  BY <1>5, <1>6, <1>8

-------------------------------------------------------------------------------
(* The groups of packet ids of a slave port: none is empty, and the ids of   *)
(* one have the same destinations (dests: those that the groups go by).      *)
GroupsSound(gs, in, dests) ==
    /\ gs \in Seq(SUBSET PacketId)
    /\ \A k \in 1 .. Len(gs) :
         /\ gs[k] # {}
         /\ \A x, y \in gs[k] : <<in, x>> \in DOMAIN dests /\ dests[<<in, x>>] = dests[<<in, y>>]
AllMasks == UNION {[D -> SUBSET (0 .. MaskBits - 1)] : D \in SUBSET PacketId}
SoundConfigs(in, dests) ==
    {c \in [groups : Seq(SUBSET PacketId), masks : AllMasks] : GroupsSound(c.groups, in, dests)}

(* updateGroupMask leaves a mask for every id it had one for.                *)
LEMMA UpdateKeepsMasks ==
    ASSUME NEW m \in AllMasks, NEW group \in SUBSET PacketId
    PROVE  UpdateGroupMask(m, group) \in AllMasks
<1>1. PICK D \in SUBSET PacketId : m \in [D -> SUBSET (0 .. MaskBits - 1)]
  BY DEF AllMasks
<1>2. MaskOf(group) \in SUBSET (0 .. MaskBits - 1)
  BY DEF MaskOf
<1>3. PICK f : f = UpdateGroupMask(m, group)
  OBVIOUS
<1>4. f = [id \in D \cup group |-> IF id \in group THEN MaskOf(group) ELSE m[id]]
  BY <1>1, <1>3 DEF UpdateGroupMask
<1>5. f \in [D \cup group -> SUBSET (0 .. MaskBits - 1)]
  BY <1>1, <1>2, <1>4
<1>6. D \cup group \in SUBSET PacketId
  BY <1>1
<1> QED
  BY <1>3, <1>5, <1>6 DEF AllMasks

(* An id that joins a group, or gets its own, keeps the groups sound.        *)
LEMMA AddKeepsSound ==
    ASSUME NEW in, NEW dests, NEW c \in SoundConfigs(in, dests),
           NEW slot, slot \in SlotsOn(DOMAIN dests, in), slot \in Slot
    PROVE  AddToGroups(c, slot, dests) \in SoundConfigs(in, dests)
<1> DEFINE x == slot[2]
           same == {i \in DOMAIN c.groups : dests[<<slot[1], Min(c.groups[i])>>] = dests[slot]}
           first == c.groups[Min(same)]
           joined == first \cup {x}
           merged == [groups |-> SortGroupsBySize([c.groups EXCEPT ![Min(same)] = joined]),
                      masks |-> UpdateGroupMask(c.masks, joined)]
           reverted == IF same = {} THEN c.masks ELSE UpdateGroupMask(merged.masks, first)
           alone == [groups |-> SortGroupsBySize(Append(c.groups, {x})),
                     masks |-> UpdateGroupMask(reverted, {x})]
<1>1. PICK gs : gs = c.groups
  OBVIOUS
<1>2. /\ gs \in Seq(SUBSET PacketId) /\ c.masks \in AllMasks /\ GroupsSound(gs, in, dests)
      /\ DOMAIN gs = 1 .. Len(gs) /\ Len(gs) \in Nat
      /\ \A k \in 1 .. Len(gs) : gs[k] \in SUBSET PacketId
  <2>1. gs \in Seq(SUBSET PacketId) /\ c.masks \in AllMasks /\ GroupsSound(gs, in, dests)
    BY <1>1 DEF SoundConfigs
  <2> QED
    BY <2>1, LenProperties
<1>3. /\ slot \in DOMAIN dests /\ slot[1] = in /\ x \in PacketId /\ slot = <<in, x>>
  BY SlotFacts DEF SlotsOn, Slot
\* Sorting keeps sound groups sound.
<1>4. ASSUME NEW q, GroupsSound(q, in, dests) PROVE GroupsSound(SortGroupsBySize(q), in, dests)
  <2>1. PICK r : r = SortGroupsBySize(q)
    OBVIOUS
  <2>2. r \in Seq(SUBSET PacketId) /\ \A k \in 1 .. Len(r) : \E i \in 1 .. Len(q) : r[k] = q[i]
    BY <1>4, <2>1, SortKeepsGroups DEF GroupsSound
  <2>3. ASSUME NEW k \in 1 .. Len(r)
        PROVE  /\ r[k] # {}
               /\ \A y, z \in r[k] : <<in, y>> \in DOMAIN dests /\ dests[<<in, y>>] = dests[<<in, z>>]
    <3>1. PICK i \in 1 .. Len(q) : r[k] = q[i]
      BY <2>2
    <3>2. PICK g : g = q[i] /\ g = r[k]
      BY <3>1
    <3>3. /\ g # {}
          /\ \A y, z \in g : <<in, y>> \in DOMAIN dests /\ dests[<<in, y>>] = dests[<<in, z>>]
      BY <1>4, <3>2 DEF GroupsSound
    <3> QED
      BY <3>2, <3>3
  <2>4. GroupsSound(r, in, dests)
    BY <2>2, <2>3 DEF GroupsSound
  <2> QED
    BY <2>1, <2>4
<1>5. GroupsSound(Append(gs, {x}), in, dests)
  <2>1. {x} \in SUBSET PacketId
    BY <1>3
  <2>2. PICK q : q = Append(gs, {x})
    OBVIOUS
  <2>3. /\ q \in Seq(SUBSET PacketId) /\ Len(q) = Len(gs) + 1 /\ q[Len(gs) + 1] = {x}
        /\ \A i \in 1 .. Len(gs) : q[i] = gs[i]
    BY <1>2, <2>1, <2>2, AppendProperties
  <2>4. ASSUME NEW k \in 1 .. Len(q)
        PROVE  /\ q[k] # {}
               /\ \A y, z \in q[k] : <<in, y>> \in DOMAIN dests /\ dests[<<in, y>>] = dests[<<in, z>>]
    <3>1. CASE k = Len(gs) + 1
      <4>1. q[k] = {x}
        BY <2>3, <3>1
      <4> QED
        BY <1>3, <4>1
    <3>2. CASE k \in 1 .. Len(gs)
      BY <1>2, <2>3, <3>2 DEF GroupsSound
    <3>3. k = Len(gs) + 1 \/ k \in 1 .. Len(gs)
      BY <1>2, <2>3
    <3> QED
      BY <3>1, <3>2, <3>3
  <2>5. GroupsSound(q, in, dests)
    BY <2>3, <2>4 DEF GroupsSound
  <2> QED
    BY <2>2, <2>5
<1>6. ASSUME same # {}
      PROVE  /\ first \in SUBSET PacketId /\ joined \in SUBSET PacketId
             /\ GroupsSound([gs EXCEPT ![Min(same)] = joined], in, dests)
  <2>1. PICK m : m = Min(same)
    OBVIOUS
  <2>2. m \in same /\ m \in 1 .. Len(gs)
    <3>1. same \in SUBSET Nat /\ same \subseteq 1 .. Len(gs)
      BY <1>1, <1>2
    <3> HIDE DEF same
    <3> QED
      BY <1>6, <2>1, <3>1, SmallestMin
  <2>3. dests[<<in, Min(gs[m])>>] = dests[slot]
    BY <1>1, <1>3, <2>2
  <2>4. gs[m] \in SUBSET PacketId /\ gs[m] # {} /\ Min(gs[m]) \in gs[m]
    <3>1. gs[m] \in SUBSET PacketId /\ gs[m] # {}
      BY <1>2, <2>2 DEF GroupsSound
    <3> QED
      BY <3>1, PacketIdFinite, SmallestMin
  <2>5. \A y \in gs[m] : <<in, y>> \in DOMAIN dests /\ dests[<<in, y>>] = dests[slot]
    BY <1>2, <2>2, <2>3, <2>4 DEF GroupsSound
  <2>6. first = gs[m] /\ joined = gs[m] \cup {x}
    BY <1>1, <2>1
  <2>7. joined \in SUBSET PacketId
    BY <1>3, <2>4, <2>6
  <2> HIDE DEF same, first, joined, x
  <2>8. PICK q : q = [gs EXCEPT ![m] = joined]
    OBVIOUS
  <2>9. /\ q \in Seq(SUBSET PacketId) /\ Len(q) = Len(gs)
        /\ \A i \in 1 .. Len(gs) : q[i] = IF i = m THEN joined ELSE gs[i]
    BY <1>2, <2>2, <2>7, <2>8, ExceptSeq
  <2>10. ASSUME NEW k \in 1 .. Len(gs)
         PROVE  /\ q[k] # {}
                /\ \A y, z \in q[k] : <<in, y>> \in DOMAIN dests /\ dests[<<in, y>>] = dests[<<in, z>>]
    <3>1. CASE k = m
      <4>1. q[k] = gs[m] \cup {x}
        BY <2>6, <2>9, <3>1
      <4>2. \A y \in q[k] : <<in, y>> \in DOMAIN dests /\ dests[<<in, y>>] = dests[slot]
        BY <1>3, <2>5, <4>1
      <4> QED
        BY <4>1, <4>2
    <3>2. CASE k # m
      BY <1>2, <2>9, <3>2 DEF GroupsSound
    <3> QED
      BY <3>1, <3>2
  <2>11. GroupsSound(q, in, dests)
    BY <2>9, <2>10 DEF GroupsSound
  <2> QED
    BY <2>1, <2>4, <2>6, <2>7, <2>8, <2>11
<1>7. \/ same # {} /\ AddToGroups(c, slot, dests) = merged
      \/ AddToGroups(c, slot, dests) = alone
  BY DEF AddToGroups
<1>8. ASSUME same # {} PROVE merged \in SoundConfigs(in, dests)
  <2>1. PICK ng, nm : ng = merged.groups /\ nm = merged.masks
    OBVIOUS
  <2>2. ng = SortGroupsBySize([gs EXCEPT ![Min(same)] = joined]) /\ nm = UpdateGroupMask(c.masks, joined)
    BY <1>1, <2>1
  <2> HIDE DEF same, first, joined
  <2>3. GroupsSound(ng, in, dests) /\ nm \in AllMasks
    BY <1>2, <1>4, <1>6, <1>8, <2>2, UpdateKeepsMasks
  <2>4. merged = [groups |-> ng, masks |-> nm]
    BY <2>1
  <2> HIDE DEF merged
  <2> QED
    BY <2>3, <2>4 DEF SoundConfigs, GroupsSound
<1>9. alone \in SoundConfigs(in, dests)
  <2>1. reverted \in AllMasks
    <3>1. CASE same = {}
      BY <1>2, <3>1
    <3>2. CASE same # {}
      <4>1. merged.masks \in AllMasks
        BY <1>8, <3>2 DEF SoundConfigs
      <4>2. reverted = UpdateGroupMask(merged.masks, first)
        BY <3>2
      <4>3. first \in SUBSET PacketId
        BY <1>6, <3>2
      <4> HIDE DEF reverted, merged, first
      <4> QED
        BY <4>1, <4>2, <4>3, UpdateKeepsMasks
    <3> QED
      BY <3>1, <3>2
  <2>2. PICK ng, nm : ng = SortGroupsBySize(Append(gs, {x})) /\ nm = UpdateGroupMask(reverted, {x})
    OBVIOUS
  <2>3. alone = [groups |-> ng, masks |-> nm]
    BY <1>1, <2>2
  <2> HIDE DEF reverted, alone, x
  <2>4. {x} \in SUBSET PacketId
    BY <1>3
  <2>5. GroupsSound(ng, in, dests) /\ nm \in AllMasks
    BY <1>4, <1>5, <2>1, <2>2, <2>4, UpdateKeepsMasks
  <2> QED
    BY <2>3, <2>5 DEF SoundConfigs, GroupsSound
<1> HIDE DEF same, merged, alone
<1> QED
  BY <1>7, <1>8, <1>9

-------------------------------------------------------------------------------
(* AddAll adds the slots that come up, in every order.                       *)
IsAddAll(f, c, visits, dests) ==
    f = [n \in 0 .. Cardinality(visits) |->
           IF n = 0 THEN {<<c, visits>>} ELSE AddAny(f[n - 1], dests)]
OnPort(visits, in, dests) ==
    IsFiniteSet(visits) /\ \A v \in visits : v[1] \in SlotsOn(DOMAIN dests, in) /\ v[1] \in Slot

(* One more slot, whichever is left, keeps the groups sound.                 *)
LEMMA AddAnyKeepsSound ==
    ASSUME NEW in, NEW dests, NEW visits, OnPort(visits, in, dests),
           NEW left, left \in SUBSET (SoundConfigs(in, dests) \X SUBSET visits)
    PROVE  AddAny(left, dests) \in SUBSET (SoundConfigs(in, dests) \X SUBSET visits)
<1>1. ASSUME NEW l \in left, NEW v \in l[2]
      PROVE  <<AddToGroups(l[1], v[1], dests), l[2] \ {v}>> \in SoundConfigs(in, dests) \X SUBSET visits
  <2>1. l[1] \in SoundConfigs(in, dests) /\ l[2] \in SUBSET visits
    OBVIOUS
  <2>2. v[1] \in SlotsOn(DOMAIN dests, in) /\ v[1] \in Slot
    BY <2>1 DEF OnPort
  <2>3. AddToGroups(l[1], v[1], dests) \in SoundConfigs(in, dests)
    BY <2>1, <2>2, AddKeepsSound
  <2> QED
    BY <2>1, <2>3
<1> QED
  BY <1>1 DEF AddAny

(* So the groups of a slave port are sound when all slots have come up.      *)
LEMMA AddAllSound ==
    ASSUME NEW in, NEW dests, NEW visits, OnPort(visits, in, dests),
           NEW c \in SoundConfigs(in, dests)
    PROVE  AddAll(c, visits, dests) \subseteq SoundConfigs(in, dests)
<1> DEFINE N == Cardinality(visits)
           St == SUBSET (SoundConfigs(in, dests) \X SUBSET visits)
           H == [x \in (1 .. N) \X St |-> AddAny(x[2], dests)]
           start == {<<c, visits>>}
<1>1. N \in Nat
  BY FS_CardinalityType DEF OnPort
<1>2. start \in St
  OBVIOUS
<1>3. \A x \in St : AddAny(x, dests) \in St
  BY AddAnyKeepsSound
<1> HIDE DEF N, St, start
<1>4. H \in [(1 .. N) \X St -> St]
  BY <1>3
<1>5. PICK f \in [0 .. N -> St] : Steps(f, start, H, N)
  <2> HIDE DEF H
  <2> QED
    BY <1>1, <1>2, <1>4, StepsExist
<1>6. IsAddAll(f, c, visits, dests)
  <2>1. ASSUME NEW n \in 1 .. N PROVE f[n] = AddAny(f[n - 1], dests)
    <3>1. n - 1 \in 0 .. N
      BY <1>1
    <3>2. f[n - 1] \in St
      BY <1>5, <3>1
    <3> QED
      BY <1>5, <3>2 DEF Steps
  <2>2. f[0] = start
    BY <1>5 DEF Steps
  <2>3. f = [n \in 0 .. N |-> f[n]]
    BY <1>5
  <2>4. \A n \in 0 .. N : f[n] = IF n = 0 THEN start ELSE AddAny(f[n - 1], dests)
    BY <1>1, <2>1, <2>2
  <2> QED
    BY <2>3, <2>4 DEF IsAddAll, N, start
<1>7. PICK g : IsAddAll(g, c, visits, dests) /\ AddAll(c, visits, dests) = {l[1] : l \in g[N]}
  <2> DEFINE h == CHOOSE k : IsAddAll(k, c, visits, dests)
  <2>1. IsAddAll(h, c, visits, dests)
    BY <1>6
  <2>2. AddAll(c, visits, dests) = {l[1] : l \in h[N]}
    BY DEF AddAll, IsAddAll, N
  <2> HIDE DEF h
  <2> QED
    BY <2>1, <2>2
<1>8. \A n \in 0 .. N : g[n] = IF n = 0 THEN start ELSE AddAny(g[n - 1], dests)
  BY <1>7 DEF IsAddAll, N, start
<1> DEFINE T == {n \in 0 .. N : g[n] \in St}
<1>9. 0 .. N \subseteq T
  <2>1. 0 \in T
    BY <1>1, <1>2, <1>8
  <2>2. ASSUME NEW n \in 1 .. N, n - 1 \in T PROVE n \in T
    <3>1. n \in 0 .. N /\ n # 0 /\ g[n - 1] \in St
      BY <1>1, <2>2
    <3> QED
      BY <1>3, <1>8, <3>1
  <2> HIDE DEF T
  <2> QED
    BY <1>1, <2>1, <2>2, UpToN
<1>10. g[N] \in St
  <2>1. N \in 0 .. N
    BY <1>1
  <2> QED
    BY <1>9, <2>1
<1> QED
  BY <1>7, <1>10 DEF St

(* So they are after the earlier slots and then the new ones.                *)
LEMMA SlaveGroupsSound ==
    ASSUME NEW in, NEW dests, NEW prior, OnPort(prior, in, dests), NEW new, OnPort(new, in, dests)
    PROVE  SlaveGroups(prior, new, dests) \subseteq SoundConfigs(in, dests)
<1>1. NoGroups \in SoundConfigs(in, dests)
  <2>1. <<>> \in Seq(SUBSET PacketId) /\ Len(<<>>) = 0
    BY EmptySeq
  <2>2. <<>> \in AllMasks
    <3>1. <<>> \in [{} -> SUBSET (0 .. MaskBits - 1)]
      OBVIOUS
    <3>2. {} \in SUBSET PacketId
      OBVIOUS
    <3> QED
      BY <3>1, <3>2 DEF AllMasks
  <2>3. GroupsSound(<<>>, in, dests)
    BY <2>1 DEF GroupsSound
  <2> QED
    BY <2>1, <2>2, <2>3 DEF NoGroups, SoundConfigs
<1>2. AddAll(NoGroups, prior, dests) \subseteq SoundConfigs(in, dests)
  BY <1>1, AddAllSound
<1>3. \A c \in AddAll(NoGroups, prior, dests) : AddAll(c, new, dests) \subseteq SoundConfigs(in, dests)
  BY <1>2, AddAllSound
<1> QED
  BY <1>3 DEF SlaveGroups

-------------------------------------------------------------------------------
(* The rules of a slave port: each that lists an id takes the amsel of a     *)
(* slot of the port with the same destinations as that id's.                 *)
RuleSound(rs, in, dests, amsels) ==
    /\ IsFiniteSet(DOMAIN rs)
    /\ \A k \in DOMAIN rs : \A id \in rs[k].ids :
         /\ <<in, id>> \in DOMAIN dests
         /\ \E l \in SlotsOn(DOMAIN dests, in) : rs[k].amsel = amsels[l] /\ dests[l] = dests[<<in, id>>]

\* Tables of rules that the tile has already.
TablesFinite(old) == \A in \in DOMAIN old : IsFiniteSet(DOMAIN old[in])

(* A slot comes up finitely often: once per rule it is in, or connection.    *)
LEMMA VisitsFinite ==
    ASSUME NEW prior, DOMAIN prior \subseteq Slot, NEW new, DOMAIN new \subseteq Slot, NEW in,
           NEW earlier, IsFiniteSet(DOMAIN earlier)
    PROVE  /\ OnPort(PriorVisits(earlier, prior, in), in, Grouping(prior, new))
           /\ OnPort(NewVisits(new, in), in, Grouping(prior, new))
<1> DEFINE dests == Grouping(prior, new)
           P == SlotsOn(DOMAIN prior, in)
           N == SlotsOn(DOMAIN new, in)
<1>1. DOMAIN dests = DOMAIN prior \cup DOMAIN new
  BY DEF Grouping
<1>2. /\ P \in SUBSET Slot /\ N \in SUBSET Slot
      /\ P \subseteq SlotsOn(DOMAIN dests, in) /\ N \subseteq SlotsOn(DOMAIN dests, in)
  BY <1>1 DEF SlotsOn
<1>3. IsFiniteSet(P) /\ IsFiniteSet(N)
  BY <1>2, SlotFinite, FS_Subset
<1>4. IsFiniteSet(Port)
  <2> DEFINE I == 1 .. Len(PortOrder)
  <2>1. Len(PortOrder) \in Nat /\ PortOrder \in [I -> Port] /\ DOMAIN PortOrder = I
    BY PortsAssumption, LenProperties
  <2>2. PortOrder \in Surjection(I, Port)
    BY <2>1, PortsAssumption DEF Surjection, ToSet
  <2>3. IsFiniteSet(I)
    BY <2>1, FS_Interval
  <2> HIDE DEF I
  <2> QED
    BY <2>2, <2>3, FS_Surjection
<1> HIDE DEF P, N, dests
<1>5. IsFiniteSet(P \X DOMAIN earlier) /\ IsFiniteSet(N \X Port)
  BY <1>3, <1>4, FS_Product
<1>6. OnPort(PriorVisits(earlier, prior, in), in, dests)
  <2>1. PriorVisits(earlier, prior, in) \in SUBSET (P \X DOMAIN earlier)
    BY DEF PriorVisits, P
  <2>2. \A v \in P \X DOMAIN earlier : v[1] \in P
    OBVIOUS
  <2>3. IsFiniteSet(PriorVisits(earlier, prior, in))
    BY <1>5, <2>1, FS_Subset
  <2> QED
    BY <1>2, <2>1, <2>2, <2>3 DEF OnPort
<1>7. OnPort(NewVisits(new, in), in, dests)
  <2>1. NewVisits(new, in) \in SUBSET (N \X Port)
    BY DEF NewVisits, N
  <2>2. \A v \in N \X Port : v[1] \in N
    OBVIOUS
  <2>3. IsFiniteSet(NewVisits(new, in))
    BY <1>5, <2>1, FS_Subset
  <2> QED
    BY <1>2, <2>1, <2>2, <2>3 DEF OnPort
<1> QED
  BY <1>6, <1>7 DEF dests

(* A rule has the amsel of its smallest id, whose destinations all have.     *)
LEMMA RuleChoicesSound ==
    ASSUME NEW old, TablesFinite(old),
           NEW prior, DOMAIN prior \subseteq Slot, NEW new, DOMAIN new \subseteq Slot,
           NEW amsels, NEW in, NEW rs \in RuleChoices(old, prior, new, amsels, in)
    PROVE  RuleSound(rs, in, Grouping(prior, new), amsels)
<1> DEFINE earlier == IF in \in DOMAIN old THEN old[in] ELSE <<>>
           dests == Grouping(prior, new)
<1>1. PICK c \in SlaveGroups(PriorVisits(earlier, prior, in), NewVisits(new, in), dests) :
        rs = RulesOf(in, c, amsels)
  BY DEF RuleChoices
<1>2. IsFiniteSet(DOMAIN earlier)
  <2>1. CASE in \in DOMAIN old
    BY <2>1 DEF TablesFinite
  <2>2. CASE in \notin DOMAIN old
    <3>1. DOMAIN earlier = {}
      BY <2>2
    <3> QED
      BY <3>1, FS_EmptySet
  <2> QED
    BY <2>1, <2>2
<1>3. c \in SoundConfigs(in, dests)
  <2> HIDE DEF earlier
  <2>1. /\ OnPort(PriorVisits(earlier, prior, in), in, dests)
        /\ OnPort(NewVisits(new, in), in, dests)
    BY <1>2, VisitsFinite
  <2> HIDE DEF dests
  <2> QED
    BY <1>1, <2>1, SlaveGroupsSound
<1> HIDE DEF earlier, dests
<1>4. PICK gs : gs = c.groups
  OBVIOUS
<1>5. GroupsSound(gs, in, dests) /\ gs \in Seq(SUBSET PacketId)
  BY <1>3, <1>4 DEF SoundConfigs, GroupsSound
<1>6. /\ DOMAIN gs = 1 .. Len(gs) /\ IsFiniteSet(DOMAIN gs)
      /\ \A k \in DOMAIN gs : gs[k] \in SUBSET PacketId
  BY <1>5, LenProperties, FS_Interval
<1>7. /\ DOMAIN rs = DOMAIN gs
      /\ \A k \in DOMAIN gs : rs[k].ids = gs[k] /\ rs[k].amsel = amsels[<<in, Min(gs[k])>>]
  BY <1>1, <1>4 DEF RulesOf
<1>8. ASSUME NEW k \in DOMAIN gs, NEW id \in gs[k]
      PROVE  /\ <<in, id>> \in DOMAIN dests
             /\ <<in, Min(gs[k])>> \in SlotsOn(DOMAIN dests, in)
             /\ dests[<<in, Min(gs[k])>>] = dests[<<in, id>>]
  <2>1. PICK g : g = gs[k]
    OBVIOUS
  <2>2. g \in SUBSET Nat /\ g # {}
    BY <1>6, <1>8, <2>1, PacketIdFinite
  <2>3. Min(g) \in g
    BY <2>2, SmallestMin
  <2>4. \A x, y \in g : <<in, x>> \in DOMAIN dests /\ dests[<<in, x>>] = dests[<<in, y>>]
    BY <1>5, <1>6, <2>1 DEF GroupsSound
  <2> QED
    BY <1>8, <2>1, <2>3, <2>4 DEF SlotsOn
<1>9. ASSUME NEW k \in DOMAIN rs, NEW id \in rs[k].ids
      PROVE  /\ <<in, id>> \in DOMAIN dests
             /\ \E l \in SlotsOn(DOMAIN dests, in) : rs[k].amsel = amsels[l] /\ dests[l] = dests[<<in, id>>]
  <2>1. k \in DOMAIN gs /\ id \in gs[k] /\ rs[k].amsel = amsels[<<in, Min(gs[k])>>]
    BY <1>7
  <2>2. PICK l : l = <<in, Min(gs[k])>>
    OBVIOUS
  <2>3. <<in, id>> \in DOMAIN dests /\ l \in SlotsOn(DOMAIN dests, in) /\ dests[l] = dests[<<in, id>>]
    BY <1>8, <2>1, <2>2
  <2> QED
    BY <2>1, <2>2, <2>3
<1>10. RuleSound(rs, in, dests, amsels)
  BY <1>6, <1>7, <1>9 DEF RuleSound
<1> QED
  BY <1>10 DEF dests

IsAllRules(f, old, prior, new, amsels, slaves) ==
    f = [n \in 0 .. Len(slaves) |->
          IF n = 0 THEN {<<>>}
          ELSE WithRules(f[n - 1], slaves[n], RuleChoices(old, prior, new, amsels, slaves[n]))]

(* The rules of all slave ports of a tile are sound.                         *)
LEMMA AllRulesSound ==
    ASSUME NEW old, TablesFinite(old),
           NEW prior, DOMAIN prior \subseteq Slot, NEW new, DOMAIN new \subseteq Slot,
           NEW amsels, NEW slaves, Len(slaves) \in Nat,
           NEW chosen \in AllRules(old, prior, new, amsels, slaves)
    PROVE  \A in \in DOMAIN chosen : RuleSound(chosen[in], in, Grouping(prior, new), amsels)
<1> DEFINE N == Len(slaves)
           Ports == {slaves[n] : n \in 1 .. N}
           Rules == UNION {RuleChoices(old, prior, new, amsels, in) : in \in Ports}
           F == {c \in UNION {[D -> Rules] : D \in SUBSET Ports} :
                   \A in \in DOMAIN c : c[in] \in RuleChoices(old, prior, new, amsels, in)}
           St == SUBSET F
           More(n, x) == WithRules(x, slaves[n], RuleChoices(old, prior, new, amsels, slaves[n]))
           H == [x \in (1 .. N) \X St |-> More(x[1], x[2])]
<1>1. ASSUME NEW n \in 1 .. N, NEW x \in St PROVE More(n, x) \in St
  <2>1. ASSUME NEW c \in x, NEW rs \in RuleChoices(old, prior, new, amsels, slaves[n])
        PROVE  WithPort(c, slaves[n], rs) \in F
    <3> DEFINE d == WithPort(c, slaves[n], rs)
    <3>1. c \in F /\ slaves[n] \in Ports /\ rs \in Rules
      OBVIOUS
    <3>2. /\ DOMAIN d = {slaves[n]} \cup DOMAIN c
          /\ d = [in \in DOMAIN d |-> d[in]]
          /\ \A in \in DOMAIN d : d[in] = IF in = slaves[n] THEN rs ELSE c[in]
      BY DEF WithPort
    <3> HIDE DEF d, Ports, Rules
    <3>3. PICK D \in SUBSET Ports : c \in [D -> Rules]
      BY <3>1
    <3>4. DOMAIN c = D /\ \A in \in D : c[in] \in Rules /\ c[in] \in RuleChoices(old, prior, new, amsels, in)
      BY <3>1, <3>3
    <3>5. DOMAIN d \in SUBSET Ports
      BY <3>1, <3>2, <3>4
    <3>6. \A in \in DOMAIN d : d[in] \in Rules /\ d[in] \in RuleChoices(old, prior, new, amsels, in)
      BY <2>1, <3>1, <3>2, <3>4
    <3>7. d \in [DOMAIN d -> Rules]
      BY <3>2, <3>6
    <3>8. d \in F
      BY <3>5, <3>6, <3>7
    <3> QED
      BY <3>8 DEF d
  <2> HIDE DEF F
  <2>2. ASSUME NEW d \in More(n, x) PROVE d \in F
    <3>1. PICK c \in x, rs \in RuleChoices(old, prior, new, amsels, slaves[n]) :
            d = WithPort(c, slaves[n], rs)
      BY DEF WithRules
    <3> QED
      BY <2>1, <3>1
  <2> HIDE DEF More
  <2> QED
    BY <2>2
<1>2. {<<>>} \in St
  <2>1. <<>> \in [{} -> Rules] /\ DOMAIN <<>> = {}
    OBVIOUS
  <2>2. {} \in SUBSET Ports
    OBVIOUS
  <2> HIDE DEF Ports, Rules
  <2> QED
    BY <2>1, <2>2
<1>3. H \in [(1 .. N) \X St -> St]
  <2> HIDE DEF N, St, More
  <2> QED
    BY <1>1
<1>4. PICK f \in [0 .. N -> St] : Steps(f, {<<>>}, H, N)
  <2>1. N \in Nat
    OBVIOUS
  <2> HIDE DEF N, St, H
  <2> QED
    BY <1>2, <1>3, <2>1, StepsExist
<1>5. IsAllRules(f, old, prior, new, amsels, slaves)
  <2>1. ASSUME NEW n \in 1 .. N PROVE f[n] = More(n, f[n - 1])
    <3>1. n - 1 \in 0 .. N
      OBVIOUS
    <3> HIDE DEF St, N, More
    <3>2. f[n - 1] \in St
      BY <1>4, <3>1
    <3> QED
      BY <1>4, <3>2 DEF Steps
  <2>2. f[0] = {<<>>}
    BY <1>4 DEF Steps
  <2> HIDE DEF St
  <2>3. f = [n \in 0 .. N |-> f[n]]
    BY <1>4
  <2>4. \A n \in 0 .. N : f[n] = IF n = 0 THEN {<<>>} ELSE More(n, f[n - 1])
    BY <2>1, <2>2
  <2> QED
    BY <2>3, <2>4 DEF IsAllRules
<1>6. PICK g : IsAllRules(g, old, prior, new, amsels, slaves) /\ AllRules(old, prior, new, amsels, slaves) = g[N]
  <2> DEFINE c == CHOOSE h : IsAllRules(h, old, prior, new, amsels, slaves)
  <2>1. IsAllRules(c, old, prior, new, amsels, slaves)
    BY <1>5
  <2>2. AllRules(old, prior, new, amsels, slaves) = c[N]
    BY DEF AllRules, IsAllRules
  <2> QED
    BY <2>1, <2>2
<1>7. \A n \in 0 .. N : g[n] = IF n = 0 THEN {<<>>} ELSE More(n, g[n - 1])
  BY <1>6 DEF IsAllRules
<1> DEFINE T == {n \in 0 .. N : g[n] \in St}
<1>8. 0 .. N \subseteq T
  <2> HIDE DEF St, More
  <2>1. 0 \in T
    BY <1>2, <1>7
  <2>2. ASSUME NEW n \in 1 .. N, n - 1 \in T PROVE n \in T
    <3>1. n \in 0 .. N /\ n # 0 /\ g[n - 1] \in St
      BY <2>2
    <3> QED
      BY <1>1, <1>7, <3>1
  <2>3. N \in Nat
    OBVIOUS
  <2> HIDE DEF T, N
  <2> QED
    BY <2>1, <2>2, <2>3, UpToN
<1>9. chosen \in F
  <2>1. N \in 0 .. N
    OBVIOUS
  <2> HIDE DEF F, N
  <2> QED
    BY <1>6, <1>8, <2>1
<1>10. \A in \in DOMAIN chosen : chosen[in] \in RuleChoices(old, prior, new, amsels, in)
  BY <1>9
<1> QED
  BY <1>10, RuleChoicesSound

-------------------------------------------------------------------------------
(* What is written for a tile: every master port listens to one arbiter;     *)
(* every slot with a rule has master ports; and with the option, two slots   *)
(* share no master port or all.                                              *)
FlowMap(f) == DOMAIN f \subseteq Slot /\ \A s \in DOMAIN f : f[s] # {}

OneArbiter(ms) == \A out \in DOMAIN ms : \A m, n \in ms[out] : m[1] = n[1]

NoPartial(served) ==
    \A s, r \in DOMAIN served : Overlap(served[s], served[r]) => served[s] = served[r]

TileSound(rs, ms) ==
    /\ OneArbiter(ms)
    /\ TablesFinite(rs) /\ FlowMap(Served(rs, ms))
    /\ detect => NoPartial(Served(rs, ms))

(* What it means that a slot is served.                                      *)
LEMMA ServedFacts ==
    ASSUME NEW rs, NEW ms, NEW s \in DOMAIN Served(rs, ms)
    PROVE  /\ s \in Slot /\ s[1] \in DOMAIN rs
           /\ \E k \in DOMAIN rs[s[1]] : s[2] \in rs[s[1]][k].ids
           /\ \A out : out \in Served(rs, ms)[s] <=>
                /\ out \in DOMAIN ms
                /\ \E k \in DOMAIN rs[s[1]] : /\ s[2] \in rs[s[1]][k].ids
                                             /\ rs[s[1]][k].amsel \in ms[out]
  BY DEF Served, ToSet

(* The key of a slot holds the set of its master ports.                      *)
LEMMA KeysFacts ==
    ASSUME NEW dests, NEW keys \in Keys(dests)
    PROVE  DOMAIN keys = DOMAIN dests /\ \A s \in DOMAIN dests : keys[s][1] = dests[s]
<1> DEFINE several == {s \in DOMAIN dests : Cardinality(dests[s]) > 1}
<1>1. PICK f : keys = [s \in DOMAIN dests |-> <<dests[s], IF s \in several THEN f[s] ELSE <<>>>>]
  BY Zenon DEF Keys
<1> HIDE DEF several
<1>2. DOMAIN keys = DOMAIN dests
  BY <1>1
<1>3. ASSUME NEW s \in DOMAIN dests PROVE keys[s][1] = dests[s]
  <2>1. PICK x : keys[s] = <<dests[s], x>>
    BY <1>1
  <2> QED
    BY <2>1
<1> QED
  BY <1>2, <1>3

(* runOnPacketFlow configures every tile soundly, whatever flows it is given. *)
LEMMA ConfigsSound ==
    ASSUME NEW t, FlowMap(priorFlows[t]), FlowMap(packetFlows[t]), TablesFinite(rules[t]),
           NEW keys \in Keys(AllFlows(priorFlows[t], packetFlows[t])), NEW c \in TileConfigs(t, keys)
    PROVE  TileSound(c.rules, c.masters)
<1> DEFINE prior == priorFlows[t]
           new == packetFlows[t]
           dests == AllFlows(prior, new)
           first == Grouping(prior, new)
           sorted == SortBySrc(DOMAIN prior, DOMAIN new)
           arbiters == Solve(PortGroups(sorted, dests), keys)
           amsels == AMSels(arbiters, sorted, keys)
           slaves == SetToSeq({s[1] : s \in DOMAIN dests})
<1>1. /\ DOMAIN dests = DOMAIN prior \cup DOMAIN new /\ DOMAIN dests \subseteq Slot
      /\ DOMAIN prior \subseteq Slot /\ DOMAIN new \subseteq Slot
      /\ \A s \in DOMAIN dests : dests[s] # {}
      /\ DOMAIN first = DOMAIN dests
      /\ \A s \in DOMAIN dests : first[s] # {} /\ first[s] \subseteq dests[s]
  BY DEF AllFlows, MastersOf, FlowMap, Grouping
<1>2. /\ sorted \in Seq(DOMAIN dests)
      /\ \A s \in DOMAIN dests : \E k \in 1 .. Len(sorted) : sorted[k] = s
  <2>1. /\ sorted \in Seq(DOMAIN prior \cup DOMAIN new)
        /\ \A s \in DOMAIN prior \cup DOMAIN new : \E k \in 1 .. Len(sorted) : sorted[k] = s
    <3>1. DOMAIN prior \in SUBSET Slot /\ DOMAIN new \in SUBSET Slot
      BY <1>1
    <3> QED
      BY <3>1, SortedSlots
  <2> HIDE DEF dests, sorted
  <2> QED
    BY <1>1, <2>1
<1>3. IsFiniteSet(DOMAIN dests)
  BY <1>1, SlotFinite, FS_Subset
<1>4. PICK chosen : /\ chosen \in AllRules(rules[t], prior, new, amsels, slaves)
                    /\ c = [rules |-> chosen, masters |-> MasterSets(dests, amsels)]
                    /\ arbiters # NoSolution /\ ~PotentialDeadlock(amsels)
  BY Zenon DEF TileConfigs
<1>5. Len(slaves) \in Nat
  <2> DEFINE P == {s[1] : s \in DOMAIN dests}
  <2>1. IsFiniteSet(P)
    <3>1. PICK f : f = [s \in DOMAIN dests |-> s[1]]
      OBVIOUS
    <3>2. f \in Surjection(DOMAIN dests, P)
      BY <3>1 DEF Surjection
    <3> QED
      BY <1>3, <3>2, FS_Surjection
  <2> HIDE DEF P
  <2>2. PICK f : f \in [1 .. Cardinality(P) -> P] /\ IsInjective(f)
    BY <2>1, FS_CardinalityType DEF ExistsBijection, Bijection, Injection
  <2>3. SetToSeq(P) \in [1 .. Cardinality(P) -> P]
    BY <2>2 DEF SetToSeq
  <2>4. Cardinality(P) \in Nat
    BY <2>1, FS_CardinalityType
  <2> QED
    BY <2>3, <2>4 DEF P
<1>6. \A in \in DOMAIN chosen : RuleSound(chosen[in], in, first, amsels)
  <2> HIDE DEF amsels, slaves, dests
  <2> QED
    BY <1>1, <1>4, <1>5, AllRulesSound
<1>7. PICK ms : ms = MasterSets(dests, amsels)
  OBVIOUS
<1>8. ASSUME NEW s \in DOMAIN dests, NEW r \in DOMAIN dests, Overlap(dests[s], dests[r])
      PROVE  amsels[s][1] = amsels[r][1]
  <2>1. arbiters \in Seq(ClosedSets(DOMAIN dests, dests))
    <3> HIDE DEF dests, sorted
    <3> QED
      BY <1>2, <1>3, ArbitersClosed
  <2>2. DOMAIN keys = DOMAIN dests
    BY KeysFacts
  <2> HIDE DEF arbiters, dests
  <2> QED
    BY <1>8, <2>1, <2>2, SameArbiter
<1>9. ASSUME detect, NEW s \in DOMAIN dests, NEW r \in DOMAIN dests, amsels[s][1] = amsels[r][1]
      PROVE  dests[s] = dests[r]
  <2>1. \A x \in DOMAIN amsels : ~(amsels[x][2] > 0)
    BY <1>4, <1>9 DEF PotentialDeadlock
  <2>2. DOMAIN keys = DOMAIN dests /\ \A x \in DOMAIN dests : keys[x][1] = dests[x]
    BY KeysFacts
  <2>3. NoSecondMSel(dests, keys, sorted, arbiters, amsels)
    <3> HIDE DEF dests, sorted
    <3> QED
      BY <1>1, <1>2, <1>3, <1>4, <2>1, <2>2 DEF NoSecondMSel
  <2> HIDE DEF amsels, arbiters, sorted, dests
  <2> QED
    BY <1>9, <2>3, SameMasters
<1> HIDE DEF amsels, arbiters, sorted, slaves, dests, first
<1>10. /\ DOMAIN ms = UNION Range(dests)
       /\ \A out \in DOMAIN ms : ms[out] = {amsels[s] : s \in {r \in DOMAIN dests : out \in dests[r]}}
  BY <1>7 DEF MasterSets
<1>11. OneArbiter(ms)
  <2> SUFFICES ASSUME NEW out \in DOMAIN ms, NEW s \in DOMAIN dests, NEW r \in DOMAIN dests,
                      out \in dests[s], out \in dests[r]
               PROVE  amsels[s][1] = amsels[r][1]
    BY <1>10 DEF OneArbiter
  <2>1. Overlap(dests[s], dests[r])
    BY DEF Overlap
  <2> QED
    BY <1>8, <2>1
\* What a slot is served by: the rules that list it have the amsels of slots
\* with the same first destinations.
<1>12. ASSUME NEW s \in DOMAIN Served(chosen, ms)
       PROVE  /\ s \in DOMAIN dests /\ s \in Slot
              /\ \A out \in Served(chosen, ms)[s] :
                   out \in DOMAIN ms /\ \E l \in DOMAIN dests : first[l] = first[s] /\ amsels[l] \in ms[out]
              /\ \E l \in DOMAIN dests : /\ first[l] = first[s]
                                         /\ \A out \in DOMAIN ms : amsels[l] \in ms[out] =>
                                                                     out \in Served(chosen, ms)[s]
  <2>1. PICK rs : rs = chosen[s[1]]
    OBVIOUS
  <2>2. s[1] \in DOMAIN chosen /\ s \in Slot /\ RuleSound(rs, s[1], first, amsels)
    BY <1>6, <2>1, ServedFacts
  <2>3. \A out : out \in Served(chosen, ms)[s] <=>
                   /\ out \in DOMAIN ms
                   /\ \E j \in DOMAIN rs : s[2] \in rs[j].ids /\ rs[j].amsel \in ms[out]
    BY <2>1, ServedFacts
  <2>4. s = <<s[1], s[2]>>
    BY <2>2, SlotFacts
  <2>5. ASSUME NEW j \in DOMAIN rs, s[2] \in rs[j].ids
        PROVE  s \in DOMAIN dests /\ \E l \in DOMAIN dests : rs[j].amsel = amsels[l] /\ first[l] = first[s]
    <3>1. /\ <<s[1], s[2]>> \in DOMAIN first
          /\ \E l \in SlotsOn(DOMAIN first, s[1]) : rs[j].amsel = amsels[l] /\ first[l] = first[<<s[1], s[2]>>]
      BY <2>2, <2>5 DEF RuleSound
    <3>2. PICK l \in SlotsOn(DOMAIN first, s[1]) : rs[j].amsel = amsels[l] /\ first[l] = first[s]
      BY <2>4, <3>1
    <3>3. l \in DOMAIN dests /\ s \in DOMAIN dests
      BY <1>1, <2>4, <3>1 DEF SlotsOn
    <3> QED
      BY <3>2, <3>3
  <2>6. PICK k \in DOMAIN rs : s[2] \in rs[k].ids
    BY <2>1, ServedFacts
  <2>7. ASSUME NEW out \in Served(chosen, ms)[s]
        PROVE  out \in DOMAIN ms /\ \E l \in DOMAIN dests : first[l] = first[s] /\ amsels[l] \in ms[out]
    <3>1. PICK j \in DOMAIN rs : s[2] \in rs[j].ids /\ rs[j].amsel \in ms[out]
      BY <2>3
    <3>2. PICK l \in DOMAIN dests : rs[j].amsel = amsels[l] /\ first[l] = first[s]
      BY <2>5, <3>1
    <3> QED
      BY <2>3, <3>1, <3>2
  <2>8. PICK l \in DOMAIN dests : rs[k].amsel = amsels[l] /\ first[l] = first[s]
    BY <2>5, <2>6
  <2>9. \A out \in DOMAIN ms : amsels[l] \in ms[out] => out \in Served(chosen, ms)[s]
    BY <2>3, <2>6, <2>8
  <2> QED
    BY <2>2, <2>5, <2>6, <2>7, <2>8, <2>9
<1>13. \A l \in DOMAIN dests : \A out \in dests[l] : out \in DOMAIN ms /\ amsels[l] \in ms[out]
  BY <1>10 DEF Range
<1>14. FlowMap(Served(chosen, ms))
  <2>1. ASSUME NEW s \in DOMAIN Served(chosen, ms) PROVE s \in Slot /\ Served(chosen, ms)[s] # {}
    <3>1. PICK l \in DOMAIN dests : \A out \in DOMAIN ms : amsels[l] \in ms[out] =>
                                                              out \in Served(chosen, ms)[s]
      BY <1>12
    <3>2. PICK out : out \in dests[l]
      BY <1>1
    <3> QED
      BY <1>12, <1>13, <3>1, <3>2
  <2> QED
    BY <2>1 DEF FlowMap
<1>15. ASSUME detect PROVE NoPartial(Served(chosen, ms))
  \* With the option a slot is served its own destinations, earlier and new.
  <2>1. ASSUME NEW s \in DOMAIN Served(chosen, ms)
        PROVE  s \in DOMAIN dests /\ \A out : out \in Served(chosen, ms)[s] <=> out \in dests[s]
    <3>1. s \in DOMAIN dests
      BY <1>12
    <3>2. ASSUME NEW l \in DOMAIN dests, first[l] = first[s] PROVE dests[l] = dests[s]
      <4>1. Overlap(dests[l], dests[s])
        BY <1>1, <3>1, <3>2 DEF Overlap
      <4> QED
        BY <1>8, <1>9, <1>15, <3>1, <4>1
    <3>3. ASSUME NEW l \in DOMAIN dests, NEW out \in DOMAIN ms, amsels[l] \in ms[out] PROVE out \in dests[l]
      <4>1. PICK x \in DOMAIN dests : out \in dests[x] /\ amsels[l] = amsels[x]
        BY <1>10, <3>3
      <4>2. amsels[x][1] = amsels[l][1]
        BY <4>1
      <4>3. dests[x] = dests[l]
        BY <1>9, <1>15, <4>2
      <4> QED
        BY <4>1, <4>3
    <3>4. ASSUME NEW out \in Served(chosen, ms)[s] PROVE out \in dests[s]
      <4>1. PICK l \in DOMAIN dests : out \in DOMAIN ms /\ first[l] = first[s] /\ amsels[l] \in ms[out]
        BY <1>12
      <4> QED
        BY <3>2, <3>3, <4>1
    <3>5. ASSUME NEW out \in dests[s] PROVE out \in Served(chosen, ms)[s]
      <4>1. PICK l \in DOMAIN dests : /\ first[l] = first[s]
                                      /\ \A o \in DOMAIN ms : amsels[l] \in ms[o] =>
                                                                o \in Served(chosen, ms)[s]
        BY <1>12
      <4> QED
        BY <1>13, <3>2, <4>1
    <3> QED
      BY <3>1, <3>4, <3>5
  <2> SUFFICES ASSUME NEW s \in DOMAIN Served(chosen, ms), NEW r \in DOMAIN Served(chosen, ms),
                      Overlap(Served(chosen, ms)[s], Served(chosen, ms)[r])
               PROVE  \A out : out \in Served(chosen, ms)[s] <=> out \in Served(chosen, ms)[r]
    <3>1. \A s \in DOMAIN Served(chosen, ms) :
            Served(chosen, ms)[s] = {out \in DOMAIN ms : out \in Served(chosen, ms)[s]}
      BY DEF Served
    <3> QED
      BY <3>1 DEF NoPartial
  <2>2. /\ s \in DOMAIN dests /\ \A out : out \in Served(chosen, ms)[s] <=> out \in dests[s]
        /\ r \in DOMAIN dests /\ \A out : out \in Served(chosen, ms)[r] <=> out \in dests[r]
    BY <2>1
  <2>3. Overlap(dests[s], dests[r])
    BY <2>2 DEF Overlap
  <2>4. dests[s] = dests[r]
    BY <1>8, <1>9, <1>15, <2>2, <2>3
  <2> QED
    BY <2>2, <2>4
<1>16. TablesFinite(chosen)
  BY <1>6 DEF TablesFinite, RuleSound
<1> QED
  BY <1>4, <1>7, <1>11, <1>14, <1>15, <1>16 DEF TileSound

-------------------------------------------------------------------------------
(* What holds of every tile in every state: the flows recorded for it, and   *)
(* what its switch is configured for.                                        *)
TilesSound ==
  \A t \in Tile : FlowMap(priorFlows[t]) /\ FlowMap(packetFlows[t]) /\ TileSound(rules[t], masters[t])
RoutingInv == /\ todo \subseteq Tile
              /\ DOMAIN rules = Tile /\ DOMAIN masters = Tile
              /\ TilesSound

(* An unconfigured switch serves nothing.                                    *)
LEMMA UnconfiguredSound == TileSound(<<>>, <<>>)
<1>1. DOMAIN Served(<<>>, <<>>) = {}
  BY DEF Served
<1>2. FlowMap(Served(<<>>, <<>>)) /\ NoPartial(Served(<<>>, <<>>))
  BY <1>1 DEF FlowMap, NoPartial
<1>3. OneArbiter(<<>>)
  BY DEF OneArbiter
<1> QED
  BY <1>2, <1>3 DEF TileSound, TablesFinite

(* The new packet flows of a tile are slots with master ports.               *)
LEMMA PacketFlowsSound ==
    ASSUME NEW t PROVE FlowMap(PacketFlows(t))
<1> DEFINE conns == UNION {{<<h.in, op.id, h.out>> : h \in {g \in RouteTo(op) : g.tile = t}} :
                             op \in {o \in Range(Routed) : Packet(o)}}
           f == [s \in {r \in Slot : \E c \in conns : <<c[1], c[2]>> = r} |->
                   {c[3] : c \in {d \in conns : <<d[1], d[2]>> = s}}]
<1>1. PacketFlows(t) = f
  BY DEF PacketFlows
<1> HIDE DEF conns
<1>2. FlowMap(f)
  BY DEF FlowMap
<1> HIDE DEF f
<1> QED
  BY <1>1, <1>2

(* Every tile is sound in every reachable state: what the second run reads   *)
(* back from the switches (getRoutedPacketFlows) is again a map of slots to  *)
(* master ports.                                                             *)
THEOREM RoutingInvariant == Spec => []RoutingInv
<1>1. Init => RoutingInv
  <2> SUFFICES ASSUME Init PROVE RoutingInv
    OBVIOUS
  <2>1. FlowMap(<<>>)
    BY DEF FlowMap
  <2>2. /\ todo = {} /\ DOMAIN rules = Tile /\ DOMAIN masters = Tile
        /\ \A t \in Tile : /\ priorFlows[t] = <<>> /\ packetFlows[t] = <<>>
                           /\ rules[t] = <<>> /\ masters[t] = <<>>
    BY DEF Init
  <2> QED
    BY <2>1, <2>2, UnconfiguredSound DEF RoutingInv, TilesSound
<1>2. RoutingInv /\ [Next]_vars => RoutingInv'
  <2> SUFFICES ASSUME RoutingInv, [Next]_vars PROVE RoutingInv'
    OBVIOUS
  <2>1. detect' = detect
    BY DEF Next, vars, Collect, RouteFlow, RipUp, RunOnCircuitFlow, RunOnPacketFlow
  \* What a configuration is worth does not depend on the state.
  <2>2. ASSUME NEW rs, NEW ms, TileSound(rs, ms) PROVE TileSound(rs, ms)'
    BY <2>1, <2>2 DEF TileSound
  <2>3. ASSUME UNCHANGED <<todo, priorFlows, packetFlows, rules, masters>> PROVE RoutingInv'
    BY <2>1, <2>3 DEF RoutingInv, TilesSound, TileSound
  <2>4. CASE Collect
    <3>1. /\ UNCHANGED <<todo, packetFlows, rules, masters>>
          /\ priorFlows' = [t \in Tile |-> RoutedPacketFlows(t)]
      BY <2>4 DEF Collect, config
    <3>2. ASSUME NEW t \in Tile PROVE FlowMap(priorFlows'[t])
      <4>1. FlowMap(Served(rules[t], masters[t]))
        BY DEF RoutingInv, TilesSound, TileSound
      <4>2. priorFlows'[t] = Served(rules[t], masters[t])
        BY <3>1 DEF RoutedPacketFlows
      <4> QED
        BY <4>1, <4>2
    <3> QED
      BY <2>1, <3>1, <3>2 DEF RoutingInv, TilesSound, TileSound
  <2>5. CASE RouteFlow
    BY <2>3, <2>5 DEF RouteFlow, config
  <2>6. CASE RipUp
    BY <2>3, <2>6 DEF RipUp, config
  <2>7. CASE RunOnCircuitFlow
    <3>1. /\ UNCHANGED <<priorFlows, rules, masters>> /\ todo' = Tile
          /\ packetFlows' = [t \in Tile |-> PacketFlows(t)]
      BY <2>7 DEF RunOnCircuitFlow
    <3>2. \A t \in Tile : FlowMap(packetFlows'[t])
      BY <3>1, PacketFlowsSound
    <3> QED
      BY <2>1, <3>1, <3>2 DEF RoutingInv, TilesSound, TileSound
  <2>8. CASE RunOnPacketFlow
    <3>1. UNCHANGED <<priorFlows, packetFlows>>
      BY <2>8 DEF RunOnPacketFlow
    <3>2. CASE UNCHANGED <<todo, rules, masters>>
      BY <2>3, <3>1, <3>2
    <3>3. ASSUME NEW t \in Tile, todo' = todo \ {t}, UNCHANGED <<rules, masters>> PROVE RoutingInv'
      BY <2>1, <3>1, <3>3 DEF RoutingInv, TilesSound, TileSound
    <3>4. ASSUME NEW t \in Tile, NEW keys \in Keys(AllFlows(priorFlows[t], packetFlows[t])),
                 NEW c \in TileConfigs(t, keys), todo' = todo \ {t},
                 rules' = [rules EXCEPT ![t] = c.rules], masters' = [masters EXCEPT ![t] = c.masters]
          PROVE  RoutingInv'
      <4>1. TileSound(c.rules, c.masters)
        BY ConfigsSound DEF RoutingInv, TilesSound, TileSound
      <4>2. ASSUME NEW u \in Tile PROVE TileSound(rules'[u], masters'[u])
        <5>1. CASE u = t
          BY <3>4, <4>1, <5>1 DEF RoutingInv
        <5>2. CASE u # t
          BY <3>4, <5>2 DEF RoutingInv, TilesSound
        <5> QED
          BY <5>1, <5>2
      <4>3. todo' \subseteq Tile /\ DOMAIN rules' = Tile /\ DOMAIN masters' = Tile
        BY <3>4 DEF RoutingInv
      <4> QED
        BY <2>1, <3>1, <4>2, <4>3 DEF RoutingInv, TilesSound, TileSound
    <3> DEFINE t == CHOOSE u \in todo : TRUE
    <3>5. CASE todo # {}
      <4>1. t \in Tile
        BY <3>5 DEF RoutingInv
      <4>2. \/ /\ todo' = todo \ {t}
               /\ UNCHANGED <<rules, masters>>
            \/ /\ todo' = todo \ {t}
               /\ \E keys \in Keys(AllFlows(priorFlows[t], packetFlows[t])) :
                    \E c \in TileConfigs(t, keys) : /\ rules' = [rules EXCEPT ![t] = c.rules]
                                                    /\ masters' = [masters EXCEPT ![t] = c.masters]
        BY <2>8, <3>5 DEF RunOnPacketFlow, ConfigureTile
      <4> QED
        BY <3>3, <3>4, <4>1, <4>2
    <3>6. CASE todo = {}
      BY <2>8, <3>2, <3>6 DEF RunOnPacketFlow
    <3> QED
      BY <3>5, <3>6
  <2>9. CASE UNCHANGED vars
    BY <2>3, <2>9 DEF vars
  <2> QED
    BY <2>4, <2>5, <2>6, <2>7, <2>8, <2>9 DEF Next
<1> QED
  BY <1>1, <1>2, PTL DEF Spec

(* Every master port listens to one arbiter (MasterSets of runOnPacketFlow): *)
(* slots that share a master port are in one component.                      *)
THEOREM MastersHaveOneArbiter == Spec => []OneArbiterPerMaster
<1>1. RoutingInv => OneArbiterPerMaster
  BY DEF RoutingInv, TilesSound, TileSound, OneArbiter, OneArbiterPerMaster
<1> QED
  BY <1>1, RoutingInvariant, PTL

(* With detectArbiterDeadlock, two packets share all their master ports or   *)
(* none: an arbiter with one msel has one set of master ports.               *)
THEOREM PacketsDoNotOverlapInPart == Spec => []NoPartialOverlap
<1>1. RoutingInv => NoPartialOverlap
  BY DEF RoutingInv, TilesSound, TileSound, NoPartial, NoPartialOverlap, RoutedPacketFlows
<1> QED
  BY <1>1, RoutingInvariant, PTL
=============================================================================

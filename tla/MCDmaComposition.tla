-------------------------- MODULE MCDmaComposition --------------------------
(***************************************************************************)
(* DmaComposition on a source with two intra dimensions and one inter      *)
(* dimension and a target with three, and with small limits: an operation  *)
(* in a nest of two loops, and two operations in a row, in a loop or not.  *)
(***************************************************************************)
EXTENDS DmaComposition

CONSTANTS a, b      \* the outer and the inner loop

MCIntraDims == [side \in {"src", "tgt"} |-> IF side = "src" THEN 2 ELSE 3]
MCInterDims == [side \in {"src", "tgt"} |-> IF side = "src" THEN 1 ELSE 0]

IvDim(iv, scale, bias, size, stride) ==
    [off |-> bias, iv |-> iv, scale |-> scale, size |-> size, stride |-> stride]

(* Trips 1 to 7, with lower bounds and steps other than 0 and 1; the last  *)
(* of the loops does not end on a multiple of its step.                    *)
OuterLoops == {[lb |-> 0, ub |-> 2, step |-> 1], [lb |-> 1, ub |-> 2, step |-> 1],
               [lb |-> 2, ub |-> 9, step |-> 1]}
InnerLoops == {[lb |-> 0, ub |-> 3, step |-> 1], [lb |-> 1, ub |-> 4, step |-> 2]}
Loops == {[l \in {a, b} |-> IF l = a THEN x ELSE y] : x \in OuterLoops, y \in InnerLoops}

-----------------------------------------------------------------------------
(* The source addresses a matrix of rows of 8; the target a buffer of      *)
(* tiles, or implicitly.                                                   *)
Rows == {Dim(0, 1, 8), Dim(1, 2, 8), Dim(0, 5, 8), IvDim(a, 1, 0, 1, 8),
         IvDim(a, 1, 0, 2, 8), IvDim(a, 2, 1, 1, 8), IvDim(b, 1, 0, 1, 8)}
Columns == {Dim(0, 6, 1), Dim(2, 8, 1), Dim(0, 2, 4), IvDim(b, 2, 0, 2, 1),
            IvDim(b, 4, 1, 4, 1)}
Sources == {<<r, c>> : r \in Rows, c \in Columns} \ {<<IvDim(b, 1, 0, 1, 8), c>> :
               c \in {IvDim(b, 2, 0, 2, 1), IvDim(b, 4, 1, 4, 1)}}
Targets == {<<>>, <<Dim(0, 4, 1)>>, <<IvDim(b, 1, 0, 1, 6), Dim(0, 6, 1)>>,
            <<IvDim(a, 1, 0, 1, 12), Dim(1, 1, 4), Dim(0, 4, 1)>>}

Op(path, src, tgt) == [path |-> path, src |-> src, tgt |-> tgt]
Program(os, ls, c) == [ops |-> os, loops |-> ls, circular |-> c]
Nested == {Program(<<Op(<<a, b>>, s, t)>>, ls, c) :
               s \in Sources, t \in Targets, ls \in Loops, c \in BOOLEAN}

(* Two operations on the same rows, at different places in them.           *)
Shifted(p, n) == [p EXCEPT ![Len(p)].off = @ + n]
Wider(p) == <<Dim(1, 1, 16)>> \o p
PairSources == {<<Dim(0, 4, 1)>>, <<Dim(2, 2, 8), Dim(1, 4, 1)>>,
                <<IvDim(a, 1, 0, 2, 8), Dim(0, 4, 1)>>, <<Dim(0, 1, 12), Dim(4, 2, 1)>>}
PairTargets == {<<>>, <<Dim(0, 4, 1)>>, <<IvDim(a, 1, 0, 1, 12), Dim(0, 4, 1)>>}
PairLoops == {[l \in {a, b} |-> x] : x \in OuterLoops}
Neighbours ==
    {Program(<<Op(path, s, t), Op(path, s2, t2)>>, ls, FALSE) :
        path \in {<<>>, <<a>>}, ls \in PairLoops, s \in PairSources, t \in PairTargets,
        s2 \in UNION {{Shifted(q, n), Wider(Shifted(q, n))} : q \in PairSources, n \in {0, 4, 6}},
        t2 \in UNION {{q, Shifted(q, 4)} : q \in PairTargets \ {<<>>}} \cup {<<>>}}

UsesOuter(p) == \E i \in DOMAIN p : p[i].iv # NoLoop
(* Without a loop nothing depends on one, and both sides of a connection   *)
(* are either implicit in both operations or in none.                      *)
MCPrograms ==
    Nested \cup
    {p \in Neighbours :
        /\ p.ops[1].path = <<>> =>
              \A i \in 1 .. 2 : ~UsesOuter(p.ops[i].src) /\ ~UsesOuter(p.ops[i].tgt)
        /\ (p.ops[1].tgt = <<>>) = (p.ops[2].tgt = <<>>)}
=============================================================================

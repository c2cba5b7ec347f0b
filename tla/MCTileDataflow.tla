--------------------------- MODULE MCTileDataflow ---------------------------
(* Two cores. The first reads fA, which comes through the mem tile (fM), and  *)
(* fB, straight from the shim, and writes fC; a broadcast from fM reaches fA2 *)
(* of the second core, too, which writes fC2.                                *)
EXTENDS TileDataflow

CONSTANTS fA, fB, fC, fM, fA2, fC2
CONSTANT MaxShort   \* bound: length of the programs that are tried in all variants

MCFifos == {fA, fB, fC, fM, fA2, fC2}
MCDepth == [f \in MCFifos |-> IF f = fM THEN 1 ELSE 2]
MCConnections == {"toMem", "toA", "toBoth", "toB", "fromC", "fromC2"}
MCSource == [x \in MCConnections |->
               CASE x \in {"toA", "toBoth"} -> fM [] x = "fromC" -> fC [] x = "fromC2" -> fC2
                 [] OTHER -> Shim]
MCTargets == [x \in MCConnections |->
                CASE x = "toMem" -> {fM} [] x = "toA" -> {fA} [] x = "toBoth" -> {fA, fA2}
                  [] x = "toB" -> {fB} [] OTHER -> {Shim}]

\* A core's use of its inputs, with the transfers that go before it.
inA == Core(1, <<Access(fA, "Read")>>)
inB == Core(1, <<Access(fB, "Read")>>)
ra == <<Dma("toMem"), Circular("toA"), inA>>
rb == <<Dma("toB"), inB>>
wc == <<Core(1, <<Access(fC, "Write")>>)>>
nc == <<Core(1, <<Access(fC, "None")>>)>>
out == <<Dma("fromC")>>

\* Prologue, loop and epilogue of a peeled reduction, or without the prologue; the
\* result is written once, at the top, and may be accumulated before.
Around(n, body) == <<For(n)>> \o body \o <<End>>
Loops == {Around(3, ra), Around(2, ra \o ra), Around(2, rb \o Around(3, ra)),
          Around(3, ra \o Around(2, rb))}
Peeled(loop) == {loop, loop \o ra \o rb, ra \o rb \o loop \o ra \o rb}
Writing == {wc \o reads \o out : reads \in {ra, rb} \cup UNION {Peeled(loop) : loop \in Loops}}
Accumulating == {nc \o reads \o wc \o out : reads \in Peeled(Around(2, rb \o nc \o ra))}

\* What comes into the mem tile once is sent to the core twice.
Reusing == {wc \o <<Dma("toMem"), For(2), Circular("toA"), inA, End>> \o out,
            wc \o <<For(2), Dma("toMem"), For(2), Circular("toA"), inA, End>> \o rb \o <<End>> \o out}

\* The transfers stand in other loops than what they feed: no common repetition.
Apart == {<<For(2)>> \o into \o into \o into \o <<End, For(3)>> \o use \o use \o <<End>> :
            into \in {<<Dma("toMem")>>}, use \in {<<Circular("toA"), inA>>}}

\* Both cores read what is broadcast, and the second one writes a result each time.
both == <<Dma("toMem"), Circular("toBoth"), inA, Core(2, <<Access(fA2, "Read")>>)>>
wc2 == <<Core(2, <<Access(fC2, "Write")>>)>>
out2 == <<Dma("fromC2")>>
Broadcasting == {wc \o wc2 \o both \o Around(2, both) \o out \o out2,
                 Around(2, both \o wc2 \o out2)}

Codes == Accumulating \cup Writing \cup Reusing \cup Apart \cup Broadcasting
Short == {x \in Codes : Len(x) <= MaxShort}
MCPrograms == [code : Codes, around : {FALSE}, regular : {MCConnections}]
                \cup [code : Short, around : {TRUE, FALSE}, regular : {{}}]

\* A deeper output FIFO, written in a loop whose trips are no multiple of the depth.
MCDeep == [f \in MCFifos |-> IF f = fC THEN 4 ELSE MCDepth[f]]
MCWriteLoops == [code : {Around(n, wc \o out) : n \in {8, 10}}, around : {FALSE}, regular : {MCConnections}]
=============================================================================

-------------------------- MODULE MCPacketRouting --------------------------
(* A column of a shim tile, a mem tile and a core with two channels in each   *)
(* direction, and the flows of small designs.                                 *)
EXTENDS PacketRouting

CTRL == <<"CTRL", 0>>
DMA0 == <<"DMA", 0>>
DMA1 == <<"DMA", 1>>
MCEndPorts == {CTRL, DMA0, DMA1}
MCPorts == <<DMA0, DMA1, CTRL>> \o
           [k \in 1 .. 8 |-> <<<<"South", "West", "North", "East">>[(k + 1) \div 2], (k + 1) % 2>>]

shim(p) == <<<<0, 0>>, p>>
mem(p) == <<<<0, 1>>, p>>
core(p) == <<<<0, 2>>, p>>

Flow(packet, ctrl, src, dsts, id) ==
  [packet |-> packet, ctrl |-> ctrl, src |-> src, dsts |-> dsts, id |-> id]
Control(dst, id) == Flow(TRUE, TRUE, shim(DMA0), {dst}, id)
Data(src, dsts, id) == Flow(TRUE, FALSE, src, dsts, id)
Stream(src, dsts) == Flow(FALSE, FALSE, src, dsts, 0)

\* The control overlay, the data flows of an input and an output as circuits
\* or packets (ids as AssignPacketIds numbers them, per source).
Overlay == <<Control(shim(CTRL), 0), Control(mem(CTRL), 1), Control(core(CTRL), 2)>>
Circuits == <<Stream(shim(DMA1), {mem(DMA0)}), Stream(mem(DMA0), {core(DMA0)}),
              Stream(core(DMA0), {mem(DMA1)}), Stream(mem(DMA1), {shim(DMA0)})>>
Packets == <<Data(mem(DMA0), {core(DMA0)}, 0),
             Data(mem(DMA0), {core(DMA1)}, 1), Data(core(DMA0), {shim(DMA0)}, 0)>>
\* Four ids of one source, for two places in turn.
Alternating == <<Data(shim(DMA0), {mem(DMA0)}, 0), Data(shim(DMA0), {mem(DMA1)}, 1),
                 Data(shim(DMA0), {mem(DMA1)}, 2), Data(shim(DMA0), {mem(DMA0)}, 3)>>
\* Sources that meet: two in one place, and a third in both.
Meeting == <<Data(mem(DMA0), {mem(DMA1)}, 1), Data(shim(DMA1), {mem(DMA0), mem(DMA1)}, 0),
             Data(core(DMA1), {mem(DMA0)}, 2)>>

Broadcasting == <<Data(shim(DMA1), {mem(DMA0), core(DMA0)}, 0), Data(mem(DMA1), {core(DMA0)}, 1)>>
\* Two ids go to the same two places, two others elsewhere.
Repeating == <<Data(shim(DMA0), {mem(DMA0), mem(DMA1)}, 0), Data(shim(DMA0), {mem(CTRL)}, 1),
               Data(shim(DMA0), {mem(CTRL)}, 2), Data(shim(DMA0), {mem(DMA0), mem(DMA1)}, 3)>>

MCOpSets == {Overlay \o Circuits, Overlay \o Packets, Alternating, Meeting, Broadcasting, Repeating,
             Overlay \o <<Data(shim(DMA0), {mem(DMA0)}, 3)>> \o Packets,
             Overlay \o <<Data(mem(DMA0), {core(DMA0)}, 0), Data(mem(DMA1), {core(DMA1)}, 1)>>}
=============================================================================

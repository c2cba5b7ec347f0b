-------------------------- MODULE ChannelGenerator --------------------------
(* Which DMA channel of a tile a connection gets, class ChannelGenerator, for *)
(* one direction: the channels of circuit flows, and those of packet flows    *)
(* with the least recently used one first.                                    *)
EXTENDS Integers, SequencesExt

NewGenerator == [circuit |-> {}, packet |-> <<>>]

FirstOf(S) == {c \in S : \A d \in S : c <= d}   \* empty if S is

\* Mutant: the channels of packet flows are not excluded.
FirstWithoutCircuit(g, numChannels) == FirstOf(0 .. numChannels - 1 \ g.circuit)

FirstUnused(g, numChannels) ==
  FirstOf(0 .. numChannels - 1 \ (g.circuit \cup ToSet(g.packet)))

\* The channel a connection gets, an empty set if there is none for it.
NextChannel(g, type, numChannels) ==
  LET unused == FirstUnused(g, numChannels)
  IN  IF type = "Packet" /\ unused = {} /\ g.packet # <<>> THEN {Head(g.packet)} ELSE unused

Without(q, ch) == IF Contains(q, ch) THEN RemoveAt(q, CHOOSE k \in DOMAIN q : q[k] = ch) ELSE q
ToBack(q, ch) == Append(Without(q, ch), ch)

\* Mutant: a channel keeps its place in the order.
AssignedInPlace(g, type, channel) ==
  IF type # "Packet" THEN [g EXCEPT !.circuit = @ \cup {channel}]
  ELSE IF Contains(g.packet, channel) THEN g
       ELSE [g EXCEPT !.packet = Append(@, channel)]

\* A channel that is assigned to a packet flow becomes the last one to be reused.
AssignedChannel(g, type, channel) ==
  IF type = "Packet" THEN [g EXCEPT !.packet = ToBack(@, channel)]
  ELSE [g EXCEPT !.circuit = @ \cup {channel}]
=============================================================================

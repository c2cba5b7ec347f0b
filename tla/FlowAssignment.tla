--------------------------- MODULE FlowAssignment ---------------------------
(* From connections to flows of the switch network: the control overlay       *)
(* (GenerateControlOverlay), circuit or packet mode of every connection        *)
(* (AssignConnectionTypes), its DMA channels (AssignChannels) and its packet    *)
(* id (AssignPacketIds), in the order of the pipeline, one connection a step.   *)
EXTENDS ChannelGenerator

CONSTANTS Cols, Rows,         \* a tile is <<column, row>>; row 0 has shims, row 1 mem tiles
          NumChannels,        \* row -> DMA channels of a tile in each direction
          DataConnections,    \* sets of [src, dsts]: tiles that the program may connect
          MaxData,            \* bound: connections of a program
          Strategies,         \* PacketFlowStrategy
          Overlays,           \* options of GenerateControlOverlay: [ctrl, tct, broadcast]
          PacketIdMaxIdx      \* highest id of a packet header

ASSUME NumChannelsAssumption == NumChannels \in [Rows -> Nat \ {0}] /\ 0 \in Rows
ASSUME TilesAssumption ==
  \A c \in DataConnections : c.src \in Cols \X Rows /\ c.dsts \subseteq Cols \X Rows
ASSUME MaxDataAssumption == MaxData \in Nat /\ PacketIdMaxIdx \in Nat

VARIABLES strategy, overlay,  \* the options in use
          stage,              \* the pass that runs, "done", or why a pass failed
          connections,        \* the connections in the order of the program
          toConnect,          \* tiles whose control port still has to be connected
          toToken,            \* shims whose completion tokens still have to be routed
          todo,               \* connections that the pass still has to visit
          circuitUsage, packetUsage,   \* physical port -> connections of this type so far
          generator           \* tile and direction -> ChannelGenerator

options == <<strategy, overlay>>
usage == <<circuitUsage, packetUsage>>
overlayTodo == <<toConnect, toToken>>
vars == <<options, stage, connections, overlayTodo, todo, usage, generator>>

Tile == Cols \X Rows
Direction == {"MM2S", "S2MM"}
Port == Tile \X Direction
PortType == {"DMA", "CTRL", "SOUTH"}
PhysPort == Tile \X PortType \X Direction
DmaPort == Tile \X {"DMA"} \X Direction
ChannelsOf(tile) == NumChannels[tile[2]]

NoChannel == -1
NoId == -1
NoType == "None"
NoGenerators == [p \in Port |-> NewGenerator]

\* Data connections have a DMA port at both ends; types, channels and ids come later.
Data(c) == [src |-> c.src, dsts |-> c.dsts, type |-> NoType,
            srcPort |-> "DMA", dstPort |-> "DMA",
            srcChannel |-> NoChannel, dstChannel |-> [t \in c.dsts |-> NoChannel], id |-> NoId]

Sources(c) == {<<c.src, c.srcPort, "MM2S">>}
Targets(c) == {<<t, c.dstPort, "S2MM">> : t \in c.dsts}
PortsOf(c) == Sources(c) \cup Targets(c)

Shim(col) == <<col, 0>>
IsCore(tile) == tile[2] > 1
Column(S) == {t[1] : t \in S}
ColumnThenRow(a, b) == a[1] < b[1] \/ (a[1] = b[1] /\ a[2] < b[2])

\* The connection a pass visits next: those in first come before the rest, and
\* both in the order of the program.
InTurn(first) == FirstOf(IF first \cap todo # {} THEN first \cap todo ELSE todo)

-----------------------------------------------------------------------------
\* GenerateControlOverlay. Every column in use gets a shim tile.

TilesOf(data) == UNION {{data[i].src} \cup data[i].dsts : i \in DOMAIN data}
WithShims(tiles) == tiles \cup {Shim(col) : col \in Column(tiles)}

Init ==
  /\ strategy \in Strategies /\ overlay \in Overlays
  /\ \E n \in 1 .. MaxData : \E data \in [1 .. n -> DataConnections] :
       /\ connections = [i \in 1 .. n |-> Data(data[i])]
       /\ toConnect = IF overlay.ctrl THEN WithShims(TilesOf(data)) ELSE {}
       /\ toToken = IF overlay.tct THEN {Shim(col) : col \in Column(TilesOf(data))} ELSE {}
  /\ todo = {}
  /\ stage = "overlay"
  /\ circuitUsage = [p \in PhysPort |-> 0] /\ packetUsage = [p \in PhysPort |-> 0]
  /\ generator = NoGenerators

\* Control packets enter at DMA channels of the shim, in turn.
ControlConnection(shim, dsts, channel) ==
  [src |-> shim, dsts |-> dsts, type |-> "Packet", srcPort |-> "DMA", dstPort |-> "CTRL",
   srcChannel |-> channel, dstChannel |-> [t \in dsts |-> 0], id |-> NoId]

ConnectControl(shim, dsts) ==
  /\ stage = "overlay"
  /\ LET g == generator[<<shim, "MM2S">>]
     IN  \E channel \in NextChannel(g, "Packet", ChannelsOf(shim)) :
           /\ connections' = Append(connections, ControlConnection(shim, dsts, channel))
           /\ generator' = [generator EXCEPT ![<<shim, "MM2S">>] = AssignedChannel(g, "Packet", channel)]
  /\ toConnect' = toConnect \ dsts
  /\ UNCHANGED <<options, stage, toToken, todo, usage>>

\* A tile is connected to the shim of its column, unless it is a core and the cores
\* are broadcast to: that comes last, from the shim of the first one.
Deferred == {t \in toConnect : overlay.broadcast /\ IsCore(t)}
InOrder(S) == {t \in S : \A u \in S : u = t \/ ColumnThenRow(t, u)}
ConnectTile(t) == ConnectControl(Shim(t[1]), {t})
Broadcast(t) == Deferred = toConnect /\ ConnectControl(Shim(t[1]), toConnect)

\* Completion tokens leave from the control port of the shim.
TokenConnection(shim) ==
  [src |-> shim, dsts |-> {shim}, type |-> "Circuit", srcPort |-> "CTRL", dstPort |-> "SOUTH",
   srcChannel |-> 0, dstChannel |-> [t \in {shim} |-> 0], id |-> NoId]

ConnectToken(shim) ==   \* in the order of a hash map
  /\ stage = "overlay" /\ toConnect = {}
  /\ connections' = Append(connections, TokenConnection(shim))
  /\ toToken' = toToken \ {shim}
  /\ UNCHANGED <<options, stage, toConnect, todo, usage, generator>>

StartTypes ==
  /\ stage = "overlay" /\ toConnect = {} /\ toToken = {}
  /\ stage' = "types"
  /\ todo' = DOMAIN connections
  /\ UNCHANGED <<options, connections, overlayTodo, usage, generator>>

-----------------------------------------------------------------------------
\* AssignConnectionTypes. Connections that have a type come first.

PreAssigned(c) == c.type # NoType
HaveTypes == {i \in DOMAIN connections : PreAssigned(connections[i])}

\* Mutant: the port may be filled up with circuits whatever comes later.
FullOnly(port, i) == circuitUsage[port] + packetUsage[port] >= ChannelsOf(port[1])

\* A port of connection i is congested if its channels are used up, or if this is
\* the last one left for circuits and connections further down use the port too.
Congested(port, i) ==
  \/ circuitUsage[port] + packetUsage[port] >= ChannelsOf(port[1])
  \/ /\ circuitUsage[port] = ChannelsOf(port[1]) - 1
     /\ \E j \in todo \ {i} : port \in PortsOf(connections[j])

\* Memory space 0 is main memory, 1 mem tiles, 2 cores, like the rows.
MemorySpace(tile) == IF IsCore(tile) THEN 2 ELSE tile[2]
IsInput(c) == \E t \in c.dsts : MemorySpace(c.src) < MemorySpace(t)
IsOutput(c) == \E t \in c.dsts : MemorySpace(c.src) > MemorySpace(t)

TypeFor(i) ==
  LET c == connections[i]
      packet == IF strategy = "Auto" THEN \E p \in PortsOf(c) : Congested(p, i)
                ELSE \/ strategy \in {"Inputs", "All"} /\ IsInput(c)
                     \/ strategy \in {"Outputs", "All"} /\ IsOutput(c)
  IN  IF PreAssigned(c) THEN c.type ELSE IF packet THEN "Packet" ELSE "Circuit"

Counted(count, c) == [p \in PhysPort |-> IF p \in PortsOf(c) THEN count[p] + 1 ELSE count[p]]

AssignType(i) ==
  /\ stage = "types"
  /\ LET type == TypeFor(i)
     IN  /\ connections' = [connections EXCEPT ![i].type = type]
         /\ circuitUsage' = IF type = "Circuit" THEN Counted(circuitUsage, connections[i]) ELSE circuitUsage
         /\ packetUsage' = IF type = "Packet" THEN Counted(packetUsage, connections[i]) ELSE packetUsage
  /\ todo' = todo \ {i}
  /\ UNCHANGED <<options, stage, overlayTodo, generator>>

-----------------------------------------------------------------------------
\* AssignChannels.

\* The DMA ports of a connection, and the channels that it has of them by now.
DmaEnds(c) == (IF c.srcPort = "DMA" THEN {<<c.src, "MM2S">>} ELSE {})
                \cup (IF c.dstPort = "DMA" THEN c.dsts \X {"S2MM"} ELSE {})
ChannelAt(c, p) == IF p[2] = "MM2S" THEN c.srcChannel ELSE c.dstChannel[p[1]]
Assigned(c) == {p \in DmaEnds(c) : ChannelAt(c, p) # NoChannel}
Needed(c) == DmaEnds(c) \ Assigned(c)

\* The generators when connection c has its channels of these ports.
WithChannels(c, ports) ==
  [p \in Port |-> IF p \in ports THEN AssignedChannel(generator[p], c.type, ChannelAt(c, p))
                  ELSE generator[p]]

StartRegister ==
  /\ stage = "types" /\ todo = {}
  /\ stage' = "register"
  /\ todo' = DOMAIN connections
  /\ generator' = NoGenerators
  /\ UNCHANGED <<options, connections, overlayTodo, usage>>

\* Channels assigned before are registered, in the order of the program.
RegisterChannels(i) ==
  /\ stage = "register"
  /\ generator' = WithChannels(connections[i], Assigned(connections[i]))
  /\ todo' = todo \ {i}
  /\ UNCHANGED <<options, stage, connections, overlayTodo, usage>>

StartChannels ==
  /\ stage = "register" /\ todo = {}
  /\ stage' = "channels"
  /\ todo' = DOMAIN connections
  /\ UNCHANGED <<options, connections, overlayTodo, usage, generator>>

\* Circuits come first, so that packet flows share what they leave.
IsPacket(c) == c.type = "Packet"
Circuits == {i \in DOMAIN connections : ~IsPacket(connections[i])}

Candidates(p, type) == NextChannel(generator[p], type, ChannelsOf(p[1]))
HasChannels(c) == \A p \in Needed(c) : Candidates(p, c.type) # {}

AssignChannels(i) ==
  /\ stage = "channels"
  /\ LET c == connections[i]
         Chosen(p) == IF p \in Needed(c) THEN CHOOSE ch \in Candidates(p, c.type) : TRUE
                      ELSE ChannelAt(c, p)
         assigned == [c EXCEPT !.srcChannel = Chosen(<<c.src, "MM2S">>),
                               !.dstChannel = [t \in c.dsts |-> Chosen(<<t, "S2MM">>)]]
     IN  /\ HasChannels(c)
         /\ connections' = [connections EXCEPT ![i] = assigned]
         /\ generator' = WithChannels(assigned, Needed(c))
  /\ todo' = todo \ {i}
  /\ UNCHANGED <<options, stage, overlayTodo, usage>>

NoChannelAvailable(i) ==
  /\ stage = "channels"
  /\ ~HasChannels(connections[i])
  /\ stage' = "noChannel"
  /\ UNCHANGED <<options, connections, overlayTodo, todo, usage, generator>>

-----------------------------------------------------------------------------
\* ConnectionToFlow, AssignPacketIds.

IsControl(c) == c.srcPort = "CTRL" \/ c.dstPort = "CTRL"
SourceChannel(c) == <<c.src, c.srcPort, c.srcChannel>>

StartPacketIds ==
  /\ stage = "channels" /\ todo = {}
  /\ stage' = "ids"
  /\ todo' = DOMAIN connections \ Circuits
  /\ UNCHANGED <<options, connections, overlayTodo, usage, generator>>

InProgramOrder == {}   \* mutant
ControlFlows == {i \in DOMAIN connections : IsControl(connections[i])}

\* Flows of this source channel that have an id by now.
PacketFlowIndex(c) ==
  Cardinality({j \in DOMAIN connections :
                 connections[j].id # NoId /\ SourceChannel(connections[j]) = SourceChannel(c)})

AssignPacketId(i) ==
  /\ stage = "ids"
  /\ LET index == PacketFlowIndex(connections[i])
     IN  IF index > PacketIdMaxIdx
         THEN stage' = "noId" /\ UNCHANGED <<connections, todo>>
         ELSE /\ connections' = [connections EXCEPT ![i].id = index]
              /\ todo' = todo \ {i}
              /\ UNCHANGED stage
  /\ UNCHANGED <<options, overlayTodo, usage, generator>>

Finish ==
  /\ stage = "ids" /\ todo = {}
  /\ stage' = "done"
  /\ UNCHANGED <<options, connections, overlayTodo, todo, usage, generator>>

Next == \/ \E t \in InOrder(toConnect \ Deferred) : ConnectTile(t)
        \/ \E t \in InOrder(Deferred) : Broadcast(t)
        \/ (\E shim \in toToken : ConnectToken(shim)) \/ StartTypes
        \/ \E i \in InTurn(HaveTypes) : AssignType(i)
        \/ StartRegister \/ (\E i \in InTurn({}) : RegisterChannels(i)) \/ StartChannels
        \/ \E i \in InTurn(Circuits) : AssignChannels(i) \/ NoChannelAvailable(i)
        \/ StartPacketIds
        \/ \E i \in InTurn(ControlFlows) : AssignPacketId(i)
        \/ Finish

Spec == Init /\ [][Next]_vars

-----------------------------------------------------------------------------
(* Type invariant.                                                            *)
TypeOK ==
  /\ strategy \in Strategies /\ overlay \in Overlays
  /\ stage \in {"overlay", "types", "register", "channels", "ids", "done", "noChannel", "noId"}
  /\ \A i \in DOMAIN connections :
       LET c == connections[i]
       IN  /\ PortsOf(c) \subseteq PhysPort
           /\ c.type \in {NoType, "Circuit", "Packet"}
           /\ c.srcChannel \in {NoChannel} \cup 0 .. ChannelsOf(c.src) - 1
           /\ \A t \in c.dsts : c.dstChannel[t] \in {NoChannel} \cup 0 .. ChannelsOf(t) - 1
           /\ c.id \in {NoId} \cup 0 .. PacketIdMaxIdx
  /\ circuitUsage \in [PhysPort -> Nat] /\ packetUsage \in [PhysPort -> Nat]

(* congestionAwareAutoAssignment never makes a port run out of channels: there *)
(* are enough for the circuits, and one is left if there are packet flows.     *)
LeavesRoom ==
  strategy = "Auto" =>
    \A p \in DmaPort :
      /\ circuitUsage[p] <= ChannelsOf(p[1])
      /\ packetUsage[p] > 0 => circuitUsage[p] < ChannelsOf(p[1])

(* Hence AssignChannels finds a channel for every connection, whatever the     *)
(* overlay took before, although it serves the connections in another order.   *)
AutoSuffices == strategy = "Auto" => stage # "noChannel"

(* A circuit shares its DMA channels with no other flow, neither one of the    *)
(* overlay nor one that was assigned later.                                    *)
OnChannel(p, channel) ==
  {i \in DOMAIN connections : p \in DmaEnds(connections[i]) /\ ChannelAt(connections[i], p) = channel}

CircuitOwnsChannel ==
  \A p \in Port : \A channel \in 0 .. ChannelsOf(p[1]) - 1 :
    LET flows == OnChannel(p, channel)
    IN  (\E i \in flows : ~IsPacket(connections[i])) => Cardinality(flows) = 1

(* Packet flows are spread evenly over the channels that circuits leave, those *)
(* of the overlay, which were assigned by an earlier pass, included.           *)
Load(p, channel) == Cardinality(OnChannel(p, channel))
LoadBalanced ==
  stage = "done" =>
    \A p \in Port :
      LET forPackets == {ch \in 0 .. ChannelsOf(p[1]) - 1 :
                          \A i \in OnChannel(p, ch) : IsPacket(connections[i])}
      IN  \A a, b \in forPackets : Load(p, a) <= Load(p, b) + 1

(* Packets that leave by one channel can be told apart, and the ids of control *)
(* packets do not depend on the data flows of the program.                     *)
PacketIdsSeparate ==
  \A i, j \in DOMAIN connections :
    LET c == connections[i]   d == connections[j]
    IN  (i # j /\ c.id # NoId /\ d.id # NoId /\ SourceChannel(c) = SourceChannel(d)) =>
          /\ c.id # d.id
          /\ IsControl(c) /\ ~IsControl(d) => c.id < d.id
=============================================================================

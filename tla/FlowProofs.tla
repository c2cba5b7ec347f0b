----------------------------- MODULE FlowProofs -----------------------------
(* What the control overlay and channel assignment guarantee for every device, *)
(* program and overlay.  First the types and the packet ids: the automatic      *)
(* choice of circuit or packet mode leaves a channel to packets.  Then the DMA  *)
(* channels: those of circuits are theirs alone, those of packet flows carry    *)
(* the same load, and with the automatic choice no port runs out of channels.   *)
EXTENDS FlowAssignment, FiniteSetTheorems, SequenceTheorems, WellFoundedInduction, TLAPS

Fields == {"src", "dsts", "type", "srcPort", "dstPort", "srcChannel", "dstChannel", "id"}

\* Connections are a sequence of records.
Connected == /\ connections \in Seq({connections[i] : i \in DOMAIN connections})
             /\ \A i \in DOMAIN connections : DOMAIN connections[i] = Fields

UsageType == circuitUsage \in [PhysPort -> Nat] /\ packetUsage \in [PhysPort -> Nat]

\* Before the types are assigned nothing is counted, and there are no circuits
\* except for completion tokens, which do not use DMA ports.
CircuitsOffDma(S) ==
  \A i \in S : connections[i].type = "Circuit" => PortsOf(connections[i]) \cap DmaPort = {}

InOverlay == stage = "overlay" => /\ CircuitsOffDma(DOMAIN connections)
                                  /\ \A p \in PhysPort : circuitUsage[p] = 0 /\ packetUsage[p] = 0

\* A port that is full of circuits is not used by a connection to come.
InTypes == stage = "types" =>
  /\ todo \subseteq DOMAIN connections
  /\ CircuitsOffDma(todo)
  /\ strategy = "Auto" =>
       \A p \in DmaPort : circuitUsage[p] = ChannelsOf(p[1]) =>
         \A j \in todo : p \notin PortsOf(connections[j])

FlowInv == Connected /\ UsageType /\ InOverlay /\ InTypes /\ LeavesRoom

-----------------------------------------------------------------------------
LEMMA DmaPorts ==
  ASSUME NEW p \in DmaPort
  PROVE  p \in PhysPort /\ ChannelsOf(p[1]) \in Nat /\ ChannelsOf(p[1]) > 0
<1>1. p \in PhysPort /\ p[1] \in Tile
  BY DEF DmaPort, PhysPort, PortType, Direction
<1>2. NumChannels[p[1][2]] \in Nat \ {0}
  BY <1>1, NumChannelsAssumption DEF Tile
<1> QED
  BY <1>1, <1>2 DEF ChannelsOf

LEMMA FunctionIsSeq == ASSUME NEW S, NEW n \in Nat, NEW s \in [1 .. n -> S] PROVE s \in Seq(S)
OBVIOUS

LEMMA Appended ==
  ASSUME Connected, NEW c, DOMAIN c = Fields, connections' = Append(connections, c)
  PROVE  /\ Connected'
         /\ DOMAIN connections' = DOMAIN connections \cup {Len(connections) + 1}
         /\ \A i \in DOMAIN connections : connections'[i] = connections[i]
         /\ connections'[Len(connections) + 1] = c
<1> DEFINE S == {connections[i] : i \in DOMAIN connections} \cup {c}
<1>1. connections \in Seq(S) /\ c \in S
  BY DEF Connected
<1>2. connections' \in Seq(S) /\ Len(connections') = Len(connections) + 1
  BY <1>1
<1>3. DOMAIN connections' = 1 .. Len(connections) + 1 /\ DOMAIN connections = 1 .. Len(connections)
      /\ Len(connections) \in Nat
  BY <1>1, <1>2
<1>4. \A i \in DOMAIN connections : connections'[i] = connections[i]
  BY <1>1, <1>3
<1>5. connections'[Len(connections) + 1] = c
  BY <1>1
<1>6. connections' \in Seq({connections'[i] : i \in DOMAIN connections'})
  <2>1. \A i \in 1 .. Len(connections') : connections'[i] \in {connections'[j] : j \in DOMAIN connections'}
    BY <1>2, <1>3
  <2> QED
    BY <1>2, <2>1
<1>7. \A i \in DOMAIN connections' : DOMAIN connections'[i] = Fields
  BY <1>3, <1>4, <1>5 DEF Connected
<1> QED
  BY <1>3, <1>4, <1>5, <1>6, <1>7 DEF Connected

LEMMA StartsRight == Init => FlowInv
<1> SUFFICES ASSUME Init PROVE FlowInv
  OBVIOUS
<1>1. PICK n \in 1 .. MaxData : \E data \in [1 .. n -> DataConnections] :
        connections = [i \in 1 .. n |-> Data(data[i])]
  BY DEF Init
<1>2. PICK data \in [1 .. n -> DataConnections] : connections = [i \in 1 .. n |-> Data(data[i])]
  BY <1>1
<1>3. DOMAIN connections = 1 .. n /\ n \in Nat
  BY <1>2, MaxDataAssumption
<1>4. \A i \in 1 .. n : DOMAIN connections[i] = Fields /\ connections[i].type = "None"
  BY <1>2 DEF Data, Fields, NoType
<1>5. Connected
  <2> DEFINE S == {connections[i] : i \in DOMAIN connections}
  <2>1. connections \in [1 .. n -> S]
    BY <1>2, <1>3
  <2>2. connections \in Seq(S)
    <3> HIDE DEF S
    <3> QED
      BY <1>3, <2>1
  <2> QED
    BY <1>3, <1>4, <2>2 DEF Connected
<1>6. CircuitsOffDma(DOMAIN connections)
  BY <1>3, <1>4 DEF CircuitsOffDma
<1>7. \A p \in PhysPort : circuitUsage[p] = 0 /\ packetUsage[p] = 0
  BY DEF Init
<1>8. LeavesRoom
  BY <1>7, DmaPorts DEF LeavesRoom
<1> QED
  BY <1>5, <1>6, <1>7, <1>8 DEF FlowInv, InOverlay, InTypes, UsageType, Init

\* A connection of the overlay that does not take a DMA port for itself.
LEMMA OverlayStep ==
  ASSUME FlowInv, stage = "overlay", NEW c, DOMAIN c = Fields,
         c.type = "Circuit" => PortsOf(c) \cap DmaPort = {},
         connections' = Append(connections, c), UNCHANGED <<options, stage, todo, usage>>
  PROVE  FlowInv'
<1>1. /\ Connected'
      /\ DOMAIN connections' = DOMAIN connections \cup {Len(connections) + 1}
      /\ \A i \in DOMAIN connections : connections'[i] = connections[i]
      /\ connections'[Len(connections) + 1] = c
  BY Appended DEF FlowInv
<1>2. CircuitsOffDma(DOMAIN connections)'
  BY <1>1 DEF FlowInv, InOverlay, CircuitsOffDma, PortsOf, Sources, Targets
<1> QED
  BY <1>1, <1>2 DEF FlowInv, InOverlay, InTypes, UsageType, LeavesRoom, options, usage

\* Steps that neither connect nor count anything.
LEMMA OtherStep ==
  ASSUME FlowInv, stage' \notin {"overlay", "types"}, Connected',
         UNCHANGED <<options, usage>>
  PROVE  FlowInv'
BY DEF FlowInv, InOverlay, InTypes, UsageType, LeavesRoom, options, usage

\* Replacing connections by others keeps them a sequence.
LEMMA Replaced ==
  ASSUME FlowInv, connections' = [j \in DOMAIN connections |-> connections'[j]],
         \A j \in DOMAIN connections : DOMAIN connections'[j] = Fields
  PROVE  Connected'
<1> DEFINE S == {connections'[j] : j \in DOMAIN connections'}
           R == {connections[j] : j \in DOMAIN connections}
<1>1. DOMAIN connections = 1 .. Len(connections) /\ Len(connections) \in Nat
  <2>1. connections \in Seq(R)
    BY DEF FlowInv, Connected
  <2> HIDE DEF R
  <2> QED
    BY <2>1
<1>2. DOMAIN connections' = DOMAIN connections
  OBVIOUS
<1>3. connections' \in [1 .. Len(connections) -> S]
  BY <1>1, <1>2
<1>4. connections' \in Seq(S)
  BY <1>1, <1>3, FunctionIsSeq
<1> QED
  BY <1>2, <1>4 DEF Connected

\* Assigning a type counts it for the ports of the connection.
LEMMA TypeStep ==
  ASSUME FlowInv, NEW i \in todo, AssignType(i)
  PROVE  FlowInv'
<1> DEFINE c == connections[i]
           type == TypeFor(i)
<1>1. stage = "types" /\ stage' = "types" /\ todo' = todo \ {i} /\ strategy' = strategy
  BY DEF AssignType, options
<1>2. i \in DOMAIN connections /\ DOMAIN c = Fields
  BY <1>1 DEF FlowInv, InTypes, Connected
<1>3. /\ DOMAIN connections' = DOMAIN connections
      /\ \A j \in DOMAIN connections :
           /\ DOMAIN connections'[j] = Fields
           /\ PortsOf(connections'[j]) = PortsOf(connections[j])
           /\ j # i => connections'[j] = connections[j]
  <2>1. connections' = [connections EXCEPT ![i].type = type]
    BY DEF AssignType
  <2>2. connections'[i] = [c EXCEPT !.type = type]
    BY <1>2, <2>1
  <2>3. /\ connections'[i].src = c.src /\ connections'[i].dsts = c.dsts
        /\ connections'[i].srcPort = c.srcPort /\ connections'[i].dstPort = c.dstPort
        /\ DOMAIN connections'[i] = Fields
    BY <1>2, <2>2 DEF Fields
  <2>4. PortsOf(connections'[i]) = PortsOf(c)
    BY <2>3 DEF PortsOf, Sources, Targets
  <2> QED
    BY <1>2, <2>1, <2>3, <2>4 DEF FlowInv, Connected
<1>4. Connected'
  <2>1. connections' = [j \in DOMAIN connections |-> connections'[j]]
    BY DEF AssignType
  <2> QED
    BY <1>3, <2>1, Replaced
<1>5. UsageType'
  BY DEF AssignType, Counted, FlowInv, UsageType
<1>6. CircuitsOffDma(todo)'
  BY <1>1, <1>3 DEF CircuitsOffDma, FlowInv, InTypes
<1>7. ASSUME strategy = "Auto", NEW p \in DmaPort
      PROVE  /\ circuitUsage'[p] <= ChannelsOf(p[1])
             /\ packetUsage'[p] > 0 => circuitUsage'[p] < ChannelsOf(p[1])
             /\ circuitUsage'[p] = ChannelsOf(p[1]) =>
                  \A j \in todo' : p \notin PortsOf(connections'[j])
  <2> DEFINE n == ChannelsOf(p[1])
  <2>1. p \in PhysPort /\ n \in Nat /\ n > 0
    BY DmaPorts
  <2>2. circuitUsage[p] \in Nat /\ packetUsage[p] \in Nat
    BY <2>1 DEF FlowInv, UsageType
  <2>3. /\ circuitUsage[p] <= n
        /\ packetUsage[p] > 0 => circuitUsage[p] < n
        /\ circuitUsage[p] = n => \A j \in todo : p \notin PortsOf(connections[j])
    BY <1>1, <1>7 DEF FlowInv, LeavesRoom, InTypes
  <2>4. \A j \in todo' : j \in todo /\ j # i /\ PortsOf(connections'[j]) = PortsOf(connections[j])
    BY <1>1, <1>3 DEF FlowInv, InTypes
  <2>5. CASE p \notin PortsOf(c)
    <3>1. circuitUsage'[p] = circuitUsage[p] /\ packetUsage'[p] = packetUsage[p]
      BY <2>1, <2>5 DEF AssignType, Counted, FlowInv, UsageType
    <3> QED
      BY <2>3, <2>4, <3>1
  <2>6. CASE p \in PortsOf(c)
    <3>1. circuitUsage[p] < n
      BY <2>1, <2>2, <2>3, <2>6
    <3>2. CASE type # "Circuit"
      <4>1. circuitUsage'[p] = circuitUsage[p]
        BY <3>2 DEF AssignType
      <4> QED
        BY <2>1, <2>2, <3>1, <4>1
    <3>3. CASE type = "Circuit"
      <4>1. circuitUsage'[p] = circuitUsage[p] + 1 /\ packetUsage'[p] = packetUsage[p]
        BY <2>1, <2>6, <3>3 DEF AssignType, Counted
      <4>2. ~PreAssigned(c)
        <5>1. c.type = "Circuit" => PortsOf(c) \cap DmaPort = {}
          BY <1>1 DEF FlowInv, InTypes, CircuitsOffDma
        <5> QED
          BY <2>6, <3>3, <5>1 DEF TypeFor
      <4>3. ~Congested(p, i)
        BY <1>7, <2>6, <3>3, <4>2 DEF TypeFor
      <4>4. circuitUsage[p] + packetUsage[p] < n
        BY <2>1, <2>2, <4>3 DEF Congested
      <4>5. circuitUsage[p] = n - 1 => \A j \in todo \ {i} : p \notin PortsOf(connections[j])
        BY <4>3 DEF Congested
      <4> QED
        BY <1>1, <2>1, <2>2, <2>4, <3>1, <4>1, <4>4, <4>5
    <3> QED
      BY <3>2, <3>3
  <2> QED
    BY <2>5, <2>6
<1>8. LeavesRoom'
  BY <1>1, <1>7 DEF LeavesRoom
<1>9. InTypes'
  BY <1>1, <1>3, <1>6, <1>7 DEF InTypes, FlowInv
<1>10. InOverlay'
  BY <1>1 DEF InOverlay
<1> QED
  BY <1>4, <1>5, <1>8, <1>9, <1>10 DEF FlowInv

LEMMA EveryStepKeepsRoom == FlowInv /\ [Next]_vars => FlowInv'
<1> SUFFICES ASSUME FlowInv, [Next]_vars PROVE FlowInv'
  OBVIOUS
<1> USE DEF vars, options, usage
<1>1. CASE UNCHANGED vars
  BY <1>1 DEF FlowInv, Connected, UsageType, InOverlay, InTypes, CircuitsOffDma, LeavesRoom
<1>2. ASSUME NEW shim, NEW dsts, ConnectControl(shim, dsts) PROVE FlowInv'
  <2>1. PICK channel : connections' = Append(connections, ControlConnection(shim, dsts, channel))
    BY <1>2 DEF ConnectControl
  <2> DEFINE c == ControlConnection(shim, dsts, channel)
  <2>2. DOMAIN c = Fields /\ c.type # "Circuit"
    BY DEF Fields, ControlConnection
  <2>3. stage = "overlay" /\ UNCHANGED <<options, stage, todo, usage>>
    BY <1>2 DEF ConnectControl
  <2> HIDE DEF c
  <2> QED
    BY <2>1, <2>2, <2>3, OverlayStep DEF c
<1>3. ASSUME NEW shim \in toToken, ConnectToken(shim) PROVE FlowInv'
  <2> DEFINE c == TokenConnection(shim)
  <2>1. DOMAIN c = Fields
    BY DEF Fields, TokenConnection
  <2>2. PortsOf(c) \cap DmaPort = {}
    BY DEF TokenConnection, PortsOf, Sources, Targets, DmaPort
  <2> HIDE DEF c
  <2> QED
    BY <1>3, <2>1, <2>2, OverlayStep DEF ConnectToken, c
<1>4. CASE StartTypes
  <2>1. CircuitsOffDma(todo)'
    BY <1>4 DEF StartTypes, FlowInv, InOverlay, CircuitsOffDma
  <2>2. \A p \in DmaPort : circuitUsage[p] # ChannelsOf(p[1])
    BY <1>4, DmaPorts DEF StartTypes, FlowInv, InOverlay
  <2> QED
    BY <1>4, <2>1, <2>2
    DEF StartTypes, FlowInv, Connected, UsageType, InOverlay, InTypes, LeavesRoom
<1>5. ASSUME NEW i \in InTurn(HaveTypes), AssignType(i) PROVE FlowInv'
  BY <1>5, TypeStep DEF InTurn, FirstOf
<1>6. CASE StartRegister \/ StartChannels \/ \E i \in InTurn({}) : RegisterChannels(i)
  BY <1>6, OtherStep DEF StartRegister, RegisterChannels, StartChannels, FlowInv, Connected
<1>7. ASSUME NEW i \in InTurn(Circuits), AssignChannels(i) \/ NoChannelAvailable(i) PROVE FlowInv'
  <2>1. CASE NoChannelAvailable(i)
    BY <2>1, OtherStep DEF NoChannelAvailable, FlowInv, Connected
  <2>2. CASE AssignChannels(i)
    <3>1. PICK a, b : connections' =
            [connections EXCEPT ![i] = [connections[i] EXCEPT !.srcChannel = a, !.dstChannel = b]]
      BY <2>2 DEF AssignChannels
    <3>2. \A j \in DOMAIN connections : DOMAIN connections'[j] = Fields
      BY <3>1 DEF FlowInv, Connected
    <3>3. connections' = [j \in DOMAIN connections |-> connections'[j]]
      BY <3>1
    <3>4. Connected'
      BY <3>2, <3>3, Replaced
    <3> QED
      BY <2>2, <3>4, OtherStep DEF AssignChannels
  <2> QED
    BY <1>7, <2>1, <2>2
<1>8. CASE StartPacketIds
  BY <1>8, OtherStep DEF StartPacketIds, FlowInv, Connected
<1>9. ASSUME NEW i \in InTurn(ControlFlows), AssignPacketId(i) PROVE FlowInv'
  <2>1. CASE connections' = connections
    BY <1>9, <2>1, OtherStep DEF AssignPacketId, FlowInv, Connected
  <2>2. CASE connections' # connections
    <3>1. PICK n : connections' = [connections EXCEPT ![i].id = n]
      BY <1>9, <2>2 DEF AssignPacketId
    <3>2. \A j \in DOMAIN connections : DOMAIN connections'[j] = Fields
      BY <3>1 DEF FlowInv, Connected
    <3>3. connections' = [j \in DOMAIN connections |-> connections'[j]]
      BY <3>1
    <3>4. Connected'
      BY <3>2, <3>3, Replaced
    <3> QED
      BY <1>9, <3>4, OtherStep DEF AssignPacketId
  <2> QED
    BY <2>1, <2>2
<1>10. CASE Finish
  BY <1>10, OtherStep DEF Finish, FlowInv, Connected
<1> QED
  BY <1>1, <1>2, <1>3, <1>4, <1>5, <1>6, <1>7, <1>8, <1>9, <1>10 DEF Next, ConnectTile, Broadcast

(* The invariant that makes it hold: a port full of circuits has no more use.  *)
THEOREM TypesInvariant == Spec => []FlowInv
  BY StartsRight, EveryStepKeepsRoom, PTL DEF Spec

(* congestionAwareAutoAssignment never asks more circuits of a port than it    *)
(* has channels, and keeps one for the packet flows if there are any.          *)
THEOREM TypesLeaveRoom == Spec => []LeavesRoom
  BY TypesInvariant, PTL DEF FlowInv

-----------------------------------------------------------------------------
(* Packet ids.  A source channel's ids are numbered without a gap, so the   *)
(* next one is above all of them; data flows wait for the control flows.    *)
HasId(i) == connections[i].id # NoId
SameSource(i) == {j \in DOMAIN connections :
                    HasId(j) /\ SourceChannel(connections[j]) = SourceChannel(connections[i])}

AllNumbered == stage \in {"ids", "noId", "done"}

IdInv ==
  /\ ~AllNumbered => \A i \in DOMAIN connections : ~HasId(i)
  /\ AllNumbered => todo \subseteq DOMAIN connections /\ \A i \in todo : ~HasId(i)
  /\ (\E j \in DOMAIN connections : HasId(j) /\ ~IsControl(connections[j]))
       => \A i \in todo : ~IsControl(connections[i])
  /\ \A i \in DOMAIN connections :
       HasId(i) => connections[i].id \in Nat /\ connections[i].id < Cardinality(SameSource(i))
  /\ PacketIdsSeparate

LEMMA NoIdsYet ==
  ASSUME \A i \in DOMAIN connections : ~HasId(i),
         AllNumbered => todo \subseteq DOMAIN connections
  PROVE  IdInv
BY DEF IdInv, HasId, PacketIdsSeparate

LEMMA ConnectionsFinite == ASSUME Connected PROVE IsFiniteSet(DOMAIN connections)
<1> DEFINE R == {connections[j] : j \in DOMAIN connections}
<1>1. DOMAIN connections = 1 .. Len(connections) /\ Len(connections) \in Nat
  <2>1. connections \in Seq(R)
    BY DEF Connected
  <2> HIDE DEF R
  <2> QED
    BY <2>1
<1> QED
  BY <1>1, FS_Interval

\* The flow in turn gets the number of flows of its source channel so far.
LEMMA NumberStep ==
  ASSUME FlowInv, IdInv, stage = "ids", NEW i \in InTurn(ControlFlows),
         connections' = [connections EXCEPT ![i].id = PacketFlowIndex(connections[i])],
         todo' = todo \ {i}, stage' = stage
  PROVE  IdInv'
<1> DEFINE n == PacketFlowIndex(connections[i])
           D == DOMAIN connections
<1>1. i \in todo /\ i \in D /\ ~HasId(i) /\ (i \notin ControlFlows => ControlFlows \cap todo = {})
  BY DEF InTurn, FirstOf, IdInv, AllNumbered
<1>2. /\ DOMAIN connections' = D
      /\ \A j \in D : j # i => connections'[j] = connections[j]
      /\ \A j \in D : /\ SourceChannel(connections'[j]) = SourceChannel(connections[j])
                      /\ IsControl(connections'[j]) <=> IsControl(connections[j])
      /\ connections'[i].id = n
  <2>1. DOMAIN connections[i] = Fields
    BY <1>1 DEF FlowInv, Connected
  <2>2. connections'[i] = [connections[i] EXCEPT !.id = n]
    BY <1>1
  <2>3. /\ connections'[i].id = n /\ connections'[i].src = connections[i].src
        /\ connections'[i].srcPort = connections[i].srcPort
        /\ connections'[i].dstPort = connections[i].dstPort
        /\ connections'[i].srcChannel = connections[i].srcChannel
    BY <2>1, <2>2 DEF Fields
  <2>4. \A j \in D : j # i => connections'[j] = connections[j]
    BY <1>1
  <2> QED
    BY <2>3, <2>4 DEF SourceChannel, IsControl
<1>3. IsFiniteSet(D)
  BY ConnectionsFinite DEF FlowInv
<1>4. SameSource(i) \subseteq D /\ i \notin SameSource(i) /\ n = Cardinality(SameSource(i))
  BY <1>1 DEF SameSource, PacketFlowIndex, HasId
<1>5. n \in Nat /\ IsFiniteSet(SameSource(i))
  BY <1>3, <1>4, FS_Subset, FS_CardinalityType
<1>6. Cardinality(SameSource(i) \cup {i}) = n + 1
  BY <1>4, <1>5, FS_AddElement
<1>7. \A j \in D : HasId(j)' <=> HasId(j) \/ j = i
  BY <1>1, <1>2, <1>5 DEF HasId, NoId
<1>8. \A j \in D : SameSource(j)' = IF SourceChannel(connections[j]) = SourceChannel(connections[i])
                                     THEN SameSource(i) \cup {i} ELSE SameSource(j)
  BY <1>1, <1>2, <1>7 DEF SameSource
<1>9. ASSUME NEW j \in D, HasId(j),
             SourceChannel(connections[j]) = SourceChannel(connections[i])
      PROVE  connections[j].id < n
  <2>1. SameSource(j) = SameSource(i)
    BY <1>9 DEF SameSource
  <2> QED
    BY <1>4, <1>9, <2>1 DEF IdInv
<1>10. ASSUME NEW j \in D, HasId(j)'
       PROVE  connections'[j].id \in Nat /\ connections'[j].id < Cardinality(SameSource(j)')
  <2>1. CASE j = i
    BY <1>2, <1>5, <1>6, <1>8, <2>1
  <2>2. CASE j # i /\ SourceChannel(connections[j]) = SourceChannel(connections[i])
    <3>1. connections'[j].id = connections[j].id /\ connections[j].id \in Nat /\ connections[j].id < n
      BY <1>2, <1>7, <1>9, <1>10, <2>2 DEF IdInv
    <3>2. SameSource(j)' = SameSource(i) \cup {i}
      BY <1>8, <2>2
    <3>3. Cardinality(SameSource(j)') = n + 1
      BY <1>6, <3>2
    <3> QED
      BY <1>5, <3>1, <3>3
  <2>3. CASE j # i /\ SourceChannel(connections[j]) # SourceChannel(connections[i])
    BY <1>2, <1>7, <1>8, <1>10, <2>3 DEF IdInv
  <2> QED
    BY <2>1, <2>2, <2>3
<1>11. ASSUME NEW j \in D, HasId(j)', ~IsControl(connections'[j])
       PROVE  \A k \in todo' : ~IsControl(connections'[k])
  <2>1. \A k \in todo : k \in D
    BY DEF IdInv, AllNumbered
  <2>2. \A k \in todo : ~IsControl(connections[k])
    <3>1. CASE j = i
      BY <1>1, <1>2, <1>11, <2>1, <3>1 DEF ControlFlows
    <3>2. CASE j # i
      BY <1>2, <1>7, <1>11, <3>2 DEF IdInv
    <3> QED
      BY <3>1, <3>2
  <2> QED
    BY <1>2, <2>1, <2>2
<1>12. PacketIdsSeparate'
  <2> SUFFICES ASSUME NEW j \in D, NEW k \in D, j # k, HasId(j)', HasId(k)',
                      SourceChannel(connections'[j]) = SourceChannel(connections'[k])
               PROVE  /\ connections'[j].id # connections'[k].id
                      /\ IsControl(connections'[j]) /\ ~IsControl(connections'[k])
                           => connections'[j].id < connections'[k].id
    BY <1>2 DEF PacketIdsSeparate, HasId
  <2>1. CASE j # i /\ k # i
    BY <1>2, <1>7, <2>1 DEF IdInv, PacketIdsSeparate, HasId
  <2>2. CASE j = i
    <3>1. HasId(k) /\ connections'[k] = connections[k] /\ connections[k].id < n
      BY <1>2, <1>7, <1>9, <2>2
    <3>2. connections[k].id \in Nat
      BY <3>1 DEF IdInv
    <3>3. ~(IsControl(connections[i]) /\ ~IsControl(connections[k]))
      BY <1>1, <3>1 DEF IdInv
    <3> QED
      BY <1>2, <1>5, <2>2, <3>1, <3>2, <3>3
  <2>3. CASE k = i
    <3>1. HasId(j) /\ connections'[j] = connections[j] /\ connections[j].id < n
      BY <1>2, <1>7, <1>9, <2>3
    <3>2. connections[j].id \in Nat
      BY <3>1 DEF IdInv
    <3> QED
      BY <1>2, <1>5, <2>3, <3>1, <3>2
  <2> QED
    BY <2>1, <2>2, <2>3
<1>13. AllNumbered' /\ todo' \subseteq D /\ \A j \in todo' : ~HasId(j)'
  BY <1>1, <1>2, <1>7 DEF AllNumbered, IdInv
<1> QED
  BY <1>2, <1>10, <1>11, <1>12, <1>13 DEF IdInv

LEMMA EveryStepKeepsIds == FlowInv /\ IdInv /\ [Next]_vars => IdInv'
<1> SUFFICES ASSUME FlowInv, IdInv, [Next]_vars PROVE IdInv'
  OBVIOUS
<1> USE DEF vars, options, usage
<1>1. CASE UNCHANGED <<stage, connections, todo>>
  BY <1>1 DEF IdInv, AllNumbered, HasId, SameSource, PacketIdsSeparate
<1>2. ASSUME NEW c, c.id = NoId, DOMAIN c = Fields, connections' = Append(connections, c),
             stage = "overlay", stage' = stage
      PROVE  IdInv'
  <2>1. \A i \in DOMAIN connections' : ~HasId(i)'
    BY <1>2, Appended DEF FlowInv, IdInv, AllNumbered, HasId
  <2> QED
    BY <1>2, <2>1, NoIdsYet DEF IdInv, HasId, PacketIdsSeparate, AllNumbered
<1>3. ASSUME NEW shim, NEW dsts, ConnectControl(shim, dsts) PROVE IdInv'
  <2>1. PICK channel : connections' = Append(connections, ControlConnection(shim, dsts, channel))
    BY <1>3 DEF ConnectControl
  <2> DEFINE c == ControlConnection(shim, dsts, channel)
  <2>2. DOMAIN c = Fields /\ c.id = NoId
    BY DEF Fields, ControlConnection
  <2>3. stage = "overlay" /\ stage' = stage
    BY <1>3 DEF ConnectControl
  <2> HIDE DEF c
  <2> QED
    BY <1>2, <2>1, <2>2, <2>3 DEF c
<1>4. ASSUME NEW shim \in toToken, ConnectToken(shim) PROVE IdInv'
  <2> DEFINE c == TokenConnection(shim)
  <2>1. DOMAIN c = Fields /\ c.id = NoId
    BY DEF Fields, TokenConnection
  <2>2. connections' = Append(connections, c) /\ stage = "overlay" /\ stage' = stage
    BY <1>4 DEF ConnectToken
  <2> HIDE DEF c
  <2> QED
    BY <1>2, <2>1, <2>2
\* A pass that changes types or channels, or ends, before the ids.
<1>5. ASSUME ~AllNumbered, DOMAIN connections' = DOMAIN connections,
             \A i \in DOMAIN connections : connections'[i].id = connections[i].id,
             AllNumbered' => todo' \subseteq DOMAIN connections'
      PROVE  IdInv'
  <2>1. \A i \in DOMAIN connections' : ~HasId(i)'
    BY <1>5 DEF IdInv, HasId
  <2> QED
    BY <1>5, <2>1 DEF IdInv, HasId, PacketIdsSeparate
<1>6. CASE StartTypes \/ StartRegister \/ StartChannels \/ StartPacketIds
  BY <1>5, <1>6 DEF StartTypes, StartRegister, StartChannels, StartPacketIds, AllNumbered
<1>7. CASE \E i \in InTurn({}) : RegisterChannels(i)
  BY <1>5, <1>7 DEF RegisterChannels, AllNumbered
<1>8. ASSUME NEW i \in InTurn(HaveTypes), AssignType(i) PROVE IdInv'
  <2>1. \A j \in DOMAIN connections : connections'[j].id = connections[j].id
    BY <1>8 DEF AssignType, FlowInv, Connected, Fields
  <2> QED
    BY <1>5, <1>8, <2>1 DEF AssignType, AllNumbered
<1>9. ASSUME NEW i \in InTurn(Circuits), AssignChannels(i) PROVE IdInv'
  <2>1. PICK a, b : connections' =
          [connections EXCEPT ![i] = [connections[i] EXCEPT !.srcChannel = a, !.dstChannel = b]]
    BY <1>9 DEF AssignChannels
  <2>2. \A j \in DOMAIN connections : connections'[j].id = connections[j].id
    BY <2>1 DEF FlowInv, Connected, Fields
  <2>3. DOMAIN connections' = DOMAIN connections
    BY <2>1
  <2> QED
    BY <1>5, <1>9, <2>2, <2>3 DEF AssignChannels, AllNumbered
<1>10. ASSUME NEW i \in InTurn(Circuits), NoChannelAvailable(i) PROVE IdInv'
  BY <1>5, <1>10 DEF NoChannelAvailable, AllNumbered
<1>11. ASSUME NEW i \in InTurn(ControlFlows), AssignPacketId(i) PROVE IdInv'
  <2>1. CASE PacketFlowIndex(connections[i]) > PacketIdMaxIdx
    BY <1>11, <2>1 DEF AssignPacketId, IdInv, AllNumbered, HasId, SameSource, PacketIdsSeparate
  <2>2. CASE ~(PacketFlowIndex(connections[i]) > PacketIdMaxIdx)
    BY <1>11, <2>2, NumberStep DEF AssignPacketId
  <2> QED
    BY <2>1, <2>2
<1>12. CASE Finish
  BY <1>12 DEF Finish, IdInv, AllNumbered, HasId, SameSource, PacketIdsSeparate
<1> QED
  BY <1>1, <1>3, <1>4, <1>6, <1>8, <1>9, <1>10, <1>11, <1>12, <1>7 DEF Next, ConnectTile, Broadcast

(* The ids of a source channel are numbered from zero, control flows first.    *)
THEOREM IdsInvariant == Spec => []IdInv
<1>1. Init => IdInv
  <2> SUFFICES ASSUME Init PROVE IdInv
    OBVIOUS
  <2>1. PICK n \in 1 .. MaxData : \E data \in [1 .. n -> DataConnections] :
          connections = [i \in 1 .. n |-> Data(data[i])]
    BY DEF Init
  <2>2. \A i \in DOMAIN connections : ~HasId(i)
    BY <2>1 DEF HasId, Data
  <2> QED
    BY <2>2, NoIdsYet DEF Init
<1> QED
  BY <1>1, EveryStepKeepsIds, TypesInvariant, PTL DEF Spec

(* The flows that leave by one channel have different ids, and the control     *)
(* flows have the lower ones, whatever the program and the overlay.            *)
THEOREM PacketIdsAreSeparate == Spec => []PacketIdsSeparate
  BY IdsInvariant, PTL DEF IdInv

-----------------------------------------------------------------------------
(* The channels of the flows.                                                 *)

Channels(p) == 0 .. ChannelsOf(p[1]) - 1

\* The order in which the channels of packet flows are reused.
Before(q, a, b) == \E k, l \in DOMAIN q : k < l /\ q[k] = a /\ q[l] = b
Distinct(q) == \A k, l \in DOMAIN q : q[k] = q[l] => k = l
GeneratorType == [circuit : SUBSET Nat, packet : Seq(Nat)]

-----------------------------------------------------------------------------
(* ChannelGenerator.                                                          *)

\* A set of channels that is not empty has a first one.
LEMMA FirstExists ==
  ASSUME NEW S \in SUBSET Nat, S # {}
  PROVE  FirstOf(S) # {}
<1> DEFINE R == OpToRel(<, Nat)
<1>1. \E x \in S : \A y \in S : <<y, x>> \notin R
  <2>1. IsWellFoundedOn(R, Nat)
    BY NatLessThanWellFounded
  <2> HIDE DEF R
  <2> QED
    BY <2>1, WFMin
<1>2. PICK x \in S : \A y \in S : <<y, x>> \notin R
  BY <1>1
<1>3. ASSUME NEW y \in S PROVE x <= y
  <2>1. ~(y < x)
    BY <1>2 DEF OpToRel
  <2> QED
    BY <2>1
<1> QED
  BY <1>3 DEF FirstOf

LEMMA InQueue ==
  ASSUME NEW q, NEW a, NEW b, Before(q, a, b) PROVE a \in ToSet(q) /\ b \in ToSet(q)
BY DEF Before, ToSet

\* Taking a channel out of the queue leaves the others in their order.
LEMMA TakenOut ==
  ASSUME NEW q \in Seq(Nat), Distinct(q), NEW ch \in Nat
  PROVE  /\ Without(q, ch) \in Seq(Nat) /\ Distinct(Without(q, ch))
         /\ ToSet(Without(q, ch)) = ToSet(q) \ {ch}
         /\ \A a, b : Before(Without(q, ch), a, b) => Before(q, a, b)
<1> DEFINE w == Without(q, ch)
<1>1. CASE ch \notin ToSet(q)
  <2>1. w = q
    BY <1>1 DEF Without, Contains, ToSet
  <2> QED
    BY <1>1, <2>1
<1>2. CASE ch \in ToSet(q)
  <2> DEFINE k == CHOOSE j \in DOMAIN q : q[j] = ch
             n == Len(q)
  <2>1. k \in 1 .. n /\ q[k] = ch /\ n \in Nat /\ DOMAIN q = 1 .. n
    BY <1>2 DEF ToSet
  <2>2. w = SubSeq(q, 1, k - 1) \o SubSeq(q, k + 1, n)
    <3>1. Contains(q, ch)
      BY <2>1 DEF Contains
    <3>2. w = RemoveAt(q, k)
      BY <3>1 DEF Without
    <3> QED
      BY <3>2 DEF RemoveAt
  <2> HIDE DEF k
  <2>3. /\ w \in Seq(Nat) /\ Len(w) = n - 1
        /\ \A i \in 1 .. n - 1 : w[i] = IF i < k THEN q[i] ELSE q[i + 1]
    <3> DEFINE s == SubSeq(q, 1, k - 1)
               t == SubSeq(q, k + 1, n)
    <3>1. s \in Seq(Nat) /\ Len(s) = k - 1 /\ \A i \in 1 .. k - 1 : s[i] = q[i]
      BY <2>1
    <3>2. t \in Seq(Nat) /\ Len(t) = n - k /\ \A i \in 1 .. n - k : t[i] = q[k + i]
      <4>1. \A i \in k + 1 .. n : q[i] \in Nat
        BY <2>1
      <4>2. k + 1 \in Int /\ n \in Int
        BY <2>1
      <4> HIDE DEF n
      <4>3. /\ t \in Seq(Nat)
            /\ Len(t) = IF k + 1 <= n THEN n - (k + 1) + 1 ELSE 0
            /\ \A i \in 1 .. n - (k + 1) + 1 : t[i] = q[k + 1 + i - 1]
        BY <4>1, <4>2, SubSeqProperties
      <4> QED
        BY <2>1, <4>3
    <3> HIDE DEF s, t, n
    <3>3. /\ w \in Seq(Nat) /\ Len(w) = Len(s) + Len(t)
          /\ \A i \in 1 .. Len(s) + Len(t) : w[i] = IF i <= Len(s) THEN s[i] ELSE t[i - Len(s)]
      <4>1. w = s \o t
        BY <2>2 DEF s, t, n
      <4> HIDE DEF w
      <4> QED
        BY <3>1, <3>2, <4>1, ConcatProperties
    <3> HIDE DEF w
    <3>4. ASSUME NEW i \in 1 .. n - 1 PROVE w[i] = IF i < k THEN q[i] ELSE q[i + 1]
      <4>1. i \in 1 .. Len(s) + Len(t) /\ (i <= Len(s) <=> i < k)
        BY <2>1, <3>1, <3>2
      <4>2. CASE i < k
        BY <2>1, <3>1, <3>3, <4>1, <4>2
      <4>3. CASE i >= k
        <5>1. i - (k - 1) \in 1 .. n - k /\ k + (i - (k - 1)) = i + 1
          BY <2>1, <4>3
        <5>2. w[i] = t[i - (k - 1)]
          BY <2>1, <3>1, <3>3, <4>1, <4>3
        <5> QED
          BY <2>1, <3>2, <4>3, <5>1, <5>2
      <4> QED
        BY <2>1, <4>2, <4>3
    <3> QED
      BY <2>1, <3>1, <3>2, <3>3, <3>4
  <2>4. \A i \in 1 .. n : q[i] = ch <=> i = k
    BY <2>1 DEF Distinct
  <2> HIDE DEF w
  <2>5. DOMAIN w = 1 .. n - 1
    BY <2>1, <2>3
  <2>6. ASSUME NEW i \in 1 .. n - 1, NEW j \in 1 .. n - 1, i < j
        PROVE  \E x, y \in DOMAIN q : x < y /\ q[x] = w[i] /\ q[y] = w[j]
    <3> DEFINE x == IF i < k THEN i ELSE i + 1
               y == IF j < k THEN j ELSE j + 1
    <3>1. x \in DOMAIN q /\ y \in DOMAIN q /\ x < y
      BY <2>1, <2>6
    <3>2. q[x] = w[i] /\ q[y] = w[j]
      BY <2>3
    <3> HIDE DEF x, y
    <3> QED
      BY <3>1, <3>2
  <2>7. \A a, b : Before(w, a, b) => Before(q, a, b)
    BY <2>5, <2>6 DEF Before
  <2>8. Distinct(w)
    <3>1. ASSUME NEW i \in 1 .. n - 1, NEW j \in 1 .. n - 1, i < j PROVE w[i] # w[j]
      <4>1. PICK x, y \in DOMAIN q : x < y /\ q[x] = w[i] /\ q[y] = w[j]
        BY <2>6, <3>1
      <4>2. x # y
        <5>1. \A a, b \in Int : a < b => a # b
          OBVIOUS
        <5>2. x \in Int /\ y \in Int
          BY <2>1
        <5> QED
          BY <4>1, <5>1, <5>2
      <4> QED
        BY <4>1, <4>2 DEF Distinct
    <3>2. \A i, j \in 1 .. n - 1 : i = j \/ i < j \/ j < i
      BY <2>1
    <3> HIDE DEF n
    <3> QED
      BY <2>5, <3>1, <3>2 DEF Distinct
  <2>9. ToSet(w) = ToSet(q) \ {ch}
    <3>1. ASSUME NEW i \in 1 .. n - 1 PROVE w[i] \in ToSet(q) \ {ch}
      <4>1. PICK x \in 1 .. n : x # k /\ w[i] = q[x]
        <5> HIDE DEF n
        <5>1. n \in Nat /\ k \in 1 .. n
          BY <2>1
        <5>2. i \in 1 .. n /\ i + 1 \in 1 .. n /\ (i < k => i # k) /\ (~(i < k) => i + 1 # k)
          BY <5>1
        <5>3. w[i] = IF i < k THEN q[i] ELSE q[i + 1]
          BY <2>3
        <5> QED
          BY <5>2, <5>3
      <4> QED
        BY <2>1, <2>4, <4>1 DEF ToSet
    <3>2. ASSUME NEW j \in 1 .. n, q[j] # ch PROVE q[j] \in ToSet(w)
      <4>1. j # k
        BY <2>1, <3>2
      <4>2. CASE j < k
        <5>1. j \in 1 .. n - 1 /\ w[j] = q[j]
          BY <2>1, <2>3, <4>2
        <5> QED
          BY <2>5, <5>1 DEF ToSet
      <4>3. CASE j > k
        <5> HIDE DEF n
        <5>1. n \in Nat /\ k \in 1 .. n
          BY <2>1
        <5>2. j - 1 \in 1 .. n - 1 /\ ~(j - 1 < k) /\ j - 1 + 1 = j
          BY <4>3, <5>1
        <5>3. w[j - 1] = q[j - 1 + 1]
          BY <2>3, <5>2
        <5> QED
          BY <2>5, <5>2, <5>3 DEF ToSet
      <4> QED
        BY <2>1, <4>1, <4>2, <4>3
    <3>3. ToSet(w) \subseteq ToSet(q) \ {ch}
      BY <2>5, <3>1 DEF ToSet
    <3>4. ToSet(q) \ {ch} \subseteq ToSet(w)
      BY <2>1, <3>2 DEF ToSet
    <3> QED
      BY <3>3, <3>4
  <2> QED
    BY <2>3, <2>7, <2>8, <2>9 DEF w
<1> QED
  BY <1>1, <1>2

\* A new channel comes last.
LEMMA ComesLast ==
  ASSUME NEW w \in Seq(Nat), Distinct(w), NEW ch \in Nat, ch \notin ToSet(w)
  PROVE  /\ Append(w, ch) \in Seq(Nat) /\ Distinct(Append(w, ch))
         /\ ToSet(Append(w, ch)) = ToSet(w) \cup {ch}
         /\ \A a, b : Before(Append(w, ch), a, b) => (b = ch /\ a \in ToSet(w)) \/ Before(w, a, b)
<1> SUFFICES ASSUME NEW r, r = Append(w, ch)
             PROVE  /\ r \in Seq(Nat) /\ Distinct(r) /\ ToSet(r) = ToSet(w) \cup {ch}
                    /\ \A a, b : Before(r, a, b) => (b = ch /\ a \in ToSet(w)) \/ Before(w, a, b)
  OBVIOUS
<1>1. PICK m \in Nat : m = Len(w)
  OBVIOUS
<1>2. /\ r \in Seq(Nat) /\ DOMAIN r = 1 .. m + 1 /\ DOMAIN w = 1 .. m
      /\ r[m + 1] = ch /\ \A i \in 1 .. m : r[i] = w[i]
  BY <1>1
<1>3. \A i \in 1 .. m : w[i] \in ToSet(w) /\ w[i] # ch
  BY <1>2 DEF ToSet
<1>4. \A i \in 1 .. m + 1 : i = m + 1 \/ i \in 1 .. m
  BY <1>1
<1>5. ToSet(r) = ToSet(w) \cup {ch}
  <2>1. m + 1 \in 1 .. m + 1 /\ 1 .. m \subseteq 1 .. m + 1
    BY <1>1
  <2> QED
    BY <1>2, <1>4, <2>1 DEF ToSet
<1>6. ASSUME NEW i \in 1 .. m + 1, NEW j \in 1 .. m + 1, i < j
      PROVE  /\ i \in 1 .. m /\ r[i] = w[i] /\ r[i] # r[j]
             /\ j = m + 1 \/ (j \in 1 .. m /\ r[j] = w[j])
  <2>1. i \in 1 .. m /\ r[i] = w[i] /\ i # j
    BY <1>1, <1>2, <1>6
  <2>2. CASE j = m + 1
    BY <1>2, <1>3, <2>1, <2>2
  <2>3. CASE j # m + 1
    <3>1. j \in 1 .. m /\ r[j] = w[j]
      BY <1>2, <1>4, <2>3
    <3> QED
      BY <1>2, <2>1, <3>1 DEF Distinct
  <2> QED
    BY <2>2, <2>3
<1>7. Distinct(r)
  <2>1. \A i, j \in 1 .. m + 1 : i = j \/ i < j \/ j < i
    BY <1>1
  <2> QED
    BY <1>2, <1>6, <2>1 DEF Distinct
<1>8. ASSUME NEW a, NEW b, Before(r, a, b)
      PROVE  (b = ch /\ a \in ToSet(w)) \/ Before(w, a, b)
  <2>1. PICK k, l \in 1 .. m + 1 : k < l /\ r[k] = a /\ r[l] = b
    BY <1>2, <1>8 DEF Before
  <2>2. k \in 1 .. m /\ w[k] = a /\ (l = m + 1 \/ (l \in 1 .. m /\ w[l] = b))
    BY <1>6, <2>1
  <2> QED
    BY <1>2, <1>3, <2>1, <2>2 DEF Before
<1> QED
  BY <1>2, <1>5, <1>7, <1>8

\* A channel that is assigned to a packet flow goes to the end of the queue.
LEMMA Requeued ==
  ASSUME NEW q \in Seq(Nat), Distinct(q), NEW ch \in Nat
  PROVE  /\ ToBack(q, ch) \in Seq(Nat) /\ Distinct(ToBack(q, ch))
         /\ ToSet(ToBack(q, ch)) = ToSet(q) \cup {ch}
         /\ \A a, b : Before(ToBack(q, ch), a, b) =>
              \/ b = ch /\ a \in ToSet(q) /\ a # ch
              \/ b # ch /\ a # ch /\ Before(q, a, b)
<1> DEFINE w == Without(q, ch)
           r == ToBack(q, ch)
<1>1. /\ w \in Seq(Nat) /\ Distinct(w) /\ ToSet(w) = ToSet(q) \ {ch}
      /\ \A a, b : Before(w, a, b) => Before(q, a, b) /\ a \in ToSet(w) /\ b \in ToSet(w)
  BY TakenOut, InQueue
<1>2. r = Append(w, ch)
  BY DEF ToBack
<1> HIDE DEF w, r
<1>3. /\ r \in Seq(Nat) /\ Distinct(r) /\ ToSet(r) = ToSet(w) \cup {ch}
      /\ \A a, b : Before(r, a, b) => (b = ch /\ a \in ToSet(w)) \/ Before(w, a, b)
  BY <1>1, <1>2, ComesLast
<1> QED
  BY <1>1, <1>3 DEF r

\* The channels of a queue have an order, and the head comes first.
LEMMA QueueOrder ==
  ASSUME NEW q \in Seq(Nat), Distinct(q), NEW a \in ToSet(q), NEW b \in ToSet(q), a # b
  PROVE  /\ Before(q, a, b) \/ Before(q, b, a)
         /\ a = Head(q) => Before(q, a, b)
<1>1. PICK k \in DOMAIN q, l \in DOMAIN q : q[k] = a /\ q[l] = b
  BY DEF ToSet
<1>2. k # l /\ DOMAIN q = 1 .. Len(q) /\ Len(q) \in Nat
  BY <1>1
<1>3. a = Head(q) => k = 1
  <2>1. 1 \in DOMAIN q /\ Head(q) = q[1]
    BY <1>1, <1>2
  <2> QED
    BY <1>1, <2>1 DEF Distinct
<1> QED
  BY <1>1, <1>2, <1>3 DEF Before

LEMMA HeadInQueue ==
  ASSUME NEW q \in Seq(Nat), q # <<>> PROVE Head(q) \in ToSet(q)
<1>1. 1 \in DOMAIN q /\ Head(q) = q[1]
  OBVIOUS
<1> QED
  BY <1>1 DEF ToSet

-----------------------------------------------------------------------------
(* What holds of the channels.                                                *)

\* The connections whose channels the generators know, those of them on a channel.
Seen == IF stage = "register" THEN DOMAIN connections \ todo ELSE DOMAIN connections
Known(p, ch) == OnChannel(p, ch) \cap Seen

EndsRight == \A i \in DOMAIN connections : \A p \in DmaEnds(connections[i]) :
               p \in Port /\ ChannelAt(connections[i], p) \in Channels(p) \cup {NoChannel}
TodoRight == stage \in {"types", "register", "channels"} => todo \subseteq DOMAIN connections
GeneratorRight ==
  /\ generator \in [Port -> GeneratorType]
  /\ \A p \in Port : /\ Distinct(generator[p].packet)
                     /\ ToSet(generator[p].packet) \subseteq Channels(p)
                     /\ generator[p].circuit \subseteq Channels(p)

\* A generator holds the channels of the connections that it knows.
Knows ==
  \A p \in Port, ch \in Nat :
    /\ ch \in generator[p].circuit <=> \E i \in Known(p, ch) : ~IsPacket(connections[i])
    /\ ch \in ToSet(generator[p].packet) <=> \E i \in Known(p, ch) : IsPacket(connections[i])

\* Before AssignChannels only the control connections have DMA channels.
Early == stage \in {"overlay", "types", "register"}
ControlFirst ==
  Early => \A i \in DOMAIN connections :
             Assigned(connections[i]) # {} => IsPacket(connections[i]) /\ IsControl(connections[i])

CircuitsAlone ==
  \A p \in Port, ch \in Nat : \A i, j \in OnChannel(p, ch) : ~IsPacket(connections[i]) => i = j

ChannelInv ==
  /\ EndsRight /\ toConnect \subseteq Tile /\ TodoRight
  /\ GeneratorRight /\ Knows /\ ControlFirst /\ CircuitsAlone

\* Registering follows the program, so that the channel used last is reused last.
Later(A, B) == \E j \in B : \A i \in A : i < j
RegisteredInOrder == stage = "register" => \A i \in Seen, j \in todo : i < j
QueuedByUse ==
  Early => \A p \in Port, a, b \in Nat :
             Before(generator[p].packet, a, b) => Later(Known(p, a), Known(p, b))

\* The loads follow the order of reuse, and there is one flow a channel as long as
\* there is a channel without.
Even(p, a, b) == Load(p, a) <= Load(p, b) /\ Load(p, b) <= Load(p, a) + 1
EvenByUse ==
  stage = "register" =>
    \A p \in Port : \A a, b \in Channels(p) :
      OnChannel(p, a) # {} /\ Later(OnChannel(p, a), OnChannel(p, b)) => Even(p, a, b)
EvenInQueue ==
  stage # "register" =>
    \A p \in Port, a, b \in Nat : Before(generator[p].packet, a, b) => Even(p, a, b)
FirstUses ==
  \A p \in Port : (\E ch \in Channels(p) : OnChannel(p, ch) = {}) =>
                    \A ch \in Channels(p) : Load(p, ch) <= 1

LoadInv == RegisteredInOrder /\ QueuedByUse /\ EvenByUse /\ EvenInQueue /\ FirstUses

-----------------------------------------------------------------------------
\* The connections on a channel can be counted.
LEMMA LoadsCount ==
  ASSUME Connected, NEW p, NEW ch
  PROVE  /\ IsFiniteSet(OnChannel(p, ch)) /\ Load(p, ch) \in Nat
         /\ Load(p, ch) = 0 <=> OnChannel(p, ch) = {}
<1>1. IsFiniteSet(DOMAIN connections)
  BY ConnectionsFinite
<1>2. IsFiniteSet(OnChannel(p, ch))
  BY <1>1, FS_Subset DEF OnChannel
<1> QED
  BY <1>2, FS_CardinalityType, FS_EmptySet DEF Load

LEMMA ChannelsAreNat ==
  ASSUME NEW p \in Port PROVE Channels(p) \subseteq Nat /\ ChannelsOf(p[1]) \in Nat \ {0}
<1>1. p[1][2] \in Rows
  BY DEF Port, Tile
<1> QED
  BY <1>1, NumChannelsAssumption DEF Channels, ChannelsOf

\* A connection gets channels of some ports: it is registered, or they are assigned.
Takes(i, ports) ==
  /\ generator' = [p \in Port |-> IF p \in ports
                     THEN AssignedChannel(generator[p], connections'[i].type, ChannelAt(connections'[i], p))
                     ELSE generator[p]]
  /\ \A p \in ports : p \in Port /\ ChannelAt(connections'[i], p) \in Channels(p)
  /\ \A p \in Port, ch \in Nat :
       Known(p, ch)' = IF p \in ports /\ ch = ChannelAt(connections'[i], p)
                       THEN Known(p, ch) \cup {i} ELSE Known(p, ch)
  /\ \A p \in Port, ch \in Nat : \A j \in Known(p, ch) :
       IsPacket(connections'[j]) <=> IsPacket(connections[j])

\* What AssignedChannel does to the channels of a generator.
LEMMA OneMoreChannel ==
  ASSUME NEW g \in GeneratorType, Distinct(g.packet),
         NEW type, NEW ch \in Nat
  PROVE  LET h == AssignedChannel(g, type, ch) IN
         /\ h \in GeneratorType /\ Distinct(h.packet)
         /\ type = "Packet" => /\ h.packet = ToBack(g.packet, ch)
                               /\ ToSet(h.packet) = ToSet(g.packet) \cup {ch}
                               /\ h.circuit = g.circuit
         /\ type # "Packet" => h.packet = g.packet /\ h.circuit = g.circuit \cup {ch}
<1> DEFINE h == AssignedChannel(g, type, ch)
<1>1. CASE type = "Packet"
  <2> DEFINE r == ToBack(g.packet, ch)
  <2>1. g.packet \in Seq(Nat) /\ g.circuit \in SUBSET Nat
    BY DEF GeneratorType
  <2>2. r \in Seq(Nat) /\ Distinct(r) /\ ToSet(r) = ToSet(g.packet) \cup {ch}
    BY <2>1, Requeued
  <2>3. h = [g EXCEPT !.packet = r]
    BY <1>1 DEF AssignedChannel
  <2> HIDE DEF r
  <2>4. h = [circuit |-> g.circuit, packet |-> r]
    BY <2>3 DEF GeneratorType
  <2>5. h.packet = r /\ h.circuit = g.circuit /\ h \in GeneratorType
    BY <2>1, <2>2, <2>4 DEF GeneratorType
  <2> QED
    BY <1>1, <2>2, <2>5 DEF r
<1>2. CASE type # "Packet"
  <2>1. h = [g EXCEPT !.circuit = @ \cup {ch}]
    BY <1>2 DEF AssignedChannel
  <2> QED
    BY <1>2, <2>1 DEF GeneratorType
<1> QED
  BY <1>1, <1>2

LEMMA KnowsStep ==
  ASSUME GeneratorRight, Knows, NEW i, NEW ports, Takes(i, ports)
  PROVE  GeneratorRight' /\ Knows'
<1> DEFINE at(p) == ChannelAt(connections'[i], p)
           type == connections'[i].type
<1>1. ASSUME NEW p \in Port
      PROVE  /\ generator'[p] \in GeneratorType
             /\ Distinct(generator'[p].packet)
             /\ ToSet(generator'[p].packet) \subseteq Channels(p)
             /\ generator'[p].circuit \subseteq Channels(p)
             /\ \A ch \in Nat :
                  /\ ch \in generator'[p].circuit <=> \E j \in Known(p, ch)' : ~IsPacket(connections'[j])
                  /\ ch \in ToSet(generator'[p].packet) <=>
                       \E j \in Known(p, ch)' : IsPacket(connections'[j])
  <2> DEFINE g == generator[p]
             h == generator'[p]
  <2>1. /\ g \in GeneratorType /\ Distinct(g.packet)
        /\ ToSet(g.packet) \subseteq Channels(p) /\ g.circuit \subseteq Channels(p)
    BY DEF GeneratorRight
  <2>2. \A ch \in Nat : /\ ch \in g.circuit <=> \E j \in Known(p, ch) : ~IsPacket(connections[j])
                        /\ ch \in ToSet(g.packet) <=> \E j \in Known(p, ch) : IsPacket(connections[j])
    BY DEF Knows
  <2>3. \A ch \in Nat : \A j \in Known(p, ch) : IsPacket(connections'[j]) <=> IsPacket(connections[j])
    BY DEF Takes
  <2>4. CASE p \notin ports
    <3>1. h = g /\ \A ch \in Nat : Known(p, ch)' = Known(p, ch)
      BY <2>4 DEF Takes
    <3> HIDE DEF g, h
    <3> QED
      BY <2>1, <2>2, <2>3, <3>1 DEF h, g
  <2>5. CASE p \in ports
    <3>1. h = AssignedChannel(g, type, at(p))
      BY <2>5 DEF Takes
    <3>2. at(p) \in Channels(p) /\ at(p) \in Nat
      BY <2>5, ChannelsAreNat DEF Takes
    <3>3. \A ch \in Nat : Known(p, ch)' = IF ch = at(p) THEN Known(p, ch) \cup {i} ELSE Known(p, ch)
      BY <2>5 DEF Takes
    <3>4. IsPacket(connections'[i]) <=> type = "Packet"
      BY DEF IsPacket
    <3> HIDE DEF g, h, at, type
    <3>5. /\ h \in GeneratorType /\ Distinct(h.packet)
          /\ type = "Packet" => ToSet(h.packet) = ToSet(g.packet) \cup {at(p)} /\ h.circuit = g.circuit
          /\ type # "Packet" => h.packet = g.packet /\ h.circuit = g.circuit \cup {at(p)}
      <4> DEFINE x == AssignedChannel(g, type, at(p))
      <4>1. /\ x \in GeneratorType /\ Distinct(x.packet)
            /\ type = "Packet" => ToSet(x.packet) = ToSet(g.packet) \cup {at(p)} /\ x.circuit = g.circuit
            /\ type # "Packet" => x.packet = g.packet /\ x.circuit = g.circuit \cup {at(p)}
        BY <2>1, <3>2, OneMoreChannel
      <4> HIDE DEF x
      <4> QED
        BY <3>1, <4>1 DEF x
    <3>6. ToSet(h.packet) \subseteq Channels(p) /\ h.circuit \subseteq Channels(p)
      BY <2>1, <3>2, <3>5
    <3>7. ASSUME NEW ch \in Nat
          PROVE  /\ ch \in h.circuit <=> \E j \in Known(p, ch)' : ~IsPacket(connections'[j])
                 /\ ch \in ToSet(h.packet) <=> \E j \in Known(p, ch)' : IsPacket(connections'[j])
      BY <2>2, <2>3, <3>3, <3>4, <3>5
    <3> QED
      BY <3>5, <3>6, <3>7 DEF h
  <2> QED
    BY <2>4, <2>5
<1>2. generator' \in [Port -> GeneratorType]
  <2>1. generator' = [p \in Port |-> generator'[p]]
    BY DEF Takes
  <2> QED
    BY <1>1, <2>1
<1> QED
  BY <1>1, <1>2 DEF GeneratorRight, Knows, Channels

LEMMA KnowsAll ==
  ASSUME stage # "register", NEW p, NEW ch PROVE Known(p, ch) = OnChannel(p, ch)
BY DEF Known, Seen, OnChannel

\* A connection gets the next channels of the generators.
LEMMA ChosenStep ==
  ASSUME Connected, Connected', GeneratorRight, Knows, CircuitsAlone, FirstUses, EvenInQueue,
         stage # "register", stage' # "register", NEW i, NEW ports, Takes(i, ports),
         \A p \in ports : /\ ChannelAt(connections'[i], p) \in
                               NextChannel(generator[p], connections'[i].type, ChannelsOf(p[1]))
                          /\ \A ch \in Nat : i \notin OnChannel(p, ch)
  PROVE  CircuitsAlone' /\ FirstUses' /\ EvenInQueue'
<1> DEFINE at(p) == ChannelAt(connections'[i], p)
           type == connections'[i].type
<1>1. ASSUME NEW p \in Port
      PROVE  /\ \A ch \in Nat : \A j, k \in OnChannel(p, ch)' : ~IsPacket(connections'[j]) => j = k
             /\ (\E ch \in Channels(p) : OnChannel(p, ch)' = {}) => \A ch \in Channels(p) : Load(p, ch)' <= 1
             /\ \A a, b \in Nat : Before(generator'[p].packet, a, b) => Even(p, a, b)'
  <2> DEFINE g == generator[p]
             h == generator'[p]
  <2>1. /\ g \in GeneratorType /\ g.packet \in Seq(Nat) /\ Distinct(g.packet)
        /\ ToSet(g.packet) \subseteq Channels(p) /\ g.circuit \subseteq Channels(p)
    BY DEF GeneratorRight, GeneratorType
  <2>2. \A ch \in Nat : /\ ch \in g.circuit <=> \E j \in OnChannel(p, ch) : ~IsPacket(connections[j])
                        /\ ch \in ToSet(g.packet) <=> \E j \in OnChannel(p, ch) : IsPacket(connections[j])
    BY KnowsAll DEF Knows
  <2>3. \A ch \in Nat : \A j \in OnChannel(p, ch) : IsPacket(connections'[j]) <=> IsPacket(connections[j])
    BY KnowsAll DEF Takes
  <2>4. \A ch \in Nat : \A j, k \in OnChannel(p, ch) : ~IsPacket(connections[j]) => j = k
    BY DEF CircuitsAlone
  <2>5. (\E ch \in Channels(p) : OnChannel(p, ch) = {}) => \A ch \in Channels(p) : Load(p, ch) <= 1
    BY DEF FirstUses
  <2>6. \A a, b \in Nat : Before(g.packet, a, b) => Even(p, a, b)
    BY DEF EvenInQueue
  <2>7. Channels(p) \subseteq Nat
    BY ChannelsAreNat
  <2>8. \A ch : /\ IsFiniteSet(OnChannel(p, ch)) /\ Load(p, ch) \in Nat
                /\ Load(p, ch) = 0 <=> OnChannel(p, ch) = {}
    BY LoadsCount
  <2>9. CASE p \notin ports
    <3>1. h = g
      BY <2>9 DEF Takes
    <3>2. \A ch \in Nat : OnChannel(p, ch)' = OnChannel(p, ch)
      <4>1. \A ch \in Nat : Known(p, ch)' = Known(p, ch)
        BY <2>9 DEF Takes
      <4>2. \A ch : Known(p, ch)' = OnChannel(p, ch)'
        BY DEF Known, Seen, OnChannel
      <4> QED
        BY <4>1, <4>2, KnowsAll
    <3>3. \A ch \in Nat : Load(p, ch)' = Load(p, ch)
      BY <3>2 DEF Load
    <3>4. \A a, b \in Nat : Even(p, a, b) => Even(p, a, b)'
      BY <3>3 DEF Even
    <3> HIDE DEF g, h
    <3> QED
      BY <2>3, <2>4, <2>5, <2>6, <2>7, <3>1, <3>2, <3>3, <3>4 DEF h
  <2>10. CASE p \in ports
    <3> DEFINE c == at(p)
    <3>1. h = AssignedChannel(g, type, c) /\ c \in Channels(p) /\ c \in Nat
      BY <2>7, <2>10 DEF Takes
    <3>2. \A ch \in Nat : OnChannel(p, ch)' = IF ch = c THEN OnChannel(p, ch) \cup {i} ELSE OnChannel(p, ch)
      <4>1. \A ch \in Nat : Known(p, ch)' = IF ch = c THEN Known(p, ch) \cup {i} ELSE Known(p, ch)
        BY <2>10 DEF Takes
      <4>2. \A ch : Known(p, ch)' = OnChannel(p, ch)'
        BY DEF Known, Seen, OnChannel
      <4> HIDE DEF c
      <4> QED
        BY <4>1, <4>2, KnowsAll
    <3>3. c \in NextChannel(g, type, ChannelsOf(p[1])) /\ i \notin OnChannel(p, c)
      BY <2>10, <3>1
    <3>4. IsPacket(connections'[i]) <=> type = "Packet"
      BY DEF IsPacket
    <3> HIDE DEF g, h, c, type
    <3>5. \A ch \in Nat : Load(p, ch)' = IF ch = c THEN Load(p, ch) + 1 ELSE Load(p, ch)
      <4>1. Cardinality(OnChannel(p, c) \cup {i}) = Load(p, c) + 1
        BY <2>8, <3>3, FS_AddElement DEF Load
      <4> QED
        BY <3>1, <3>2, <4>1 DEF Load
    <3>6. /\ h \in GeneratorType /\ Distinct(h.packet)
          /\ type = "Packet" => h.packet = ToBack(g.packet, c)
          /\ type # "Packet" => h.packet = g.packet
      BY <2>1, <3>1, OneMoreChannel
    <3>9. \A a, b : Before(ToBack(g.packet, c), a, b) =>
                       \/ b = c /\ a \in ToSet(g.packet) /\ a # c
                       \/ b # c /\ a # c /\ Before(g.packet, a, b)
      BY <2>1, <3>1, Requeued
    <3>7. CASE c \in FirstUnused(g, ChannelsOf(p[1]))
      <4>1. c \notin g.circuit /\ c \notin ToSet(g.packet)
        BY <3>7 DEF FirstUnused, FirstOf
      <4>2. OnChannel(p, c) = {} /\ Load(p, c) = 0
        BY <2>2, <2>8, <3>1, <4>1
      <4>3. \A ch \in Channels(p) : Load(p, ch) <= 1
        BY <2>5, <3>1, <4>2
      <4>4. \A ch \in Channels(p) : Load(p, ch)' <= 1
        BY <2>7, <2>8, <3>5, <4>2, <4>3
      <4>5. \A ch \in Nat : \A j, k \in OnChannel(p, ch)' : ~IsPacket(connections'[j]) => j = k
        BY <2>3, <2>4, <3>2, <4>2
      <4>6. ASSUME NEW a \in Nat, NEW b \in Nat, Before(h.packet, a, b) PROVE Even(p, a, b)'
        <5>1. CASE type = "Packet" /\ b = c
          <6>1. a \in ToSet(g.packet) /\ a # c
            BY <3>6, <3>9, <4>6, <5>1
          <6>2. Load(p, a) # 0 /\ Load(p, a) <= 1
            BY <2>1, <2>2, <2>8, <4>3, <6>1
          <6>3. Load(p, a)' = Load(p, a) /\ Load(p, b)' = 1 /\ Load(p, a) = 1
            BY <2>8, <3>1, <3>5, <4>2, <5>1, <6>1, <6>2
          <6> QED
            BY <6>3 DEF Even
        <5>2. CASE ~(type = "Packet" /\ b = c)
          <6>1. a # c /\ b # c /\ Before(g.packet, a, b)
            <7>1. CASE type = "Packet"
              BY <3>6, <3>9, <4>6, <5>2, <7>1
            <7>2. CASE type # "Packet"
              BY <3>6, <4>1, <4>6, <7>2, InQueue
            <7> QED
              BY <7>1, <7>2
          <6>2. Load(p, a)' = Load(p, a) /\ Load(p, b)' = Load(p, b)
            BY <3>5, <6>1
          <6> QED
            BY <2>6, <6>1, <6>2 DEF Even
        <5> QED
          BY <5>1, <5>2
      <4> QED
        BY <4>4, <4>5, <4>6 DEF h
    <3>8. CASE c \notin FirstUnused(g, ChannelsOf(p[1]))
      <4>1. type = "Packet" /\ FirstUnused(g, ChannelsOf(p[1])) = {} /\ g.packet # <<>> /\ c = Head(g.packet)
        BY <3>3, <3>8 DEF NextChannel
      <4>2. c \in ToSet(g.packet)
        BY <2>1, <4>1, HeadInQueue
      <4>3. \A ch \in Channels(p) : OnChannel(p, ch)' # {}
        <5>1. Channels(p) \ (g.circuit \cup ToSet(g.packet)) = {}
          BY <2>7, <4>1, FirstExists DEF FirstUnused, Channels
        <5> QED
          BY <2>2, <2>7, <3>2, <5>1
      <4>4. \A ch \in Nat : \A j, k \in OnChannel(p, ch)' : ~IsPacket(connections'[j]) => j = k
        <5>1. PICK m \in OnChannel(p, c) : IsPacket(connections[m])
          BY <2>2, <3>1, <4>2
        <5>2. \A j \in OnChannel(p, c) : IsPacket(connections[j])
          BY <2>4, <3>1, <5>1
        <5> QED
          BY <2>3, <2>4, <3>1, <3>2, <3>4, <4>1, <5>2
      <4>5. ASSUME NEW a \in Nat, NEW b \in Nat, Before(h.packet, a, b) PROVE Even(p, a, b)'
        <5>1. \/ b = c /\ a \in ToSet(g.packet) /\ a # c
              \/ b # c /\ a # c /\ Before(g.packet, a, b)
          BY <3>6, <3>9, <4>1, <4>5
        <5>2. CASE b = c /\ a \in ToSet(g.packet) /\ a # c
          <6>1. Before(g.packet, c, a)
            BY <2>1, <4>1, <4>2, <5>2, QueueOrder
          <6>2. Load(p, c) <= Load(p, a) /\ Load(p, a) <= Load(p, c) + 1
            BY <2>6, <3>1, <6>1 DEF Even
          <6>3. Load(p, a)' = Load(p, a) /\ Load(p, b)' = Load(p, c) + 1
            BY <3>5, <5>2
          <6> QED
            BY <2>8, <6>2, <6>3 DEF Even
        <5>3. CASE b # c /\ a # c /\ Before(g.packet, a, b)
          <6>1. Load(p, a)' = Load(p, a) /\ Load(p, b)' = Load(p, b)
            BY <3>5, <5>3
          <6> QED
            BY <2>6, <5>3, <6>1 DEF Even
        <5> QED
          BY <5>1, <5>2, <5>3
      <4> QED
        BY <4>3, <4>4, <4>5 DEF h
    <3> QED
      BY <3>7, <3>8
  <2> QED
    BY <2>9, <2>10
<1> QED
  BY <1>1 DEF CircuitsAlone, FirstUses, EvenInQueue, Channels

\* Steps that change neither the flows on the channels nor the generators.
LEMMA SameFlows ==
  ASSUME ChannelInv, LoadInv, generator' = generator, TodoRight', toConnect' \subseteq toConnect,
         stage # "register", stage' # "register", Early' => Early,
         DOMAIN connections \subseteq DOMAIN connections',
         \A i \in DOMAIN connections' \ DOMAIN connections : DmaEnds(connections'[i]) = {},
         \A i \in DOMAIN connections :
           /\ DmaEnds(connections'[i]) = DmaEnds(connections[i])
           /\ \A p \in DmaEnds(connections[i]) : ChannelAt(connections'[i], p) = ChannelAt(connections[i], p)
           /\ Assigned(connections[i]) # {} =>
                /\ IsControl(connections'[i]) <=> IsControl(connections[i])
                /\ IsPacket(connections'[i]) <=> IsPacket(connections[i])
  PROVE  ChannelInv' /\ LoadInv'
<1>1. \A p, ch : OnChannel(p, ch)' = OnChannel(p, ch)
  BY DEF OnChannel
<1>2. \A p, ch : Known(p, ch) = OnChannel(p, ch) /\ Known(p, ch)' = OnChannel(p, ch)
  BY <1>1, KnowsAll DEF Known, Seen, OnChannel
<1>3. \A p : \A ch \in Nat : \A i \in OnChannel(p, ch) :
        IsPacket(connections'[i]) <=> IsPacket(connections[i])
  BY DEF OnChannel, Assigned, NoChannel
<1>4. \A i \in DOMAIN connections : Assigned(connections'[i]) = Assigned(connections[i])
  BY DEF Assigned
<1>5. \A i \in DOMAIN connections' \ DOMAIN connections : Assigned(connections'[i]) = {}
  BY DEF Assigned
<1>6. EndsRight'
  BY DEF EndsRight, Channels, ChannelInv
<1>7. Knows'
  BY <1>2, <1>3 DEF Knows, ChannelInv
<1>8. ControlFirst'
  BY <1>4, <1>5 DEF ControlFirst, ChannelInv
<1>9. CircuitsAlone'
  BY <1>1, <1>3 DEF CircuitsAlone, ChannelInv
<1>10. GeneratorRight'
  BY DEF GeneratorRight, ChannelInv, Channels
<1>11. \A p, a, b : Load(p, a)' = Load(p, a) /\ (Even(p, a, b)' <=> Even(p, a, b))
  BY <1>1 DEF Load, Even
<1>12. QueuedByUse'
  BY <1>2 DEF QueuedByUse, LoadInv
<1>13. EvenInQueue' /\ FirstUses'
  BY <1>1, <1>11 DEF EvenInQueue, FirstUses, LoadInv, Channels
<1>14. RegisteredInOrder' /\ EvenByUse'
  BY DEF RegisteredInOrder, EvenByUse
<1> QED
  BY <1>6, <1>7, <1>8, <1>9, <1>10, <1>12, <1>13, <1>14 DEF ChannelInv, LoadInv

\* Channels in a queue and on a port, before the generators are made again.
LEMMA UsedInQueue ==
  ASSUME ChannelInv, ControlFirst, Early, stage # "register", NEW p \in Port, NEW ch \in Channels(p)
  PROVE  OnChannel(p, ch) # {} <=> ch \in ToSet(generator[p].packet)
<1>1. ch \in Nat
  BY ChannelsAreNat
<1>2. \A i \in OnChannel(p, ch) : IsPacket(connections[i])
  BY <1>1 DEF OnChannel, ControlFirst, Assigned, NoChannel
<1> QED
  BY <1>1, <1>2, KnowsAll DEF ChannelInv, Knows

LEMMA LaterIsStrict ==
  ASSUME NEW A \in SUBSET Nat, NEW B \in SUBSET Nat, Later(A, B) PROVE ~Later(B, A)
BY DEF Later

LEMMA IndicesAreNat == ASSUME Connected PROVE DOMAIN connections \subseteq Nat
<1> DEFINE R == {connections[j] : j \in DOMAIN connections}
<1>1. connections \in Seq(R)
  BY DEF Connected
<1> HIDE DEF R
<1> QED
  BY <1>1

LEMMA StartRegisterStep ==
  ASSUME Connected, ChannelInv, LoadInv, StartRegister
  PROVE  ChannelInv' /\ LoadInv'
<1>1. /\ stage = "types" /\ stage' = "register" /\ todo' = DOMAIN connections
      /\ generator' = NoGenerators /\ connections' = connections /\ toConnect' = toConnect
  BY DEF StartRegister, overlayTodo
<1>2. Seen' = {} /\ \A p, ch : Known(p, ch)' = {}
  BY <1>1 DEF Seen, Known
<1>3. \A p, ch : OnChannel(p, ch)' = OnChannel(p, ch) /\ Load(p, ch)' = Load(p, ch)
  BY <1>1 DEF OnChannel, Load
<1>4. \A p \in Port : generator'[p] = NewGenerator
  BY <1>1 DEF NoGenerators
<1>5. NewGenerator \in GeneratorType /\ NewGenerator.packet = <<>> /\ NewGenerator.circuit = {}
  BY DEF NewGenerator, GeneratorType
<1>6. Distinct(<<>>) /\ ToSet(<<>>) = {} /\ \A a, b : ~Before(<<>>, a, b)
  BY DEF Distinct, ToSet, Before
<1>7. GeneratorRight'
  BY <1>1, <1>4, <1>5, <1>6 DEF GeneratorRight, NoGenerators
<1>8. Knows'
  BY <1>2, <1>4, <1>5, <1>6 DEF Knows
<1>9. EvenByUse'
  <2> SUFFICES ASSUME NEW p \in Port, NEW a \in Channels(p), NEW b \in Channels(p),
                      OnChannel(p, a) # {}, Later(OnChannel(p, a), OnChannel(p, b))
               PROVE  Even(p, a, b)
    BY <1>3 DEF EvenByUse, Even, Channels
  <2> DEFINE q == generator[p].packet
  <2>1. q \in Seq(Nat) /\ Distinct(q) /\ a \in Nat /\ b \in Nat
    BY ChannelsAreNat DEF ChannelInv, GeneratorRight, GeneratorType
  <2>2. OnChannel(p, a) \in SUBSET Nat /\ OnChannel(p, b) \in SUBSET Nat
    BY IndicesAreNat DEF OnChannel
  <2>3. ~Later(OnChannel(p, b), OnChannel(p, a)) /\ a # b
    BY <2>2, LaterIsStrict
  <2>4. OnChannel(p, b) # {}
    BY DEF Later
  <2>5. a \in ToSet(q) /\ b \in ToSet(q)
    BY <1>1, <2>4, UsedInQueue DEF Early, ChannelInv
  <2>6. Before(q, a, b) \/ Before(q, b, a)
    BY <2>1, <2>3, <2>5, QueueOrder
  <2>7. ~Before(q, b, a)
    BY <1>1, <2>1, <2>3, KnowsAll DEF LoadInv, QueuedByUse, Early
  <2> QED
    BY <1>1, <2>1, <2>6, <2>7 DEF LoadInv, EvenInQueue
<1>10. QueuedByUse' /\ RegisteredInOrder' /\ EvenInQueue'
  BY <1>1, <1>2, <1>4, <1>5, <1>6 DEF QueuedByUse, RegisteredInOrder, EvenInQueue
<1>11. FirstUses' /\ CircuitsAlone' /\ ControlFirst' /\ EndsRight' /\ TodoRight'
  BY <1>1, <1>3 DEF FirstUses, CircuitsAlone, ControlFirst, EndsRight, TodoRight, Early, ChannelInv,
                    LoadInv, Channels
<1> QED
  BY <1>1, <1>7, <1>8, <1>9, <1>10, <1>11 DEF ChannelInv, LoadInv

\* The next connection of the program takes its place behind those seen so far.
LEMMA QueueStep ==
  ASSUME GeneratorRight, Knows, QueuedByUse, Early, Early', NEW i \in Nat, NEW ports, Takes(i, ports),
         \A p \in ports : connections'[i].type = "Packet",
         \A p, ch : \A j \in Known(p, ch) : j < i
  PROVE  QueuedByUse'
<1> SUFFICES ASSUME NEW p \in Port, NEW a \in Nat, NEW b \in Nat, Before(generator'[p].packet, a, b)
             PROVE  Later(Known(p, a)', Known(p, b)')
  BY DEF QueuedByUse
<1> DEFINE c == ChannelAt(connections'[i], p)
           q == generator[p].packet
<1>1. Before(q, a, b) => Later(Known(p, a), Known(p, b))
  BY DEF QueuedByUse
<1>2. CASE p \notin ports
  BY <1>1, <1>2 DEF Takes
<1>3. CASE p \in ports
  <2>1. generator[p] \in GeneratorType /\ q \in Seq(Nat) /\ Distinct(q)
    BY DEF GeneratorRight, GeneratorType
  <2>2. c \in Nat /\ generator'[p] = AssignedChannel(generator[p], "Packet", c)
    BY <1>3, ChannelsAreNat DEF Takes
  <2>3. \A ch \in Nat : Known(p, ch)' = IF ch = c THEN Known(p, ch) \cup {i} ELSE Known(p, ch)
    BY <1>3 DEF Takes
  <2> HIDE DEF c
  <2>4. Before(ToBack(q, c), a, b)
    BY <2>1, <2>2, OneMoreChannel
  <2> HIDE DEF q
  <2>5. \/ b = c /\ a \in ToSet(q) /\ a # c
        \/ b # c /\ a # c /\ Before(q, a, b)
    BY <2>1, <2>2, <2>4, Requeued
  <2> QED
    BY <1>1, <2>3, <2>5 DEF Later
<1> QED
  BY <1>2, <1>3

LEMMA RegisterStep ==
  ASSUME Connected, ChannelInv, LoadInv, NEW i \in InTurn({}), RegisterChannels(i)
  PROVE  ChannelInv' /\ LoadInv'
<1> DEFINE c == connections[i]
           ports == Assigned(c)
<1>1. /\ stage = "register" /\ stage' = "register" /\ todo' = todo \ {i} /\ connections' = connections
      /\ toConnect' = toConnect /\ generator' = WithChannels(c, ports)
  BY DEF RegisterChannels, overlayTodo
<1>2. i \in todo /\ todo \subseteq DOMAIN connections /\ i \in DOMAIN connections /\ \A j \in todo : i <= j
  BY <1>1 DEF InTurn, FirstOf, ChannelInv, TodoRight
<1>3. DOMAIN connections \subseteq Nat
  BY IndicesAreNat
<1>4. Seen' = Seen \cup {i} /\ \A j \in Seen : j < i
  BY <1>1, <1>2 DEF Seen, LoadInv, RegisteredInOrder
<1>5. \A p, ch : OnChannel(p, ch)' = OnChannel(p, ch) /\ Load(p, ch)' = Load(p, ch)
  BY <1>1 DEF OnChannel, Load
<1>6. \A p \in ports : p \in Port /\ ChannelAt(c, p) \in Channels(p)
  BY <1>2 DEF Assigned, ChannelInv, EndsRight
<1>7. \A p, ch : i \notin Known(p, ch)
  BY <1>1, <1>2 DEF Known, Seen
<1>8. \A p \in Port, ch \in Nat :
        Known(p, ch)' = IF p \in ports /\ ch = ChannelAt(c, p) THEN Known(p, ch) \cup {i} ELSE Known(p, ch)
  <2>1. \A p \in Port, ch \in Nat : i \in OnChannel(p, ch) <=> p \in ports /\ ch = ChannelAt(c, p)
    BY <1>2 DEF OnChannel, Assigned, NoChannel
  <2> QED
    BY <1>4, <1>5, <2>1 DEF Known
<1>9. Takes(i, ports)
  BY <1>1, <1>6, <1>8 DEF Takes, WithChannels
<1>10. GeneratorRight' /\ Knows'
  BY <1>9, KnowsStep DEF ChannelInv
<1>11. QueuedByUse'
  <2>1. \A p \in ports : connections'[i].type = "Packet"
    BY <1>1, <1>2 DEF ChannelInv, ControlFirst, Early, IsPacket
  <2>2. \A p, ch : \A j \in Known(p, ch) : j < i
    BY <1>4 DEF Known
  <2> HIDE DEF ports
  <2> QED
    BY <1>1, <1>2, <1>3, <1>9, <2>1, <2>2, QueueStep DEF ChannelInv, LoadInv, Early
<1>12. RegisteredInOrder'
  <2>1. \A j \in Seen : j < i
    BY <1>4
  <2>2. \A k \in todo' : i < k
    BY <1>1, <1>2, <1>3
  <2>3. \A j \in Seen, k \in todo : j < k
    BY <1>1 DEF LoadInv, RegisteredInOrder
  <2> QED
    BY <1>1, <1>4, <2>2, <2>3 DEF RegisteredInOrder
<1>13. EvenByUse' /\ FirstUses' /\ EvenInQueue'
  BY <1>1, <1>5 DEF EvenByUse, FirstUses, EvenInQueue, LoadInv, Even, Channels
<1>14. CircuitsAlone' /\ ControlFirst' /\ EndsRight' /\ TodoRight'
  BY <1>1, <1>2, <1>5 DEF CircuitsAlone, ControlFirst, EndsRight, TodoRight, Early, ChannelInv, Channels
<1> QED
  BY <1>1, <1>10, <1>11, <1>12, <1>13, <1>14 DEF ChannelInv, LoadInv

\* All are registered: the queues are as the overlay left them.
LEMMA StartChannelsStep ==
  ASSUME Connected, ChannelInv, LoadInv, StartChannels
  PROVE  ChannelInv' /\ LoadInv'
<1>1. /\ stage = "register" /\ stage' = "channels" /\ todo = {} /\ todo' = DOMAIN connections
      /\ generator' = generator /\ connections' = connections /\ toConnect' = toConnect
  BY DEF StartChannels, overlayTodo
<1>2. \A p, ch : /\ OnChannel(p, ch)' = OnChannel(p, ch) /\ Load(p, ch)' = Load(p, ch)
                 /\ Known(p, ch)' = OnChannel(p, ch) /\ Known(p, ch) = OnChannel(p, ch)
  BY <1>1 DEF OnChannel, Load, Known, Seen
<1>3. EvenInQueue'
  <2> SUFFICES ASSUME NEW p \in Port, NEW a \in Nat, NEW b \in Nat, Before(generator[p].packet, a, b)
               PROVE  Even(p, a, b)
    BY <1>1, <1>2 DEF EvenInQueue, Even
  <2>1. Later(OnChannel(p, a), OnChannel(p, b))
    BY <1>1, <1>2 DEF LoadInv, QueuedByUse, Early
  <2>2. a \in ToSet(generator[p].packet) /\ b \in ToSet(generator[p].packet)
    BY InQueue
  <2>3. a \in Channels(p) /\ b \in Channels(p) /\ OnChannel(p, a) # {}
    BY <1>2, <2>2 DEF ChannelInv, GeneratorRight, Knows
  <2> QED
    BY <1>1, <2>1, <2>3 DEF LoadInv, EvenByUse
<1>4. GeneratorRight' /\ Knows' /\ FirstUses' /\ CircuitsAlone' /\ EndsRight'
  BY <1>1, <1>2 DEF ChannelInv, LoadInv, GeneratorRight, Knows, FirstUses, CircuitsAlone, EndsRight, Channels
<1>5. QueuedByUse' /\ RegisteredInOrder' /\ EvenByUse' /\ ControlFirst' /\ TodoRight'
  BY <1>1 DEF QueuedByUse, RegisteredInOrder, EvenByUse, ControlFirst, TodoRight, Early
<1> QED
  BY <1>1, <1>3, <1>4, <1>5 DEF ChannelInv, LoadInv

\* The next channel is one of the port.
LEMMA NextIsChannel ==
  ASSUME GeneratorRight, NEW p \in Port, NEW type
  PROVE  NextChannel(generator[p], type, ChannelsOf(p[1])) \subseteq Channels(p)
<1>1. /\ generator[p] \in GeneratorType /\ generator[p].packet \in Seq(Nat)
      /\ ToSet(generator[p].packet) \subseteq Channels(p)
  BY DEF GeneratorRight, GeneratorType
<1> QED
  BY <1>1, HeadInQueue DEF NextChannel, FirstUnused, FirstOf, Channels

\* A control connection of the overlay gets the next channel of the shim.
LEMMA ConnectStep ==
  ASSUME Connected, Connected', ChannelInv, LoadInv, NEW t \in toConnect, NEW dsts,
         ConnectControl(Shim(t[1]), dsts)
  PROVE  ChannelInv' /\ LoadInv'
<1> DEFINE shim == Shim(t[1])
           port == <<shim, "MM2S">>
           i == Len(connections) + 1
<1>1. PICK channel \in NextChannel(generator[port], "Packet", ChannelsOf(shim)) :
        /\ connections' = Append(connections, ControlConnection(shim, dsts, channel))
        /\ generator' = [generator EXCEPT ![port] = AssignedChannel(@, "Packet", channel)]
  BY DEF ConnectControl
<1> DEFINE c == ControlConnection(shim, dsts, channel)
<1>2. stage = "overlay" /\ stage' = "overlay" /\ toConnect' \subseteq toConnect
  BY DEF ConnectControl
<1>3. port \in Port
  BY NumChannelsAssumption DEF Shim, Port, Tile, Direction, ChannelInv
<1>4. /\ DOMAIN c = Fields /\ DmaEnds(c) = {port} /\ ChannelAt(c, port) = channel
      /\ IsPacket(c) /\ IsControl(c) /\ c.type = "Packet"
  BY DEF ControlConnection, Fields, DmaEnds, ChannelAt, IsPacket, IsControl
<1>5. channel \in Channels(port)
  <2>1. ChannelsOf(port[1]) = ChannelsOf(shim)
    OBVIOUS
  <2> QED
    BY <1>1, <1>3, <2>1, NextIsChannel DEF ChannelInv
<1> HIDE DEF c, shim, port
<1>6. /\ DOMAIN connections' = DOMAIN connections \cup {i}
      /\ \A j \in DOMAIN connections : connections'[j] = connections[j]
      /\ connections'[i] = c /\ i \notin DOMAIN connections /\ i \in Nat
      /\ \A j \in DOMAIN connections : j < i
  <2>1. DOMAIN connections = 1 .. Len(connections) /\ Len(connections) \in Nat
    <3> DEFINE R == {connections[j] : j \in DOMAIN connections}
    <3>1. connections \in Seq(R)
      BY DEF Connected
    <3> HIDE DEF R
    <3> QED
      BY <3>1
  <2>2. connections' = Append(connections, c)
    BY <1>1 DEF c, shim
  <2> QED
    BY <1>4, <2>1, <2>2, Appended
<1> HIDE DEF i
<1>7. channel \in Nat
  BY <1>3, <1>5, ChannelsAreNat
<1>8. \A p, ch : OnChannel(p, ch)' = IF p = port /\ ch = channel THEN OnChannel(p, ch) \cup {i}
                                     ELSE OnChannel(p, ch)
  BY <1>4, <1>6 DEF OnChannel
<1>9. \A p, ch : /\ Known(p, ch) = OnChannel(p, ch) /\ Known(p, ch)' = OnChannel(p, ch)'
                 /\ i \notin OnChannel(p, ch) /\ \A j \in OnChannel(p, ch) : j < i /\ j \in DOMAIN connections
  BY <1>2, <1>6 DEF Known, Seen, OnChannel
<1>10. Takes(i, {port})
  <2>1. generator' = [p \in Port |-> IF p \in {port} THEN AssignedChannel(generator[p], "Packet", channel)
                                     ELSE generator[p]]
    BY <1>1, <1>3 DEF ChannelInv, GeneratorRight, port, shim
  <2> QED
    BY <1>3, <1>4, <1>5, <1>6, <1>8, <1>9, <2>1 DEF Takes
<1>11. GeneratorRight' /\ Knows'
  BY <1>10, KnowsStep DEF ChannelInv
<1>12. CircuitsAlone' /\ FirstUses' /\ EvenInQueue'
  <2>1. ChannelAt(connections'[i], port) \in
          NextChannel(generator[port], connections'[i].type, ChannelsOf(port[1]))
    BY <1>1, <1>4, <1>6 DEF port, shim
  <2> QED
    BY <1>2, <1>9, <1>10, <2>1, ChosenStep DEF ChannelInv, LoadInv
<1>13. QueuedByUse'
  BY <1>2, <1>4, <1>6, <1>9, <1>10, QueueStep DEF ChannelInv, LoadInv, Early
<1>14. EndsRight' /\ ControlFirst'
  <2>1. \A j \in DOMAIN connections' : j = i \/ (j \in DOMAIN connections /\ connections'[j] = connections[j])
    BY <1>6
  <2> QED
    BY <1>2, <1>3, <1>4, <1>5, <1>6, <2>1 DEF EndsRight, ControlFirst, ChannelInv, Early, Assigned, Channels
<1>15. TodoRight' /\ RegisteredInOrder' /\ EvenByUse'
  BY <1>2 DEF TodoRight, RegisteredInOrder, EvenByUse
<1> QED
  BY <1>2, <1>11, <1>12, <1>13, <1>14, <1>15 DEF ChannelInv, LoadInv

\* A connection gets the next channels of the ports where it has none.
LEMMA AssignStep ==
  ASSUME Connected, Connected', ChannelInv, LoadInv, NEW i \in InTurn(Circuits), AssignChannels(i)
  PROVE  ChannelInv' /\ LoadInv'
<1> DEFINE c == connections[i]
           ports == Needed(c)
           Chosen(p) == IF p \in ports THEN CHOOSE ch \in Candidates(p, c.type) : TRUE
                        ELSE ChannelAt(c, p)
           d == [c EXCEPT !.srcChannel = Chosen(<<c.src, "MM2S">>),
                          !.dstChannel = [t \in c.dsts |-> Chosen(<<t, "S2MM">>)]]
<1>1. /\ stage = "channels" /\ stage' = "channels" /\ todo' = todo \ {i} /\ toConnect' = toConnect
      /\ HasChannels(c) /\ connections' = [connections EXCEPT ![i] = d]
      /\ generator' = WithChannels(d, ports)
  BY DEF AssignChannels, overlayTodo
<1>2. i \in DOMAIN connections /\ DOMAIN c = Fields /\ todo \subseteq DOMAIN connections
  BY <1>1 DEF InTurn, FirstOf, ChannelInv, TodoRight, Connected
<1>3. /\ DmaEnds(d) = DmaEnds(c) /\ d.type = c.type
      /\ \A p \in DmaEnds(c) : ChannelAt(d, p) = Chosen(p)
  <2>1. /\ d.src = c.src /\ d.dsts = c.dsts /\ d.srcPort = c.srcPort /\ d.dstPort = c.dstPort
        /\ d.type = c.type
        /\ d.srcChannel = Chosen(<<c.src, "MM2S">>)
        /\ d.dstChannel = [t \in c.dsts |-> Chosen(<<t, "S2MM">>)]
    BY <1>2 DEF Fields
  <2> HIDE DEF d, Chosen
  <2>2. DmaEnds(d) = DmaEnds(c)
    BY <2>1 DEF DmaEnds
  <2>3. ASSUME NEW p \in DmaEnds(c) PROVE ChannelAt(d, p) = Chosen(p)
    <3>1. p = <<c.src, "MM2S">> \/ \E t \in c.dsts : p = <<t, "S2MM">>
      BY DEF DmaEnds
    <3> QED
      BY <2>1, <3>1 DEF ChannelAt
  <2> QED
    BY <2>1, <2>2, <2>3
<1>4. \A p \in DmaEnds(c) : p \in Port /\ ChannelAt(c, p) \in Channels(p) \cup {NoChannel}
  BY <1>2 DEF ChannelInv, EndsRight
<1>5. \A p \in ports : /\ p \in DmaEnds(c) /\ p \in Port /\ ChannelAt(c, p) = NoChannel
                       /\ Chosen(p) \in Candidates(p, c.type)
  BY <1>1, <1>4 DEF HasChannels, Needed, Assigned
<1>6. \A p \in DmaEnds(c) \ ports : Chosen(p) = ChannelAt(c, p)
  OBVIOUS
<1> HIDE DEF d, Chosen
<1>7. \A p \in ports : Chosen(p) \in Channels(p) /\ Chosen(p) \in Nat
  BY <1>5, NextIsChannel, ChannelsAreNat DEF Candidates, ChannelInv
<1>8. /\ DOMAIN connections' = DOMAIN connections /\ connections'[i] = d
      /\ \A j \in DOMAIN connections : j # i => connections'[j] = connections[j]
  BY <1>1, <1>2
<1>9. \A p \in Port, ch \in Nat :
        /\ OnChannel(p, ch)' = IF p \in ports /\ ch = Chosen(p) THEN OnChannel(p, ch) \cup {i}
                                                                ELSE OnChannel(p, ch)
        /\ p \in ports => i \notin OnChannel(p, ch)
  <2> TAKE p \in Port, ch \in Nat
  <2>1. \A j \in DOMAIN connections : j # i => (j \in OnChannel(p, ch)' <=> j \in OnChannel(p, ch))
    BY <1>8 DEF OnChannel
  <2>2. i \in OnChannel(p, ch)' <=> p \in DmaEnds(c) /\ Chosen(p) = ch
    BY <1>2, <1>3, <1>8 DEF OnChannel
  <2>3. i \in OnChannel(p, ch) <=> p \in DmaEnds(c) /\ ChannelAt(c, p) = ch
    BY <1>2 DEF OnChannel
  <2>4. p \in ports => p \in DmaEnds(c) /\ ChannelAt(c, p) # ch
    BY <1>5 DEF NoChannel
  <2>5. OnChannel(p, ch) \subseteq DOMAIN connections /\ OnChannel(p, ch)' \subseteq DOMAIN connections
    BY <1>8 DEF OnChannel
  <2> HIDE DEF ports, c
  <2> QED
    BY <1>2, <1>6, <2>1, <2>2, <2>3, <2>4, <2>5
<1>10. \A p, ch : Known(p, ch) = OnChannel(p, ch) /\ Known(p, ch)' = OnChannel(p, ch)'
  BY <1>1 DEF Known, Seen, OnChannel
<1>11. \A j \in DOMAIN connections : IsPacket(connections'[j]) <=> IsPacket(connections[j])
  BY <1>3, <1>8 DEF IsPacket
<1>12. \A p \in ports : ChannelAt(connections'[i], p) = Chosen(p) /\ connections'[i].type = c.type
  BY <1>3, <1>5, <1>8
<1> HIDE DEF ports, c
<1>13. Takes(i, ports)
  <2>1. \A p, ch : OnChannel(p, ch) \subseteq DOMAIN connections
    BY DEF OnChannel
  <2> QED
    BY <1>1, <1>5, <1>7, <1>8, <1>9, <1>10, <1>11, <1>12, <2>1 DEF Takes, WithChannels
<1>14. GeneratorRight' /\ Knows'
  BY <1>13, KnowsStep DEF ChannelInv
<1>15. CircuitsAlone' /\ FirstUses' /\ EvenInQueue'
  BY <1>1, <1>5, <1>9, <1>12, <1>13, ChosenStep DEF ChannelInv, LoadInv, Candidates
<1>16. EndsRight'
  <2> SUFFICES ASSUME NEW j \in DOMAIN connections, NEW p \in DmaEnds(connections'[j])
               PROVE  p \in Port /\ ChannelAt(connections'[j], p) \in Channels(p) \cup {NoChannel}
    BY <1>8 DEF EndsRight, Channels
  <2>1. CASE j = i
    BY <1>3, <1>4, <1>6, <1>7, <1>8, <2>1
  <2>2. CASE j # i
    BY <1>8, <2>2 DEF ChannelInv, EndsRight
  <2> QED
    BY <2>1, <2>2
<1>17. TodoRight' /\ ControlFirst' /\ RegisteredInOrder' /\ QueuedByUse' /\ EvenByUse'
  BY <1>1, <1>2, <1>8 DEF TodoRight, ControlFirst, RegisteredInOrder, QueuedByUse, EvenByUse, Early
<1> QED
  BY <1>1, <1>14, <1>15, <1>16, <1>17 DEF ChannelInv, LoadInv

\* A connection that has channels keeps its type.
LEMMA AssignTypeStep ==
  ASSUME Connected, ChannelInv, LoadInv, NEW i \in InTurn(HaveTypes), AssignType(i)
  PROVE  ChannelInv' /\ LoadInv'
<1> DEFINE c == connections[i]
           d == connections'[i]
<1>1. /\ stage = "types" /\ stage' = "types" /\ todo' = todo \ {i} /\ toConnect' = toConnect
      /\ connections' = [connections EXCEPT ![i].type = TypeFor(i)] /\ generator' = generator
  BY DEF AssignType, overlayTodo
<1>2. i \in DOMAIN connections /\ DOMAIN c = Fields /\ todo \subseteq DOMAIN connections
  BY <1>1 DEF InTurn, FirstOf, ChannelInv, TodoRight, Connected
<1>3. /\ DOMAIN connections' = DOMAIN connections
      /\ \A j \in DOMAIN connections : j # i => connections'[j] = connections[j]
      /\ d = [c EXCEPT !.type = TypeFor(i)]
  BY <1>1, <1>2
<1>4. /\ d.src = c.src /\ d.dsts = c.dsts /\ d.srcPort = c.srcPort /\ d.dstPort = c.dstPort
      /\ d.srcChannel = c.srcChannel /\ d.dstChannel = c.dstChannel /\ d.type = TypeFor(i)
  BY <1>2, <1>3 DEF Fields
<1>5. Assigned(c) # {} => d.type = c.type
  <2>1. Assigned(c) # {} => c.type = "Packet"
    BY <1>1, <1>2 DEF ChannelInv, ControlFirst, Early, IsPacket
  <2> HIDE DEF c, d
  <2> QED
    BY <1>4, <2>1 DEF TypeFor, PreAssigned, NoType, c
<1> HIDE DEF c, d
<1>6. /\ DmaEnds(d) = DmaEnds(c) /\ \A p : ChannelAt(d, p) = ChannelAt(c, p)
      /\ IsControl(d) <=> IsControl(c)
      /\ Assigned(c) # {} => (IsPacket(d) <=> IsPacket(c))
  BY <1>4, <1>5 DEF DmaEnds, ChannelAt, IsControl, IsPacket
<1>7. \A j \in DOMAIN connections :
        /\ DmaEnds(connections'[j]) = DmaEnds(connections[j])
        /\ \A p \in DmaEnds(connections[j]) : ChannelAt(connections'[j], p) = ChannelAt(connections[j], p)
        /\ Assigned(connections[j]) # {} =>
             /\ IsControl(connections'[j]) <=> IsControl(connections[j])
             /\ IsPacket(connections'[j]) <=> IsPacket(connections[j])
  BY <1>3, <1>6 DEF c, d
<1>8. TodoRight'
  BY <1>1, <1>2, <1>3 DEF TodoRight
<1> QED
  BY <1>1, <1>3, <1>7, <1>8, SameFlows DEF Early

LEMMA ConnectTokenStep ==
  ASSUME Connected, ChannelInv, LoadInv, NEW shim, ConnectToken(shim)
  PROVE  ChannelInv' /\ LoadInv'
<1> DEFINE c == TokenConnection(shim)
<1>1. /\ stage = "overlay" /\ stage' = "overlay" /\ toConnect' = toConnect /\ generator' = generator
      /\ connections' = Append(connections, c)
  BY DEF ConnectToken
<1>2. DOMAIN c = Fields /\ DmaEnds(c) = {}
  BY DEF TokenConnection, Fields, DmaEnds
<1> HIDE DEF c
<1>3. /\ DOMAIN connections' = DOMAIN connections \cup {Len(connections) + 1}
      /\ \A i \in DOMAIN connections : connections'[i] = connections[i]
      /\ connections'[Len(connections) + 1] = c
  BY <1>1, <1>2, Appended
<1> QED
  BY <1>1, <1>2, <1>3, SameFlows DEF Early, TodoRight

LEMMA NumberIdStep ==
  ASSUME Connected, ChannelInv, LoadInv, NEW i, AssignPacketId(i)
  PROVE  ChannelInv' /\ LoadInv'
<1>1. stage = "ids" /\ stage' \in {"ids", "noId"} /\ toConnect' = toConnect /\ generator' = generator
  BY DEF AssignPacketId, overlayTodo
<1>2. /\ DOMAIN connections' = DOMAIN connections
      /\ \A j \in DOMAIN connections : \A f \in Fields \ {"id"} : connections'[j][f] = connections[j][f]
  <2>1. CASE connections' = connections
    BY <2>1
  <2>2. CASE connections' # connections
    <3>1. connections' = [connections EXCEPT ![i].id = PacketFlowIndex(connections[i])]
      BY <2>2 DEF AssignPacketId
    <3> QED
      BY <3>1 DEF Connected, Fields
  <2> QED
    BY <2>1, <2>2
<1>3. ASSUME NEW j \in DOMAIN connections
      PROVE  /\ DmaEnds(connections'[j]) = DmaEnds(connections[j])
             /\ \A p : ChannelAt(connections'[j], p) = ChannelAt(connections[j], p)
             /\ IsControl(connections'[j]) <=> IsControl(connections[j])
             /\ IsPacket(connections'[j]) <=> IsPacket(connections[j])
  <2> DEFINE c == connections[j]
             d == connections'[j]
  <2>1. /\ d.src = c.src /\ d.dsts = c.dsts /\ d.srcPort = c.srcPort /\ d.dstPort = c.dstPort
        /\ d.srcChannel = c.srcChannel /\ d.dstChannel = c.dstChannel /\ d.type = c.type
    BY <1>2 DEF Fields
  <2> HIDE DEF c, d
  <2>2. /\ DmaEnds(d) = DmaEnds(c) /\ \A p : ChannelAt(d, p) = ChannelAt(c, p)
        /\ IsControl(d) <=> IsControl(c)
        /\ IsPacket(d) <=> IsPacket(c)
    BY <2>1 DEF DmaEnds, ChannelAt, IsControl, IsPacket
  <2> QED
    BY <2>2 DEF c, d
<1> QED
  BY <1>1, <1>2, <1>3, SameFlows DEF Early, TodoRight

LEMMA OtherFlowStep ==
  ASSUME ChannelInv, LoadInv, connections' = connections, generator' = generator,
         toConnect' = toConnect, stage # "register", stage' # "register", Early' => Early, TodoRight'
  PROVE  ChannelInv' /\ LoadInv'
BY SameFlows

LEMMA EveryStepKeepsChannels ==
  FlowInv /\ FlowInv' /\ ChannelInv /\ LoadInv /\ [Next]_vars => ChannelInv' /\ LoadInv'
<1> SUFFICES ASSUME FlowInv, FlowInv', ChannelInv, LoadInv, [Next]_vars PROVE ChannelInv' /\ LoadInv'
  OBVIOUS
<1>0. Connected /\ Connected'
  BY DEF FlowInv
<1>1. CASE UNCHANGED vars
  <2>1. /\ connections' = connections /\ stage' = stage /\ todo' = todo /\ generator' = generator
        /\ toConnect' = toConnect
    BY <1>1 DEF vars, overlayTodo
  <2>2. CASE stage # "register"
    BY <2>1, <2>2, OtherFlowStep DEF ChannelInv, TodoRight, Early
  <2>3. CASE stage = "register"
    <3>1. \A p, ch : /\ OnChannel(p, ch)' = OnChannel(p, ch) /\ Load(p, ch)' = Load(p, ch)
                     /\ Known(p, ch)' = Known(p, ch) /\ Seen' = Seen
      BY <2>1 DEF OnChannel, Load, Known, Seen
    <3>2. EndsRight' /\ TodoRight' /\ GeneratorRight' /\ Knows' /\ ControlFirst' /\ CircuitsAlone'
      BY <2>1, <3>1 DEF EndsRight, TodoRight, GeneratorRight, Knows, ControlFirst, CircuitsAlone, ChannelInv,
                        Channels, Early
    <3>3. RegisteredInOrder' /\ QueuedByUse' /\ EvenByUse' /\ EvenInQueue' /\ FirstUses'
      BY <2>1, <3>1 DEF RegisteredInOrder, QueuedByUse, EvenByUse, EvenInQueue, FirstUses, LoadInv, Channels,
                        Early, Even
    <3> QED
      BY <2>1, <3>2, <3>3 DEF ChannelInv, LoadInv
  <2> QED
    BY <2>2, <2>3
<1>2. ASSUME NEW t \in InOrder(toConnect \ Deferred), ConnectTile(t) PROVE ChannelInv' /\ LoadInv'
  BY <1>0, <1>2, ConnectStep DEF ConnectTile, InOrder
<1>3. ASSUME NEW t \in InOrder(Deferred), Broadcast(t) PROVE ChannelInv' /\ LoadInv'
  BY <1>0, <1>3, ConnectStep DEF Broadcast, InOrder, Deferred
<1>4. ASSUME NEW shim \in toToken, ConnectToken(shim) PROVE ChannelInv' /\ LoadInv'
  BY <1>0, <1>4, ConnectTokenStep
<1>5. CASE StartTypes
  BY <1>5, OtherFlowStep DEF StartTypes, overlayTodo, Early, TodoRight
<1>6. ASSUME NEW i \in InTurn(HaveTypes), AssignType(i) PROVE ChannelInv' /\ LoadInv'
  BY <1>0, <1>6, AssignTypeStep
<1>7. CASE StartRegister
  BY <1>0, <1>7, StartRegisterStep
<1>8. ASSUME NEW i \in InTurn({}), RegisterChannels(i) PROVE ChannelInv' /\ LoadInv'
  BY <1>0, <1>8, RegisterStep
<1>9. CASE StartChannels
  BY <1>0, <1>9, StartChannelsStep
<1>10. ASSUME NEW i \in InTurn(Circuits), AssignChannels(i) PROVE ChannelInv' /\ LoadInv'
  BY <1>0, <1>10, AssignStep
<1>11. ASSUME NEW i \in InTurn(Circuits), NoChannelAvailable(i) PROVE ChannelInv' /\ LoadInv'
  BY <1>11, OtherFlowStep DEF NoChannelAvailable, overlayTodo, Early, TodoRight
<1>12. CASE StartPacketIds
  BY <1>12, OtherFlowStep DEF StartPacketIds, overlayTodo, Early, TodoRight
<1>13. ASSUME NEW i \in InTurn(ControlFlows), AssignPacketId(i) PROVE ChannelInv' /\ LoadInv'
  BY <1>0, <1>13, NumberIdStep
<1>14. CASE Finish
  BY <1>14, OtherFlowStep DEF Finish, overlayTodo, Early, TodoRight
<1> QED
  BY <1>1, <1>2, <1>3, <1>4, <1>5, <1>6, <1>7, <1>8, <1>9, <1>10, <1>11, <1>12, <1>13, <1>14 DEF Next

LEMMA NoChannelsAtFirst == Init => ChannelInv /\ LoadInv
<1> SUFFICES ASSUME Init PROVE ChannelInv /\ LoadInv
  OBVIOUS
<1>0. PICK n \in 1 .. MaxData : \E data \in [1 .. n -> DataConnections] :
        /\ connections = [i \in 1 .. n |-> Data(data[i])]
        /\ toConnect = IF overlay.ctrl THEN WithShims(TilesOf(data)) ELSE {}
  BY DEF Init
<1>1. PICK data \in [1 .. n -> DataConnections] :
        /\ connections = [i \in 1 .. n |-> Data(data[i])]
        /\ toConnect = IF overlay.ctrl THEN WithShims(TilesOf(data)) ELSE {}
  BY <1>0
<1>2. stage = "overlay" /\ generator = NoGenerators
  BY DEF Init
<1>3. DOMAIN connections = 1 .. n /\ \A i \in 1 .. n : connections[i] = Data(data[i])
  BY <1>1
<1>4. \A c \in DataConnections : c.src \in Tile /\ c.dsts \subseteq Tile
  BY TilesAssumption DEF Tile
<1>5. \A i \in 1 .. n :
        /\ DmaEnds(connections[i]) \subseteq Port
        /\ \A p \in DmaEnds(connections[i]) : ChannelAt(connections[i], p) = NoChannel
  <2> TAKE i \in 1 .. n
  <2>1. data[i] \in DataConnections
    OBVIOUS
  <2> QED
    BY <1>3, <1>4, <2>1 DEF Data, DmaEnds, ChannelAt, Port, Direction
<1>6. \A p : \A ch \in Nat : OnChannel(p, ch) = {}
  BY <1>3, <1>5 DEF OnChannel, NoChannel
<1>7. TilesOf(data) \subseteq Tile
  BY <1>4 DEF TilesOf
<1>8. toConnect \subseteq Tile
  BY <1>1, <1>7, NumChannelsAssumption DEF WithShims, Column, Shim, Tile
<1>9. /\ NewGenerator \in GeneratorType /\ NewGenerator.packet = <<>> /\ NewGenerator.circuit = {}
      /\ Distinct(<<>>) /\ ToSet(<<>>) = {} /\ \A a, b : ~Before(<<>>, a, b)
  BY DEF NewGenerator, GeneratorType, Distinct, ToSet, Before
<1>10. \A p \in Port : generator[p] = NewGenerator
  BY <1>2 DEF NoGenerators
<1>11. GeneratorRight
  BY <1>2, <1>9, <1>10 DEF GeneratorRight, NoGenerators
<1>12. Knows
  BY <1>6, <1>9, <1>10 DEF Knows, Known
<1>13. EndsRight /\ ControlFirst /\ TodoRight
  BY <1>2, <1>3, <1>5 DEF EndsRight, ControlFirst, TodoRight, Assigned
<1>14. CircuitsAlone
  BY <1>6 DEF CircuitsAlone
<1>15. FirstUses
  <2>1. Connected
    BY StartsRight DEF FlowInv
  <2>2. \A p \in Port : \A ch \in Channels(p) : Load(p, ch) = 0
    BY <1>6, <2>1, LoadsCount, ChannelsAreNat
  <2> QED
    BY <2>2 DEF FirstUses
<1>16. RegisteredInOrder /\ QueuedByUse /\ EvenByUse /\ EvenInQueue
  BY <1>2, <1>9, <1>10 DEF RegisteredInOrder, QueuedByUse, EvenByUse, EvenInQueue
<1> QED
  BY <1>8, <1>11, <1>12, <1>13, <1>14, <1>15, <1>16 DEF ChannelInv, LoadInv

(* The generators hold the channels in use, in the order of their use.         *)
THEOREM ChannelsInvariant == Spec => [](ChannelInv /\ LoadInv)
<1>1. FlowInv /\ ChannelInv /\ LoadInv /\ [Next]_vars => (FlowInv /\ ChannelInv /\ LoadInv)'
  BY EveryStepKeepsRoom, EveryStepKeepsChannels
<1> QED
  BY <1>1, StartsRight, NoChannelsAtFirst, PTL DEF Spec

(* A circuit never shares a DMA channel, at any time, with control flows of    *)
(* the overlay or with flows that are assigned later.                          *)
THEOREM CircuitsOwnTheirChannels == Spec => []CircuitOwnsChannel
<1>1. ChannelInv => CircuitOwnsChannel
  <2> SUFFICES ASSUME ChannelInv, NEW p \in Port, NEW ch \in Channels(p), NEW i \in OnChannel(p, ch),
                      ~IsPacket(connections[i])
               PROVE  Cardinality(OnChannel(p, ch)) = 1
    BY DEF CircuitOwnsChannel, Channels
  <2>1. OnChannel(p, ch) = {i}
    BY ChannelsAreNat DEF ChannelInv, CircuitsAlone
  <2> QED
    BY <2>1, FS_Singleton
<1> QED
  BY <1>1, ChannelsInvariant, PTL

(* When all channels are assigned, the packet flows of a port are spread       *)
(* evenly over the channels that circuits leave.                               *)
THEOREM PacketFlowsAreBalanced == Spec => []LoadBalanced
<1>1. FlowInv /\ ChannelInv /\ LoadInv => LoadBalanced
  <2> SUFFICES ASSUME FlowInv, ChannelInv, LoadInv, stage = "done", NEW p \in Port,
                      NEW a \in Channels(p), \A i \in OnChannel(p, a) : IsPacket(connections[i]),
                      NEW b \in Channels(p), \A i \in OnChannel(p, b) : IsPacket(connections[i])
               PROVE  Load(p, a) <= Load(p, b) + 1
    BY DEF LoadBalanced, Channels
  <2> DEFINE q == generator[p].packet
  <2>1. a \in Nat /\ b \in Nat /\ q \in Seq(Nat) /\ Distinct(q)
    BY ChannelsAreNat DEF ChannelInv, GeneratorRight, GeneratorType
  <2>2. \A ch \in {a, b} : /\ Load(p, ch) \in Nat
                           /\ Load(p, ch) = 0 <=> OnChannel(p, ch) = {}
                           /\ ch \in ToSet(q) <=> OnChannel(p, ch) # {}
    BY <2>1, LoadsCount, KnowsAll DEF FlowInv, ChannelInv, Knows
  <2>3. CASE OnChannel(p, a) = {} \/ OnChannel(p, b) = {}
    <3>1. Load(p, a) <= 1
      BY <2>3 DEF LoadInv, FirstUses
    <3> QED
      BY <2>2, <3>1
  <2>4. CASE a = b
    BY <2>2, <2>4
  <2>5. CASE a # b /\ OnChannel(p, a) # {} /\ OnChannel(p, b) # {}
    <3>1. Before(q, a, b) \/ Before(q, b, a)
      BY <2>1, <2>2, <2>5, QueueOrder
    <3>2. Even(p, a, b) \/ Even(p, b, a)
      BY <2>1, <3>1 DEF LoadInv, EvenInQueue
    <3> QED
      BY <2>2, <3>2 DEF Even
  <2> QED
    BY <2>3, <2>4, <2>5
<1> QED
  BY <1>1, ChannelsInvariant, TypesInvariant, PTL

-----------------------------------------------------------------------------
(* Enough channels. Control flows have theirs and are packets, so the circuits *)
(* of a port and its control flows have to fit; then packets share the rest.   *)
Typed == CASE stage = "overlay" -> {}
           [] stage = "types" -> DOMAIN connections \ todo
           [] OTHER -> DOMAIN connections
CircuitsAt(p) == {i \in Typed : p \in DmaEnds(connections[i]) /\ ~IsPacket(connections[i])}
PacketsAt(p) == {i \in Typed : p \in DmaEnds(connections[i]) /\ IsPacket(connections[i])}
ControlAt(p) == {i \in DOMAIN connections : p \in DmaEnds(connections[i]) /\ IsControl(connections[i])}
Phys(p) == <<p[1], "DMA", p[2]>>

TypesRight ==
  /\ \A i \in DOMAIN connections : connections[i].type \in {NoType, "Circuit", "Packet"}
  /\ \A i \in Typed : connections[i].type # NoType
  /\ \A i \in DOMAIN connections : IsControl(connections[i]) =>
       /\ connections[i].type # NoType
       /\ DmaEnds(connections[i]) # {} => IsPacket(connections[i])

CountsRight ==
  \A p \in Port : /\ circuitUsage[Phys(p)] = Cardinality(CircuitsAt(p))
                  /\ packetUsage[Phys(p)] = Cardinality(PacketsAt(p))

RoomForControl ==
  strategy = "Auto" =>
    \A p \in Port : circuitUsage[Phys(p)] > 0 =>
      circuitUsage[Phys(p)] + Cardinality(ControlAt(p)) <= ChannelsOf(p[1])

\* As long as circuits need channels, the packet flows on channels are control flows.
CircuitsFirst ==
  stage = "channels" /\ (\E i \in todo : ~IsPacket(connections[i])) =>
    \A j \in DOMAIN connections :
      IsPacket(connections[j]) /\ Assigned(connections[j]) # {} => IsControl(connections[j])

RoomInv == TypesRight /\ CountsRight /\ RoomForControl /\ CircuitsFirst /\ AutoSuffices

LEMMA PhysPorts ==
  ASSUME NEW p \in Port
  PROVE  /\ Phys(p) \in DmaPort /\ Phys(p) \in PhysPort /\ ChannelsOf(Phys(p)[1]) = ChannelsOf(p[1])
         /\ \A c : Phys(p) \in PortsOf(c) <=> p \in DmaEnds(c)
<1>1. PICK t \in Tile, dir \in Direction : p = <<t, dir>>
  BY DEF Port
<1>2. Phys(p) = <<t, "DMA", dir>> /\ dir \in {"MM2S", "S2MM"}
  BY <1>1 DEF Phys, Direction
<1>3. \A c : Phys(p) \in PortsOf(c) <=> p \in DmaEnds(c)
  BY <1>1, <1>2 DEF PortsOf, Sources, Targets, DmaEnds
<1> QED
  BY <1>2, <1>3 DEF DmaPort, PhysPort, PortType, Direction, Phys

\* Flows that occupy all channels of a port are as many as the channels.
LEMMA AllOccupied ==
  ASSUME Connected, NEW p \in Port, NEW S \in SUBSET DOMAIN connections,
         \A ch \in Channels(p) : \E j \in S : ChannelAt(connections[j], p) = ch
  PROVE  IsFiniteSet(S) /\ ChannelsOf(p[1]) <= Cardinality(S)
<1> DEFINE R == {j \in S : ChannelAt(connections[j], p) \in Channels(p)}
           f == [j \in R |-> ChannelAt(connections[j], p)]
           T == Channels(p)
<1>1. IsFiniteSet(S)
  BY ConnectionsFinite, FS_Subset
<1>2. IsFiniteSet(R) /\ Cardinality(R) <= Cardinality(S)
  BY <1>1, FS_Subset
<1>3. f \in Surjection(R, T)
  BY DEF Surjection
<1> HIDE DEF R, f, T
<1>4. Cardinality(T) <= Cardinality(R)
  BY <1>2, <1>3, FS_Surjection
<1>5. ChannelsOf(p[1]) \in Nat \ {0}
  BY ChannelsAreNat
<1>6. Cardinality(T) = ChannelsOf(p[1])
  BY <1>5, FS_Interval DEF T, Channels
<1>7. Cardinality(R) \in Nat /\ Cardinality(S) \in Nat
  BY <1>1, <1>2, FS_CardinalityType
<1> QED
  BY <1>1, <1>2, <1>4, <1>5, <1>6, <1>7

\* AssignChannels finds a channel for the connection in turn.
LEMMA ChannelLeft ==
  ASSUME FlowInv, ChannelInv, TypesRight, CountsRight, RoomForControl, CircuitsFirst,
         strategy = "Auto", stage = "channels", NEW i \in todo
  PROVE  HasChannels(connections[i])
<1> SUFFICES ASSUME NEW p \in Needed(connections[i]), Candidates(p, connections[i].type) = {}
             PROVE  FALSE
  BY DEF HasChannels
<1> DEFINE c == connections[i]
           g == generator[p]
           n == ChannelsOf(p[1])
<1>1. i \in DOMAIN connections /\ p \in DmaEnds(c) /\ p \in Port /\ ChannelAt(c, p) = NoChannel
  BY DEF ChannelInv, TodoRight, EndsRight, Needed, Assigned
<1>2. n \in Nat /\ n > 0 /\ Channels(p) \subseteq Nat /\ Channels(p) = 0 .. n - 1 /\ NoChannel \notin Channels(p)
  BY <1>1, ChannelsAreNat DEF Channels, NoChannel
<1>3. Connected /\ IsFiniteSet(DOMAIN connections) /\ Typed = DOMAIN connections
  BY ConnectionsFinite DEF FlowInv, Typed
<1>4. FirstUnused(g, n) = {}
  BY DEF Candidates, NextChannel
<1>5. Channels(p) \subseteq g.circuit \cup ToSet(g.packet)
  BY <1>2, <1>4, FirstExists DEF FirstUnused
<1>6. g.packet # <<>> => ~IsPacket(c)
  BY <1>4 DEF Candidates, NextChannel, IsPacket
<1>7. \A ch \in Nat : OnChannel(p, ch) = Known(p, ch)
  BY KnowsAll
<1>8. \A ch \in g.circuit \cap Nat :
        \E j \in CircuitsAt(p) : ChannelAt(connections[j], p) = ch
  BY <1>1, <1>3, <1>7 DEF ChannelInv, Knows, OnChannel, CircuitsAt
<1>9. /\ circuitUsage[Phys(p)] = Cardinality(CircuitsAt(p))
      /\ packetUsage[Phys(p)] = Cardinality(PacketsAt(p))
  BY <1>1 DEF CountsRight
<1>10. CircuitsAt(p) \subseteq DOMAIN connections /\ PacketsAt(p) \subseteq DOMAIN connections
       /\ ControlAt(p) \subseteq DOMAIN connections
  BY <1>3 DEF CircuitsAt, PacketsAt, ControlAt
<1>11. /\ IsFiniteSet(CircuitsAt(p)) /\ IsFiniteSet(PacketsAt(p)) /\ IsFiniteSet(ControlAt(p))
       /\ Cardinality(CircuitsAt(p)) \in Nat /\ Cardinality(PacketsAt(p)) \in Nat
       /\ Cardinality(ControlAt(p)) \in Nat
  BY <1>3, <1>10, FS_Subset, FS_CardinalityType
<1> HIDE DEF g, n, c
<1>12. CASE IsPacket(c)
  <2>1. g.packet = <<>> /\ ToSet(g.packet) = {}
    BY <1>6, <1>12 DEF ToSet
  <2>2. n <= Cardinality(CircuitsAt(p))
    BY <1>1, <1>2, <1>3, <1>5, <1>8, <1>10, <2>1, AllOccupied DEF n
  <2>3. i \in PacketsAt(p)
    BY <1>1, <1>3, <1>12 DEF PacketsAt, c
  <2>4. Cardinality(PacketsAt(p)) > 0
    BY <1>11, <2>3, FS_EmptySet
  <2>5. circuitUsage[Phys(p)] < n
    BY <1>1, <1>9, <2>4, PhysPorts DEF FlowInv, LeavesRoom, n
  <2> QED
    BY <1>2, <1>9, <1>11, <2>2, <2>5
<1>13. CASE ~IsPacket(c)
  <2> DEFINE S == (CircuitsAt(p) \ {i}) \cup ControlAt(p)
  <2>1. i \in CircuitsAt(p)
    BY <1>1, <1>3, <1>13 DEF CircuitsAt, c
  <2>2. ASSUME NEW ch \in Channels(p) PROVE \E j \in S : ChannelAt(connections[j], p) = ch
    <3>1. CASE ch \in g.circuit
      <4>1. PICK j \in CircuitsAt(p) : ChannelAt(connections[j], p) = ch
        BY <1>2, <1>8, <3>1
      <4>2. j # i
        BY <1>1, <1>2, <4>1 DEF c
      <4> QED
        BY <4>1, <4>2
    <3>2. CASE ch \in ToSet(g.packet)
      <4>1. PICK j \in OnChannel(p, ch) : IsPacket(connections[j])
        BY <1>1, <1>2, <1>7, <3>2 DEF ChannelInv, Knows, g
      <4>2. j \in DOMAIN connections /\ p \in Assigned(connections[j]) /\ ChannelAt(connections[j], p) = ch
            /\ p \in DmaEnds(connections[j])
        BY <1>2, <4>1 DEF OnChannel, Assigned
      <4>3. IsControl(connections[j])
        BY <1>13, <4>1, <4>2 DEF CircuitsFirst, c
      <4> QED
        BY <4>2, <4>3 DEF ControlAt
    <3> QED
      BY <1>5, <3>1, <3>2
  <2>3. S \subseteq DOMAIN connections
    BY <1>10
  <2> DEFINE A == CircuitsAt(p) \ {i}
             B == ControlAt(p)
  <2>4. n <= Cardinality(S)
    <3> HIDE DEF S
    <3> QED
      BY <1>1, <1>3, <2>2, <2>3, AllOccupied DEF n
  <2>5. IsFiniteSet(A) /\ Cardinality(A) = Cardinality(CircuitsAt(p)) - 1
    BY <1>11, <2>1, FS_RemoveElement
  <2>6. Cardinality(S) = Cardinality(A) + Cardinality(B) - Cardinality(A \cap B)
    BY <1>11, <2>5, FS_Union
  <2>7. Cardinality(A \cap B) \in Nat
    BY <2>5, FS_Subset, FS_CardinalityType
  <2>8. Cardinality(CircuitsAt(p)) > 0
    BY <1>11, <2>1, FS_EmptySet
  <2>9. Cardinality(CircuitsAt(p)) + Cardinality(ControlAt(p)) <= n
    BY <1>1, <1>9, <2>8 DEF RoomForControl, n
  <2> HIDE DEF S, A
  <2> QED
    BY <1>2, <1>11, <2>4, <2>5, <2>6, <2>7, <2>9
<1> QED
  BY <1>12, <1>13

\* Steps that change neither types nor what is counted.
LEMMA SameRoom ==
  ASSUME TypesRight, CountsRight, RoomForControl, UNCHANGED <<strategy, usage>>,
         DOMAIN connections' = DOMAIN connections, Typed' = Typed,
         \A j \in DOMAIN connections :
           /\ DmaEnds(connections'[j]) = DmaEnds(connections[j])
           /\ connections'[j].type = connections[j].type
           /\ IsControl(connections'[j]) <=> IsControl(connections[j])
  PROVE  TypesRight' /\ CountsRight' /\ RoomForControl'
<1>1. Typed \subseteq DOMAIN connections
  BY DEF Typed
<1>2. \A j \in DOMAIN connections : IsPacket(connections'[j]) <=> IsPacket(connections[j])
  BY DEF IsPacket
<1>3. \A p : /\ CircuitsAt(p)' = CircuitsAt(p) /\ PacketsAt(p)' = PacketsAt(p)
             /\ ControlAt(p)' = ControlAt(p)
  BY <1>1, <1>2 DEF CircuitsAt, PacketsAt, ControlAt
<1>4. TypesRight'
  BY <1>1, <1>2 DEF TypesRight
<1> QED
  BY <1>3, <1>4 DEF CountsRight, RoomForControl, usage

\* A circuit is counted only if the control flows of its ports leave it a channel.
LEMMA TypeRoomStep ==
  ASSUME FlowInv, TypesRight, CountsRight, RoomForControl, NEW i \in InTurn(HaveTypes), AssignType(i)
  PROVE  TypesRight' /\ CountsRight' /\ RoomForControl'
<1> DEFINE c == connections[i]
           type == TypeFor(i)
<1>1. /\ stage = "types" /\ stage' = "types" /\ todo' = todo \ {i} /\ strategy' = strategy
      /\ connections' = [connections EXCEPT ![i].type = type]
  BY DEF AssignType, options
<1>2. /\ i \in todo /\ i \in DOMAIN connections /\ DOMAIN c = Fields
      /\ i \notin HaveTypes => HaveTypes \cap todo = {}
  BY <1>1 DEF InTurn, FirstOf, FlowInv, InTypes, Connected
<1>3. /\ DOMAIN connections' = DOMAIN connections
      /\ \A j \in DOMAIN connections : j # i => connections'[j] = connections[j]
      /\ connections'[i].type = type
      /\ \A j \in DOMAIN connections : /\ DmaEnds(connections'[j]) = DmaEnds(connections[j])
                                       /\ IsControl(connections'[j]) <=> IsControl(connections[j])
  <2> DEFINE d == connections'[i]
  <2>1. \A j \in DOMAIN connections : j # i => connections'[j] = connections[j]
    BY <1>1
  <2>2. d = [c EXCEPT !.type = type]
    BY <1>1, <1>2
  <2>3. /\ d.src = c.src /\ d.dsts = c.dsts /\ d.srcPort = c.srcPort /\ d.dstPort = c.dstPort
        /\ d.type = type
    BY <1>2, <2>2 DEF Fields
  <2> HIDE DEF c, d, type
  <2>4. DmaEnds(d) = DmaEnds(c) /\ (IsControl(d) <=> IsControl(c))
    BY <2>3 DEF DmaEnds, IsControl
  <2>5. DOMAIN connections' = DOMAIN connections
    BY <1>1
  <2> QED
    BY <2>1, <2>3, <2>4, <2>5 DEF c, d
<1>4. type \in {"Circuit", "Packet"} /\ (c.type # NoType => type = c.type)
  BY <1>2 DEF TypesRight, TypeFor, PreAssigned
<1>5. Typed = DOMAIN connections \ todo /\ Typed' = Typed \cup {i} /\ i \notin Typed
      /\ Typed \subseteq DOMAIN connections
  BY <1>1, <1>2, <1>3 DEF Typed
<1>6. circuitUsage' = IF type = "Circuit" THEN Counted(circuitUsage, c) ELSE circuitUsage
  BY DEF AssignType
<1>7. packetUsage' = IF type = "Packet" THEN Counted(packetUsage, c) ELSE packetUsage
  BY DEF AssignType
<1>8. c.type = "Circuit" => \A p \in DmaPort : p \notin PortsOf(c)
  BY <1>1, <1>2 DEF FlowInv, InTypes, CircuitsOffDma
<1> HIDE DEF c, type
<1>9. IsFiniteSet(DOMAIN connections)
  BY ConnectionsFinite DEF FlowInv
<1>10. TypesRight'
  <2>1. \A j \in DOMAIN connections : j # i => (IsPacket(connections'[j]) <=> IsPacket(connections[j]))
    BY <1>3 DEF IsPacket
  <2>2. IsControl(connections[i]) => connections'[i].type = connections[i].type
    BY <1>2, <1>3, <1>4 DEF TypesRight, c
  <2> QED
    BY <1>2, <1>3, <1>4, <1>5, <2>1, <2>2 DEF TypesRight, NoType, IsPacket
<1>11. ASSUME NEW p \in Port
       PROVE  /\ circuitUsage'[Phys(p)] = Cardinality(CircuitsAt(p)')
              /\ packetUsage'[Phys(p)] = Cardinality(PacketsAt(p)')
              /\ strategy = "Auto" /\ circuitUsage'[Phys(p)] > 0 =>
                   circuitUsage'[Phys(p)] + Cardinality(ControlAt(p)') <= ChannelsOf(p[1])
  <2> DEFINE ends == DmaEnds(c)
  <2>1. /\ circuitUsage[Phys(p)] = Cardinality(CircuitsAt(p))
        /\ packetUsage[Phys(p)] = Cardinality(PacketsAt(p))
        /\ strategy = "Auto" /\ circuitUsage[Phys(p)] > 0 =>
             circuitUsage[Phys(p)] + Cardinality(ControlAt(p)) <= ChannelsOf(p[1])
    BY DEF CountsRight, RoomForControl
  <2>2. Phys(p) \in PhysPort /\ Phys(p) \in DmaPort /\ (Phys(p) \in PortsOf(c) <=> p \in ends)
        /\ ChannelsOf(Phys(p)[1]) = ChannelsOf(p[1]) /\ ChannelsOf(p[1]) \in Nat
    BY PhysPorts, ChannelsAreNat
  <2>3. /\ circuitUsage'[Phys(p)] = IF type = "Circuit" /\ p \in ends THEN circuitUsage[Phys(p)] + 1
                                                                     ELSE circuitUsage[Phys(p)]
        /\ packetUsage'[Phys(p)] = IF type = "Packet" /\ p \in ends THEN packetUsage[Phys(p)] + 1
                                                                   ELSE packetUsage[Phys(p)]
    BY <1>6, <1>7, <2>2 DEF Counted
  <2>4. ControlAt(p)' = ControlAt(p)
    BY <1>3 DEF ControlAt
  <2>5. /\ CircuitsAt(p)' = IF type = "Circuit" /\ p \in ends THEN CircuitsAt(p) \cup {i} ELSE CircuitsAt(p)
        /\ PacketsAt(p)' = IF type = "Packet" /\ p \in ends THEN PacketsAt(p) \cup {i} ELSE PacketsAt(p)
    <3>1. \A j \in Typed : /\ DmaEnds(connections'[j]) = DmaEnds(connections[j])
                           /\ IsPacket(connections'[j]) <=> IsPacket(connections[j])
      BY <1>3, <1>5 DEF IsPacket
    <3>2. /\ DmaEnds(connections'[i]) = ends
          /\ IsPacket(connections'[i]) <=> type = "Packet"
      BY <1>2, <1>3 DEF IsPacket, c
    <3> HIDE DEF ends
    <3> QED
      BY <1>4, <1>5, <3>1, <3>2 DEF CircuitsAt, PacketsAt
  <2>6. CircuitsAt(p) \subseteq DOMAIN connections /\ PacketsAt(p) \subseteq DOMAIN connections
        /\ i \notin CircuitsAt(p) /\ i \notin PacketsAt(p)
    BY <1>5 DEF CircuitsAt, PacketsAt
  <2>7. /\ IsFiniteSet(CircuitsAt(p)) /\ IsFiniteSet(PacketsAt(p))
        /\ Cardinality(CircuitsAt(p)) \in Nat /\ Cardinality(PacketsAt(p)) \in Nat
    BY <1>9, <2>6, FS_Subset, FS_CardinalityType
  <2>8. /\ Cardinality(CircuitsAt(p) \cup {i}) = Cardinality(CircuitsAt(p)) + 1
        /\ Cardinality(PacketsAt(p) \cup {i}) = Cardinality(PacketsAt(p)) + 1
    BY <2>6, <2>7, FS_AddElement
  <2>9. ASSUME strategy = "Auto", type = "Circuit", p \in ends
        PROVE  circuitUsage'[Phys(p)] + Cardinality(ControlAt(p)') <= ChannelsOf(p[1])
    <3>1. c.type = NoType
      BY <1>4, <1>8, <2>2, <2>9
    <3>2. i \notin HaveTypes /\ HaveTypes \cap todo = {}
      BY <1>2, <3>1 DEF HaveTypes, PreAssigned, c
    <3>3. ControlAt(p) \subseteq PacketsAt(p)
      BY <1>5, <3>2 DEF ControlAt, PacketsAt, TypesRight, HaveTypes, PreAssigned
    <3>4. Cardinality(ControlAt(p)) \in Nat /\ Cardinality(ControlAt(p)) <= Cardinality(PacketsAt(p))
      BY <2>7, <3>3, FS_Subset, FS_CardinalityType
    <3>5. ~Congested(Phys(p), i)
      BY <2>2, <2>9, <3>1 DEF TypeFor, PreAssigned, type, c
    <3>6. ~(circuitUsage[Phys(p)] + packetUsage[Phys(p)] >= ChannelsOf(p[1]))
      BY <2>2, <3>5 DEF Congested
    <3> QED
      BY <2>1, <2>2, <2>3, <2>4, <2>7, <2>9, <3>4, <3>6
  <2> HIDE DEF ends
  <2>10. circuitUsage'[Phys(p)] = Cardinality(CircuitsAt(p)') /\ packetUsage'[Phys(p)] = Cardinality(PacketsAt(p)')
    BY <2>1, <2>3, <2>5, <2>8
  <2> QED
    BY <2>1, <2>3, <2>4, <2>9, <2>10
<1> QED
  BY <1>1, <1>10, <1>11 DEF CountsRight, RoomForControl

\* In the overlay nothing is counted, and its DMA ports are those of packets.
LEMMA OverlayRoomStep ==
  ASSUME FlowInv, FlowInv', TypesRight, stage = "overlay", stage' = "overlay", NEW c, DOMAIN c = Fields,
         connections' = Append(connections, c), c.type \in {"Circuit", "Packet"},
         DmaEnds(c) # {} => IsPacket(c)
  PROVE  TypesRight' /\ CountsRight' /\ RoomForControl'
<1>1. /\ DOMAIN connections' = DOMAIN connections \cup {Len(connections) + 1}
      /\ \A i \in DOMAIN connections : connections'[i] = connections[i]
      /\ connections'[Len(connections) + 1] = c
  BY Appended DEF FlowInv
<1>2. Typed' = {} /\ \A p : CircuitsAt(p)' = {} /\ PacketsAt(p)' = {}
  BY DEF Typed, CircuitsAt, PacketsAt
<1>3. TypesRight'
  <2>1. \A j \in DOMAIN connections' : connections'[j] = c \/ (j \in DOMAIN connections /\ connections'[j] = connections[j])
    BY <1>1
  <2> QED
    BY <1>2, <2>1 DEF TypesRight, NoType
<1>4. \A p \in Port : circuitUsage'[Phys(p)] = 0 /\ packetUsage'[Phys(p)] = 0
  BY PhysPorts DEF FlowInv, InOverlay
<1>5. Cardinality({}) = 0
  BY FS_EmptySet
<1>6. CountsRight'
  BY <1>2, <1>4, <1>5 DEF CountsRight
<1>7. RoomForControl'
  BY <1>4 DEF RoomForControl
<1> QED
  BY <1>3, <1>6, <1>7

LEMMA EveryStepKeepsTypes ==
  FlowInv /\ FlowInv' /\ RoomInv /\ [Next]_vars => TypesRight' /\ CountsRight' /\ RoomForControl'
<1> SUFFICES ASSUME FlowInv, FlowInv', RoomInv, [Next]_vars
             PROVE  TypesRight' /\ CountsRight' /\ RoomForControl'
  OBVIOUS
<1> USE DEF RoomInv
<1>1. ASSUME UNCHANGED <<strategy, usage>>, Typed' = Typed, connections' = connections
      PROVE  TypesRight' /\ CountsRight' /\ RoomForControl'
  BY <1>1, SameRoom
<1>2. CASE UNCHANGED vars
  BY <1>1, <1>2 DEF vars, options, Typed
<1>3. ASSUME NEW shim, NEW dsts, ConnectControl(shim, dsts)
      PROVE  TypesRight' /\ CountsRight' /\ RoomForControl'
  <2>1. PICK channel : connections' = Append(connections, ControlConnection(shim, dsts, channel))
    BY <1>3 DEF ConnectControl
  <2> DEFINE c == ControlConnection(shim, dsts, channel)
  <2>2. DOMAIN c = Fields /\ c.type = "Packet" /\ IsPacket(c)
    BY DEF Fields, ControlConnection, IsPacket
  <2>3. stage = "overlay" /\ stage' = "overlay"
    BY <1>3 DEF ConnectControl
  <2> HIDE DEF c
  <2> QED
    BY <2>1, <2>2, <2>3, OverlayRoomStep DEF c
<1>4. ASSUME NEW shim, ConnectToken(shim) PROVE TypesRight' /\ CountsRight' /\ RoomForControl'
  <2> DEFINE c == TokenConnection(shim)
  <2>1. DOMAIN c = Fields /\ c.type = "Circuit" /\ DmaEnds(c) = {}
    BY DEF Fields, TokenConnection, DmaEnds
  <2>2. connections' = Append(connections, c) /\ stage = "overlay" /\ stage' = "overlay"
    BY <1>4 DEF ConnectToken
  <2> HIDE DEF c
  <2> QED
    BY <2>1, <2>2, OverlayRoomStep
<1>5. CASE StartTypes
  BY <1>1, <1>5 DEF StartTypes, Typed, options
<1>6. ASSUME NEW i \in InTurn(HaveTypes), AssignType(i) PROVE TypesRight' /\ CountsRight' /\ RoomForControl'
  BY <1>6, TypeRoomStep
<1>7. CASE StartRegister \/ StartChannels \/ StartPacketIds \/ Finish \/ \E i \in InTurn({}) : RegisterChannels(i)
  <2>1. CASE StartRegister
    <3>1. /\ UNCHANGED <<strategy, usage>> /\ connections' = connections
          /\ stage = "types" /\ stage' = "register" /\ todo = {}
      BY <2>1 DEF StartRegister, options
    <3> QED
      BY <1>1, <3>1 DEF Typed
  <2>2. CASE \E i \in InTurn({}) : RegisterChannels(i)
    <3>1. /\ UNCHANGED <<strategy, usage>> /\ connections' = connections
          /\ stage = "register" /\ stage' = "register"
      BY <2>2 DEF RegisterChannels, options
    <3> QED
      BY <1>1, <3>1 DEF Typed
  <2>3. CASE StartChannels \/ StartPacketIds \/ Finish
    <3>1. /\ UNCHANGED <<strategy, usage>> /\ connections' = connections
          /\ stage \in {"register", "channels", "ids"} /\ stage' \in {"channels", "ids", "done"}
      BY <2>3 DEF StartChannels, StartPacketIds, Finish, options
    <3> QED
      BY <1>1, <3>1 DEF Typed
  <2> QED
    BY <1>7, <2>1, <2>2, <2>3
<1>8. ASSUME NEW i \in InTurn(Circuits), AssignChannels(i) PROVE TypesRight' /\ CountsRight' /\ RoomForControl'
  <2>1. PICK a, b : connections' =
          [connections EXCEPT ![i] = [connections[i] EXCEPT !.srcChannel = a, !.dstChannel = b]]
    BY <1>8 DEF AssignChannels
  <2>2. DOMAIN connections' = DOMAIN connections
    BY <2>1
  <2>3. \A j \in DOMAIN connections : \A f \in Fields \ {"srcChannel", "dstChannel"} :
          connections'[j][f] = connections[j][f]
    BY <2>1 DEF FlowInv, Connected, Fields
  <2>4. \A j \in DOMAIN connections :
          /\ DmaEnds(connections'[j]) = DmaEnds(connections[j])
          /\ connections'[j].type = connections[j].type
          /\ IsControl(connections'[j]) <=> IsControl(connections[j])
    BY <2>3 DEF DmaEnds, IsControl, Fields
  <2>5. UNCHANGED <<strategy, usage>> /\ Typed' = Typed
    BY <1>8, <2>2 DEF AssignChannels, Typed, options
  <2> QED
    BY <2>2, <2>4, <2>5, SameRoom
<1>9. ASSUME NEW i, NoChannelAvailable(i) PROVE TypesRight' /\ CountsRight' /\ RoomForControl'
  BY <1>1, <1>9 DEF NoChannelAvailable, Typed, options
<1>10. ASSUME NEW i, AssignPacketId(i) PROVE TypesRight' /\ CountsRight' /\ RoomForControl'
  <2>1. DOMAIN connections' = DOMAIN connections
    BY <1>10 DEF AssignPacketId
  <2>2. \A j \in DOMAIN connections : \A f \in Fields \ {"id"} : connections'[j][f] = connections[j][f]
    <3>1. CASE connections' = connections
      BY <3>1
    <3>2. CASE connections' # connections
      <4>1. connections' = [connections EXCEPT ![i].id = PacketFlowIndex(connections[i])]
        BY <1>10, <3>2 DEF AssignPacketId
      <4> QED
        BY <4>1 DEF FlowInv, Connected, Fields
    <3> QED
      BY <3>1, <3>2
  <2>3. \A j \in DOMAIN connections :
          /\ DmaEnds(connections'[j]) = DmaEnds(connections[j])
          /\ connections'[j].type = connections[j].type
          /\ IsControl(connections'[j]) <=> IsControl(connections[j])
    BY <2>2 DEF DmaEnds, IsControl, Fields
  <2>4. UNCHANGED <<strategy, usage>> /\ Typed' = Typed
    BY <1>10, <2>1 DEF AssignPacketId, Typed, options
  <2> QED
    BY <2>1, <2>3, <2>4, SameRoom
<1> QED
  BY <1>2, <1>3, <1>4, <1>5, <1>6, <1>7, <1>8, <1>9, <1>10 DEF Next, ConnectTile, Broadcast

LEMMA EveryStepKeepsOrder ==
  FlowInv /\ FlowInv' /\ ChannelInv /\ RoomInv /\ [Next]_vars => CircuitsFirst' /\ AutoSuffices'
<1> SUFFICES ASSUME FlowInv, FlowInv', ChannelInv, RoomInv, [Next]_vars
             PROVE  CircuitsFirst' /\ AutoSuffices'
  OBVIOUS
<1> USE DEF RoomInv
<1>1. CASE UNCHANGED vars
  BY <1>1 DEF vars, options, CircuitsFirst, AutoSuffices
<1>2. CASE stage' \notin {"channels", "noChannel"}
  BY <1>2 DEF CircuitsFirst, AutoSuffices
<1>3. CASE StartChannels
  BY <1>3 DEF StartChannels, CircuitsFirst, AutoSuffices, ChannelInv, ControlFirst, Early
<1>4. ASSUME NEW i \in InTurn(Circuits), AssignChannels(i) PROVE CircuitsFirst' /\ AutoSuffices'
  <2>1. /\ stage = "channels" /\ stage' = "channels" /\ todo' = todo \ {i} /\ todo \subseteq DOMAIN connections
    BY <1>4 DEF AssignChannels, ChannelInv, TodoRight
  <2>2. PICK a, b : connections' =
          [connections EXCEPT ![i] = [connections[i] EXCEPT !.srcChannel = a, !.dstChannel = b]]
    BY <1>4 DEF AssignChannels
  <2>3. /\ DOMAIN connections' = DOMAIN connections
        /\ \A j \in DOMAIN connections : j # i => connections'[j] = connections[j]
        /\ \A j \in DOMAIN connections : IsPacket(connections'[j]) <=> IsPacket(connections[j])
    BY <2>2 DEF FlowInv, Connected, Fields, IsPacket
  <2>4. (\E j \in todo' : ~IsPacket(connections'[j])) => i \in Circuits
    BY <2>1, <2>3 DEF InTurn, FirstOf, Circuits
  <2> QED
    BY <2>1, <2>3, <2>4 DEF CircuitsFirst, AutoSuffices, Circuits
<1>5. ASSUME NEW i \in InTurn(Circuits), NoChannelAvailable(i) PROVE CircuitsFirst' /\ AutoSuffices'
  <2>1. /\ stage = "channels" /\ stage' = "noChannel" /\ strategy' = strategy
        /\ i \in todo /\ ~HasChannels(connections[i])
    BY <1>5 DEF NoChannelAvailable, options, InTurn, FirstOf
  <2> QED
    BY <2>1, ChannelLeft DEF CircuitsFirst, AutoSuffices
<1>6. CASE \/ \E t \in InOrder(toConnect \ Deferred) : ConnectTile(t)
           \/ \E t \in InOrder(Deferred) : Broadcast(t)
           \/ (\E shim \in toToken : ConnectToken(shim)) \/ StartTypes
           \/ \E i \in InTurn(HaveTypes) : AssignType(i)
  BY <1>2, <1>6 DEF ConnectTile, Broadcast, ConnectControl, ConnectToken, StartTypes, AssignType
<1>7. CASE \/ StartRegister \/ (\E i \in InTurn({}) : RegisterChannels(i)) \/ StartPacketIds
           \/ (\E i \in InTurn(ControlFlows) : AssignPacketId(i)) \/ Finish
  BY <1>2, <1>7 DEF StartRegister, RegisterChannels, StartPacketIds, AssignPacketId, Finish
<1> QED
  BY <1>1, <1>3, <1>4, <1>5, <1>6, <1>7 DEF Next

LEMMA RoomAtFirst == Init => RoomInv
<1> SUFFICES ASSUME Init PROVE RoomInv
  OBVIOUS
<1>1. PICK n \in 1 .. MaxData : \E data \in [1 .. n -> DataConnections] :
        connections = [i \in 1 .. n |-> Data(data[i])]
  BY DEF Init
<1>2. \A i \in DOMAIN connections : connections[i].type = NoType /\ ~IsControl(connections[i])
  BY <1>1 DEF Data, IsControl
<1>3. stage = "overlay" /\ Typed = {} /\ \A p : CircuitsAt(p) = {} /\ PacketsAt(p) = {}
  BY DEF Init, Typed, CircuitsAt, PacketsAt
<1>4. \A p \in Port : circuitUsage[Phys(p)] = 0 /\ packetUsage[Phys(p)] = 0
  BY PhysPorts DEF Init
<1> QED
  BY <1>2, <1>3, <1>4, FS_EmptySet
  DEF RoomInv, TypesRight, CountsRight, RoomForControl, CircuitsFirst, AutoSuffices

(* The usage that the automatic choice counts is that of the flows, and what   *)
(* it counts for circuits leaves a channel for every control flow of the port. *)
THEOREM RoomInvariant == Spec => []RoomInv
<1>1. /\ FlowInv /\ ChannelInv /\ LoadInv /\ RoomInv /\ [Next]_vars
           => (FlowInv /\ ChannelInv /\ LoadInv /\ RoomInv)'
  BY EveryStepKeepsRoom, EveryStepKeepsChannels, EveryStepKeepsTypes, EveryStepKeepsOrder DEF RoomInv
<1> QED
  BY <1>1, StartsRight, NoChannelsAtFirst, RoomAtFirst, PTL DEF Spec

(* With the automatic choice of modes AssignChannels never runs out of         *)
(* channels, whatever the overlay took before and in whatever order it serves  *)
(* the connections.                                                            *)
THEOREM AutoNeverRunsOut == Spec => []AutoSuffices
  BY RoomInvariant, PTL DEF RoomInv
=============================================================================

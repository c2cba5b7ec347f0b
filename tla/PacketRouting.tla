---------------------------- MODULE PacketRouting ----------------------------
(* The pass AMDAIERouteFlowsWithPathfinder, run for the control flows and     *)
(* then for the data flows of a device: collect the flows, find them paths    *)
(* through the switches, and write the configuration of the switches, whose   *)
(* packet rules, arbiters and msels are made anew for the earlier and the     *)
(* new packet flows together.                                                 *)
(* The shortest paths of a flow under the current demand are any tree of      *)
(* paths that visit no tile twice.                                            *)
EXTENDS PacketSwitch

CONSTANTS
  MaxCol, MaxRow,  \* the tiles <<0, 0>> to <<MaxCol, MaxRow>>
  NumLinks,        \* channels of every direction between two neighbours
  EndPorts,        \* <<bundle, channel>> ports to the units of a tile
  OpSets           \* sequences of the flow operations of a device: records
                   \* [packet, ctrl, src, dsts, id], with <<tile, port>> ends

Tile == (0 .. MaxCol) \X (0 .. MaxRow)
Direction == {"North", "South", "East", "West"}
Port == EndPorts \cup (Direction \X (0 .. NumLinks - 1))
End == Tile \X EndPorts

ASSUME OpsAssumption ==
  \A ops \in OpSets : \A i \in DOMAIN ops :
    ops[i].src \in End /\ ops[i].dsts \in (SUBSET End) \ {{}} /\ ops[i].id \in PacketId
ASSUME PortsAssumption == PortOrder \in Seq(Port) /\ ToSet(PortOrder) = Port

VARIABLES
  ops, detect,     \* the operations, and the option detectArbiterDeadlock
  stage,           \* "ctrl", "data", then "done" or "failed"
  phase,           \* "collect", "route", "emit"
  todo,            \* tiles whose packet flows are still to be configured
  flows, routes,   \* the router's flows; their paths, per destination
  priorFlows, packetFlows,  \* per tile: earlier and new packet flows, from
                   \* slots to master ports
  circuits,        \* per tile: the connected <<in, out>> pairs
  rules, masters   \* per tile: rules of slave ports, amsels of master ports

vars == <<ops, detect, stage, phase, todo, flows, routes,
          priorFlows, packetFlows, circuits, rules, masters>>
config == <<circuits, rules, masters>>

-----------------------------------------------------------------------------
(* directionToDeltaCoordsMap, and the in port at the other end of a link.     *)
Opposite == [North |-> "South", South |-> "North", East |-> "West", West |-> "East"]
Neighbour(t, dir) ==
  CASE dir = "North" -> <<t[1], t[2] + 1>> [] dir = "South" -> <<t[1], t[2] - 1>>
    [] dir = "East" -> <<t[1] + 1, t[2]>>  [] dir = "West" -> <<t[1] - 1, t[2]>>
IsLink(t, p) == p \notin EndPorts /\ Neighbour(t, p[1]) \in Tile
Across(t, p) == <<Neighbour(t, p[1]), <<Opposite[p[1]], p[2]>>>>
PortsOf(t) == {p \in Port : p \in EndPorts \/ IsLink(t, p)}

(* Which ports of a switch can be connected is the device's: here any two but *)
(* those of one direction.                                                    *)
Connectable(in, out) == in # out /\ (in[1] = out[1] => in \in EndPorts)

Hops(t, in) == {[tile |-> t, in |-> in, out |-> out] : out \in {p \in PortsOf(t) : Connectable(in, p)}}

\* The paths of up to n hops from an end, none through a tile twice.
PathsFrom(src) ==
  LET extend(path) ==
        LET h == Last(path)
            at == Across(h.tile, h.out)
        IN  IF ~IsLink(h.tile, h.out) \/ \E k \in DOMAIN path : path[k].tile = at[1] THEN {}
            ELSE {Append(path, g) : g \in Hops(at[1], at[2])}
      paths[n \in 1 .. Cardinality(Tile)] ==
        IF n = 1 THEN {<<h>> : h \in Hops(src[1], src[2])}
        ELSE paths[n - 1] \cup UNION {extend(path) : path \in paths[n - 1]}
  IN  paths[Cardinality(Tile)]

-----------------------------------------------------------------------------
(* addFlow, for an end point of an operation: operations with one source are  *)
(* one flow; packet flows that overlap are to have the same group, circuits   *)
(* have group -1.                                                             *)
GroupOf(fs, dst, packet) ==
  LET found == {i \in DOMAIN fs : dst \in fs[i].dsts}
      from == IF found = {} THEN 1 ELSE Max(found)
      highest == Max({-1} \cup {fs[i].group : i \in from .. Len(fs)})
  IN  IF ~packet THEN -1 ELSE IF found = {} THEN highest + 1 ELSE highest

AddFlow(fs, op, dst) ==
  LET same == {i \in DOMAIN fs : fs[i].src = op.src}
  IN  IF same # {} THEN [fs EXCEPT ![Min(same)].dsts = @ \cup {dst}]
      ELSE Append(fs, [group |-> GroupOf(fs, dst, op.packet), src |-> op.src, dsts |-> {dst}])

Routed == SelectSeq(ops, LAMBDA op : op.ctrl = (stage = "ctrl"))
Circuit(op) == ~op.packet
Packet(op) == op.packet

\* Circuits are collected before packet flows.
Collected ==
  LET Add(fs, op) == FoldLeft(LAMBDA f, d : AddFlow(f, op, d), fs, SetToSeq(op.dsts))
  IN  FoldLeft(Add, <<>>, SelectSeq(Routed, Circuit) \o SelectSeq(Routed, Packet))

-----------------------------------------------------------------------------
(* What the switches are already configured for (getRoutedPacketFlows).       *)
Served(rs, ms) ==
  LET of(s) == {r \in ToSet(rs[s[1]]) : s[2] \in r.ids}
  IN  [s \in {r \in Slot : r[1] \in DOMAIN rs /\ of(r) # {}} |->
         {out \in DOMAIN ms : \E r \in of(s) : r.amsel \in ms[out]}]
RoutedPacketFlows(t) == Served(rules[t], masters[t])

\* Channels in the sense of findPaths: a hop in a switch, or a link.
Channels(hops) ==
  {[tile |-> h.tile, in |-> h.in, out |-> h.out] : h \in hops}
  \cup {[tile |-> h.tile, out |-> h.out] : h \in {g \in hops : IsLink(g.tile, g.out)}}
PriorHops == UNION {UNION {{[tile |-> t, in |-> s[1], out |-> out] : out \in priorFlows[t][s]} :
                             s \in DOMAIN priorFlows[t]} : t \in Tile}
\* addFixedCircuitConnection, addFixedPacketConnection
FixedCircuit(h) == <<h.in, h.out>> \in circuits[h.tile]
FixedPacketChannels == Channels(PriorHops)

AllHops(route) == UNION Range(route)

(* A tree of paths from the source of a flow to its destinations: one path    *)
(* leads to a port, and none has a connection that is a circuit's already.    *)
Trees(flow) ==
  LET from == {p \in PathsFrom(flow.src) : \A k \in DOMAIN p : ~FixedCircuit(p[k])}
      to(d) == {ToSet(p) : p \in {q \in from : <<Last(q).tile, Last(q).out>> = d}}
      joins(hops, tree) == \A g \in hops, h \in AllHops(tree) :
                             g.tile = h.tile /\ g.out = h.out => g = h
      grow(d, trees) == UNION {{d :> hops @@ tree : hops \in {p \in to(d) : joins(p, tree)}} : tree \in trees}
  IN  FoldSet(grow, {<<>>}, flow.dsts)

CircuitsOnly(ch, used, fixed) ==   \* mutant
  Cardinality({i \in used : flows[i].group = -1}) <= 1

(* No channel over its capacity: it serves one circuit, or the packet flows   *)
(* of one group; packet flows routed earlier count as the first group's.      *)
(* (Two groups that share only the destination port are not counted here, the *)
(* limit of 32 streams is not reached.)                                       *)
WithinCapacity(ch, used, fixed) ==
  LET groups == {flows[i].group : i \in used}
      first == Min({flows[i].group : i \in DOMAIN flows})
      earlier == IF ch \in fixed /\ (first = -1 \/ first \notin groups)
                 THEN 1 ELSE 0
  IN  Cardinality({i \in used : flows[i].group = -1}) + Cardinality(groups \ {-1}) + earlier <= 1

Legal ==
  LET fixed == FixedPacketChannels
      channels == [i \in DOMAIN routes |-> Channels(AllHops(routes[i]))]
  IN  \A ch \in UNION Range(channels) :
        WithinCapacity(ch, {i \in DOMAIN routes : ch \in channels[i]}, fixed)

-----------------------------------------------------------------------------
Init == /\ ops \in OpSets /\ detect \in BOOLEAN
        /\ stage = "ctrl" /\ phase = "collect" /\ todo = {}
        /\ flows = <<>> /\ routes = <<>>
        /\ priorFlows = [t \in Tile |-> <<>>] /\ packetFlows = [t \in Tile |-> <<>>]
        /\ circuits = [t \in Tile |-> {}]
        /\ rules = [t \in Tile |-> <<>>] /\ masters = [t \in Tile |-> <<>>]

Collect == /\ stage \in {"ctrl", "data"} /\ phase = "collect"
           /\ flows' = Collected /\ routes' = <<>> /\ phase' = "route"
           /\ priorFlows' = [t \in Tile |-> RoutedPacketFlows(t)]
           /\ UNCHANGED <<ops, detect, stage, todo, packetFlows, config>>

RouteFlow == /\ phase = "route" /\ Len(routes) < Len(flows)
             /\ \E route \in Trees(flows[Len(routes) + 1]) : routes' = Append(routes, route)
             /\ UNCHANGED <<ops, detect, stage, phase, todo, flows, priorFlows, packetFlows, config>>

\* Channels over capacity: all routes are ripped up for another iteration, of
\* which there are at most maxIterations.
RipUp == /\ phase = "route" /\ Len(routes) = Len(flows) /\ ~Legal
         /\ \/ routes' = <<>> /\ UNCHANGED stage
            \/ stage' = "failed" /\ UNCHANGED routes
         /\ UNCHANGED <<ops, detect, phase, todo, flows, priorFlows, packetFlows, config>>

\* The new packet flows of a tile.  Only the hops on the way to a destination
\* of the operation are taken from the flow of its source ("false broadcast").
WholeFlow(op) ==     \* mutant: false broadcasts are not rejected
  UNION {AllHops(routes[i]) : i \in {j \in DOMAIN flows : flows[j].src = op.src}}
RouteTo(op) == LET i == CHOOSE j \in DOMAIN flows : flows[j].src = op.src
               IN  UNION {routes[i][d] : d \in op.dsts}
PacketFlows(t) ==
  LET conns == UNION {{<<h.in, op.id, h.out>> : h \in {g \in RouteTo(op) : g.tile = t}} :
                        op \in {o \in Range(Routed) : Packet(o)}}
  IN  [s \in {r \in Slot : \E c \in conns : <<c[1], c[2]>> = r} |->
         {c[3] : c \in {d \in conns : <<d[1], d[2]>> = s}}]

\* runOnCircuitFlow, and the packet flows it leaves to runOnPacketFlow.
RunOnCircuitFlow ==
  /\ phase = "route" /\ Len(routes) = Len(flows) /\ Legal
  /\ LET connected == UNION {AllHops(routes[i]) : i \in {j \in DOMAIN flows : flows[j].group = -1}}
     IN  circuits' = [t \in Tile |-> circuits[t] \cup
                        {<<h.in, h.out>> : h \in {g \in connected : g.tile = t}}]
  /\ packetFlows' = [t \in Tile |-> PacketFlows(t)]
  /\ phase' = "emit" /\ todo' = Tile
  /\ UNCHANGED <<ops, detect, stage, flows, routes, priorFlows, rules, masters>>

LaterMSels(amsels) == detect /\ \E s \in DOMAIN amsels : amsels[s][2] > 1   \* mutant

\* An arbiter with a second set of master ports is a "potential deadlock".
PotentialDeadlock(amsels) == detect /\ \E s \in DOMAIN amsels : amsels[s][2] > 0

SlotsOn(slots, in) == {s \in slots : s[1] = in}

(* The earlier and the new packet flows of a tile together.  The groups of a  *)
(* slot go by its earlier destinations alone, if it has any.                  *)
MastersOf(fs, s) == IF s \in DOMAIN fs THEN fs[s] ELSE {}
AllFlows(prior, new) ==
  [s \in DOMAIN prior \cup DOMAIN new |-> MastersOf(prior, s) \cup MastersOf(new, s)]
Grouping(prior, new) ==
  [s \in DOMAIN prior \cup DOMAIN new |-> IF s \in DOMAIN prior THEN prior[s] ELSE new[s]]

(* emitSlaveGroupsAndMasksRoutingConfig: the rules of one slave port, and of  *)
(* all of them, for every order in which the slots come up: earlier ones once *)
(* for every rule they are in, new ones once for every connection.            *)
PriorVisits(earlier, prior, in) ==
  {v \in SlotsOn(DOMAIN prior, in) \X DOMAIN earlier : v[1][2] \in earlier[v[2]].ids}
NewVisits(new, in) == {v \in SlotsOn(DOMAIN new, in) \X Port : v[2] \in new[v[1]]}
RulesOf(in, c, amsels) ==
  [k \in DOMAIN c.groups |-> [ids |-> c.groups[k], match |-> Matched(c.groups[k], c.masks),
                              amsel |-> amsels[<<in, Min(c.groups[k])>>]]]
RuleChoices(old, prior, new, amsels, in) ==
  LET earlier == IF in \in DOMAIN old THEN old[in] ELSE <<>>
  IN  {RulesOf(in, c, amsels) :
         c \in SlaveGroups(PriorVisits(earlier, prior, in), NewVisits(new, in), Grouping(prior, new))}
WithPort(c, in, rs) == [p \in DOMAIN c \cup {in} |-> IF p = in THEN rs ELSE c[p]]
WithRules(configs, in, choices) == {WithPort(c, in, rs) : c \in configs, rs \in choices}
AllRules(old, prior, new, amsels, slaves) ==
  LET upTo[n \in 0 .. Len(slaves)] ==
        IF n = 0 THEN {<<>>}
        ELSE WithRules(upTo[n - 1], slaves[n], RuleChoices(old, prior, new, amsels, slaves[n]))
  IN  upTo[Len(slaves)]

(* emitPacketRoutingConfiguration: the amsels that a master port listens to.  *)
MasterSets(dests, amsels) ==
  [out \in UNION Range(dests) |-> {amsels[s] : s \in {r \in DOMAIN dests : out \in dests[r]}}]

(* What runOnPacketFlow makes of them for one tile and order of their ports:  *)
(* the possible outcomes, [rules, masters] records; none is a failure.        *)
TileConfigs(t, keys) ==
  LET prior == priorFlows[t]
      new == packetFlows[t]
      dests == AllFlows(prior, new)
      sorted == SortBySrc(DOMAIN prior, DOMAIN new)
      arbiters == Solve(PortGroups(sorted, dests), keys)
      amsels == AMSels(arbiters, sorted, keys)
      slaves == SetToSeq({s[1] : s \in DOMAIN dests})
  IN  IF arbiters = NoSolution \/ PotentialDeadlock(amsels) THEN {}
      ELSE {[rules |-> chosen, masters |-> MasterSets(dests, amsels)] :
              chosen \in AllRules(rules[t], prior, new, amsels, slaves)}

RulesFit(rs) == \A in \in DOMAIN rs : Len(rs[in]) <= NumRuleSlots

NextStage == IF stage = "ctrl" THEN "data" ELSE "done"

\* runOnPacketFlow, one tile after the other.
ConfigureTile(t) ==
  \E keys \in Keys(AllFlows(priorFlows[t], packetFlows[t])) :
    LET outcomes == TileConfigs(t, keys)
    IN  \/ \E c \in outcomes : /\ RulesFit(c.rules)
                               /\ rules' = [rules EXCEPT ![t] = c.rules]
                               /\ masters' = [masters EXCEPT ![t] = c.masters]
                               /\ stage' = stage
        \/ /\ outcomes = {} \/ \E c \in outcomes : ~RulesFit(c.rules)
           /\ stage' = "failed"
           /\ UNCHANGED <<rules, masters>>

RunOnPacketFlow ==
  /\ phase = "emit" /\ stage # "failed"
  /\ IF todo = {}
     THEN /\ stage' = NextStage /\ phase' = "collect"
          /\ UNCHANGED <<todo, rules, masters>>
     ELSE LET t == CHOOSE u \in todo : TRUE
          IN  /\ todo' = todo \ {t} /\ phase' = phase
              /\ ConfigureTile(t)
  /\ UNCHANGED <<ops, detect, flows, routes, priorFlows, packetFlows, circuits>>

Next == Collect \/ RouteFlow \/ RipUp \/ RunOnCircuitFlow \/ RunOnPacketFlow

Spec == Init /\ [][Next]_vars

-----------------------------------------------------------------------------
(* How the switches serve a packet, or with id NoId a circuit's stream.       *)
NoId == -1
AMSelsFor(rs, in, id) ==
  LET matching == {k \in DOMAIN rs[in] : id \in rs[in][k].match}
  IN  IF in \notin DOMAIN rs \/ matching = {} THEN {} ELSE {rs[in][Min(matching)].amsel}
Outs(t, in, id) ==
  {out \in PortsOf(t) : <<in, out>> \in circuits[t]}
  \cup {out \in DOMAIN masters[t] : AMSelsFor(rules[t], in, id) \cap masters[t][out] # {}}

Reached(src, id) ==
  LET step(from) == UNION {{<<f[1], out>> : out \in Outs(f[1], f[2], id)} : f \in from}
      outs[n \in 1 .. Cardinality(Tile)] ==
        IF n = 1 THEN step({src})
        ELSE outs[n - 1] \cup step({Across(o[1], o[2]) : o \in {q \in outs[n - 1] : IsLink(q[1], q[2])}})
  IN  {o \in outs[Cardinality(Tile)] : ~IsLink(o[1], o[2])}

IdOf(op) == IF op.packet THEN op.id ELSE NoId
Configured == {i \in DOMAIN ops : \/ stage = "data" /\ ops[i].ctrl
                                  \/ stage = "done"}
Settled == phase = "collect" /\ stage \in {"data", "done"}

TypeOK ==
  /\ stage \in {"ctrl", "data", "done", "failed"} /\ phase \in {"collect", "route", "emit"}
  /\ \A i \in DOMAIN flows : flows[i].group \in -1 .. Len(flows) /\ flows[i].dsts \subseteq End
  /\ \A i, j \in DOMAIN flows : flows[i].src = flows[j].src => i = j
  /\ \A i \in DOMAIN routes : /\ DOMAIN routes[i] = flows[i].dsts
                             /\ \A h \in AllHops(routes[i]) : h.tile \in Tile
  /\ \A t \in Tile : /\ circuits[t] \subseteq PortsOf(t) \X PortsOf(t)
                     /\ DOMAIN rules[t] \subseteq PortsOf(t) /\ DOMAIN masters[t] \subseteq PortsOf(t)

(* Every packet and every circuit's stream reaches the destinations of its    *)
(* flow and no other end, also those of the control flows after the data      *)
(* flows were routed: rules match by mask in order, arbiters and msels are    *)
(* shared, and the second run of the pass writes both anew.                   *)
DeliversExactly ==
  Settled => \A i \in Configured :
    Reached(ops[i].src, IdOf(ops[i])) =
      UNION {ops[j].dsts : j \in {k \in Configured : ops[k].src = ops[i].src /\ IdOf(ops[k]) = IdOf(ops[i])}}

(* A master port listens to one arbiter, with the msels of all its packets    *)
(* ("all 'port and id's that share the same destination port (channel), need  *)
(* to share the same arbiter").                                               *)
OneArbiterPerMaster ==
  \A t \in Tile : \A out \in DOMAIN masters[t] : \A m, n \in masters[t][out] : m[1] = n[1]

(* With the option, two packets that share a master port share all of them:   *)
(* none holds a port the other one waits for ("Potential arbiter deadlock").  *)
NoPartialOverlap ==
  Settled /\ detect => \A t \in Tile : LET served == RoutedPacketFlows(t)
                                        IN  \A s, r \in DOMAIN served :
                                              Overlap(served[s], served[r]) => served[s] = served[r]

(* The packets routed by the first run keep their arbiter and msel in the     *)
(* second, although all are assigned anew ("Their configuration is preserved  *)
(* and will not be modified").                                                *)
KeepsAMSels ==
  [][detect /\ stage = "data" =>
       \A t \in Tile : \A s \in DOMAIN priorFlows[t] :
         AMSelsFor(rules'[t], s[1], s[2]) = AMSelsFor(rules[t], s[1], s[2])]_vars
=============================================================================

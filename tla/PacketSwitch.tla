---------------------------- MODULE PacketSwitch ----------------------------
(* How the switch of one tile tells packets apart: the rules of its slave     *)
(* ports, which match packet ids by mask and in order, and the arbiters and   *)
(* msels that lead from a rule to master ports.  A slot of the switch is a    *)
(* <<slave port, packet id>>; dests maps the slots in use to the non-empty    *)
(* sets of master ports their packets go to.                                  *)
EXTENDS Integers, SequencesExt, FiniteSetsExt

CONSTANTS MaskBits,      \* bits of a packet id that a rule can compare
          NumRuleSlots,  \* rules of a slave port
          NumArbiters, NumMSels,
          PortOrder      \* the ports of a switch in the order of their numbers

ASSUME SwitchAssumption == {MaskBits, NumRuleSlots, NumArbiters, NumMSels} \subseteq Nat \ {0}

PacketId == 0 .. 2 ^ MaskBits - 1
Bit(id, b) == (id \div 2 ^ b) % 2
Slot == ToSet(PortOrder) \X PacketId

(* updateGroupMask: bits in which the ids of the group agree are compared.    *)
(* Masks are kept per id, also when an id has got into two groups.            *)
MaskOf(group) == {b \in 0 .. MaskBits - 1 : \A x, y \in group : Bit(x, b) = Bit(y, b)}
UpdateGroupMask(masks, group) ==
  [id \in DOMAIN masks \cup group |-> IF id \in group THEN MaskOf(group) ELSE masks[id]]

\* The ids that the rule of a group matches: its smallest id and the mask of that.
Matched(group, masks) ==
  {id \in PacketId : \A b \in masks[Min(group)] : Bit(id, b) = Bit(Min(group), b)}

\* Smaller groups come first, those of one size in lexicographic order: the
\* smallest id that only one of them has decides.
Smaller(g, h) ==
  \/ Cardinality(g) < Cardinality(h)
  \/ Cardinality(g) = Cardinality(h) /\ g # h /\ Min((g \ h) \cup (h \ g)) \in g
Precedes(groups, i, j) == \/ Smaller(groups[i], groups[j])
                          \/ groups[i] = groups[j] /\ i < j
SortGroupsBySize(groups) ==
  [k \in DOMAIN groups |->
     groups[CHOOSE i \in DOMAIN groups :
              Cardinality({j \in DOMAIN groups : Precedes(groups, j, i)}) = k - 1]]

AnyGrouping(groups, masks) == TRUE   \* mutant: merged groups are not verified

\* The first rule that matches is taken: no id may match one before its own.
VerifyGroupsByMask(groups, masks) ==
  \A i, j \in DOMAIN groups : i < j => groups[j] \cap Matched(groups[i], masks) = {}

(* One id of a slave port joins the first group with its destinations, if the *)
(* rules stay exact, and gets a group of its own otherwise: also if it comes  *)
(* up again and is in another group already.                                  *)
AddToGroups(c, slot, dests) ==
  LET same == {i \in DOMAIN c.groups : dests[<<slot[1], Min(c.groups[i])>>] = dests[slot]}
      first == c.groups[Min(same)]
      joined == first \cup {slot[2]}
      merged == [groups |-> SortGroupsBySize([c.groups EXCEPT ![Min(same)] = joined]),
                 masks |-> UpdateGroupMask(c.masks, joined)]
      reverted == IF same = {} THEN c.masks ELSE UpdateGroupMask(merged.masks, first)
  IN  IF same # {} /\ VerifyGroupsByMask(merged.groups, merged.masks) THEN merged
      ELSE [groups |-> SortGroupsBySize(Append(c.groups, {slot[2]})),
            masks |-> UpdateGroupMask(reverted, {slot[2]})]

(* The groups of a slave port, for every order in which its slots come up:    *)
(* hash tables deliver those of earlier flows, and then the new ones.  Visits *)
(* are <<slot, tag>> pairs, since a slot may come up several times.           *)
NoGroups == [groups |-> <<>>, masks |-> <<>>]
AddAny(left, dests) ==
  UNION {{<<AddToGroups(l[1], v[1], dests), l[2] \ {v}>> : v \in l[2]} : l \in left}
AddAll(c, visits, dests) ==
  LET upTo[n \in 0 .. Cardinality(visits)] ==
        IF n = 0 THEN {<<c, visits>>} ELSE AddAny(upTo[n - 1], dests)
  IN  {l[1] : l \in upTo[Cardinality(visits)]}
SlaveGroups(prior, new, dests) ==
  UNION {AddAll(c, new, dests) : c \in AddAll(NoGroups, prior, dests)}

-----------------------------------------------------------------------------
(* AMSelGenerator.  Slots that share a master port share its arbiter ...      *)
Overlap(d1, d2) == d1 \cap d2 # {}
SharesMaster(slots, dests) ==
  {s \in DOMAIN dests : \E k \in slots : Overlap(dests[s], dests[k])}

OnlyDirectly(slot, dests) == SharesMaster({slot}, dests)   \* mutant: one step of the search

Component(slot, dests) ==
  LET reached[n \in 0 .. Cardinality(DOMAIN dests)] ==
        IF n = 0 THEN {slot} ELSE SharesMaster(reached[n - 1], dests)
  IN  reached[Cardinality(DOMAIN dests)]

PortNumber(p) == CHOOSE k \in DOMAIN PortOrder : PortOrder[k] = p
Before(s, r) == \/ PortNumber(s[1]) < PortNumber(r[1])
                \/ s[1] = r[1] /\ s[2] < r[2]
SortSlots(slots) ==
  [k \in 1 .. Cardinality(slots) |->
     CHOOSE s \in slots : Cardinality({r \in slots : Before(r, s)}) = k - 1]

AllSorted(prior, new) == SortSlots(prior \cup new)   \* mutant: earlier flows have no precedence

\* Earlier flows first, "to maintain their relative order".
SortBySrc(prior, new) == SortSlots(prior) \o SortSlots(new \ prior)

\* The components in the order of their first slots.
AddComponent(groups, slot, dests) ==
  IF \E k \in DOMAIN groups : slot \in groups[k] THEN groups
  ELSE Append(groups, Component(slot, dests))
PortGroups(sorted, dests) ==
  LET upTo[n \in 0 .. Len(sorted)] ==
        IF n = 0 THEN <<>> ELSE AddComponent(upTo[n - 1], sorted[n], dests)
  IN  upTo[Len(sorted)]

(* ... and have an msel for each list of master ports: a list in another      *)
(* order is another key, and sets of connections come in the order of hashes. *)
Keys(dests) ==
  LET several == {s \in DOMAIN dests : Cardinality(dests[s]) > 1}
      lists == {f \in [several -> UNION {SetToSeqs(dests[s]) : s \in several}] :
                  \A s \in several : f[s] \in SetToSeqs(dests[s])}
  IN  {[s \in DOMAIN dests |-> <<dests[s], IF s \in several THEN f[s] ELSE <<>>>>] : f \in lists}

\* A component gets an arbiter of its own while there is one; later ones are
\* merged with the first that has room for one msel per slot and one more.
\* <<{}>> when it fails.
NoSolution == <<{}>>
MSelSets(slots, keys) == {keys[s] : s \in slots}
Merge(arbiters, g, keys) ==
  LET room == {a \in DOMAIN arbiters :
                 Cardinality(MSelSets(arbiters[a], keys)) + Cardinality(g) < NumMSels}
  IN  CASE arbiters = NoSolution -> NoSolution
        [] arbiters # NoSolution /\ Len(arbiters) < NumArbiters ->
             IF Cardinality(MSelSets(g, keys)) <= NumMSels
             THEN Append(arbiters, g) ELSE NoSolution
        [] OTHER -> IF room = {} THEN NoSolution
                    ELSE [arbiters EXCEPT ![Min(room)] = @ \cup g]
Solve(groups, keys) ==
  LET upTo[n \in 0 .. Len(groups)] ==
        IF n = 0 THEN <<>> ELSE Merge(upTo[n - 1], groups[n], keys)
  IN  upTo[Len(groups)]

\* getAMSel: the arbiter of a slot, and the number of its key.
\* (The code numbers the keys in the order of its search.)
ArbiterOf(arbiters, s) == CHOOSE k \in DOMAIN arbiters : s \in arbiters[k]
AddMSel(used, slots, s, keys) ==
  IF s \in slots /\ keys[s] \notin ToSet(used) THEN Append(used, keys[s]) ELSE used
MSelOrder(slots, sorted, keys) ==
  LET upTo[n \in 0 .. Len(sorted)] ==
        IF n = 0 THEN <<>> ELSE AddMSel(upTo[n - 1], slots, sorted[n], keys)
  IN  upTo[Len(sorted)]
AMSelOf(s, arbiters, sorted, keys) ==
  LET a == ArbiterOf(arbiters, s)
      used == MSelOrder(arbiters[a], sorted, keys)
  IN  <<a - 1, (CHOOSE k \in DOMAIN used : used[k] = keys[s]) - 1>>
AMSels(arbiters, sorted, keys) ==
  [s \in DOMAIN keys |-> AMSelOf(s, arbiters, sorted, keys)]
=============================================================================

----------------------------- MODULE MCPipeline -----------------------------
(* All small programs of several kinds over an input x and an output y of  *)
(* one shim tile, and a connection z that has the same port as x on the    *)
(* neighbouring tile.                                                      *)
EXTENDS ControlCodePipeline, TLC

CONSTANTS x, y, z

MCTileOf == x :> 0 @@ y :> 0 @@ z :> 1
MCPortOf == x :> <<1, 0>> @@ y :> <<0, 0>> @@ z :> <<1, 0>>

(* Orders of DMAs with their waits right behind them, and the BD ids that  *)
(* Incremental mode hands out when each id is released before the next is  *)
(* asked for: `ids' ids of a tile in turn.  The transfers of connections   *)
(* in `repeated' have a repeat count.                                      *)
OnTile(o, i) == Cardinality({j \in 1 .. i : MCTileOf[o[j]] = MCTileOf[o[i]]})
Program(o, ids, repeated, barriers, passes) ==
    [ops |-> [i \in DOMAIN o |-> [conn |-> o[i], bd |-> (OnTile(o, i) - 1) % ids,
                                  repeat |-> IF o[i] \in repeated THEN 2 ELSE 1]],
     until |-> [i \in DOMAIN o |-> i], barriers |-> barriers, passes |-> passes]

(* Programs in which every id recurs, through one pass or both, ...       *)
Chained == {Program(o, 3, {}, b, {"chain"}) :
              o \in [1 .. 6 -> {x, y}], b \in {{}} \cup {{k} : k \in 1 .. 5}}
Folded == {Program(o, 4, {}, {}, {"fold"}) : o \in [1 .. 9 -> {x, z}]}
Both == {Program(o, 4, {}, {}, {"chain", "fold"}) : o \in [1 .. 8 -> {x, z}]}
(* ... and short ones with barriers in all places and transfers that       *)
(* cannot be chained.                                                      *)
Short == {Program(o, 4, {y}, b, {"chain", "fold"}) :
             o \in [1 .. 3 -> {x, y}], b \in SUBSET (1 .. 2)}
         \cup {Program(o, 4, {z}, b, {"chain", "fold"}) :
             o \in [1 .. 4 -> {x, z}], b \in SUBSET (1 .. 3)}

MCPrograms == Chained \cup Folded \cup Both \cup Short

(* What ChainProofs assumes of the ids where it proves who owns a BD.      *)
ASSUME RotatingAssumption == \A p \in MCPrograms : Rotates(p.ops)
(* ... and where it bounds the outstanding tasks.                          *)
ASSUME BoundAssumption == PromptPrograms /\ OneConnectionPerPort
=============================================================================

-------------------------- MODULE MCControlPackets --------------------------
(* A mem tile and two cores with six registers of two bits, and            *)
(* transactions of up to four operations on them.                          *)
EXTENDS ControlPackets, TLC

CONSTANTS MaxOps   \* bound: operations of a transaction

mem == "mem"
core == "core"
other == "other"
MCType == mem :> "MEMTILE" @@ core :> "AIETILE" @@ other :> "AIETILE"

Write(t, o, w) == [kind |-> "write", tile |-> t, off |-> o, data |-> <<w>>]
Block(t, o, ws) == [kind |-> "blockwrite", tile |-> t, off |-> o, data |-> ws]
MaskWrite(t, o, w, mask) ==
    [kind |-> "maskwrite", tile |-> t, off |-> o, data |-> <<w>>, mask |-> mask]
Unknown == [kind |-> "customop", tile |-> core, off |-> 0, data |-> <<>>]

Ops == {Write(core, 0, {1}), Block(core, 0, <<{0, 1}, {}, {0}, {1}, {0}>>),
        MaskWrite(core, 0, {0}, {0}), MaskWrite(core, 3, {}, {1}),
        Write(mem, 1, {0}), Block(mem, 1, <<{1}, {0}, {1}>>), MaskWrite(mem, 1, {1}, {1}),
        Write(other, 0, {0, 1}), MaskWrite(other, 0, {}, {0})}
Transactions == UNION {[1 .. n -> Ops] : n \in 1 .. MaxOps} \cup {<<Write(core, 0, {}), Unknown>>}

(* One connection per tile, the cores by broadcast, or one left out.       *)
Overlays == {<<{mem}, {core}, {other}>>, <<{mem}, {core, other}>>, <<{core}, {other}>>}

(* Registers are clear before, except those that the transaction writes    *)
(* as a whole before it writes bits of them.                               *)
Clear == [t \in Tile |-> [o \in Offset |-> {}]]
Used == [t \in Tile |-> [o \in Offset |-> IF o \in {2, 4} THEN {0, 1} ELSE {}]]

(* generateControlPackets configures the tiles of a broadcast by the       *)
(* operations of one of them.                                              *)
Configures(ops, connections) ==
    \A c \in DOMAIN connections :
        Cardinality({ops[n].tile : n \in DOMAIN ops} \cap connections[c]) <= 1

MCInputs == {in \in [ops : Transactions, connections : Overlays, regs : {Clear, Used},
                     tlastErrorDisabled : BOOLEAN] : Configures(in.ops, in.connections)}
=============================================================================

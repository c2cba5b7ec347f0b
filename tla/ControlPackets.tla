--------------------------- MODULE ControlPackets ---------------------------
(***************************************************************************)
(* Reconfiguring the array by control packets: the register writes that    *)
(* configure a device become control packets, packets of a legal length,   *)
(* and words of a buffer that shim DMAs send to the control ports of the   *)
(* tiles.  The DMAs keep the contract of OrderedTransfers.  Addresses      *)
(* count words and words are sets of bits; the parity bits of headers and  *)
(* the encoding of their fields are left out.                              *)
(***************************************************************************)
EXTENDS Integers, Sequences, FiniteSetsExt, SequencesExt

CONSTANTS
    Type,       \* tile -> its type
    Offset,     \* the registers of a tile, consecutive numbers
    Bit,        \* the bits of a word
    MaxLength,  \* getCtrlPktMaxLength
    WrapMax,    \* the largest size of a shim BD (DmaBdProp)
    Inputs      \* [ops, connections, regs, tlastErrorDisabled]

Tile == DOMAIN Type
ASSUME LengthAssumption == MaxLength \in Nat \ {0} /\ WrapMax \in Nat

VARIABLES
    input,      \* the transaction, the targets of each control connection,
                \* the registers before, and getCtrlPktTlastErrorDisabled
    stage,      \* "convert", "split", "pack", "run", "done", "failed"
    next,       \* the next operation to convert, or packet to pack
    emulationBuffer,  \* <<tile, offset>> -> the word last written there
    packets,    \* amdaie.npu.control_packet: [tile, off, data]
    ctrlPktSequence,     \* the words of the buffer
    ctrlPktBdTransfers,  \* [conn, from, size, barrier]
    sent,       \* transfer -> words its DMA has sent
    ports,      \* tile -> its control port and registers
    writes      \* history: the writes that the registers should see, by words

given == <<input, writes>>
vars == <<given, stage, next, emulationBuffer, packets, ctrlPktSequence,
          ctrlPktBdTransfers, sent, ports>>
compiled == <<emulationBuffer, packets, ctrlPktSequence, ctrlPktBdTransfers>>
device == <<sent, ports>>

(* The last connection to a tile's CTRL port is the tile's; a broadcast    *)
(* connection has several targets.                                         *)
ConnectionsTo(t) == {c \in DOMAIN input.connections : t \in input.connections[c]}
CtrlConnect(t) == Max(ConnectionsTo(t))

Reached(t) == IF ConnectionsTo(t) = {} THEN {} ELSE input.connections[CtrlConnect(t)]
WordWrites(op) ==
    [i \in DOMAIN op.data |->
        [tiles |-> Reached(op.tile), type |-> Type[op.tile], off |-> op.off + i - 1,
         val |-> op.data[i], mask |-> IF op.kind = "maskwrite" THEN op.mask ELSE Bit]]

Init == /\ input \in Inputs
        /\ stage = "convert" /\ next = 1
        /\ emulationBuffer = <<>>
        /\ packets = <<>> /\ ctrlPktSequence = <<>> /\ ctrlPktBdTransfers = <<>>
        /\ sent = <<>>
        /\ writes = FlattenSeq([n \in DOMAIN input.ops |-> WordWrites(input.ops[n])])
        /\ ports = [t \in Tile |-> [expect |-> "packet", off |-> 0, left |-> 0, taken |-> 0,
                                    regs |-> input.regs[t]]]

-----------------------------------------------------------------------------
(* AMDAIEConvertDeviceToControlPackets.  Control packets have no masked    *)
(* writes: the bits outside the mask are those last written to the         *)
(* address, as far as the transaction did write it.                        *)
Op == input.ops[next]
Written(op) == {<<op.tile, op.off + i - 1>> : i \in DOMAIN op.data}

Emit(data) ==
    /\ packets' = Append(packets, [tile |-> Op.tile, off |-> Op.off, data |-> data])
    /\ emulationBuffer' =
         [a \in DOMAIN emulationBuffer \cup Written(Op) |->
            IF a \in Written(Op) THEN data[a[2] - Op.off + 1] ELSE emulationBuffer[a]]
    /\ next' = next + 1
    /\ UNCHANGED <<given, stage, ctrlPktSequence, ctrlPktBdTransfers>>

ConvertWrite ==
    /\ stage = "convert" /\ next <= Len(input.ops)
    /\ Op.kind \in {"write", "blockwrite"}
    /\ Emit(Op.data)
    /\ UNCHANGED device

Unmasked(op, known) == op.data[1]      \* mutant: the other bits are forgotten
Emulated(op, known) ==
    IF known = {} THEN op.data[1]
    ELSE UNION {word \ op.mask : word \in known} \cup (op.data[1] \cap op.mask)
ConvertMaskWrite ==
    /\ stage = "convert" /\ next <= Len(input.ops)
    /\ Op.kind = "maskwrite"
    /\ LET known == {emulationBuffer[a] : a \in Written(Op) \cap DOMAIN emulationBuffer}
       IN  Emit(<<Emulated(Op, known)>>)
    /\ UNCHANGED device

Fail == stage' = "failed" /\ UNCHANGED <<given, next, compiled, device>>

UnsupportedOp ==
    /\ stage = "convert" /\ next <= Len(input.ops)
    /\ Op.kind \notin {"write", "blockwrite", "maskwrite"}
    /\ Fail

EndConversion ==
    /\ stage = "convert" /\ next > Len(input.ops)
    /\ stage' = "split" /\ next' = 1
    /\ UNCHANGED <<given, compiled, device>>

-----------------------------------------------------------------------------
(* AMDAIESplitControlPacketData                                            *)
TooLong(p) == Len(p.data) > MaxLength
Chunks(p) ==
    [n \in 1 .. (Len(p.data) + MaxLength - 1) \div MaxLength |->
        LET i == (n - 1) * MaxLength
        IN  [p EXCEPT !.off = @ + i,
                      !.data = SubSeq(p.data, i + 1, Min({i + MaxLength, Len(p.data)}))]]

SplitControlPacketData(i) ==
    /\ stage = "split" /\ TooLong(packets[i])
    /\ packets' = SubSeq(packets, 1, i - 1) \o Chunks(packets[i])
                  \o SubSeq(packets, i + 1, Len(packets))
    /\ UNCHANGED <<given, stage, next, emulationBuffer, ctrlPktSequence,
                   ctrlPktBdTransfers, device>>

EndSplitting ==
    /\ stage = "split" /\ \A i \in DOMAIN packets : ~TooLong(packets[i])
    /\ stage' = "pack"
    /\ UNCHANGED <<given, next, compiled, device>>

-----------------------------------------------------------------------------
(* AMDAIEControlPacketToNpuDma                                              *)

Packet == packets[next]
PacketHeader == [kind |-> "packet"]
ControlHeader(p) == [kind |-> "control", off |-> p.off, length |-> Len(p.data)]
Words(p) == <<ControlHeader(p)>>
            \o [i \in DOMAIN p.data |-> [kind |-> "data", val |-> p.data[i]]]

NeverOrdered(transfers) == transfers    \* mutant: no barrier
(* Packets to tiles of different types keep their order.                   *)
Ordered(transfers) ==
    IF transfers # <<>> /\ Type[packets[next - 1].tile] # Type[Packet.tile]
    THEN [transfers EXCEPT ![Len(transfers)].barrier = TRUE]
    ELSE transfers

HeaderlessPack == Words(Packet)         \* mutant: no packet header inside a transfer
(* Only the first packet of a transfer gets its header from the DMA.       *)
PackedWords == <<PacketHeader>> \o Words(Packet)

PacksIntoLast ==
    /\ input.tlastErrorDisabled /\ ctrlPktBdTransfers # <<>>
    /\ Last(ctrlPktBdTransfers).conn = CtrlConnect(Packet.tile)
    /\ Last(ctrlPktBdTransfers).size + Len(Packet.data) + 2 <= WrapMax

Routed == stage = "pack" /\ next <= Len(packets) /\ ConnectionsTo(Packet.tile) # {}

PackIntoLastTransfer ==
    /\ Routed /\ PacksIntoLast
    /\ LET ts == Ordered(ctrlPktBdTransfers)
       IN  ctrlPktBdTransfers' = [ts EXCEPT ![Len(ts)].size = @ + Len(PackedWords)]
    /\ ctrlPktSequence' = ctrlPktSequence \o PackedWords
    /\ next' = next + 1
    /\ UNCHANGED <<given, stage, emulationBuffer, packets, device>>

NewTransfer ==
    /\ Routed /\ ~PacksIntoLast
    /\ ctrlPktBdTransfers' =
         Append(Ordered(ctrlPktBdTransfers),
                [conn |-> CtrlConnect(Packet.tile), from |-> Len(ctrlPktSequence),
                 size |-> Len(Words(Packet)), barrier |-> FALSE])
    /\ ctrlPktSequence' = ctrlPktSequence \o Words(Packet)
    /\ next' = next + 1
    /\ UNCHANGED <<given, stage, emulationBuffer, packets, device>>

NotRouted ==
    /\ stage = "pack" /\ next <= Len(packets) /\ ConnectionsTo(Packet.tile) = {}
    /\ Fail

EndPacking ==
    /\ stage = "pack" /\ next > Len(packets)
    /\ stage' = "run"
    /\ sent' = [k \in DOMAIN ctrlPktBdTransfers |-> 0]
    /\ UNCHANGED <<given, next, compiled, ports>>

-----------------------------------------------------------------------------
(* The device.  A control port takes a packet header, a control header and *)
(* as many words as this says, which it writes to consecutive registers.   *)
Take(p, w) ==
    CASE p.expect = "packet" /\ w.kind = "packet" -> [p EXCEPT !.expect = "control"]
      [] p.expect = "control" /\ w.kind = "control" ->
            [p EXCEPT !.expect = "data", !.off = w.off, !.left = w.length]
      [] p.expect = "data" /\ w.kind = "data" ->
            [p EXCEPT !.regs[p.off] = w.val, !.off = @ + 1, !.left = @ - 1, !.taken = @ + 1,
                      !.expect = IF p.left = 1 THEN "packet" ELSE "data"]
      [] OTHER -> [p EXCEPT !.expect = "error"]

(* Unless the error is disabled, a packet has to end with its transfer.    *)
CheckTlast(p, last) ==
    IF p.expect = "packet" /\ ~last /\ ~input.tlastErrorDisabled
    THEN [p EXCEPT !.expect = "error"] ELSE p

Sent(k) == sent[k] = ctrlPktBdTransfers[k].size
(* OrderedTransfers: connections and barriers keep the order.              *)
MayStart(k) ==
    \A j \in 1 .. k - 1 :
        \/ ctrlPktBdTransfers[j].conn = ctrlPktBdTransfers[k].conn
        \/ \E b \in j .. k - 1 : ctrlPktBdTransfers[b].barrier
        => Sent(j)

SendWord(k) ==
    LET transfer == ctrlPktBdTransfers[k]
        word == ctrlPktSequence[transfer.from + sent[k] + 1]
        fed == IF sent[k] = 0 THEN <<PacketHeader, word>> ELSE <<word>>
        targets == input.connections[transfer.conn]
    IN  /\ stage = "run" /\ ~Sent(k) /\ MayStart(k)
        /\ \A t \in targets : ports[t].expect # "error"
        /\ sent' = [sent EXCEPT ![k] = @ + 1]
        /\ ports' = [t \in Tile |->
                       IF t \in targets
                       THEN CheckTlast(FoldLeft(Take, ports[t], fed), sent[k] + 1 = transfer.size)
                       ELSE ports[t]]
        /\ UNCHANGED <<given, stage, next, compiled>>

EndRun ==
    /\ stage = "run" /\ \A k \in DOMAIN ctrlPktBdTransfers : Sent(k)
    /\ stage' = "done"
    /\ UNCHANGED <<given, next, compiled, device>>

Compile == \/ ConvertWrite \/ ConvertMaskWrite \/ UnsupportedOp \/ EndConversion
           \/ (\E i \in DOMAIN packets : SplitControlPacketData(i)) \/ EndSplitting
           \/ PackIntoLastTransfer \/ NewTransfer \/ NotRouted \/ EndPacking
Device == (\E k \in DOMAIN sent : SendWord(k)) \/ EndRun
Next == Compile \/ Device

(* The passes end, and the DMAs send what the ports take.                  *)
Spec == Init /\ [][Next]_vars /\ WF_vars(Compile) /\ WF_vars(Device)

-----------------------------------------------------------------------------
LastTaken(t) ==
    LET mine == {i \in DOMAIN writes : t \in writes[i].tiles}
    IN  IF ports[t].taken = 0 THEN 0
        ELSE CHOOSE i \in mine : Cardinality({j \in mine : j <= i}) = ports[t].taken

Abs == INSTANCE RegisterWrites WITH
           done <- [t \in Tile |-> LastTaken(t)],
           regs <- [t \in Tile |-> ports[t].regs]

(* Whatever is masked, split, packed and sent at once, the registers take  *)
(* the words of the transaction, and in its order wherever the types of    *)
(* tiles differ: a core does not start before the mem tiles are set up.    *)
ImplementsWrites == Abs!Spec

(* A transaction of known operations on tiles whose control ports are      *)
(* routed is carried out: no port meets a word it does not expect.         *)
Convertible == \A n \in DOMAIN input.ops :
                   /\ input.ops[n].kind \in {"write", "blockwrite", "maskwrite"}
                   /\ ConnectionsTo(input.ops[n].tile) # {}
Configured == Convertible => <>(stage = "done")
=============================================================================

------------------------- MODULE MCBufferAddresses -------------------------
(* The memory of an AIE2 core tile, four banks of 16 KB, with tiles planned *)
(* for matmuls, and with tiles of six buffers of any origin.  Mem tiles     *)
(* have no stack; on core tiles the stack takes a part of bank 0.           *)
EXTENDS MemoryPlanning

CONSTANTS Sizes, Stacks,     \* in units of a quarter of a bank
          Dims, Types, Arrays

Unit == BankSize \div 4
Schemes == {"None", "BankAware", "Sequential"}
Free == [b \in Buffer |-> None]

(* Sizes with the buffers from `first' on in descending order: the schemes  *)
(* sort buffers or do not care for their order.                             *)
SizesFrom(first, sizes) ==
    {sz \in [Buffer -> {s * Unit : s \in sizes}] :
        \A b \in Buffer : b > first => sz[b] <= sz[b - 1]}

(* A tile without presets, as the earlier passes leave it.                  *)
Plain(stacks, sizes) ==
    {[scheme |-> s, stack |-> st * Unit, size |-> sz, bank |-> Free, addr |-> Free] :
        s \in Schemes, st \in stacks, sz \in SizesFrom(1, sizes)}

(* The first two buffers may ask for a bank, an address or both.            *)
AskingSizes == {sz \in SizesFrom(3, {1, 2, 4}) :
                   \A b \in Buffer : sz[b] \in IF b <= 2 THEN {2 * Unit, 4 * Unit}
                                                       ELSE {Unit, 4 * Unit}}
Asking == {[scheme |-> "None", stack |-> Unit, size |-> sz,
            bank |-> 1 :> k1 @@ 2 :> k2 @@ Free, addr |-> 1 :> a1 @@ 2 :> a2 @@ Free] :
              sz \in AskingSizes, k1 \in {0, 1, None}, k2 \in {0, None},
              a1 \in {Unit, 5 * Unit, None}, a2 \in {0, 2 * Unit, 6 * Unit, None}}

(* Buffers of more than a bank only where nothing else is in bank 0.        *)
SafeTiles == Plain({0}, Sizes) \cup Plain(Stacks, {s \in Sizes : s <= 4}) \cup Asking
CoreTiles == Plain(Stacks, Sizes)

(* All small shapes, and three more: tiles that leave no room for a stack,  *)
(* that are a whole M0 or N0, and that are deeper than the tile counted.    *)
Shapes == (Dims \X Dims \X Dims)
              \cup {<<208, 208, 104>>, <<240, 264, 24>>, <<48, 96, 408>>}
MCMatmuls == {[m |-> mnk[1], n |-> mnk[2], k |-> mnk[3], type |-> ty, device |-> a[1],
               rows |-> a[2], cols |-> a[3], scale |-> s, ukernels |-> uk] :
                 mnk \in Shapes, ty \in Types, a \in Arrays, s \in {1, 2}, uk \in BOOLEAN}
AllArrays == {<<"npu1", 1, 1>>, <<"npu1", 2, 2>>, <<"npu1", 4, 4>>, <<"npu4", 4, 8>>}
=============================================================================

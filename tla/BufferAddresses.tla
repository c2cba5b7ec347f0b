--------------------------- MODULE BufferAddresses ---------------------------
(***************************************************************************)
(* AMDAIEAssignBufferAddresses on one tile: where the buffers of the tile  *)
(* lie in its memory.  The bank-aware scheme reserves the buffers that     *)
(* come with a bank or an address, then deals the others, largest first,   *)
(* over the banks in turn; a buffer larger than a bank takes what is left  *)
(* of as many neighbouring banks.  The sequential scheme, the fallback,    *)
(* lays all buffers behind each other.                                     *)
(***************************************************************************)
EXTENDS Integers, FiniteSetsExt

CONSTANTS NumBanks, BankSize,  \* the banks of the tile and their bytes
          NBuffers,            \* the buffers of the tile, in program order
          None,                \* no bank, no address
          Tiles                \* inputs: [scheme, stack, size, bank, addr]

Buffer == 1 .. NBuffers
Bank == 0 .. NumBanks - 1
MemorySize == NumBanks * BankSize
StartAddr(k) == k * BankSize
EndAddr(k) == (k + 1) * BankSize

ASSUME MemoryAssumption == NumBanks \in Nat \ {0} /\ BankSize \in Nat \ {0}
ASSUME BuffersAssumption == NBuffers \in Nat \ {0} /\ None \notin Int

(* A preset address lies in the memory and a buffer is never empty.        *)
TileInput ==
    [scheme : {"None", "BankAware", "Sequential"}, stack : Nat,
     size : [Buffer -> Nat \ {0}], bank : [Buffer -> Bank \cup {None}],
     addr : [Buffer -> (0 .. MemorySize - 1) \cup {None}]]
ASSUME TilesAssumption == Tiles \subseteq TileInput

VARIABLES tile,           \* the input
          pc,
          current,        \* the next buffer of a walk in program order
          nextAddr,       \* bank -> where its free space starts
          buffersToAlloc, \* the buffers without a bank or an address
          startBankIndex, \* where the search for the next bank starts
          cursor,         \* the next address of the sequential scheme
          address, memBank

vars == <<tile, pc, current, nextAddr, buffersToAlloc, startBankIndex, cursor,
          address, memBank>>

Size(b) == tile.size[b]
Preset(b) == tile.bank[b] # None \/ tile.addr[b] # None
Available(k) == EndAddr(k) - nextAddr[k]

Init == /\ tile \in Tiles
        /\ pc = "begin"
        /\ current = 1
        /\ nextAddr = [k \in Bank |-> StartAddr(k)]
        /\ buffersToAlloc = {}
        /\ startBankIndex = 0
        /\ cursor = tile.stack
        /\ address = tile.addr
        /\ memBank = tile.bank

-----------------------------------------------------------------------------
(* A scheme that fails: the default one goes on to the sequential scheme.  *)
BankAwareFails ==
    /\ pc' = IF tile.scheme = "None" THEN "sequential" ELSE "failed"
    /\ current' = 1
    /\ UNCHANGED <<tile, nextAddr, buffersToAlloc, startBankIndex, cursor>>

(* The stack of the core lies at the bottom of bank 0.                     *)
Begin ==
    /\ pc = "begin"
    /\ \/ /\ tile.scheme = "Sequential"
          /\ pc' = "sequential"
          /\ UNCHANGED <<tile, current, nextAddr, buffersToAlloc, startBankIndex,
                         cursor, address, memBank>>
       \/ /\ tile.scheme # "Sequential" /\ tile.stack > BankSize
          /\ BankAwareFails
          /\ UNCHANGED <<address, memBank>>
       \/ /\ tile.scheme # "Sequential" /\ tile.stack <= BankSize
          /\ pc' = "reserve"
          /\ nextAddr' = [nextAddr EXCEPT ![0] = @ + tile.stack]
          /\ UNCHANGED <<tile, current, buffersToAlloc, startBankIndex, cursor,
                         address, memBank>>

(* Where a buffer with a bank goes: behind what the bank holds, and not    *)
(* before the address it asks for.                                         *)
StartInBank(b) ==
    LET next == nextAddr[tile.bank[b]]
    IN  IF tile.addr[b] # None /\ tile.addr[b] > next THEN tile.addr[b] ELSE next

Reserve(b, k, start) ==
    /\ IF start >= nextAddr[k] /\ start + Size(b) <= EndAddr(k)
       THEN /\ address' = [address EXCEPT ![b] = start]
            /\ memBank' = [memBank EXCEPT ![b] = k]
            /\ nextAddr' = [nextAddr EXCEPT ![k] = start + Size(b)]
            /\ current' = current + 1
            /\ pc' = IF current = NBuffers THEN "allocate" ELSE "reserve"
            /\ UNCHANGED <<tile, buffersToAlloc, startBankIndex, cursor>>
       ELSE BankAwareFails /\ UNCHANGED <<address, memBank>>

checkAndAddBufferWithMemBank ==
    /\ pc = "reserve" /\ tile.bank[current] # None
    /\ Reserve(current, tile.bank[current], StartInBank(current))

checkAndAddBufferWithAddress ==
    /\ pc = "reserve" /\ tile.bank[current] = None /\ tile.addr[current] # None
    /\ Reserve(current, tile.addr[current] \div BankSize, tile.addr[current])

LeaveToAllocate ==
    /\ pc = "reserve" /\ ~Preset(current)
    /\ buffersToAlloc' = buffersToAlloc \cup {current}
    /\ current' = current + 1
    /\ pc' = IF current = NBuffers THEN "allocate" ELSE "reserve"
    /\ UNCHANGED <<tile, nextAddr, startBankIndex, cursor, address, memBank>>

-----------------------------------------------------------------------------
minNumBanksNeeded(b) == CHOOSE n \in 1 .. Size(b) :
                            /\ Size(b) <= n * BankSize
                            /\ Size(b) > (n - 1) * BankSize

(* The window of n banks from k on, wrapping around.                       *)
Window(k, n) == {(k + j) % NumBanks : j \in 0 .. n - 1}

FitsAnyFree(b, k) == Available(k) > 0       \* mutant
FitsInBank(b, k) == Available(k) >= Size(b)
FitsAcrossBanks(b, k) ==
    LET window == Window(k, minNumBanksNeeded(b))
    IN  /\ \A w \in window : Available(w) > 0
        /\ MapThenSumSet(Available, window) >= Size(b)
Fits(b, k) == IF minNumBanksNeeded(b) = 1 THEN FitsInBank(b, k)
              ELSE FitsAcrossBanks(b, k)

(* setBufferAddress tries the banks from startBankIndex on.                *)
Candidate(offset) == (startBankIndex + offset) % NumBanks
FirstFit(b, k) ==
    \E offset \in 0 .. NumBanks - 1 :
        /\ k = Candidate(offset)
        /\ Fits(b, k)
        /\ \A o \in 0 .. offset - 1 : ~Fits(b, Candidate(o))

(* std::sort leaves the order of equal sizes open.                         *)
Largest(b) == b \in buffersToAlloc /\ \A c \in buffersToAlloc : Size(c) <= Size(b)

Place(b, k) ==
    /\ address' = [address EXCEPT ![b] = nextAddr[k]]
    /\ memBank' = [memBank EXCEPT ![b] = k]
    /\ buffersToAlloc' = buffersToAlloc \ {b}
    /\ startBankIndex' = (k + minNumBanksNeeded(b)) % NumBanks
    /\ UNCHANGED <<tile, pc, current, cursor>>

AllocateInBank(b, k) ==
    /\ pc = "allocate" /\ Largest(b) /\ FirstFit(b, k)
    /\ minNumBanksNeeded(b) = 1
    /\ nextAddr' = [nextAddr EXCEPT ![k] = @ + Size(b)]
    /\ Place(b, k)

(* A share of the buffer from the free space of every bank of the window,  *)
(* each bank's next address behind its share; the entry of the first bank  *)
(* is then overwritten with the end of the last share.                     *)
AllocateAcrossBanks(b, k) ==
    /\ pc = "allocate" /\ Largest(b) /\ FirstFit(b, k)
    /\ minNumBanksNeeded(b) > 1
    /\ LET n == minNumBanksNeeded(b)
           share(w) == LET before == {v \in Window(k, n) :
                                        (v - k + NumBanks) % NumBanks < (w - k + NumBanks) % NumBanks}
                       IN  Min({Size(b) - Min({Size(b), MapThenSumSet(Available, before)}),
                                Available(w)})
           last == (k + n - 1) % NumBanks
       IN  nextAddr' = [w \in Bank |->
                          CASE w = k -> nextAddr[last] + share(last)
                            [] w \in Window(k, n) \ {k} -> nextAddr[w] + share(w)
                            [] OTHER -> nextAddr[w]]
    /\ Place(b, k)

(* No window has the room: the buffers dealt so far lose their addresses.  *)
deAllocateBuffers ==
    /\ pc = "allocate"
    /\ \E b \in buffersToAlloc : Largest(b) /\ \A k \in Bank : ~Fits(b, k)
    /\ BankAwareFails
    /\ address' = [b \in Buffer |-> IF Preset(b) THEN address[b] ELSE None]
    /\ memBank' = [b \in Buffer |-> IF Preset(b) THEN memBank[b] ELSE None]

AllAllocated ==
    /\ pc = "allocate" /\ buffersToAlloc = {}
    /\ pc' = "done"
    /\ UNCHANGED <<tile, current, nextAddr, buffersToAlloc, startBankIndex, cursor,
                   address, memBank>>

-----------------------------------------------------------------------------
(* Every buffer behind the one before, whatever it asks for.               *)
basicAllocation ==
    /\ pc = "sequential" /\ current <= NBuffers
    /\ address' = [address EXCEPT ![current] = cursor]
    /\ cursor' = cursor + Size(current)
    /\ current' = current + 1
    /\ UNCHANGED <<tile, pc, nextAddr, buffersToAlloc, startBankIndex, memBank>>

basicAllocationFullFails ==     \* mutant: a full memory is refused
    /\ pc = "sequential" /\ current > NBuffers
    /\ pc' = IF cursor >= MemorySize THEN "failed" ELSE "done"
    /\ UNCHANGED <<tile, current, nextAddr, buffersToAlloc, startBankIndex, cursor,
                   address, memBank>>

basicAllocationEnds ==
    /\ pc = "sequential" /\ current > NBuffers
    /\ pc' = IF cursor > MemorySize THEN "failed" ELSE "done"
    /\ UNCHANGED <<tile, current, nextAddr, buffersToAlloc, startBankIndex, cursor,
                   address, memBank>>

Next == \/ Begin
        \/ checkAndAddBufferWithMemBank \/ checkAndAddBufferWithAddress \/ LeaveToAllocate
        \/ \E b \in Buffer, k \in Bank : AllocateInBank(b, k) \/ AllocateAcrossBanks(b, k)
        \/ deAllocateBuffers \/ AllAllocated
        \/ basicAllocation \/ basicAllocationEnds

Spec == Init /\ [][Next]_vars

-----------------------------------------------------------------------------
TypeOK ==
    /\ tile \in TileInput
    /\ pc \in {"begin", "reserve", "allocate", "sequential", "done", "failed"}
    /\ current \in 1 .. NBuffers + 1
    /\ nextAddr \in [Bank -> Nat]
    /\ buffersToAlloc \subseteq Buffer
    /\ startBankIndex \in Bank
    /\ cursor \in Nat
    /\ address \in [Buffer -> Nat \cup {None}]
    /\ memBank \in [Buffer -> Bank \cup {None}]

(* Buffer b lies above the stack and in the memory.                        *)
InMemory(b) == address[b] \in tile.stack .. MemorySize - Size(b)

Apart(a, b) == \/ address[a] + Size(a) <= address[b]
               \/ address[b] + Size(b) <= address[a]

(* Whatever the scheme, every buffer of a tile that compiles has memory of *)
(* its own: no two overlap, none touches the stack or leaves the memory.   *)
BuffersApart ==
    pc = "done" => /\ \A b \in Buffer : InMemory(b)
                   /\ \A a, b \in Buffer : a # b => Apart(a, b)

BytesUpTo(size) ==
    LET upTo[b \in 0 .. NBuffers] == IF b = 0 THEN 0 ELSE upTo[b - 1] + size[b]
    IN  upTo

(* The default scheme compiles every tile whose buffers fit its memory,    *)
(* in spite of the gaps the bank-aware scheme leaves.                      *)
CompilesWhatFits ==
    /\ pc = "failed"
    /\ tile.scheme = "None"
    => tile.stack + BytesUpTo(tile.size)[NBuffers] > MemorySize
=============================================================================

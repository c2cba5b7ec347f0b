---------------------------- MODULE BufferProofs ----------------------------
(***************************************************************************)
(* Where no buffer is larger than a bank, the buffers of every tile lie    *)
(* apart, for any number of banks and buffers, any sizes, stack, presets   *)
(* and scheme.  (Larger buffers are the case of AllocateAcrossBanks: on a  *)
(* tile with a stack they may overlap others, see the README.)             *)
(***************************************************************************)
EXTENDS BufferAddresses, WellFoundedInduction, TLAPS

SmallBuffers == \A t \in Tiles : \A b \in Buffer : t.size[b] <= BankSize

(* The buffers that have their memory already: in the bank-aware scheme    *)
(* those with a preset that the walk has passed, and those dealt since.    *)
Placed(b) == IF Preset(b) THEN b < current ELSE address[b] # None

(* A placed buffer lies in its bank, below the bank's next free address.   *)
InBank(b) ==
    /\ memBank[b] \in Bank /\ address[b] \in Int
    /\ StartAddr(memBank[b]) <= address[b]
    /\ tile.stack <= address[b]
    /\ address[b] + Size(b) <= nextAddr[memBank[b]]

BanksSound ==
    /\ tile.stack <= BankSize
    /\ nextAddr \in [Bank -> Int]
    /\ \A k \in Bank : StartAddr(k) <= nextAddr[k] /\ nextAddr[k] <= EndAddr(k)
    /\ tile.stack <= nextAddr[0]
    /\ \A b \in Buffer : Placed(b) => InBank(b)
    /\ \A a, b \in Buffer : Placed(a) /\ Placed(b) /\ a # b => Apart(a, b)
    /\ \A b \in Buffer : ~Preset(b) /\ b < current => Placed(b) \/ b \in buffersToAlloc
    /\ \A b \in buffersToAlloc : ~Preset(b) /\ ~Placed(b)
    /\ \A b \in Buffer : current <= b => ~Placed(b)

(* The sequential scheme has placed the buffers below current.             *)
SequenceSound ==
    /\ cursor \in Int /\ tile.stack <= cursor
    /\ \A b \in Buffer : b < current =>
            /\ address[b] \in Int
            /\ tile.stack <= address[b] /\ address[b] + Size(b) <= cursor
    /\ \A a, b \in Buffer : a < current /\ b < current /\ a # b => Apart(a, b)

IInv ==
    /\ tile \in Tiles
    /\ current \in 1 .. NBuffers + 1
    /\ buffersToAlloc \subseteq Buffer
    /\ DOMAIN address = Buffer /\ DOMAIN memBank = Buffer
    /\ pc = "begin" => /\ cursor = tile.stack /\ current = 1
                       /\ nextAddr = [k \in Bank |-> StartAddr(k)]
                       /\ buffersToAlloc = {}
                       /\ address = tile.addr
    /\ pc \in {"reserve", "allocate"} => BanksSound /\ cursor = tile.stack
    /\ pc = "reserve" => current <= NBuffers
    /\ pc = "allocate" => current = NBuffers + 1
    /\ pc = "sequential" => SequenceSound
    /\ BuffersApart

-----------------------------------------------------------------------------
LEMMA TileFacts ==
    ASSUME SmallBuffers, NEW t \in Tiles
    PROVE  /\ t.stack \in Nat
           /\ t.size \in [Buffer -> Nat \ {0}]
           /\ \A b \in Buffer : t.size[b] \in Nat /\ t.size[b] > 0 /\ t.size[b] <= BankSize
           /\ t.bank \in [Buffer -> Bank \cup {None}]
           /\ t.addr \in [Buffer -> (0 .. MemorySize - 1) \cup {None}]
<1>1. t \in TileInput
  BY TilesAssumption
<1> QED
  BY <1>1 DEF TileInput, SmallBuffers

(* Different banks are different ranges of addresses.                      *)
LEMMA BanksApart ==
    /\ \A j, k \in Bank : j < k => EndAddr(j) <= StartAddr(k)
    /\ \A k \in Bank : /\ StartAddr(k) \in Nat /\ EndAddr(k) \in Nat
                       /\ EndAddr(k) = StartAddr(k) + BankSize
                       /\ EndAddr(k) <= MemorySize
                       /\ k > 0 => BankSize <= StartAddr(k)
    /\ 0 \in Bank
<1>1. \A m, n \in Nat : m <= n => m * BankSize <= n * BankSize
  BY MemoryAssumption, SMT
<1>2. \A n \in Nat : n * BankSize \in Nat /\ (n + 1) * BankSize = n * BankSize + BankSize
  BY MemoryAssumption, SMT
<1>3. \A j, k \in Bank : j < k => EndAddr(j) <= StartAddr(k)
  BY <1>1, MemoryAssumption DEF Bank, EndAddr, StartAddr
<1>4. ASSUME NEW k \in Bank
      PROVE  /\ StartAddr(k) \in Nat /\ EndAddr(k) \in Nat
             /\ EndAddr(k) = StartAddr(k) + BankSize
             /\ EndAddr(k) <= MemorySize
             /\ k > 0 => BankSize <= StartAddr(k)
  <2>1. StartAddr(k) \in Nat /\ EndAddr(k) \in Nat /\ EndAddr(k) = StartAddr(k) + BankSize
    BY <1>2, MemoryAssumption DEF Bank, EndAddr, StartAddr
  <2>2. EndAddr(k) <= MemorySize
    BY <1>1, MemoryAssumption DEF Bank, EndAddr, MemorySize
  <2>3. k > 0 => 1 * BankSize <= k * BankSize
    BY <1>1, MemoryAssumption DEF Bank
  <2> QED
    BY <2>1, <2>2, <2>3, MemoryAssumption DEF StartAddr
<1> QED
  BY <1>3, <1>4, MemoryAssumption DEF Bank

(* The bank of an address.                                                 *)
LEMMA BankOfAddress ==
    ASSUME NEW a \in 0 .. MemorySize - 1
    PROVE  a \div BankSize \in Bank
<1> DEFINE q == a \div BankSize
<1>1. q \in Nat /\ q * BankSize <= a
  BY MemoryAssumption DEF MemorySize
<1>2. ASSUME q >= NumBanks PROVE FALSE
  <2>1. NumBanks * BankSize <= q * BankSize
    BY <1>1, <1>2, MemoryAssumption
  <2> QED
    BY <1>1, <2>1, MemoryAssumption DEF MemorySize
<1> QED
  BY <1>1, <1>2, MemoryAssumption DEF Bank

LEMMA OneBankIsEnough ==
    ASSUME SmallBuffers, tile \in Tiles, NEW b \in Buffer
    PROVE  minNumBanksNeeded(b) = 1
<1>1. Size(b) \in Nat /\ Size(b) > 0 /\ Size(b) <= BankSize
  BY TileFacts DEF Size
<1>2. \A n \in Nat : n >= 1 => n * BankSize >= BankSize
  BY MemoryAssumption, SMT
<1>3. \A n \in 1 .. Size(b) : Size(b) > (n - 1) * BankSize => n = 1
  <2> SUFFICES ASSUME NEW n \in 1 .. Size(b), Size(b) > (n - 1) * BankSize, n # 1
               PROVE  FALSE
    OBVIOUS
  <2>1. (n - 1) * BankSize >= BankSize
    BY <1>1, <1>2
  <2> QED
    BY <1>1, <2>1, MemoryAssumption
<1>4. /\ 1 \in 1 .. Size(b)
      /\ Size(b) <= 1 * BankSize
      /\ Size(b) > (1 - 1) * BankSize
  BY <1>1, MemoryAssumption
<1> QED
  BY <1>3, <1>4 DEF minNumBanksNeeded
-----------------------------------------------------------------------------
(* What every step needs of the input.                                     *)
LEMMA InputFacts ==
    ASSUME SmallBuffers, IInv
    PROVE  /\ tile.stack \in Nat
           /\ \A b \in Buffer : Size(b) \in Nat /\ Size(b) > 0 /\ Size(b) <= BankSize
           /\ \A b \in Buffer : tile.bank[b] # None => tile.bank[b] \in Bank
           /\ \A b \in Buffer : tile.addr[b] # None => tile.addr[b] \in 0 .. MemorySize - 1
           /\ current \in Int /\ NBuffers \in Nat
BY TileFacts, BuffersAssumption DEF IInv, Size, Buffer

(* A buffer put behind what its bank holds leaves the banks sound: it is   *)
(* apart from the buffers of its own bank, which end before it, and from   *)
(* those of the others, which lie in other ranges.                         *)
LEMMA PlacedBehind ==
    ASSUME SmallBuffers, IInv, BanksSound,
           NEW b \in Buffer, NEW k \in Bank, NEW start \in Int,
           ~Placed(b), nextAddr[k] <= start, start + Size(b) <= EndAddr(k),
           tile' = tile,
           address' = [address EXCEPT ![b] = start],
           memBank' = [memBank EXCEPT ![b] = k],
           nextAddr' = [nextAddr EXCEPT ![k] = start + Size(b)],
           \A a \in Buffer : Placed(a)' => Placed(a) \/ a = b
    PROVE  /\ nextAddr' \in [Bank -> Int]
           /\ \A j \in Bank : StartAddr(j) <= nextAddr'[j] /\ nextAddr'[j] <= EndAddr(j)
           /\ tile.stack <= nextAddr'[0]
           /\ \A a \in Buffer : Placed(a)' => InBank(a)'
           /\ \A a, c \in Buffer : Placed(a)' /\ Placed(c)' /\ a # c => Apart(a, c)'
<1>1. /\ Size(b) \in Nat /\ Size(b) > 0 /\ tile.stack \in Nat
      /\ \A a \in Buffer : Size(a) \in Nat /\ Size(a)' = Size(a)
  BY InputFacts DEF Size
<1>2. /\ StartAddr(k) \in Nat /\ EndAddr(k) \in Nat /\ StartAddr(k) <= nextAddr[k]
      /\ nextAddr[k] \in Int /\ tile.stack <= nextAddr[0] /\ 0 \in Bank /\ nextAddr[0] \in Int
  BY BanksApart DEF BanksSound
<1>3. nextAddr' \in [Bank -> Int]
  BY <1>1 DEF BanksSound
<1>4. \A j \in Bank : StartAddr(j) <= nextAddr'[j] /\ nextAddr'[j] <= EndAddr(j)
  BY <1>1, <1>2 DEF BanksSound
<1>5. tile.stack <= nextAddr'[0]
  BY <1>1, <1>2 DEF BanksSound
<1>6. \A j \in Bank : nextAddr[j] <= nextAddr'[j]
  BY <1>1, <1>2 DEF BanksSound
<1>7. tile.stack <= start
  <2>1. CASE k = 0
    BY <2>1, <1>1, <1>2
  <2>2. CASE k # 0
    <3>1. BankSize <= StartAddr(k) /\ tile.stack <= BankSize
      BY <2>2, BanksApart, MemoryAssumption DEF BanksSound, Bank
    <3> QED
      BY <3>1, <1>1, <1>2, MemoryAssumption
  <2> QED
    BY <2>1, <2>2
<1>8. InBank(b)'
  <2>1. /\ memBank'[b] = k /\ address'[b] = start
        /\ nextAddr'[k] = start + Size(b)
    BY DEF IInv, BanksSound
  <2> QED
    BY <2>1, <1>1, <1>2, <1>7 DEF InBank, StartAddr
<1>9. \A a \in Buffer : Placed(a) =>
         /\ InBank(a) /\ a # b
         /\ address'[a] = address[a] /\ memBank'[a] = memBank[a]
  BY DEF BanksSound, IInv
<1>10. \A a \in Buffer : Placed(a) => InBank(a)'
  <2> SUFFICES ASSUME NEW a \in Buffer, Placed(a) PROVE InBank(a)'
    OBVIOUS
  <2>1. /\ memBank[a] \in Bank /\ address[a] \in Int
        /\ StartAddr(memBank[a]) <= address[a]
        /\ tile.stack <= address[a]
        /\ address[a] + Size(a) <= nextAddr[memBank[a]]
    BY <1>9 DEF InBank
  <2>2. /\ nextAddr[memBank[a]] \in Int /\ nextAddr'[memBank[a]] \in Int
        /\ nextAddr[memBank[a]] <= nextAddr'[memBank[a]]
    BY <2>1, <1>3, <1>6 DEF BanksSound
  <2>3. address[a] + Size(a) <= nextAddr'[memBank[a]]
    BY <2>1, <2>2, <1>1
  <2> QED
    BY <1>1, <1>9, <2>1, <2>3 DEF InBank, StartAddr
<1>11. \A a \in Buffer : Placed(a) => Apart(a, b)' /\ Apart(b, a)'
  <2> SUFFICES ASSUME NEW a \in Buffer, Placed(a) PROVE Apart(a, b)' /\ Apart(b, a)'
    OBVIOUS
  <2> DEFINE j == memBank[a]
  <2>1. /\ j \in Bank /\ address[a] \in Int /\ nextAddr[j] \in Int
        /\ StartAddr(j) <= address[a] /\ address[a] + Size(a) <= nextAddr[j]
        /\ nextAddr[j] <= EndAddr(j)
        /\ EndAddr(j) \in Nat /\ StartAddr(j) \in Nat
        /\ address'[a] = address[a] /\ address'[b] = start
    BY <1>9, BanksApart DEF BanksSound, InBank, IInv
  <2>2. CASE j = k
    <3>1. address'[a] + Size(a)' <= address'[b]
      BY <2>1, <2>2, <1>1, <1>2
    <3> QED
      BY <3>1 DEF Apart
  <2>3. CASE j < k
    <3>1. EndAddr(j) <= StartAddr(k)
      BY <2>1, <2>3, BanksApart
    <3>2. address'[a] + Size(a)' <= address'[b]
      BY <2>1, <3>1, <1>1, <1>2
    <3> QED
      BY <3>2 DEF Apart
  <2>4. CASE k < j
    <3>1. EndAddr(k) <= StartAddr(j)
      BY <2>1, <2>4, BanksApart
    <3>2. address'[b] + Size(b)' <= address'[a]
      BY <2>1, <3>1, <1>1, <1>2
    <3> QED
      BY <3>2 DEF Apart
  <2> QED
    BY <2>1, <2>2, <2>3, <2>4 DEF Bank
<1>12. \A a, c \in Buffer : Placed(a) /\ Placed(c) /\ a # c => Apart(a, c)'
  BY <1>1, <1>9 DEF BanksSound, Apart
<1> QED
  BY <1>3, <1>4, <1>5, <1>8, <1>10, <1>11, <1>12

-----------------------------------------------------------------------------
LEMMA InitSound ==
    ASSUME SmallBuffers, Init
    PROVE  IInv
<1>1. tile \in TileInput
  BY TilesAssumption DEF Init
<1> QED
  BY <1>1, BuffersAssumption DEF Init, IInv, BuffersApart, TileInput, Buffer

LEMMA BeginKeeps ==
    ASSUME SmallBuffers, IInv, Begin
    PROVE  IInv'
<1>1. /\ cursor = tile.stack /\ current = 1 /\ buffersToAlloc = {}
      /\ nextAddr = [k \in Bank |-> StartAddr(k)] /\ address = tile.addr
      /\ tile.stack \in Nat /\ tile' = tile /\ current' = 1 /\ cursor' = cursor
      /\ buffersToAlloc' = {} /\ address' = address /\ memBank' = memBank
      /\ NBuffers \in Nat \ {0}
  BY InputFacts, BuffersAssumption DEF Begin, BankAwareFails, IInv
<1>2. pc' = "sequential" => SequenceSound'
  BY <1>1, BuffersAssumption DEF SequenceSound, Buffer
<1>3. CASE pc' = "reserve"
  <2>1. tile.stack <= BankSize /\ nextAddr' = [nextAddr EXCEPT ![0] = @ + tile.stack]
    BY <1>3 DEF Begin, BankAwareFails
  <2>2. /\ nextAddr' \in [Bank -> Int]
        /\ \A k \in Bank : StartAddr(k) <= nextAddr'[k] /\ nextAddr'[k] <= EndAddr(k)
        /\ tile.stack <= nextAddr'[0]
    BY <1>1, <2>1, BanksApart, MemoryAssumption
  <2>3. \A b \in Buffer : ~Placed(b)' /\ (Preset(b) <=> Preset(b)')
    BY <1>1, BuffersAssumption DEF Placed, Preset, Buffer
  <2>4. BanksSound'
    BY <1>1, <2>1, <2>2, <2>3 DEF BanksSound, Buffer, StartAddr, EndAddr
  <2> QED
    BY <1>1, <1>3, <2>4 DEF IInv, BuffersApart
<1>4. CASE pc' # "reserve"
  <2>1. pc' \in {"sequential", "failed"}
    BY <1>4 DEF Begin, BankAwareFails
  <2> QED
    BY <1>1, <1>2, <2>1 DEF IInv, BuffersApart
<1> QED
  BY <1>3, <1>4

(* A preset that does not fit, in either walk: the sequential scheme       *)
(* starts anew.                                                            *)
LEMMA FailureKeeps ==
    ASSUME SmallBuffers, IInv, pc \in {"reserve", "allocate"}, BankAwareFails,
           DOMAIN address' = Buffer, DOMAIN memBank' = Buffer
    PROVE  IInv'
<1>1. /\ cursor' = tile.stack /\ current' = 1 /\ tile' = tile
      /\ tile.stack \in Nat /\ NBuffers \in Nat \ {0}
      /\ pc' \in {"sequential", "failed"} /\ buffersToAlloc' = buffersToAlloc
  BY InputFacts, BuffersAssumption DEF BankAwareFails, IInv
<1>2. SequenceSound'
  BY <1>1 DEF SequenceSound, Buffer
<1> QED
  BY <1>1, <1>2 DEF IInv, BuffersApart

LEMMA ReserveKeeps ==
    ASSUME SmallBuffers, IInv, pc = "reserve", Preset(current),
           NEW k \in Bank, NEW start \in Int, Reserve(current, k, start)
    PROVE  IInv'
<1> DEFINE ok == start >= nextAddr[k] /\ start + Size(current) <= EndAddr(k)
<1>1. CASE ~ok
  BY <1>1, FailureKeeps DEF Reserve, IInv
<1>2. CASE ok
  <2>1. /\ BanksSound /\ current \in Buffer /\ ~Placed(current)
        /\ current \in Int /\ NBuffers \in Nat
        /\ tile' = tile /\ current' = current + 1 /\ cursor' = cursor
        /\ buffersToAlloc' = buffersToAlloc
        /\ address' = [address EXCEPT ![current] = start]
        /\ memBank' = [memBank EXCEPT ![current] = k]
        /\ nextAddr' = [nextAddr EXCEPT ![k] = start + Size(current)]
        /\ pc' = IF current = NBuffers THEN "allocate" ELSE "reserve"
        /\ nextAddr[k] <= start /\ start + Size(current) <= EndAddr(k)
    <3>1. current \in Int /\ NBuffers \in Nat
      BY InputFacts
    <3>2. nextAddr[k] \in Int
      BY DEF IInv, BanksSound
    <3> QED
      BY <1>2, <3>1, <3>2 DEF Reserve, IInv, Placed, Buffer
  <2>2. \A a \in Buffer : Preset(a)' = Preset(a)
    BY <2>1 DEF Preset
  <2>3. \A a \in Buffer : Placed(a)' <=> Placed(a) \/ a = current
    BY <2>1, <2>2 DEF Placed, IInv, Buffer
  <2>4. /\ nextAddr' \in [Bank -> Int]
        /\ \A j \in Bank : StartAddr(j) <= nextAddr'[j] /\ nextAddr'[j] <= EndAddr(j)
        /\ tile.stack <= nextAddr'[0]
        /\ \A a \in Buffer : Placed(a)' => InBank(a)'
        /\ \A a, c \in Buffer : Placed(a)' /\ Placed(c)' /\ a # c => Apart(a, c)'
    BY <2>1, <2>3, PlacedBehind
  <2>5. \A b \in Buffer : ~Preset(b)' /\ b < current' => Placed(b)' \/ b \in buffersToAlloc'
    <3> SUFFICES ASSUME NEW b \in Buffer, ~Preset(b)', b < current'
                 PROVE  Placed(b)' \/ b \in buffersToAlloc'
      OBVIOUS
    <3>1. b < current \/ b = current
      BY <2>1 DEF Buffer
    <3> QED
      BY <3>1, <2>1, <2>2, <2>3 DEF BanksSound
  <2>6. \A b \in buffersToAlloc' : ~Preset(b)' /\ ~Placed(b)'
    BY <2>1, <2>2, <2>3 DEF BanksSound, IInv
  <2>7. \A b \in Buffer : current' <= b => ~Placed(b)'
    BY <2>1, <2>3 DEF BanksSound, Buffer
  <2>9. BanksSound'
    BY <2>1, <2>4, <2>5, <2>6, <2>7 DEF BanksSound, StartAddr, EndAddr
  <2>8. current' \in 1 .. NBuffers + 1 /\ (pc' = "reserve" => current' <= NBuffers)
        /\ (pc' = "allocate" => current' = NBuffers + 1)
    BY <2>1 DEF Buffer
  <2> QED
    BY <2>1, <2>8, <2>9 DEF IInv, BuffersApart
<1> QED
  BY <1>1, <1>2

LEMMA LeaveKeeps ==
    ASSUME SmallBuffers, IInv, LeaveToAllocate
    PROVE  IInv'
<1>1. /\ BanksSound /\ current \in Buffer /\ current \in Int /\ NBuffers \in Nat
      /\ ~Preset(current) /\ tile' = tile /\ current' = current + 1
      /\ cursor' = cursor /\ nextAddr' = nextAddr /\ address' = address /\ memBank' = memBank
      /\ buffersToAlloc' = buffersToAlloc \cup {current}
      /\ pc' = IF current = NBuffers THEN "allocate" ELSE "reserve"
  BY InputFacts DEF LeaveToAllocate, IInv, Buffer
<1>2. \A a \in Buffer : Preset(a)' = Preset(a) /\ Placed(a)' = Placed(a)
  BY <1>1 DEF Preset, Placed, Buffer
<1>3. \A b \in Buffer : ~Preset(b)' /\ b < current' => Placed(b)' \/ b \in buffersToAlloc'
  <2> SUFFICES ASSUME NEW b \in Buffer, ~Preset(b)', b < current'
               PROVE  Placed(b)' \/ b \in buffersToAlloc'
    OBVIOUS
  <2>1. b < current \/ b = current
    BY <1>1 DEF Buffer
  <2> QED
    BY <2>1, <1>1, <1>2 DEF BanksSound
<1>4. \A b \in buffersToAlloc' : ~Preset(b)' /\ ~Placed(b)'
  BY <1>1, <1>2 DEF BanksSound, IInv
<1>5. \A b \in Buffer : current' <= b => ~Placed(b)'
  BY <1>1, <1>2 DEF BanksSound, Buffer
<1>6. BanksSound'
  BY <1>1, <1>2, <1>3, <1>4, <1>5 DEF BanksSound, InBank, Apart, Size, StartAddr, EndAddr
<1>7. /\ current' \in 1 .. NBuffers + 1 /\ (pc' = "reserve" => current' <= NBuffers)
      /\ (pc' = "allocate" => current' = NBuffers + 1)
  BY <1>1 DEF Buffer
<1>8. pc' \in {"reserve", "allocate"}
  BY <1>1
<1>9. BuffersApart'
  BY <1>8 DEF BuffersApart
<1>10. /\ tile' \in Tiles /\ buffersToAlloc' \subseteq Buffer /\ cursor' = tile'.stack
       /\ DOMAIN address' = Buffer /\ DOMAIN memBank' = Buffer
  BY <1>1 DEF IInv, LeaveToAllocate
<1> QED
  BY <1>6, <1>7, <1>8, <1>9, <1>10 DEF IInv

LEMMA AllocateInBankKeeps ==
    ASSUME SmallBuffers, IInv, NEW b \in Buffer, NEW k \in Bank, AllocateInBank(b, k)
    PROVE  IInv'
<1>1. /\ BanksSound /\ b \in buffersToAlloc /\ ~Placed(b) /\ ~Preset(b)
      /\ nextAddr[k] \in Int /\ nextAddr[k] <= nextAddr[k]
      /\ tile' = tile /\ current' = current /\ pc' = pc /\ pc = "allocate" /\ cursor' = cursor
      /\ buffersToAlloc' = buffersToAlloc \ {b}
      /\ address' = [address EXCEPT ![b] = nextAddr[k]]
      /\ memBank' = [memBank EXCEPT ![b] = k]
      /\ nextAddr' = [nextAddr EXCEPT ![k] = nextAddr[k] + Size(b)]
      /\ current = NBuffers + 1 /\ NBuffers \in Nat
  BY InputFacts DEF AllocateInBank, Place, Largest, IInv, BanksSound
<1>2. nextAddr[k] + Size(b) <= EndAddr(k)
  <2>1. FitsInBank(b, k)
    BY DEF AllocateInBank, FirstFit, Fits
  <2> QED
    BY <1>1, <2>1, InputFacts, BanksApart DEF FitsInBank, Available
<1>3. \A a \in Buffer : Preset(a)' = Preset(a)
  BY <1>1 DEF Preset
<1>4. \A a \in Buffer : Placed(a)' <=> Placed(a) \/ a = b
  BY <1>1, <1>3, BuffersAssumption DEF Placed, IInv
<1>5. /\ nextAddr' \in [Bank -> Int]
      /\ \A j \in Bank : StartAddr(j) <= nextAddr'[j] /\ nextAddr'[j] <= EndAddr(j)
      /\ tile.stack <= nextAddr'[0]
      /\ \A a \in Buffer : Placed(a)' => InBank(a)'
      /\ \A a, c \in Buffer : Placed(a)' /\ Placed(c)' /\ a # c => Apart(a, c)'
  BY <1>1, <1>2, <1>4, PlacedBehind
<1>6. /\ \A a \in Buffer : ~Preset(a)' /\ a < current' => Placed(a)' \/ a \in buffersToAlloc'
      /\ \A a \in buffersToAlloc' : ~Preset(a)' /\ ~Placed(a)'
      /\ \A a \in Buffer : current' <= a => ~Placed(a)'
  <2>1. /\ \A a \in Buffer : ~Preset(a) /\ a < current => Placed(a) \/ a \in buffersToAlloc
        /\ \A a \in buffersToAlloc : ~Preset(a) /\ ~Placed(a)
        /\ \A a \in Buffer : current <= a => ~Placed(a)
        /\ buffersToAlloc \subseteq Buffer
    BY <1>1 DEF BanksSound, IInv
  <2>2. \A a \in Buffer : ~(current <= a)
    BY <1>1 DEF Buffer
  <2>3. \A a \in Buffer : ~Preset(a)' /\ a < current' => Placed(a)' \/ a \in buffersToAlloc'
    BY <1>1, <1>3, <1>4, <2>1
  <2>4. \A a \in buffersToAlloc' : ~Preset(a)' /\ ~Placed(a)'
    BY <1>1, <1>3, <1>4, <2>1
  <2>5. \A a \in Buffer : current' <= a => ~Placed(a)'
    BY <1>1, <2>2
  <2> QED
    BY <2>3, <2>4, <2>5
<1>7. BanksSound'
  BY <1>1, <1>5, <1>6 DEF BanksSound, StartAddr, EndAddr
<1> QED
  BY <1>1, <1>7 DEF IInv, BuffersApart

(* All buffers are placed when none is left to deal.                       *)
LEMMA AllAllocatedKeeps ==
    ASSUME SmallBuffers, IInv, AllAllocated
    PROVE  IInv'
<1>1. /\ BanksSound /\ buffersToAlloc = {} /\ current = NBuffers + 1 /\ NBuffers \in Nat
      /\ \A b \in Buffer : b < current
  BY InputFacts DEF AllAllocated, IInv, Buffer
<1>2. \A b \in Buffer : Placed(b)
  BY <1>1 DEF BanksSound, Placed
<1>3. \A b \in Buffer : InMemory(b)
  <2> SUFFICES ASSUME NEW b \in Buffer PROVE InMemory(b)
    OBVIOUS
  <2>1. InBank(b) /\ nextAddr \in [Bank -> Int] /\ nextAddr[memBank[b]] <= EndAddr(memBank[b])
    BY <1>1, <1>2 DEF BanksSound, InBank
  <2>2. EndAddr(memBank[b]) <= MemorySize /\ EndAddr(memBank[b]) \in Nat
    BY <2>1, BanksApart DEF InBank
  <2>3. MemorySize \in Nat
    BY MemoryAssumption DEF MemorySize
  <2> QED
    BY <2>1, <2>2, <2>3, InputFacts DEF InBank, InMemory
<1>4. \A a, b \in Buffer : a # b => Apart(a, b)
  BY <1>1, <1>2 DEF BanksSound
<1>5. BuffersApart'
  BY <1>3, <1>4 DEF AllAllocated, BuffersApart, InMemory, Apart, Size
<1> QED
  BY <1>5 DEF AllAllocated, IInv

LEMMA BasicKeeps ==
    ASSUME SmallBuffers, IInv, basicAllocation
    PROVE  IInv'
<1>1. /\ SequenceSound /\ pc = "sequential" /\ pc' = pc /\ current \in Buffer /\ current \in Int
      /\ tile' = tile /\ current' = current + 1 /\ cursor' = cursor + Size(current)
      /\ address' = [address EXCEPT ![current] = cursor]
      /\ buffersToAlloc' = buffersToAlloc /\ memBank' = memBank /\ NBuffers \in Nat
      /\ \A b \in Buffer : Size(b)' = Size(b) /\ Size(b) \in Nat
      /\ tile.stack \in Nat /\ cursor \in Int
  BY InputFacts DEF basicAllocation, IInv, Buffer, Size, SequenceSound
<1>2. \A b \in Buffer : b < current' => b < current \/ b = current
  BY <1>1 DEF Buffer
<1>3. \A b \in Buffer : b < current => b # current /\ address'[b] = address[b]
  BY <1>1 DEF IInv, Buffer
<1>4. address'[current] = cursor
  BY <1>1 DEF IInv
<1>5. cursor' \in Int /\ tile.stack <= cursor' /\ cursor <= cursor'
  BY <1>1 DEF SequenceSound
<1>6. \A b \in Buffer : b < current' =>
         /\ address'[b] \in Int
         /\ tile.stack <= address'[b] /\ address'[b] + Size(b) <= cursor'
  BY <1>1, <1>2, <1>3, <1>4, <1>5 DEF SequenceSound
<1>7. \A a, b \in Buffer : a < current' /\ b < current' /\ a # b => Apart(a, b)'
  BY <1>1, <1>2, <1>3, <1>4 DEF SequenceSound, Apart
<1>8. SequenceSound'
  BY <1>1, <1>5, <1>6, <1>7 DEF SequenceSound
<1>9. current' \in 1 .. NBuffers + 1
  BY <1>1 DEF Buffer
<1> QED
  BY <1>1, <1>8, <1>9 DEF IInv, BuffersApart

LEMMA BasicEndKeeps ==
    ASSUME SmallBuffers, IInv, basicAllocationEnds
    PROVE  IInv'
<1>1. /\ SequenceSound /\ \A b \in Buffer : b < current
      /\ pc' \in {"failed", "done"} /\ (pc' = "done" => cursor <= MemorySize)
      /\ MemorySize \in Nat
  BY InputFacts, MemoryAssumption DEF basicAllocationEnds, IInv, Buffer, MemorySize, SequenceSound
<1>2. ASSUME pc' = "done", NEW b \in Buffer PROVE InMemory(b)
  BY <1>1, <1>2, InputFacts DEF SequenceSound, InMemory
<1>3. BuffersApart'
  BY <1>1, <1>2 DEF SequenceSound, BuffersApart, InMemory, Apart, Size, basicAllocationEnds
<1> QED
  BY <1>1, <1>3 DEF basicAllocationEnds, IInv

-----------------------------------------------------------------------------
LEMMA StepKeeps ==
    ASSUME SmallBuffers, IInv, [Next]_vars
    PROVE  IInv'
<1>1. CASE Begin
  BY <1>1, BeginKeeps
<1>2. CASE checkAndAddBufferWithMemBank
  <2>1. /\ tile.bank[current] \in Bank /\ Preset(current) /\ pc = "reserve" /\ current \in Buffer
    BY <1>2, InputFacts DEF checkAndAddBufferWithMemBank, IInv, Preset, Buffer
  <2>2. StartInBank(current) \in Int
    BY <2>1, InputFacts DEF StartInBank, IInv, BanksSound
  <2> QED
    BY <1>2, <2>1, <2>2, ReserveKeeps DEF checkAndAddBufferWithMemBank
<1>3. CASE checkAndAddBufferWithAddress
  <2>1. /\ tile.addr[current] \in 0 .. MemorySize - 1 /\ Preset(current)
        /\ pc = "reserve" /\ tile.addr[current] \in Int
    BY <1>3, InputFacts DEF checkAndAddBufferWithAddress, IInv, Preset, Buffer
  <2> QED
    BY <1>3, <2>1, BankOfAddress, ReserveKeeps DEF checkAndAddBufferWithAddress
<1>4. CASE LeaveToAllocate
  BY <1>4, LeaveKeeps
<1>5. CASE \E b \in Buffer, k \in Bank : AllocateInBank(b, k)
  BY <1>5, AllocateInBankKeeps
<1>6. CASE \E b \in Buffer, k \in Bank : AllocateAcrossBanks(b, k)
  <2> SUFFICES ASSUME NEW b \in Buffer, NEW k \in Bank, AllocateAcrossBanks(b, k) PROVE FALSE
    BY <1>6
  <2>1. minNumBanksNeeded(b) = 1
    BY OneBankIsEnough DEF IInv
  <2> QED
    BY <2>1 DEF AllocateAcrossBanks
<1>7. CASE deAllocateBuffers
  BY <1>7, FailureKeeps DEF deAllocateBuffers
<1>8. CASE AllAllocated
  BY <1>8, AllAllocatedKeeps
<1>9. CASE basicAllocation
  BY <1>9, BasicKeeps
<1>10. CASE basicAllocationEnds
  BY <1>10, BasicEndKeeps
<1>11. CASE UNCHANGED vars
  BY <1>11 DEF vars, IInv, BuffersApart, InMemory, Apart, Size, BanksSound, SequenceSound,
               Placed, Preset, InBank
<1> QED
  BY <1>1, <1>2, <1>3, <1>4, <1>5, <1>6, <1>7, <1>8, <1>9, <1>10, <1>11 DEF Next

(* No two buffers of a tile that compiles overlap, none touches the stack  *)
(* or leaves the memory, where every buffer fits a bank.                   *)
THEOREM SmallBuffersApart ==
    ASSUME SmallBuffers
    PROVE  Spec => []BuffersApart
<1>1. Init => IInv
  BY InitSound
<1>2. IInv /\ [Next]_vars => IInv'
  BY StepKeeps
<1>3. IInv => BuffersApart
  BY DEF IInv
<1> QED
  BY <1>1, <1>2, <1>3, PTL DEF Spec

-----------------------------------------------------------------------------
(* What the default scheme refuses does not fit, whatever the sizes: the   *)
(* bank-aware scheme never fails for good, the sequential one counts all   *)
(* the bytes and nothing else.                                             *)

(* A set of numbers that is not empty has a smallest one: what a claim     *)
(* about all sums would fail for first.                                    *)
LEMMA Smallest ==
    ASSUME NEW S \in SUBSET Nat, S # {}
    PROVE  \E n \in S : \A m \in S : ~(m < n)
<1> DEFINE R == OpToRel(<, Nat)
<1>1. \E n \in S : \A m \in S : <<m, n>> \notin R
  <2>1. IsWellFoundedOn(R, Nat)
    BY NatLessThanWellFounded
  <2> HIDE DEF R
  <2> QED
    BY <2>1, WFMin
<1>2. \A m, n \in S : m < n => <<m, n>> \in R
  BY DEF OpToRel
<1> QED
  BY <1>1, <1>2

SumsUp(size, s) ==
    s = [b \in 0 .. NBuffers |-> IF b = 0 THEN 0 ELSE s[b - 1] + size[b]]

LEMMA SumsExist ==
    ASSUME NEW size \in [Buffer -> Nat]
    PROVE  \E s : SumsUp(size, s)
<1> DEFINE Upto(n, s) == s = [b \in 0 .. n |-> IF b = 0 THEN 0 ELSE s[b - 1] + size[b]]
           Bad == {n \in 0 .. NBuffers : ~\E s : Upto(n, s)}
<1>1. NBuffers \in Nat
  BY BuffersAssumption
<1>2. ASSUME NEW n \in 0 .. NBuffers, n # 0, NEW s, Upto(n - 1, s)
      PROVE  \E t : Upto(n, t)
  <2> DEFINE t == [b \in 0 .. n |-> IF b = n THEN s[n - 1] + size[n] ELSE s[b]]
  <2>1. n \in Nat /\ n - 1 \in 0 .. n - 1
    BY <1>1, <1>2
  <2>2. \A b \in 0 .. n - 1 : /\ s[b] = IF b = 0 THEN 0 ELSE s[b - 1] + size[b]
                              /\ t[b] = s[b]
    BY <1>2, <2>1
  <2>3. \A b \in 0 .. n : t[b] = IF b = 0 THEN 0 ELSE t[b - 1] + size[b]
    <3> TAKE b \in 0 .. n
    <3>1. CASE b = n
      BY <1>2, <2>1, <2>2, <3>1
    <3>2. CASE b # n
      <4>1. b \in 0 .. n - 1 /\ (b # 0 => b - 1 \in 0 .. n - 1)
        BY <2>1, <3>2
      <4> HIDE DEF t
      <4> QED
        BY <2>2, <4>1
    <3> QED
      BY <3>1, <3>2
  <2>4. t = [b \in 0 .. n |-> t[b]]
    OBVIOUS
  <2> HIDE DEF t
  <2>5. Upto(n, t)
    BY <2>3, <2>4
  <2> QED
    BY <2>5
<1>3. Bad = {}
  <2> SUFFICES ASSUME Bad # {} PROVE FALSE
    OBVIOUS
  <2>1. Bad \in SUBSET Nat
    BY <1>1
  <2>2. PICK n \in Bad : \A m \in Bad : ~(m < n)
    <3> HIDE DEF Bad
    <3> QED
      BY <2>1, Smallest
  <2>4. CASE n = 0
    <3>1. Upto(0, [b \in 0 .. 0 |-> 0])
      OBVIOUS
    <3> QED
      BY <2>4, <3>1
  <2>5. CASE n # 0
    <3>1. n - 1 \in 0 .. NBuffers /\ n - 1 < n
      BY <1>1, <2>1, <2>5
    <3>2. n - 1 \notin Bad
      BY <2>2, <3>1
    <3>3. PICK s : Upto(n - 1, s)
      BY <3>1, <3>2
    <3> QED
      BY <1>2, <2>5, <3>3
  <2> QED
    BY <2>4, <2>5
<1>4. NBuffers \notin Bad /\ NBuffers \in 0 .. NBuffers
  BY <1>1, <1>3
<1> QED
  BY <1>4 DEF SumsUp

LEMMA BytesAddUp ==
    ASSUME NEW size \in [Buffer -> Nat]
    PROVE  /\ BytesUpTo(size)[0] = 0
           /\ \A b \in Buffer : BytesUpTo(size)[b] = BytesUpTo(size)[b - 1] + size[b]
<1>1. SumsUp(size, BytesUpTo(size))
  <2>1. BytesUpTo(size) = CHOOSE s : SumsUp(size, s)
    BY DEF BytesUpTo, SumsUp
  <2> QED
    BY <2>1, SumsExist
<1>2. 0 \in 0 .. NBuffers /\ \A b \in Buffer : b \in 0 .. NBuffers /\ b # 0
  BY BuffersAssumption DEF Buffer
<1> HIDE DEF BytesUpTo
<1> QED
  BY <1>1, <1>2 DEF SumsUp

(* Sums are numbers.                                                       *)
LEMMA BytesAreNat ==
    ASSUME NEW size \in [Buffer -> Nat]
    PROVE  \A b \in 0 .. NBuffers : BytesUpTo(size)[b] \in Nat
<1> DEFINE s == BytesUpTo(size)
           Bad == {n \in 0 .. NBuffers : s[n] \notin Nat}
<1>1. NBuffers \in Nat /\ s[0] = 0 /\ \A b \in Buffer : s[b] = s[b - 1] + size[b]
  BY BytesAddUp, BuffersAssumption
<1> SUFFICES ASSUME Bad # {} PROVE FALSE
  OBVIOUS
<1>2. Bad \in SUBSET Nat
  BY <1>1
<1>3. PICK n \in Bad : \A m \in Bad : ~(m < n)
  <2> HIDE DEF Bad
  <2> QED
    BY <1>2, Smallest
<1> HIDE DEF s
<1>5. n # 0 /\ n \in Buffer /\ n - 1 \in 0 .. NBuffers /\ n - 1 < n
  BY <1>1 DEF Buffer
<1>6. s[n - 1] \in Nat
  BY <1>3, <1>5
<1> QED
  BY <1>1, <1>5, <1>6

BytesCounted ==
    /\ tile \in TileInput
    /\ pc \in {"begin", "reserve", "allocate"} => cursor = tile.stack
    /\ pc = "begin" => current = 1
    /\ pc = "sequential" => /\ current \in 1 .. NBuffers + 1
                            /\ cursor = tile.stack + BytesUpTo(tile.size)[current - 1]
    /\ CompilesWhatFits

(* The sequential scheme fails only where the bytes of the buffers and of  *)
(* the stack exceed the memory.                                            *)
THEOREM DefaultCompilesWhatFits == Spec => []CompilesWhatFits
<1>1. Init => BytesCounted
  BY TilesAssumption DEF Init, BytesCounted, CompilesWhatFits
<1>2. BytesCounted /\ [Next]_vars => BytesCounted'
  <2> SUFFICES ASSUME BytesCounted, [Next]_vars PROVE BytesCounted'
    OBVIOUS
  <2> DEFINE upTo == BytesUpTo(tile.size)
  <2>1. /\ tile.stack \in Nat /\ tile.size \in [Buffer -> Nat] /\ NBuffers \in Nat \ {0}
        /\ upTo[0] = 0 /\ \A b \in Buffer : upTo[b] = upTo[b - 1] + tile.size[b]
    <3>1. tile.size \in [Buffer -> Nat] /\ tile.stack \in Nat
      BY DEF BytesCounted, TileInput
    <3> QED
      BY <3>1, BytesAddUp, BuffersAssumption
  <2>2. tile' = tile /\ upTo' = upTo
    BY DEF Next, vars, Begin, BankAwareFails, checkAndAddBufferWithMemBank,
           checkAndAddBufferWithAddress, Reserve, LeaveToAllocate, AllocateInBank,
           AllocateAcrossBanks, Place, deAllocateBuffers, AllAllocated, basicAllocation,
           basicAllocationEnds
  <2> HIDE DEF upTo
  <2>3. ASSUME pc \in {"begin", "reserve", "allocate"}, BankAwareFails PROVE BytesCounted'
    <3>1. cursor' = cursor /\ current' = 1 /\ 1 - 1 = 0
      BY <2>3 DEF BankAwareFails
    <3>2. pc' = "sequential" \/ (pc' = "failed" /\ tile.scheme # "None")
      BY <2>3 DEF BankAwareFails
    <3> QED
      BY <2>1, <2>2, <2>3, <3>1, <3>2 DEF BytesCounted, CompilesWhatFits, upTo
  <2>4. ASSUME pc \in {"begin", "reserve", "allocate"}, pc' \in {"reserve", "allocate", "done"},
               cursor' = cursor
        PROVE  BytesCounted'
    BY <2>2, <2>4 DEF BytesCounted, CompilesWhatFits
  <2>5. CASE Begin
    <3>1. CASE tile.scheme = "Sequential"
      <4>1. pc = "begin" /\ pc' = "sequential" /\ cursor' = cursor /\ current' = current
        BY <2>5, <3>1 DEF Begin
      <4> QED
        BY <2>1, <2>2, <4>1 DEF BytesCounted, CompilesWhatFits, upTo
    <3>2. CASE tile.scheme # "Sequential" /\ BankAwareFails
      BY <2>3, <2>5, <3>2 DEF Begin
    <3>3. CASE pc' = "reserve" /\ cursor' = cursor
      BY <2>4, <2>5, <3>3 DEF Begin
    <3> QED
      BY <2>5, <3>1, <3>2, <3>3 DEF Begin
  <2>6. ASSUME NEW b, NEW k, NEW start, pc = "reserve", Reserve(b, k, start) PROVE BytesCounted'
    BY <2>3, <2>4, <2>6 DEF Reserve
  <2>7. CASE checkAndAddBufferWithMemBank \/ checkAndAddBufferWithAddress
    BY <2>6, <2>7 DEF checkAndAddBufferWithMemBank, checkAndAddBufferWithAddress
  <2>8. CASE LeaveToAllocate
    BY <2>4, <2>8 DEF LeaveToAllocate
  <2>9. CASE \E b \in Buffer, k \in Bank : AllocateInBank(b, k) \/ AllocateAcrossBanks(b, k)
    <3>1. pc = "allocate" /\ pc' = pc /\ cursor' = cursor
      BY <2>9 DEF AllocateInBank, AllocateAcrossBanks, Place
    <3> QED
      BY <2>4, <3>1
  <2>10. CASE deAllocateBuffers
    BY <2>3, <2>10 DEF deAllocateBuffers
  <2>11. CASE AllAllocated
    BY <2>4, <2>11 DEF AllAllocated
  <2>12. CASE basicAllocation
    <3>1. /\ pc = "sequential" /\ pc' = pc /\ current \in 1 .. NBuffers /\ current' = current + 1
          /\ cursor' = cursor + tile.size[current] /\ cursor = tile.stack + upTo[current - 1]
      BY <2>1, <2>12 DEF basicAllocation, BytesCounted, Size, upTo
    <3>2. upTo[current] = upTo[current - 1] + tile.size[current] /\ current' - 1 = current
          /\ current' \in 1 .. NBuffers + 1
      BY <2>1, <3>1 DEF Buffer
    <3>3. cursor' = tile.stack + upTo[current' - 1]
      <4>1. upTo[current - 1] \in Nat
        <5>1. current - 1 \in 0 .. NBuffers
          BY <2>1, <3>1
        <5> QED
          BY <2>1, <5>1, BytesAreNat DEF upTo
      <4>2. tile.size[current] \in Nat
        BY <2>1, <3>1 DEF Buffer
      <4> QED
        BY <2>1, <3>1, <3>2, <4>1, <4>2
    <3> QED
      BY <2>2, <3>1, <3>2, <3>3 DEF BytesCounted, CompilesWhatFits, upTo
  <2>13. CASE basicAllocationEnds
    <3>1. /\ pc = "sequential" /\ current > NBuffers /\ tile' = tile
          /\ pc' = "failed" => cursor > MemorySize
          /\ pc' \in {"failed", "done"}
      BY <2>13 DEF basicAllocationEnds
    <3>2. current = NBuffers + 1 /\ cursor = tile.stack + upTo[current - 1]
      BY <2>1, <3>1 DEF BytesCounted, upTo
    <3>3. current - 1 = NBuffers
      BY <2>1, <3>2
    <3> QED
      BY <2>2, <3>1, <3>2, <3>3 DEF BytesCounted, CompilesWhatFits, upTo
  <2>14. CASE UNCHANGED vars
    BY <2>2, <2>14 DEF vars, BytesCounted, CompilesWhatFits, upTo
  <2> QED
    BY <2>5, <2>7, <2>8, <2>9, <2>10, <2>11, <2>12, <2>13, <2>14 DEF Next
<1> QED
  BY <1>1, <1>2, PTL DEF Spec, BytesCounted
=============================================================================

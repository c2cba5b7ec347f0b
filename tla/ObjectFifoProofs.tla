-------------------------- MODULE ObjectFifoProofs --------------------------
(* Two counting locks and two rings implement a bounded FIFO, for every       *)
(* depth: why buffers fixed at compile time need no other synchronisation.    *)
EXTENDS ObjectFifo, TLAPS

Filled == sent - received                         \* objects handed over, not taken back
Writers == IF writing = NoBuffer THEN 0 ELSE 1
Readers == IF reading = NoBuffer THEN 0 ELSE 1

\* The buffer i places behind the one that is read next.
Slot(i) == IF readIdx + i < Depth THEN readIdx + i ELSE readIdx + i - Depth

LocksCount == /\ producerLock = Depth - Filled - Writers
              /\ consumerLock = Filled - Readers
              /\ producerLock >= 0 /\ consumerLock >= 0

RingsAgree == /\ writeIdx = Slot(Filled) \/ (Filled = Depth /\ writeIdx = readIdx)
              /\ writing \in {NoBuffer, writeIdx}
              /\ reading \in {NoBuffer, readIdx}

FilledInOrder == \A i \in Buffers : i < Filled => content[Slot(i)] = received + 1 + i

\* The inductive invariant.
FifoInv == TypeOK /\ LocksCount /\ RingsAgree /\ FilledInOrder /\ sent <= Items

(* Filled buffers are those behind readIdx; all buffers are initially free.   *)
LEMMA InitFifoInv == Init => FifoInv
BY DepthAssumption, ItemsAssumption
   DEF Init, FifoInv, TypeOK, LocksCount, RingsAgree, FilledInOrder, Filled, Writers, Readers,
       Slot, Buffers, NoBuffer

(* An acquire takes the next buffer of the ring, which is none of the filled. *)
LEMMA AcquireForWriteKeeps == FifoInv /\ AcquireForWrite => FifoInv'
<1> SUFFICES ASSUME FifoInv, AcquireForWrite PROVE FifoInv'
  OBVIOUS
<1> USE DepthAssumption, ItemsAssumption DEF NoBuffer
<1>1. /\ writing = NoBuffer /\ writing' = writeIdx /\ writeIdx' = writeIdx
      /\ readIdx' = readIdx /\ reading' = reading
      /\ sent' = sent /\ received' = received /\ delivered' = delivered
      /\ producerLock' = producerLock - 1 /\ consumerLock' = consumerLock /\ producerLock >= 1
      /\ content' = [content EXCEPT ![writeIdx] = 0]
  BY DEF AcquireForWrite, reader, history
<1>2. TypeOK'
  BY <1>1 DEF FifoInv, TypeOK, Buffers
<1>3. Filled \in 0 .. Depth - 1 /\ LocksCount'
  BY <1>1 DEF FifoInv, LocksCount, TypeOK, Buffers, Filled, Writers, Readers
<1>4. RingsAgree'
  BY <1>1 DEF FifoInv, RingsAgree, Slot, Filled
<1>5. FilledInOrder'
  <2> SUFFICES ASSUME NEW i \in Buffers, i < Filled
               PROVE  content'[Slot(i)] = received + 1 + i
    BY <1>1 DEF FilledInOrder, Filled, Slot, Buffers
  <2>1. writeIdx = Slot(Filled)
    BY <1>3 DEF FifoInv, RingsAgree
  <2>2. Slot(i) # Slot(Filled) /\ Slot(i) \in Buffers
    BY <1>3 DEF Slot, Buffers, FifoInv, TypeOK
  <2>3. content'[Slot(i)] = content[Slot(i)]
    BY <1>1, <2>1, <2>2 DEF FifoInv, TypeOK
  <2> QED
    BY <2>3 DEF FifoInv, FilledInOrder
<1> QED
  BY <1>1, <1>2, <1>3, <1>4, <1>5 DEF FifoInv

(* A release adds the object as the last of the filled ones.                  *)
LEMMA ReleaseWrittenKeeps == FifoInv /\ ReleaseWritten => FifoInv'
<1> SUFFICES ASSUME FifoInv, ReleaseWritten PROVE FifoInv'
  OBVIOUS
<1> USE DepthAssumption, ItemsAssumption DEF NoBuffer
<1>1. /\ writing = writeIdx /\ writing # NoBuffer /\ writing' = NoBuffer
      /\ writeIdx' = NextBuffer(writeIdx)
      /\ readIdx' = readIdx /\ reading' = reading
      /\ sent < Items /\ sent' = sent + 1 /\ received' = received /\ delivered' = delivered
      /\ producerLock' = producerLock /\ consumerLock' = consumerLock + 1
      /\ content' = [content EXCEPT ![writeIdx] = sent + 1]
  BY DEF ReleaseWritten, reader, FifoInv, RingsAgree
<1>2. Filled \in 0 .. Depth - 1 /\ Filled' = Filled + 1
  BY <1>1 DEF FifoInv, LocksCount, TypeOK, Buffers, Filled, Writers, Readers
<1>3. TypeOK' /\ LocksCount'
  BY <1>1, <1>2 DEF FifoInv, LocksCount, TypeOK, Buffers, Filled, Writers, Readers, NextBuffer
<1>4. writeIdx = Slot(Filled)
  BY <1>2 DEF FifoInv, RingsAgree
<1>5. RingsAgree'
  BY <1>1, <1>2, <1>4 DEF FifoInv, RingsAgree, Slot, NextBuffer, TypeOK, Buffers
<1>6. FilledInOrder'
  <2> SUFFICES ASSUME NEW i \in Buffers, i < Filled + 1
               PROVE  content'[Slot(i)] = received + 1 + i
    BY <1>1, <1>2 DEF FilledInOrder, Slot, Buffers
  <2>1. CASE i = Filled
    BY <1>1, <1>2, <1>4, <2>1 DEF FifoInv, TypeOK, Filled
  <2>2. CASE i # Filled
    <3>1. Slot(i) # Slot(Filled) /\ Slot(i) \in Buffers /\ i < Filled
      BY <1>2, <2>2 DEF Slot, Buffers, FifoInv, TypeOK
    <3>2. content'[Slot(i)] = content[Slot(i)]
      BY <1>1, <1>4, <3>1 DEF FifoInv, TypeOK
    <3> QED
      BY <3>1, <3>2 DEF FifoInv, FilledInOrder
  <2> QED
    BY <2>1, <2>2
<1>7. sent' <= Items
  BY <1>1 DEF FifoInv, TypeOK
<1> QED
  BY <1>3, <1>5, <1>6, <1>7 DEF FifoInv

(* A reader takes the oldest filled buffer.                                   *)
LEMMA AcquireForReadKeeps == FifoInv /\ AcquireForRead => FifoInv'
<1> SUFFICES ASSUME FifoInv, AcquireForRead PROVE FifoInv'
  OBVIOUS
<1> USE DepthAssumption, ItemsAssumption DEF NoBuffer
<1>1. /\ UNCHANGED <<producerLock, writeIdx, writing, readIdx, content, sent, received, delivered>>
      /\ reading = NoBuffer /\ reading' = readIdx
      /\ consumerLock >= 1 /\ consumerLock' = consumerLock - 1
  BY DEF AcquireForRead, writer, history
<1>2. TypeOK' /\ LocksCount'
  BY <1>1 DEF FifoInv, LocksCount, TypeOK, Buffers, Filled, Writers, Readers
<1>3. RingsAgree' /\ FilledInOrder'
  BY <1>1 DEF FifoInv, RingsAgree, FilledInOrder, Slot, Filled, Buffers
<1> QED
  BY <1>1, <1>2, <1>3 DEF FifoInv

(* Giving a buffer back moves the filled ones one place forward.              *)
LEMMA ReleaseReadKeeps == FifoInv /\ ReleaseRead => FifoInv'
<1> SUFFICES ASSUME FifoInv, ReleaseRead PROVE FifoInv'
  OBVIOUS
<1> USE DepthAssumption, ItemsAssumption DEF NoBuffer
<1>1. /\ UNCHANGED <<consumerLock, writeIdx, writing, content, sent>>
      /\ reading = readIdx /\ reading # NoBuffer /\ reading' = NoBuffer
      /\ readIdx' = NextBuffer(readIdx)
      /\ received' = received + 1 /\ delivered' = content[reading]
      /\ producerLock' = producerLock + 1
  BY DEF ReleaseRead, writer, FifoInv, RingsAgree
<1>2. Filled \in 1 .. Depth /\ Filled' = Filled - 1
  BY <1>1 DEF FifoInv, LocksCount, TypeOK, Buffers, Filled, Writers, Readers
<1>3. TypeOK' /\ LocksCount'
  BY <1>1, <1>2 DEF FifoInv, LocksCount, TypeOK, Buffers, Filled, Writers, Readers, NextBuffer
<1>4. RingsAgree'
  BY <1>1, <1>2 DEF FifoInv, RingsAgree, Slot, NextBuffer, TypeOK, Buffers
<1>5. FilledInOrder'
  <2> SUFFICES ASSUME NEW i \in Buffers, i < Filled - 1
               PROVE  content[Slot(i)'] = received + 2 + i
    BY <1>1, <1>2 DEF FilledInOrder, Slot, Buffers, FifoInv, TypeOK
  <2>1. Slot(i)' = Slot(i + 1) /\ i + 1 \in Buffers /\ i + 1 < Filled
    BY <1>1, <1>2 DEF Slot, NextBuffer, Buffers, FifoInv, TypeOK
  <2>2. content[Slot(i + 1)] = received + 1 + (i + 1)
    BY <2>1 DEF FifoInv, FilledInOrder
  <2> QED
    BY <2>1, <2>2 DEF FifoInv, TypeOK, Buffers
<1> QED
  BY <1>1, <1>3, <1>4, <1>5 DEF FifoInv

(* The inductive invariant holds in every behaviour.                          *)
THEOREM FifoInvariant == Spec => []FifoInv
<1>1. FifoInv /\ [Next]_fvars => FifoInv'
  <2>1. FifoInv /\ UNCHANGED fvars => FifoInv'
    BY DEF FifoInv, TypeOK, LocksCount, RingsAgree, FilledInOrder, Filled, Writers, Readers,
           Slot, fvars, locks, writer, reader, history
  <2> QED
    BY <2>1, AcquireForWriteKeeps, ReleaseWrittenKeeps, AcquireForReadKeeps, ReleaseReadKeeps
       DEF Next
<1> QED
  BY InitFifoInv, <1>1, PTL DEF Spec

(* Type correctness.                                                          *)
THEOREM FifoTypeOK == Spec => []TypeOK
BY FifoInvariant, PTL DEF FifoInv

(* Producer and consumer never work on the same buffer: were their rings at   *)
(* the same place, one of the locks would be at zero.                         *)
THEOREM FifoExclusive == Spec => []Exclusive
<1>1. FifoInv => Exclusive
  BY DepthAssumption
     DEF FifoInv, LocksCount, RingsAgree, TypeOK, Buffers, Exclusive, Filled, Writers, Readers, Slot
<1> QED
  BY <1>1, FifoInvariant, PTL

(* A consumer finds the object it is due to receive, complete.                *)
THEOREM FifoReadsInOrder == Spec => []ReadsInOrder
<1>1. FifoInv => ReadsInOrder
  <2> SUFFICES ASSUME FifoInv, reading # NoBuffer PROVE content[reading] = received + 1
    BY DEF ReadsInOrder
  <2>1. reading = Slot(0) /\ 0 \in Buffers /\ 0 < Filled
    BY DepthAssumption
       DEF FifoInv, RingsAgree, LocksCount, Readers, Filled, Slot, TypeOK, Buffers
  <2> QED
    BY <2>1 DEF FifoInv, FilledInOrder, TypeOK
<1> QED
  BY <1>1, FifoInvariant, PTL

(* The locks and rings implement the bounded FIFO: only releases are visible, *)
(* there is room for what a producer releases and the consumer gets the       *)
(* object that is due.                                                        *)
THEOREM FifoImplementsBounded == Spec => ImplementsFifo
<1>1. Init => Abstract!Init
  BY DEF Init, Abstract!Init
<1>2. FifoInv /\ ReadsInOrder /\ [Next]_fvars => [Abstract!Next]_Abstract!bvars
  <2> SUFFICES ASSUME FifoInv, ReadsInOrder, [Next]_fvars
               PROVE  [Abstract!Next]_Abstract!bvars
    OBVIOUS
  <2>1. CASE AcquireForWrite \/ AcquireForRead \/ UNCHANGED fvars
    BY <2>1 DEF AcquireForWrite, AcquireForRead, history, fvars, Abstract!bvars
  <2>2. CASE ReleaseWritten
    <3>1. sent - received < Depth
      BY <2>2, DepthAssumption
         DEF ReleaseWritten, FifoInv, LocksCount, Filled, Writers, TypeOK
    <3> QED
      BY <2>2, <3>1 DEF ReleaseWritten, Abstract!Next, Abstract!Put
  <2>3. CASE ReleaseRead
    <3>1. received < sent /\ content[reading] = received + 1
      BY <2>3 DEF ReleaseRead, FifoInv, LocksCount, Filled, Readers, TypeOK, ReadsInOrder
    <3> QED
      BY <2>3, <3>1 DEF ReleaseRead, Abstract!Next, Abstract!Get
  <2> QED
    BY <2>1, <2>2, <2>3 DEF Next
<1> QED
  BY <1>1, <1>2, FifoInvariant, FifoReadsInOrder, PTL
     DEF Spec, ImplementsFifo, Abstract!Spec
=============================================================================

----------------------------- MODULE ObjectFifo -----------------------------
(* One object FIFO on a tile with one producer and one consumer: Depth        *)
(* buffers, a producer and a consumer lock. Each side acquires its lock, works *)
(* on the next buffer of its ring and releases the lock of the other side.    *)
EXTENDS Integers

CONSTANTS Depth, Items

ASSUME DepthAssumption == Depth \in Nat \ {0}
ASSUME ItemsAssumption == Items \in Nat

VARIABLES producerLock, consumerLock,   \* values of the two semaphores
          writeIdx, readIdx,            \* next buffer of each side's ring
          writing, reading,             \* buffer in use, or NoBuffer
          content,                      \* number of the object in a buffer, 0 if none is complete
          sent, received, delivered     \* history: objects handed over by each side

locks == <<producerLock, consumerLock>>
writer == <<writeIdx, writing>>
reader == <<readIdx, reading>>
history == <<sent, received, delivered>>
fvars == <<locks, writer, reader, content, history>>

NoBuffer == -1
Buffers == 0 .. Depth - 1
NextOfFewer(b) == IF b >= Depth - 2 THEN 0 ELSE b + 1   \* mutant: rings one buffer too short
NextBuffer(b) == IF b = Depth - 1 THEN 0 ELSE b + 1

Init == /\ producerLock = Depth
        /\ consumerLock = 0
        /\ writeIdx = 0 /\ readIdx = 0
        /\ writing = NoBuffer /\ reading = NoBuffer
        /\ content = [b \in Buffers |-> 0]
        /\ sent = 0 /\ received = 0 /\ delivered = 0

(* Mutants: the lock is taken without a test; the reader stays where it is.   *)
AcquireForWriteAlways ==
  /\ writing = NoBuffer
  /\ producerLock' = IF producerLock = 0 THEN 0 ELSE producerLock - 1
  /\ writing' = writeIdx
  /\ content' = [content EXCEPT ![writeIdx] = 0]
  /\ UNCHANGED <<consumerLock, writeIdx, reader, history>>
AcquireForReadAlways ==
  /\ reading = NoBuffer
  /\ consumerLock' = consumerLock - 1
  /\ reading' = readIdx
  /\ UNCHANGED <<producerLock, readIdx, writer, content, history>>
ReleaseReadInPlace ==
  /\ reading # NoBuffer
  /\ delivered' = content[reading]
  /\ received' = received + 1
  /\ producerLock' = producerLock + 1
  /\ reading' = NoBuffer
  /\ UNCHANGED <<readIdx, consumerLock, writer, content, sent>>

AcquireForWrite == /\ writing = NoBuffer
                   /\ producerLock >= 1
                   /\ producerLock' = producerLock - 1
                   /\ writing' = writeIdx
                   /\ content' = [content EXCEPT ![writeIdx] = 0]
                   /\ UNCHANGED <<consumerLock, writeIdx, reader, history>>

ReleaseWritten == /\ writing # NoBuffer
                  /\ sent < Items
                  /\ content' = [content EXCEPT ![writing] = sent + 1]
                  /\ sent' = sent + 1
                  /\ consumerLock' = consumerLock + 1
                  /\ writing' = NoBuffer
                  /\ writeIdx' = NextBuffer(writeIdx)
                  /\ UNCHANGED <<producerLock, reader, received, delivered>>

AcquireForRead == /\ reading = NoBuffer
                  /\ consumerLock >= 1
                  /\ consumerLock' = consumerLock - 1
                  /\ reading' = readIdx
                  /\ UNCHANGED <<producerLock, readIdx, writer, content, history>>

ReleaseRead == /\ reading # NoBuffer
               /\ delivered' = content[reading]
               /\ received' = received + 1
               /\ producerLock' = producerLock + 1
               /\ reading' = NoBuffer
               /\ readIdx' = NextBuffer(readIdx)
               /\ UNCHANGED <<consumerLock, writer, content, sent>>

Next == AcquireForWrite \/ ReleaseWritten \/ AcquireForRead \/ ReleaseRead

Spec == Init /\ [][Next]_fvars

TypeOK == /\ producerLock \in 0 .. Depth /\ consumerLock \in 0 .. Depth
          /\ writeIdx \in Buffers /\ readIdx \in Buffers
          /\ writing \in Buffers \cup {NoBuffer} /\ reading \in Buffers \cup {NoBuffer}
          /\ content \in [Buffers -> Nat]
          /\ sent \in Nat /\ received \in Nat /\ delivered \in Nat

(* Producer and consumer never work on the same buffer, which nothing but    *)
(* the values of the two locks and the two rings prevents.                    *)
Exclusive == writing = NoBuffer \/ reading = NoBuffer \/ writing # reading

(* The buffer a consumer holds has the object it is due to receive, complete. *)
ReadsInOrder == reading # NoBuffer => content[reading] = received + 1

(* The locks and rings implement a bounded FIFO of Depth objects.             *)
Abstract == INSTANCE BoundedFifo
ImplementsFifo == Abstract!Spec
=============================================================================

---------------------------- MODULE CircularBuffer ----------------------------
(***************************************************************************)
(* CircularBuffer (src/Src/Shared/Network/CircularBuffer.{h,cpp}), the     *)
(* byte buffer every Socket has two of.  One block of memory holds region  *)
(* A, the older bytes, and, when the room before A is the larger, region B *)
(* at the start of the block, the younger ones.  Pointers are offsets into *)
(* the block; NULL is the null pointer of region B.                        *)
(*                                                                         *)
(* The operations are operators from a buffer to a buffer, so that the     *)
(* modules of the sockets compose them; the state machine below is one     *)
(* buffer with all its callers.  The block is allocated by the Socket's    *)
(* constructor before anyone calls an operation (m_buffer is not null).    *)
(***************************************************************************)
EXTENDS Integers, Sequences

CONSTANTS
  Capacity,  (* bytes of the block: 60000 to write, 2000 to read          *)
  Byte,      (* the values of a byte                                      *)
  Uninit,    (* what the block holds where nothing was written yet        *)
  Chunk      (* the byte strings the callers add in one call              *)

ASSUME CapacityAssumption == Capacity \in Nat \ {0}
ASSUME ChunkAssumption == \A s \in Chunk : s \in Seq(Byte) /\ Len(s) > 0
ASSUME UninitAssumption == Uninit \notin Byte

VARIABLE buf

NULL == -1
Offset == 0 .. Capacity - 1

(* The block as Allocate leaves it. *)
Allocated ==
  [mem |-> [i \in Offset |-> Uninit], aPtr |-> 0, aSize |-> 0, bPtr |-> NULL, bSize |-> 0]

Minimum(x, y) == IF x <= y THEN x ELSE y

-------------------------------------------------------------------------------
(* Space and sizes. *)

AFree(b) == Capacity - b.aPtr - b.aSize
SpaceBeforeA(b) == b.aPtr
BFree(b) == IF b.bPtr = NULL THEN 0 ELSE b.aPtr - b.bPtr - b.bSize

Size(b) == b.aSize + b.bSize

(* GetContiguiousBytes: what one send() can push. *)
Contiguous(b) == IF b.aSize > 0 THEN b.aSize ELSE b.bSize

(* GetBufferStart: where the oldest byte is read from. *)
ReadPtr(b) == IF b.aSize > 0 THEN b.aPtr ELSE b.bPtr

(* GetBuffer: where new bytes go. *)
WritePtr(b) == IF b.bPtr # NULL THEN b.bPtr + b.bSize ELSE b.aPtr + b.aSize

-------------------------------------------------------------------------------
(* Adding bytes. *)

AllocateB(b) == [b EXCEPT !.bPtr = 0]

(* Region B is started, for good, when there is more room before A than     *)
(* behind it.  GetSpace and Write take this decision first, also when the   *)
(* bytes turn out not to fit.                                               *)
Reserved(b) ==
  IF b.bPtr = NULL /\ AFree(b) < SpaceBeforeA(b) THEN AllocateB(b) ELSE b

(* The room in the region that takes new bytes. *)
RoomToEnd(b) ==      \* mutant: B may grow to the end of the block
  IF b.bPtr # NULL THEN Capacity - b.bPtr - b.bSize ELSE AFree(b)
Room(b) == IF b.bPtr # NULL THEN BFree(b) ELSE AFree(b)

(* The value GetSpace returns. *)
GetSpace(b) == Room(Reserved(b))

(* memcpy or recv to GetBuffer(), the block changed from there on. *)
Store(b, s) ==
  LET at == WritePtr(b) IN
  [b EXCEPT !.mem = [i \in Offset |->
     IF i >= at /\ i < at + Len(s) THEN s[i - at + 1] ELSE b.mem[i]]]

(* IncrementWritten, "commit". *)
IncrementWritten(b, n) ==
  IF b.bPtr # NULL THEN [b EXCEPT !.bSize = @ + n] ELSE [b EXCEPT !.aSize = @ + n]

Put(b, s) == IncrementWritten(Store(b, s), Len(s))

-------------------------------------------------------------------------------
(* Taking bytes: Read and Remove share these steps. *)

(* memmove of region B to the start of the block. *)
MovedDown(b) ==
  [i \in Offset |-> IF i < b.bSize THEN b.mem[b.bPtr + i] ELSE b.mem[i]]

(* When A is empty B becomes A. *)
CompactNoMove(b) ==   \* mutant: the memmove forgotten
  IF b.aSize > 0 THEN b
  ELSE [mem |-> b.mem, aPtr |-> 0, aSize |-> b.bSize, bPtr |-> NULL, bSize |-> 0]
CompactLazy(b) ==     \* mutant: what is left in B stays where it is
  IF Size(b) > 0 THEN b
  ELSE [mem |-> b.mem, aPtr |-> 0, aSize |-> 0, bPtr |-> NULL, bSize |-> 0]
Compact(b) ==
  IF b.aSize > 0 THEN b
  ELSE [mem |-> MovedDown(b), aPtr |-> 0, aSize |-> b.bSize, bPtr |-> NULL, bSize |-> 0]

(* n bytes cut from the front: A is finished off first, then B. *)
Cut(b, n) ==
  LET fromA == Minimum(n, b.aSize)
      fromB == Minimum(n - fromA, b.bSize)
  IN  [mem |-> b.mem, aPtr |-> b.aPtr + fromA, aSize |-> b.aSize - fromA,
       bPtr |-> b.bPtr + fromB, bSize |-> b.bSize - fromB]

Take(b, n) == Compact(Cut(b, n))

-------------------------------------------------------------------------------
(* One buffer and its callers.                                              *)

Init == buf = Allocated

(* Write, from Socket::BurstSend: all of s, or false and nothing stored. *)
Write(s) ==
  LET r == Reserved(buf) IN
  buf' = IF Room(r) >= Len(s) THEN Put(r, s) ELSE r

(* GetSpace, recv into GetBuffer and IncrementWritten, from ReadCallback. *)
Receive(s) ==
  /\ Len(s) <= GetSpace(buf)
  /\ buf' = Put(Reserved(buf), s)

(* GetSpace when the recv that follows returns no byte. *)
ReceiveNothing == buf' = Reserved(buf)

(* Read: n bytes or none. *)
Read(n) ==
  /\ n <= Size(buf)
  /\ buf' = Take(buf, n)

(* Remove: n bytes, or all when there are fewer. *)
Remove(n) == buf' = Take(buf, n)

Next ==
  \/ \E s \in Chunk : Write(s) \/ Receive(s)
  \/ ReceiveNothing
  \/ \E n \in 1 .. Capacity : Read(n) \/ Remove(n)

Spec == Init /\ [][Next]_buf

-------------------------------------------------------------------------------
(* Properties. *)

(* The bytes stored, oldest first: A and then B. *)
Content(b) ==
  [i \in 1 .. Size(b) |->
     IF i <= b.aSize THEN b.mem[b.aPtr + i - 1] ELSE b.mem[b.bPtr + i - b.aSize - 1]]

BufferType ==
  [mem : [Offset -> Byte \cup {Uninit}], aPtr : 0 .. Capacity, aSize : 0 .. Capacity,
   bPtr : {NULL, 0}, bSize : 0 .. Capacity]

(* Between two calls region B is absent or starts at the start of the block. *)
TypeOK == buf \in BufferType

(* The two regions lie inside the block and do not overlap, so that a byte  *)
(* copied to GetBuffer() never lands on a byte nobody has read (the pointer *)
(* arithmetic of GetAFreeSpace and GetBFreeSpace is unsigned: a negative    *)
(* room would read as a huge one).                                          *)
RegionsApart ==
  /\ buf.aPtr + buf.aSize <= Capacity
  /\ buf.bPtr = NULL => buf.bSize = 0
  /\ buf.bPtr # NULL => buf.bPtr + buf.bSize <= buf.aPtr

(* B is never there without A: whoever reads at GetBufferStart() finds the  *)
(* oldest byte, and an emptied buffer is as good as a new one, with its     *)
(* whole capacity in one piece.                                             *)
OldestInA ==
  buf.aSize = 0 => buf.bPtr = NULL /\ buf.aPtr = 0

(* What the messages rely on: a write that leaves the buffer at most half   *)
(* full is never refused, wherever the regions lie.  (Beyond a half it may  *)
(* be: the room behind A is lost while B exists.)                           *)
HalfIsUsable ==
  \A n \in 1 .. Capacity :
    2 * (n + Size(buf)) <= Capacity => Room(Reserved(buf)) >= n

(* The inductive form of the three: while B exists, the room lost behind A  *)
(* is smaller than the room that lies before A.                             *)
WellFormed(b) ==
  /\ b \in BufferType
  /\ b.aPtr + b.aSize <= Capacity
  /\ b.bPtr = NULL => b.bSize = 0
  /\ b.bPtr # NULL => b.bSize <= b.aPtr /\ AFree(b) < SpaceBeforeA(b)
  /\ b.aSize = 0 => b.bPtr = NULL /\ b.aPtr = 0

(* Every step of the buffer is a step of the byte queue: Write and Receive  *)
(* add a whole chunk behind the bytes stored or nothing, Read and Remove    *)
(* take the oldest, the memmove changes nothing a reader can see.           *)
Fifo == INSTANCE ByteFifo WITH queue <- Content(buf)
ImplementsFifo == Fifo!Spec
===============================================================================

----------------------------- MODULE SocketProofs -----------------------------
(***************************************************************************)
(* Proofs about the connection of a client, from the bytes up: the circular*)
(* buffer (CircularBuffer), the packets read from it (PacketReader) and the*)
(* two directions of the socket (EpollSocket), for every capacity, every set*)
(* of bytes and chunks, every size of the packets that the named assumptions*)
(* admit and every size of the kernel's queues.                            *)
(***************************************************************************)
EXTENDS PacketReader, EpollSocket, SequenceTheorems, TLAPS

-------------------------------------------------------------------------------
(***************************************************************************)
(* CircularBuffer.  The lemmas speak of one operation on one well-formed   *)
(* buffer b, so that the proofs about the sockets cite them for the read   *)
(* buffer and the write buffer alike.                                      *)
(***************************************************************************)

Cell == Byte \cup {Uninit}

-------------------------------------------------------------------------------
(* What each operation keeps. *)

(* The buffer as allocated is well formed. *)
LEMMA AllocatedWellFormed == WellFormed(Allocated) /\ Size(Allocated) = 0
  BY CapacityAssumption
     DEF WellFormed, BufferType, Allocated, AFree, SpaceBeforeA, NULL, Offset, Size

(* Starting region B keeps the buffer well formed and stores nothing. *)
LEMMA ReservedWellFormed ==
  ASSUME NEW b, WellFormed(b)
  PROVE  /\ WellFormed(Reserved(b))
         /\ Reserved(b) = [b EXCEPT !.bPtr = Reserved(b).bPtr]
         /\ Reserved(b).bPtr = NULL => AFree(b) >= SpaceBeforeA(b)
         /\ Reserved(Reserved(b)) = Reserved(b)
         /\ Size(Reserved(b)) = Size(b)
  BY CapacityAssumption
     DEF WellFormed, BufferType, Reserved, AllocateB, AFree, SpaceBeforeA, NULL, Size

(* Bytes that fit into the room keep the buffer well formed. *)
LEMMA PutWellFormed ==
  ASSUME NEW b, WellFormed(b),
         NEW s \in Seq(Byte), Len(s) > 0, Len(s) <= Room(b)
  PROVE  /\ WellFormed(Put(b, s))
         /\ Size(Put(b, s)) = Size(b) + Len(s)
  <1> DEFINE st == Store(b, s)
  <1>1. Len(s) \in Nat
    OBVIOUS
  <1>2. /\ st.mem \in [Offset -> Cell]
        /\ st = [b EXCEPT !.mem = st.mem]
    <2>1. ASSUME NEW i \in Offset, i >= WritePtr(b), i < WritePtr(b) + Len(s)
          PROVE  s[i - WritePtr(b) + 1] \in Byte
      <3>1. WritePtr(b) \in Int
        BY CapacityAssumption DEF WritePtr, WellFormed, BufferType, NULL
      <3>2. i - WritePtr(b) + 1 \in 1 .. Len(s)
        BY <1>1, <2>1, <3>1, CapacityAssumption DEF Offset
      <3>3. QED BY <3>2, ElementOfSeq
    <2>2. QED
      BY <2>1 DEF Store, WellFormed, BufferType, Cell
  <1>3. Put(b, s) = IncrementWritten(st, Len(s))
    BY DEF Put
  <1> HIDE DEF st
  <1>4. CASE b.bPtr = NULL
    <2>1. Put(b, s) = [st EXCEPT !.aSize = st.aSize + Len(s)]
      BY <1>2, <1>3, <1>4 DEF IncrementWritten, WellFormed, BufferType
    <2>2. Len(s) <= Capacity - b.aPtr - b.aSize
      BY <1>4 DEF Room, AFree
    <2>3. Put(b, s) = [mem |-> st.mem, aPtr |-> b.aPtr, aSize |-> b.aSize + Len(s),
                       bPtr |-> b.bPtr, bSize |-> b.bSize]
      BY <1>2, <2>1 DEF WellFormed, BufferType
    <2>4. QED
      BY <1>1, <1>2, <1>4, <2>2, <2>3, CapacityAssumption
         DEF WellFormed, BufferType, Cell, NULL, Size
  <1>5. CASE b.bPtr # NULL
    <2>1. Put(b, s) = [st EXCEPT !.bSize = st.bSize + Len(s)]
      BY <1>2, <1>3, <1>5 DEF IncrementWritten, WellFormed, BufferType
    <2>2. b.bPtr = 0 /\ Len(s) <= b.aPtr - b.bSize
      BY <1>5 DEF WellFormed, BufferType, Room, BFree, NULL
    <2>3. /\ Put(b, s) \in BufferType
          /\ Put(b, s).aPtr = b.aPtr /\ Put(b, s).aSize = b.aSize
          /\ Put(b, s).bPtr = b.bPtr /\ Put(b, s).bSize = b.bSize + Len(s)
      BY <1>1, <1>2, <1>5, <2>1, <2>2, CapacityAssumption
         DEF WellFormed, BufferType, Cell
    <2>4. QED
      BY <1>1, <1>5, <2>2, <2>3, CapacityAssumption
         DEF WellFormed, BufferType, AFree, SpaceBeforeA, NULL, Size
  <1>6. QED BY <1>4, <1>5

(* Taking bytes keeps the buffer well formed and takes what was asked for,  *)
(* or all.                                                                  *)
LEMMA TakeWellFormed ==
  ASSUME NEW b, WellFormed(b), NEW n \in Nat
  PROVE  /\ WellFormed(Take(b, n))
         /\ Size(Take(b, n)) = IF n <= Size(b) THEN Size(b) - n ELSE 0
  <1> DEFINE fromA == Minimum(n, b.aSize)
             fromB == Minimum(n - fromA, b.bSize)
             c == Cut(b, n)
  <1>1. /\ fromA \in Nat /\ fromA <= n /\ fromA <= b.aSize
        /\ fromB \in Nat /\ fromB <= b.bSize
        /\ fromA < b.aSize => fromB = 0
        /\ n <= b.aSize => fromA = n /\ fromB = 0
        /\ n > b.aSize => fromA = b.aSize
        /\ n > Size(b) => fromB = b.bSize
        /\ n > b.aSize /\ n <= Size(b) => fromB = n - b.aSize
    BY CapacityAssumption DEF Minimum, WellFormed, BufferType, NULL, Size
  <1>2. c = [mem |-> b.mem, aPtr |-> b.aPtr + fromA, aSize |-> b.aSize - fromA,
             bPtr |-> b.bPtr + fromB, bSize |-> b.bSize - fromB]
    BY DEF Cut
  <1>b. /\ b.mem \in [Offset -> Cell]
        /\ b.aPtr \in 0 .. Capacity /\ b.aSize \in 0 .. Capacity
        /\ b.bSize \in 0 .. Capacity
        /\ b.aPtr + b.aSize <= Capacity
        /\ \/ b.bPtr = NULL /\ b.bSize = 0
           \/ b.bPtr = 0 /\ b.bSize <= b.aPtr /\ AFree(b) < SpaceBeforeA(b)
    BY DEF WellFormed, BufferType, Cell, NULL
  <1>c. /\ c.mem = b.mem /\ c.aPtr = b.aPtr + fromA /\ c.aSize = b.aSize - fromA
        /\ c.bPtr = b.bPtr + fromB /\ c.bSize = b.bSize - fromB
    BY <1>2
  <1> HIDE DEF fromA, fromB, c
  <1>3. CASE c.aSize > 0
    <2>1. Take(b, n) = c
      BY <1>3 DEF Take, Compact, c
    <2>2. QED
      BY <1>1, <1>2, <1>3, <2>1, CapacityAssumption
         DEF WellFormed, BufferType, AFree, SpaceBeforeA, NULL, Size
  <1>4. CASE ~(c.aSize > 0)
    <2> DEFINE m == MovedDown(c)
    <2>1. m \in [Offset -> Cell]
      <3>1. ASSUME NEW i \in Offset, i < c.bSize
            PROVE  c.bPtr + i \in Offset
        <4>1. i \in Nat /\ i < b.bSize - fromB
          BY <1>c, <3>1 DEF Offset
        <4>2. b.bPtr = 0 /\ b.bSize <= Capacity
          BY <1>1, <1>b, <4>1
        <4>3. QED
          BY <1>1, <1>b, <1>c, <4>1, <4>2, CapacityAssumption DEF Offset
      <3>2. QED
        BY <1>b, <1>c, <3>1 DEF MovedDown
    <2>2. Take(b, n) = [mem |-> m, aPtr |-> 0, aSize |-> c.bSize,
                        bPtr |-> NULL, bSize |-> 0]
      BY <1>4 DEF Take, Compact, c
    <2>3. c.bSize \in 0 .. Capacity /\ c.bSize = b.bSize - fromB /\ b.aSize = fromA
      BY <1>1, <1>4, <1>b, <1>c, CapacityAssumption
    <2> HIDE DEF m
    <2>4. WellFormed(Take(b, n))
      BY <2>1, <2>2, <2>3, CapacityAssumption
         DEF WellFormed, BufferType, Cell, AFree, SpaceBeforeA, NULL
    <2>5. Size(Take(b, n)) = b.bSize - fromB
      BY <2>2, <2>3 DEF Size
    <2>6. b.bSize - fromB = IF n <= Size(b) THEN Size(b) - n ELSE 0
      BY <1>1, <1>b, <2>3 DEF Size
    <2>7. QED
      BY <2>4, <2>5, <2>6
  <1>5. QED BY <1>3, <1>4

(* A well-formed buffer holds no more than its block. *)
LEMMA SizeBounded ==
  ASSUME NEW b, WellFormed(b)
  PROVE  Size(b) \in 0 .. Capacity
  BY CapacityAssumption
     DEF WellFormed, BufferType, Size, AFree, SpaceBeforeA, NULL

(* The room left when B may have been started: what fits into the free half *)
(* of the block is always there in one piece.                               *)
LEMMA HalfRoom ==
  ASSUME NEW b, WellFormed(b), NEW n \in Nat, 2 * (n + Size(b)) <= Capacity
  PROVE  GetSpace(b) >= n
  BY CapacityAssumption
     DEF GetSpace, Reserved, AllocateB, Room, WellFormed, BufferType, AFree, BFree,
         SpaceBeforeA, NULL, Size

-------------------------------------------------------------------------------
(* What a reader sees. *)

(* Where the i-th byte stored lies, and that it lies inside the block. *)
LEMMA ContentIsSeq ==
  ASSUME NEW b, WellFormed(b)
  PROVE  /\ Size(b) \in Nat
         /\ Content(b) \in Seq(Cell)
         /\ Len(Content(b)) = Size(b)
         /\ \A i \in 1 .. Size(b) : Content(b)[i] =
              IF i <= b.aSize THEN b.mem[b.aPtr + i - 1] ELSE b.mem[b.bPtr + i - b.aSize - 1]
  <1>1. Size(b) \in Nat
    BY DEF Size, WellFormed, BufferType
  <1>2. ASSUME NEW i \in 1 .. Size(b)
        PROVE  Content(b)[i] \in Cell
    <2>1. CASE i <= b.aSize
      <3>1. b.aPtr + i - 1 \in Offset
        BY <2>1, CapacityAssumption DEF WellFormed, BufferType, Offset
      <3>2. QED
        BY <2>1, <3>1 DEF Content, WellFormed, BufferType, Cell
    <2>2. CASE ~(i <= b.aSize)
      <3>1. b.bPtr = 0 /\ b.bSize <= b.aPtr
        BY <2>2 DEF Size, WellFormed, BufferType, NULL
      <3>2. b.bPtr + i - b.aSize - 1 \in Offset
        BY <2>2, <3>1, CapacityAssumption DEF Size, WellFormed, BufferType, Offset
      <3>3. QED
        BY <2>2, <3>2 DEF Content, WellFormed, BufferType, Cell
    <2>3. QED BY <2>1, <2>2
  <1>3. Content(b) \in [1 .. Size(b) -> Cell]
    BY <1>2 DEF Content
  <1>4. Content(b) \in Seq(Cell)
    BY <1>1, <1>3, SeqDef
  <1>5. Len(Content(b)) = Size(b)
    BY <1>1, <1>3, <1>4
  <1>6. QED BY <1>1, <1>4, <1>5 DEF Content

(* Starting region B shows no reader anything. *)
LEMMA ReservedContent ==
  ASSUME NEW b, WellFormed(b)
  PROVE  Content(Reserved(b)) = Content(b)
  <1> DEFINE r == Reserved(b)
  <1>1. /\ WellFormed(r) /\ Size(r) = Size(b)
        /\ r.mem = b.mem /\ r.aPtr = b.aPtr /\ r.aSize = b.aSize /\ r.bSize = b.bSize
        /\ r.bPtr = b.bPtr \/ b.bSize = 0
    BY ReservedWellFormed DEF Reserved, AllocateB, WellFormed, BufferType
  <1> HIDE DEF r
  <1>2. ASSUME NEW i \in 1 .. Size(b)
        PROVE  Content(r)[i] = Content(b)[i]
    <2>1. i <= b.aSize \/ b.bSize # 0
      BY DEF Size, WellFormed, BufferType
    <2>2. QED
      BY <1>1, <2>1, ContentIsSeq
  <1>3. QED
    BY <1>1, <1>2, ContentIsSeq, SeqEqual DEF r

(* Bytes put into the room come behind the bytes stored and touch none of   *)
(* them.                                                                    *)
LEMMA PutContent ==
  ASSUME NEW b, WellFormed(b),
         NEW s \in Seq(Byte), Len(s) > 0, Len(s) <= Room(b)
  PROVE  Content(Put(b, s)) = Content(b) \o s
  <1> DEFINE p == Put(b, s)
             at == WritePtr(b)
  <1>1. WellFormed(p) /\ Size(p) = Size(b) + Len(s)
    BY PutWellFormed
  <1>2. s \in Seq(Cell)
    BY SeqMonotonic DEF Cell
  <1>3. /\ p.mem = [i \in Offset |->
              IF i >= at /\ i < at + Len(s) THEN s[i - at + 1] ELSE b.mem[i]]
        /\ p.aPtr = b.aPtr /\ p.bPtr = b.bPtr
        /\ p.aSize = IF b.bPtr = NULL THEN b.aSize + Len(s) ELSE b.aSize
        /\ at = IF b.bPtr = NULL THEN b.aPtr + b.aSize ELSE b.bSize
    BY DEF Put, Store, IncrementWritten, WritePtr, WellFormed, BufferType
  <1>b. /\ b.aPtr \in Nat /\ b.aSize \in Nat /\ b.bSize \in Nat
        /\ b.aPtr + b.aSize <= Capacity
        /\ b.bPtr = NULL => b.bSize = 0 /\ b.aPtr + b.aSize + Len(s) <= Capacity
        /\ b.bPtr # NULL => b.bPtr = 0 /\ b.bSize + Len(s) <= b.aPtr
    BY CapacityAssumption DEF WellFormed, BufferType, Room, AFree, BFree, NULL
  <1>4. ASSUME NEW i \in 1 .. Size(b)
        PROVE  Content(p)[i] = Content(b)[i]
    <2>1. CASE i <= b.aSize
      <3>1. /\ b.aPtr + i - 1 \in Offset
            /\ ~(b.aPtr + i - 1 >= at /\ b.aPtr + i - 1 < at + Len(s))
        <4>1. CASE b.bPtr = NULL
          BY <1>3, <1>b, <2>1, <4>1, CapacityAssumption DEF Offset
        <4>2. CASE b.bPtr # NULL
          BY <1>3, <1>b, <2>1, <4>2, CapacityAssumption DEF Offset
        <4>3. QED BY <4>1, <4>2
      <3> HIDE DEF at, p
      <3>2. i \in 1 .. Size(p) /\ i <= p.aSize
        BY <1>1, <1>3, <1>b, <2>1 DEF Size
      <3>3. /\ Content(p)[i] = p.mem[b.aPtr + i - 1]
            /\ Content(b)[i] = b.mem[b.aPtr + i - 1]
        BY <1>1, <1>3, <2>1, <3>2, ContentIsSeq
      <3>4. QED
        BY <1>3, <3>1, <3>3
    <2>2. CASE ~(i <= b.aSize)
      <3>1. b.bPtr # NULL /\ b.bPtr = 0
        BY <1>b, <2>2 DEF Size
      <3>a. at = b.bSize
        BY <1>3, <3>1
      <3>b. i - b.aSize - 1 \in 0 .. b.bSize - 1
        BY <1>b, <2>2 DEF Size
      <3>2. /\ i - b.aSize - 1 \in Offset
            /\ ~(i - b.aSize - 1 >= at /\ i - b.aSize - 1 < at + Len(s))
        <4> DEFINE j == i - b.aSize - 1
        <4>1. b.bSize <= Capacity /\ b.bSize \in Nat /\ Len(s) \in Nat
          BY <1>b, <3>1, CapacityAssumption
        <4> HIDE DEF at, p, j
        <4>2. j \in 0 .. b.bSize - 1
          BY <3>b DEF j
        <4>3. j \in Offset /\ ~(j >= at /\ j < at + Len(s))
          BY <3>a, <4>1, <4>2, CapacityAssumption DEF Offset
        <4>4. QED BY <4>3 DEF j
      <3> HIDE DEF at, p
      <3>3. i \in 1 .. Size(p) /\ ~(i <= p.aSize) /\ p.aSize = b.aSize
        BY <1>1, <1>3, <1>b, <2>2, <3>1 DEF Size
      <3>4. /\ Content(p)[i] = p.mem[0 + i - b.aSize - 1]
            /\ Content(b)[i] = b.mem[0 + i - b.aSize - 1]
        BY <1>1, <1>3, <2>2, <3>1, <3>3, ContentIsSeq
      <3>5. 0 + i - b.aSize - 1 = i - b.aSize - 1
        BY <1>b
      <3>6. QED
        BY <1>3, <3>2, <3>4, <3>5
    <2>3. QED BY <2>1, <2>2
  <1>5. ASSUME NEW j \in 1 .. Len(s)
        PROVE  Content(p)[Size(b) + j] = s[j]
    <2> DEFINE i == Size(b) + j
    <2>1. i \in 1 .. Size(p) /\ i \in Nat
      BY <1>1, <1>b DEF Size
    <2>2. Content(p)[i] = p.mem[at + j - 1]
      <3>1. CASE b.bPtr = NULL
        <4>1. i <= p.aSize /\ p.aPtr + i - 1 = at + j - 1
          BY <1>3, <1>b, <3>1 DEF Size
        <4> HIDE DEF p, at, i
        <4>2. QED BY <1>1, <2>1, <4>1, ContentIsSeq
      <3>2. CASE b.bPtr # NULL
        <4>1. ~(i <= p.aSize) /\ p.bPtr + i - p.aSize - 1 = at + j - 1
          BY <1>3, <1>b, <3>2 DEF Size
        <4> HIDE DEF p, at, i
        <4>2. QED BY <1>1, <2>1, <4>1, ContentIsSeq
      <3>3. QED BY <3>1, <3>2
    <2>3. at + j - 1 \in Offset /\ at \in Nat
      <3>1. /\ at \in Nat /\ at + Len(s) <= Capacity
            /\ Len(s) \in Nat /\ Capacity \in Nat
        <4> HIDE DEF p, at
        <4>1. CASE b.bPtr = NULL
          BY <1>3, <1>b, <4>1, CapacityAssumption
        <4>2. CASE b.bPtr # NULL
          BY <1>3, <1>b, <4>2, CapacityAssumption
        <4>3. QED BY <4>1, <4>2
      <3> HIDE DEF p, at
      <3>2. QED BY <3>1 DEF Offset
    <2>4. p.mem[at + j - 1] = s[(at + j - 1) - at + 1]
      <3> HIDE DEF at, p
      <3> QED BY <1>3, <2>3
    <2>5. (at + j - 1) - at + 1 = j
      <3> HIDE DEF at
      <3> QED BY <2>3
    <2>6. QED BY <2>2, <2>4, <2>5
  <1> HIDE DEF p, at
  <1>6. /\ Content(p) \in Seq(Cell) /\ Len(Content(p)) = Size(b) + Len(s)
        /\ Content(b) \in Seq(Cell) /\ Len(Content(b)) = Size(b) /\ Size(b) \in Nat
    BY <1>1, ContentIsSeq
  <1>7. /\ Content(b) \o s \in Seq(Cell)
        /\ Len(Content(b) \o s) = Size(b) + Len(s)
        /\ \A i \in 1 .. Size(b) + Len(s) : (Content(b) \o s)[i] =
              IF i <= Size(b) THEN Content(b)[i] ELSE s[i - Size(b)]
    <2> HIDE DEF Cell
    <2>1. /\ Content(b) \o s \in Seq(Cell)
          /\ Len(Content(b) \o s) = Len(Content(b)) + Len(s)
          /\ \A i \in 1 .. Len(Content(b)) + Len(s) : (Content(b) \o s)[i] =
                IF i <= Len(Content(b)) THEN Content(b)[i] ELSE s[i - Len(Content(b))]
      BY <1>2, <1>6, ConcatProperties, Zenon
    <2>2. QED BY <1>6, <2>1
  <1>8. ASSUME NEW i \in 1 .. Size(b) + Len(s)
        PROVE  Content(p)[i] = (Content(b) \o s)[i]
    <2>1. CASE i <= Size(b)
      BY <1>4, <1>6, <1>7, <2>1
    <2>2. CASE ~(i <= Size(b))
      <3>1. i - Size(b) \in 1 .. Len(s) /\ Size(b) + (i - Size(b)) = i
        BY <1>6, <2>2
      <3>2. QED BY <1>5, <1>7, <2>2, <3>1
    <2>3. QED BY <2>1, <2>2
  <1>9. QED
    BY <1>6, <1>7, <1>8, SeqEqual DEF p

(* Taking n bytes leaves the others, in their order; the memmove of region  *)
(* B is invisible to the reader.                                            *)
LEMMA TakeContent ==
  ASSUME NEW b, WellFormed(b), NEW n \in Nat, n <= Size(b)
  PROVE  Content(Take(b, n)) = SubSeq(Content(b), n + 1, Size(b))
  <1> DEFINE t == Take(b, n)
             fromA == Minimum(n, b.aSize)
             fromB == Minimum(n - fromA, b.bSize)
  <1>1. /\ WellFormed(t) /\ Size(t) = Size(b) - n
        /\ Size(b) \in Nat /\ Size(t) \in Nat
    BY TakeWellFormed, ContentIsSeq
  <1>2. /\ b.mem \in [Offset -> Cell]
        /\ b.aPtr \in Nat /\ b.aSize \in Nat /\ b.bSize \in Nat
        /\ b.aPtr + b.aSize <= Capacity /\ Size(b) = b.aSize + b.bSize
        /\ \/ b.bPtr = NULL /\ b.bSize = 0
           \/ b.bPtr = 0 /\ b.bSize <= b.aPtr
    BY CapacityAssumption DEF WellFormed, BufferType, Size, NULL, Cell
  <1>3. /\ fromA = IF n <= b.aSize THEN n ELSE b.aSize
        /\ fromB = IF n <= b.aSize THEN 0 ELSE n - b.aSize
    BY <1>2 DEF Minimum
  <1>4. ASSUME NEW i \in 1 .. Size(b) - n
        PROVE  Content(t)[i] = Content(b)[n + i]
    <2>1. n + i \in 1 .. Size(b) /\ i \in 1 .. Size(t) /\ i \in Nat
      BY <1>1
    <2>2. CASE n < b.aSize
      <3>1. /\ t.mem = b.mem /\ t.aPtr = b.aPtr + n /\ t.aSize = b.aSize - n
            /\ t.bPtr = b.bPtr /\ t.bSize = b.bSize
        <4>1. fromA = n /\ fromB = 0
          BY <1>2, <1>3, <2>2
        <4>2. Cut(b, n) = [mem |-> b.mem, aPtr |-> b.aPtr + n, aSize |-> b.aSize - n,
                           bPtr |-> b.bPtr + 0, bSize |-> b.bSize - 0]
          BY <4>1 DEF Cut
        <4>3. b.aSize - n > 0 /\ b.bPtr + 0 = b.bPtr /\ b.bSize - 0 = b.bSize
          BY <1>2, <2>2 DEF NULL
        <4>4. t = Cut(b, n)
          BY <4>2, <4>3 DEF Take, Compact
        <4>5. QED BY <4>2, <4>3, <4>4
      <3> HIDE DEF t
      <3>2. CASE i <= t.aSize
        <4>1. n + i <= b.aSize /\ t.aPtr + i - 1 = b.aPtr + (n + i) - 1
          BY <1>2, <2>1, <3>1, <3>2
        <4>2. QED BY <1>1, <2>1, <3>1, <3>2, <4>1, ContentIsSeq
      <3>3. CASE ~(i <= t.aSize)
        <4>1. ~(n + i <= b.aSize) /\ b.bPtr \in Int
          BY <1>2, <2>1, <3>1, <3>3 DEF NULL
        <4>2. t.bPtr + i - t.aSize - 1 = b.bPtr + (n + i) - b.aSize - 1
          BY <1>2, <2>1, <3>1, <4>1
        <4>3. QED BY <1>1, <2>1, <3>1, <3>3, <4>1, <4>2, ContentIsSeq
      <3>4. QED BY <3>2, <3>3
    <2>3. CASE ~(n < b.aSize)
      <3>1. fromA = b.aSize /\ fromB = n - b.aSize
        BY <1>2, <1>3, <2>3
      <3>2. b.bPtr = 0 /\ b.bSize <= b.aPtr /\ 1 <= b.bSize - fromB
        BY <1>2, <2>1, <2>3, <3>1
      <3>3. Cut(b, n) = [mem |-> b.mem, aPtr |-> b.aPtr + b.aSize, aSize |-> b.aSize - b.aSize,
                         bPtr |-> b.bPtr + (n - b.aSize), bSize |-> b.bSize - (n - b.aSize)]
        BY <3>1 DEF Cut
      <3>4. b.aSize - b.aSize = 0 /\ b.bPtr + (n - b.aSize) = n - b.aSize
        BY <1>2, <3>2
      <3>5. t = Compact([mem |-> b.mem, aPtr |-> b.aPtr + b.aSize, aSize |-> 0,
                         bPtr |-> n - b.aSize, bSize |-> b.bSize - (n - b.aSize)])
        BY <3>3, <3>4 DEF Take
      <3>6. /\ t.aPtr = 0 /\ t.aSize = b.bSize - (n - b.aSize)
            /\ t.mem = [j \in Offset |-> IF j < b.bSize - (n - b.aSize)
                          THEN b.mem[(n - b.aSize) + j] ELSE b.mem[j]]
        BY <3>5 DEF Compact, MovedDown
      <3> HIDE DEF t, fromA, fromB
      <3>7. /\ i <= t.aSize /\ t.aPtr + i - 1 = i - 1
            /\ ~(n + i <= b.aSize)
            /\ b.bPtr + (n + i) - b.aSize - 1 = (n - b.aSize) + (i - 1)
            /\ i - 1 \in Offset /\ i - 1 < b.bSize - (n - b.aSize)
        <4> DEFINE left == b.bSize - (n - b.aSize)
        <4>1. left \in Nat /\ i <= left /\ left <= Capacity /\ i \in Nat /\ i > 0
          BY <1>2, <2>1, <2>3, <3>2, CapacityAssumption
        <4>2. t.aPtr = 0 /\ t.aSize = left
          BY <3>6
        <4>3. i - 1 \in Offset /\ i - 1 < left /\ i <= t.aSize /\ t.aPtr + i - 1 = i - 1
          <5> HIDE DEF left
          <5> QED BY <4>1, <4>2, CapacityAssumption DEF Offset
        <4>4. /\ ~(n + i <= b.aSize)
              /\ b.bPtr + (n + i) - b.aSize - 1 = (n - b.aSize) + (i - 1)
          BY <1>2, <2>1, <2>3, <3>2
        <4>5. QED BY <4>3, <4>4
      <3>8. /\ Content(t)[i] = t.mem[i - 1]
            /\ Content(b)[n + i] = b.mem[(n - b.aSize) + (i - 1)]
        BY <1>1, <2>1, <3>7, ContentIsSeq
      <3>9. QED BY <3>6, <3>7, <3>8
    <2>4. QED BY <2>2, <2>3
  <1> HIDE DEF t, fromA, fromB
  <1>5. /\ Content(t) \in Seq(Cell) /\ Len(Content(t)) = Size(b) - n
        /\ Content(b) \in Seq(Cell) /\ Len(Content(b)) = Size(b)
    BY <1>1, ContentIsSeq
  <1>6. /\ SubSeq(Content(b), n + 1, Size(b)) \in Seq(Cell)
        /\ Len(SubSeq(Content(b), n + 1, Size(b))) = Size(b) - n
        /\ \A i \in 1 .. Size(b) - n : SubSeq(Content(b), n + 1, Size(b))[i] = Content(b)[n + i]
    BY <1>1, <1>5
  <1>7. QED
    BY <1>4, <1>5, <1>6, SeqEqual DEF t

-------------------------------------------------------------------------------
(* The state machine. *)

(* Every operation keeps the buffer well formed. *)
LEMMA Inductive == Spec => []WellFormed(buf)
  <1>1. Init => WellFormed(buf)
    BY AllocatedWellFormed DEF Init
  <1>2. WellFormed(buf) /\ [Next]_buf => WellFormed(buf)'
    <2> SUFFICES ASSUME WellFormed(buf), [Next]_buf
                 PROVE  WellFormed(buf')
      OBVIOUS
    <2>1. ASSUME NEW s \in Chunk, Write(s) PROVE WellFormed(buf')
      <3>1. s \in Seq(Byte) /\ Len(s) > 0
        BY ChunkAssumption
      <3>2. Room(Reserved(buf)) \in Int /\ Len(s) \in Nat
        BY <3>1, ReservedWellFormed, CapacityAssumption
           DEF Room, AFree, BFree, WellFormed, BufferType, NULL
      <3>3. CASE Room(Reserved(buf)) >= Len(s)
        BY <2>1, <3>1, <3>2, <3>3, ReservedWellFormed, PutWellFormed DEF Write
      <3>4. CASE ~(Room(Reserved(buf)) >= Len(s))
        BY <2>1, <3>4, ReservedWellFormed DEF Write
      <3>5. QED BY <3>3, <3>4
    <2>2. ASSUME NEW s \in Chunk, Receive(s) PROVE WellFormed(buf')
      BY <2>2, ChunkAssumption, ReservedWellFormed, PutWellFormed DEF Receive, GetSpace
    <2>3. CASE ReceiveNothing
      BY <2>3, ReservedWellFormed DEF ReceiveNothing
    <2>4. ASSUME NEW n \in 1 .. Capacity, Read(n) PROVE WellFormed(buf')
      BY <2>4, TakeWellFormed DEF Read
    <2>5. ASSUME NEW n \in 1 .. Capacity, Remove(n) PROVE WellFormed(buf')
      BY <2>5, TakeWellFormed DEF Remove
    <2>6. CASE UNCHANGED buf
      BY <2>6
    <2>7. QED
      BY <2>1, <2>2, <2>3, <2>4, <2>5, <2>6 DEF Next
  <1>3. QED
    BY <1>1, <1>2, PTL DEF Spec

(* The pointers of the buffer stay what BufferType says. *)
THEOREM TypeCorrect == Spec => []TypeOK
  <1>1. WellFormed(buf) => TypeOK
    BY DEF WellFormed, TypeOK
  <1>2. QED BY <1>1, Inductive, PTL

(* Regions A and B never overlap and never leave the block. *)
THEOREM RegionsNeverOverlap == Spec => []RegionsApart
  <1>1. WellFormed(buf) => RegionsApart
    BY DEF WellFormed, BufferType, RegionsApart, NULL
  <1>2. QED BY <1>1, Inductive, PTL

(* GetBufferStart() is the oldest byte. *)
THEOREM OldestByteInA == Spec => []OldestInA
  <1>1. WellFormed(buf) => OldestInA
    BY DEF WellFormed, OldestInA
  <1>2. QED BY <1>1, Inductive, PTL

(* A write that leaves the buffer at most half full is accepted. *)
THEOREM HalfAlwaysUsable == Spec => []HalfIsUsable
  <1>1. WellFormed(buf) => HalfIsUsable
    BY HalfRoom DEF HalfIsUsable, GetSpace
  <1>2. QED BY <1>1, Inductive, PTL

(* The circular buffer is a byte queue. *)
THEOREM Refinement == Spec => ImplementsFifo
  <1>1. Init => Fifo!Init
    <2> SUFFICES ASSUME Init PROVE Content(buf) = << >>
      BY DEF Fifo!Init
    <2>1. WellFormed(buf) /\ Size(buf) = 0
      BY AllocatedWellFormed DEF Init
    <2>2. Content(buf) \in Seq(Cell) /\ Len(Content(buf)) = 0
      BY <2>1, ContentIsSeq
    <2>3. QED BY <2>2
  <1>2. WellFormed(buf) /\ [Next]_buf => [Fifo!Next]_(Content(buf))
    <2> SUFFICES ASSUME WellFormed(buf), [Next]_buf
                 PROVE  Fifo!Next \/ Content(buf') = Content(buf)
      OBVIOUS
    <2> DEFINE r == Reserved(buf)
    <2>0. WellFormed(r) /\ Content(r) = Content(buf) /\ Size(r) = Size(buf)
      BY ReservedWellFormed, ReservedContent
    <2>a. ASSUME NEW s \in Chunk, Len(s) <= Room(r), buf' = Put(r, s)
          PROVE  Fifo!Next
      <3>1. s \in Seq(Byte) /\ Len(s) > 0
        BY ChunkAssumption
      <3>2. /\ Content(buf') = Content(buf) \o s
            /\ WellFormed(buf') /\ Size(buf') = Size(buf) + Len(s)
        BY <2>0, <2>a, <3>1, PutContent, PutWellFormed
      <3>3. Size(buf') <= Capacity
        BY <3>2, SizeBounded
      <3>4. Len(Content(buf)) + Len(s) <= Capacity
        BY <3>2, <3>3, ContentIsSeq
      <3>5. Fifo!Push(s)
        BY <3>2, <3>4 DEF Fifo!Push
      <3>6. QED BY <3>5 DEF Fifo!Next
    <2>b. ASSUME NEW n \in 1 .. Capacity, buf' = Take(buf, n)
          PROVE  Fifo!Next \/ Content(buf') = Content(buf)
      <3>0. /\ n \in Nat /\ n > 0 /\ Size(buf) \in Nat
            /\ Content(buf) \in Seq(Cell) /\ Len(Content(buf)) = Size(buf)
        BY ContentIsSeq, CapacityAssumption
      <3>1. CASE n <= Size(buf)
        <4>1. Content(buf') = SubSeq(Content(buf), n + 1, Size(buf))
          BY <2>b, <3>0, <3>1, TakeContent
        <4>2. Fifo!Pop(n)
          BY <3>0, <3>1, <4>1 DEF Fifo!Pop
        <4>3. QED BY <4>2 DEF Fifo!Next
      <3>2. CASE n > Size(buf) /\ Size(buf) > 0
        <4>1. /\ WellFormed(buf') /\ Size(buf') = 0
          BY <2>b, <3>0, <3>2, TakeWellFormed
        <4>2. Content(buf') \in Seq(Cell) /\ Len(Content(buf')) = 0
          BY <4>1, ContentIsSeq
        <4>3. Content(buf') = SubSeq(Content(buf), Size(buf) + 1, Size(buf))
          BY <3>0, <4>2
        <4>4. Fifo!Pop(Size(buf)) /\ Size(buf) \in 1 .. Capacity
          BY <3>0, <3>2, <4>3, SizeBounded DEF Fifo!Pop
        <4>5. QED BY <4>4 DEF Fifo!Next
      <3>3. CASE Size(buf) = 0
        <4>1. /\ WellFormed(buf') /\ Size(buf') = 0
          BY <2>b, <3>0, <3>3, TakeWellFormed
        <4>2. Content(buf') \in Seq(Cell) /\ Len(Content(buf')) = 0
          BY <4>1, ContentIsSeq
        <4>3. QED BY <3>0, <3>3, <4>2
      <3>4. QED BY <3>0, <3>1, <3>2, <3>3
    <2>1. ASSUME NEW s \in Chunk, Write(s)
          PROVE  Fifo!Next \/ Content(buf') = Content(buf)
      <3>1. Room(r) \in Int /\ Len(s) \in Nat
        BY <2>0, ChunkAssumption, CapacityAssumption
           DEF Room, AFree, BFree, WellFormed, BufferType, NULL
      <3>2. CASE Room(r) >= Len(s)
        BY <2>1, <2>a, <3>1, <3>2 DEF Write
      <3>3. CASE ~(Room(r) >= Len(s))
        BY <2>0, <2>1, <3>3 DEF Write
      <3>4. QED BY <3>2, <3>3
    <2>2. ASSUME NEW s \in Chunk, Receive(s) PROVE Fifo!Next
      BY <2>2, <2>a DEF Receive, GetSpace
    <2>3. CASE ReceiveNothing
      BY <2>0, <2>3 DEF ReceiveNothing
    <2>4. ASSUME NEW n \in 1 .. Capacity, Read(n)
          PROVE  Fifo!Next \/ Content(buf') = Content(buf)
      BY <2>4, <2>b DEF Read
    <2>5. ASSUME NEW n \in 1 .. Capacity, Remove(n)
          PROVE  Fifo!Next \/ Content(buf') = Content(buf)
      BY <2>5, <2>b DEF Remove
    <2>6. CASE UNCHANGED buf
      BY <2>6
    <2>7. QED
      BY <2>1, <2>2, <2>3, <2>4, <2>5, <2>6 DEF Next
  <1>3. QED
    BY <1>1, <1>2, Inductive, PTL DEF Spec, ImplementsFifo, Fifo!Spec

-------------------------------------------------------------------------------
(***************************************************************************)
(* PacketReader.                                                           *)
(***************************************************************************)

(* The inductive invariant behind RoomToReceive: when the worker waits,     *)
(* less than one packet is left in the buffer.  That a length is a number   *)
(* at all rests on every byte stored having been written by a recv.         *)
ReaderInv ==
  /\ WellFormed(buf)
  /\ Content(buf) \in Seq(Byte)
  /\ wire \in Seq(Byte)
  /\ pc \in {"epoll_wait", "OnRead"}
  /\ pc = "epoll_wait" => Size(buf) < MaxLen
  /\ status # "full"

-------------------------------------------------------------------------------

(* Before the worker waits, recv has room for a byte at least. *)
LEMMA RoomWhenSmall ==
  ASSUME NEW b, WellFormed(b), Size(b) < MaxLen
  PROVE  GetSpace(b) > 0
  <1>1. Size(b) \in Nat
    BY SizeBounded, CapacityAssumption
  <1>2. 2 * (1 + Size(b)) <= Capacity
    BY <1>1, LengthAssumption, ReadBufferAssumption, CapacityAssumption
  <1>3. GetSpace(b) >= 1
    BY <1>2, HalfRoom
  <1>4. GetSpace(b) \in Int
    BY ReservedWellFormed, CapacityAssumption
       DEF GetSpace, Room, AFree, BFree, WellFormed, BufferType, NULL
  <1>5. QED BY <1>3, <1>4

(* Every length OnRead may read is a number. *)
LEMMA HeaderIsNumber ==
  ASSUME NEW b, WellFormed(b), Content(b) \in Seq(Byte), Size(b) > 0,
         NEW len \in HeaderLengths(b)
  PROVE  len \in Int
  <1>1. b.aSize > 0 /\ ReadPtr(b) = b.aPtr /\ b.aPtr \in Int
    BY DEF WellFormed, BufferType, ReadPtr, Size, NULL
  <1>2. Content(b)[1] = b.mem[b.aPtr] /\ 1 \in 1 .. Len(Content(b))
    <2>1. /\ Content(b)[1] = b.mem[b.aPtr + 1 - 1]
          /\ 1 \in 1 .. Len(Content(b))
      BY <1>1, ContentIsSeq DEF WellFormed, BufferType
    <2>2. b.aPtr + 1 - 1 = b.aPtr
      BY <1>1
    <2>3. QED BY <2>1, <2>2
  <1>3. b.mem[ReadPtr(b)] \in Byte
    BY <1>1, <1>2, ElementOfSeq
  <1>4. SecondByte(b) \subseteq Byte
    BY <1>1, CapacityAssumption DEF SecondByte, WellFormed, BufferType, Offset
  <1>5. PICK hi \in SecondByte(b) : len = b.mem[ReadPtr(b)] + Base * hi
    BY DEF HeaderLengths
  <1>6. hi \in Int /\ b.mem[ReadPtr(b)] \in Int
    BY <1>3, <1>4, LengthAssumption
  <1>7. QED
    BY <1>5, <1>6, LengthAssumption

(* Taking bytes leaves bytes. *)
LEMMA TakeBytes ==
  ASSUME NEW b, WellFormed(b), Content(b) \in Seq(Byte), NEW n \in Nat, n <= Size(b)
  PROVE  /\ WellFormed(Take(b, n))
         /\ Content(Take(b, n)) \in Seq(Byte)
         /\ Size(Take(b, n)) = Size(b) - n
  <1>1. Content(Take(b, n)) = SubSeq(Content(b), n + 1, Size(b))
    BY TakeContent
  <1>2. Len(Content(b)) = Size(b) /\ Size(b) \in Nat
    BY ContentIsSeq
  <1>3. SubSeq(Content(b), n + 1, Size(b)) \in Seq(Byte)
    BY <1>2
  <1>4. QED
    BY <1>1, <1>3, TakeWellFormed

-------------------------------------------------------------------------------

LEMMA ReaderInductive == ReaderSpec => []ReaderInv
  <1>1. ReaderInit => ReaderInv
    <2> SUFFICES ASSUME ReaderInit PROVE ReaderInv
      OBVIOUS
    <2>1. WellFormed(buf) /\ Size(buf) = 0
      BY AllocatedWellFormed DEF ReaderInit
    <2>2. Content(buf) \in Seq(Byte)
      <3>1. Content(buf) \in Seq(Cell) /\ Len(Content(buf)) = 0
        BY <2>1, ContentIsSeq
      <3>2. QED BY <3>1
    <2>3. QED
      BY <2>1, <2>2, LengthAssumption DEF ReaderInit, ReaderInv
  <1>2. ReaderInv /\ [ReaderNext]_readerVars => ReaderInv'
    <2> SUFFICES ASSUME ReaderInv, [ReaderNext]_readerVars
                 PROVE  ReaderInv'
      OBVIOUS
    <2>1. ASSUME NEW p \in Chunk, ClientSends(p) PROVE ReaderInv'
      <3>1. wire' \in Seq(Byte)
        BY <2>1, ChunkAssumption DEF ClientSends, ReaderInv
      <3>2. QED
        BY <2>1, <3>1 DEF ClientSends, ReaderInv
    <2>2. ASSUME NEW n \in 1 .. Capacity, ReadCallbackReceives(n) PROVE ReaderInv'
      <3> DEFINE s == SubSeq(wire, 1, n)
                 r == Reserved(buf)
      <3>1. /\ n \in Nat /\ n > 0 /\ n <= Len(wire) /\ n <= Room(r)
            /\ wire \in Seq(Byte) /\ WellFormed(buf)
        BY <2>2, CapacityAssumption DEF ReadCallbackReceives, ReaderInv, GetSpace
      <3>2. s \in Seq(Byte) /\ Len(s) = n /\ wire' \in Seq(Byte)
        <4>1. Len(wire) \in Nat /\ \A i \in 1 .. Len(wire) : wire[i] \in Byte
          BY <3>1
        <4>2. \A i \in 1 .. n : wire[i] \in Byte
          BY <3>1, <4>1
        <4>3. s \in Seq(Byte) /\ Len(s) = n
          BY <3>1, <4>2, SubSeqProperties
        <4>4. wire' = SubSeq(wire, n + 1, Len(wire))
          BY <2>2 DEF ReadCallbackReceives
        <4>5. QED BY <3>1, <4>1, <4>3, <4>4
      <3>3. WellFormed(r) /\ Content(r) = Content(buf)
        BY <3>1, ReservedWellFormed, ReservedContent
      <3>4. /\ WellFormed(Put(r, s)) /\ Content(Put(r, s)) = Content(r) \o s
        BY <3>1, <3>2, <3>3, PutWellFormed, PutContent
      <3>5. Content(Put(r, s)) \in Seq(Byte)
        <4>1. Content(r) \in Seq(Byte)
          BY <3>3 DEF ReaderInv
        <4>2. Content(r) \o s \in Seq(Byte)
          BY <3>2, <4>1, ConcatProperties, Zenon
        <4>3. QED BY <3>4, <4>2
      <3>6. buf' = Put(r, s) /\ pc' = "OnRead" /\ status' = status
        BY <2>2 DEF ReadCallbackReceives
      <3>7. QED
        BY <3>2, <3>4, <3>5, <3>6 DEF ReaderInv
    <2>3. CASE ReadCallbackFails
      <3>1. GetSpace(buf) > 0
        BY <2>3, RoomWhenSmall DEF ReadCallbackFails, ReaderInv
      <3>2. status' = "gone"
        BY <2>3, <3>1 DEF ReadCallbackFails
      <3>3. /\ WellFormed(buf') /\ Content(buf') = Content(buf) /\ Size(buf') = Size(buf)
        BY <2>3, ReservedWellFormed, ReservedContent DEF ReadCallbackFails, ReaderInv
      <3>4. wire' = wire /\ pc' = pc
        BY <2>3 DEF ReadCallbackFails
      <3>5. QED
        BY <3>2, <3>3, <3>4 DEF ReaderInv
    <2>4. CASE TooShort
      BY <2>4, LengthAssumption, ContentIsSeq DEF TooShort, ReaderInv
    <2>5. CASE OnRead
      <3>1. PICK len \in HeaderLengths(buf) :
              IllegalLength(len) \/ Incomplete(len) \/ HandOver(len) \/ HandlerRefuses(len)
        BY <2>5 DEF OnRead
      <3>2. /\ Size(buf) \in Nat /\ Size(buf) >= MinLen /\ Size(buf) > 0
            /\ pc = "OnRead" /\ wire' = wire
        BY <2>5, <3>1, LengthAssumption, ContentIsSeq
           DEF OnRead, ReaderInv, IllegalLength, Incomplete, HandOver, HandlerRefuses
      <3>3. len \in Int
        BY <3>2, HeaderIsNumber DEF ReaderInv
      <3>4. CASE IllegalLength(len)
        <4>1. /\ WellFormed(buf') /\ Content(buf') \in Seq(Byte) /\ Size(buf') = Size(buf) - Size(buf)
          BY <3>2, <3>4, TakeBytes DEF IllegalLength, ReaderInv
        <4>2. QED
          BY <3>2, <3>4, <4>1, LengthAssumption DEF IllegalLength, ReaderInv
      <3>5. CASE Incomplete(len)
        <4>1. Size(buf) < MaxLen
          BY <3>2, <3>3, <3>5, LengthAssumption DEF Incomplete, Legal
        <4>2. QED
          BY <3>2, <3>5, <4>1 DEF Incomplete, ReaderInv
      <3>6. CASE HandOver(len)
        <4>1. len \in Nat /\ len <= Size(buf)
          BY <3>2, <3>3, <3>6, LengthAssumption DEF HandOver, Legal
        <4>2. WellFormed(buf') /\ Content(buf') \in Seq(Byte)
          BY <3>6, <4>1, TakeBytes DEF HandOver, ReaderInv
        <4>3. QED
          BY <3>2, <3>6, <4>2 DEF HandOver, ReaderInv
      <3>7. CASE HandlerRefuses(len)
        <4> DEFINE c == Take(buf, len)
        <4>1. len \in Nat /\ len <= Size(buf)
          BY <3>2, <3>3, <3>7, LengthAssumption DEF HandlerRefuses, Legal
        <4>2. WellFormed(c) /\ Content(c) \in Seq(Byte)
          BY <4>1, TakeBytes DEF ReaderInv
        <4>3. buf' = Take(c, Size(c)) /\ pc' = "epoll_wait" /\ status' = "refused"
          BY <3>7 DEF HandlerRefuses
        <4> HIDE DEF c
        <4>4. Size(c) \in Nat
          BY <4>2, ContentIsSeq
        <4>5. /\ WellFormed(buf') /\ Content(buf') \in Seq(Byte)
              /\ Size(buf') = Size(c) - Size(c)
          BY <4>2, <4>3, <4>4, TakeBytes
        <4>6. QED
          BY <3>2, <4>3, <4>4, <4>5, LengthAssumption DEF ReaderInv
      <3>8. QED BY <3>1, <3>4, <3>5, <3>6, <3>7
    <2>6. CASE UNCHANGED readerVars
      BY <2>6 DEF readerVars, ReaderInv
    <2>7. QED
      BY <2>1, <2>2, <2>3, <2>4, <2>5, <2>6 DEF ReaderNext
  <1>3. QED
    BY <1>1, <1>2, PTL DEF ReaderSpec

(* recv is never handed a space of zero, so a connection is never dropped   *)
(* because its read buffer is full.                                         *)
THEOREM ReaderNeverFull == ReaderSpec => []RoomToReceive
  <1>1. ReaderInv => RoomToReceive
    BY RoomWhenSmall DEF ReaderInv, RoomToReceive
  <1>2. QED BY <1>1, ReaderInductive, PTL
-------------------------------------------------------------------------------
(* What is cut from the stream. *)

(* The length written at place b of a byte string, behind b others. *)
LengthAt(s, b) == s[b + 1] + Base * s[b + 2]

(* s consists of legal packets: from its start one gets from boundary to    *)
(* boundary to its end.                                                     *)
Framed(s) ==
  \E cuts \in SUBSET (0 .. Len(s)) :
    /\ 0 \in cuts
    /\ \A b \in cuts :
         b < Len(s) => /\ b + 2 <= Len(s)
                       /\ Legal(LengthAt(s, b))
                       /\ b + LengthAt(s, b) \in cuts

Aligned == status \in {"open", "gone"} /\ ~straddled

FrameInv ==
  /\ ReaderInv
  /\ stream \in Seq(Byte) /\ nSent \in 0 .. MaxPackets
  /\ status \in {"open", "gone", "illegal", "refused", "full"}
  /\ sentBad \in BOOLEAN /\ straddled \in BOOLEAN
  /\ pc = "OnRead" => status = "open"
  /\ Aligned => Content(buf) \o wire = stream
  /\ Aligned /\ ~sentBad => Framed(stream)
  /\ status = "illegal" => sentBad \/ straddled

(* One more legal packet. *)
LEMMA FramedAppend ==
  ASSUME NEW s \in Seq(Byte), Framed(s), NEW p \in Chunk, Legal(Len(p))
  PROVE  Framed(s \o p)
  <1> DEFINE n == Len(s)
             t == s \o p
  <1>1. /\ p \in Seq(Byte) /\ Len(p) >= 2 /\ LengthOf(p) = Len(p)
        /\ Len(p) \in Nat /\ n \in Nat
    BY ChunkAssumption, PacketAssumption
  <1>2. /\ Len(t) = n + Len(p)
        /\ \A i \in 1 .. n : t[i] = s[i]
        /\ t[n + 1] = p[1] /\ t[n + 2] = p[2]
    BY <1>1, ConcatProperties
  <1>3. PICK cuts \in SUBSET (0 .. n) :
          /\ 0 \in cuts
          /\ \A b \in cuts : b < n => /\ b + 2 <= n
                                      /\ Legal(LengthAt(s, b))
                                      /\ b + LengthAt(s, b) \in cuts
    BY DEF Framed
  <1> DEFINE more == cuts \cup {n + Len(p)}
  <1> HIDE DEF n, t
  <1>4. more \in SUBSET (0 .. Len(t)) /\ 0 \in more
    <2>1. n \in Nat /\ Len(p) \in Nat /\ Len(t) = n + Len(p)
      BY <1>1, <1>2
    <2>2. \A a \in cuts : a \in 0 .. Len(t)
      BY <2>1
    <2>3. n + Len(p) \in 0 .. Len(t)
      BY <2>1
    <2>4. QED BY <1>3, <2>2, <2>3
  <1>5. ASSUME NEW b \in more, b < Len(t)
        PROVE  b + 2 <= Len(t) /\ Legal(LengthAt(t, b)) /\ b + LengthAt(t, b) \in more
    <2>1. b \in cuts /\ b \in 0 .. n
      <3>1. b # n + Len(p)
        BY <1>1, <1>2, <1>5
      <3>2. b \in cuts
        BY <1>5, <3>1
      <3>3. QED BY <3>2
    <2>2. CASE b < n
      <3>1. b + 2 <= n /\ Legal(LengthAt(s, b)) /\ b + LengthAt(s, b) \in cuts
        BY <1>3, <2>1, <2>2
      <3>2. b + 1 \in 1 .. n /\ b + 2 \in 1 .. n
        BY <1>1, <2>1, <3>1
      <3>3. LengthAt(t, b) = LengthAt(s, b)
        BY <1>2, <3>2 DEF LengthAt
      <3>4. QED BY <1>1, <1>2, <2>1, <3>1, <3>3
    <2>3. CASE b = n
      <3>1. LengthAt(t, b) = Len(p)
        BY <1>1, <1>2, <2>3 DEF LengthAt, LengthOf
      <3>2. QED BY <1>1, <1>2, <2>3, <3>1
    <2>4. QED BY <1>1, <2>1, <2>2, <2>3
  <1>6. QED BY <1>4, <1>5 DEF Framed, t

(* The first packet of a string of legal ones, and the string without it. *)
LEMMA FramedFirst ==
  ASSUME NEW s \in Seq(Byte), Framed(s), Len(s) >= 2
  PROVE  /\ Legal(LengthOf(s)) /\ LengthOf(s) <= Len(s)
         /\ Framed(WithoutFirst(s))
  <1> DEFINE n == Len(s)
             len == LengthOf(s)
             t == WithoutFirst(s)
  <1>1. n \in Nat /\ s[1] \in Int /\ s[2] \in Int
    BY ElementOfSeq, LengthAssumption
  <1>2. len = LengthAt(s, 0) /\ len \in Int
    BY <1>1, LengthAssumption DEF LengthOf, LengthAt
  <1>3. PICK cuts \in SUBSET (0 .. n) :
          /\ 0 \in cuts
          /\ \A b \in cuts : b < n => /\ b + 2 <= n
                                      /\ Legal(LengthAt(s, b))
                                      /\ b + LengthAt(s, b) \in cuts
    BY DEF Framed
  <1>4. Legal(len) /\ len \in cuts /\ len \in 1 .. n
    <2>1. Legal(len) /\ 0 + len \in cuts
      BY <1>1, <1>2, <1>3
    <2>2. QED BY <1>2, <1>3, <2>1, LengthAssumption DEF Legal
  <1>5. /\ t \in Seq(Byte) /\ Len(t) = n - len
        /\ \A i \in 1 .. n - len : t[i] = s[len + i]
    <2>1. \A i \in len + 1 .. n : s[i] \in Byte
      BY <1>4, ElementOfSeq
    <2>2. t = SubSeq(s, len + 1, n)
      <3>1. ~(Len(s) < 2)
        BY <1>1
      <3>2. QED BY <3>1 DEF WithoutFirst
    <2>3. QED BY <1>1, <1>4, <2>1, <2>2, SubSeqProperties
  <1> DEFINE fewer == {c \in 0 .. n - len : c + len \in cuts}
  <1> HIDE DEF n, t, len
  <1>6. fewer \in SUBSET (0 .. Len(t)) /\ 0 \in fewer
    BY <1>1, <1>4, <1>5
  <1>7. ASSUME NEW b \in fewer, b < Len(t)
        PROVE  b + 2 <= Len(t) /\ Legal(LengthAt(t, b)) /\ b + LengthAt(t, b) \in fewer
    <2>1. b \in Nat /\ b + len \in cuts /\ b + len < n
      BY <1>1, <1>4, <1>5, <1>7
    <2>2. /\ b + len + 2 <= n
          /\ Legal(LengthAt(s, b + len))
          /\ b + len + LengthAt(s, b + len) \in cuts
      BY <1>3, <2>1
    <2>3. b + 1 \in 1 .. n - len /\ b + 2 \in 1 .. n - len
      BY <1>1, <1>4, <2>1, <2>2
    <2>4. t[b + 1] = s[len + (b + 1)] /\ t[b + 2] = s[len + (b + 2)]
      BY <1>5, <2>3
    <2>5. len + (b + 1) = b + len + 1 /\ len + (b + 2) = b + len + 2
      BY <1>4, <2>1
    <2>6. LengthAt(t, b) = LengthAt(s, b + len)
      BY <2>4, <2>5 DEF LengthAt
    <2>7. LengthAt(t, b) \in Int
      <3>1. t[b + 1] \in Int /\ t[b + 2] \in Int
        BY <1>5, <2>3, ElementOfSeq, LengthAssumption
      <3>2. QED BY <3>1, LengthAssumption DEF LengthAt
    <2>8. LengthAt(t, b) > 0
      BY <2>2, <2>6, <2>7, LengthAssumption DEF Legal
    <2>9. b + LengthAt(t, b) \in fewer
      BY <1>1, <1>3, <1>4, <2>1, <2>2, <2>6, <2>7, <2>8
    <2>10. QED BY <1>1, <1>4, <1>5, <2>1, <2>2, <2>6, <2>9
  <1>8. Framed(t)
    BY <1>6, <1>7 DEF Framed
  <1>9. QED BY <1>1, <1>4, <1>8 DEF n, t, len

(* Both bytes of a length are read in region A: it is the first of what is  *)
(* left.                                                                    *)
LEMMA HeaderIsFirst ==
  ASSUME NEW b, WellFormed(b), Content(b) \in Seq(Byte), Size(b) >= 2, ~HeaderStraddles(b),
         NEW len \in HeaderLengths(b)
  PROVE  len = LengthOf(Content(b))
  <1>1. /\ b.aSize \in Nat /\ b.bSize \in Nat /\ Size(b) = b.aSize + b.bSize
        /\ b.aPtr \in Nat /\ b.aSize > 0 /\ b.aPtr + b.aSize <= Capacity
    BY CapacityAssumption DEF WellFormed, BufferType, Size, Offset, AFree, NULL
  <1>2. ReadPtr(b) = b.aPtr /\ b.aSize >= 2
    BY <1>1 DEF ReadPtr, HeaderStraddles, Contiguous
  <1>3. 1 \in 1 .. Size(b) /\ 2 \in 1 .. Size(b) /\ Len(Content(b)) = Size(b)
    BY <1>1, <1>2, ContentIsSeq
  <1>4. Content(b)[1] = b.mem[b.aPtr + 1 - 1] /\ Content(b)[2] = b.mem[b.aPtr + 2 - 1]
    BY <1>1, <1>2, <1>3, ContentIsSeq
  <1>5. b.aPtr + 1 - 1 = b.aPtr /\ b.aPtr + 2 - 1 = b.aPtr + 1 /\ b.aPtr + 1 < Capacity
    BY <1>1, <1>2, CapacityAssumption
  <1>6. b.mem[b.aPtr + 1] \in Byte
    BY <1>3, <1>4, <1>5, ElementOfSeq
  <1>7. SecondByte(b) = {Content(b)[2]}
    BY <1>2, <1>4, <1>5, <1>6, UninitAssumption DEF SecondByte
  <1>8. QED BY <1>2, <1>4, <1>5, <1>7 DEF HeaderLengths, LengthOf

(* What is left of the buffer and what is still to come, without the first  *)
(* packet.                                                                  *)
LEMMA RestOfStream ==
  ASSUME NEW c \in Seq(Byte), NEW w \in Seq(Byte), Len(c) >= 2,
         LengthOf(c) \in Nat, LengthOf(c) <= Len(c)
  PROVE  SubSeq(c, LengthOf(c) + 1, Len(c)) \o w = WithoutFirst(c \o w)
  <1> DEFINE s == c \o w
             k == LengthOf(c)
             l == SubSeq(c, k + 1, Len(c))
             r == SubSeq(s, k + 1, Len(s))
  <1>1. /\ Len(c) \in Nat /\ Len(w) \in Nat
        /\ s \in Seq(Byte) /\ Len(s) = Len(c) + Len(w)
        /\ \A i \in 1 .. Len(c) + Len(w) : s[i] = IF i <= Len(c) THEN c[i] ELSE w[i - Len(c)]
    BY ConcatProperties
  <1>2. LengthOf(s) = k
    BY <1>1 DEF LengthOf
  <1>3. r = WithoutFirst(s)
    <2>1. ~(Len(s) < 2)
      BY <1>1
    <2>2. WithoutFirst(s) = SubSeq(s, LengthOf(s) + 1, Len(s))
      BY <2>1, Zenon DEF WithoutFirst
    <2>3. QED BY <1>2, <2>2, Zenon
  <1> HIDE DEF k, s
  <1>4. k \in Nat /\ k <= Len(c)
    BY DEF k
  <1>5. /\ l \in Seq(Byte) /\ Len(l) = Len(c) - k
        /\ \A i \in 1 .. Len(c) - k : l[i] = c[k + i]
    <2>1. \A i \in k + 1 .. Len(c) : c[i] \in Byte
      BY <1>4, ElementOfSeq
    <2>2. QED BY <1>1, <1>4, <2>1, SubSeqProperties
  <1>6. /\ r \in Seq(Byte) /\ Len(r) = Len(s) - k
        /\ \A i \in 1 .. Len(s) - k : r[i] = s[k + i]
    <2>1. \A i \in k + 1 .. Len(s) : s[i] \in Byte
      BY <1>1, <1>4, ElementOfSeq
    <2>2. QED BY <1>1, <1>4, <2>1, SubSeqProperties
  <1> HIDE DEF l, r
  <1>7. /\ l \o w \in Seq(Byte) /\ Len(l \o w) = Len(l) + Len(w)
        /\ \A i \in 1 .. Len(l) + Len(w) :
             (l \o w)[i] = IF i <= Len(l) THEN l[i] ELSE w[i - Len(l)]
    BY <1>5, ConcatProperties
  <1>8. Len(l \o w) = Len(r)
    BY <1>1, <1>4, <1>5, <1>6, <1>7
  <1>9. ASSUME NEW i \in 1 .. Len(l \o w) PROVE (l \o w)[i] = r[i]
    <2>1. /\ i \in 1 .. Len(l) + Len(w) /\ i \in 1 .. Len(s) - k
          /\ k + i \in 1 .. Len(c) + Len(w)
      BY <1>1, <1>4, <1>5, <1>7
    <2>2. r[i] = IF k + i <= Len(c) THEN c[k + i] ELSE w[(k + i) - Len(c)]
      BY <1>1, <1>6, <2>1
    <2>3. CASE i <= Len(l)
      <3>1. i \in 1 .. Len(c) - k /\ k + i <= Len(c)
        BY <1>1, <1>4, <1>5, <2>1, <2>3
      <3>2. QED BY <1>5, <1>7, <2>1, <2>2, <2>3, <3>1
    <2>4. CASE ~(i <= Len(l))
      <3>1. ~(k + i <= Len(c)) /\ (k + i) - Len(c) = i - Len(l)
        BY <1>1, <1>4, <1>5, <2>1, <2>4
      <3>2. (l \o w)[i] = w[i - Len(l)]
        BY <1>7, <2>1, <2>4
      <3>3. QED BY <2>2, <3>1, <3>2
    <2>5. QED BY <2>3, <2>4
  <1>10. l \o w = r
    BY <1>6, <1>7, <1>8, <1>9, SeqEqual
  <1>11. QED BY <1>3, <1>10 DEF l, s, k

LEMMA BytesOfStream ==
  ASSUME NEW s \in Seq(Byte)
  PROVE  WithoutFirst(s) \in Seq(Byte)
  <1>1. CASE Len(s) < 2
    BY <1>1 DEF WithoutFirst
  <1>2. CASE ~(Len(s) < 2)
    <2>1. Len(s) \in Nat /\ s[1] \in Nat /\ s[2] \in Nat
      BY <1>2, ElementOfSeq, LengthAssumption
    <2>2. LengthOf(s) \in Nat
      BY <2>1, LengthAssumption DEF LengthOf
    <2>3. \A i \in LengthOf(s) + 1 .. Len(s) : s[i] \in Byte
      BY <2>1, <2>2, ElementOfSeq
    <2>4. SubSeq(s, LengthOf(s) + 1, Len(s)) \in Seq(Byte)
      BY <2>1, <2>2, <2>3, SubSeqProperties
    <2>5. QED BY <1>2, <2>4 DEF WithoutFirst
  <1>3. QED BY <1>1, <1>2

LEMMA FramesOnRead ==
  ASSUME FrameInv, ReaderInv', OnRead
  PROVE  FrameInv'
  <1> DEFINE c == Content(buf)
  <1>1. PICK len \in HeaderLengths(buf) :
          IllegalLength(len) \/ Incomplete(len) \/ HandOver(len) \/ HandlerRefuses(len)
    BY DEF OnRead
  <1>2. /\ Size(buf) >= MinLen /\ nSent' = nSent /\ sentBad' = sentBad /\ wire' = wire
        /\ straddled' = (straddled \/ HeaderStraddles(buf))
    BY <1>1 DEF OnRead, IllegalLength, Incomplete, HandOver, HandlerRefuses
  <1>3. /\ WellFormed(buf) /\ c \in Seq(Byte) /\ wire \in Seq(Byte)
        /\ Size(buf) \in Nat /\ Size(buf) >= 2 /\ Len(c) = Size(buf)
    BY <1>2, ContentIsSeq, LengthAssumption DEF FrameInv, ReaderInv
  <1>4. len \in Int
    BY <1>3, HeaderIsNumber
  <1>5. straddled' \in BOOLEAN /\ stream' \in Seq(Byte)
        /\ status' \in {"open", "gone", "illegal", "refused", "full"}
    BY <1>1, <1>2, BytesOfStream
       DEF FrameInv, IllegalLength, Incomplete, HandOver, HandlerRefuses
  <1>6. status = "open" /\ pc = "OnRead"
    BY DEF OnRead, FrameInv
  <1>7. ASSUME ~straddled'
        PROVE  /\ Aligned /\ c \o wire = stream
               /\ len = LengthOf(c) /\ LengthOf(stream) = len /\ Len(stream) >= 2
    <2>1. ~straddled /\ ~HeaderStraddles(buf)
      BY <1>2, <1>7
    <2>2. Aligned /\ c \o wire = stream
      BY <1>6, <2>1 DEF FrameInv, Aligned
    <2>3. len = LengthOf(c)
      BY <1>3, <2>1, HeaderIsFirst
    <2>4. /\ Len(c \o wire) = Len(c) + Len(wire) /\ Len(wire) \in Nat
          /\ (c \o wire)[1] = c[1] /\ (c \o wire)[2] = c[2]
      <3>1. Len(wire) \in Nat /\ 1 <= Len(c) /\ 2 <= Len(c)
        BY <1>3
      <3>2. /\ Len(c \o wire) = Len(c) + Len(wire)
            /\ \A i \in 1 .. Len(c) + Len(wire) :
                 (c \o wire)[i] = IF i <= Len(c) THEN c[i] ELSE wire[i - Len(c)]
        BY <1>3, ConcatProperties
      <3>3. 1 \in 1 .. Len(c) + Len(wire) /\ 2 \in 1 .. Len(c) + Len(wire)
        BY <1>3, <3>1
      <3>4. QED BY <3>1, <3>2, <3>3
    <2>5. QED BY <1>3, <2>2, <2>3, <2>4 DEF LengthOf
  <1>8. ASSUME ~straddled', ~sentBad PROVE Legal(len) /\ Framed(WithoutFirst(stream))
    <2>1. Framed(stream) /\ stream \in Seq(Byte) /\ LengthOf(stream) = len /\ Len(stream) >= 2
      BY <1>7, <1>8 DEF FrameInv
    <2>2. QED BY <2>1, FramedFirst
  <1> HIDE DEF c
  <1>9. CASE IllegalLength(len)
    <2>1. ~Legal(len) /\ status' = "illegal" /\ pc' = "epoll_wait"
      BY <1>9 DEF IllegalLength
    <2>2. sentBad \/ straddled'
      BY <1>5, <1>8, <2>1 DEF FrameInv
    <2>3. QED BY <1>2, <1>5, <2>1, <2>2 DEF FrameInv, Aligned
  <1>10. CASE Incomplete(len)
    <2>1. UNCHANGED << buf, stream, status >> /\ pc' = "epoll_wait"
      BY <1>10 DEF Incomplete
    <2>2. Aligned' => Aligned
      BY <1>2, <2>1 DEF Aligned
    <2>3. QED BY <1>2, <1>5, <1>6, <2>1, <2>2 DEF FrameInv, Aligned
  <1>11. CASE HandOver(len)
    <2>1. /\ buf' = Take(buf, len) /\ stream' = WithoutFirst(stream)
          /\ status' = status /\ Legal(len) /\ Size(buf) >= len
      BY <1>11 DEF HandOver
    <2>2. len \in Nat /\ len <= Size(buf)
      BY <1>4, <2>1, LengthAssumption DEF Legal
    <2>3. ASSUME ~straddled' PROVE Content(buf') \o wire' = stream'
      <3>1. Content(buf') = SubSeq(c, len + 1, Size(buf))
        BY <1>3, <2>1, <2>2, TakeContent DEF c
      <3>2. c \o wire = stream /\ len = LengthOf(c)
        BY <1>7, <2>3
      <3>3. SubSeq(c, LengthOf(c) + 1, Len(c)) \o wire = WithoutFirst(c \o wire)
        BY <1>3, <2>2, <3>2, RestOfStream
      <3>4. QED BY <1>2, <1>3, <2>1, <3>1, <3>2, <3>3
    <2>4. Aligned' => ~straddled'
      BY DEF Aligned
    <2>5. QED BY <1>2, <1>5, <1>6, <1>8, <2>1, <2>3, <2>4 DEF FrameInv
  <1>12. CASE HandlerRefuses(len)
    <2>1. status' = "refused" /\ pc' = "epoll_wait"
      BY <1>12 DEF HandlerRefuses
    <2>2. QED BY <1>2, <1>5, <2>1 DEF FrameInv, Aligned
  <1>13. QED BY <1>1, <1>9, <1>10, <1>11, <1>12

LEMMA Regrouped ==
  ASSUME NEW a \in Seq(Byte), NEW b \in Seq(Byte), NEW c \in Seq(Byte)
  PROVE  (a \o b) \o c = a \o (b \o c)
  BY ConcatAssociative

LEMMA FramesSent ==
  ASSUME FrameInv, ReaderInv', NEW p \in Chunk, ClientSends(p)
  PROVE  FrameInv'
  <1>1. /\ nSent < MaxPackets /\ nSent' = nSent + 1
        /\ wire' = wire \o p /\ stream' = stream \o p
        /\ sentBad' = (sentBad \/ ~Legal(Len(p)))
        /\ UNCHANGED << buf, pc, status, straddled >>
    BY DEF ClientSends
  <1>2. /\ Content(buf) \in Seq(Byte) /\ wire \in Seq(Byte) /\ stream \in Seq(Byte)
        /\ p \in Seq(Byte)
    BY ChunkAssumption DEF FrameInv, ReaderInv
  <1>3. stream' \in Seq(Byte)
    BY <1>1, <1>2
  <1>4. nSent' \in 0 .. MaxPackets
    BY <1>1, LengthAssumption DEF FrameInv
  <1>5. sentBad' \in BOOLEAN
    BY <1>1 DEF FrameInv
  <1>6. (Content(buf) \o wire) \o p = Content(buf) \o (wire \o p)
    BY <1>2, Regrouped, Zenon
  <1>7. Aligned' <=> Aligned
    BY <1>1 DEF Aligned
  <1>8. Aligned' /\ ~sentBad' => Framed(stream')
    BY <1>1, <1>2, <1>7, FramedAppend DEF FrameInv
  <1>9. Aligned' => Content(buf') \o wire' = stream'
    BY <1>1, <1>6, <1>7 DEF FrameInv
  <1>10. status' = "illegal" => sentBad' \/ straddled'
    BY <1>1 DEF FrameInv
  <1>11. QED BY <1>1, <1>3, <1>4, <1>5, <1>8, <1>9, <1>10 DEF FrameInv

LEMMA FramesReceived ==
  ASSUME FrameInv, ReaderInv', NEW n \in 1 .. Capacity, ReadCallbackReceives(n)
  PROVE  FrameInv'
  <1> DEFINE s == SubSeq(wire, 1, n)
             rest == SubSeq(wire, n + 1, Len(wire))
             r == Reserved(buf)
  <1>1. /\ n \in Nat /\ n > 0 /\ n <= Len(wire) /\ n <= Room(r) /\ Len(wire) \in Nat
        /\ buf' = Put(r, s) /\ wire' = rest /\ pc' = "OnRead"
        /\ status = "open"
        /\ UNCHANGED << stream, nSent, sentBad, status, straddled >>
    BY CapacityAssumption DEF ReadCallbackReceives, GetSpace, FrameInv, ReaderInv
  <1>2. /\ WellFormed(buf) /\ wire \in Seq(Byte) /\ Content(buf) \in Seq(Byte)
    BY DEF FrameInv, ReaderInv
  <1>3. /\ s \in Seq(Byte) /\ Len(s) = n /\ rest \in Seq(Byte)
    <2>1. \A i \in 1 .. Len(wire) : wire[i] \in Byte
      BY <1>2, ElementOfSeq
    <2>2. (\A i \in 1 .. n : wire[i] \in Byte) /\ \A i \in n + 1 .. Len(wire) : wire[i] \in Byte
      BY <1>1, <2>1
    <2>3. QED BY <1>1, <2>2, SubSeqProperties
  <1>4. s \o rest = wire
    <2>1. SubSeq(wire, 1, n) \o SubSeq(wire, n + 1, Len(wire)) = SubSeq(wire, 1, Len(wire))
      BY <1>1, <1>2, ConcatAdjacentSubSeq
    <2>2. QED BY <1>2, <2>1, SubSeqFull
  <1>5. Content(buf') = Content(buf) \o s
    <2>1. WellFormed(r) /\ Content(r) = Content(buf)
      BY <1>2, ReservedWellFormed, ReservedContent
    <2>2. QED BY <1>1, <1>3, <2>1, PutContent
  <1> HIDE DEF s, rest, r
  <1>6. Content(buf') \o wire' = Content(buf) \o wire
    <2>1. (Content(buf) \o s) \o rest = Content(buf) \o (s \o rest)
      BY <1>2, <1>3, Regrouped, Zenon
    <2>2. wire' = rest
      BY <1>1
    <2>3. Content(buf') \o wire' = (Content(buf) \o s) \o rest
      BY <1>5, <2>2, Zenon
    <2>4. QED BY <1>4, <2>1, <2>3, Zenon
  <1>7. Aligned' <=> Aligned
    BY <1>1 DEF Aligned
  <1>8. QED BY <1>1, <1>6, <1>7 DEF FrameInv

LEMMA FramesInductive == ReaderSpec => []FrameInv
  <1>1. ReaderInit /\ ReaderInv => FrameInv
    <2> SUFFICES ASSUME ReaderInit, ReaderInv PROVE FrameInv
      OBVIOUS
    <2>1. WellFormed(buf) /\ Size(buf) = 0 /\ wire = << >> /\ stream = << >> /\ nSent = 0
          /\ sentBad = FALSE /\ straddled = FALSE /\ status = "open" /\ pc = "epoll_wait"
      BY AllocatedWellFormed DEF ReaderInit
    <2>2. Content(buf) \in Seq(Byte) /\ Len(Content(buf)) = 0
      BY <2>1, ContentIsSeq DEF ReaderInv
    <2>3. Content(buf) \o wire = stream
      <3>1. Content(buf) = << >>
        BY <2>2, EmptySeq
      <3>2. QED BY <2>1, <3>1
    <2>4. Framed(stream)
      <3> DEFINE cuts == {0}
      <3>1. Len(stream) = 0
        BY <2>1
      <3>2. cuts \in SUBSET (0 .. Len(stream)) /\ 0 \in cuts
        BY <3>1
      <3>3. \A b \in cuts : ~(b < Len(stream))
        BY <3>1
      <3> HIDE DEF cuts
      <3>4. QED BY <3>2, <3>3 DEF Framed
    <2>5. stream \in Seq(Byte) /\ nSent \in 0 .. MaxPackets
      BY <2>1, LengthAssumption
    <2>6. QED BY <2>1, <2>3, <2>4, <2>5 DEF FrameInv
  <1>2. ASSUME FrameInv, [ReaderNext]_readerVars, ReaderInv' PROVE FrameInv'
    <2> USE <1>2
    <2>1. CASE ReadCallbackFails
      <3>1. /\ Content(buf') = Content(buf) /\ pc = "epoll_wait"
            /\ status' \in {"full", "gone"} /\ status = "open"
            /\ UNCHANGED << wire, stream, nSent, sentBad, pc, straddled >>
        BY <2>1, ReservedContent DEF ReadCallbackFails, FrameInv, ReaderInv
      <3>2. Aligned' => Aligned
        BY <3>1 DEF Aligned
      <3>3. QED BY <3>1, <3>2 DEF FrameInv
    <2>2. CASE TooShort
      <3>1. pc' = "epoll_wait" /\ UNCHANGED << buf, wire, stream, nSent, sentBad, status, straddled >>
        BY <2>2 DEF TooShort
      <3>2. Aligned' <=> Aligned
        BY <3>1 DEF Aligned
      <3>3. QED BY <3>1, <3>2 DEF FrameInv
    <2>3. CASE UNCHANGED readerVars
      BY <2>3 DEF readerVars, FrameInv, Aligned
    <2>4. QED
      BY <2>1, <2>2, <2>3, FramesSent, FramesReceived, FramesOnRead DEF ReaderNext
  <1>3. QED BY <1>1, <1>2, ReaderInductive, PTL DEF ReaderSpec

(* OnRead cuts the stream where the client cut it, however the kernel cuts  *)
(* it and wherever the regions of the buffer lie, until a length lies in    *)
(* both of them.                                                            *)
THEOREM FramesStayAligned == ReaderSpec => []FramesAligned
  <1>1. FrameInv => FramesAligned
    BY DEF FrameInv, Aligned, FramesAligned
  <1>2. QED BY <1>1, FramesInductive, PTL

(* A client that sends legal packets only is not dropped for a length,      *)
(* until one lies in both regions.                                          *)
THEOREM OnlyIllegalDropped == ReaderSpec => []OnlyIllegalDroppedUnlessStraddled
  <1>1. FrameInv => OnlyIllegalDroppedUnlessStraddled
    BY DEF FrameInv, OnlyIllegalDroppedUnlessStraddled
  <1>2. QED BY <1>1, FramesInductive, PTL

(* The state is what the variables say it is. *)
THEOREM ReaderTypeCorrect == ReaderSpec => []ReaderTypeOK
  <1>1. FrameInv => ReaderTypeOK
    BY DEF FrameInv, ReaderInv, ReaderTypeOK, WellFormed
  <1>2. QED BY <1>1, FramesInductive, PTL

-------------------------------------------------------------------------------
(***************************************************************************)
(* EpollSocket.                                                            *)
(***************************************************************************)

(* What the variables range over, the kernel's flags apart. *)
Flags == edge \in BOOLEAN /\ ready \in BOOLEAN /\ noSpace \in BOOLEAN
Typed ==
  /\ WellFormed(buf)
  /\ sender \in {"idle", "BurstPush", "PostEvent", "BurstEnd"}
  /\ worker \in {"epoll_wait", "IN", "changeToWrite", "PostEvent", "OUT"}
  /\ writeMutex = (IF sender = "idle" THEN "free" ELSE "sender")
  /\ sendLock \in {0, 1}
  /\ mode \in {"IN", "OUT"}
  /\ kOut \in 0 .. KernelOut /\ kIn \in 0 .. KernelIn
  /\ peer \in {"open", "closed", "reset"} /\ connected \in BOOLEAN

(* Inside Send the send lock and the registration lag behind the buffer:    *)
(* the bytes are there before the lock, the lock before the registration.   *)
(* Only the worker, which reads the buffer without the mutex, may register  *)
(* for output earlier, before the sender has taken the lock.                *)
LockFollowsBytes ==
  /\ sender # "BurstPush" => sendLock = (IF Size(buf) > 0 THEN 1 ELSE 0)
  /\ sender \in {"BurstPush", "PostEvent"} => Size(buf) > 0
ModeFollowsLock ==
  connected =>
    /\ sendLock = 1 /\ sender # "PostEvent" => mode = "OUT"
    /\ sendLock = 0 /\ sender # "BurstPush" => mode = "IN"

(* What the worker knows where it stands. *)
WorkerKnows ==
  /\ worker \in {"IN", "OUT", "PostEvent"} => connected
  /\ worker = "IN" => kIn > 0 \/ peer # "open"
  /\ worker = "OUT" => mode = "OUT" /\ kOut < KernelOut
  /\ worker = "PostEvent" => Size(buf) > 0 /\ (sendLock = 1 \/ sender = "BurstPush")

EpollInv ==
  /\ Typed
  /\ LockFollowsBytes /\ ModeFollowsLock
  /\ WorkerKnows
  /\ OnlyLostPeersDropped

-------------------------------------------------------------------------------

(* One send() takes no more than there is, and takes something when the     *)
(* kernel has room.                                                         *)
LEMMA SentBounds ==
  ASSUME Typed
  PROVE  /\ Sent \in Nat /\ Sent <= Size(buf) /\ Sent <= KernelOut - kOut
         /\ Contiguous(buf) \in Nat
         /\ Size(buf) \in Nat
  BY KernelAssumption
     DEF Typed, Sent, Minimum, Contiguous, Size, WellFormed, BufferType

(* What Send does to the buffer. *)
LEMMA BurstBuffer ==
  ASSUME WellFormed(buf), NEW s \in Chunk
  PROVE  /\ WellFormed(Reserved(buf)) /\ Size(Reserved(buf)) = Size(buf)
         /\ Room(Reserved(buf)) >= Len(s) =>
              /\ WellFormed(Put(Reserved(buf), s))
              /\ Size(Put(Reserved(buf), s)) > 0
  <1>1. WellFormed(Reserved(buf)) /\ Size(Reserved(buf)) = Size(buf)
    BY ReservedWellFormed
  <1>2. s \in Seq(Byte) /\ Len(s) > 0 /\ Len(s) \in Nat
    BY ChunkAssumption
  <1>3. Room(Reserved(buf)) \in Int /\ Size(buf) \in Nat
    BY <1>1, CapacityAssumption
       DEF Room, AFree, BFree, WellFormed, BufferType, NULL, Size
  <1>4. ASSUME Room(Reserved(buf)) >= Len(s)
        PROVE  /\ WellFormed(Put(Reserved(buf), s))
               /\ Size(Put(Reserved(buf), s)) > 0
    <2>1. Len(s) <= Room(Reserved(buf))
      BY <1>2, <1>3, <1>4
    <2>2. WellFormed(Put(Reserved(buf), s)) /\ Size(Put(Reserved(buf), s)) = Size(buf) + Len(s)
      BY <1>1, <1>2, <2>1, PutWellFormed
    <2>3. QED BY <1>2, <1>3, <2>2
  <1>5. QED BY <1>1, <1>4

-------------------------------------------------------------------------------

(* PostEvent, for a descriptor that is registered and for one that is not.  *)
LEMMA PostEventModes ==
  ASSUME NEW event, PostEvent(event)
  PROVE  /\ connected => mode' = event
         /\ ~connected => mode' = mode
  BY Zenon DEF PostEvent

LEMMA PostEventFlags ==
  ASSUME Flags, NEW event, PostEvent(event)
  PROVE  edge' \in BOOLEAN /\ ready' \in BOOLEAN
  <1>1. Readable \in BOOLEAN /\ Writable \in BOOLEAN
    BY SMT DEF Readable, Writable
  <1>2. CASE connected /\ event = "IN"
    BY <1>1, <1>2, Zenon DEF PostEvent
  <1>3. CASE connected /\ event # "IN"
    BY <1>1, <1>3, Zenon DEF PostEvent
  <1>4. CASE ~connected
    BY <1>4, Zenon DEF PostEvent, Flags
  <1>5. QED BY <1>2, <1>3, <1>4, Zenon

(* The flags are Booleans, whatever else happens. *)
LEMMA FlagsTyped == EpollSpec => []Flags
  <1>1. EpollInit => Flags
    BY DEF EpollInit, Flags
  <1>2. ASSUME Flags, [EpollNext]_epollVars PROVE Flags'
    <2> USE <1>2 DEF Flags
    <2>1. ASSUME NEW s \in Chunk, BurstSend(s) PROVE Flags'
      BY <2>1, Zenon DEF BurstSend, kernelVars
    <2>2. CASE Sending
      <3>1. CASE SenderPostEvent
        BY <3>1, PostEventFlags, Zenon DEF SenderPostEvent
      <3>2. CASE BurstPush \/ BurstEnd
        BY <3>2, Zenon DEF BurstPush, BurstEnd, kernelVars
      <3>3. QED BY <2>2, <3>1, <3>2 DEF Sending
    <2>3. CASE Worker
      <3>1. WriteBytes(Sent) => noSpace' \in BOOLEAN
        BY Zenon DEF WriteBytes
      <3>2. CASE WriteCallback
        <4>1. CASE DropOnError \/ KeepWriting
          BY <3>1, <4>1, Zenon DEF DropOnError, KeepWriting
        <4>2. CASE BackToInput
          BY <3>1, <4>2, PostEventFlags, Zenon DEF BackToInput
        <4>3. QED BY <3>2, <4>1, <4>2, Zenon DEF WriteCallback
      <3>3. CASE WorkerPostEvent
        BY <3>3, PostEventFlags, Zenon DEF WorkerPostEvent
      <3>4. CASE EpollWait \/ EpollHup \/ ChangeToWrite
        BY <3>4, Zenon DEF EpollWait, EpollHup, ChangeToWrite, kernelVars
      <3>5. CASE \E space \in RecvSpace : ReadCallback(space)
        BY <3>5, Zenon DEF ReadCallback
      <3>6. QED BY <2>3, <3>2, <3>3, <3>4, <3>5, Zenon DEF Worker
    <2>4. CASE PeerSends \/ PeerReceives \/ PeerCloses
      <3>1. CASE PeerSends \/ PeerCloses
        BY <3>1, Zenon DEF PeerSends, PeerCloses, Edge
      <3>2. CASE PeerReceives /\ noSpace
        BY <3>2, Zenon DEF PeerReceives, Edge
      <3>3. CASE PeerReceives /\ ~noSpace
        BY <3>3, Zenon DEF PeerReceives
      <3>4. QED BY <2>4, <3>1, <3>2, <3>3, Zenon
    <2>5. CASE UNCHANGED epollVars
      BY <2>5, Zenon DEF epollVars, kernelVars
    <2>6. QED BY <2>1, <2>2, <2>3, <2>4, <2>5, Zenon DEF EpollNext
  <1>3. QED BY <1>1, <1>2, PTL DEF EpollSpec

LEMMA EpollInductive == EpollSpec => []EpollInv
  <1>1. EpollInit => EpollInv
    BY AllocatedWellFormed, KernelAssumption, SMT
       DEF EpollInit, EpollInv, Typed, LockFollowsBytes, ModeFollowsLock, WorkerKnows,
           OnlyLostPeersDropped
  <1>2. EpollInv /\ [EpollNext]_epollVars => EpollInv'
    <2> SUFFICES ASSUME EpollInv, [EpollNext]_epollVars PROVE EpollInv'
      OBVIOUS
    <2> USE DEF EpollInv, LockFollowsBytes, ModeFollowsLock, WorkerKnows, OnlyLostPeersDropped
    <2>1. ASSUME NEW s \in Chunk, BurstSend(s) PROVE EpollInv'
      <3> DEFINE r == Reserved(buf)
      <3>1. /\ WellFormed(r) /\ Size(r) = Size(buf)
            /\ Room(r) >= Len(s) => WellFormed(Put(r, s)) /\ Size(Put(r, s)) > 0
        BY BurstBuffer DEF Typed
      <3>2. CASE Room(r) >= Len(s)
        <4>1. WellFormed(buf') /\ Size(buf') > 0 /\ sender' = "BurstPush" /\ writeMutex' = "sender"
          BY <2>1, <3>1, <3>2 DEF BurstSend
        <4>2. QED BY <2>1, <4>1 DEF BurstSend, Typed, kernelVars
      <3>3. CASE ~(Room(r) >= Len(s))
        <4>1. WellFormed(buf') /\ Size(buf') = Size(buf) /\ UNCHANGED << sender, writeMutex >>
          BY <2>1, <3>1, <3>3 DEF BurstSend
        <4>2. QED BY <2>1, <4>1 DEF BurstSend, Typed, kernelVars
      <3>4. QED BY <3>2, <3>3
    <2>2. CASE BurstPush
      BY <2>2 DEF BurstPush, Typed, kernelVars
    <2>3. CASE SenderPostEvent
      <3>1. /\ sender = "PostEvent" /\ sender' = "BurstEnd"
            /\ connected => mode' = "OUT"
            /\ ~connected => mode' = mode
            /\ UNCHANGED << buf, worker, writeMutex, sendLock, connected, kOut, kIn, peer >>
        BY <2>3, PostEventModes, Zenon DEF SenderPostEvent
      <3>2. QED BY <3>1 DEF Typed
    <2>4. CASE BurstEnd
      BY <2>4 DEF BurstEnd, Typed, kernelVars
    <2>5. CASE EpollWait
      BY <2>5 DEF EpollWait, Typed, kernelVars, Readable, Writable
    <2>6. CASE EpollHup
      BY <2>6 DEF EpollHup, Disconnect, Typed, kernelVars
    <2>7. ASSUME NEW space \in RecvSpace, ReadCallback(space) PROVE EpollInv'
      <3>1. /\ worker = "IN" /\ worker' = "changeToWrite"
            /\ UNCHANGED << buf, sender, writeMutex, sendLock, mode, kOut, peer >>
        BY <2>7 DEF ReadCallback
      <3>2. CASE kIn = 0 \/ peer = "reset"
        <4>1. connected' = FALSE /\ kIn' = kIn
          BY <2>7, <3>2, Zenon DEF ReadCallback, Disconnect
        <4>2. peer # "open"
          BY <3>1, <3>2 DEF Typed
        <4>3. Typed'
          BY <3>1, <4>1 DEF Typed
        <4>4. ~connected'
          BY <4>1
        <4>5. LockFollowsBytes' /\ ModeFollowsLock' /\ WorkerKnows' /\ OnlyLostPeersDropped'
          BY <3>1, <4>2, <4>4
        <4>6. QED BY <4>3, <4>5
      <3>3. CASE ~(kIn = 0 \/ peer = "reset")
        <4>1. connected' = connected /\ kIn' = kIn - Minimum(kIn, space)
          BY <2>7, <3>3 DEF ReadCallback
        <4>2. kIn' \in 0 .. KernelIn
          BY <4>1, KernelAssumption DEF Minimum, Typed
        <4>3. QED BY <3>1, <4>1, <4>2 DEF Typed
      <3>4. QED BY <3>2, <3>3
    <2>8. CASE ChangeToWrite
      BY <2>8 DEF ChangeToWrite, Typed, kernelVars
    <2>9. CASE WorkerPostEvent
      <3>1. /\ worker = "PostEvent" /\ worker' = "epoll_wait"
            /\ connected => mode' = "OUT"
            /\ ~connected => mode' = mode
            /\ UNCHANGED << buf, sender, writeMutex, sendLock, connected, kOut, kIn, peer >>
        BY <2>9, PostEventModes, Zenon DEF WorkerPostEvent
      <3>2. QED BY <3>1 DEF Typed
    <2>10. CASE WriteCallback
      <3>1. /\ worker = "OUT" /\ worker' = "epoll_wait" /\ sender = "idle"
            /\ UNCHANGED << sender, writeMutex, kIn, peer >>
            /\ mode = "OUT" /\ connected /\ sendLock = 1 /\ kOut < KernelOut
        BY <2>10 DEF WriteCallback, Typed
      <3>2. /\ Sent \in Nat /\ Sent <= Size(buf) /\ kOut + Sent \in 0 .. KernelOut
            /\ Size(buf) \in Nat
        BY SentBounds, KernelAssumption DEF Typed
      <3>3. WellFormed(Take(buf, Sent)) /\ Size(Take(buf, Sent)) \in Nat
        BY <3>2, TakeWellFormed DEF Typed
      <3>4. CASE DropOnError
        BY <3>1, <3>4 DEF DropOnError, SendFails, Disconnect, Writable, Typed
      <3>5. CASE KeepWriting
        BY <3>1, <3>2, <3>3, <3>5 DEF KeepWriting, WriteBytes, Typed
      <3>6. CASE BackToInput
        BY <3>1, <3>2, <3>3, <3>6
           DEF BackToInput, WriteBytes, PostEvent, Readable, Typed
      <3>7. QED BY <2>10, <3>4, <3>5, <3>6 DEF WriteCallback
    <2>11. CASE PeerSends
      BY <2>11, KernelAssumption DEF PeerSends, Edge, Typed
    <2>12. CASE PeerReceives
      BY <2>12, KernelAssumption DEF PeerReceives, Edge, Typed
    <2>13. CASE PeerCloses
      BY <2>13 DEF PeerCloses, Typed
    <2>14. CASE UNCHANGED epollVars
      BY <2>14 DEF epollVars, kernelVars, Typed
    <2>15. QED
      BY <2>1, <2>2, <2>3, <2>4, <2>5, <2>6, <2>7, <2>8, <2>9, <2>10, <2>11, <2>12, <2>13,
         <2>14
         DEF EpollNext, Sending, Worker
  <1>3. QED BY <1>1, <1>2, PTL DEF EpollSpec

-------------------------------------------------------------------------------

(* Every variable has its type, whatever the threads, the kernel and the    *)
(* peer do.                                                                 *)
THEOREM EpollTypeCorrect == EpollSpec => []EpollTypeOK
  <1>1. EpollInv /\ Flags => EpollTypeOK
    BY DEF EpollInv, Typed, Flags, EpollTypeOK, WellFormed
  <1>2. QED BY <1>1, EpollInductive, FlagsTyped, PTL

(* The send lock is taken exactly while bytes wait, and the descriptor is   *)
(* registered for output exactly while it is taken (AcquireSendLock in      *)
(* BurstPush against DecSendLock in SocketWorkerThread::run).               *)
THEOREM SendLockIsExact == EpollSpec => []SendLockExact
  <1>1. EpollInv => SendLockExact
    BY DEF EpollInv, Typed, LockFollowsBytes, ModeFollowsLock, SendLockExact
  <1>2. QED BY <1>1, EpollInductive, PTL

(* The worker disconnects nobody who is there: neither ReadCallback's       *)
(* "bytes <= 0" nor WriteCallback's "bytes_written < 0" is met by a queue   *)
(* that is merely empty or full.                                            *)
THEOREM NobodyDropped == EpollSpec => []OnlyLostPeersDropped
  <1>1. EpollInv => OnlyLostPeersDropped
    BY DEF EpollInv
  <1>2. QED BY <1>1, EpollInductive, PTL
===============================================================================

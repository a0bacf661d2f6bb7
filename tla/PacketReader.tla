----------------------------- MODULE PacketReader -----------------------------
(***************************************************************************)
(* The receiving half of a connection: the epoll worker's ReadCallback     *)
(* (src/Src/Shared/Network/SocketLinux.cpp) and BaseSocket::OnRead         *)
(* (src/Src/server/basesocket.cpp), which cuts the byte stream into        *)
(* packets.  buf is the socket's readBuffer.  A packet starts with its own *)
(* length, an unsigned short: a low byte and a high byte.                  *)
(*                                                                         *)
(* The worker holds m_readMutex from the recv to the end of OnRead, and no *)
(* other thread touches readBuffer, so that one round of OnRead's loop is  *)
(* one step here.                                                          *)
(***************************************************************************)
EXTENDS CircularBuffer

CONSTANTS
  Base,        (* values of a byte: 256                                     *)
  MinLen,      (* SOCKET_DATA_MIN_SIZE: 8, the header of a packet           *)
  MaxLen,      (* SOCKET_DATA_MAX_SIZE: 500                                 *)
  MaxPackets   (* bound: packets the client sends                           *)

(* The length a client wrote at the front of a byte string. *)
LengthOf(s) == s[1] + Base * s[2]

ASSUME LengthAssumption ==
  /\ Base \in Nat \ {0} /\ Byte = 0 .. Base - 1
  /\ MinLen \in Nat /\ MaxLen \in Nat /\ 2 <= MinLen /\ MinLen < MaxLen
  /\ MaxPackets \in Nat

(* Chunk holds the packets the client sends, legal or not. *)
ASSUME PacketAssumption == \A p \in Chunk : Len(p) >= 2 /\ LengthOf(p) = Len(p)

(* readBuffer has room for two packets of the largest size: 2000 >= 1000. *)
ASSUME ReadBufferAssumption == Capacity >= 2 * MaxLen

VARIABLES
  wire,       (* bytes sent and not received, in the kernel or before it   *)
  stream,     (* bytes sent and not handed over: cut as the client cut it  *)
  nSent,      (* packets sent                                              *)
  sentBad,    (* the client sent a length that is not legal                *)
  pc,         (* the worker: waiting in epoll_wait or inside OnRead        *)
  status,     (* open, or why the connection was dropped                   *)
  straddled   (* OnRead read a length of which region A had one byte       *)

readerVars == << buf, wire, stream, nSent, sentBad, pc, status, straddled >>

Legal(len) == len > MinLen /\ len <= MaxLen

(* A stream without its first packet. *)
WithoutFirst(s) ==
  IF Len(s) < 2 THEN << >> ELSE SubSeq(s, LengthOf(s) + 1, Len(s))

ReaderInit ==
  /\ buf = Allocated
  /\ wire = << >> /\ stream = << >>
  /\ nSent = 0 /\ sentBad = FALSE
  /\ pc = "epoll_wait" /\ status = "open" /\ straddled = FALSE

-------------------------------------------------------------------------------
(* The client. *)

ClientSends(p) ==
  /\ status # "gone" /\ nSent < MaxPackets
  /\ nSent' = nSent + 1
  /\ wire' = wire \o p
  /\ stream' = stream \o p
  /\ sentBad' = (sentBad \/ ~Legal(Len(p)))
  /\ UNCHANGED << buf, pc, status, straddled >>

-------------------------------------------------------------------------------
(* ReadCallback. *)

(* recv returns n > 0 bytes: as many as have arrived, at most the space. *)
ReadCallbackReceives(n) ==
  /\ pc = "epoll_wait" /\ status = "open"
  /\ n <= GetSpace(buf) /\ n <= Len(wire)
  /\ buf' = Put(Reserved(buf), SubSeq(wire, 1, n))
  /\ wire' = SubSeq(wire, n + 1, Len(wire))
  /\ pc' = "OnRead"
  /\ UNCHANGED << stream, nSent, sentBad, status, straddled >>

(* recv returns 0 or less, and the socket is disconnected: the peer has     *)
(* closed or reset the connection, or the space handed to recv was zero.    *)
ReadCallbackFails ==
  /\ pc = "epoll_wait" /\ status = "open"
  /\ buf' = Reserved(buf)
  /\ status' \in (IF GetSpace(buf) = 0 THEN {"full"} ELSE {"gone"})
  /\ UNCHANGED << wire, stream, nSent, sentBad, pc, straddled >>

-------------------------------------------------------------------------------
(* OnRead, one round of the loop. *)

(* What the two bytes read at GetBufferStart() may hold in the second one.  *)
(* With one byte in region A it is not the second byte of the stream, which *)
(* is the first of region B, but whatever lies behind A: a byte of an       *)
(* earlier packet, memory nobody wrote, or the byte after the block.        *)
SecondByte(b) ==
  LET at == ReadPtr(b) + 1 IN
  IF at < Capacity /\ b.mem[at] # Uninit THEN {b.mem[at]} ELSE Byte

HeaderStraddles(b) == Contiguous(b) = 1 /\ Size(b) > 1

HeaderLengths(b) == {b.mem[ReadPtr(b)] + Base * hi : hi \in SecondByte(b)}

(* The loop ends: less than a header is there. *)
TooShort ==
  /\ pc = "OnRead" /\ Size(buf) < MinLen
  /\ pc' = "epoll_wait"
  /\ UNCHANGED << buf, wire, stream, nSent, sentBad, status, straddled >>

(* A length that is not legal: everything is thrown away, the socket goes. *)
IllegalLengthFrom(len) ==  \* mutant: >= where the code says >
  /\ ~Legal(len) \/ len >= MaxLen
  /\ buf' = Take(buf, Size(buf))
  /\ status' = "illegal"
  /\ pc' = "epoll_wait"
  /\ UNCHANGED << wire, stream >>
IllegalLength(len) ==
  /\ ~Legal(len)
  /\ buf' = Take(buf, Size(buf))
  /\ status' = "illegal"
  /\ pc' = "epoll_wait"
  /\ UNCHANGED << wire, stream >>

(* The packet is not complete: wait for more. *)
Incomplete(len) ==
  /\ Legal(len) /\ Size(buf) < len
  /\ pc' = "epoll_wait"
  /\ UNCHANGED << buf, wire, stream, status >>

(* The packet is read and handed to handleMessage, which accepts it; the    *)
(* client's own cut of the stream moves on by one packet.                   *)
HandOverBody(len) ==  \* mutant: the length is taken not to count the header
  /\ Legal(len) /\ Size(buf) >= len
  /\ buf' = Take(buf, len - 2)
  /\ stream' = WithoutFirst(stream)
  /\ UNCHANGED << wire, pc, status >>
HandOver(len) ==
  /\ Legal(len) /\ Size(buf) >= len
  /\ buf' = Take(buf, len)
  /\ stream' = WithoutFirst(stream)
  /\ UNCHANGED << wire, pc, status >>

(* handleMessage says it was not right: as for a length that is not legal. *)
HandlerRefuses(len) ==
  /\ Legal(len) /\ Size(buf) >= len
  /\ buf' = Take(Take(buf, len), Size(Take(buf, len)))
  /\ status' = "refused"
  /\ pc' = "epoll_wait"
  /\ UNCHANGED << wire, stream >>

OnRead ==
  /\ pc = "OnRead" /\ Size(buf) >= MinLen
  /\ straddled' = (straddled \/ HeaderStraddles(buf))
  /\ \E len \in HeaderLengths(buf) :
       IllegalLength(len) \/ Incomplete(len) \/ HandOver(len) \/ HandlerRefuses(len)
  /\ UNCHANGED << nSent, sentBad >>

ReaderNext ==
  \/ \E p \in Chunk : ClientSends(p)
  \/ \E n \in 1 .. Capacity : ReadCallbackReceives(n)
  \/ ReadCallbackFails
  \/ TooShort
  \/ OnRead

ReaderSpec == ReaderInit /\ [][ReaderNext]_readerVars

-------------------------------------------------------------------------------
(* Properties. *)

ReaderTypeOK ==
  /\ buf \in BufferType
  /\ wire \in Seq(Byte) /\ stream \in Seq(Byte)
  /\ nSent \in 0 .. MaxPackets
  /\ pc \in {"epoll_wait", "OnRead"}
  /\ status \in {"open", "gone", "illegal", "refused", "full"}
  /\ sentBad \in BOOLEAN /\ straddled \in BOOLEAN

(* The reader never brings itself down: recv is always given room, so that  *)
(* the zero it returns means that the peer has closed.  OnRead leaves less  *)
(* than one packet behind, and the circular buffer then has room in one     *)
(* piece, wherever its regions lie.                                         *)
RoomToReceive == status # "full" /\ (pc = "epoll_wait" => GetSpace(buf) > 0)

(* The reader cuts the stream where the client cut it: the bytes it holds   *)
(* and those still to come are the client's packets not handed over.  It    *)
(* holds as long as no length straddles the two regions.                    *)
FramesAligned ==
  status \in {"open", "gone"} /\ ~straddled => Content(buf) \o wire = stream

(* What the comment at the length check says it drops is a packet that is   *)
(* not legal: a client that sends legal packets only is never dropped for   *)
(* their length, unless one straddled the two regions.                      *)
OnlyIllegalDroppedUnlessStraddled == status = "illegal" => sentBad \/ straddled
===============================================================================

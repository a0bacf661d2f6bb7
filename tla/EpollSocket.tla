------------------------------ MODULE EpollSocket ------------------------------
(***************************************************************************)
(* The two directions of one connected Socket on Linux: the send thread in *)
(* Socket::Send, the one epoll worker thread in SocketWorkerThread::run    *)
(* with ReadCallback and WriteCallback, and the kernel between them and    *)
(* the peer (src/Src/Shared/Network/Socket.cpp, Socket.h, SocketLinux.cpp, *)
(* SocketMgrLinux.cpp).  buf is the socket's writeBuffer; of the bytes     *)
(* received only the number matters here (PacketReader has the rest).      *)
(*                                                                         *)
(* AddSocket registers the descriptor level-triggered for input.  Every    *)
(* PostEvent makes it edge-triggered, for input or for output, never for   *)
(* both: an event is then reported once per PostEvent or per change in the *)
(* kernel (ready), however much is left to do.                             *)
(***************************************************************************)
EXTENDS CircularBuffer

CONSTANTS
  KernelOut,   (* bytes the kernel's send queue takes                       *)
  KernelIn,    (* bytes the kernel's receive queue takes                    *)
  RecvSpace    (* what readBuffer.GetSpace() may return, never 0 (see
                  PacketReader): the most one recv takes                    *)

ASSUME KernelAssumption ==
  /\ KernelOut \in Nat \ {0} /\ KernelIn \in Nat \ {0}
  /\ RecvSpace \subseteq Nat \ {0} /\ RecvSpace # {}

VARIABLES
  sender,      (* the send thread: idle, or inside Send                     *)
  worker,      (* the epoll worker: where run() is                          *)
  writeMutex,  (* m_writeMutex: who holds it                                *)
  sendLock,    (* m_writeLock, an unsigned counter                          *)
  mode,        (* the event the descriptor is registered for                *)
  edge,        (* registered edge-triggered                                 *)
  ready,       (* an edge not yet reported by epoll_wait                    *)
  kOut, kIn,   (* bytes in the kernel's two queues                          *)
  noSpace,     (* the kernel owes a wake-up when its send queue drains      *)
  peer,        (* open, closed (it sent FIN) or reset                       *)
  connected    (* m_connected                                               *)

kernelVars == << kOut, kIn, noSpace, peer >>
epollVars == << buf, sender, worker, writeMutex, sendLock, mode, edge, ready, connected,
                kernelVars >>

EpollInit ==
  /\ buf = Allocated
  /\ sender = "idle" /\ worker = "epoll_wait"
  /\ writeMutex = "free" /\ sendLock = 0
  /\ mode = "IN" /\ edge = FALSE /\ ready = FALSE
  /\ kOut = 0 /\ kIn = 0 /\ noSpace = FALSE /\ peer = "open"
  /\ connected = TRUE

Writable == kOut < KernelOut
Readable == kIn > 0 \/ peer = "closed"

(* EPOLL_CTL_MOD: the kernel looks at once whether the event is there.  A   *)
(* look at a full send queue asks for a wake-up.  Disconnect has taken the  *)
(* descriptor out of the set: the call then fails and is only logged.       *)
PostEvent(event) ==
  IF connected
    THEN /\ mode' = event
         /\ edge' = TRUE
         /\ ready' = IF event = "IN" THEN Readable ELSE Writable
    ELSE UNCHANGED << mode, edge, ready >>

Disconnect == connected' = FALSE

-------------------------------------------------------------------------------
(* Socket::Send, in the send thread. *)

(* BurstBegin and BurstSend, with SockMgr::Send's IsConnected before them   *)
(* in the same step: a message that does not fit is dropped.                *)
BurstSend(s) ==
  /\ sender = "idle" /\ writeMutex = "free" /\ connected
  /\ LET r == Reserved(buf) IN
     IF Room(r) >= Len(s)
       THEN /\ buf' = Put(r, s)
            /\ sender' = "BurstPush" /\ writeMutex' = "sender"
       ELSE /\ buf' = r
            /\ UNCHANGED << sender, writeMutex >>
  /\ UNCHANGED << worker, sendLock, mode, edge, ready, connected, kernelVars >>

(* BurstPush: AcquireSendLock sets the counter to 1 and tells whether it    *)
(* was 0.                                                                   *)
BurstPush ==
  /\ sender = "BurstPush"
  /\ sendLock' = 1
  /\ sender' = IF sendLock = 0 THEN "PostEvent" ELSE "BurstEnd"
  /\ UNCHANGED << buf, worker, writeMutex, mode, edge, ready, connected, kernelVars >>

SenderPostEvent ==
  /\ sender = "PostEvent"
  /\ PostEvent("OUT")
  /\ noSpace' = (noSpace \/ ~Writable)
  /\ sender' = "BurstEnd"
  /\ UNCHANGED << buf, worker, writeMutex, sendLock, connected, kOut, kIn, peer >>

BurstEnd ==
  /\ sender = "BurstEnd"
  /\ sender' = "idle" /\ writeMutex' = "free"
  /\ UNCHANGED << buf, worker, sendLock, mode, edge, ready, connected, kernelVars >>

-------------------------------------------------------------------------------
(* SocketWorkerThread::run. *)

(* epoll_wait reports an event: for a level-triggered descriptor whenever   *)
(* it is there, for an edge-triggered one when an edge is due as well.      *)
EpollWait ==
  /\ worker = "epoll_wait" /\ connected /\ peer # "reset"
  /\ edge => ready
  /\ IF mode = "IN" THEN Readable ELSE Writable
  /\ worker' = mode
  /\ ready' = FALSE
  /\ UNCHANGED << buf, sender, writeMutex, sendLock, mode, edge, connected, kernelVars >>

(* EPOLLHUP and EPOLLERR are reported whatever the registration. *)
EpollHup ==
  /\ worker = "epoll_wait" /\ connected /\ peer = "reset"
  /\ Disconnect
  /\ UNCHANGED << buf, sender, worker, writeMutex, sendLock, mode, edge, ready, kernelVars >>

(* ReadCallback: one recv.  No byte, or an error, disconnects the socket. *)
ReadCallbackLoop(space) ==  \* mutant: recv until it returns no byte
  /\ worker = "IN"
  /\ kIn' = 0
  /\ Disconnect
  /\ worker' = "changeToWrite"
  /\ UNCHANGED << buf, sender, writeMutex, sendLock, mode, edge, ready, kOut, noSpace, peer >>
ReadCallback(space) ==
  /\ worker = "IN"
  /\ IF kIn = 0 \/ peer = "reset"
       THEN /\ Disconnect /\ UNCHANGED kIn
       ELSE /\ kIn' = kIn - Minimum(kIn, space)
            /\ UNCHANGED connected
  /\ worker' = "changeToWrite"
  /\ UNCHANGED << buf, sender, writeMutex, sendLock, mode, edge, ready, kOut, noSpace, peer >>

(* "changing to written state?", read without m_writeMutex. *)
ChangeToWrite ==
  /\ worker = "changeToWrite"
  /\ worker' = IF Size(buf) > 0 /\ sendLock = 0 /\ connected THEN "PostEvent" ELSE "epoll_wait"
  /\ UNCHANGED << buf, sender, writeMutex, sendLock, mode, edge, ready, connected, kernelVars >>

WorkerPostEvent ==
  /\ worker = "PostEvent"
  /\ PostEvent("OUT")
  /\ noSpace' = (noSpace \/ ~Writable)
  /\ worker' = "epoll_wait"
  /\ UNCHANGED << buf, sender, writeMutex, sendLock, connected, kOut, kIn, peer >>

(* BurstBegin, WriteCallback, the decision on the next event, BurstEnd: all *)
(* of it under m_writeMutex.  One send() pushes the contiguous bytes, or as *)
(* many of them as the kernel takes (the queue then owes a wake-up); a      *)
(* queue that takes none is an error and disconnects.                       *)
WriteBytes(n) ==
  /\ buf' = Take(buf, n) /\ kOut' = kOut + n
  /\ noSpace' = (noSpace \/ n < Contiguous(buf))
SendFails == peer = "reset" \/ (Contiguous(buf) > 0 /\ ~Writable)
Sent == Minimum(Contiguous(buf), KernelOut - kOut)
DropOnError ==
  /\ SendFails
  /\ Disconnect
  /\ UNCHANGED << buf, sendLock, mode, edge, ready, kOut, noSpace >>
KeepWritingNoCheck ==  \* mutant: never back to input
  /\ ~SendFails /\ WriteBytes(Sent)
  /\ UNCHANGED << sendLock, mode, edge, ready, connected >>
KeepWriting ==
  /\ ~SendFails /\ Size(Take(buf, Sent)) > 0
  /\ WriteBytes(Sent)
  /\ UNCHANGED << sendLock, mode, edge, ready, connected >>
BackToInputNoDec ==  \* mutant: the send lock is not given back
  /\ ~SendFails /\ Size(Take(buf, Sent)) = 0
  /\ WriteBytes(Sent)
  /\ PostEvent("IN")
  /\ UNCHANGED << sendLock, connected >>
BackToInputAlways ==  \* mutant: back to input although bytes are left
  /\ ~SendFails
  /\ WriteBytes(Sent)
  /\ sendLock' = sendLock - 1
  /\ PostEvent("IN")
  /\ UNCHANGED connected
BackToInput ==
  /\ ~SendFails /\ Size(Take(buf, Sent)) = 0
  /\ WriteBytes(Sent)
  /\ sendLock' = sendLock - 1
  /\ PostEvent("IN")
  /\ UNCHANGED connected
WriteCallback ==
  /\ worker = "OUT" /\ writeMutex = "free"
  /\ DropOnError \/ KeepWriting \/ BackToInput
  /\ worker' = "epoll_wait"
  /\ UNCHANGED << sender, writeMutex, kIn, peer >>

-------------------------------------------------------------------------------
(* The kernel and the peer. *)

(* An edge of the event the descriptor is registered for. *)
Edge(event) == ready' = (ready \/ mode = event)

PeerSends ==
  /\ peer = "open" /\ connected /\ kIn < KernelIn
  /\ kIn' = kIn + 1
  /\ Edge("IN")
  /\ UNCHANGED << buf, sender, worker, writeMutex, sendLock, mode, edge, connected,
                  kOut, noSpace, peer >>

(* The peer takes bytes off the send queue; whoever was refused is woken.   *)
PeerReceives ==
  /\ peer # "reset" /\ kOut > 0
  /\ kOut' = kOut - 1
  /\ noSpace' = FALSE
  /\ IF noSpace THEN Edge("OUT") ELSE UNCHANGED ready
  /\ UNCHANGED << buf, sender, worker, writeMutex, sendLock, mode, edge, connected, kIn, peer >>

(* A change of the connection's state wakes whatever is registered. *)
PeerCloses ==
  /\ peer = "open"
  /\ peer' \in {"closed", "reset"}
  /\ ready' = TRUE
  /\ UNCHANGED << buf, sender, worker, writeMutex, sendLock, mode, edge, connected,
                  kOut, kIn, noSpace >>

-------------------------------------------------------------------------------

Worker ==
  \/ EpollWait \/ EpollHup
  \/ \E space \in RecvSpace : ReadCallback(space)
  \/ ChangeToWrite \/ WorkerPostEvent
  \/ WriteCallback

Sending == BurstPush \/ SenderPostEvent \/ BurstEnd

EpollNext ==
  \/ \E s \in Chunk : BurstSend(s)
  \/ Sending
  \/ Worker
  \/ PeerSends \/ PeerReceives \/ PeerCloses

EpollSpec == EpollInit /\ [][EpollNext]_epollVars

(* The threads run on: the send thread finishes a Send it has begun, the    *)
(* worker returns to epoll_wait, which reports what is due; and the peer    *)
(* takes what the kernel holds for it.  Nobody is bound to send.  The       *)
(* worker's wait for m_writeMutex needs strong fairness: the mutex is free  *)
(* again and again while the send thread is busy.                           *)
EpollFairness ==
  /\ WF_epollVars(Sending)
  /\ WF_epollVars(EpollWait \/ EpollHup) /\ WF_epollVars(ChangeToWrite \/ WorkerPostEvent)
  /\ WF_epollVars(\E space \in RecvSpace : ReadCallback(space))
  /\ SF_epollVars(WriteCallback)
  /\ WF_epollVars(PeerReceives)

FairEpollSpec == EpollSpec /\ EpollFairness

-------------------------------------------------------------------------------
(* Properties. *)

EpollTypeOK ==
  /\ buf \in BufferType
  /\ sender \in {"idle", "BurstPush", "PostEvent", "BurstEnd"}
  /\ worker \in {"epoll_wait", "IN", "changeToWrite", "PostEvent", "OUT"}
  /\ writeMutex \in {"free", "sender"}
  /\ sendLock \in {0, 1}
  /\ mode \in {"IN", "OUT"} /\ edge \in BOOLEAN /\ ready \in BOOLEAN
  /\ kOut \in 0 .. KernelOut /\ kIn \in 0 .. KernelIn /\ noSpace \in BOOLEAN
  /\ peer \in {"open", "closed", "reset"} /\ connected \in BOOLEAN

(* The send lock means what its comment says, "stops multiple write events  *)
(* from being posted": whenever nobody is inside Send, it is taken exactly  *)
(* when there are bytes to write, and exactly when the descriptor, if it is *)
(* still registered, waits for output.  A lock left taken would silence the *)
(* socket for ever; a lock given back twice would wrap the counter round,   *)
(* which is the same.                                                       *)
SendLockExact ==
  writeMutex = "free" =>
    /\ sendLock = (IF Size(buf) > 0 THEN 1 ELSE 0)
    /\ connected => mode = (IF sendLock = 1 THEN "OUT" ELSE "IN")

(* The worker never drops a peer that is there: it takes an empty recv and  *)
(* a send the kernel refuses for errors, EAGAIN too, and is right to only   *)
(* as long as neither can follow an event.                                  *)
OnlyLostPeersDropped == connected \/ peer # "open"

SendsEnd == <>[](sender = "idle")

(* The write buffer splits when bytes go to region B. *)
Split == buf.bSize > 0

(* When no more messages come all bytes accepted by Send leave for the      *)
(* peer, as long as the write buffer never splits: one send() then takes    *)
(* all bytes, or the kernel's queue is full and owes the edge for the rest. *)
(* With bytes in both regions send() is given the older ones only, the edge *)
(* is used up, and the others stay.                                         *)
OutputDrainsUnsplit ==
  [](~Split) /\ SendsEnd => <>[](Size(buf) = 0 \/ ~connected)

(* Input is heard as long as one recv takes all there is and the write      *)
(* buffer never splits: the descriptor waits for output until the last byte *)
(* has left, and input that came meanwhile must not be forgotten.           *)
OneRecvTakesAll == \A space \in RecvSpace : kIn <= space
InputHeardUnsplit ==
  [](~Split /\ OneRecvTakesAll) /\ SendsEnd =>
    (kIn > 0 /\ connected ~> worker = "IN" \/ ~connected)
===============================================================================

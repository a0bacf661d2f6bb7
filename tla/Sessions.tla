------------------------------- MODULE Sessions -------------------------------
(***************************************************************************)
(* The life of the accepted sockets and the threads that share them: the   *)
(* epoll worker (accept, the login handshake of AuListenSock, Disconnect), *)
(* the send thread (SockMgr::Send), the Lua thread (LuaModule::HandleMsg)  *)
(* and the main thread (SocketGarbageCollector::Update).                   *)
(* Sources: src/Src/server/sockmgr.cpp, aulistensock.cpp, lua_module.cpp,  *)
(* src/Src/Shared/Network/Socket.{h,cpp}, SocketMgrLinux.cpp,              *)
(* ListenSocketLinux.h.                                                    *)
(*                                                                         *)
(* A socket object is a number, in the order of creation; the descriptor   *)
(* it was created with is used again for later objects once it is closed.  *)
(* A message is the object it came from (ghost): what is in a packet, how  *)
(* it is framed (PacketReader) and how bytes leave (EpollSocket) are left  *)
(* out.  The script is external: it asks for the validation of each login  *)
(* it is told of and may answer any message, to the descriptor it carries. *)
(***************************************************************************)
EXTENDS Integers, Sequences

CONSTANTS
  Sockets,     (* how many sockets are accepted                              *)
  Fd,          (* descriptors (0 is none: the constructor makes one then)    *)
  Account,     (* accounts clients log in with                               *)
  MaxMessages, (* how many messages a client sends                           *)
  OutputSpace, (* how many messages writeBuffer takes                        *)
  Word         (* 2^width of the unsigned counter m_writeLock                *)

ASSUME SessionAssumption ==
  /\ Sockets \in Nat /\ MaxMessages \in Nat /\ OutputSpace \in Nat
  /\ Fd \subseteq Nat \ {0}
  /\ Word \in Nat /\ Word > 2

Sock == 1 .. Sockets

VARIABLES
  state,     (* of each object: unborn, open, closed (queued for the
                collector) or freed                                          *)
  fdOf,      (* m_fd                                                         *)
  account,   (* _accountid: an account, "" or that of a refused login        *)
  isOk,      (* m_isOk                                                       *)
  writeLock, (* m_writeLock                                                  *)
  output,    (* writeBuffer                                                  *)
  sent,      (* messages the client has sent                                 *)
  kernel,    (* the open socket behind each descriptor, or None              *)
  event,     (* the event each descriptor is registered for                  *)
  fds,       (* SocketMgr::fds                                               *)
  socks,     (* SockMgr::_socks: the entries there are                       *)
  luaQueue,  (* LuaModule::_msg                                              *)
  worker, sender, lua,   (* where the threads are                            *)
  usedFreed, (* ghost: a freed object was dereferenced                       *)
  reused,    (* ghost: a descriptor was reused with messages of the old
                session still on their way                                   *)
  overlapped,(* ghost: clients that sent a second login before the answer    *)
  accepted   (* ghost: the accounts validated for each socket                *)

perSocket == << state, fdOf, account, isOk, writeLock, output, sent >>
tables == << kernel, event, fds, socks, luaQueue >>
threads == << worker, sender, lua >>
ghosts == << usedFreed, reused, overlapped, accepted >>
sessionVars == << perSocket, tables, threads, ghosts >>

None == 0
NoAccount == ""
Refused == "refused"
Idle == [at |-> "idle"]

SessionInit ==
  /\ state = [s \in Sock |-> "unborn"] /\ fdOf = [s \in Sock |-> None]
  /\ account = [s \in Sock |-> NoAccount] /\ isOk = [s \in Sock |-> FALSE]
  /\ writeLock = [s \in Sock |-> 0] /\ output = [s \in Sock |-> << >>]
  /\ sent = [s \in Sock |-> 0]
  /\ kernel = [fd \in Fd |-> None] /\ event = [fd \in Fd |-> "IN"]
  /\ fds = [fd \in Fd |-> None]
  /\ socks = << >> /\ luaQueue = << >>
  /\ worker = Idle /\ sender = Idle /\ lua = Idle
  /\ usedFreed = FALSE /\ reused = FALSE
  /\ overlapped = {} /\ accepted = [s \in Sock |-> {}]

(* m_lock_socks is held by the send thread for the whole of Send, by the    *)
(* Lua thread for that of ValidateSocket, by all others within one step;    *)
(* _lock_msg by the Lua thread while it runs the script, by all others      *)
(* within one step.                                                         *)
SocksFree == sender = Idle /\ lua.at # "setOk"
MsgFree == lua = Idle

-------------------------------------------------------------------------------
(* The worker: connections come and go. *)

Newest(s) == state[s] = "unborn" /\ \A t \in 1 .. s - 1 : state[t] # "unborn"

OnItsWay(fd) ==
  \/ \E i \in DOMAIN luaQueue : luaQueue[i].fd = fd
  \/ lua # Idle /\ lua.fd = fd

(* ListenSocket::OnAccept, Socket::Accept, SocketMgr::AddSocket: an entry   *)
(* left in fds would have the new socket deleted on the spot.               *)
OnAccept(s, fd) ==
  /\ worker = Idle
  /\ Newest(s) /\ kernel[fd] = None
  /\ fdOf' = [fdOf EXCEPT ![s] = fd]
  /\ reused' = (reused \/ OnItsWay(fd))
  /\ IF fds[fd] = None
       THEN /\ state' = [state EXCEPT ![s] = "open"]
            /\ kernel' = [kernel EXCEPT ![fd] = s]
            /\ fds' = [fds EXCEPT ![fd] = s]
            /\ event' = [event EXCEPT ![fd] = "IN"]
       ELSE /\ state' = [state EXCEPT ![s] = "closed"]
            /\ UNCHANGED << kernel, fds, event >>
  /\ UNCHANGED << account, isOk, writeLock, output, sent, socks, luaQueue, threads,
                  usedFreed, overlapped, accepted >>

(* Socket::Disconnect: out of fds and of the epoll set, the descriptor      *)
(* closed, the object queued for the collector.  AuListenSock tells nobody  *)
(* else: OnDisconnect is not the function it overrides.                     *)
DisconnectLeaves(s) ==  \* mutant: RemoveSocket forgotten
  /\ state' = [state EXCEPT ![s] = "closed"]
  /\ kernel' = [kernel EXCEPT ![fdOf[s]] = None]
  /\ UNCHANGED fds
Disconnect(s) ==
  /\ state' = [state EXCEPT ![s] = "closed"]
  /\ fds' = [fds EXCEPT ![fdOf[s]] = None]
  /\ kernel' = [kernel EXCEPT ![fdOf[s]] = None]

(* The socket of an event of the given kind. *)
Event(s, e) ==
  /\ worker = Idle
  /\ \E fd \in Fd : fds[fd] = s /\ kernel[fd] # None /\ event[fd] = e

(* The peer is gone, or a packet was refused. *)
Drop(s) ==
  /\ Event(s, "IN") \/ Event(s, "OUT")
  /\ Disconnect(s)
  /\ UNCHANGED << fdOf, account, isOk, writeLock, output, sent, event, socks, luaQueue,
                  threads, ghosts >>

(* SocketGarbageCollector::Update, SOCKET_GC_TIMEOUT seconds later: more    *)
(* than any thread stays within one call.                                   *)
Collect(s) ==
  /\ state[s] = "closed"
  /\ sender.at \in {"send", "post"} => sender.sock # s
  /\ lua.at = "setOk" => lua.sock # s
  /\ state' = [state EXCEPT ![s] = "freed"]
  /\ UNCHANGED << fdOf, account, isOk, writeLock, output, sent, tables, threads, ghosts >>

-------------------------------------------------------------------------------
(* The worker: AuListenSock::handleMessage. *)

Sends(s) ==
  /\ Event(s, "IN")
  /\ sent[s] < MaxMessages
  /\ sent' = [sent EXCEPT ![s] = @ + 1]

LoginPending(s) ==
  \/ \E i \in DOMAIN luaQueue : luaQueue[i].kind = "login" /\ luaQueue[i].from = s
  \/ lua # Idle /\ lua.kind = "login" /\ lua.from = s

(* HandleValidate begins: the old account is wiped. *)
LoginAlways(s, a) ==  \* mutant: a validated client may log in again
  /\ Sends(s)
  /\ account' = [account EXCEPT ![s] = NoAccount]
  /\ overlapped' = IF LoginPending(s) THEN overlapped \cup {s} ELSE overlapped
  /\ worker' = [at |-> "strncpy", sock |-> s, account |-> a]
  /\ UNCHANGED << state, fdOf, isOk, writeLock, output, tables, sender, lua,
                  usedFreed, reused, accepted >>
Login(s, a) ==
  /\ ~isOk[s]
  /\ Sends(s)
  /\ account' = [account EXCEPT ![s] = NoAccount]
  /\ overlapped' = IF LoginPending(s) THEN overlapped \cup {s} ELSE overlapped
  /\ worker' = [at |-> "strncpy", sock |-> s, account |-> a]
  /\ UNCHANGED << state, fdOf, isOk, writeLock, output, tables, sender, lua,
                  usedFreed, reused, accepted >>

(* A login with an illegal key has its account copied and is then ignored.  *)
CopyAccount ==
  /\ worker.at = "strncpy"
  /\ account' = [account EXCEPT ![worker.sock] = worker.account]
  /\ worker' = IF worker.account = Refused THEN Idle ELSE [worker EXCEPT !.at = "insert"]
  /\ UNCHANGED << state, fdOf, isOk, writeLock, output, sent, tables, sender, lua, ghosts >>

(* SockMgr::InsertSocket: the entry a previous socket left for this         *)
(* descriptor goes, with its messages.                                      *)
InsertKeeps ==  \* mutant: the old messages are kept
  /\ worker.at = "insert" /\ SocksFree
  /\ LET fd == fdOf[worker.sock] IN
     socks' = [f \in DOMAIN socks \cup {fd} |->
                 IF f # fd THEN socks[f]
                 ELSE [sock |-> worker.sock,
                       msgs |-> IF fd \in DOMAIN socks THEN socks[fd].msgs ELSE << >>]]
  /\ worker' = [worker EXCEPT !.at = "push"]
  /\ UNCHANGED << perSocket, kernel, event, fds, luaQueue, sender, lua, ghosts >>
InsertOnce ==   \* mutant: an entry that is there stays
  /\ worker.at = "insert" /\ SocksFree
  /\ LET fd == fdOf[worker.sock] IN
     socks' = [f \in DOMAIN socks \cup {fd} |->
                 IF f \in DOMAIN socks THEN socks[f]
                 ELSE [sock |-> worker.sock, msgs |-> << >>]]
  /\ worker' = [worker EXCEPT !.at = "push"]
  /\ UNCHANGED << perSocket, kernel, event, fds, luaQueue, sender, lua, ghosts >>
InsertSocket ==
  /\ worker.at = "insert" /\ SocksFree
  /\ LET fd == fdOf[worker.sock] IN
     socks' = [f \in DOMAIN socks \cup {fd} |->
                 IF f # fd THEN socks[f] ELSE [sock |-> worker.sock, msgs |-> << >>]]
  /\ worker' = [worker EXCEPT !.at = "push"]
  /\ UNCHANGED << perSocket, kernel, event, fds, luaQueue, sender, lua, ghosts >>

Message(kind, s, a) == [kind |-> kind, fd |-> fdOf[s], from |-> s, account |-> a]

(* "Send The Msg To Lua Script": message 102. *)
PushLogin ==
  /\ worker.at = "push" /\ MsgFree
  /\ luaQueue' = Append(luaQueue, Message("login", worker.sock, worker.account))
  /\ worker' = Idle
  /\ UNCHANGED << perSocket, kernel, event, fds, socks, sender, lua, ghosts >>

(* Any other packet: to the script when the socket is validated, refused    *)
(* when it is not (its length is not that of a login).                      *)
HandleMessage(s) ==
  /\ Sends(s)
  /\ IF isOk[s]
       THEN /\ MsgFree
            /\ luaQueue' = Append(luaQueue, Message("game", s, NoAccount))
            /\ UNCHANGED << state, fds, kernel >>
       ELSE /\ Disconnect(s)
            /\ UNCHANGED luaQueue
  /\ UNCHANGED << fdOf, account, isOk, writeLock, output, event, socks, threads, ghosts >>

(* EPOLLOUT: WriteCallback writes everything, DecSendLock, PostEvent(IN),   *)
(* under m_writeMutex, which a sender inside Send holds.                    *)
WriteCallbackSigned(s) ==  \* mutant: the counter is signed
  /\ Event(s, "OUT")
  /\ ~(sender.at = "post" /\ sender.sock = s)
  /\ output' = [output EXCEPT ![s] = << >>]
  /\ writeLock' = [writeLock EXCEPT ![s] = @ - 1]
  /\ event' = [event EXCEPT ![fdOf[s]] = "IN"]
  /\ UNCHANGED << state, fdOf, account, isOk, sent, kernel, fds, socks, luaQueue, threads,
                  ghosts >>
WriteCallback(s) ==
  /\ Event(s, "OUT")
  /\ ~(sender.at = "post" /\ sender.sock = s)
  /\ output' = [output EXCEPT ![s] = << >>]
  /\ writeLock' = [writeLock EXCEPT ![s] = (@ + Word - 1) % Word]
  /\ event' = [event EXCEPT ![fdOf[s]] = "IN"]
  /\ UNCHANGED << state, fdOf, account, isOk, sent, kernel, fds, socks, luaQueue, threads,
                  ghosts >>

-------------------------------------------------------------------------------
(* The Lua thread: LuaModule::HandleMsg, one message at a time. *)

(* AuListenSock::validateSocket *)
Valid(s, a) == state[s] = "open" /\ account[s] = a

(* Message 102: the script calls ValidateConnect, SockMgr::ValidateSocket.  *)
(* What was compared may be another account by the time m_isOk is set: the  *)
(* worker shares no lock with validateSocket.                               *)
Run(m) == [at |-> "script", fd |-> m.fd, from |-> m.from, kind |-> m.kind]

ValidateSocket(m) ==
  /\ SocksFree
  /\ IF m.fd \in DOMAIN socks
       THEN LET s == socks[m.fd].sock IN
            /\ usedFreed' = (usedFreed \/ state[s] = "freed")
            /\ lua' = IF Valid(s, m.account)
                        THEN [at |-> "setOk", fd |-> m.fd, from |-> m.from, kind |-> m.kind,
                              sock |-> s, account |-> m.account]
                        ELSE Run(m)
       ELSE lua' = Run(m) /\ UNCHANGED usedFreed

HandleMsg ==
  /\ lua = Idle /\ luaQueue # << >>
  /\ LET m == Head(luaQueue) IN
     IF m.kind = "login" THEN ValidateSocket(m) ELSE lua' = Run(m) /\ UNCHANGED usedFreed
  /\ luaQueue' = Tail(luaQueue)
  /\ UNCHANGED << perSocket, kernel, event, fds, socks, worker, sender, reused, overlapped,
                  accepted >>

(* validateSocket goes on, then the script. *)
SetSocketOK ==
  /\ lua.at = "setOk"
  /\ isOk' = [isOk EXCEPT ![lua.sock] = TRUE]
  /\ accepted' = [accepted EXCEPT ![lua.sock] = @ \cup {lua.account}]
  /\ lua' = [at |-> "script", fd |-> lua.fd, from |-> lua.from, kind |-> lua.kind]
  /\ UNCHANGED << state, fdOf, account, writeLock, output, sent, tables, worker, sender,
                  usedFreed, reused, overlapped >>

(* The script answers: messageEnd, SockMgr::PushMsgToSock. *)
PushMsgToSock ==
  /\ lua.at = "script" /\ SocksFree
  /\ lua.fd \in DOMAIN socks
  /\ socks' = [socks EXCEPT ![lua.fd].msgs = Append(@, lua.from)]
  /\ lua' = Idle
  /\ UNCHANGED << perSocket, kernel, event, fds, luaQueue, worker, sender, ghosts >>

(* Timers of the script send as well, to a descriptor it knows, whoever has *)
(* its entry (bound: when no message waits there).                          *)
ScriptSends(fd) ==
  /\ SocksFree
  /\ fd \in DOMAIN socks /\ socks[fd].msgs = << >>
  /\ socks' = [socks EXCEPT ![fd].msgs = << socks[fd].sock >>]
  /\ UNCHANGED << perSocket, kernel, event, fds, luaQueue, threads, ghosts >>

NoAnswer ==
  /\ lua.at = "script"
  /\ lua' = Idle
  /\ UNCHANGED << perSocket, tables, worker, sender, ghosts >>

-------------------------------------------------------------------------------
(* The send thread: SockMgr::Send. *)

(* It goes through all entries, holding the lock.  (A round with nothing to *)
(* send is left out.)                                                       *)
SendBegin ==
  /\ SocksFree
  /\ \E fd \in DOMAIN socks : socks[fd].msgs # << >>
  /\ sender' = [at |-> "scan", todo |-> DOMAIN socks]
  /\ UNCHANGED << perSocket, tables, worker, lua, ghosts >>

(* GetMsg, then IsConnected: the messages of a socket that is not connected *)
(* are thrown away.                                                         *)
GetMsg ==
  /\ sender.at = "scan"
  /\ \E fd \in sender.todo :
       LET s == socks[fd].sock IN
       /\ \A other \in sender.todo : fd <= other
       /\ IF socks[fd].msgs = << >>
            THEN /\ sender' = [sender EXCEPT !.todo = @ \ {fd}]
                 /\ UNCHANGED << socks, usedFreed >>
          ELSE IF state[s] = "open"
            THEN /\ sender' = [at |-> "send", todo |-> sender.todo, sock |-> s,
                               msg |-> Head(socks[fd].msgs)]
                 /\ socks' = [socks EXCEPT ![fd].msgs = Tail(@)]
                 /\ UNCHANGED usedFreed
            ELSE /\ socks' = [socks EXCEPT ![fd].msgs = << >>]
                 /\ usedFreed' = (usedFreed \/ state[s] = "freed")
                 /\ UNCHANGED sender
  /\ UNCHANGED << perSocket, kernel, event, fds, luaQueue, worker, lua, reused, overlapped,
                  accepted >>

(* Socket::Send: a message that does not fit is dropped; then BurstPush:    *)
(* AcquireSendLock sets the lock to 1 and says whether it was 0.            *)
Scanning == [at |-> "scan", todo |-> sender.todo]
BurstSend ==
  /\ sender.at = "send"
  /\ LET s == sender.sock IN
     IF Len(output[s]) < OutputSpace
       THEN /\ output' = [output EXCEPT ![s] = Append(@, sender.msg)]
            /\ writeLock' = [writeLock EXCEPT ![s] = 1]
            /\ sender' = IF writeLock[s] = 0 THEN [sender EXCEPT !.at = "post"] ELSE Scanning
       ELSE /\ sender' = Scanning
            /\ UNCHANGED << output, writeLock >>
  /\ UNCHANGED << state, fdOf, account, isOk, sent, tables, worker, lua, ghosts >>

(* PostEvent(EPOLLOUT) names the descriptor, whoever has it by now. *)
PostEvent ==
  /\ sender.at = "post"
  /\ LET fd == fdOf[sender.sock] IN
     event' = IF kernel[fd] # None THEN [event EXCEPT ![fd] = "OUT"] ELSE event
  /\ sender' = Scanning
  /\ UNCHANGED << perSocket, kernel, fds, socks, luaQueue, worker, lua, ghosts >>

SendEnd ==
  /\ sender.at = "scan" /\ sender.todo = {}
  /\ sender' = Idle
  /\ UNCHANGED << perSocket, tables, worker, lua, ghosts >>

-------------------------------------------------------------------------------

HandleValidate == CopyAccount \/ InsertSocket \/ PushLogin
Send == GetMsg \/ BurstSend \/ PostEvent \/ SendEnd
Script == SetSocketOK \/ PushMsgToSock \/ NoAnswer

SessionNext ==
  \/ \E s \in Sock :
       \/ \E fd \in Fd : OnAccept(s, fd)
       \/ Drop(s) \/ Collect(s)
       \/ \E a \in Account \cup {Refused} : Login(s, a)
       \/ HandleMessage(s) \/ WriteCallback(s)
  \/ HandleValidate
  \/ HandleMsg \/ Script
  \/ \E fd \in Fd : ScriptSends(fd)
  \/ SendBegin \/ Send

SessionSpec == SessionInit /\ [][SessionNext]_sessionVars

(* The threads run on.  Those that wait for _lock_socks or _lock_msg get    *)
(* them, as both are free again and again.  No client is bound to send, to  *)
(* stay or to go.                                                           *)
SessionFairness ==
  /\ SF_sessionVars(HandleValidate)
  /\ SF_sessionVars(HandleMsg) /\ SF_sessionVars(Script)
  /\ WF_sessionVars(SendBegin \/ Send)

FairSessionSpec == SessionSpec /\ SessionFairness

-------------------------------------------------------------------------------
(* Properties. *)

SessionTypeOK ==
  /\ state \in [Sock -> {"unborn", "open", "closed", "freed"}]
  /\ fdOf \in [Sock -> Fd \cup {None}]
  /\ account \in [Sock -> Account \cup {NoAccount, Refused}]
  /\ isOk \in [Sock -> BOOLEAN] /\ writeLock \in [Sock -> 0 .. Word - 1]
  /\ output \in [Sock -> Seq(Sock)] /\ sent \in [Sock -> 0 .. MaxMessages]
  /\ kernel \in [Fd -> Sock \cup {None}] /\ fds \in [Fd -> Sock \cup {None}]
  /\ event \in [Fd -> {"IN", "OUT"}]
  /\ DOMAIN socks \subseteq Fd
  /\ \A fd \in DOMAIN socks : socks[fd] \in [sock : Sock, msgs : Seq(Sock)]
  /\ luaQueue \in Seq([kind : {"login", "game"}, fd : Fd, from : Sock,
                       account : Account \cup {NoAccount}])
  /\ worker.at \in {"idle", "strncpy", "insert", "push"}
  /\ sender.at \in {"idle", "scan", "send", "post"}
  /\ lua.at \in {"idle", "setOk", "script"}

(* SocketMgr's table has exactly the open sockets, each at its descriptor:  *)
(* no event goes to a socket that is closed or freed, and no accepted       *)
(* socket is turned away as "another Same Socket".                          *)
EventTableExact ==
  \A fd \in Fd : \A s \in Sock :
    (fds[fd] = s) <=> (state[s] = "open" /\ fdOf[s] = fd /\ kernel[fd] = s)

(* A client gets the answers to its own messages and to nobody else's, in   *)
(* spite of the entries that dead sockets leave in _socks and of answers    *)
(* still queued there, as long as no descriptor is used again while         *)
(* messages of its last session are on their way to the script (those are   *)
(* told apart by the descriptor only).                                      *)
AnswersReachAsker ==
  ~reused => \A s \in Sock : \A i \in DOMAIN output[s] : output[s][i] = s

(* The script validates one account per socket, unless the client sent a    *)
(* second login before the first was answered (the two threads then race    *)
(* for the account and for m_isOk).                                         *)
OneAccountPerSocket ==
  \A s \in Sock \ overlapped : \A a, b \in accepted[s] : a = b

(* A client that logs in, sends no second login before the answer, and      *)
(* stays, is validated.                                                     *)
LoginAnswered ==
  \A s \in Sock :
    LoginPending(s) ~> isOk[s] \/ state[s] # "open" \/ s \in overlapped

(* What Send's "sock is null or not connected" says of the entries whose    *)
(* socket is gone: they can be told.  None is deleted memory.               *)
NoFreedSocketUsed == ~usedFreed
===============================================================================

---------------------------- MODULE SessionsProofs ----------------------------
(***************************************************************************)
(* Proofs about Sessions, for any number of sockets, descriptors, accounts *)
(* and messages.                                                           *)
(***************************************************************************)
EXTENDS Sessions, SequenceTheorems, TLAPS

tableVars == << state, fdOf, kernel, fds >>

TableTypes ==
  /\ state \in [Sock -> {"unborn", "open", "closed", "freed"}]
  /\ fdOf \in [Sock -> Fd \cup {None}]
  /\ kernel \in [Fd -> Sock \cup {None}] /\ fds \in [Fd -> Sock \cup {None}]

(* The two tables, the kernel's and SocketMgr's, agree. *)
TablesAgree == \A fd \in Fd : kernel[fd] # None => fds[fd] = kernel[fd]

TableInv == TableTypes /\ EventTableExact /\ TablesAgree

-------------------------------------------------------------------------------

LEMMA SockNotNone == \A s \in Sock : s # None
  BY SessionAssumption DEF Sock, None

(* An event is one of the open socket of its descriptor. *)
LEMMA EventOfOpen ==
  ASSUME TableInv, NEW s \in Sock, NEW e, Event(s, e)
  PROVE  /\ worker = Idle
         /\ fdOf[s] \in Fd /\ state[s] = "open"
         /\ fds[fdOf[s]] = s /\ kernel[fdOf[s]] = s
  BY DEF TableInv, TableTypes, EventTableExact, Event

LEMMA DisconnectKeepsTables ==
  ASSUME TableInv, NEW s \in Sock, fdOf[s] \in Fd, fds[fdOf[s]] = s,
         Disconnect(s), UNCHANGED fdOf
  PROVE  TableInv'
  <1>1. /\ state' = [state EXCEPT ![s] = "closed"]
        /\ fds' = [fds EXCEPT ![fdOf[s]] = None]
        /\ kernel' = [kernel EXCEPT ![fdOf[s]] = None]
        /\ fdOf' = fdOf
    BY DEF Disconnect
  <1>2. TableTypes'
    BY <1>1 DEF TableInv, TableTypes
  <1>3. TablesAgree'
    BY <1>1 DEF TableInv, TableTypes, TablesAgree
  <1>4. ASSUME NEW fd \in Fd, NEW t \in Sock
        PROVE  (fds'[fd] = t) <=> (state'[t] = "open" /\ fdOf'[t] = fd /\ kernel'[fd] = t)
    <2>1. (fds[fd] = t) <=> (state[t] = "open" /\ fdOf[t] = fd /\ kernel[fd] = t)
      BY DEF TableInv, EventTableExact
    <2>2. CASE fd = fdOf[s]
      BY <1>1, <2>2, SockNotNone DEF TableInv, TableTypes
    <2>3. CASE fd # fdOf[s]
      BY <1>1, <2>1, <2>3 DEF TableInv, TableTypes
    <2>4. QED BY <2>2, <2>3
  <1>5. QED BY <1>2, <1>3, <1>4 DEF TableInv, EventTableExact

LEMMA AcceptKeepsTables ==
  ASSUME TableInv, NEW s \in Sock, NEW fd \in Fd, OnAccept(s, fd)
  PROVE  /\ TableInv'
         /\ fds[fd] = None /\ kernel[fd] = None
         /\ state[s] = "unborn"
         /\ fdOf' = [fdOf EXCEPT ![s] = fd]
         /\ kernel' = [kernel EXCEPT ![fd] = s]
         /\ state' = [state EXCEPT ![s] = "open"]
  <1>1. fds[fd] = None
    BY SockNotNone DEF TableInv, TableTypes, EventTableExact, OnAccept
  <1>2. /\ fdOf' = [fdOf EXCEPT ![s] = fd]
        /\ state' = [state EXCEPT ![s] = "open"]
        /\ kernel' = [kernel EXCEPT ![fd] = s]
        /\ fds' = [fds EXCEPT ![fd] = s]
        /\ state[s] = "unborn" /\ kernel[fd] = None
    BY <1>1 DEF OnAccept, Newest
  <1>3. TableTypes'
    BY <1>2 DEF TableInv, TableTypes
  <1>4. TablesAgree'
    BY <1>2 DEF TableInv, TableTypes, TablesAgree
  <1>5. ASSUME NEW f \in Fd, NEW t \in Sock
        PROVE  (fds'[f] = t) <=> (state'[t] = "open" /\ fdOf'[t] = f /\ kernel'[f] = t)
    <2>1. (fds[f] = t) <=> (state[t] = "open" /\ fdOf[t] = f /\ kernel[f] = t)
      BY DEF TableInv, EventTableExact
    <2>2. CASE f = fd
      BY <1>2, <2>1, <2>2 DEF TableInv, TableTypes
    <2>3. CASE f # fd
      BY <1>2, <2>1, <2>3 DEF TableInv, TableTypes
    <2>4. QED BY <2>2, <2>3
  <1>6. QED BY <1>1, <1>2, <1>3, <1>4, <1>5 DEF TableInv, EventTableExact

LEMMA OthersKeepTables ==
  ASSUME TableInv, UNCHANGED tableVars
  PROVE  TableInv'
  BY DEF TableInv, tableVars, TableTypes, EventTableExact, TablesAgree

LEMMA CollectKeepsTables ==
  ASSUME TableInv, NEW s \in Sock, Collect(s)
  PROVE  TableInv'
  <1>1. /\ state[s] = "closed" /\ state' = [state EXCEPT ![s] = "freed"]
        /\ UNCHANGED << fdOf, kernel, fds >>
    BY DEF Collect, tables
  <1>2. TableTypes' /\ TablesAgree'
    BY <1>1 DEF TableInv, TableTypes, TablesAgree
  <1>3. EventTableExact'
    BY <1>1 DEF TableInv, TableTypes, EventTableExact
  <1>4. QED BY <1>2, <1>3 DEF TableInv

(* The actions that leave both tables alone. *)
LEMMA QuietActions ==
  ASSUME \/ \E s \in Sock : \/ \E a \in Account \cup {Refused} : Login(s, a)
                            \/ WriteCallback(s)
         \/ HandleValidate
         \/ HandleMsg \/ Script
         \/ \E fd \in Fd : ScriptSends(fd)
         \/ SendBegin \/ Send
         \/ UNCHANGED sessionVars
  PROVE  UNCHANGED tableVars
  BY DEF Login, WriteCallback, HandleValidate, CopyAccount, InsertSocket, PushLogin, HandleMsg,
         Script, SetSocketOK, PushMsgToSock, NoAnswer, ScriptSends, SendBegin, Send, GetMsg, BurstSend,
         PostEvent, SendEnd, sessionVars, perSocket, tables, tableVars

LEMMA TablesInductive == SessionSpec => []TableInv
  <1>1. SessionInit => TableInv
    BY SockNotNone DEF SessionInit, TableInv, TableTypes, EventTableExact, TablesAgree
  <1>2. ASSUME TableInv, [SessionNext]_sessionVars PROVE TableInv'
    <2> USE <1>2
    <2>1. ASSUME NEW s \in Sock, NEW fd \in Fd, OnAccept(s, fd) PROVE TableInv'
      BY <2>1, AcceptKeepsTables
    <2>2. ASSUME NEW s \in Sock, Drop(s) PROVE TableInv'
      BY <2>2, EventOfOpen, DisconnectKeepsTables DEF Drop
    <2>3. ASSUME NEW s \in Sock, Collect(s) PROVE TableInv'
      BY <2>3, CollectKeepsTables
    <2>4. ASSUME NEW s \in Sock, HandleMessage(s) PROVE TableInv'
      <3>1. fdOf[s] \in Fd /\ fds[fdOf[s]] = s /\ UNCHANGED fdOf
        BY <2>4, EventOfOpen DEF HandleMessage, Sends
      <3>2. CASE isOk[s]
        BY <2>4, <3>2, OthersKeepTables DEF HandleMessage, tableVars
      <3>3. CASE ~isOk[s]
        BY <2>4, <3>1, <3>3, DisconnectKeepsTables DEF HandleMessage
      <3>4. QED BY <3>2, <3>3
    <2>5. QED
      BY <2>1, <2>2, <2>3, <2>4, QuietActions, OthersKeepTables DEF SessionNext
  <1>3. QED BY <1>1, <1>2, PTL DEF SessionSpec

(* SocketMgr's table holds exactly the open sockets (AddSocket in           *)
(* _OnConnect against RemoveSocket in Disconnect, before the descriptor is  *)
(* closed and can come again).                                              *)
THEOREM EventTableIsExact == SessionSpec => []EventTableExact
  <1>1. TableInv => EventTableExact
    BY DEF TableInv
  <1>2. QED BY <1>1, TablesInductive, PTL

-------------------------------------------------------------------------------
(* Who gets an answer. *)

Packet == [kind : {"login", "game"}, fd : Fd, from : Sock, account : Account \cup {NoAccount}]
Entry == [sock : Sock, msgs : Seq(Sock)]

WorkerTypes ==
  worker \in {Idle} \cup [at : {"strncpy"}, sock : Sock, account : Account \cup {Refused}]
                    \cup [at : {"insert", "push"}, sock : Sock, account : Account]
LuaTypes ==
  /\ luaQueue \in Seq(Packet)
  /\ lua \in {Idle} \cup [at : {"script"}, fd : Fd, from : Sock, kind : {"login", "game"}]
                   \cup [at : {"setOk"}, fd : Fd, from : Sock, kind : {"login"},
                         sock : Sock, account : Account \cup {NoAccount}]
EntryTypes ==
  /\ DOMAIN socks \subseteq Fd
  /\ \A fd \in DOMAIN socks : socks[fd] \in Entry /\ fdOf[socks[fd].sock] = fd
SenderTypes ==
  /\ sender \in {Idle} \cup [at : {"scan"}, todo : SUBSET Fd]
                      \cup [at : {"send", "post"}, todo : SUBSET Fd, sock : Sock, msg : Sock]
  /\ sender # Idle => sender.todo \subseteq DOMAIN socks
  /\ output \in [Sock -> Seq(Sock)]

(* An object is nobody before it is created, and while it is open it is the *)
(* one its descriptor leads to.                                             *)
Births ==
  \A s \in Sock :
    /\ state[s] = "unborn" => fdOf[s] = None /\ ~isOk[s]
    /\ state[s] = "open" => fdOf[s] \in Fd /\ kernel[fdOf[s]] = s

HasEntry(s) == fdOf[s] \in DOMAIN socks /\ socks[fdOf[s]].sock = s

(* Only an open socket is in the handshake, and has an entry at its end;    *)
(* so has every validated one.                                              *)
Handshake ==
  /\ worker # Idle => state[worker.sock] = "open"
  /\ worker.at = "push" => HasEntry(worker.sock)
Validated == isOk \in [Sock -> BOOLEAN] /\ \A s \in Sock : isOk[s] /\ state[s] = "open" => HasEntry(s)

(* validateSocket is at the socket of the entry that ValidateSocket found.  *)
Found == lua.at = "setOk" => lua.fd \in DOMAIN socks /\ socks[lua.fd].sock = lua.sock

(* As long as no descriptor was reused too early, a message on its way to   *)
(* the script comes from the socket that the entry of its descriptor holds, *)
(* and nobody else is open there.                                           *)
Known(fd, s) == fdOf[s] = fd /\ HasEntry(s) /\ kernel[fd] \in {None, s}
OnTheWay ==
  /\ \A i \in 1 .. Len(luaQueue) : Known(luaQueue[i].fd, luaQueue[i].from)
  /\ lua # Idle => Known(lua.fd, lua.from)
Queued == \A fd \in DOMAIN socks : \A i \in 1 .. Len(socks[fd].msgs) :
            socks[fd].msgs[i] = socks[fd].sock
Written ==
  /\ sender.at = "send" => sender.msg = sender.sock
  /\ \A s \in Sock : \A i \in 1 .. Len(output[s]) : output[s][i] = s

AnswerTypes ==
  /\ WorkerTypes /\ LuaTypes /\ EntryTypes /\ SenderTypes
  /\ Births /\ Handshake /\ Validated /\ Found
AnswerInv ==
  /\ TableInv /\ AnswerTypes
  /\ ~reused => OnTheWay /\ Queued /\ Written

-------------------------------------------------------------------------------

LEMMA FdNotNone == None \notin Fd
  BY SessionAssumption DEF None

(* A part of the invariant stands while its variables do. *)
LEMMA Undisturbed ==
  /\ WorkerTypes /\ UNCHANGED worker => WorkerTypes'
  /\ LuaTypes /\ UNCHANGED << luaQueue, lua >> => LuaTypes'
  /\ EntryTypes /\ UNCHANGED << socks, fdOf >> => EntryTypes'
  /\ SenderTypes /\ UNCHANGED << sender, socks, output >> => SenderTypes'
  /\ Births /\ UNCHANGED << state, fdOf, kernel, isOk >> => Births'
  /\ Handshake /\ UNCHANGED << worker, state, fdOf, socks >> => Handshake'
  /\ Validated /\ UNCHANGED << isOk, state, fdOf, socks >> => Validated'
  /\ Found /\ UNCHANGED << lua, socks >> => Found'
  /\ OnTheWay /\ UNCHANGED << luaQueue, lua, fdOf, socks, kernel >> => OnTheWay'
  /\ Queued /\ UNCHANGED socks => Queued'
  /\ Written /\ UNCHANGED << sender, output >> => Written'
  BY DEF WorkerTypes, LuaTypes, EntryTypes, SenderTypes, Births, Handshake, Validated, Found,
         OnTheWay, Queued, Written, Known, HasEntry

LEMMA OfQueue ==
  ASSUME LuaTypes, NEW i \in 1 .. Len(luaQueue)
  PROVE  /\ i \in DOMAIN luaQueue
         /\ luaQueue[i] \in Packet
         /\ luaQueue[i].fd \in Fd /\ luaQueue[i].from \in Sock
  <1>1. luaQueue \in Seq(Packet)
    BY DEF LuaTypes
  <1>2. luaQueue[i] \in Packet /\ i \in DOMAIN luaQueue
    BY <1>1
  <1>3. QED BY <1>2 DEF Packet

(* A message that stays is on its way while its sender stays known. *)
LEMMA StillOnTheWay ==
  ASSUME LuaTypes, OnTheWay, UNCHANGED luaQueue, lua' \in {lua, Idle},
         \A f \in Fd, t \in Sock : Known(f, t) => Known(f, t)'
  PROVE  OnTheWay'
  <1>1. ASSUME NEW i \in 1 .. Len(luaQueue)
        PROVE  Known(luaQueue[i].fd, luaQueue[i].from)'
    <2>1. luaQueue[i].fd \in Fd /\ luaQueue[i].from \in Sock
      BY OfQueue
    <2>2. Known(luaQueue[i].fd, luaQueue[i].from)
      BY DEF OnTheWay
    <2>3. QED BY <2>1, <2>2 DEF Known, HasEntry
  <1>2. lua # Idle => lua.fd \in Fd /\ lua.from \in Sock
    BY DEF LuaTypes
  <1>3. lua' # Idle => Known(lua.fd, lua.from)'
    BY <1>2 DEF OnTheWay, Known, HasEntry
  <1>4. QED BY <1>1, <1>3 DEF OnTheWay

(* A new object has no descriptor, so that it is nobody's. *)
LEMMA Newborn ==
  ASSUME AnswerInv, NEW s \in Sock, NEW fd \in Fd, OnAccept(s, fd)
  PROVE  AnswerInv'
  <1>1. /\ TableInv' /\ kernel[fd] = None /\ state[s] = "unborn"
        /\ fdOf' = [fdOf EXCEPT ![s] = fd]
        /\ kernel' = [kernel EXCEPT ![fd] = s]
        /\ state' = [state EXCEPT ![s] = "open"]
        /\ worker = Idle
        /\ UNCHANGED << isOk, socks, luaQueue, worker, sender, lua, output >>
        /\ reused' = (reused \/ OnItsWay(fd))
    BY AcceptKeepsTables DEF AnswerInv, OnAccept, threads
  <1>2. fdOf[s] = None /\ ~isOk[s] /\ fdOf[s] \notin Fd
    BY <1>1, FdNotNone DEF AnswerInv, AnswerTypes, Births
  <1>3. \A t \in Sock : fdOf[t] \in Fd => t # s /\ fdOf'[t] = fdOf[t] /\ state'[t] = state[t]
    BY <1>1, <1>2 DEF AnswerInv, TableInv, TableTypes
  <1>4. WorkerTypes' /\ LuaTypes' /\ SenderTypes' /\ Found'
    BY <1>1, Undisturbed DEF AnswerInv, AnswerTypes
  <1>5. EntryTypes'
    BY <1>1, <1>3 DEF AnswerInv, AnswerTypes, EntryTypes, Entry
  <1>6. Births'
    BY <1>1, <1>2, SockNotNone DEF AnswerInv, AnswerTypes, Births, TableInv, TableTypes
  <1>7. Handshake'
    BY <1>1 DEF Handshake, Idle
  <1>8. Validated'
    BY <1>1, <1>2, <1>3
       DEF AnswerInv, AnswerTypes, Validated, HasEntry, Births, TableInv, TableTypes
  <1>9. ASSUME ~reused' PROVE OnTheWay' /\ Queued' /\ Written'
    <2>1. ~reused /\ ~OnItsWay(fd) /\ OnTheWay /\ Queued /\ Written
      BY <1>1, <1>9 DEF AnswerInv
    <2>2. \A i \in 1 .. Len(luaQueue) :
            luaQueue[i].fd \in Fd /\ luaQueue[i].from \in Sock /\ luaQueue[i].fd # fd
      BY <2>1, OfQueue DEF OnItsWay, AnswerInv, AnswerTypes
    <2>3. lua # Idle => lua.fd \in Fd /\ lua.from \in Sock /\ lua.fd # fd
      BY <2>1 DEF OnItsWay, AnswerInv, AnswerTypes, LuaTypes
    <2>4. \A i \in 1 .. Len(luaQueue) : Known(luaQueue[i].fd, luaQueue[i].from)'
      <3>1. ASSUME NEW i \in 1 .. Len(luaQueue)
            PROVE  Known(luaQueue[i].fd, luaQueue[i].from)'
        <4>1. Known(luaQueue[i].fd, luaQueue[i].from)
          BY <2>1 DEF OnTheWay
        <4>2. QED BY <1>1, <1>3, <2>2, <4>1 DEF Known, HasEntry, AnswerInv, TableInv, TableTypes
      <3>2. QED BY <1>1, <3>1
    <2>5. lua # Idle => Known(lua.fd, lua.from)'
      BY <1>1, <1>3, <2>1, <2>3
         DEF OnTheWay, Known, HasEntry, AnswerInv, TableInv, TableTypes
    <2>6. OnTheWay'
      BY <1>1, <2>4, <2>5 DEF OnTheWay
    <2>7. QED BY <1>1, <2>1, <2>6, Undisturbed
  <1>10. QED BY <1>1, <1>4, <1>5, <1>6, <1>7, <1>8, <1>9 DEF AnswerInv, AnswerTypes

(* A socket that goes leaves everything but itself. *)
LEMMA Gone ==
  ASSUME AnswerInv, NEW s \in Sock, fdOf[s] \in Fd, fds[fdOf[s]] = s, kernel[fdOf[s]] = s,
         worker = Idle, Disconnect(s),
         UNCHANGED << fdOf, isOk, socks, luaQueue, worker, sender, lua, output, reused >>
  PROVE  AnswerInv'
  <1>1. /\ state' = [state EXCEPT ![s] = "closed"]
        /\ kernel' = [kernel EXCEPT ![fdOf[s]] = None]
        /\ TableInv'
    BY DisconnectKeepsTables DEF Disconnect, AnswerInv
  <1>2. WorkerTypes' /\ LuaTypes' /\ EntryTypes' /\ SenderTypes'
    BY Undisturbed DEF AnswerInv, AnswerTypes
  <1>3. \A t \in Sock : state'[t] \in {"unborn", "open"} => state[t] = state'[t] /\ t # s
    BY <1>1 DEF AnswerInv, TableInv, TableTypes
  <1>4. Births'
    BY <1>1, <1>3 DEF AnswerInv, AnswerTypes, Births, TableInv, TableTypes
  <1>5. Handshake' /\ Validated'
    BY <1>3 DEF AnswerInv, AnswerTypes, Handshake, Validated, HasEntry, Idle
  <1>6. OnTheWay => OnTheWay'
    <2>1. \A f \in Fd, t \in Sock : Known(f, t) => Known(f, t)'
      BY <1>1 DEF Known, HasEntry, AnswerInv, TableInv, TableTypes
    <2>2. QED BY <2>1, StillOnTheWay DEF AnswerInv, AnswerTypes
  <1>7. QED BY <1>1, <1>2, <1>4, <1>5, <1>6, Undisturbed DEF AnswerInv, AnswerTypes

LEMMA Collected ==
  ASSUME AnswerInv, NEW s \in Sock, Collect(s)
  PROVE  AnswerInv'
  <1>1. /\ state[s] = "closed" /\ state' = [state EXCEPT ![s] = "freed"]
        /\ UNCHANGED << fdOf, kernel, isOk, socks, luaQueue, worker, sender, lua, output, reused >>
        /\ TableInv'
    BY CollectKeepsTables DEF Collect, AnswerInv, tables, threads, ghosts
  <1>2. \A t \in Sock : state'[t] \in {"unborn", "open"} <=> state[t] \in {"unborn", "open"}
    BY <1>1 DEF AnswerInv, TableInv, TableTypes
  <1>3. \A t \in Sock : t # s => state'[t] = state[t]
    BY <1>1 DEF AnswerInv, TableInv, TableTypes
  <1>4. Births' /\ Validated'
    BY <1>1, <1>3 DEF AnswerInv, AnswerTypes, Births, Validated, HasEntry, TableInv, TableTypes
  <1>5. Handshake'
    BY <1>1, <1>3 DEF AnswerInv, AnswerTypes, Handshake, HasEntry, WorkerTypes
  <1>6. QED BY <1>1, <1>4, <1>5, Undisturbed DEF AnswerInv, AnswerTypes

(* The handshake. *)
LEMMA LoginBegun ==
  ASSUME AnswerInv, NEW s \in Sock, NEW a \in Account \cup {Refused}, Login(s, a)
  PROVE  AnswerInv'
  <1>1. /\ worker' = [at |-> "strncpy", sock |-> s, account |-> a]
        /\ UNCHANGED << state, fdOf, kernel, fds, isOk, socks, luaQueue, sender, lua, output, reused >>
    BY DEF Login, tables
  <1>2. state[s] = "open"
    BY EventOfOpen DEF Login, Sends, AnswerInv
  <1>3. TableInv'
    BY <1>1, OthersKeepTables DEF tableVars, AnswerInv
  <1>4. WorkerTypes'
    BY <1>1 DEF WorkerTypes
  <1>5. Handshake'
    BY <1>1, <1>2 DEF Handshake
  <1>6. QED BY <1>1, <1>3, <1>4, <1>5, Undisturbed DEF AnswerInv, AnswerTypes

LEMMA InHandshake ==
  ASSUME AnswerInv, worker.at # "idle"
  PROVE  /\ worker # Idle /\ worker.sock \in Sock
         /\ state[worker.sock] = "open"
         /\ fdOf[worker.sock] \in Fd /\ kernel[fdOf[worker.sock]] = worker.sock
  <1>1. worker # Idle
    BY DEF Idle
  <1>2. worker.sock \in Sock
    BY <1>1 DEF AnswerInv, AnswerTypes, WorkerTypes
  <1>3. state[worker.sock] = "open"
    BY <1>1 DEF AnswerInv, AnswerTypes, Handshake
  <1>4. QED BY <1>1, <1>2, <1>3 DEF AnswerInv, AnswerTypes, Births

LEMMA AccountCopied ==
  ASSUME AnswerInv, CopyAccount
  PROVE  AnswerInv'
  <1>1. /\ worker.at = "strncpy"
        /\ worker' = IF worker.account = Refused THEN Idle ELSE [worker EXCEPT !.at = "insert"]
        /\ UNCHANGED << state, fdOf, kernel, fds, isOk, socks, luaQueue, sender, lua, output, reused >>
    BY DEF CopyAccount, tables, ghosts
  <1>2. worker \in [at : {"strncpy"}, sock : Sock, account : Account \cup {Refused}]
    BY <1>1 DEF AnswerInv, AnswerTypes, WorkerTypes, Idle
  <1>3. state[worker.sock] = "open"
    BY <1>1, InHandshake
  <1>4. TableInv'
    BY <1>1, OthersKeepTables DEF tableVars, AnswerInv
  <1>5. WorkerTypes'
    BY <1>1, <1>2 DEF WorkerTypes
  <1>6. Handshake'
    BY <1>1, <1>2, <1>3 DEF Handshake, Idle
  <1>7. QED BY <1>1, <1>4, <1>5, <1>6, Undisturbed DEF AnswerInv, AnswerTypes

(* The new entry takes the place of one whose socket is gone: the open      *)
(* socket of its descriptor is the one that logs in.                        *)
LEMMA EntryInserted ==
  ASSUME AnswerInv, InsertSocket
  PROVE  AnswerInv'
  <1> DEFINE s == worker.sock
             fd == fdOf[s]
  <1>1. /\ worker.at = "insert" /\ sender = Idle /\ lua.at # "setOk"
        /\ socks' = [f \in DOMAIN socks \cup {fd} |->
                       IF f # fd THEN socks[f] ELSE [sock |-> s, msgs |-> << >>]]
        /\ worker' = [worker EXCEPT !.at = "push"]
        /\ UNCHANGED << state, fdOf, kernel, fds, isOk, luaQueue, sender, lua, output, reused >>
    BY DEF InsertSocket, perSocket, ghosts, SocksFree
  <1>2. /\ s \in Sock /\ state[s] = "open"
        /\ fd \in Fd /\ kernel[fd] = s
    BY <1>1, InHandshake
  <1>3. TableInv'
    BY <1>1, OthersKeepTables DEF tableVars, AnswerInv
  <1>4. WorkerTypes'
    <2>1. worker \in [at : {"insert", "push"}, sock : Sock, account : Account]
      BY <1>1 DEF AnswerInv, AnswerTypes, WorkerTypes, Idle
    <2>2. QED BY <1>1, <2>1 DEF WorkerTypes
  <1>5. fd \in DOMAIN socks' /\ socks'[fd] = [sock |-> s, msgs |-> << >>]
    BY <1>1
  <1>6. \A f \in DOMAIN socks : f # fd => f \in DOMAIN socks' /\ socks'[f] = socks[f]
    BY <1>1
  <1>7. DOMAIN socks' = DOMAIN socks \cup {fd}
    BY <1>1
  <1> HIDE DEF s, fd
  <1>8. EntryTypes'
    BY <1>1, <1>2, <1>5, <1>6, <1>7 DEF AnswerInv, AnswerTypes, EntryTypes, Entry, fd
  <1>9. SenderTypes'
    BY <1>1 DEF AnswerInv, AnswerTypes, SenderTypes
  <1>10. \A t \in Sock : HasEntry(t) /\ (fdOf[t] = fd => t = s) => HasEntry(t)'
    BY <1>1, <1>5, <1>6, <1>7 DEF HasEntry
  <1>11. Handshake'
    <2>1. worker'.sock = s /\ fdOf'[s] = fd
      BY <1>1 DEF s, fd, AnswerInv, AnswerTypes, WorkerTypes
    <2>2. QED BY <1>1, <1>2, <1>5, <1>7, <2>1 DEF Handshake, HasEntry
  <1>12. Validated'
    BY <1>1, <1>2, <1>10 DEF AnswerInv, AnswerTypes, Validated, Births
  <1>f. Found'
    BY <1>1 DEF Found
  <1>13. ASSUME OnTheWay PROVE OnTheWay'
    <2>1. \A f \in Fd, t \in Sock : Known(f, t) => Known(f, t)'
      BY <1>1, <1>2, <1>10, SockNotNone DEF Known, HasEntry
    <2>2. QED BY <1>1, <1>13, <2>1, StillOnTheWay DEF AnswerInv, AnswerTypes
  <1>14. ASSUME Queued PROVE Queued'
    BY <1>5, <1>6, <1>7, <1>14 DEF Queued
  <1>15. QED
    BY <1>1, <1>3, <1>4, <1>8, <1>9, <1>11, <1>12, <1>f, <1>13, <1>14, Undisturbed
       DEF AnswerInv, AnswerTypes

-------------------------------------------------------------------------------

(* A packet of a known socket is on its way to the script. *)
LEMMA Queues ==
  ASSUME AnswerInv, NEW m \in Packet, Known(m.fd, m.from), luaQueue' = Append(luaQueue, m),
         UNCHANGED << fdOf, kernel, socks, lua >>
  PROVE  LuaTypes' /\ (OnTheWay => OnTheWay')
  <1>1. LuaTypes /\ luaQueue \in Seq(Packet)
    BY DEF AnswerInv, AnswerTypes, LuaTypes
  <1>2. LuaTypes'
    BY <1>1 DEF LuaTypes
  <1>3. ASSUME OnTheWay, NEW i \in 1 .. Len(luaQueue')
        PROVE  Known(luaQueue'[i].fd, luaQueue'[i].from)
    <2>1. CASE i = Len(luaQueue) + 1
      BY <1>1, <2>1
    <2>2. CASE i # Len(luaQueue) + 1
      <3>1. i \in 1 .. Len(luaQueue) /\ luaQueue'[i] = luaQueue[i]
        BY <1>1, <2>2
      <3>2. QED BY <1>3, <3>1 DEF OnTheWay
    <2>3. QED BY <2>1, <2>2
  <1>4. QED BY <1>2, <1>3 DEF OnTheWay, Known, HasEntry

LEMMA LoginPushed ==
  ASSUME AnswerInv, PushLogin
  PROVE  AnswerInv'
  <1> DEFINE m == Message("login", worker.sock, worker.account)
  <1>1. /\ worker.at = "push" /\ worker' = Idle
        /\ luaQueue' = Append(luaQueue, m)
        /\ UNCHANGED << state, fdOf, kernel, fds, isOk, socks, sender, lua, output, reused >>
    BY DEF PushLogin, perSocket, ghosts
  <1>2. /\ worker.sock \in Sock
        /\ fdOf[worker.sock] \in Fd /\ kernel[fdOf[worker.sock]] = worker.sock
        /\ HasEntry(worker.sock)
    BY <1>1, InHandshake DEF AnswerInv, AnswerTypes, Handshake
  <1>3. worker.account \in Account
    BY <1>1 DEF AnswerInv, AnswerTypes, WorkerTypes, Idle
  <1>4. m \in Packet /\ Known(m.fd, m.from)
    BY <1>2, <1>3 DEF Packet, Message, Known
  <1> HIDE DEF m
  <1>5. LuaTypes' /\ (OnTheWay => OnTheWay')
    BY <1>1, <1>4, Queues
  <1>6. TableInv'
    BY <1>1, OthersKeepTables DEF tableVars, AnswerInv
  <1>7. WorkerTypes' /\ Handshake'
    BY <1>1 DEF WorkerTypes, Handshake, Idle
  <1>8. QED BY <1>1, <1>5, <1>6, <1>7, Undisturbed DEF AnswerInv, AnswerTypes

LEMMA MessageHandled ==
  ASSUME AnswerInv, NEW s \in Sock, HandleMessage(s)
  PROVE  AnswerInv'
  <1> DEFINE m == Message("game", s, NoAccount)
  <1>1. /\ worker = Idle /\ state[s] = "open" /\ fdOf[s] \in Fd
        /\ fds[fdOf[s]] = s /\ kernel[fdOf[s]] = s
    BY EventOfOpen DEF HandleMessage, Sends, AnswerInv
  <1>2. UNCHANGED << fdOf, isOk, socks, worker, sender, lua, output, reused >>
    BY DEF HandleMessage, threads, ghosts
  <1>3. CASE isOk[s]
    <2>1. luaQueue' = Append(luaQueue, m) /\ UNCHANGED << state, fds, kernel >>
      BY <1>3 DEF HandleMessage
    <2>2. HasEntry(s)
      BY <1>1, <1>3 DEF AnswerInv, AnswerTypes, Validated
    <2>3. m \in Packet /\ Known(m.fd, m.from)
      BY <1>1, <2>2 DEF Packet, Message, Known
    <2> HIDE DEF m
    <2>4. LuaTypes' /\ (OnTheWay => OnTheWay')
      BY <1>2, <2>1, <2>3, Queues
    <2>5. TableInv'
      BY <1>2, <2>1, OthersKeepTables DEF tableVars, AnswerInv
    <2>6. QED BY <1>2, <2>1, <2>4, <2>5, Undisturbed DEF AnswerInv, AnswerTypes
  <1>4. CASE ~isOk[s]
    <2>1. Disconnect(s) /\ UNCHANGED luaQueue
      BY <1>4 DEF HandleMessage
    <2>2. QED BY <1>1, <1>2, <2>1, Gone
  <1>5. QED BY <1>3, <1>4

(* The script: a login is validated on the socket that the entry of its     *)
(* descriptor holds.                                                        *)
LEMMA MessageTaken ==
  ASSUME AnswerInv, HandleMsg
  PROVE  AnswerInv'
  <1> DEFINE m == Head(luaQueue)
             t == socks[m.fd].sock
  <1>1. /\ luaQueue # << >> /\ luaQueue' = Tail(luaQueue)
        /\ \/ lua' = [at |-> "script", fd |-> m.fd, from |-> m.from, kind |-> m.kind]
           \/ /\ lua' = [at |-> "setOk", fd |-> m.fd, from |-> m.from, kind |-> m.kind,
                         sock |-> t, account |-> m.account]
              /\ m.kind = "login" /\ m.fd \in DOMAIN socks
        /\ UNCHANGED << state, fdOf, kernel, fds, isOk, socks, worker, sender, output, reused >>
    BY DEF HandleMsg, ValidateSocket, Run, perSocket
  <1>2. /\ luaQueue \in Seq(Packet) /\ m = luaQueue[1] /\ 1 \in 1 .. Len(luaQueue)
        /\ m \in Packet
    BY <1>1 DEF AnswerInv, AnswerTypes, LuaTypes
  <1>3. TableInv'
    BY <1>1, OthersKeepTables DEF tableVars, AnswerInv
  <1>4. m.fd \in DOMAIN socks => t \in Sock
    BY DEF AnswerInv, AnswerTypes, EntryTypes, Entry
  <1> HIDE DEF m
  <1>5. LuaTypes'
    BY <1>1, <1>2, <1>4 DEF LuaTypes, Packet
  <1>6. Found'
    BY <1>1 DEF Found
  <1>7. lua'.fd = m.fd /\ lua'.from = m.from
    BY <1>1
  <1>8. ASSUME OnTheWay PROVE OnTheWay'
    <2>1. Known(m.fd, m.from)
      BY <1>2, <1>8 DEF OnTheWay
    <2>2. ASSUME NEW i \in 1 .. Len(luaQueue') PROVE Known(luaQueue'[i].fd, luaQueue'[i].from)
      <3>1. i + 1 \in 1 .. Len(luaQueue) /\ luaQueue'[i] = luaQueue[i + 1]
        BY <1>1, <1>2
      <3>2. QED BY <1>8, <3>1 DEF OnTheWay
    <2>3. QED BY <1>1, <1>7, <2>1, <2>2 DEF OnTheWay, Known, HasEntry
  <1>9. QED BY <1>1, <1>3, <1>5, <1>6, <1>8, Undisturbed DEF AnswerInv, AnswerTypes

(* The socket that is found has its entry: so the validated ones have.      *)
LEMMA FoundHasEntry ==
  ASSUME AnswerInv, lua.at = "setOk"
  PROVE  /\ lua \in [at : {"setOk"}, fd : Fd, from : Sock, kind : {"login"},
                   sock : Sock, account : Account \cup {NoAccount}]
         /\ lua.sock \in Sock /\ fdOf[lua.sock] = lua.fd /\ lua.fd \in Fd
         /\ HasEntry(lua.sock)
  <1>1. lua \in [at : {"setOk"}, fd : Fd, from : Sock, kind : {"login"},
                sock : Sock, account : Account \cup {NoAccount}]
    BY DEF AnswerInv, AnswerTypes, LuaTypes, Idle
  <1>2. lua.fd \in DOMAIN socks /\ socks[lua.fd].sock = lua.sock
    BY DEF AnswerInv, AnswerTypes, Found
  <1>3. QED BY <1>1, <1>2 DEF AnswerInv, AnswerTypes, EntryTypes, HasEntry

LEMMA SocketOKSet ==
  ASSUME AnswerInv, SetSocketOK
  PROVE  AnswerInv'
  <1> DEFINE s == lua.sock
  <1>1. /\ lua.at = "setOk"
        /\ isOk' = [isOk EXCEPT ![s] = TRUE]
        /\ lua' = [at |-> "script", fd |-> lua.fd, from |-> lua.from, kind |-> lua.kind]
        /\ UNCHANGED << state, fdOf, kernel, fds, socks, luaQueue, worker, sender, output, reused >>
    BY DEF SetSocketOK, tables
  <1>2. /\ lua \in [at : {"setOk"}, fd : Fd, from : Sock, kind : {"login"},
                  sock : Sock, account : Account \cup {NoAccount}]
        /\ s \in Sock /\ fdOf[s] \in Fd /\ HasEntry(s)
    BY <1>1, FoundHasEntry
  <1>3. TableInv'
    BY <1>1, OthersKeepTables DEF tableVars, AnswerInv
  <1> HIDE DEF s
  <1>4. LuaTypes' /\ Found'
    BY <1>1, <1>2 DEF LuaTypes, Found, AnswerInv, AnswerTypes
  <1>5. \A t \in Sock : t # s => isOk'[t] = isOk[t]
    BY <1>1, <1>2 DEF AnswerInv, AnswerTypes, Validated
  <1>6. Births'
    BY <1>1, <1>2, <1>5, FdNotNone DEF AnswerInv, AnswerTypes, Births
  <1>7. Validated'
    BY <1>1, <1>2, <1>5 DEF AnswerInv, AnswerTypes, Validated, HasEntry
  <1>8. lua # Idle /\ lua'.fd = lua.fd /\ lua'.from = lua.from
    BY <1>1 DEF Idle
  <1>9. OnTheWay => OnTheWay'
    BY <1>1, <1>8 DEF OnTheWay, Known, HasEntry
  <1>10. QED
    BY <1>1, <1>3, <1>4, <1>6, <1>7, <1>9, Undisturbed DEF AnswerInv, AnswerTypes

-------------------------------------------------------------------------------

(* Entries whose messages change, not their socket. *)
SameEntries ==
  /\ DOMAIN socks' = DOMAIN socks
  /\ \A fd \in DOMAIN socks : socks'[fd] \in Entry /\ socks'[fd].sock = socks[fd].sock

LEMMA MessagesMove ==
  ASSUME AnswerInv, SameEntries, lua' \in {lua, Idle},
         UNCHANGED << tableVars, isOk, luaQueue, worker >>
  PROVE  /\ TableInv'
         /\ WorkerTypes' /\ LuaTypes' /\ EntryTypes'
         /\ Births' /\ Handshake' /\ Validated' /\ Found'
         /\ OnTheWay => OnTheWay'
  <1>1. UNCHANGED << state, fdOf, kernel, fds >> /\ TableInv'
    BY OthersKeepTables DEF AnswerInv, tableVars
  <1>2. WorkerTypes' /\ Births'
    BY <1>1, Undisturbed DEF AnswerInv, AnswerTypes
  <1>3. LuaTypes'
    BY DEF AnswerInv, AnswerTypes, LuaTypes
  <1>4. EntryTypes'
    BY <1>1 DEF AnswerInv, AnswerTypes, EntryTypes, SameEntries
  <1>5. \A t \in Sock : HasEntry(t) => HasEntry(t)'
    BY <1>1 DEF SameEntries, HasEntry
  <1>6. Validated'
    BY <1>1, <1>5 DEF AnswerInv, AnswerTypes, Validated
  <1>7. Handshake'
    <2>1. worker.at = "push" => HasEntry(worker.sock)'
      BY <1>5, <1>1, InHandshake DEF AnswerInv, AnswerTypes, Handshake, SameEntries, HasEntry
    <2>2. QED BY <1>1, <2>1 DEF AnswerInv, AnswerTypes, Handshake
  <1>8. \A f \in Fd, t \in Sock : Known(f, t) => Known(f, t)'
    BY <1>1, <1>5 DEF Known, HasEntry
  <1>9. OnTheWay => OnTheWay'
    BY <1>8, StillOnTheWay DEF AnswerInv, AnswerTypes
  <1>10. Found'
    BY DEF Found, SameEntries, Idle, AnswerInv, AnswerTypes
  <1>11. QED BY <1>1, <1>2, <1>3, <1>4, <1>6, <1>7, <1>9, <1>10

(* One more message for the socket of an entry. *)
LEMMA AnswerQueued ==
  ASSUME AnswerInv, NEW fd \in DOMAIN socks, NEW t \in Sock, sender = Idle,
         lua' \in {lua, Idle},
         socks' = [socks EXCEPT ![fd].msgs = Append(@, t)],
         ~reused /\ OnTheWay => t = socks[fd].sock,
         UNCHANGED << tableVars, isOk, luaQueue, worker, sender, output, reused >>
  PROVE  AnswerInv'
  <1>1. \A f \in DOMAIN socks : socks[f] \in Entry
    BY DEF AnswerInv, AnswerTypes, EntryTypes
  <1>2. /\ DOMAIN socks' = DOMAIN socks
        /\ \A f \in DOMAIN socks : f # fd => socks'[f] = socks[f]
        /\ socks'[fd] = [socks[fd] EXCEPT !.msgs = Append(@, t)]
    OBVIOUS
  <1>3. /\ socks'[fd].sock = socks[fd].sock
        /\ socks'[fd].msgs = Append(socks[fd].msgs, t)
        /\ socks[fd].msgs \in Seq(Sock) /\ socks'[fd] \in Entry
    <2>1. socks[fd] \in [sock : Sock, msgs : Seq(Sock)]
      BY <1>1 DEF Entry
    <2>2. socks'[fd].sock = socks[fd].sock /\ socks'[fd].msgs = Append(socks[fd].msgs, t)
      BY <1>2, <2>1
    <2>3. socks[fd].msgs \in Seq(Sock) /\ socks[fd].sock \in Sock
      BY <2>1
    <2>4. Append(socks[fd].msgs, t) \in Seq(Sock)
      BY <2>3
    <2>5. socks'[fd] \in [sock : Sock, msgs : Seq(Sock)]
      BY <1>2, <2>1, <2>4
    <2>6. QED BY <2>2, <2>3, <2>5 DEF Entry
  <1>a. /\ Len(socks'[fd].msgs) = Len(socks[fd].msgs) + 1
        /\ Len(socks[fd].msgs) \in Nat
        /\ socks'[fd].msgs[Len(socks[fd].msgs) + 1] = t
        /\ \A i \in 1 .. Len(socks[fd].msgs) : socks'[fd].msgs[i] = socks[fd].msgs[i]
    <2> DEFINE seq == socks[fd].msgs
    <2>1. seq \in Seq(Sock)
      BY <1>3
    <2>2. socks'[fd].msgs = Append(seq, t)
      BY <1>3
    <2> HIDE DEF seq
    <2>3. /\ Len(Append(seq, t)) = Len(seq) + 1 /\ Len(seq) \in Nat
          /\ Append(seq, t)[Len(seq) + 1] = t
          /\ \A i \in 1 .. Len(seq) : Append(seq, t)[i] = seq[i]
      BY <2>1, AppendProperties
    <2>4. QED BY <2>2, <2>3 DEF seq
  <1>4. SameEntries
    BY <1>1, <1>2, <1>3 DEF SameEntries
  <1>5. SenderTypes'
    BY DEF AnswerInv, AnswerTypes, SenderTypes
  <1>6. ASSUME ~reused, OnTheWay, Queued PROVE Queued'
    <2>1. ASSUME NEW f \in DOMAIN socks, NEW i \in 1 .. Len(socks'[f].msgs)
          PROVE  socks'[f].msgs[i] = socks'[f].sock
      <3>1. CASE f # fd
        BY <1>2, <1>6, <2>1, <3>1 DEF Queued
      <3>2. CASE f = fd
        <4>1. CASE i = Len(socks[fd].msgs) + 1
          <5>1. socks'[fd].msgs[i] = t
            BY <1>a, <4>1
          <5>2. t = socks[fd].sock
            BY <1>6
          <5>3. QED BY <1>3, <3>2, <5>1, <5>2
        <4>2. CASE i # Len(socks[fd].msgs) + 1
          <5>1. i \in 1 .. Len(socks[fd].msgs)
            BY <1>a, <2>1, <3>2, <4>2
          <5>2. socks'[fd].msgs[i] = socks[fd].msgs[i]
            BY <1>a, <5>1
          <5>3. QED BY <1>3, <1>6, <3>2, <5>1, <5>2 DEF Queued
        <4>3. QED BY <4>1, <4>2
      <3>3. QED BY <3>1, <3>2
    <2>2. QED BY <1>2, <2>1 DEF Queued
  <1>7. QED BY <1>4, <1>5, <1>6, MessagesMove, Undisturbed DEF AnswerInv, AnswerTypes

LEMMA Answered ==
  ASSUME AnswerInv, PushMsgToSock
  PROVE  AnswerInv'
  <1>1. /\ lua # Idle /\ lua.at = "script" /\ sender = Idle /\ lua.fd \in DOMAIN socks
        /\ socks' = [socks EXCEPT ![lua.fd].msgs = Append(@, lua.from)]
        /\ lua' = Idle
        /\ UNCHANGED << tableVars, isOk, luaQueue, worker, sender, output, reused >>
    BY DEF PushMsgToSock, SocksFree, perSocket, ghosts, tableVars, Idle
  <1>2. lua.from \in Sock
    BY <1>1 DEF AnswerInv, AnswerTypes, LuaTypes
  <1>3. OnTheWay => lua.from = socks[lua.fd].sock
    BY <1>1 DEF OnTheWay, Known, HasEntry
  <1>4. QED BY <1>1, <1>2, <1>3, AnswerQueued

LEMMA ScriptSent ==
  ASSUME AnswerInv, NEW fd \in Fd, ScriptSends(fd)
  PROVE  AnswerInv'
  <1> DEFINE s == socks[fd].sock
  <1>1. /\ sender = Idle /\ fd \in DOMAIN socks /\ socks[fd].msgs = << >>
        /\ socks' = [socks EXCEPT ![fd].msgs = << s >>]
        /\ UNCHANGED << tableVars, isOk, luaQueue, worker, sender, lua, output, reused >>
    BY DEF ScriptSends, SocksFree, perSocket, ghosts, tableVars, threads
  <1>2. s \in Sock
    BY <1>1 DEF AnswerInv, AnswerTypes, EntryTypes, Entry
  <1>3. socks' = [socks EXCEPT ![fd].msgs = Append(@, s)]
    BY <1>1
  <1>4. QED BY <1>1, <1>2, <1>3, AnswerQueued

LEMMA NotAnswered ==
  ASSUME AnswerInv, NoAnswer
  PROVE  AnswerInv'
  <1>1. /\ lua' = Idle
        /\ UNCHANGED << tableVars, isOk, socks, luaQueue, worker, sender, output, reused >>
    BY DEF NoAnswer, perSocket, tables, ghosts, tableVars
  <1>2. SameEntries
    BY <1>1 DEF SameEntries, AnswerInv, AnswerTypes, EntryTypes
  <1>3. QED BY <1>1, <1>2, MessagesMove, Undisturbed DEF AnswerInv, AnswerTypes

-------------------------------------------------------------------------------

(* The send thread and the worker move what is written, nothing else. *)
LEMMA OnlyWritten ==
  ASSUME AnswerInv, SenderTypes', ~reused /\ Written => Written',
         UNCHANGED << tableVars, isOk, socks, luaQueue, worker, lua, reused >>
  PROVE  AnswerInv'
  <1>1. SameEntries
    BY DEF SameEntries, AnswerInv, AnswerTypes, EntryTypes
  <1>2. QED BY <1>1, MessagesMove, Undisturbed DEF AnswerInv, AnswerTypes

LEMMA SendBegun ==
  ASSUME AnswerInv, SendBegin
  PROVE  AnswerInv'
  <1>1. /\ sender' = [at |-> "scan", todo |-> DOMAIN socks]
        /\ UNCHANGED << tableVars, isOk, socks, luaQueue, worker, lua, output, reused >>
    BY DEF SendBegin, perSocket, tables, ghosts, tableVars
  <1>2. DOMAIN socks \in SUBSET Fd
    BY DEF AnswerInv, AnswerTypes, EntryTypes
  <1>3. SenderTypes' /\ (Written => Written')
    BY <1>1, <1>2 DEF SenderTypes, Written, AnswerInv, AnswerTypes
  <1>4. QED BY <1>1, <1>3, OnlyWritten

LEMMA SendEnded ==
  ASSUME AnswerInv, SendEnd
  PROVE  AnswerInv'
  <1>1. /\ sender' = Idle
        /\ UNCHANGED << tableVars, isOk, socks, luaQueue, worker, lua, output, reused >>
    BY DEF SendEnd, perSocket, tables, ghosts, tableVars
  <1>2. SenderTypes' /\ (Written => Written')
    BY <1>1 DEF SenderTypes, Written, AnswerInv, AnswerTypes, Idle
  <1>3. QED BY <1>1, <1>2, OnlyWritten

LEMMA Scanned ==
  ASSUME SenderTypes, sender.at \in {"scan", "send", "post"}
  PROVE  /\ sender # Idle /\ sender.todo \in SUBSET Fd /\ sender.todo \subseteq DOMAIN socks
         /\ sender.at \in {"send", "post"} =>
              sender \in [at : {"send", "post"}, todo : SUBSET Fd, sock : Sock, msg : Sock]
         /\ sender.at = "scan" => sender \in [at : {"scan"}, todo : SUBSET Fd]
  <1>1. sender # Idle
    BY DEF Idle
  <1>2. QED BY <1>1 DEF SenderTypes

LEMMA EventPosted ==
  ASSUME AnswerInv, PostEvent
  PROVE  AnswerInv'
  <1>1. /\ sender.at = "post" /\ sender' = Scanning
        /\ UNCHANGED << tableVars, isOk, socks, luaQueue, worker, lua, output, reused >>
    BY DEF PostEvent, perSocket, ghosts, tableVars
  <1>2. sender.todo \in SUBSET Fd /\ sender.todo \subseteq DOMAIN socks
    BY <1>1, Scanned DEF AnswerInv, AnswerTypes
  <1>3. SenderTypes' /\ (Written => Written')
    BY <1>1, <1>2 DEF SenderTypes, Written, Scanning, AnswerInv, AnswerTypes
  <1>4. QED BY <1>1, <1>3, OnlyWritten

LEMMA BurstSent ==
  ASSUME AnswerInv, BurstSend
  PROVE  AnswerInv'
  <1> DEFINE s == sender.sock
  <1>1. /\ sender.at = "send"
        /\ \/ output' = [output EXCEPT ![s] = Append(@, sender.msg)]
           \/ UNCHANGED output
        /\ sender' \in {[sender EXCEPT !.at = "post"], Scanning}
        /\ UNCHANGED << tableVars, isOk, socks, luaQueue, worker, lua, reused >>
    BY DEF BurstSend, tables, ghosts, tableVars
  <1>2. /\ sender \in [at : {"send", "post"}, todo : SUBSET Fd, sock : Sock, msg : Sock]
        /\ sender.todo \subseteq DOMAIN socks
        /\ output \in [Sock -> Seq(Sock)]
    BY <1>1, Scanned DEF AnswerInv, AnswerTypes, SenderTypes
  <1>3. s \in Sock /\ sender.msg \in Sock /\ sender.todo \in SUBSET Fd
    BY <1>2
  <1>4. /\ sender' \in [at : {"scan"}, todo : SUBSET Fd]
                     \cup [at : {"send", "post"}, todo : SUBSET Fd, sock : Sock, msg : Sock]
        /\ sender'.todo = sender.todo /\ sender'.at # "send"
    BY <1>1, <1>2 DEF Scanning
  <1> HIDE DEF s
  <1>5. output' \in [Sock -> Seq(Sock)]
    <2>1. Append(output[s], sender.msg) \in Seq(Sock)
      BY <1>2, <1>3
    <2>2. QED BY <1>1, <1>2, <1>3, <2>1
  <1>6. SenderTypes'
    BY <1>1, <1>2, <1>4, <1>5 DEF SenderTypes
  <1>7. ASSUME Written PROVE Written'
    <2>1. sender.msg = s
      BY <1>1, <1>7 DEF Written, s
    <2>2. ASSUME NEW t \in Sock, NEW i \in 1 .. Len(output'[t]) PROVE output'[t][i] = t
      <3>1. CASE UNCHANGED output \/ t # s
        <4>1. output'[t] = output[t]
          BY <1>1, <1>2, <1>3, <3>1
        <4>2. QED BY <1>7, <2>2, <4>1 DEF Written
      <3>2. CASE output' = [output EXCEPT ![s] = Append(@, sender.msg)] /\ t = s
        <4>1. output'[s] = Append(output[s], s) /\ output[s] \in Seq(Sock)
          BY <1>2, <1>3, <2>1, <3>2
        <4>2. CASE i = Len(output[s]) + 1
          BY <3>2, <4>1, <4>2
        <4>3. CASE i # Len(output[s]) + 1
          <5>1. i \in 1 .. Len(output[s]) /\ output'[s][i] = output[s][i]
            BY <2>2, <3>2, <4>1, <4>3
          <5>2. QED BY <1>7, <1>3, <3>2, <5>1 DEF Written
        <4>4. QED BY <4>2, <4>3
      <3>3. QED BY <1>1, <3>1, <3>2
    <2>3. QED BY <1>4, <2>2 DEF Written
  <1>8. QED BY <1>1, <1>6, <1>7, OnlyWritten

LEMMA Flushed ==
  ASSUME AnswerInv, NEW s \in Sock, WriteCallback(s)
  PROVE  AnswerInv'
  <1>1. /\ output' = [output EXCEPT ![s] = << >>]
        /\ UNCHANGED << tableVars, isOk, socks, luaQueue, worker, sender, lua, reused >>
    BY DEF WriteCallback, ghosts, tableVars, threads
  <1>2. output \in [Sock -> Seq(Sock)]
    BY DEF AnswerInv, AnswerTypes, SenderTypes
  <1>3. SenderTypes'
    <2>1. << >> \in Seq(Sock)
      OBVIOUS
    <2>2. output' \in [Sock -> Seq(Sock)]
      BY <1>1, <1>2, <2>1
    <2>3. QED BY <1>1, <2>2 DEF SenderTypes, AnswerInv, AnswerTypes
  <1>4. ASSUME Written PROVE Written'
    <2>1. output'[s] = << >> /\ \A t \in Sock : t # s => output'[t] = output[t]
      BY <1>1, <1>2
    <2>2. QED BY <1>1, <1>4, <2>1 DEF Written
  <1>5. QED BY <1>1, <1>3, <1>4, OnlyWritten

(* What is taken from an entry is for its socket. *)
LEMMA MessageGot ==
  ASSUME AnswerInv, GetMsg
  PROVE  AnswerInv'
  <1>1. PICK fd \in sender.todo :
          LET s == socks[fd].sock IN
          \/ /\ sender' = [sender EXCEPT !.todo = @ \ {fd}]
             /\ UNCHANGED socks
          \/ /\ socks[fd].msgs # << >>
             /\ sender' = [at |-> "send", todo |-> sender.todo, sock |-> s,
                           msg |-> Head(socks[fd].msgs)]
             /\ socks' = [socks EXCEPT ![fd].msgs = Tail(@)]
          \/ /\ socks' = [socks EXCEPT ![fd].msgs = << >>]
             /\ UNCHANGED sender
    BY DEF GetMsg
  <1>2. /\ sender.at = "scan"
        /\ UNCHANGED << tableVars, isOk, luaQueue, worker, lua, output, reused >>
    BY DEF GetMsg, perSocket, tableVars
  <1>3. /\ sender # Idle /\ sender.todo \in SUBSET Fd /\ sender.todo \subseteq DOMAIN socks
        /\ sender \in [at : {"scan"}, todo : SUBSET Fd]
        /\ fd \in DOMAIN socks
        /\ output \in [Sock -> Seq(Sock)]
    BY <1>2, Scanned DEF AnswerInv, AnswerTypes, SenderTypes
  <1>4. /\ socks[fd] \in [sock : Sock, msgs : Seq(Sock)]
        /\ \A f \in DOMAIN socks : socks[f] \in Entry
    BY <1>3 DEF AnswerInv, AnswerTypes, EntryTypes, Entry
  <1>5. socks[fd].sock \in Sock /\ socks[fd].msgs \in Seq(Sock)
    BY <1>4
  <1>6. CASE sender' = [sender EXCEPT !.todo = @ \ {fd}] /\ UNCHANGED socks
    <2>1. sender' \in [at : {"scan"}, todo : SUBSET Fd] /\ sender'.todo \subseteq DOMAIN socks
      BY <1>3, <1>6
    <2>2. SenderTypes' /\ (Written => Written')
      BY <1>2, <1>3, <1>6, <2>1 DEF SenderTypes, Written
    <2>3. QED BY <1>2, <1>6, <2>2, OnlyWritten
  <1>7. ASSUME NEW rest \in Seq(Sock), socks' = [socks EXCEPT ![fd].msgs = rest]
        PROVE  /\ SameEntries
               /\ socks'[fd].msgs = rest
               /\ \A f \in DOMAIN socks : f # fd => socks'[f] = socks[f]
    <2>1. socks'[fd] = [socks[fd] EXCEPT !.msgs = rest]
      BY <1>3, <1>7
    <2>2. socks'[fd].sock = socks[fd].sock /\ socks'[fd] \in Entry /\ socks'[fd].msgs = rest
      BY <1>4, <2>1 DEF Entry
    <2>3. QED BY <1>3, <1>4, <1>7, <2>2 DEF SameEntries
  <1>8. CASE /\ socks[fd].msgs # << >>
             /\ sender' = [at |-> "send", todo |-> sender.todo, sock |-> socks[fd].sock,
                           msg |-> Head(socks[fd].msgs)]
             /\ socks' = [socks EXCEPT ![fd].msgs = Tail(@)]
    <2> DEFINE q == socks[fd].msgs
    <2>1. /\ Tail(q) \in Seq(Sock) /\ Head(q) \in Sock /\ Head(q) = q[1] /\ Len(q) > 0
          /\ \A i \in 1 .. Len(Tail(q)) : i + 1 \in 1 .. Len(q) /\ Tail(q)[i] = q[i + 1]
      BY <1>5, <1>8
    <2>2. /\ SameEntries /\ socks'[fd].msgs = Tail(q)
          /\ \A f \in DOMAIN socks : f # fd => socks'[f] = socks[f]
      BY <1>3, <1>7, <1>8, <2>1
    <2>3. SenderTypes'
      BY <1>2, <1>3, <1>5, <1>8, <2>1, <2>2 DEF SenderTypes, SameEntries
    <2>4. ASSUME Queued, Written PROVE Queued' /\ Written'
      <3>1. \A i \in 1 .. Len(q) : q[i] = socks[fd].sock
        BY <1>3, <2>4 DEF Queued
      <3>2. Head(q) = socks[fd].sock
        BY <1>5, <2>1, <3>1
      <3>3. Written'
        BY <1>2, <1>8, <2>4, <3>2 DEF Written
      <3>4. socks'[fd].sock = socks[fd].sock
        BY <1>3, <2>2 DEF SameEntries
      <3>5. \A i \in 1 .. Len(socks'[fd].msgs) : socks'[fd].msgs[i] = socks'[fd].sock
        BY <2>1, <2>2, <3>1, <3>4
      <3>6. Queued'
        BY <2>2, <2>4, <3>5 DEF Queued, SameEntries
      <3>7. QED BY <3>3, <3>6
    <2>5. QED BY <1>2, <2>2, <2>3, <2>4, MessagesMove DEF AnswerInv, AnswerTypes
  <1>9. CASE socks' = [socks EXCEPT ![fd].msgs = << >>] /\ UNCHANGED sender
    <2>1. << >> \in Seq(Sock)
      OBVIOUS
    <2>2. /\ SameEntries /\ socks'[fd].msgs = << >>
          /\ \A f \in DOMAIN socks : f # fd => socks'[f] = socks[f]
      BY <1>7, <1>9, <2>1
    <2>3. SenderTypes' /\ (Written => Written')
      BY <1>2, <1>9, <2>2 DEF SenderTypes, SameEntries, Written, AnswerInv, AnswerTypes
    <2>4. Queued => Queued'
      BY <2>2 DEF Queued, SameEntries
    <2>5. QED BY <1>2, <2>2, <2>3, <2>4, MessagesMove DEF AnswerInv, AnswerTypes
  <1>10. QED BY <1>1, <1>6, <1>8, <1>9

-------------------------------------------------------------------------------

LEMMA AnswersInductive == SessionSpec => []AnswerInv
  <1>1. SessionInit => AnswerInv
    <2> SUFFICES ASSUME SessionInit PROVE AnswerInv
      OBVIOUS
    <2>1. TableInv
      BY SockNotNone DEF SessionInit, TableInv, TableTypes, EventTableExact, TablesAgree
    <2>2. /\ luaQueue = << >> /\ lua = Idle /\ worker = Idle /\ sender = Idle
          /\ socks = << >> /\ output = [s \in Sock |-> << >>]
          /\ isOk = [s \in Sock |-> FALSE] /\ fdOf = [s \in Sock |-> None]
          /\ state = [s \in Sock |-> "unborn"]
      BY DEF SessionInit
    <2>3. << >> \in Seq(Packet) /\ << >> \in Seq(Sock) /\ DOMAIN socks = {}
      BY <2>2
    <2>4. WorkerTypes /\ LuaTypes /\ EntryTypes /\ SenderTypes
      BY <2>2, <2>3 DEF WorkerTypes, LuaTypes, EntryTypes, SenderTypes
    <2>5. Births /\ Handshake /\ Validated /\ Found
      BY <2>2 DEF Births, Handshake, Validated, Found, Idle
    <2>6. OnTheWay /\ Queued /\ Written
      BY <2>2, <2>3 DEF OnTheWay, Queued, Written, Idle
    <2>7. QED BY <2>1, <2>4, <2>5, <2>6 DEF AnswerInv, AnswerTypes
  <1>2. ASSUME AnswerInv, [SessionNext]_sessionVars PROVE AnswerInv'
    <2> USE <1>2
    <2>1. ASSUME NEW s \in Sock, NEW fd \in Fd, OnAccept(s, fd) PROVE AnswerInv'
      BY <2>1, Newborn
    <2>2. ASSUME NEW s \in Sock, Drop(s) PROVE AnswerInv'
      <3>1. fdOf[s] \in Fd /\ fds[fdOf[s]] = s /\ kernel[fdOf[s]] = s /\ worker = Idle
        BY <2>2, EventOfOpen DEF Drop, AnswerInv
      <3>2. QED BY <2>2, <3>1, Gone DEF Drop, threads, ghosts
    <2>3. ASSUME NEW s \in Sock, Collect(s) PROVE AnswerInv'
      BY <2>3, Collected
    <2>4. ASSUME NEW s \in Sock, NEW a \in Account \cup {Refused}, Login(s, a) PROVE AnswerInv'
      BY <2>4, LoginBegun
    <2>5. ASSUME NEW s \in Sock, HandleMessage(s) PROVE AnswerInv'
      BY <2>5, MessageHandled
    <2>6. ASSUME NEW s \in Sock, WriteCallback(s) PROVE AnswerInv'
      BY <2>6, Flushed
    <2>7. CASE HandleValidate
      BY <2>7, AccountCopied, EntryInserted, LoginPushed DEF HandleValidate
    <2>8. CASE HandleMsg \/ Script
      BY <2>8, MessageTaken, SocketOKSet, Answered, NotAnswered DEF Script
    <2>9. ASSUME NEW fd \in Fd, ScriptSends(fd) PROVE AnswerInv'
      BY <2>9, ScriptSent
    <2>10. CASE SendBegin \/ Send
      BY <2>10, SendBegun, MessageGot, BurstSent, EventPosted, SendEnded DEF Send
    <2>11. CASE UNCHANGED sessionVars
      <3>1. /\ UNCHANGED << tableVars, isOk, socks, luaQueue, worker, sender, lua >>
            /\ UNCHANGED << output, reused >>
        BY <2>11 DEF sessionVars, perSocket, tables, threads, ghosts, tableVars
      <3>2. SenderTypes' /\ (Written => Written')
        BY <3>1, Undisturbed DEF AnswerInv, AnswerTypes
      <3>3. QED BY <3>1, <3>2, OnlyWritten
    <2>12. QED
      BY <2>1, <2>2, <2>3, <2>4, <2>5, <2>6, <2>7, <2>8, <2>9, <2>10, <2>11 DEF SessionNext
  <1>3. QED BY <1>1, <1>2, PTL DEF SessionSpec

(* Whatever is written to a client answers (or, unasked, was sent to) that  *)
(* very connection, unless a descriptor was reused while messages of its    *)
(* last session were on their way to the script: InsertSocket clears what   *)
(* the last session left in _socks before the new one can be answered.      *)
THEOREM AnswersReachTheAsker == SessionSpec => []AnswersReachAsker
  <1>1. AnswerInv => AnswersReachAsker
    <2> SUFFICES ASSUME AnswerInv, ~reused, NEW s \in Sock, NEW i \in DOMAIN output[s]
                 PROVE  output[s][i] = s
      BY DEF AnswersReachAsker
    <2>1. output[s] \in Seq(Sock) /\ Written
      BY DEF AnswerInv, AnswerTypes, SenderTypes
    <2>2. QED BY <2>1 DEF Written
  <1>2. QED BY <1>1, AnswersInductive, PTL

-------------------------------------------------------------------------------
(* One account per socket. *)

PlainTypes ==
  /\ account \in [Sock -> Account \cup {NoAccount, Refused}]
  /\ writeLock \in [Sock -> 0 .. Word - 1] /\ sent \in [Sock -> 0 .. MaxMessages]
  /\ event \in [Fd -> {"IN", "OUT"}]
  /\ accepted \in [Sock -> SUBSET (Account \cup {NoAccount})]

LEMMA LockWraps ==
  ASSUME NEW n \in 0 .. Word - 1
  PROVE  (n + Word - 1) % Word \in 0 .. Word - 1
  BY SessionAssumption

LEMMA PlainTypesInductive == SessionSpec => [](AnswerInv /\ PlainTypes)
  <1>1. SessionInit => PlainTypes
    BY SessionAssumption DEF SessionInit, PlainTypes
  <1>2. ASSUME AnswerInv, PlainTypes, [SessionNext]_sessionVars PROVE PlainTypes'
    <2> USE <1>2
    <2>1. ASSUME NEW s \in Sock, NEW fd \in Fd, OnAccept(s, fd) PROVE PlainTypes'
      BY <2>1 DEF PlainTypes, OnAccept
    <2>2. ASSUME NEW s \in Sock, Drop(s) \/ Collect(s) PROVE PlainTypes'
      BY <2>2 DEF PlainTypes, Drop, Collect, ghosts, tables
    <2>3. ASSUME NEW s \in Sock, NEW a \in Account \cup {Refused}, Login(s, a) PROVE PlainTypes'
      BY <2>3, SessionAssumption DEF PlainTypes, Login, Sends, tables
    <2>4. ASSUME NEW s \in Sock, HandleMessage(s) PROVE PlainTypes'
      BY <2>4, SessionAssumption DEF PlainTypes, HandleMessage, Sends, ghosts
    <2>5. ASSUME NEW s \in Sock, WriteCallback(s) PROVE PlainTypes'
      <3>1. /\ writeLock' = [writeLock EXCEPT ![s] = (@ + Word - 1) % Word]
            /\ event' = [event EXCEPT ![fdOf[s]] = "IN"]
            /\ UNCHANGED << account, sent, accepted >>
        BY <2>5 DEF WriteCallback, ghosts
      <3>2. writeLock' \in [Sock -> 0 .. Word - 1]
        BY <3>1, LockWraps DEF PlainTypes
      <3>3. QED BY <3>1, <3>2 DEF PlainTypes
    <2>6. CASE HandleValidate
      <3>1. CopyAccount => PlainTypes'
        <4>1. worker.at = "strncpy" => worker.account \in Account \cup {Refused}
          BY DEF AnswerInv, AnswerTypes, WorkerTypes, Idle
        <4>2. QED BY <4>1 DEF PlainTypes, CopyAccount, ghosts, tables
      <3>2. InsertSocket \/ PushLogin => PlainTypes'
        BY DEF PlainTypes, InsertSocket, PushLogin, perSocket, ghosts
      <3>3. QED BY <2>6, <3>1, <3>2 DEF HandleValidate
    <2>7. CASE HandleMsg \/ PushMsgToSock \/ NoAnswer
      BY <2>7 DEF PlainTypes, HandleMsg, PushMsgToSock, NoAnswer, perSocket, tables, ghosts
    <2>8. CASE SetSocketOK
      <3>1. lua.account \in Account \cup {NoAccount}
        BY <2>8, FoundHasEntry DEF SetSocketOK
      <3>2. /\ accepted' = [accepted EXCEPT ![lua.sock] = @ \cup {lua.account}]
            /\ UNCHANGED << account, writeLock, sent, event >>
        BY <2>8 DEF SetSocketOK, tables
      <3>3. accepted' \in [Sock -> SUBSET (Account \cup {NoAccount})]
        BY <3>1, <3>2 DEF PlainTypes
      <3>4. QED BY <3>2, <3>3 DEF PlainTypes
    <2>9. ASSUME NEW fd \in Fd, ScriptSends(fd) PROVE PlainTypes'
      BY <2>9 DEF PlainTypes, ScriptSends, perSocket, ghosts
    <2>10. CASE SendBegin \/ GetMsg \/ SendEnd
      BY <2>10 DEF PlainTypes, SendBegin, GetMsg, SendEnd, perSocket, tables, ghosts
    <2>11. CASE BurstSend
      BY <2>11, SessionAssumption DEF PlainTypes, BurstSend, tables, ghosts
    <2>12. CASE PostEvent
      BY <2>12 DEF PlainTypes, PostEvent, perSocket, ghosts
    <2>13. CASE UNCHANGED sessionVars
      BY <2>13 DEF PlainTypes, sessionVars, perSocket, tables, ghosts
    <2>14. QED
      BY <2>1, <2>2, <2>3, <2>4, <2>5, <2>6, <2>7, <2>8, <2>9, <2>10, <2>11, <2>12, <2>13
         DEF SessionNext, Script, Send
  <1>3. QED BY <1>1, <1>2, AnswersInductive, PTL DEF SessionSpec

(* The state is what the variables say it is: in particular m_writeLock     *)
(* stays an unsigned counter when the release underflows.                   *)
THEOREM SessionTypeCorrect == SessionSpec => []SessionTypeOK
  <1>1. AnswerInv /\ PlainTypes => SessionTypeOK
    <2> SUFFICES ASSUME AnswerInv, PlainTypes PROVE SessionTypeOK
      OBVIOUS
    <2>1. /\ luaQueue \in Seq(Packet) /\ lua.at \in {"idle", "setOk", "script"}
          /\ worker.at \in {"idle", "strncpy", "insert", "push"}
          /\ sender.at \in {"idle", "scan", "send", "post"}
          /\ output \in [Sock -> Seq(Sock)] /\ isOk \in [Sock -> BOOLEAN]
      BY DEF AnswerInv, AnswerTypes, LuaTypes, WorkerTypes, SenderTypes, Validated, Idle
    <2>2. DOMAIN socks \subseteq Fd /\ \A fd \in DOMAIN socks : socks[fd] \in Entry
      BY DEF AnswerInv, AnswerTypes, EntryTypes
    <2>3. QED
      BY <2>1, <2>2 DEF SessionTypeOK, PlainTypes, AnswerInv, TableInv, TableTypes, Packet, Entry
  <1>2. QED BY <1>1, PlainTypesInductive, PTL

-------------------------------------------------------------------------------

(* What was copied stays until the message to the script is queued. *)
Copied == worker.at \in {"insert", "push"} => account[worker.sock] = worker.account

(* A message carries the descriptor of the object it came from. *)
OfSender ==
  /\ \A i \in 1 .. Len(luaQueue) : luaQueue[i].fd = fdOf[luaQueue[i].from]
  /\ lua # Idle => lua.fd = fdOf[lua.from]

LoginOf(m, s) == m.kind = "login" /\ m.from = s
InQueue(s) == \E i \in 1 .. Len(luaQueue) : LoginOf(luaQueue[i], s)
InScript(s) == lua # Idle /\ LoginOf(lua, s)

(* A socket that sends no second login before the answer has one login on   *)
(* its way at most; from when it has its entry until it is validated there  *)
(* is one, so that no login begins while validateSocket is at it; and what  *)
(* is compared or was accepted is the account it has.                       *)
Unanswered(s) ==
  \/ InQueue(s)
  \/ worker.at = "push" /\ worker.sock = s
  \/ lua.at = "setOk" /\ lua.from = s
Single(s) ==
  /\ worker # Idle /\ worker.sock = s => ~InQueue(s) /\ ~InScript(s)
  /\ worker.at \in {"strncpy", "insert"} /\ worker.sock = s => ~HasEntry(s)
  /\ \A i \in 1 .. Len(luaQueue) :
       LoginOf(luaQueue[i], s) => luaQueue[i].account = account[s]
  /\ HasEntry(s) /\ state[s] = "open" => isOk[s] \/ Unanswered(s)
  /\ lua.at = "setOk" /\ lua.sock = s => lua.account = account[s]
  /\ accepted[s] \subseteq {account[s]} /\ (accepted[s] # {} => isOk[s])

AccountInv ==
  /\ AnswerInv /\ PlainTypes
  /\ Copied /\ OfSender
  /\ \A s \in Sock \ overlapped : Single(s)

LEMMA PendingIs ==
  ASSUME LuaTypes, NEW s
  PROVE  LoginPending(s) <=> InQueue(s) \/ InScript(s)
  <1>1. DOMAIN luaQueue = 1 .. Len(luaQueue)
    BY DEF LuaTypes
  <1>2. QED BY <1>1 DEF LoginPending, InQueue, InScript, LoginOf

LEMMA SendersStay ==
  ASSUME OfSender, UNCHANGED << luaQueue, fdOf >>, UNCHANGED lua \/ lua' = Idle
  PROVE  OfSender'
  BY DEF OfSender

(* The steps that change nothing of this but that sockets open or close,    *)
(* that entries go and that the script ends.                                *)
LEMMA AccountsStay ==
  ASSUME AccountInv, AnswerInv', PlainTypes', OfSender',
         UNCHANGED << worker, account, luaQueue, isOk, accepted, overlapped >>,
         UNCHANGED lua \/ (lua.at = "script" /\ lua' = Idle),
         \A s \in Sock : HasEntry(s)' => HasEntry(s) /\ (state'[s] = "open" => state[s] = "open")
  PROVE  AccountInv'
  <1>1. Copied'
    BY DEF AccountInv, Copied
  <1>2. ASSUME NEW s \in Sock \ overlapped PROVE Single(s)'
    <2>1. Single(s)
      BY DEF AccountInv
    <2>2. InQueue(s)' <=> InQueue(s)
      BY DEF InQueue
    <2>3. InScript(s)' => InScript(s)
      BY DEF InScript
    <2>4. lua'.at = "setOk" <=> lua.at = "setOk"
      BY DEF Idle
    <2>5. lua'.at = "setOk" => lua' = lua
      BY DEF Idle
    <2>6. /\ worker # Idle /\ worker.sock = s => ~InQueue(s)' /\ ~InScript(s)'
          /\ worker.at \in {"strncpy", "insert"} /\ worker.sock = s => ~HasEntry(s)'
      BY <2>1, <2>2, <2>3 DEF Single
    <2>7. HasEntry(s)' /\ state'[s] = "open" => isOk[s] \/ Unanswered(s)'
      BY <2>1, <2>2, <2>4, <2>5 DEF Single, Unanswered
    <2>8. lua'.at = "setOk" /\ lua'.sock = s => lua'.account = account[s]
      BY <2>1, <2>5, <2>4 DEF Single
    <2>9. QED BY <2>1, <2>6, <2>7, <2>8 DEF Single
  <1>3. QED BY <1>1, <1>2 DEF AccountInv

LEMMA QueueGrows ==
  ASSUME LuaTypes, NEW m \in Packet, luaQueue' = Append(luaQueue, m)
  PROVE  /\ \A i \in 1 .. Len(luaQueue') :
              \/ luaQueue'[i] = m
              \/ i \in 1 .. Len(luaQueue) /\ luaQueue'[i] = luaQueue[i]
         /\ \A i \in 1 .. Len(luaQueue) :
              i \in 1 .. Len(luaQueue') /\ luaQueue'[i] = luaQueue[i]
         /\ \E i \in 1 .. Len(luaQueue') : luaQueue'[i] = m
  <1>1. luaQueue \in Seq(Packet) /\ Len(luaQueue) \in Nat
    BY DEF LuaTypes
  <1>2. /\ Len(luaQueue') = Len(luaQueue) + 1
        /\ luaQueue'[Len(luaQueue) + 1] = m
        /\ \A i \in 1 .. Len(luaQueue) : luaQueue'[i] = luaQueue[i]
    BY <1>1, AppendProperties
  <1>3. Len(luaQueue) + 1 \in 1 .. Len(luaQueue')
    BY <1>1, <1>2
  <1>4. ASSUME NEW i \in 1 .. Len(luaQueue')
        PROVE  i = Len(luaQueue) + 1 \/ i \in 1 .. Len(luaQueue)
    BY <1>1, <1>2
  <1>5. ASSUME NEW i \in 1 .. Len(luaQueue) PROVE i \in 1 .. Len(luaQueue')
    BY <1>1, <1>2
  <1>6. QED BY <1>2, <1>3, <1>4, <1>5

LEMMA OnlyMessages ==
  ASSUME EntryTypes, NEW fd \in DOMAIN socks, NEW q, UNCHANGED fdOf,
         socks' = [socks EXCEPT ![fd].msgs = q]
  PROVE  \A s \in Sock : HasEntry(s)' <=> HasEntry(s)
  <1>1. DOMAIN socks' = DOMAIN socks /\ \A f \in DOMAIN socks : f # fd => socks'[f] = socks[f]
    OBVIOUS
  <1>2. socks[fd] \in [sock : Sock, msgs : Seq(Sock)]
    BY DEF EntryTypes, Entry
  <1>3. socks'[fd] = [socks[fd] EXCEPT !.msgs = q]
    OBVIOUS
  <1>4. socks'[fd].sock = socks[fd].sock
    BY <1>2, <1>3
  <1>5. QED BY <1>1, <1>4 DEF HasEntry

LEMMA AccountOfNewborn ==
  ASSUME AccountInv, AnswerInv', PlainTypes', NEW s \in Sock, NEW fd \in Fd, OnAccept(s, fd)
  PROVE  AccountInv'
  <1>1. /\ state[s] = "unborn"
        /\ fdOf' = [fdOf EXCEPT ![s] = fd]
        /\ state' = [state EXCEPT ![s] = "open"]
        /\ UNCHANGED << worker, account, luaQueue, isOk, accepted, overlapped, lua, socks >>
    BY AcceptKeepsTables DEF AccountInv, AnswerInv, OnAccept, threads
  <1>2. fdOf[s] = None /\ None \notin Fd
    BY <1>1, FdNotNone DEF AccountInv, AnswerInv, AnswerTypes, Births
  <1>3. \A t \in Sock : t # s => fdOf'[t] = fdOf[t] /\ state'[t] = state[t]
    BY <1>1 DEF AccountInv, AnswerInv, TableInv, TableTypes
  <1>4. OfSender'
    <2>1. ASSUME NEW i \in 1 .. Len(luaQueue)
          PROVE  luaQueue[i].fd = fdOf'[luaQueue[i].from]
      <3>1. luaQueue[i].fd \in Fd /\ luaQueue[i].from \in Sock
        BY OfQueue DEF AccountInv, AnswerInv, AnswerTypes
      <3>2. luaQueue[i].fd = fdOf[luaQueue[i].from]
        BY DEF AccountInv, OfSender
      <3>3. QED BY <1>2, <1>3, <3>1, <3>2
    <2>2. ASSUME lua # Idle PROVE lua.fd = fdOf'[lua.from]
      <3>1. lua.fd \in Fd /\ lua.from \in Sock
        BY <2>2 DEF AccountInv, AnswerInv, AnswerTypes, LuaTypes
      <3>2. lua.fd = fdOf[lua.from]
        BY <2>2 DEF AccountInv, OfSender
      <3>3. QED BY <1>2, <1>3, <3>1, <3>2
    <2>3. QED BY <1>1, <2>1, <2>2 DEF OfSender
  <1>5. \A f \in DOMAIN socks : socks[f].sock # s
    BY <1>2 DEF AccountInv, AnswerInv, AnswerTypes, EntryTypes
  <1>6. ASSUME NEW t \in Sock, HasEntry(t)'
        PROVE  HasEntry(t) /\ (state'[t] = "open" => state[t] = "open")
    BY <1>1, <1>3, <1>5, <1>6 DEF HasEntry
  <1>7. QED BY <1>1, <1>4, <1>6, AccountsStay

(* A login begins: there is no entry yet, and nothing of an earlier login   *)
(* is left.                                                                 *)
LEMMA AccountWiped ==
  ASSUME AccountInv, AnswerInv', PlainTypes',
         NEW s \in Sock, NEW a \in Account \cup {Refused}, Login(s, a)
  PROVE  AccountInv'
  <1>1. /\ ~isOk[s] /\ worker = Idle
        /\ account' = [account EXCEPT ![s] = NoAccount]
        /\ overlapped' = IF LoginPending(s) THEN overlapped \cup {s} ELSE overlapped
        /\ worker' = [at |-> "strncpy", sock |-> s, account |-> a]
        /\ UNCHANGED << state, fdOf, isOk, socks, luaQueue, lua, accepted >>
    BY DEF Login, tables, Sends, Event
  <1>2. state[s] = "open"
    BY EventOfOpen DEF Login, Sends, AccountInv, AnswerInv
  <1>3. Copied' /\ OfSender'
    BY <1>1, SendersStay DEF AccountInv, Copied
  <1>4. \A t \in Sock : /\ HasEntry(t)' <=> HasEntry(t)
                        /\ InQueue(t)' <=> InQueue(t)
                        /\ InScript(t)' <=> InScript(t)
    BY <1>1 DEF HasEntry, InQueue, InScript
  <1>5. ASSUME NEW t \in Sock \ overlapped', t # s PROVE Single(t)'
    <2>1. Single(t) /\ account'[t] = account[t]
      BY <1>1, <1>5 DEF AccountInv, PlainTypes
    <2>2. Unanswered(t) => Unanswered(t)'
      BY <1>1, <1>4 DEF Unanswered, Idle
    <2>3. QED BY <1>1, <1>4, <1>5, <2>1, <2>2 DEF Single
  <1>6. ASSUME s \notin overlapped' PROVE Single(s)'
    <2>1. Single(s) /\ ~LoginPending(s)
      BY <1>1, <1>6 DEF AccountInv
    <2>2. ~InQueue(s) /\ ~InScript(s)
      BY <2>1, PendingIs DEF AccountInv, AnswerInv, AnswerTypes
    <2>3. ~HasEntry(s)
      <3>1. ASSUME lua.at = "setOk", lua.from = s PROVE FALSE
        <4>1. lua.kind = "login" /\ lua # Idle
          BY <3>1, FoundHasEntry DEF AccountInv, Idle
        <4>2. QED BY <2>2, <3>1, <4>1 DEF InScript, LoginOf
      <3>2. ~Unanswered(s)
        BY <1>1, <2>2, <3>1 DEF Unanswered, Idle
      <3>3. QED BY <1>1, <1>2, <2>1, <3>2 DEF Single
    <2>4. ~(lua.at = "setOk" /\ lua.sock = s)
      BY <2>3, FoundHasEntry DEF AccountInv
    <2>5. accepted[s] = {}
      BY <1>1, <2>1 DEF Single
    <2>6. \A i \in 1 .. Len(luaQueue) : ~LoginOf(luaQueue[i], s)
      BY <2>2 DEF InQueue
    <2>7. QED BY <1>1, <1>4, <2>2, <2>3, <2>4, <2>5, <2>6 DEF Single
  <1>7. QED BY <1>3, <1>5, <1>6 DEF AccountInv

LEMMA AccountOfCopy ==
  ASSUME AccountInv, AnswerInv', PlainTypes', CopyAccount
  PROVE  AccountInv'
  <1> DEFINE s == worker.sock
  <1>1. /\ worker.at = "strncpy"
        /\ account' = [account EXCEPT ![s] = worker.account]
        /\ worker' = IF worker.account = Refused THEN Idle ELSE [worker EXCEPT !.at = "insert"]
        /\ UNCHANGED << state, fdOf, isOk, socks, luaQueue, lua, accepted, overlapped >>
    BY DEF CopyAccount, tables, ghosts
  <1>2. worker # Idle /\ s \in Sock /\ state[s] = "open"
    BY <1>1, InHandshake DEF AccountInv
  <1>3. worker \in [at : {"strncpy"}, sock : Sock, account : Account \cup {Refused}]
    BY <1>1, <1>2 DEF AccountInv, AnswerInv, AnswerTypes, WorkerTypes
  <1>4. /\ worker' # Idle => worker'.sock = s /\ worker'.account = worker.account
        /\ worker'.at \in {"idle", "insert"}
        /\ worker'.at # "idle" => worker' # Idle
    BY <1>1, <1>3 DEF Idle
  <1>5. /\ account'[s] = worker.account
        /\ \A t \in Sock : t # s => account'[t] = account[t]
    BY <1>1, <1>2 DEF AccountInv, PlainTypes
  <1>6. Copied' /\ OfSender'
    BY <1>1, <1>4, <1>5, SendersStay DEF AccountInv, Copied
  <1>7. \A t \in Sock : /\ HasEntry(t)' <=> HasEntry(t)
                        /\ InQueue(t)' <=> InQueue(t)
                        /\ InScript(t)' <=> InScript(t)
    BY <1>1 DEF HasEntry, InQueue, InScript
  <1> HIDE DEF s
  <1>8. ASSUME NEW t \in Sock \ overlapped, t # s PROVE Single(t)'
    <2>1. Single(t)
      BY DEF AccountInv
    <2>2. Unanswered(t) => Unanswered(t)'
      BY <1>1, <1>7 DEF Unanswered
    <2>3. worker'.at \in {"strncpy", "insert"} => worker'.sock = s
      BY <1>4
    <2>4. QED BY <1>1, <1>4, <1>5, <1>7, <1>8, <2>1, <2>2, <2>3 DEF Single
  <1>9. ASSUME NEW t \in Sock \ overlapped, t = s PROVE Single(t)'
    <2>1. Single(t)
      BY DEF AccountInv
    <2>2. ~InQueue(t) /\ ~InScript(t) /\ ~HasEntry(t)
      BY <1>1, <1>2, <1>9, <2>1 DEF Single, s
    <2>3. ~(lua.at = "setOk" /\ lua.sock = t)
      BY <2>2, FoundHasEntry DEF AccountInv
    <2>4. ~isOk[t]
      BY <1>2, <1>9, <2>2 DEF AccountInv, AnswerInv, AnswerTypes, Validated
    <2>5. accepted[t] = {}
      BY <2>1, <2>4 DEF Single
    <2>6. \A i \in 1 .. Len(luaQueue) : ~LoginOf(luaQueue[i], t)
      BY <2>2 DEF InQueue
    <2>7. QED BY <1>1, <1>7, <2>2, <2>3, <2>5, <2>6 DEF Single
  <1>10. QED BY <1>1, <1>6, <1>8, <1>9 DEF AccountInv

LEMMA AccountOfEntry ==
  ASSUME AccountInv, AnswerInv', PlainTypes', InsertSocket
  PROVE  AccountInv'
  <1> DEFINE s == worker.sock
             fd == fdOf[s]
  <1>1. /\ worker.at = "insert" /\ lua.at # "setOk"
        /\ socks' = [f \in DOMAIN socks \cup {fd} |->
                       IF f # fd THEN socks[f] ELSE [sock |-> s, msgs |-> << >>]]
        /\ worker' = [worker EXCEPT !.at = "push"]
        /\ UNCHANGED << state, fdOf, account, isOk, luaQueue, lua, accepted, overlapped >>
    BY DEF InsertSocket, perSocket, ghosts, SocksFree
  <1>2. worker # Idle /\ s \in Sock
    BY <1>1, InHandshake DEF AccountInv
  <1>3. worker \in [at : {"insert", "push"}, sock : Sock, account : Account]
    BY <1>1, <1>2 DEF AccountInv, AnswerInv, AnswerTypes, WorkerTypes
  <1>4. worker'.at = "push" /\ worker'.sock = s /\ worker'.account = worker.account
    BY <1>1, <1>3
  <1>5. \A t \in Sock : t # s /\ HasEntry(t)' => HasEntry(t)
    BY <1>1 DEF HasEntry
  <1>6. \A t \in Sock : (InQueue(t)' <=> InQueue(t)) /\ (InScript(t)' <=> InScript(t))
    BY <1>1 DEF InQueue, InScript
  <1> HIDE DEF s, fd
  <1>7. Copied' /\ OfSender'
    BY <1>1, <1>4, SendersStay DEF AccountInv, Copied, s
  <1>8. ASSUME NEW t \in Sock \ overlapped PROVE Single(t)'
    <2>1. Single(t)
      BY DEF AccountInv
    <2>2. worker' # Idle /\ worker'.sock = t => ~InQueue(t)' /\ ~InScript(t)'
      BY <1>2, <1>4, <1>6, <2>1 DEF Single, s
    <2>3. HasEntry(t)' /\ state[t] = "open" => isOk[t] \/ Unanswered(t)'
      <3>1. CASE t = s
        BY <1>4, <3>1 DEF Unanswered
      <3>2. CASE t # s
        <4>1. Unanswered(t) => Unanswered(t)'
          BY <1>1, <1>6 DEF Unanswered
        <4>2. QED BY <1>5, <2>1, <3>2, <4>1 DEF Single
      <3>3. QED BY <3>1, <3>2
    <2>4. QED BY <1>1, <1>4, <2>1, <2>2, <2>3 DEF Single
  <1>9. QED BY <1>1, <1>7, <1>8 DEF AccountInv

LEMMA AccountOfPush ==
  ASSUME AccountInv, AnswerInv', PlainTypes', PushLogin
  PROVE  AccountInv'
  <1> DEFINE s == worker.sock
             m == Message("login", s, worker.account)
  <1>1. /\ worker.at = "push" /\ worker' = Idle
        /\ luaQueue' = Append(luaQueue, m)
        /\ UNCHANGED << state, fdOf, account, isOk, socks, lua, accepted, overlapped >>
    BY DEF PushLogin, perSocket, ghosts
  <1>2. s \in Sock /\ fdOf[s] \in Fd
    BY <1>1, InHandshake DEF AccountInv
  <1>3. worker.account \in Account /\ worker.account = account[s]
    BY <1>1 DEF AccountInv, Copied, AnswerInv, AnswerTypes, WorkerTypes, Idle
  <1>4. /\ m \in Packet /\ LoginOf(m, s) /\ m.account = account[s] /\ m.fd = fdOf[m.from]
        /\ \A t : LoginOf(m, t) => t = s
    BY <1>2, <1>3 DEF Packet, Message, LoginOf
  <1> HIDE DEF m, s
  <1>5. LuaTypes
    BY DEF AccountInv, AnswerInv, AnswerTypes
  <1>6. Copied' /\ OfSender'
    <2>1. OfSender'
      BY <1>1, <1>4, <1>5, QueueGrows DEF AccountInv, OfSender
    <2>2. QED BY <1>1, <2>1 DEF Copied, Idle
  <1>7. ASSUME NEW t \in Sock \ overlapped PROVE Single(t)'
    <2>1. Single(t)
      BY DEF AccountInv
    <2>2. \A i \in 1 .. Len(luaQueue') :
            LoginOf(luaQueue'[i], t) => luaQueue'[i].account = account[t]
      BY <1>1, <1>4, <1>5, <2>1, QueueGrows DEF Single
    <2>3. InQueue(t) \/ t = s => InQueue(t)'
      BY <1>1, <1>4, <1>5, QueueGrows DEF InQueue
    <2>4. Unanswered(t) => Unanswered(t)'
      BY <1>1, <2>3 DEF Unanswered, s
    <2>5. HasEntry(t)' <=> HasEntry(t)
      BY <1>1 DEF HasEntry
    <2>6. worker' = Idle /\ worker'.at = "idle"
      BY <1>1 DEF Idle
    <2>7. QED BY <1>1, <2>1, <2>2, <2>4, <2>5, <2>6 DEF Single
  <1>8. QED BY <1>1, <1>6, <1>7 DEF AccountInv

(* The script takes the login of a socket with an entry that is open: it    *)
(* finds this socket there, with this account.                              *)
LEMMA AccountOfTaken ==
  ASSUME AccountInv, AnswerInv', PlainTypes', HandleMsg
  PROVE  AccountInv'
  <1> DEFINE m == Head(luaQueue)
             s == socks[m.fd].sock
  <1>1. /\ lua = Idle /\ luaQueue # << >> /\ luaQueue' = Tail(luaQueue)
        /\ \/ /\ lua' = [at |-> "script", fd |-> m.fd, from |-> m.from, kind |-> m.kind]
              /\ m.kind = "login" /\ m.fd \in DOMAIN socks => ~Valid(s, m.account)
           \/ /\ lua' = [at |-> "setOk", fd |-> m.fd, from |-> m.from, kind |-> m.kind,
                         sock |-> s, account |-> m.account]
              /\ Valid(s, m.account)
        /\ UNCHANGED << state, fdOf, account, isOk, socks, worker, overlapped, accepted >>
    BY DEF HandleMsg, ValidateSocket, Run, perSocket
  <1>2. /\ luaQueue \in Seq(Packet) /\ m = luaQueue[1] /\ 1 \in 1 .. Len(luaQueue)
        /\ m \in Packet
    BY <1>1 DEF AccountInv, AnswerInv, AnswerTypes, LuaTypes
  <1>3. \A i \in 1 .. Len(luaQueue') :
          i + 1 \in 1 .. Len(luaQueue) /\ luaQueue'[i] = luaQueue[i + 1]
    BY <1>1, <1>2
  <1>4. \A i \in 1 .. Len(luaQueue) :
          i # 1 => i - 1 \in 1 .. Len(luaQueue') /\ luaQueue'[i - 1] = luaQueue[i]
    BY <1>1, <1>2
  <1>5. /\ lua'.fd = m.fd /\ lua'.from = m.from /\ lua'.kind = m.kind
        /\ lua'.at \in {"setOk", "script"}
    BY <1>1
  <1> HIDE DEF m
  <1>6. Copied' /\ OfSender'
    <2>1. Copied'
      BY <1>1 DEF AccountInv, Copied
    <2>2. m.fd = fdOf[m.from]
      BY <1>2 DEF AccountInv, OfSender
    <2>3. QED BY <1>1, <1>3, <1>5, <2>1, <2>2 DEF AccountInv, OfSender
  <1>7. ASSUME NEW t \in Sock \ overlapped PROVE Single(t)'
    <2>1. Single(t)
      BY DEF AccountInv
    <2>2. InQueue(t)' => InQueue(t)
      BY <1>3 DEF InQueue
    <2>3. InQueue(t) => InQueue(t)' \/ LoginOf(m, t)
      BY <1>2, <1>4 DEF InQueue
    <2>4. LoginOf(m, t) => InQueue(t) /\ m.account = account[t]
      BY <1>2, <2>1 DEF InQueue, Single
    <2>5. InScript(t)' => InQueue(t)
      BY <1>5, <2>4 DEF InScript, LoginOf
    <2>6. HasEntry(t)' <=> HasEntry(t)
      BY <1>1 DEF HasEntry
    <2>7. \A i \in 1 .. Len(luaQueue') :
            LoginOf(luaQueue'[i], t) => luaQueue'[i].account = account[t]
      BY <1>3, <2>1 DEF Single
    <2>8. ASSUME HasEntry(t), state[t] = "open" PROVE isOk[t] \/ Unanswered(t)'
      <3>1. isOk[t] \/ InQueue(t) \/ (worker.at = "push" /\ worker.sock = t)
        BY <1>1, <2>1, <2>8 DEF Single, Unanswered, Idle
      <3>2. CASE LoginOf(m, t)
        <4>1. m.fd = fdOf[t] /\ m.kind = "login" /\ m.from = t
          BY <1>2, <3>2 DEF AccountInv, OfSender, LoginOf
        <4>2. m.fd \in DOMAIN socks /\ s = t
          BY <2>8, <4>1 DEF HasEntry
        <4>3. Valid(s, m.account)
          BY <2>4, <2>8, <3>2, <4>2 DEF Valid
        <4>4. lua'.at = "setOk" /\ lua'.from = t
          BY <1>1, <4>1, <4>2, <4>3
        <4>5. QED BY <4>4 DEF Unanswered
      <3>3. CASE ~LoginOf(m, t)
        BY <1>1, <2>3, <3>1, <3>3 DEF Unanswered
      <3>4. QED BY <3>2, <3>3
    <2>9. lua'.at = "setOk" /\ lua'.sock = t => lua'.account = account[t]
      BY <1>1 DEF Valid
    <2>10. QED BY <1>1, <2>1, <2>2, <2>5, <2>6, <2>7, <2>8, <2>9 DEF Single
  <1>8. QED BY <1>1, <1>6, <1>7 DEF AccountInv

(* validateSocket ends: no login has changed what it compared. *)
LEMMA AccountAccepted ==
  ASSUME AccountInv, AnswerInv', PlainTypes', SetSocketOK
  PROVE  AccountInv'
  <1> DEFINE s == lua.sock
  <1>1. /\ lua.at = "setOk"
        /\ isOk' = [isOk EXCEPT ![s] = TRUE]
        /\ accepted' = [accepted EXCEPT ![s] = @ \cup {lua.account}]
        /\ lua' = [at |-> "script", fd |-> lua.fd, from |-> lua.from, kind |-> lua.kind]
        /\ UNCHANGED << state, fdOf, account, socks, luaQueue, worker, overlapped >>
    BY DEF SetSocketOK, tables
  <1>2. /\ s \in Sock /\ fdOf[s] = lua.fd
        /\ lua.fd \in DOMAIN socks /\ socks[lua.fd].sock = s
    BY <1>1, FoundHasEntry DEF AccountInv, AnswerInv, AnswerTypes, Found
  <1>3. lua # Idle /\ lua.fd = fdOf[lua.from]
    BY <1>1 DEF Idle, AccountInv, OfSender
  <1>4. /\ isOk'[s] = TRUE /\ accepted'[s] = accepted[s] \cup {lua.account}
        /\ \A t \in Sock : t # s => isOk'[t] = isOk[t] /\ accepted'[t] = accepted[t]
    BY <1>1, <1>2 DEF AccountInv, PlainTypes, AnswerInv, AnswerTypes, Validated
  <1>5. lua'.fd = lua.fd /\ lua'.from = lua.from /\ lua'.kind = lua.kind /\ lua'.at = "script"
    BY <1>1
  <1> HIDE DEF s
  <1>6. Copied' /\ OfSender'
    BY <1>1, <1>3, <1>5 DEF AccountInv, Copied, OfSender
  <1>7. ASSUME NEW t \in Sock \ overlapped PROVE Single(t)'
    <2>1. Single(t)
      BY DEF AccountInv
    <2>2. (InQueue(t)' <=> InQueue(t)) /\ (InScript(t)' => InScript(t))
          /\ (HasEntry(t)' <=> HasEntry(t))
      BY <1>1, <1>3, <1>5 DEF InQueue, InScript, LoginOf, HasEntry
    <2>3. ASSUME HasEntry(t), state[t] = "open" PROVE isOk'[t] \/ Unanswered(t)'
      <3>1. CASE lua.from = t
        BY <1>2, <1>3, <1>4, <2>3, <3>1 DEF HasEntry
      <3>2. CASE lua.from # t
        <4>1. isOk[t] => isOk'[t]
          BY <1>4
        <4>2. QED BY <1>1, <2>1, <2>2, <2>3, <3>2, <4>1 DEF Single, Unanswered
      <3>3. QED BY <3>1, <3>2
    <2>4. accepted'[t] \subseteq {account[t]} /\ (accepted'[t] # {} => isOk'[t])
      <3>1. CASE t = s
        BY <1>1, <1>4, <2>1, <3>1 DEF Single, s
      <3>2. CASE t # s
        BY <1>4, <2>1, <3>2 DEF Single
      <3>3. QED BY <3>1, <3>2
    <2>5. QED BY <1>1, <1>5, <2>1, <2>2, <2>3, <2>4 DEF Single
  <1>8. QED BY <1>1, <1>6, <1>7 DEF AccountInv

LEMMA AccountOfMessage ==
  ASSUME AccountInv, AnswerInv', PlainTypes', NEW s \in Sock, HandleMessage(s)
  PROVE  AccountInv'
  <1> DEFINE m == Message("game", s, NoAccount)
  <1>1. UNCHANGED << fdOf, account, isOk, socks, worker, lua, accepted, overlapped >>
    BY DEF HandleMessage, threads, ghosts
  <1>2. state[s] = "open" /\ fdOf[s] \in Fd
    BY EventOfOpen DEF HandleMessage, Sends, AccountInv, AnswerInv
  <1>3. CASE ~isOk[s]
    <2>1. state' = [state EXCEPT ![s] = "closed"] /\ UNCHANGED luaQueue
      BY <1>3 DEF HandleMessage, Disconnect
    <2>2. \A t \in Sock : state'[t] = "open" => state[t] = "open"
      BY <2>1 DEF AccountInv, AnswerInv, TableInv, TableTypes
    <2>3. QED BY <1>1, <2>1, <2>2, AccountsStay, SendersStay DEF HasEntry, AccountInv
  <1>4. CASE isOk[s]
    <2>1. luaQueue' = Append(luaQueue, m) /\ UNCHANGED state
      BY <1>4 DEF HandleMessage
    <2>2. m \in Packet /\ m.fd = fdOf[m.from] /\ \A t : ~LoginOf(m, t)
      BY <1>2 DEF Packet, Message, LoginOf
    <2> HIDE DEF m
    <2>3. LuaTypes
      BY DEF AccountInv, AnswerInv, AnswerTypes
    <2>4. Copied' /\ OfSender'
      BY <1>1, <2>1, <2>2, <2>3, QueueGrows DEF AccountInv, Copied, OfSender
    <2>5. ASSUME NEW t \in Sock \ overlapped PROVE Single(t)'
      <3>1. Single(t)
        BY DEF AccountInv
      <3>2. InQueue(t)' <=> InQueue(t)
        BY <2>1, <2>2, <2>3, QueueGrows DEF InQueue
      <3>3. \A i \in 1 .. Len(luaQueue') :
              LoginOf(luaQueue'[i], t) => luaQueue'[i].account = account[t]
        BY <2>1, <2>2, <2>3, <3>1, QueueGrows DEF Single
      <3>4. /\ HasEntry(t)' <=> HasEntry(t)
            /\ InScript(t)' <=> InScript(t)
            /\ Unanswered(t)' <=> Unanswered(t)
        BY <1>1, <3>2 DEF HasEntry, InScript, Unanswered
      <3>5. QED BY <1>1, <2>1, <3>1, <3>2, <3>3, <3>4 DEF Single
    <2>6. QED BY <1>1, <2>4, <2>5 DEF AccountInv
  <1>5. QED BY <1>3, <1>4

(* The other threads leave accounts and entries alone. *)
LEMMA AccountsQuiet ==
  ASSUME AccountInv, AnswerInv', PlainTypes',
         \/ \E s \in Sock : Drop(s) \/ Collect(s) \/ WriteCallback(s)
         \/ PushMsgToSock \/ NoAnswer
         \/ \E fd \in Fd : ScriptSends(fd)
         \/ SendBegin \/ Send
         \/ UNCHANGED sessionVars
  PROVE  AccountInv'
  <1>1. /\ UNCHANGED << worker, account, luaQueue, fdOf, isOk, accepted, overlapped >>
        /\ UNCHANGED lua \/ (lua.at = "script" /\ lua' = Idle)
    BY DEF Drop, Collect, WriteCallback, PushMsgToSock, NoAnswer, ScriptSends, SendBegin, Send,
           GetMsg, BurstSend, PostEvent, SendEnd, sessionVars, perSocket, tables, threads, ghosts
  <1>2. \A t \in Sock : state'[t] = "open" => state[t] = "open"
    <2>1. UNCHANGED state \/ \E s \in Sock : \/ state' = [state EXCEPT ![s] = "closed"]
                                             \/ state' = [state EXCEPT ![s] = "freed"]
      BY DEF Drop, Disconnect, Collect, WriteCallback, PushMsgToSock, NoAnswer, ScriptSends,
             SendBegin, Send, GetMsg, BurstSend, PostEvent, SendEnd, sessionVars, perSocket
    <2>2. QED BY <2>1 DEF AccountInv, AnswerInv, TableInv, TableTypes
  <1>3. EntryTypes
    BY DEF AccountInv, AnswerInv, AnswerTypes
  <1>4. ASSUME NEW t \in Sock PROVE HasEntry(t)' <=> HasEntry(t)
    <2>1. CASE UNCHANGED socks
      BY <1>1, <2>1 DEF HasEntry
    <2>2. CASE \E fd \in DOMAIN socks : \E q : socks' = [socks EXCEPT ![fd].msgs = q]
      BY <1>1, <1>3, <2>2, OnlyMessages
    <2>3. UNCHANGED socks \/ \E fd \in DOMAIN socks : \E q : socks' = [socks EXCEPT ![fd].msgs = q]
      <3>1. GetMsg => \/ UNCHANGED socks
                      \/ \E fd \in DOMAIN socks : \E q : socks' = [socks EXCEPT ![fd].msgs = q]
        <4>1. sender.at = "scan" => sender.todo \subseteq DOMAIN socks
          BY Scanned DEF AccountInv, AnswerInv, AnswerTypes
        <4>2. QED BY <4>1 DEF GetMsg
      <3>2. PushMsgToSock \/ (\E fd \in Fd : ScriptSends(fd)) =>
              \E fd \in DOMAIN socks : \E q : socks' = [socks EXCEPT ![fd].msgs = q]
        BY DEF PushMsgToSock, ScriptSends
      <3>3. \/ \E s \in Sock : Drop(s) \/ Collect(s) \/ WriteCallback(s)
            \/ NoAnswer \/ SendBegin \/ BurstSend \/ PostEvent \/ SendEnd
            \/ UNCHANGED sessionVars
            => UNCHANGED socks
        BY DEF Drop, Collect, WriteCallback, NoAnswer, SendBegin, BurstSend, PostEvent, SendEnd,
               sessionVars, perSocket, tables
      <3>4. QED BY <3>1, <3>2, <3>3 DEF Send
    <2>4. QED BY <2>1, <2>2, <2>3
  <1>5. OfSender'
    BY <1>1, SendersStay DEF AccountInv
  <1>6. QED BY <1>1, <1>2, <1>4, <1>5, AccountsStay

LEMMA AccountsInductive == SessionSpec => []AccountInv
  <1>1. SessionInit /\ AnswerInv /\ PlainTypes => AccountInv
    <2> SUFFICES ASSUME SessionInit, AnswerInv, PlainTypes PROVE AccountInv
      OBVIOUS
    <2>1. /\ luaQueue = << >> /\ lua = Idle /\ worker = Idle /\ socks = << >>
          /\ accepted = [s \in Sock |-> {}]
      BY DEF SessionInit
    <2>2. Len(luaQueue) = 0 /\ DOMAIN socks = {}
      BY <2>1
    <2>3. \A s \in Sock : Single(s)
      BY <2>1, <2>2 DEF Single, HasEntry, InQueue, InScript, Idle
    <2>4. Copied /\ OfSender
      BY <2>1, <2>2 DEF Copied, OfSender, Idle
    <2>5. QED BY <2>3, <2>4 DEF AccountInv
  <1>2. ASSUME AccountInv, [SessionNext]_sessionVars, AnswerInv', PlainTypes'
        PROVE  AccountInv'
    <2> USE <1>2
    <2>1. ASSUME NEW s \in Sock, NEW fd \in Fd, OnAccept(s, fd) PROVE AccountInv'
      BY <2>1, AccountOfNewborn
    <2>2. ASSUME NEW s \in Sock, NEW a \in Account \cup {Refused}, Login(s, a) PROVE AccountInv'
      BY <2>2, AccountWiped
    <2>3. ASSUME NEW s \in Sock, HandleMessage(s) PROVE AccountInv'
      BY <2>3, AccountOfMessage
    <2>4. CASE HandleValidate
      BY <2>4, AccountOfCopy, AccountOfEntry, AccountOfPush DEF HandleValidate
    <2>5. CASE HandleMsg \/ SetSocketOK
      BY <2>5, AccountOfTaken, AccountAccepted
    <2>6. QED
      BY <2>1, <2>2, <2>3, <2>4, <2>5, AccountsQuiet DEF SessionNext, Script
  <1>3. QED BY <1>1, <1>2, PlainTypesInductive, PTL DEF SessionSpec

(* A connection is validated for one account, unless its client sent a      *)
(* second login before the first was answered: the worker that copies the   *)
(* account and the script that compares it share no lock, and it is the     *)
(* handshake alone that keeps them apart.                                   *)
THEOREM OneAccountEach == SessionSpec => []OneAccountPerSocket
  <1>1. AccountInv => OneAccountPerSocket
    BY DEF AccountInv, Single, OneAccountPerSocket
  <1>2. QED BY <1>1, AccountsInductive, PTL
================================================================================

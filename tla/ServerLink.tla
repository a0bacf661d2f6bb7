------------------------------ MODULE ServerLink ------------------------------
(***************************************************************************)
(* The connections between servers.  A connector calls ConnectToServer     *)
(* (src/Src/server/tolua.cpp), which sends a login with the connector's    *)
(* key; the listener's epoll worker takes it (aulistensock.cpp), its       *)
(* script validates the connection and answers with message 1000, at which *)
(* the connector takes the connection for good (connsocket.cpp).  From the *)
(* login on the listener's scripts may send to the server by its name,     *)
(* through the descriptor in s_servermap.                                  *)
(*                                                                         *)
(* Connections are numbered as they are accepted.  Players, whose logins   *)
(* take the same way, compete for the descriptors.  The kernel, the epoll  *)
(* worker and the sockets are those of EpollSocket and Sessions, reduced   *)
(* here to a queue for each direction and to both ends being open.         *)
(***************************************************************************)
EXTENDS Integers, Sequences, FiniteSets

CONSTANTS
  Key,         (* keys of the servers in s_servermap                        *)
  Stranger,    (* keys of servers that are not in it                        *)
  Player,      (* accounts of players                                       *)
  Fd,          (* descriptors the listener's kernel gives to connections    *)
  NoFd,        (* AU_VALIDE_SOCKET_FD                                       *)
  MaxConn,     (* bound: connections ever made                              *)
  MaxSends     (* bound: messages to servers by name                        *)

ASSUME ServerLinkAssumption ==
  /\ Key \cap Stranger = {} /\ (Key \cup Stranger) \cap Player = {}
  /\ Fd \subseteq Nat /\ NoFd \notin Fd /\ MaxConn \in Nat /\ MaxSends \in Nat

Account == Key \cup Stranger \cup Player

VARIABLES
  conns,     (* the connections, in the order they were accepted            *)
  socks,     (* SockMgr::_socks: by descriptor, a socket and its messages   *)
  sockfd,    (* s_servermap: the _sockfd of each server                     *)
  holder,    (* ghost: the connection sockfd was taken from, or 0           *)
  lua,       (* the logins (message 102) on their way to the script         *)
  pending,   (* the message the script is about to push, if any             *)
  nSends     (* messages sent by name                                       *)

linkVars == << conns, socks, sockfd, holder, lua, pending, nSends >>

(* far: the connector's end; isOk: its m_isOk; open and valid: the          *)
(* listener's end and its m_isOk; toL and toC: what is on its way.  Ghosts: *)
(* by is the connection whose answer it got; welcomed: a 1000 was queued    *)
(* for it; early: another message was, before any 1000.                     *)
Connection(account, fd) ==
  [account |-> account, fd |-> fd, far |-> "open", isOk |-> FALSE,
   open |-> TRUE, valid |-> FALSE, toL |-> << "login" >>, toC |-> << >>,
   by |-> 0, welcomed |-> FALSE, early |-> FALSE]

Conn == DOMAIN conns

LinkInit ==
  /\ conns = << >> /\ socks = << >> /\ lua = << >> /\ pending = << >>
  /\ sockfd = [k \in Key |-> NoFd] /\ holder = [k \in Key |-> 0] /\ nSends = 0

-------------------------------------------------------------------------------
(* The connector. *)

(* The kernel gives the lowest descriptor that is free. *)
FreeFd == Fd \ {conns[c].fd : c \in {d \in Conn : conns[d].open}}

ConnectToServer(account) ==
  /\ Len(conns) < MaxConn
  /\ \E fd \in FreeFd : /\ \A other \in FreeFd : fd <= other
                         /\ conns' = Append(conns, Connection(account, fd))
  /\ UNCHANGED << socks, sockfd, holder, lua, pending, nSends >>

(* ConnSocket::handleMessage: before message 1000 any other is an error.    *)
(* A player takes every message.                                            *)
ReceivesAnyway(conn, msg) ==     \* mutant: any message makes the connection OK
  IF conn.isOk THEN conn ELSE [conn EXCEPT !.isOk = TRUE, !.by = msg.meant]
Receives(conn, msg) ==
  IF msg.id = "1000" THEN [conn EXCEPT !.isOk = TRUE, !.by = msg.meant]
  ELSE IF conn.isOk \/ conn.account \in Player THEN conn
  ELSE [conn EXCEPT !.far = "dropped", !.toC = << >>]

Taken(conn) == [conn EXCEPT !.toC = Tail(@)]

ConnectorReceives(c) ==
  /\ conns[c].far = "open" /\ conns[c].toC # << >>
  /\ conns' = [conns EXCEPT ![c] = Receives(Taken(@), Head(@.toC))]
  /\ UNCHANGED << socks, sockfd, holder, lua, pending, nSends >>

(* Its process ends. *)
Closed(conn) == [conn EXCEPT !.far = "closed", !.isOk = FALSE, !.by = 0, !.toC = << >>]

ConnectorCloses(c) ==
  /\ conns[c].far = "open"
  /\ conns' = [conns EXCEPT ![c] = Closed(@)]
  /\ UNCHANGED << socks, sockfd, holder, lua, pending, nSends >>

-------------------------------------------------------------------------------
(* The listener's worker. *)

InsertSocketKeeps(fd, c) ==     \* mutant: an entry that is there stays
  IF fd \in DOMAIN socks THEN socks
  ELSE [f \in DOMAIN socks \cup {fd} |-> IF f = fd THEN [conn |-> c, msgs |-> << >>] ELSE socks[f]]
InsertSocketBare(fd, c) ==      \* mutant: the entry's sock is not set
  [f \in DOMAIN socks \cup {fd} |-> IF f = fd THEN [conn |-> 0, msgs |-> << >>] ELSE socks[f]]
InsertSocket(fd, c) ==
  [f \in DOMAIN socks \cup {fd} |-> IF f = fd THEN [conn |-> c, msgs |-> << >>] ELSE socks[f]]

FirstSockfd(k, fd) ==      \* mutant: the descriptor of a server's first connection stays
  IF sockfd[k] = NoFd THEN fd ELSE sockfd[k]
NewSockfd(k, fd) == fd

(* HandleValidate.  A server is not in the map: no answer, and the          *)
(* connection stays.  A player's login does the same without the map.       *)
HandleValidate(c) ==
  LET account == conns[c].account
      fd == conns[c].fd
  IN  /\ conns[c].open /\ ~conns[c].valid /\ conns[c].toL # << >>
      /\ conns' = [conns EXCEPT ![c].toL = Tail(@)]
      /\ IF account \in Stranger THEN UNCHANGED << socks, sockfd, holder, lua >>
         ELSE /\ socks' = InsertSocket(fd, c)
              /\ lua' = Append(lua, [fd |-> fd, account |-> account])
              /\ IF account \in Key
                   THEN /\ sockfd' = [sockfd EXCEPT ![account] = NewSockfd(account, fd)]
                        /\ holder' = [holder EXCEPT ![account] = c]
                   ELSE UNCHANGED << sockfd, holder >>
      /\ UNCHANGED << pending, nSends >>

(* The worker learns that the other end is closed. *)
ListenerCloses(c) ==
  /\ conns[c].open /\ conns[c].far # "open"
  /\ conns' = [conns EXCEPT ![c].open = FALSE, ![c].toL = << >>]
  /\ UNCHANGED << socks, sockfd, holder, lua, pending, nSends >>

-------------------------------------------------------------------------------
(* The listener's script, one run at a time, and its SendThread. *)

ValidateConnect(fd, account) ==
  /\ fd \in DOMAIN socks
  /\ LET conn == conns[socks[fd].conn] IN conn.open /\ conn.account = account

(* For a 102 the script validates, and prepares the answer if it may.       *)
(* meant is a ghost: the connection the message is for.                     *)
ScriptValidates ==
  /\ pending = << >> /\ lua # << >> /\ lua' = Tail(lua)
  /\ LET fd == Head(lua).fd
     IN  IF ValidateConnect(fd, Head(lua).account)
           THEN /\ conns' = [conns EXCEPT ![socks[fd].conn].valid = TRUE]
                /\ pending' = << [fd |-> fd, id |-> "1000", meant |-> socks[fd].conn] >>
           ELSE UNCHANGED << conns, pending >>
  /\ UNCHANGED << socks, sockfd, holder, nSends >>

(* A message to a server by its name, when there is a descriptor for it. *)
ScriptNames(k) ==
  /\ pending = << >> /\ nSends < MaxSends
  /\ sockfd[k] # NoFd
  /\ pending' = << [fd |-> sockfd[k], id |-> "other", meant |-> holder[k]] >>
  /\ nSends' = nSends + 1
  /\ UNCHANGED << conns, socks, sockfd, holder, lua >>

InFront(msgs, msg) == << msg >> \o msgs     \* mutant: the last message goes out first
Queued(msgs, msg) == Append(msgs, msg)

PushMsgToSock ==
  /\ pending # << >> /\ pending' = << >>
  /\ LET msg == Head(pending)
         c == socks[msg.fd].conn
     IN  IF msg.fd \notin DOMAIN socks THEN UNCHANGED << conns, socks >>
         ELSE /\ socks' = [socks EXCEPT ![msg.fd].msgs = Queued(@, msg)]
              /\ conns' = [conns EXCEPT ![c].early = @ \/ (msg.id # "1000" /\ ~conns[c].welcomed),
                                        ![c].welcomed = @ \/ msg.id = "1000"]
  /\ UNCHANGED << sockfd, holder, lua, nSends >>

(* SockMgr::Send, for one entry: a socket that is not connected, or whose   *)
(* other end has gone, loses them.                                          *)
Send(fd) ==
  /\ socks[fd].msgs # << >>
  /\ socks' = [socks EXCEPT ![fd].msgs = << >>]
  /\ LET c == socks[fd].conn
     IN  conns' = IF conns[c].open /\ conns[c].far = "open"
                    THEN [conns EXCEPT ![c].toC = @ \o socks[fd].msgs] ELSE conns
  /\ UNCHANGED << sockfd, holder, lua, pending, nSends >>

LinkNext ==
  \/ \E account \in Account : ConnectToServer(account)
  \/ \E c \in Conn : ConnectorReceives(c)
  \/ \E c \in Conn : ConnectorCloses(c)
  \/ \E c \in Conn : HandleValidate(c)
  \/ \E c \in Conn : ListenerCloses(c)
  \/ ScriptValidates
  \/ \E k \in Key : ScriptNames(k)
  \/ PushMsgToSock
  \/ \E fd \in DOMAIN socks : Send(fd)

(* The worker, the Lua thread and the SendThread go on; nobody has to       *)
(* connect, to close or to send by name.                                    *)
LinkFairness ==
  /\ \A c \in 1 .. MaxConn : WF_linkVars(c \in Conn /\ HandleValidate(c))
  /\ \A c \in 1 .. MaxConn : WF_linkVars(c \in Conn /\ ConnectorReceives(c))
  /\ WF_linkVars(ScriptValidates) /\ WF_linkVars(PushMsgToSock)
  /\ \A fd \in Fd : WF_linkVars(fd \in DOMAIN socks /\ Send(fd))

LinkSpec == LinkInit /\ [][LinkNext]_linkVars /\ LinkFairness

-------------------------------------------------------------------------------
(* The types. *)
Message == [fd : Fd, id : {"1000", "other"}, meant : Conn]

ConnState ==
  [account : Account, fd : Fd, far : {"open", "closed", "dropped"}, isOk : BOOLEAN, open : BOOLEAN,
   valid : BOOLEAN, toL : Seq({"login"}), toC : Seq(Message), by : Conn \cup {0},
   welcomed : BOOLEAN, early : BOOLEAN]

LinkTypeOK ==
  /\ conns \in Seq(ConnState)
  /\ DOMAIN socks \subseteq Fd
  /\ \A fd \in DOMAIN socks : socks[fd] \in [conn : Conn, msgs : Seq(Message)]
  /\ sockfd \in [Key -> Fd \cup {NoFd}] /\ holder \in [Key -> Conn \cup {0}]
  /\ lua \in Seq([fd : Fd, account : Account]) /\ pending \in Seq(Message) /\ nSends \in Nat

(* A message the script makes for a connection, by its descriptor or by the *)
(* server's name, goes to no other while that connection is open, although  *)
(* descriptors are used again and the name map is never cleaned.            *)
NoneAstrayWhileOpen ==
  \A c \in Conn : \A i \in DOMAIN conns[c].toC :
    LET meant == conns[c].toC[i].meant IN meant = c \/ ~conns[meant].open

(* A connector that takes its connection for good was validated by the      *)
(* listener's script, or got the answer to a connection that is closed.     *)
OkIsValidated ==
  \A c \in Conn : conns[c].isOk =>
    LET by == conns[c].by
    IN  by \in Conn /\ conns[by].valid /\ (by = c \/ ~conns[by].open)

(* A connector drops its connection, which nobody makes again, only when a  *)
(* message by name was queued before the answer to its login.               *)
OnlyEarlyDrops ==
  \A c \in Conn : conns[c].far = "dropped" => conns[c].early

(* A server of the map, or a player, that connects and stays gets its       *)
(* answer; a server that is not in the map waits for ever.                  *)
LinkComesUp ==
  \A c \in 1 .. MaxConn :
    (c \in Conn /\ conns[c].account \notin Stranger)
      ~> (c \in Conn /\ (conns[c].isOk \/ conns[c].far # "open" \/ ~conns[c].open))
===============================================================================

--------------------------- MODULE ServerLinkProofs ----------------------------
(***************************************************************************)
(* Theorems about ServerLink, for any sets of servers, players and         *)
(* descriptors: the types, where a message to a descriptor goes, which     *)
(* connectors take their connection for good, and which ones drop it.      *)
(***************************************************************************)
EXTENDS ServerLink, SequenceTheorems, TLAPS

(* A name in s_servermap that has a descriptor has the connection it is of. *)
LinkTypeInv ==
  /\ LinkTypeOK
  /\ socks = [fd \in DOMAIN socks |-> socks[fd]]
  /\ \A k \in Key : sockfd[k] # NoFd => holder[k] # 0

-------------------------------------------------------------------------------
(* The connections of a step: the other ones stay as they are. *)

LEMMA ConnFields ==
  ASSUME NEW r \in ConnState
  PROVE  /\ r = [account |-> r.account, fd |-> r.fd, far |-> r.far, isOk |-> r.isOk,
                 open |-> r.open, valid |-> r.valid, toL |-> r.toL, toC |-> r.toC,
                 by |-> r.by, welcomed |-> r.welcomed, early |-> r.early]
         /\ r.account \in Account /\ r.fd \in Fd /\ r.far \in {"open", "closed", "dropped"}
         /\ r.isOk \in BOOLEAN /\ r.open \in BOOLEAN /\ r.valid \in BOOLEAN
         /\ r.toL \in Seq({"login"}) /\ r.toC \in Seq(Message) /\ r.by \in Conn \cup {0}
         /\ r.welcomed \in BOOLEAN /\ r.early \in BOOLEAN
  BY DEF ConnState

LEMMA ConnAt ==
  ASSUME LinkTypeOK, NEW c \in Conn
  PROVE  conns[c] \in ConnState
  BY DEF LinkTypeOK, Conn

LEMMA Replaced ==
  ASSUME LinkTypeOK, NEW c \in Conn, NEW r \in ConnState, conns' = [conns EXCEPT ![c] = r]
  PROVE  /\ Conn' = Conn /\ Message' = Message /\ ConnState' = ConnState
         /\ conns' \in Seq(ConnState) /\ conns'[c] = r
         /\ \A d \in Conn : d # c => conns'[d] = conns[d]
<1>1. conns \in Seq(ConnState)
  BY DEF LinkTypeOK
<1>2. Conn' = Conn /\ conns' \in Seq(ConnState) /\ conns'[c] = r
  BY <1>1 DEF Conn
<1>3. \A d \in Conn : d # c => conns'[d] = conns[d]
  BY <1>1 DEF Conn
<1>4. Message' = Message
  BY <1>2 DEF Message
<1>5. ConnState' = ConnState
  BY <1>2, <1>4 DEF ConnState
<1> QED
  BY <1>2, <1>3, <1>4, <1>5

LEMMA Appended ==
  ASSUME LinkTypeOK, NEW account \in Account, NEW fd \in Fd,
         conns' = Append(conns, Connection(account, fd))
  PROVE  /\ Conn' = Conn \cup {Len(conns) + 1} /\ Len(conns) + 1 \notin Conn
         /\ Message \subseteq Message' /\ conns' \in Seq(ConnState')
         /\ conns'[Len(conns) + 1] = Connection(account, fd)
         /\ \A d \in Conn : conns'[d] = conns[d]
<1>1. conns \in Seq(ConnState)
  BY DEF LinkTypeOK
<1>2. Conn = 1 .. Len(conns) /\ Len(conns) \in Nat
  BY <1>1 DEF Conn
<1>3. /\ Conn' = Conn \cup {Len(conns) + 1} /\ Len(conns) + 1 \notin Conn
      /\ conns'[Len(conns) + 1] = Connection(account, fd)
      /\ \A d \in Conn : conns'[d] = conns[d]
  BY <1>1, <1>2 DEF Conn
<1>4. Message \subseteq Message'
  BY <1>3 DEF Message
<1>5. Seq(Message) \subseteq Seq(Message')
  BY <1>4, SeqMonotonic
<1>6. ConnState \subseteq ConnState'
  BY <1>3, <1>5 DEF ConnState
<1>7. Connection(account, fd) \in ConnState'
  BY DEF Connection, ConnState
<1>8. conns' \in Seq(ConnState')
  BY <1>1, <1>6, <1>7, SeqMonotonic, AppendProperties
<1> QED
  BY <1>3, <1>4, <1>8

-------------------------------------------------------------------------------
(* What an action makes of its connection. *)

SameEnds(r, q) ==
  r.account = q.account /\ r.fd = q.fd /\ r.open = q.open /\ r.valid = q.valid /\ r.toL = q.toL
SameGhosts(r, q) == r.welcomed = q.welcomed /\ r.early = q.early
SameConnector(r, q) == r.far = q.far /\ r.isOk = q.isOk /\ r.by = q.by /\ r.toC = q.toC

(* What a message makes of the connector. *)
Received(r, q, msg) ==
  \/ /\ msg.id = "1000" /\ r.isOk = TRUE /\ r.by = msg.meant
     /\ r.far = q.far /\ r.toC = Tail(q.toC)
  \/ /\ msg.id # "1000" /\ (q.isOk \/ q.account \in Player)
     /\ r.isOk = q.isOk /\ r.by = q.by /\ r.far = q.far /\ r.toC = Tail(q.toC)
  \/ /\ msg.id # "1000" /\ ~q.isOk /\ q.account \notin Player
     /\ r.isOk = q.isOk /\ r.by = q.by /\ r.far = "dropped" /\ r.toC = << >>

LEMMA ReceivesRecord ==
  ASSUME NEW q \in ConnState, NEW msg \in Message, q.toC # << >>
  PROVE  LET r == Receives(Taken(q), msg)
         IN  r \in ConnState /\ SameEnds(r, q) /\ SameGhosts(r, q) /\ Received(r, q, msg)
<1> DEFINE t == Taken(q)
           r == Receives(t, msg)
<1>1. q = [account |-> q.account, fd |-> q.fd, far |-> q.far, isOk |-> q.isOk,
           open |-> q.open, valid |-> q.valid, toL |-> q.toL, toC |-> q.toC,
           by |-> q.by, welcomed |-> q.welcomed, early |-> q.early]
  BY ConnFields
<1>2. t = [account |-> q.account, fd |-> q.fd, far |-> q.far, isOk |-> q.isOk,
           open |-> q.open, valid |-> q.valid, toL |-> q.toL, toC |-> Tail(q.toC),
           by |-> q.by, welcomed |-> q.welcomed, early |-> q.early]
  <2>1. PICK x : x = Tail(q.toC)
    OBVIOUS
  <2>2. t = [q EXCEPT !.toC = x]
    BY <2>1 DEF Taken
  <2> QED
    BY <1>1, <2>1, <2>2
<1>3. msg.meant \in Conn /\ Tail(q.toC) \in Seq(Message) /\ << >> \in Seq(Message)
  <2>1. q.toC \in Seq(Message)
    BY ConnFields
  <2>2. Tail(q.toC) \in Seq(Message)
    BY <2>1
  <2> QED
    BY <2>2 DEF Message
<1> HIDE DEF t
<1>4. CASE msg.id = "1000"
  <2>1. r = [account |-> q.account, fd |-> q.fd, far |-> q.far, isOk |-> TRUE,
             open |-> q.open, valid |-> q.valid, toL |-> q.toL, toC |-> Tail(q.toC),
             by |-> msg.meant, welcomed |-> q.welcomed, early |-> q.early]
    <3>1. PICK u : u = [t EXCEPT !.isOk = TRUE]
      OBVIOUS
    <3>2. r = [u EXCEPT !.by = msg.meant]
      BY <1>4, <3>1 DEF Receives
    <3> QED
      BY <1>2, <3>1, <3>2
  <2> HIDE DEF r
  <2>2. r \in ConnState
    BY <1>3, <2>1, ConnFields DEF ConnState
  <2>3. SameEnds(r, q) /\ SameGhosts(r, q)
    BY <2>1 DEF SameEnds, SameGhosts
  <2>4. Received(r, q, msg)
    BY <1>4, <2>1 DEF Received
  <2> QED
    BY <2>2, <2>3, <2>4 DEF r, t
<1>5. CASE msg.id # "1000" /\ (q.isOk \/ q.account \in Player)
  <2>1. r = t
    BY <1>2, <1>5 DEF Receives
  <2> HIDE DEF r
  <2>2. r \in ConnState
    BY <1>2, <1>3, <2>1, ConnFields DEF ConnState
  <2>3. SameEnds(r, q) /\ SameGhosts(r, q)
    BY <1>2, <2>1 DEF SameEnds, SameGhosts
  <2>4. Received(r, q, msg)
    BY <1>2, <1>5, <2>1 DEF Received
  <2> QED
    BY <2>2, <2>3, <2>4 DEF r, t
<1>6. CASE msg.id # "1000" /\ ~q.isOk /\ q.account \notin Player
  <2>1. r = [account |-> q.account, fd |-> q.fd, far |-> "dropped", isOk |-> q.isOk,
             open |-> q.open, valid |-> q.valid, toL |-> q.toL, toC |-> << >>,
             by |-> q.by, welcomed |-> q.welcomed, early |-> q.early]
    <3>1. PICK u : u = [t EXCEPT !.far = "dropped"]
      OBVIOUS
    <3>2. r = [u EXCEPT !.toC = << >>]
      BY <1>2, <1>6, <3>1 DEF Receives
    <3> QED
      BY <1>2, <3>1, <3>2
  <2> HIDE DEF r
  <2>2. r \in ConnState
    BY <1>3, <2>1, ConnFields DEF ConnState
  <2>3. SameEnds(r, q) /\ SameGhosts(r, q)
    BY <2>1 DEF SameEnds, SameGhosts
  <2>4. Received(r, q, msg)
    BY <1>6, <2>1 DEF Received
  <2> QED
    BY <2>2, <2>3, <2>4 DEF r, t
<1> QED
  BY <1>4, <1>5, <1>6

LEMMA ClosedRecord ==
  ASSUME NEW q \in ConnState
  PROVE  LET r == Closed(q)
         IN  /\ r \in ConnState /\ SameEnds(r, q) /\ SameGhosts(r, q)
             /\ r.far = "closed" /\ ~r.isOk /\ r.toC = << >>
<1> DEFINE r == Closed(q)
<1>1. q = [account |-> q.account, fd |-> q.fd, far |-> q.far, isOk |-> q.isOk,
           open |-> q.open, valid |-> q.valid, toL |-> q.toL, toC |-> q.toC,
           by |-> q.by, welcomed |-> q.welcomed, early |-> q.early]
  BY ConnFields
<1>2. r = [account |-> q.account, fd |-> q.fd, far |-> "closed", isOk |-> FALSE,
           open |-> q.open, valid |-> q.valid, toL |-> q.toL, toC |-> << >>,
           by |-> 0, welcomed |-> q.welcomed, early |-> q.early]
  <2>1. r = [[[[q EXCEPT !.far = "closed"] EXCEPT !.isOk = FALSE] EXCEPT !.by = 0] EXCEPT !.toC = << >>]
    BY DEF Closed
  <2> QED
    BY <1>1, <2>1
<1> HIDE DEF r
<1>3. r \in ConnState
  BY <1>2, ConnFields DEF ConnState
<1>4. SameEnds(r, q) /\ SameGhosts(r, q) /\ r.far = "closed" /\ ~r.isOk /\ r.toC = << >>
  BY <1>2 DEF SameEnds, SameGhosts
<1> QED
  BY <1>3, <1>4 DEF r

LEMMA ToLRecord ==
  ASSUME NEW q \in ConnState, NEW s \in Seq({"login"})
  PROVE  LET r == [q EXCEPT !.toL = s]
         IN  r \in ConnState /\ SameGhosts(r, q) /\ SameConnector(r, q) /\ r.toL = s /\ r.account = q.account
             /\ r.fd = q.fd /\ r.open = q.open /\ r.valid = q.valid
<1> DEFINE r == [q EXCEPT !.toL = s]
<1>1. q = [account |-> q.account, fd |-> q.fd, far |-> q.far, isOk |-> q.isOk,
           open |-> q.open, valid |-> q.valid, toL |-> q.toL, toC |-> q.toC,
           by |-> q.by, welcomed |-> q.welcomed, early |-> q.early]
  BY ConnFields
<1>2. r = [account |-> q.account, fd |-> q.fd, far |-> q.far, isOk |-> q.isOk,
           open |-> q.open, valid |-> q.valid, toL |-> s, toC |-> q.toC,
           by |-> q.by, welcomed |-> q.welcomed, early |-> q.early]
  BY <1>1, ConnFields
<1> HIDE DEF r
<1>3. r \in ConnState
  BY <1>2, ConnFields DEF ConnState
<1>4. SameGhosts(r, q) /\ SameConnector(r, q) /\ r.toL = s /\ r.account = q.account
             /\ r.fd = q.fd /\ r.open = q.open /\ r.valid = q.valid
  BY <1>2 DEF SameEnds, SameGhosts, SameConnector
<1> QED
  BY <1>3, <1>4 DEF r

LEMMA NotOpenRecord ==
  ASSUME NEW q \in ConnState
  PROVE  LET r == [[q EXCEPT !.open = FALSE] EXCEPT !.toL = << >>]
         IN  r \in ConnState /\ SameGhosts(r, q) /\ SameConnector(r, q) /\ r.toL = << >> /\ r.account = q.account
             /\ r.fd = q.fd /\ ~r.open /\ r.valid = q.valid
<1> DEFINE r == [[q EXCEPT !.open = FALSE] EXCEPT !.toL = << >>]
<1>1. q = [account |-> q.account, fd |-> q.fd, far |-> q.far, isOk |-> q.isOk,
           open |-> q.open, valid |-> q.valid, toL |-> q.toL, toC |-> q.toC,
           by |-> q.by, welcomed |-> q.welcomed, early |-> q.early]
  BY ConnFields
<1>2. r = [account |-> q.account, fd |-> q.fd, far |-> q.far, isOk |-> q.isOk,
           open |-> FALSE, valid |-> q.valid, toL |-> << >>, toC |-> q.toC,
           by |-> q.by, welcomed |-> q.welcomed, early |-> q.early]
  <2>0. PICK t : t = q
    OBVIOUS
  <2>t. t = [account |-> q.account, fd |-> q.fd, far |-> q.far, isOk |-> q.isOk,
           open |-> q.open, valid |-> q.valid, toL |-> q.toL, toC |-> q.toC,
           by |-> q.by, welcomed |-> q.welcomed, early |-> q.early]
    BY <1>1, <2>0
  <2>1. PICK u0 : u0 = [t EXCEPT !.open = FALSE]
    OBVIOUS
  <2>2. r = [u0 EXCEPT !.toL = << >>]
    BY <2>0, <2>1
  <2> HIDE DEF r
  <2> QED
    BY <2>t, <2>1, <2>2
<1> HIDE DEF r
<1>3. r \in ConnState
  BY <1>2, ConnFields DEF ConnState
<1>4. SameGhosts(r, q) /\ SameConnector(r, q) /\ r.toL = << >> /\ r.account = q.account
             /\ r.fd = q.fd /\ ~r.open /\ r.valid = q.valid
  BY <1>2 DEF SameEnds, SameGhosts, SameConnector
<1> QED
  BY <1>3, <1>4 DEF r

LEMMA ValidRecord ==
  ASSUME NEW q \in ConnState
  PROVE  LET r == [q EXCEPT !.valid = TRUE]
         IN  r \in ConnState /\ SameGhosts(r, q) /\ SameConnector(r, q) /\ r.toL = q.toL /\ r.account = q.account
             /\ r.fd = q.fd /\ r.open = q.open /\ r.valid
<1> DEFINE r == [q EXCEPT !.valid = TRUE]
<1>1. q = [account |-> q.account, fd |-> q.fd, far |-> q.far, isOk |-> q.isOk,
           open |-> q.open, valid |-> q.valid, toL |-> q.toL, toC |-> q.toC,
           by |-> q.by, welcomed |-> q.welcomed, early |-> q.early]
  BY ConnFields
<1>2. r = [account |-> q.account, fd |-> q.fd, far |-> q.far, isOk |-> q.isOk,
           open |-> q.open, valid |-> TRUE, toL |-> q.toL, toC |-> q.toC,
           by |-> q.by, welcomed |-> q.welcomed, early |-> q.early]
  <2>0. PICK t : t = q
    OBVIOUS
  <2>t. t = [account |-> q.account, fd |-> q.fd, far |-> q.far, isOk |-> q.isOk,
           open |-> q.open, valid |-> q.valid, toL |-> q.toL, toC |-> q.toC,
           by |-> q.by, welcomed |-> q.welcomed, early |-> q.early]
    BY <1>1, <2>0
  <2>1. r = [t EXCEPT !.valid = TRUE]
    BY <2>0
  <2> HIDE DEF r
  <2> QED
    BY <2>t, <2>1
<1> HIDE DEF r
<1>3. r \in ConnState
  BY <1>2, ConnFields DEF ConnState
<1>4. SameGhosts(r, q) /\ SameConnector(r, q) /\ r.toL = q.toL /\ r.account = q.account
             /\ r.fd = q.fd /\ r.open = q.open /\ r.valid
  BY <1>2 DEF SameEnds, SameGhosts, SameConnector
<1> QED
  BY <1>3, <1>4 DEF r

LEMMA GhostRecord ==
  ASSUME NEW q \in ConnState, NEW e \in BOOLEAN, NEW w \in BOOLEAN
  PROVE  LET r == [[q EXCEPT !.early = e] EXCEPT !.welcomed = w]
         IN  r \in ConnState /\ SameEnds(r, q) /\ SameConnector(r, q) /\ r.early = e /\ r.welcomed = w
<1> DEFINE r == [[q EXCEPT !.early = e] EXCEPT !.welcomed = w]
<1>1. q = [account |-> q.account, fd |-> q.fd, far |-> q.far, isOk |-> q.isOk,
           open |-> q.open, valid |-> q.valid, toL |-> q.toL, toC |-> q.toC,
           by |-> q.by, welcomed |-> q.welcomed, early |-> q.early]
  BY ConnFields
<1>2. r = [account |-> q.account, fd |-> q.fd, far |-> q.far, isOk |-> q.isOk,
           open |-> q.open, valid |-> q.valid, toL |-> q.toL, toC |-> q.toC,
           by |-> q.by, welcomed |-> w, early |-> e]
  <2>0. PICK t : t = q
    OBVIOUS
  <2>t. t = [account |-> q.account, fd |-> q.fd, far |-> q.far, isOk |-> q.isOk,
           open |-> q.open, valid |-> q.valid, toL |-> q.toL, toC |-> q.toC,
           by |-> q.by, welcomed |-> q.welcomed, early |-> q.early]
    BY <1>1, <2>0
  <2>1. PICK u0 : u0 = [t EXCEPT !.early = e]
    OBVIOUS
  <2>2. r = [u0 EXCEPT !.welcomed = w]
    BY <2>0, <2>1
  <2> HIDE DEF r
  <2> QED
    BY <2>t, <2>1, <2>2
<1> HIDE DEF r
<1>3. r \in ConnState
  BY <1>2, ConnFields DEF ConnState
<1>4. SameEnds(r, q) /\ SameConnector(r, q) /\ r.early = e /\ r.welcomed = w
  BY <1>2 DEF SameEnds, SameGhosts, SameConnector
<1> QED
  BY <1>3, <1>4 DEF r

LEMMA ToCRecord ==
  ASSUME NEW q \in ConnState, NEW s \in Seq(Message)
  PROVE  LET r == [q EXCEPT !.toC = s]
         IN  r \in ConnState /\ SameEnds(r, q) /\ SameGhosts(r, q) /\ r.far = q.far /\ r.isOk = q.isOk /\ r.by = q.by /\ r.toC = s
<1> DEFINE r == [q EXCEPT !.toC = s]
<1>1. q = [account |-> q.account, fd |-> q.fd, far |-> q.far, isOk |-> q.isOk,
           open |-> q.open, valid |-> q.valid, toL |-> q.toL, toC |-> q.toC,
           by |-> q.by, welcomed |-> q.welcomed, early |-> q.early]
  BY ConnFields
<1>2. r = [account |-> q.account, fd |-> q.fd, far |-> q.far, isOk |-> q.isOk,
           open |-> q.open, valid |-> q.valid, toL |-> q.toL, toC |-> s,
           by |-> q.by, welcomed |-> q.welcomed, early |-> q.early]
  BY <1>1, ConnFields
<1> HIDE DEF r
<1>3. r \in ConnState
  BY <1>2, ConnFields DEF ConnState
<1>4. SameEnds(r, q) /\ SameGhosts(r, q) /\ r.far = q.far /\ r.isOk = q.isOk /\ r.by = q.by /\ r.toC = s
  BY <1>2 DEF SameEnds, SameGhosts, SameConnector
<1> QED
  BY <1>3, <1>4 DEF r

-------------------------------------------------------------------------------
(* What each action makes of the connections. *)

OnlyConn(c) ==
  /\ Conn' = Conn /\ Message' = Message /\ conns' \in Seq(ConnState)' /\ conns'[c] \in ConnState
  /\ \A d \in Conn : d # c => conns'[d] = conns[d]

LEMMA OnlyConnReplaced ==
  ASSUME LinkTypeOK, NEW c \in Conn, NEW r \in ConnState, conns' = [conns EXCEPT ![c] = r]
  PROVE  OnlyConn(c) /\ conns'[c] = r
  BY Replaced DEF OnlyConn

LEMMA ReceivesEffect ==
  ASSUME LinkTypeOK, NEW c \in Conn, ConnectorReceives(c)
  PROVE  /\ OnlyConn(c) /\ UNCHANGED << socks, sockfd, holder, lua, pending, nSends >>
         /\ conns[c].far = "open" /\ conns[c].toC \in Seq(Message) /\ conns[c].toC # << >>
         /\ Head(conns[c].toC) \in Message
         /\ SameEnds(conns'[c], conns[c]) /\ SameGhosts(conns'[c], conns[c])
         /\ Received(conns'[c], conns[c], Head(conns[c].toC))
<1> DEFINE q == conns[c]
<1>1. /\ UNCHANGED << socks, sockfd, holder, lua, pending, nSends >>
      /\ q.far = "open" /\ q.toC # << >>
      /\ conns' = [conns EXCEPT ![c] = Receives(Taken(conns[c]), Head(conns[c].toC))]
  BY DEF ConnectorReceives
<1>2. q \in ConnState /\ q.toC \in Seq(Message)
  BY ConnAt, ConnFields
<1>3. Head(q.toC) \in Message
  BY <1>1, <1>2
<1> DEFINE r == Receives(Taken(q), Head(q.toC))
<1>4. r \in ConnState /\ SameEnds(r, q) /\ SameGhosts(r, q) /\ Received(r, q, Head(q.toC))
  BY <1>1, <1>2, <1>3, ReceivesRecord
<1> HIDE DEF r
<1>5. OnlyConn(c) /\ conns'[c] = r
  BY <1>1, <1>4, OnlyConnReplaced DEF r
<1> QED
  BY <1>1, <1>2, <1>3, <1>4, <1>5

LEMMA ClosesEffect ==
  ASSUME LinkTypeOK, NEW c \in Conn, ConnectorCloses(c)
  PROVE  /\ OnlyConn(c) /\ UNCHANGED << socks, sockfd, holder, lua, pending, nSends >>
         /\ SameEnds(conns'[c], conns[c]) /\ SameGhosts(conns'[c], conns[c])
         /\ conns'[c].far = "closed" /\ ~conns'[c].isOk /\ conns'[c].toC = << >>
<1>1. /\ UNCHANGED << socks, sockfd, holder, lua, pending, nSends >>
      /\ conns' = [conns EXCEPT ![c] = Closed(conns[c])]
  BY DEF ConnectorCloses
<1>2. conns[c] \in ConnState
  BY ConnAt
<1> DEFINE r == Closed(conns[c])
<1>3. /\ r \in ConnState /\ SameEnds(r, conns[c]) /\ SameGhosts(r, conns[c])
      /\ r.far = "closed" /\ ~r.isOk /\ r.toC = << >>
  BY <1>2, ClosedRecord
<1> HIDE DEF r
<1>4. OnlyConn(c) /\ conns'[c] = r
  BY <1>1, <1>3, OnlyConnReplaced DEF r
<1> QED
  BY <1>1, <1>3, <1>4

(* The login is taken; it is handled unless the server is a stranger. *)
LEMMA ValidateEffect ==
  ASSUME LinkTypeOK, NEW c \in Conn, HandleValidate(c)
  PROVE  /\ OnlyConn(c) /\ UNCHANGED << pending, nSends >>
         /\ conns[c].open /\ conns[c].toL \in Seq({"login"}) /\ conns[c].toL # << >>
         /\ SameGhosts(conns'[c], conns[c]) /\ SameConnector(conns'[c], conns[c])
         /\ conns'[c].toL = Tail(conns[c].toL) /\ conns'[c].account = conns[c].account
         /\ conns'[c].fd = conns[c].fd /\ conns'[c].open = conns[c].open
         /\ conns'[c].valid = conns[c].valid
<1>1. /\ UNCHANGED << pending, nSends >> /\ conns[c].open /\ conns[c].toL # << >>
      /\ conns' = [conns EXCEPT ![c] = [conns[c] EXCEPT !.toL = Tail(conns[c].toL)]]
  BY DEF HandleValidate
<1>2. conns[c] \in ConnState /\ conns[c].toL \in Seq({"login"})
  BY ConnAt, ConnFields
<1>3. Tail(conns[c].toL) \in Seq({"login"})
  BY <1>1, <1>2
<1> DEFINE r == [conns[c] EXCEPT !.toL = Tail(conns[c].toL)]
<1>4. /\ r \in ConnState /\ SameGhosts(r, conns[c]) /\ SameConnector(r, conns[c])
      /\ r.toL = Tail(conns[c].toL) /\ r.account = conns[c].account /\ r.fd = conns[c].fd
      /\ r.open = conns[c].open /\ r.valid = conns[c].valid
  BY <1>2, <1>3, ToLRecord
<1>5. conns' = [conns EXCEPT ![c] = r]
  BY <1>1
<1> HIDE DEF r
<1>6. OnlyConn(c) /\ conns'[c] = r
  BY <1>4, <1>5, OnlyConnReplaced
<1> QED
  BY <1>1, <1>2, <1>4, <1>6

LEMMA ListenerEffect ==
  ASSUME LinkTypeOK, NEW c \in Conn, ListenerCloses(c)
  PROVE  /\ OnlyConn(c) /\ UNCHANGED << socks, sockfd, holder, lua, pending, nSends >>
         /\ conns[c].open /\ conns[c].far # "open"
         /\ SameGhosts(conns'[c], conns[c]) /\ SameConnector(conns'[c], conns[c])
         /\ conns'[c].toL = << >> /\ conns'[c].account = conns[c].account
         /\ conns'[c].fd = conns[c].fd /\ ~conns'[c].open /\ conns'[c].valid = conns[c].valid
<1> DEFINE r == [[conns[c] EXCEPT !.open = FALSE] EXCEPT !.toL = << >>]
<1>1. /\ UNCHANGED << socks, sockfd, holder, lua, pending, nSends >>
      /\ conns[c].open /\ conns[c].far # "open"
      /\ conns' = [conns EXCEPT ![c].open = FALSE, ![c].toL = << >>]
  BY DEF ListenerCloses
<1>2. conns[c] \in ConnState
  BY ConnAt
<1>3. conns' = [conns EXCEPT ![c] = r]
  BY <1>1 DEF LinkTypeOK, Conn
<1>4. /\ r \in ConnState /\ SameGhosts(r, conns[c]) /\ SameConnector(r, conns[c])
      /\ r.toL = << >> /\ r.account = conns[c].account /\ r.fd = conns[c].fd
      /\ ~r.open /\ r.valid = conns[c].valid
  BY <1>2, NotOpenRecord
<1> HIDE DEF r
<1>5. OnlyConn(c) /\ conns'[c] = r
  BY <1>3, <1>4, OnlyConnReplaced
<1> QED
  BY <1>1, <1>4, <1>5

LEMMA ScriptEffect ==
  ASSUME LinkTypeOK, ScriptValidates
  PROVE  /\ UNCHANGED << socks, sockfd, holder, nSends >> /\ pending = << >>
         /\ lua # << >> /\ lua' = Tail(lua)
         /\ \/ UNCHANGED << conns, pending >>
            \/ \E fd \in DOMAIN socks :
                 LET c == socks[fd].conn
                 IN  /\ c \in Conn /\ conns[c].open /\ OnlyConn(c)
                     /\ SameGhosts(conns'[c], conns[c]) /\ SameConnector(conns'[c], conns[c])
                     /\ conns'[c].toL = conns[c].toL /\ conns'[c].account = conns[c].account
                     /\ conns'[c].fd = conns[c].fd /\ conns'[c].open = conns[c].open
                     /\ conns'[c].valid
                     /\ pending' = << [fd |-> fd, id |-> "1000", meant |-> c] >>
<1> DEFINE fd == Head(lua).fd
           c == socks[fd].conn
           q == conns[c]
           r == [q EXCEPT !.valid = TRUE]
<1>1. /\ UNCHANGED << socks, sockfd, holder, nSends >> /\ pending = << >>
      /\ lua # << >> /\ lua' = Tail(lua)
  BY DEF ScriptValidates
<1>2. CASE ~ValidateConnect(fd, Head(lua).account)
  BY <1>1, <1>2 DEF ScriptValidates
<1>3. CASE ValidateConnect(fd, Head(lua).account)
  <2>1. fd \in DOMAIN socks /\ q.open
    BY <1>3 DEF ValidateConnect
  <2>2. c \in Conn
    BY <2>1 DEF LinkTypeOK
  <2>3. /\ conns' = [conns EXCEPT ![c] = r]
        /\ pending' = << [fd |-> fd, id |-> "1000", meant |-> c] >>
    BY <1>3 DEF ScriptValidates
  <2>4. q \in ConnState
    BY <2>2, ConnAt
  <2>5. /\ r \in ConnState /\ SameGhosts(r, q) /\ SameConnector(r, q) /\ r.toL = q.toL
        /\ r.account = q.account /\ r.fd = q.fd /\ r.open = q.open /\ r.valid
    BY <2>4, ValidRecord
  <2> HIDE DEF r
  <2>6. OnlyConn(c) /\ conns'[c] = r
    BY <2>2, <2>3, <2>5, OnlyConnReplaced
  <2> HIDE DEF fd
  <2> QED
    BY <1>1, <2>1, <2>2, <2>3, <2>5, <2>6
<1> QED
  BY <1>2, <1>3

(* Of a descriptor's entry only the messages change. *)
OnlyMsgs(fd, msgs) ==
  /\ socks' = [f \in DOMAIN socks |-> socks'[f]]
  /\ DOMAIN socks' = DOMAIN socks /\ socks'[fd].conn = socks[fd].conn /\ socks'[fd].msgs = msgs
  /\ socks'[fd] = [conn |-> socks[fd].conn, msgs |-> msgs]
  /\ \A f \in DOMAIN socks : f # fd => socks'[f] = socks[f]

LEMMA OnlyMsgsChange ==
  ASSUME LinkTypeInv, NEW fd \in DOMAIN socks, NEW msgs, socks' = [socks EXCEPT ![fd].msgs = msgs]
  PROVE  OnlyMsgs(fd, msgs)
<1>1. /\ socks[fd] = [conn |-> socks[fd].conn, msgs |-> socks[fd].msgs]
      /\ socks = [f \in DOMAIN socks |-> socks[f]]
  BY DEF LinkTypeInv, LinkTypeOK
<1>2. socks'[fd] = [conn |-> socks[fd].conn, msgs |-> msgs]
  BY <1>1
<1> QED
  BY <1>1, <1>2 DEF OnlyMsgs

LEMMA PushEffect ==
  ASSUME LinkTypeInv, PushMsgToSock
  PROVE  /\ UNCHANGED << sockfd, holder, lua, nSends >> /\ pending # << >> /\ pending' = << >>
         /\ pending[1] \in Message
         /\ \/ UNCHANGED << conns, socks >>
            \/ \E fd \in DOMAIN socks :
                 LET c == socks[fd].conn
                     msg == pending[1]
                 IN  /\ fd = msg.fd /\ c \in Conn /\ OnlyConn(c)
                     /\ SameEnds(conns'[c], conns[c]) /\ SameConnector(conns'[c], conns[c])
                     /\ conns'[c].early = (conns[c].early \/ (msg.id # "1000" /\ ~conns[c].welcomed))
                     /\ conns'[c].welcomed = (conns[c].welcomed \/ msg.id = "1000")
                     /\ OnlyMsgs(fd, Append(socks[fd].msgs, msg))
<1> DEFINE msg == Head(pending)
           fd == msg.fd
           c == socks[fd].conn
           q == conns[c]
           e == q.early \/ (msg.id # "1000" /\ ~q.welcomed)
           w == q.welcomed \/ msg.id = "1000"
           r == [[q EXCEPT !.early = e] EXCEPT !.welcomed = w]
<1>1. UNCHANGED << sockfd, holder, lua, nSends >> /\ pending # << >> /\ pending' = << >>
  BY DEF PushMsgToSock
<1>2. pending[1] \in Message /\ msg = pending[1]
  BY <1>1 DEF LinkTypeInv, LinkTypeOK
<1>3. CASE fd \notin DOMAIN socks
  BY <1>1, <1>2, <1>3 DEF PushMsgToSock
<1>4. CASE fd \in DOMAIN socks
  <2>1. c \in Conn
    BY <1>4 DEF LinkTypeInv, LinkTypeOK
  <2>2. q \in ConnState
    BY <2>1, ConnAt DEF LinkTypeInv
  <2>3. socks' = [socks EXCEPT ![fd].msgs = Append(socks[fd].msgs, msg)]
    BY <1>4 DEF PushMsgToSock, Queued
  <2>4. OnlyMsgs(fd, Append(socks[fd].msgs, msg))
    BY <1>4, <2>3, OnlyMsgsChange
  <2>5. conns' = [conns EXCEPT ![c].early = e, ![c].welcomed = w]
    BY <1>4, <2>1, <2>2, ConnFields DEF PushMsgToSock, LinkTypeInv, LinkTypeOK, Conn
  <2>6. conns' = [conns EXCEPT ![c] = r]
    BY <2>1, <2>5 DEF LinkTypeInv, LinkTypeOK, Conn
  <2> HIDE DEF e, w
  <2>7. e \in BOOLEAN /\ w \in BOOLEAN
    BY DEF e, w
  <2>8. r \in ConnState /\ SameEnds(r, q) /\ SameConnector(r, q) /\ r.early = e /\ r.welcomed = w
    BY <2>2, <2>7, GhostRecord
  <2> HIDE DEF r
  <2>9. OnlyConn(c) /\ conns'[c] = r
    BY <2>1, <2>6, <2>8, OnlyConnReplaced DEF LinkTypeInv
  <2> QED
    BY <1>1, <1>2, <1>4, <2>1, <2>4, <2>8, <2>9 DEF e, w
<1> QED
  BY <1>3, <1>4

LEMMA SendEffect ==
  ASSUME LinkTypeInv, NEW fd \in DOMAIN socks, Send(fd)
  PROVE  LET c == socks[fd].conn
         IN  /\ UNCHANGED << sockfd, holder, lua, pending, nSends >>
             /\ c \in Conn /\ OnlyMsgs(fd, << >>)
             /\ \/ conns' = conns /\ ~(conns[c].open /\ conns[c].far = "open")
                \/ /\ conns[c].open /\ conns[c].far = "open" /\ OnlyConn(c)
                   /\ SameEnds(conns'[c], conns[c]) /\ SameGhosts(conns'[c], conns[c])
                   /\ conns'[c].far = conns[c].far /\ conns'[c].isOk = conns[c].isOk
                   /\ conns'[c].by = conns[c].by
                   /\ conns'[c].toC = conns[c].toC \o socks[fd].msgs
<1> DEFINE c == socks[fd].conn
           q == conns[c]
           s == q.toC \o socks[fd].msgs
           r == [q EXCEPT !.toC = s]
<1>1. /\ UNCHANGED << sockfd, holder, lua, pending, nSends >>
      /\ socks' = [socks EXCEPT ![fd].msgs = << >>]
  BY DEF Send
<1>2. OnlyMsgs(fd, << >>)
  BY <1>1, OnlyMsgsChange
<1>3. c \in Conn /\ socks[fd].msgs \in Seq(Message)
  BY DEF LinkTypeInv, LinkTypeOK
<1>4. CASE ~(q.open /\ q.far = "open")
  BY <1>1, <1>2, <1>3, <1>4 DEF Send
<1>5. CASE q.open /\ q.far = "open"
  <2>1. conns' = [conns EXCEPT ![c] = r]
    BY <1>3, <1>5 DEF Send, LinkTypeInv, LinkTypeOK, Conn
  <2>2. q \in ConnState /\ q.toC \in Seq(Message)
    BY <1>3, ConnAt, ConnFields DEF LinkTypeInv
  <2>3. s \in Seq(Message)
    BY <1>3, <2>2, ConcatProperties
  <2>4. /\ r \in ConnState /\ SameEnds(r, q) /\ SameGhosts(r, q)
        /\ r.far = q.far /\ r.isOk = q.isOk /\ r.by = q.by /\ r.toC = s
    BY <2>2, <2>3, ToCRecord
  <2> HIDE DEF r
  <2>5. OnlyConn(c) /\ conns'[c] = r
    BY <1>3, <2>1, <2>4, OnlyConnReplaced DEF LinkTypeInv
  <2> QED
    BY <1>1, <1>2, <1>3, <1>5, <2>4, <2>5
<1> QED
  BY <1>4, <1>5

LEMMA ConnectEffect ==
  ASSUME LinkTypeOK, NEW account \in Account, ConnectToServer(account)
  PROVE  /\ UNCHANGED << socks, sockfd, holder, lua, pending, nSends >>
         /\ \E fd \in FreeFd :
              /\ fd \in Fd /\ Conn' = Conn \cup {Len(conns) + 1} /\ Len(conns) + 1 \notin Conn
              /\ Message \subseteq Message' /\ conns' \in Seq(ConnState')
              /\ conns'[Len(conns) + 1] = Connection(account, fd)
              /\ \A d \in Conn : conns'[d] = conns[d]
<1>1. PICK fd \in FreeFd : conns' = Append(conns, Connection(account, fd))
  BY DEF ConnectToServer
<1>2. fd \in Fd
  BY DEF FreeFd
<1> QED
  BY <1>1, <1>2, Appended DEF ConnectToServer

-------------------------------------------------------------------------------
(* The types. *)

Entry == [conn : Conn, msgs : Seq(Message)]

LEMMA EntryTypes ==
  ASSUME LinkTypeOK
  PROVE  /\ \A fd \in DOMAIN socks : socks[fd] \in Entry
         /\ \A c \in Conn, s \in Seq(Message) : [conn |-> c, msgs |-> s] \in Entry
  BY DEF LinkTypeOK, Entry

LEMMA SameTypes ==
  ASSUME conns' = conns
  PROVE  Conn' = Conn /\ Message' = Message /\ ConnState' = ConnState
<1>1. Conn' = Conn /\ Message' = Message
  BY DEF Conn, Message
<1> QED
  BY <1>1 DEF ConnState

LEMMA EntriesGrow ==
  ASSUME LinkTypeInv, Conn \subseteq Conn', UNCHANGED << socks, sockfd, holder, lua, pending, nSends >>,
         conns' \in Seq(ConnState)', Message \subseteq Message'
  PROVE  LinkTypeInv'
<1>1. Seq(Message) \subseteq Seq(Message')
  BY SeqMonotonic
<1>2. \A fd \in DOMAIN socks : socks[fd] \in [conn : Conn', msgs : Seq(Message')]
  BY <1>1 DEF LinkTypeInv, LinkTypeOK
<1>3. LinkTypeOK'
  BY <1>1, <1>2 DEF LinkTypeInv, LinkTypeOK
<1> QED
  BY <1>3 DEF LinkTypeInv

LEMMA LinkTypeInit == LinkInit => LinkTypeInv
<1> SUFFICES ASSUME LinkInit PROVE LinkTypeInv
  OBVIOUS
<1>1. conns \in Seq(ConnState) /\ pending \in Seq(Message) /\ lua \in Seq([fd : Fd, account : Account])
  BY DEF LinkInit
<1>2. DOMAIN socks = {} /\ socks = [fd \in {} |-> socks[fd]]
  BY DEF LinkInit
<1>3. /\ sockfd \in [Key -> Fd \cup {NoFd}] /\ holder \in [Key -> Conn \cup {0}] /\ nSends \in Nat
      /\ \A k \in Key : sockfd[k] = NoFd
  BY DEF LinkInit
<1> QED
  BY <1>1, <1>2, <1>3 DEF LinkTypeInv, LinkTypeOK

LEMMA LinkTypeStep ==
  ASSUME LinkTypeInv, [LinkNext]_linkVars
  PROVE  LinkTypeInv'
<1>0. LinkTypeOK
  BY DEF LinkTypeInv
<1>a. ASSUME NEW c \in Conn, OnlyConn(c), UNCHANGED << socks, sockfd, holder, lua, pending, nSends >>
      PROVE  LinkTypeInv'
  BY <1>a, EntriesGrow DEF OnlyConn
<1>1. ASSUME NEW account \in Account, ConnectToServer(account)
      PROVE  LinkTypeInv'
  <2>1. /\ UNCHANGED << socks, sockfd, holder, lua, pending, nSends >> /\ Conn \subseteq Conn'
        /\ conns' \in Seq(ConnState)' /\ Message \subseteq Message'
    BY <1>0, <1>1, ConnectEffect
  <2> QED
    BY <2>1, EntriesGrow
<1>2. ASSUME NEW c \in Conn, ConnectorReceives(c)
      PROVE  LinkTypeInv'
  BY <1>0, <1>2, <1>a, ReceivesEffect
<1>3. ASSUME NEW c \in Conn, ConnectorCloses(c)
      PROVE  LinkTypeInv'
  BY <1>0, <1>3, <1>a, ClosesEffect
<1>4. ASSUME NEW c \in Conn, HandleValidate(c)
      PROVE  LinkTypeInv'
  <2>1. OnlyConn(c) /\ UNCHANGED << pending, nSends >>
    BY <1>0, <1>4, ValidateEffect
  <2>2. conns[c].account \in Account /\ conns[c].fd \in Fd
    BY <1>0, ConnAt, ConnFields
  <2>3. CASE UNCHANGED << socks, sockfd, holder, lua >>
    BY <1>a, <2>1, <2>3
  <2>4. CASE ~UNCHANGED << socks, sockfd, holder, lua >>
    <3> DEFINE fd == conns[c].fd
    <3>1. /\ socks' = InsertSocket(fd, c)
          /\ lua' = Append(lua, [fd |-> fd, account |-> conns[c].account])
          /\ \/ UNCHANGED << sockfd, holder >>
             \/ /\ sockfd' = [sockfd EXCEPT ![conns[c].account] = fd]
                /\ holder' = [holder EXCEPT ![conns[c].account] = c]
      BY <1>4, <2>4 DEF HandleValidate, NewSockfd
    <3>2. /\ DOMAIN socks' = DOMAIN socks \cup {fd} /\ socks'[fd] = [conn |-> c, msgs |-> << >>]
          /\ \A f \in DOMAIN socks : f # fd => socks'[f] = socks[f]
          /\ socks' = [f \in DOMAIN socks' |-> socks'[f]]
      BY <3>1 DEF InsertSocket
    <3>3. /\ DOMAIN socks' \subseteq Fd
          /\ \A f \in DOMAIN socks' : socks'[f] \in [conn : Conn, msgs : Seq(Message)]
      <4>1. << >> \in Seq(Message)
        OBVIOUS
      <4>2. \A f \in DOMAIN socks' : socks'[f] \in Entry
        BY <1>0, <3>2, <4>1, EntryTypes
      <4> QED
        BY <1>0, <2>2, <3>2, <4>2 DEF LinkTypeOK, Entry
    <3>4. lua' \in Seq([fd : Fd, account : Account])
      BY <1>0, <2>2, <3>1 DEF LinkTypeOK
    <3>5. /\ sockfd' \in [Key -> Fd \cup {NoFd}] /\ holder' \in [Key -> Conn \cup {0}]
          /\ \A k \in Key : sockfd'[k] # NoFd => holder'[k] # 0
      <4>1. c # 0
        BY <1>0 DEF LinkTypeOK, Conn
      <4> QED
        BY <2>2, <3>1, <4>1 DEF LinkTypeInv, LinkTypeOK
    <3>6. LinkTypeOK'
      BY <1>0, <2>1, <3>3, <3>4, <3>5 DEF LinkTypeOK, OnlyConn
    <3> QED
      BY <3>2, <3>5, <3>6 DEF LinkTypeInv
  <2> QED
    BY <2>3, <2>4
<1>5. ASSUME NEW c \in Conn, ListenerCloses(c)
      PROVE  LinkTypeInv'
  BY <1>0, <1>5, <1>a, ListenerEffect
<1>6. ASSUME ScriptValidates
      PROVE  LinkTypeInv'
  <2>1. UNCHANGED << socks, sockfd, holder, nSends >> /\ lua' = Tail(lua) /\ lua # << >>
    BY <1>0, <1>6, ScriptEffect
  <2>2. lua' \in Seq([fd : Fd, account : Account])
    BY <1>0, <2>1 DEF LinkTypeOK
  <2>3. CASE UNCHANGED << conns, pending >>
    BY <1>0, <2>1, <2>2, <2>3 DEF LinkTypeInv, LinkTypeOK, ConnState, Message, Conn
  <2>4. CASE ~UNCHANGED << conns, pending >>
    <3>1. PICK fd \in DOMAIN socks :
            /\ socks[fd].conn \in Conn /\ OnlyConn(socks[fd].conn)
            /\ pending' = << [fd |-> fd, id |-> "1000", meant |-> socks[fd].conn] >>
      BY <1>0, <1>6, <2>4, ScriptEffect
    <3>2. [fd |-> fd, id |-> "1000", meant |-> socks[fd].conn] \in Message
      BY <1>0, <3>1 DEF LinkTypeOK, Message
    <3>3. pending' \in Seq(Message)
      BY <3>1, <3>2
    <3>4. LinkTypeOK'
      BY <1>0, <2>1, <2>2, <3>1, <3>3 DEF LinkTypeOK, OnlyConn
    <3> QED
      BY <2>1, <3>4 DEF LinkTypeInv
  <2> QED
    BY <2>3, <2>4
<1>7. ASSUME NEW k \in Key, ScriptNames(k)
      PROVE  LinkTypeInv'
  <2>1. /\ UNCHANGED << conns, socks, sockfd, holder, lua >> /\ nSends' = nSends + 1
        /\ pending' = << [fd |-> sockfd[k], id |-> "other", meant |-> holder[k]] >>
        /\ sockfd[k] # NoFd
    BY <1>7 DEF ScriptNames
  <2>2. [fd |-> sockfd[k], id |-> "other", meant |-> holder[k]] \in Message
    BY <2>1 DEF LinkTypeInv, LinkTypeOK, Message
  <2>3. pending' \in Seq(Message) /\ nSends' \in Nat
    BY <1>0, <2>1, <2>2 DEF LinkTypeOK
  <2>4. Conn' = Conn /\ Message' = Message /\ ConnState' = ConnState
    BY <2>1 DEF Conn, Message, ConnState
  <2> QED
    BY <2>1, <2>3, <2>4 DEF LinkTypeInv, LinkTypeOK
<1>8. ASSUME PushMsgToSock
      PROVE  LinkTypeInv'
  <2>1. UNCHANGED << sockfd, holder, lua, nSends >> /\ pending' = << >> /\ pending[1] \in Message
    BY <1>8, PushEffect
  <2>2. CASE UNCHANGED << conns, socks >>
    <3>1. Conn' = Conn /\ Message' = Message /\ ConnState' = ConnState /\ pending' \in Seq(Message)
      BY <2>1, <2>2, SameTypes
    <3>2. LinkTypeOK'
      BY <1>0, <2>1, <2>2, <3>1 DEF LinkTypeOK
    <3> QED
      BY <2>1, <2>2, <3>2 DEF LinkTypeInv
  <2>3. CASE ~UNCHANGED << conns, socks >>
    <3>1. PICK fd \in DOMAIN socks :
            /\ socks[fd].conn \in Conn /\ OnlyConn(socks[fd].conn)
            /\ OnlyMsgs(fd, Append(socks[fd].msgs, pending[1]))
      BY <1>8, <2>3, PushEffect
    <3>2. socks[fd].msgs \in Seq(Message)
      BY <1>0 DEF LinkTypeOK
    <3>3. Append(socks[fd].msgs, pending[1]) \in Seq(Message)
      BY <2>1, <3>2
    <3>4. \A f \in DOMAIN socks' : socks'[f] \in [conn : Conn, msgs : Seq(Message)]
      <4>1. \A f \in DOMAIN socks' : socks'[f] \in Entry
        BY <1>0, <3>1, <3>3, EntryTypes DEF OnlyMsgs
      <4> QED
        BY <4>1 DEF Entry
    <3> QED
      BY <1>0, <2>1, <3>1, <3>4 DEF LinkTypeInv, LinkTypeOK, OnlyConn, OnlyMsgs
  <2> QED
    BY <2>2, <2>3
<1>9. ASSUME NEW fd \in DOMAIN socks, Send(fd)
      PROVE  LinkTypeInv'
  <2>1. /\ UNCHANGED << sockfd, holder, lua, pending, nSends >> /\ OnlyMsgs(fd, << >>)
        /\ socks[fd].conn \in Conn /\ (conns' = conns \/ OnlyConn(socks[fd].conn))
    BY <1>9, SendEffect
  <2>2. Conn' = Conn /\ Message' = Message /\ conns' \in Seq(ConnState)'
    BY <1>0, <2>1, SameTypes DEF OnlyConn, LinkTypeOK
  <2>3. \A f \in DOMAIN socks' : socks'[f] \in [conn : Conn, msgs : Seq(Message)]
    <3>1. << >> \in Seq(Message)
      OBVIOUS
    <3>2. \A f \in DOMAIN socks' : socks'[f] \in Entry
      BY <1>0, <2>1, <3>1, EntryTypes DEF OnlyMsgs
    <3> QED
      BY <3>2 DEF Entry
  <2> QED
    BY <1>0, <2>1, <2>2, <2>3 DEF LinkTypeInv, LinkTypeOK, OnlyMsgs
<1>10. ASSUME UNCHANGED linkVars
       PROVE  LinkTypeInv'
  <2>1. Conn' = Conn /\ Message' = Message /\ ConnState' = ConnState
    BY <1>10 DEF linkVars, Conn, Message, ConnState
  <2> QED
    BY <1>0, <1>10, <2>1 DEF linkVars, LinkTypeInv, LinkTypeOK
<1> QED
  BY <1>1, <1>2, <1>3, <1>4, <1>5, <1>6, <1>7, <1>8, <1>9, <1>10 DEF LinkNext

(* Every variable keeps its type. *)
THEOREM LinkTypeCorrect == LinkSpec => []LinkTypeOK
<1>1. LinkInit => LinkTypeInv
  BY LinkTypeInit
<1>2. LinkTypeInv /\ [LinkNext]_linkVars => LinkTypeInv'
  BY LinkTypeStep
<1>3. LinkTypeInv => LinkTypeOK
  BY DEF LinkTypeInv
<1> QED
  BY <1>1, <1>2, <1>3, PTL DEF LinkSpec

-------------------------------------------------------------------------------
(* Where messages go.  Of the connections with a descriptor at most one is  *)
(* open, and from its login on it has the descriptor's entry in _socks; a   *)
(* message carries the descriptor of the connection it is for.              *)
Arrived(fd, c) ==
  conns[c].fd = fd /\ fd \in DOMAIN socks /\ (conns[c].open => socks[fd].conn = c)
Good(msg) == Arrived(msg.fd, msg.meant) /\ (msg.id = "1000" => conns[msg.meant].valid)

RouteInv ==
  /\ \A c, d \in Conn : conns[c].open /\ conns[d].open /\ conns[c].fd = conns[d].fd => c = d
  /\ \A fd \in DOMAIN socks : conns[socks[fd].conn].fd = fd
  /\ \A k \in Key : holder[k] # 0 => Arrived(sockfd[k], holder[k])
  /\ pending # << >> => Good(pending[1])
  /\ \A fd \in DOMAIN socks : \A i \in DOMAIN socks[fd].msgs :
       Good(socks[fd].msgs[i]) /\ socks[fd].msgs[i].fd = fd

(* What no step takes back. *)
Progress ==
  /\ Conn \subseteq Conn' /\ DOMAIN socks \subseteq DOMAIN socks'
  /\ \A c \in Conn : /\ conns'[c].fd = conns[c].fd
                     /\ conns'[c].open => conns[c].open
                     /\ conns[c].valid => conns'[c].valid
  /\ \A fd \in DOMAIN socks : \A c \in Conn :
       socks[fd].conn = c /\ conns[c].fd = fd /\ conns'[c].open => socks'[fd].conn = c

ArrivedAfter(fd, c) ==
  conns'[c].fd = fd /\ fd \in DOMAIN socks' /\ (conns'[c].open => socks'[fd].conn = c)
GoodAfter(msg) == ArrivedAfter(msg.fd, msg.meant) /\ (msg.id = "1000" => conns'[msg.meant].valid)

LEMMA GoodStays ==
  ASSUME Progress
  PROVE  /\ \A c \in Conn : \A fd : Arrived(fd, c) => ArrivedAfter(fd, c)
         /\ \A msg \in Message : Good(msg) => GoodAfter(msg)
<1>1. ASSUME NEW c \in Conn, NEW fd, Arrived(fd, c)
      PROVE  ArrivedAfter(fd, c)
  BY <1>1 DEF Progress, Arrived, ArrivedAfter
<1>2. \A msg \in Message : msg.meant \in Conn
  BY DEF Message
<1> QED
  BY <1>1, <1>2 DEF Good, GoodAfter, Progress

LEMMA MessageAt ==
  ASSUME LinkTypeOK
  PROVE  /\ \A fd \in DOMAIN socks : \A i \in DOMAIN socks[fd].msgs : socks[fd].msgs[i] \in Message
         /\ \A c \in Conn : \A i \in DOMAIN conns[c].toC : conns[c].toC[i] \in Message
         /\ pending # << >> => pending[1] \in Message
         /\ \A msg \in Message : msg.meant \in Conn
<1>1. ASSUME NEW fd \in DOMAIN socks, NEW i \in DOMAIN socks[fd].msgs
      PROVE  socks[fd].msgs[i] \in Message
  <2>1. socks[fd].msgs \in Seq(Message)
    BY DEF LinkTypeOK
  <2> QED
    BY <2>1
<1>2. ASSUME NEW c \in Conn, NEW i \in DOMAIN conns[c].toC
      PROVE  conns[c].toC[i] \in Message
  <2>1. conns[c].toC \in Seq(Message)
    BY ConnAt, ConnFields
  <2> QED
    BY <2>1
<1>3. pending # << >> => pending[1] \in Message
  BY DEF LinkTypeOK
<1> QED
  BY <1>1, <1>2, <1>3 DEF Message

(* A step that progresses, on the connections and messages there were. *)
LEMMA RouteKeeps ==
  ASSUME LinkTypeInv, RouteInv, Progress
  PROVE  /\ \A c, d \in Conn :
              conns'[c].open /\ conns'[d].open /\ conns'[c].fd = conns'[d].fd => c = d
         /\ \A k \in Key : holder[k] # 0 => ArrivedAfter(sockfd[k], holder[k])
         /\ pending # << >> => GoodAfter(pending[1])
         /\ \A fd \in DOMAIN socks : \A i \in DOMAIN socks[fd].msgs :
              GoodAfter(socks[fd].msgs[i]) /\ socks[fd].msgs[i].fd = fd
<1>0. LinkTypeOK
  BY DEF LinkTypeInv
<1>1. \A c, d \in Conn :
        conns'[c].open /\ conns'[d].open /\ conns'[c].fd = conns'[d].fd => c = d
  BY DEF RouteInv, Progress
<1>2. \A k \in Key : holder[k] # 0 => holder[k] \in Conn
  BY <1>0 DEF LinkTypeOK
<1>3. \A k \in Key : holder[k] # 0 => ArrivedAfter(sockfd[k], holder[k])
  BY <1>2, GoodStays DEF RouteInv
<1>4. pending # << >> => GoodAfter(pending[1])
  BY <1>0, GoodStays, MessageAt DEF RouteInv
<1>5. \A fd \in DOMAIN socks : \A i \in DOMAIN socks[fd].msgs :
        GoodAfter(socks[fd].msgs[i]) /\ socks[fd].msgs[i].fd = fd
  BY <1>0, GoodStays, MessageAt DEF RouteInv
<1> QED
  BY <1>1, <1>3, <1>4, <1>5

(* One connection changes, and nothing else. *)
LEMMA RouteOneConn ==
  ASSUME LinkTypeInv, RouteInv, NEW c \in Conn, OnlyConn(c),
         UNCHANGED << socks, sockfd, holder, pending >>,
         conns'[c].fd = conns[c].fd, conns'[c].open => conns[c].open,
         conns[c].valid => conns'[c].valid
  PROVE  RouteInv' /\ Progress
<1>1. Progress
  BY DEF Progress, OnlyConn
<1>2. \A fd \in DOMAIN socks : socks[fd].conn \in Conn
  BY DEF LinkTypeInv, LinkTypeOK
<1>3. \A fd \in DOMAIN socks : conns'[socks[fd].conn].fd = fd
  BY <1>1, <1>2 DEF RouteInv, Progress
<1> QED
  BY <1>1, <1>3, RouteKeeps DEF RouteInv, OnlyConn, Good, GoodAfter, Arrived, ArrivedAfter

LEMMA RouteInit == LinkInit => RouteInv
<1> SUFFICES ASSUME LinkInit PROVE RouteInv
  OBVIOUS
<1>1. Conn = {} /\ DOMAIN socks = {} /\ pending = << >> /\ \A k \in Key : holder[k] = 0
  BY DEF LinkInit, Conn
<1> QED
  BY <1>1 DEF RouteInv

LEMMA RouteStep ==
  ASSUME LinkTypeInv, RouteInv, [LinkNext]_linkVars
  PROVE  RouteInv' /\ Progress
<1>0. LinkTypeOK /\ \A fd \in DOMAIN socks : socks[fd].conn \in Conn
  BY DEF LinkTypeInv, LinkTypeOK
<1>1. ASSUME NEW account \in Account, ConnectToServer(account)
      PROVE  RouteInv' /\ Progress
  <2>1. /\ UNCHANGED << socks, sockfd, holder, pending >>
        /\ \A d \in Conn : conns'[d] = conns[d]
    BY <1>0, <1>1, ConnectEffect
  <2>2. PICK fd \in FreeFd : /\ Conn' = Conn \cup {Len(conns) + 1}
                             /\ conns'[Len(conns) + 1] = Connection(account, fd)
    BY <1>0, <1>1, ConnectEffect
  <2>3. Progress
    BY <2>1, <2>2 DEF Progress
  <2>4. \A d \in Conn : conns[d].open => conns[d].fd # fd
    BY DEF FreeFd
  <2>5. conns'[Len(conns) + 1].fd = fd
    BY <2>2 DEF Connection
  <2>6. \A c, d \in Conn' :
          conns'[c].open /\ conns'[d].open /\ conns'[c].fd = conns'[d].fd => c = d
    BY <2>1, <2>2, <2>4, <2>5 DEF RouteInv
  <2>7. \A f \in DOMAIN socks' : conns'[socks'[f].conn].fd = f
    BY <1>0, <2>1 DEF RouteInv
  <2> QED
    BY <2>1, <2>3, <2>6, <2>7, RouteKeeps DEF RouteInv, Good, GoodAfter, Arrived, ArrivedAfter
<1>2. ASSUME NEW c \in Conn, ConnectorReceives(c)
      PROVE  RouteInv' /\ Progress
  BY <1>0, <1>2, ReceivesEffect, RouteOneConn DEF SameEnds
<1>3. ASSUME NEW c \in Conn, ConnectorCloses(c)
      PROVE  RouteInv' /\ Progress
  BY <1>0, <1>3, ClosesEffect, RouteOneConn DEF SameEnds
<1>4. ASSUME NEW c \in Conn, HandleValidate(c)
      PROVE  RouteInv' /\ Progress
  <2>1. /\ OnlyConn(c) /\ UNCHANGED pending /\ conns[c].open
        /\ conns'[c].fd = conns[c].fd /\ conns'[c].open = conns[c].open
        /\ conns'[c].valid = conns[c].valid
    BY <1>0, <1>4, ValidateEffect
  <2>2. CASE UNCHANGED << socks, sockfd, holder >>
    BY <1>0, <2>1, <2>2, RouteOneConn
  <2>3. CASE ~UNCHANGED << socks, sockfd, holder >>
    <3> DEFINE fd == conns[c].fd
    <3>1. /\ socks' = InsertSocket(fd, c)
          /\ \/ UNCHANGED << sockfd, holder >>
             \/ /\ conns[c].account \in Key
                /\ sockfd' = [sockfd EXCEPT ![conns[c].account] = fd]
                /\ holder' = [holder EXCEPT ![conns[c].account] = c]
      BY <1>4, <2>3 DEF HandleValidate, NewSockfd
    <3>2. /\ DOMAIN socks' = DOMAIN socks \cup {fd} /\ socks'[fd] = [conn |-> c, msgs |-> << >>]
          /\ \A f \in DOMAIN socks : f # fd => socks'[f] = socks[f]
      BY <3>1 DEF InsertSocket
    <3>3. socks'[fd].conn = c /\ socks'[fd].msgs = << >>
      BY <3>2
    <3>4. ASSUME NEW f \in DOMAIN socks, NEW d \in Conn,
                 socks[f].conn = d, conns[d].fd = f, conns'[d].open
          PROVE  socks'[f].conn = d
      <4>1. CASE f # fd
        BY <3>2, <3>4, <4>1
      <4>2. CASE f = fd
        <5>1. conns[d].open
          BY <2>1, <3>4 DEF OnlyConn
        <5>2. d = c
          BY <2>1, <3>4, <4>2, <5>1 DEF RouteInv
        <5> QED
          BY <3>3, <4>2, <5>2
      <4> QED
        BY <4>1, <4>2
    <3>5. Progress
      BY <2>1, <3>2, <3>4 DEF Progress, OnlyConn
    <3>6. \A d, e \in Conn' :
            conns'[d].open /\ conns'[e].open /\ conns'[d].fd = conns'[e].fd => d = e
      BY <2>1, <3>5, RouteKeeps DEF OnlyConn
    <3>7. \A f \in DOMAIN socks' : conns'[socks'[f].conn].fd = f
      BY <1>0, <2>1, <3>2, <3>3, <3>5 DEF RouteInv, Progress
    <3>8. ArrivedAfter(fd, c)
      BY <2>1, <3>2, <3>3 DEF ArrivedAfter
    <3>9. ASSUME NEW k \in Key, holder'[k] # 0
          PROVE  ArrivedAfter(sockfd'[k], holder'[k])
      <4>1. CASE sockfd'[k] = sockfd[k] /\ holder'[k] = holder[k]
        BY <3>5, <3>9, <4>1, RouteKeeps
      <4>2. CASE ~(sockfd'[k] = sockfd[k] /\ holder'[k] = holder[k])
        <5>1. sockfd'[k] = fd /\ holder'[k] = c
          BY <1>0, <3>1, <4>2 DEF LinkTypeOK
        <5> QED
          BY <3>8, <5>1
      <4> QED
        BY <4>1, <4>2
    <3>10. pending' # << >> => GoodAfter(pending'[1])
      BY <2>1, <3>5, RouteKeeps
    <3>11. ASSUME NEW f \in DOMAIN socks', NEW i \in DOMAIN socks'[f].msgs
           PROVE  GoodAfter(socks'[f].msgs[i]) /\ socks'[f].msgs[i].fd = f
      <4>1. f # fd
        BY <3>3, <3>11
      <4>2. f \in DOMAIN socks /\ socks'[f] = socks[f]
        BY <3>2, <3>11, <4>1
      <4> QED
        BY <3>5, <3>11, <4>2, RouteKeeps
    <3> QED
      BY <3>5, <3>6, <3>7, <3>9, <3>10, <3>11 DEF RouteInv, Good, GoodAfter, Arrived, ArrivedAfter
  <2> QED
    BY <2>2, <2>3
<1>5. ASSUME NEW c \in Conn, ListenerCloses(c)
      PROVE  RouteInv' /\ Progress
  BY <1>0, <1>5, ListenerEffect, RouteOneConn
<1>6. ASSUME ScriptValidates
      PROVE  RouteInv' /\ Progress
  <2>1. UNCHANGED << socks, sockfd, holder >> /\ pending = << >>
    BY <1>0, <1>6, ScriptEffect
  <2>2. CASE UNCHANGED << conns, pending >>
    BY <2>1, <2>2 DEF RouteInv, Progress, Good, Arrived, Conn
  <2>3. CASE ~UNCHANGED << conns, pending >>
    <3>1. PICK fd \in DOMAIN socks :
            LET c == socks[fd].conn
            IN  /\ c \in Conn /\ OnlyConn(c) /\ conns'[c].fd = conns[c].fd
                /\ conns'[c].open = conns[c].open /\ conns'[c].valid
                /\ pending' = << [fd |-> fd, id |-> "1000", meant |-> c] >>
      BY <1>0, <1>6, <2>3, ScriptEffect
    <3>2. Progress
      BY <2>1, <3>1 DEF Progress, OnlyConn
    <3>3. \A f \in DOMAIN socks : conns'[socks[f].conn].fd = f
      BY <1>0, <3>2 DEF RouteInv, Progress
    <3>4. GoodAfter(pending'[1])
      BY <2>1, <3>1, <3>3 DEF GoodAfter, ArrivedAfter
    <3>5. /\ \A c, d \in Conn' :
               conns'[c].open /\ conns'[d].open /\ conns'[c].fd = conns'[d].fd => c = d
          /\ \A f \in DOMAIN socks' : conns'[socks'[f].conn].fd = f
      BY <1>0, <2>1, <3>1, <3>2, <3>3, RouteKeeps DEF OnlyConn
    <3>6. \A k \in Key : holder'[k] # 0 => Arrived(sockfd[k], holder[k])'
      BY <1>0, <2>1, <3>2, RouteKeeps DEF Arrived, ArrivedAfter
    <3>7. Good(pending[1])'
      BY <3>4 DEF Good, GoodAfter, Arrived, ArrivedAfter
    <3>8. \A f \in DOMAIN socks' : \A i \in DOMAIN socks'[f].msgs :
            Good(socks[f].msgs[i])' /\ socks'[f].msgs[i].fd = f
      BY <1>0, <2>1, <3>2, RouteKeeps DEF Good, GoodAfter, Arrived, ArrivedAfter
    <3> QED
      BY <3>2, <3>5, <3>6, <3>7, <3>8 DEF RouteInv
  <2> QED
    BY <2>2, <2>3
<1>7. ASSUME NEW k \in Key, ScriptNames(k)
      PROVE  RouteInv' /\ Progress
  <2>1. /\ UNCHANGED << conns, socks, sockfd, holder >> /\ sockfd[k] # NoFd
        /\ pending' = << [fd |-> sockfd[k], id |-> "other", meant |-> holder[k]] >>
    BY <1>7 DEF ScriptNames
  <2>2. Arrived(sockfd[k], holder[k])
    BY <2>1 DEF LinkTypeInv, RouteInv
  <2>3. Good(pending[1])'
    BY <2>1, <2>2 DEF Good, Arrived
  <2> QED
    BY <2>1, <2>3 DEF RouteInv, Progress, Good, Arrived, Conn
<1>8. ASSUME PushMsgToSock
      PROVE  RouteInv' /\ Progress
  <2>1. UNCHANGED << sockfd, holder >> /\ pending # << >> /\ pending' = << >>
    BY <1>8, PushEffect
  <2>2. CASE UNCHANGED << conns, socks >>
    BY <2>1, <2>2 DEF RouteInv, Progress, Good, Arrived, Conn
  <2>3. CASE ~UNCHANGED << conns, socks >>
    <3>1. PICK fd \in DOMAIN socks :
            LET c == socks[fd].conn
            IN  /\ fd = pending[1].fd /\ c \in Conn /\ OnlyConn(c)
                /\ SameEnds(conns'[c], conns[c])
                /\ OnlyMsgs(fd, Append(socks[fd].msgs, pending[1]))
      BY <1>8, <2>3, PushEffect
    <3>2. Progress
      BY <3>1 DEF Progress, OnlyConn, SameEnds, OnlyMsgs
    <3>3. \A f \in DOMAIN socks' : conns'[socks'[f].conn].fd = f
      BY <1>0, <3>1, <3>2 DEF RouteInv, Progress, OnlyMsgs
    <3>4. ASSUME NEW f \in DOMAIN socks', NEW i \in DOMAIN socks'[f].msgs
          PROVE  GoodAfter(socks'[f].msgs[i]) /\ socks'[f].msgs[i].fd = f
      <4>1. CASE f # fd
        BY <3>1, <3>2, <3>4, <4>1, RouteKeeps DEF OnlyMsgs
      <4>2. CASE f = fd
        <5>1. socks[fd].msgs \in Seq(Message) /\ socks'[fd].msgs = Append(socks[fd].msgs, pending[1])
          BY <1>0, <3>1 DEF LinkTypeOK, OnlyMsgs
        <5>2. i \in DOMAIN socks[fd].msgs \/ socks'[fd].msgs[i] = pending[1]
          BY <3>4, <4>2, <5>1
        <5>3. i \in DOMAIN socks[fd].msgs => socks'[fd].msgs[i] = socks[fd].msgs[i]
          BY <5>1
        <5> QED
          BY <2>1, <3>1, <3>2, <4>2, <5>2, <5>3, RouteKeeps
      <4> QED
        BY <4>1, <4>2
    <3> QED
      BY <2>1, <3>1, <3>2, <3>3, <3>4, RouteKeeps
      DEF RouteInv, OnlyConn, Good, GoodAfter, Arrived, ArrivedAfter
  <2> QED
    BY <2>2, <2>3
<1>9. ASSUME NEW fd \in DOMAIN socks, Send(fd)
      PROVE  RouteInv' /\ Progress
  <2> DEFINE c == socks[fd].conn
  <2>1. /\ UNCHANGED << sockfd, holder, pending >> /\ OnlyMsgs(fd, << >>) /\ c \in Conn
        /\ conns' = conns \/ (OnlyConn(c) /\ SameEnds(conns'[c], conns[c]))
    BY <1>9, SendEffect
  <2>2. Conn' = Conn /\ \A d \in Conn : SameEnds(conns'[d], conns[d])
    BY <2>1 DEF OnlyConn, SameEnds, Conn
  <2>3. Progress
    BY <2>1, <2>2 DEF Progress, SameEnds, OnlyMsgs
  <2>4. \A f \in DOMAIN socks' : conns'[socks'[f].conn].fd = f
    BY <1>0, <2>1, <2>3 DEF RouteInv, Progress, OnlyMsgs
  <2>5. ASSUME NEW f \in DOMAIN socks', NEW i \in DOMAIN socks'[f].msgs
        PROVE  GoodAfter(socks'[f].msgs[i]) /\ socks'[f].msgs[i].fd = f
    BY <2>1, <2>3, <2>5, RouteKeeps DEF OnlyMsgs
  <2> QED
    BY <2>1, <2>2, <2>3, <2>4, <2>5, RouteKeeps
    DEF RouteInv, Good, GoodAfter, Arrived, ArrivedAfter
<1>10. ASSUME UNCHANGED linkVars
       PROVE  RouteInv' /\ Progress
  BY <1>10 DEF linkVars, RouteInv, Progress, Good, Arrived, Conn
<1> QED
  BY <1>1, <1>2, <1>3, <1>4, <1>5, <1>6, <1>7, <1>8, <1>9, <1>10 DEF LinkNext

-------------------------------------------------------------------------------
(* What arrives: a message for this connection or for one that is closed,   *)
(* and the answer only of a connection that was validated.                  *)
Proper(msg, c) ==
  (msg.meant = c \/ ~conns[msg.meant].open) /\ (msg.id = "1000" => conns[msg.meant].valid)
ProperAfter(msg, c) ==
  (msg.meant = c \/ ~conns'[msg.meant].open) /\ (msg.id = "1000" => conns'[msg.meant].valid)
OkProperly(c) ==
  LET by == conns[c].by
  IN  by \in Conn /\ conns[by].valid /\ (by = c \/ ~conns[by].open)

ArriveInv ==
  \A c \in Conn : /\ \A i \in DOMAIN conns[c].toC : Proper(conns[c].toC[i], c)
                  /\ conns[c].isOk => OkProperly(c)

LinkInv == LinkTypeInv /\ RouteInv /\ ArriveInv

LEMMA ProperStays ==
  ASSUME Progress
  PROVE  /\ \A msg \in Message : \A c : Proper(msg, c) => ProperAfter(msg, c)
         /\ \A b \in Conn : \A c :
              conns[b].valid /\ (b = c \/ ~conns[b].open) =>
                b \in Conn' /\ conns'[b].valid /\ (b = c \/ ~conns'[b].open)
<1>1. \A msg \in Message : msg.meant \in Conn
  BY DEF Message
<1> QED
  BY <1>1 DEF Progress, Proper, ProperAfter

(* A connection whose connector's end is as it was. *)
LEMMA ArriveKeeps ==
  ASSUME LinkInv, Progress, NEW c \in Conn
  PROVE  /\ \A i \in DOMAIN conns[c].toC : ProperAfter(conns[c].toC[i], c)
         /\ conns[c].isOk => LET by == conns[c].by
                             IN  by \in Conn' /\ conns'[by].valid /\ (by = c \/ ~conns'[by].open)
  BY ProperStays, MessageAt DEF LinkInv, LinkTypeInv, ArriveInv, OkProperly

LEMMA ArriveSame ==
  ASSUME LinkInv, Progress, NEW c \in Conn, SameConnector(conns'[c], conns[c])
  PROVE  /\ \A i \in DOMAIN conns'[c].toC : ProperAfter(conns'[c].toC[i], c)
         /\ conns'[c].isOk => LET by == conns'[c].by
                              IN  by \in Conn' /\ conns'[by].valid /\ (by = c \/ ~conns'[by].open)
  BY ArriveKeeps DEF SameConnector

LEMMA ArriveInit == LinkInit => ArriveInv
  BY DEF LinkInit, ArriveInv, Conn

(* An element of a concatenation is one of its two parts'. *)
LEMMA ConcatElement ==
  ASSUME NEW T, NEW s \in Seq(T), NEW r \in Seq(T), NEW i \in DOMAIN (s \o r)
  PROVE  \/ i \in DOMAIN s /\ (s \o r)[i] = s[i]
         \/ \E j \in DOMAIN r : (s \o r)[i] = r[j]
<1>1. /\ Len(s) \in Nat /\ DOMAIN s = 1 .. Len(s)
      /\ Len(r) \in Nat /\ DOMAIN r = 1 .. Len(r)
  BY LenProperties
<1>2. /\ s \o r \in Seq(T) /\ Len(s \o r) = Len(s) + Len(r)
      /\ \A j \in 1 .. Len(s) + Len(r) :
           (s \o r)[j] = IF j <= Len(s) THEN s[j] ELSE r[j - Len(s)]
  BY ConcatProperties
<1>3. i \in 1 .. Len(s) + Len(r)
  BY <1>2, LenProperties
<1>4. CASE i <= Len(s)
  BY <1>1, <1>2, <1>3, <1>4
<1>5. CASE ~(i <= Len(s))
  <2>1. i - Len(s) \in DOMAIN r
    BY <1>1, <1>3, <1>5
  <2>2. (s \o r)[i] = r[i - Len(s)]
    BY <1>2, <1>3, <1>5
  <2> QED
    BY <2>1, <2>2
<1> QED
  BY <1>4, <1>5

LEMMA ArriveStep ==
  ASSUME LinkInv, [LinkNext]_linkVars
  PROVE  ArriveInv'
<1>0. LinkTypeOK /\ LinkTypeInv /\ RouteInv /\ ArriveInv /\ Progress /\ LinkInv
  BY RouteStep DEF LinkInv, LinkTypeInv
<1>a. ASSUME Conn' = Conn, \A d \in Conn : SameConnector(conns'[d], conns[d])
      PROVE  ArriveInv'
  BY <1>0, <1>a, ArriveSame DEF ArriveInv, OkProperly, Proper, ProperAfter
<1>b. ASSUME NEW c \in Conn, OnlyConn(c),
             \A i \in DOMAIN conns'[c].toC : ProperAfter(conns'[c].toC[i], c),
             conns'[c].isOk => LET by == conns'[c].by
                               IN  by \in Conn' /\ conns'[by].valid /\ (by = c \/ ~conns'[by].open)
      PROVE  ArriveInv'
  <2>1. \A d \in Conn : d # c => SameConnector(conns'[d], conns[d])
    BY <1>b DEF OnlyConn, SameConnector
  <2> QED
    BY <1>0, <1>b, <2>1, ArriveSame DEF OnlyConn, ArriveInv, OkProperly, Proper, ProperAfter
<1>1. ASSUME NEW account \in Account, ConnectToServer(account)
      PROVE  ArriveInv'
  <2>1. PICK fd \in FreeFd : /\ Conn' = Conn \cup {Len(conns) + 1}
                             /\ conns'[Len(conns) + 1] = Connection(account, fd)
                             /\ \A d \in Conn : conns'[d] = conns[d]
    BY <1>0, <1>1, ConnectEffect
  <2>2. conns'[Len(conns) + 1].toC = << >> /\ ~conns'[Len(conns) + 1].isOk
    BY <2>1 DEF Connection
  <2>3. \A d \in Conn : SameConnector(conns'[d], conns[d])
    BY <2>1 DEF SameConnector
  <2> QED
    BY <1>0, <2>1, <2>2, <2>3, ArriveSame DEF ArriveInv, OkProperly, Proper, ProperAfter
<1>2. ASSUME NEW c \in Conn, ConnectorReceives(c)
      PROVE  ArriveInv'
  <2> DEFINE q == conns[c]
             msg == Head(q.toC)
  <2>1. /\ OnlyConn(c) /\ q.toC \in Seq(Message) /\ q.toC # << >> /\ Received(conns'[c], q, msg)
    BY <1>0, <1>2, ReceivesEffect
  <2>2. msg = q.toC[1] /\ 1 \in DOMAIN q.toC /\ msg \in Message
    BY <2>1
  <2>3. ProperAfter(msg, c) /\ msg.meant \in Conn'
    BY <1>0, <2>1, <2>2, ArriveKeeps, MessageAt DEF OnlyConn
  <2>4. ASSUME NEW i \in DOMAIN conns'[c].toC
        PROVE  ProperAfter(conns'[c].toC[i], c)
    <3>1. conns'[c].toC = Tail(q.toC)
      <4>1. conns'[c].toC # << >>
        BY <2>4
      <4> QED
        BY <2>1, <4>1 DEF Received
    <3>2. i + 1 \in DOMAIN q.toC /\ conns'[c].toC[i] = q.toC[i + 1]
      BY <2>1, <2>4, <3>1
    <3> QED
      BY <1>0, <3>2, ArriveKeeps
  <2>5. ASSUME conns'[c].isOk
        PROVE  LET by == conns'[c].by
               IN  by \in Conn' /\ conns'[by].valid /\ (by = c \/ ~conns'[by].open)
    <3>1. CASE msg.id = "1000"
      BY <2>1, <2>3, <3>1 DEF Received, ProperAfter
    <3>2. CASE msg.id # "1000"
      <4>1. q.isOk /\ conns'[c].by = q.by
        BY <2>1, <2>5, <3>2 DEF Received
      <4> QED
        BY <1>0, <4>1, ArriveKeeps
    <3> QED
      BY <3>1, <3>2
  <2> QED
    BY <1>b, <2>1, <2>4, <2>5
<1>3. ASSUME NEW c \in Conn, ConnectorCloses(c)
      PROVE  ArriveInv'
  <2>1. OnlyConn(c) /\ ~conns'[c].isOk /\ conns'[c].toC = << >>
    BY <1>0, <1>3, ClosesEffect
  <2> QED
    BY <1>b, <2>1
<1>4. ASSUME NEW c \in Conn, HandleValidate(c) \/ ListenerCloses(c)
      PROVE  ArriveInv'
  <2>1. OnlyConn(c) /\ SameConnector(conns'[c], conns[c])
    BY <1>0, <1>4, ValidateEffect, ListenerEffect
  <2> QED
    BY <1>a, <2>1 DEF OnlyConn, SameConnector
<1>5. ASSUME ScriptValidates
      PROVE  ArriveInv'
  <2>1. \/ conns' = conns
        \/ \E c \in Conn : OnlyConn(c) /\ SameConnector(conns'[c], conns[c])
    BY <1>0, <1>5, ScriptEffect
  <2> QED
    BY <1>a, <2>1 DEF OnlyConn, SameConnector, Conn
<1>6. ASSUME NEW k \in Key, ScriptNames(k)
      PROVE  ArriveInv'
  BY <1>a, <1>6 DEF ScriptNames, SameConnector, Conn
<1>7. ASSUME PushMsgToSock
      PROVE  ArriveInv'
  <2>1. \/ conns' = conns
        \/ \E c \in Conn : OnlyConn(c) /\ SameConnector(conns'[c], conns[c])
    BY <1>0, <1>7, PushEffect
  <2> QED
    BY <1>a, <2>1 DEF OnlyConn, SameConnector, Conn
<1>8. ASSUME NEW fd \in DOMAIN socks, Send(fd)
      PROVE  ArriveInv'
  <2> DEFINE c == socks[fd].conn
             q == conns[c]
  <2>1. CASE conns' = conns
    BY <1>a, <2>1 DEF SameConnector, Conn
  <2>2. CASE conns' # conns
    <3>1. /\ c \in Conn /\ OnlyConn(c) /\ conns'[c].isOk = q.isOk /\ conns'[c].by = q.by
          /\ conns'[c].toC = q.toC \o socks[fd].msgs
      BY <1>0, <1>8, <2>2, SendEffect
    <3>2. q.toC \in Seq(Message) /\ socks[fd].msgs \in Seq(Message)
      BY <1>0, <3>1, ConnAt, ConnFields DEF LinkTypeOK
    <3>3. ASSUME NEW i \in DOMAIN conns'[c].toC
          PROVE  ProperAfter(conns'[c].toC[i], c)
      <4>1. \/ i \in DOMAIN q.toC /\ conns'[c].toC[i] = q.toC[i]
            \/ \E j \in DOMAIN socks[fd].msgs : conns'[c].toC[i] = socks[fd].msgs[j]
        <5>1. i \in DOMAIN (q.toC \o socks[fd].msgs)
          BY <3>1, <3>3
        <5>2. \/ i \in DOMAIN q.toC /\ (q.toC \o socks[fd].msgs)[i] = q.toC[i]
              \/ \E j \in DOMAIN socks[fd].msgs : (q.toC \o socks[fd].msgs)[i] = socks[fd].msgs[j]
          <6> DEFINE s == q.toC
                     r == socks[fd].msgs
          <6>1. s \in Seq(Message) /\ r \in Seq(Message) /\ i \in DOMAIN (s \o r)
            BY <3>2, <5>1
          <6>2. \/ i \in DOMAIN s /\ (s \o r)[i] = s[i]
                \/ \E j \in DOMAIN r : (s \o r)[i] = r[j]
            <7> HIDE DEF s, r
            <7> QED
              BY <6>1, ConcatElement
          <6> QED
            BY <6>2
        <5> QED
          BY <3>1, <5>2
      <4>2. CASE i \in DOMAIN q.toC /\ conns'[c].toC[i] = q.toC[i]
        BY <1>0, <3>1, <4>2, ArriveKeeps
      <4>3. CASE \E j \in DOMAIN socks[fd].msgs : conns'[c].toC[i] = socks[fd].msgs[j]
        <5>1. PICK j \in DOMAIN socks[fd].msgs : conns'[c].toC[i] = socks[fd].msgs[j]
          BY <4>3
        <5>2. socks[fd].msgs[j] \in Message /\ Good(socks[fd].msgs[j]) /\ socks[fd].msgs[j].fd = fd
          BY <1>0, MessageAt DEF RouteInv
        <5>3. Proper(socks[fd].msgs[j], c)
          BY <5>2 DEF Good, Arrived, Proper
        <5> QED
          BY <1>0, <5>1, <5>2, <5>3, ProperStays
      <4> QED
        BY <4>1, <4>2, <4>3
    <3> QED
      BY <1>0, <1>b, <3>1, <3>3, ArriveKeeps
  <2> QED
    BY <2>1, <2>2
<1>9. ASSUME UNCHANGED linkVars
      PROVE  ArriveInv'
  BY <1>a, <1>9 DEF linkVars, SameConnector, Conn
<1> QED
  BY <1>1, <1>2, <1>3, <1>4, <1>5, <1>6, <1>7, <1>8, <1>9 DEF LinkNext

LEMMA LinkInvInductive ==
  /\ LinkInit => LinkInv
  /\ LinkInv /\ [LinkNext]_linkVars => LinkInv'
  BY LinkTypeInit, LinkTypeStep, RouteInit, RouteStep, ArriveInit, ArriveStep DEF LinkInv

(* A message the script makes for a connection goes to no other while that  *)
(* connection is open.                                                      *)
THEOREM MessagesFindTheirConnection == LinkSpec => []NoneAstrayWhileOpen
<1>1. LinkInv => NoneAstrayWhileOpen
  BY DEF LinkInv, ArriveInv, Proper, NoneAstrayWhileOpen
<1> QED
  BY <1>1, LinkInvInductive, PTL DEF LinkSpec

(* A connector that takes its connection for good was validated, or got the *)
(* answer to a connection that is closed.                                   *)
THEOREM OnlyTheValidatedAreOk == LinkSpec => []OkIsValidated
<1>1. LinkInv => OkIsValidated
  BY DEF LinkInv, ArriveInv, OkProperly, OkIsValidated
<1> QED
  BY <1>1, LinkInvInductive, PTL DEF LinkSpec
-------------------------------------------------------------------------------
(* Who drops a connection.  Until a message by name overtakes it, the       *)
(* answer is the first message a connector that has not got it will get: it *)
(* is in front of what is on its way or, when nothing is, of its entry; and *)
(* before the answer is queued there is nothing at all.                     *)
AnswerLeads(msgs) == msgs # << >> /\ msgs[1].id = "1000"
NoEntry(entries, c) == \A fd \in DOMAIN entries : entries[fd].conn # c
NothingQueued(entries, c) ==
  \A fd \in DOMAIN entries : entries[fd].conn = c => entries[fd].msgs = << >>
AnswerFirst(entries, c, r) ==
  \/ AnswerLeads(r.toC)
  \/ /\ r.toC = << >> /\ r.fd \in DOMAIN entries
     /\ entries[r.fd].conn = c /\ AnswerLeads(entries[r.fd].msgs)

(* r is connection c. *)
InOrder(entries, c, r) ==
  /\ ~r.open => r.far # "open"
  /\ r.toL # << >> => /\ r.toL = << "login" >> /\ r.toC = << >> /\ ~r.welcomed /\ ~r.early
                      /\ NoEntry(entries, c)
  /\ r.far = "open" /\ ~r.isOk /\ ~r.early =>
       /\ r.welcomed => AnswerFirst(entries, c, r)
       /\ ~r.welcomed => r.toC = << >> /\ NothingQueued(entries, c)
  /\ r.far = "dropped" => r.early

EarlyInv == \A c \in Conn : InOrder(socks, c, conns[c])

(* A connection that stays as it is, and an entry that is not its own.      *)
LEMMA InOrderStays ==
  ASSUME LinkTypeInv, RouteInv, NEW fd \in Fd, NEW entries, NEW c \in Conn,
         \A f : f # fd => (f \in DOMAIN entries <=> f \in DOMAIN socks),
         \A f \in DOMAIN socks : f # fd => entries[f] = socks[f],
         fd \in DOMAIN entries => entries[fd].conn # c,
         conns[c].far = "open" => conns[c].fd # fd \/ fd \notin DOMAIN socks \/ socks[fd].conn # c,
         InOrder(socks, c, conns[c])
  PROVE  InOrder(entries, c, conns[c])
  BY DEF InOrder, NoEntry, NothingQueued, AnswerFirst

LEMMA LedConcat ==
  ASSUME NEW s \in Seq(Message), NEW t \in Seq(Message)
  PROVE  /\ AnswerLeads(s) => AnswerLeads(s \o t)
         /\ s = << >> /\ AnswerLeads(t) => AnswerLeads(s \o t)
  BY DEF AnswerLeads

LEMMA EarlyInit == LinkInit => EarlyInv
  BY DEF LinkInit, EarlyInv, Conn

LEMMA EarlyStep ==
  ASSUME LinkInv, EarlyInv, [LinkNext]_linkVars
  PROVE  EarlyInv'
<1>0. LinkTypeInv /\ LinkTypeOK /\ RouteInv
  BY DEF LinkInv, LinkTypeInv
<1>a. ASSUME UNCHANGED socks, NEW c \in Conn, OnlyConn(c), InOrder(socks, c, conns'[c])
      PROVE  EarlyInv'
  BY <1>a DEF EarlyInv, OnlyConn
<1>1. ASSUME NEW account \in Account, ConnectToServer(account)
      PROVE  EarlyInv'
  <2> DEFINE new == Len(conns) + 1
  <2>1. PICK fd \in FreeFd :
          /\ UNCHANGED socks /\ Conn' = Conn \cup {new} /\ new \notin Conn
          /\ conns'[new] = Connection(account, fd)
          /\ \A d \in Conn : conns'[d] = conns[d]
    BY <1>0, <1>1, ConnectEffect
  <2>2. NoEntry(socks, new) /\ NothingQueued(socks, new)
    BY <1>0, <2>1 DEF LinkTypeOK, NoEntry, NothingQueued
  <2>3. InOrder(socks, new, conns'[new])
    BY <2>1, <2>2 DEF InOrder, Connection
  <2> HIDE DEF new
  <2> QED
    BY <2>1, <2>3 DEF EarlyInv
<1>2. ASSUME NEW c \in Conn, ConnectorReceives(c)
      PROVE  EarlyInv'
  <2> DEFINE q == conns[c]
             msg == Head(conns[c].toC)
             r == conns'[c]
  <2>1. /\ OnlyConn(c) /\ UNCHANGED socks /\ q.far = "open" /\ q.toC \in Seq(Message)
        /\ q.toC # << >> /\ SameEnds(r, q) /\ SameGhosts(r, q) /\ Received(r, q, msg)
    BY <1>0, <1>2, ReceivesEffect
  <2>2. InOrder(socks, c, q)
    BY DEF EarlyInv
  <2>3. msg.id # "1000" /\ ~q.isOk => q.early
    BY <2>1, <2>2 DEF InOrder, AnswerFirst, AnswerLeads
  <2>4. q.toL = << >>
    BY <2>1, <2>2 DEF InOrder
  <2>5. InOrder(socks, c, r)
    BY <2>1, <2>2, <2>3, <2>4 DEF InOrder, SameEnds, SameGhosts, Received
  <2> QED
    BY <1>a, <2>1, <2>5
<1>3. ASSUME NEW c \in Conn, ConnectorCloses(c)
      PROVE  EarlyInv'
  <2>1. /\ OnlyConn(c) /\ UNCHANGED socks
        /\ SameEnds(conns'[c], conns[c]) /\ SameGhosts(conns'[c], conns[c])
        /\ conns'[c].far = "closed" /\ conns'[c].toC = << >>
    BY <1>0, <1>3, ClosesEffect
  <2>2. InOrder(socks, c, conns[c])
    BY DEF EarlyInv
  <2>3. InOrder(socks, c, conns'[c])
    BY <2>1, <2>2 DEF InOrder, SameEnds, SameGhosts
  <2> QED
    BY <1>a, <2>1, <2>3
<1>4. ASSUME NEW c \in Conn, HandleValidate(c)
      PROVE  EarlyInv'
  <2> DEFINE q == conns[c]
             r == conns'[c]
  <2>1. /\ OnlyConn(c) /\ q.open /\ q.toL # << >> /\ SameGhosts(r, q) /\ SameConnector(r, q)
        /\ r.toL = Tail(q.toL) /\ r.fd = q.fd /\ r.open = q.open
    BY <1>0, <1>4, ValidateEffect
  <2>2. /\ InOrder(socks, c, q) /\ NoEntry(socks, c) /\ q.fd \in Fd
        /\ q.toC = << >> /\ ~q.welcomed /\ r.toL = << >>
    <3>1. InOrder(socks, c, q)
      BY DEF EarlyInv
    <3>2. q.toL = << "login" >> /\ NoEntry(socks, c) /\ q.toC = << >> /\ ~q.welcomed
      BY <2>1, <3>1 DEF InOrder
    <3>3. q.fd \in Fd
      BY <1>0, ConnAt, ConnFields
    <3>4. Tail(<< "login" >>) = << >>
      OBVIOUS
    <3>5. r.toL = << >>
      BY <2>1, <3>2, <3>4
    <3> QED
      BY <3>1, <3>2, <3>3, <3>5
  <2>3. CASE UNCHANGED socks
    <3>1. InOrder(socks, c, r)
      BY <2>1, <2>2 DEF InOrder, SameGhosts, SameConnector
    <3> QED
      BY <1>a, <2>1, <2>3, <3>1
  <2>4. CASE socks' = InsertSocket(q.fd, c)
    <3>1. /\ DOMAIN socks' = DOMAIN socks \cup {q.fd}
          /\ socks'[q.fd] = [conn |-> c, msgs |-> << >>]
          /\ \A f \in DOMAIN socks : f # q.fd => socks'[f] = socks[f]
      BY <2>4 DEF InsertSocket
    <3>2. NothingQueued(socks', c)
      BY <2>2, <3>1 DEF NoEntry, NothingQueued
    <3>3. InOrder(socks', c, r)
      BY <2>1, <2>2, <3>2 DEF InOrder, SameGhosts, SameConnector
    <3>4. ASSUME NEW d \in Conn, d # c
          PROVE  InOrder(socks', d, conns'[d])
      <4>1. conns'[d] = conns[d] /\ InOrder(socks, d, conns[d])
        BY <2>1, <3>4 DEF OnlyConn, EarlyInv
      <4>2. conns[d].far = "open" => conns[d].fd # q.fd
        <5>1. conns[d].far = "open" => conns[d].open
          BY <4>1 DEF InOrder
        <5>2. q.open /\ conns[d].open /\ q.fd = conns[d].fd => c = d
          BY <1>0 DEF RouteInv
        <5> QED
          BY <2>1, <3>4, <5>1, <5>2
      <4>3. InOrder(socks', d, conns[d])
        <5>1. \A f : f # q.fd => (f \in DOMAIN socks' <=> f \in DOMAIN socks)
          BY <3>1
        <5>2. \A f \in DOMAIN socks : f # q.fd => socks'[f] = socks[f]
          BY <3>1
        <5>3. q.fd \in DOMAIN socks' => socks'[q.fd].conn # d
          BY <3>1, <3>4
        <5>4. q.fd \in Fd
          BY <2>2
        <5> HIDE DEF q
        <5> QED
          BY <1>0, <4>1, <4>2, <5>1, <5>2, <5>3, <5>4, InOrderStays
      <4> QED
        BY <4>1, <4>3
    <3> QED
      BY <2>1, <3>3, <3>4 DEF EarlyInv, OnlyConn
  <2> QED
    BY <1>4, <2>3, <2>4 DEF HandleValidate
<1>5. ASSUME NEW c \in Conn, ListenerCloses(c)
      PROVE  EarlyInv'
  <2>1. /\ OnlyConn(c) /\ UNCHANGED socks /\ conns[c].far # "open"
        /\ SameGhosts(conns'[c], conns[c]) /\ SameConnector(conns'[c], conns[c])
        /\ conns'[c].toL = << >>
    BY <1>0, <1>5, ListenerEffect
  <2>2. InOrder(socks, c, conns[c])
    BY DEF EarlyInv
  <2>3. InOrder(socks, c, conns'[c])
    BY <2>1, <2>2 DEF InOrder, SameGhosts, SameConnector
  <2> QED
    BY <1>a, <2>1, <2>3
<1>6. ASSUME ScriptValidates
      PROVE  EarlyInv'
  <2>1. UNCHANGED socks
    BY <1>0, <1>6, ScriptEffect
  <2>2. CASE UNCHANGED conns
    BY <2>1, <2>2 DEF EarlyInv, Conn
  <2>3. CASE \E fd \in DOMAIN socks :
               LET c == socks[fd].conn
               IN  /\ c \in Conn /\ OnlyConn(c)
                   /\ SameGhosts(conns'[c], conns[c]) /\ SameConnector(conns'[c], conns[c])
                   /\ conns'[c].toL = conns[c].toL /\ conns'[c].fd = conns[c].fd
                   /\ conns'[c].open = conns[c].open
    <3>1. PICK c \in Conn :
            /\ OnlyConn(c) /\ SameGhosts(conns'[c], conns[c]) /\ SameConnector(conns'[c], conns[c])
            /\ conns'[c].toL = conns[c].toL /\ conns'[c].fd = conns[c].fd
            /\ conns'[c].open = conns[c].open
      BY <2>3
    <3>2. InOrder(socks, c, conns[c])
      BY DEF EarlyInv
    <3>3. InOrder(socks, c, conns'[c])
      BY <3>1, <3>2 DEF InOrder, AnswerFirst, SameGhosts, SameConnector
    <3> QED
      BY <1>a, <2>1, <3>1, <3>3
  <2> QED
    BY <1>0, <1>6, <2>2, <2>3, ScriptEffect
<1>7. ASSUME NEW k \in Key, ScriptNames(k)
      PROVE  EarlyInv'
  BY <1>7 DEF ScriptNames, EarlyInv, Conn
<1>8. ASSUME PushMsgToSock
      PROVE  EarlyInv'
  <2>1. CASE UNCHANGED << conns, socks >>
    BY <2>1 DEF EarlyInv, Conn
  <2>2. ASSUME NEW fd \in DOMAIN socks, NEW msg \in Message, NEW c \in Conn,
               c = socks[fd].conn, OnlyConn(c), SameEnds(conns'[c], conns[c]),
               SameConnector(conns'[c], conns[c]),
               conns'[c].early = (conns[c].early \/ (msg.id # "1000" /\ ~conns[c].welcomed)),
               conns'[c].welcomed = (conns[c].welcomed \/ msg.id = "1000"),
               OnlyMsgs(fd, Append(socks[fd].msgs, msg))
        PROVE  EarlyInv'
    <3> DEFINE q == conns[c]
               r == conns'[c]
    <3>1. /\ DOMAIN socks' = DOMAIN socks /\ socks'[fd].conn = c
          /\ socks'[fd].msgs = Append(socks[fd].msgs, msg)
          /\ \A f \in DOMAIN socks : f # fd => socks'[f] = socks[f]
      BY <2>2 DEF OnlyMsgs
    <3>2. q.fd = fd /\ fd \in Fd /\ socks[fd].msgs \in Seq(Message)
      BY <1>0, <2>2 DEF RouteInv, LinkTypeOK
    <3>3. InOrder(socks, c, q) /\ q.toL = << >>
      BY <2>2 DEF EarlyInv, InOrder, NoEntry
    <3>4. r.fd = fd /\ r.toL = << >> /\ r.open = q.open /\ r.far = q.far /\ r.isOk = q.isOk
          /\ r.toC = q.toC
      BY <2>2, <3>2, <3>3 DEF SameEnds, SameConnector
    <3>5. AnswerLeads(socks[fd].msgs) => AnswerLeads(socks'[fd].msgs)
      BY <2>2, <3>1, <3>2 DEF AnswerLeads
    <3>6. socks[fd].msgs = << >> /\ msg.id = "1000" => AnswerLeads(socks'[fd].msgs)
      BY <3>1 DEF AnswerLeads
    <3>7. ASSUME r.far = "open", ~r.isOk, ~r.early
          PROVE  r.welcomed /\ AnswerFirst(socks', c, r)
      <4>1. ~q.early /\ (msg.id = "1000" \/ q.welcomed)
        BY <2>2, <3>7
      <4>2. CASE q.welcomed
        <5>1. AnswerFirst(socks, c, q)
          BY <3>3, <3>4, <3>7, <4>1, <4>2 DEF InOrder
        <5> QED
          BY <2>2, <3>1, <3>2, <3>4, <3>5, <4>2, <5>1 DEF AnswerFirst
      <4>3. CASE ~q.welcomed
        <5>1. q.toC = << >> /\ NothingQueued(socks, c)
          BY <3>3, <3>4, <3>7, <4>1, <4>3 DEF InOrder
        <5>2. socks[fd].msgs = << >>
          BY <2>2, <5>1 DEF NothingQueued
        <5> QED
          BY <2>2, <3>1, <3>4, <3>6, <4>1, <4>3, <5>1, <5>2 DEF AnswerFirst
      <4> QED
        BY <4>2, <4>3
    <3>8. InOrder(socks', c, r)
      BY <2>2, <3>3, <3>4, <3>7 DEF InOrder
    <3>9. ASSUME NEW d \in Conn, d # c
          PROVE  InOrder(socks', d, conns'[d])
      <4>1. conns'[d] = conns[d] /\ InOrder(socks, d, conns[d])
        BY <2>2, <3>9 DEF OnlyConn, EarlyInv
      <4>2. InOrder(socks', d, conns[d])
        BY <1>0, <2>2, <3>1, <3>2, <3>9, <4>1, InOrderStays
      <4> QED
        BY <4>1, <4>2
    <3> QED
      BY <2>2, <3>8, <3>9 DEF EarlyInv, OnlyConn
  <2> QED
    BY <1>0, <1>8, <2>1, <2>2, PushEffect
<1>9. ASSUME NEW fd \in DOMAIN socks, Send(fd)
      PROVE  EarlyInv'
  <2> DEFINE c == socks[fd].conn
             q == conns[c]
             r == conns'[c]
  <2>1. /\ c \in Conn /\ OnlyMsgs(fd, << >>)
        /\ \/ conns' = conns /\ ~(q.open /\ q.far = "open")
           \/ /\ q.open /\ q.far = "open" /\ OnlyConn(c)
              /\ SameEnds(r, q) /\ SameGhosts(r, q)
              /\ r.far = q.far /\ r.isOk = q.isOk
              /\ r.toC = q.toC \o socks[fd].msgs
    BY <1>0, <1>9, SendEffect
  <2>2. /\ DOMAIN socks' = DOMAIN socks /\ socks'[fd].conn = c
        /\ socks'[fd].msgs = << >>
        /\ \A f \in DOMAIN socks : f # fd => socks'[f] = socks[f]
    <3>1. OnlyMsgs(fd, << >>)
      BY <2>1
    <3> QED
      BY <3>1 DEF OnlyMsgs
  <2>3. q.fd = fd /\ fd \in Fd /\ socks[fd].msgs \in Seq(Message) /\ q.toC \in Seq(Message)
        /\ socks[fd].msgs # << >>
    <3>1. c \in Conn
      BY <2>1
    <3>2. q.toC \in Seq(Message)
      BY <1>0, <3>1, ConnAt, ConnFields
    <3>3. fd \in Fd /\ socks[fd].msgs \in Seq(Message)
      BY <1>0 DEF LinkTypeOK
    <3>4. q.fd = fd
      BY <1>0 DEF RouteInv
    <3>5. socks[fd].msgs # << >>
      BY <1>9 DEF Send
    <3> QED
      BY <3>2, <3>3, <3>4, <3>5
  <2>4. InOrder(socks, c, q) /\ q.toL = << >>
    BY <2>1 DEF EarlyInv, InOrder, NoEntry
  <2>5. Conn' = Conn /\ \A d \in Conn : d # c => conns'[d] = conns[d]
    BY <2>1 DEF OnlyConn, Conn
  <2>6. InOrder(socks', c, r)
    <3>1. CASE conns' = conns /\ ~(q.open /\ q.far = "open")
      BY <2>4, <3>1 DEF InOrder
    <3>2. CASE /\ q.open /\ q.far = "open" /\ OnlyConn(c)
               /\ SameEnds(r, q) /\ SameGhosts(r, q)
               /\ r.far = q.far /\ r.isOk = q.isOk
               /\ r.toC = q.toC \o socks[fd].msgs
      <4>1. /\ r.open = q.open /\ r.toL = << >> /\ r.welcomed = q.welcomed /\ r.early = q.early
            /\ r.far = q.far /\ r.isOk = q.isOk /\ r.far = "open" /\ q.open
            /\ r.toC = q.toC \o socks[fd].msgs
        BY <2>4, <3>2 DEF SameEnds, SameGhosts
      <4>2. ASSUME ~r.isOk, ~r.early
            PROVE  r.welcomed /\ AnswerLeads(r.toC)
        <5>1. q.welcomed /\ AnswerFirst(socks, c, q)
          BY <2>1, <2>3, <2>4, <4>1, <4>2 DEF InOrder, NothingQueued
        <5>2. CASE AnswerLeads(q.toC)
          BY <2>3, <4>1, <5>1, <5>2, LedConcat
        <5>3. CASE q.toC = << >> /\ AnswerLeads(socks[fd].msgs)
          BY <2>3, <4>1, <5>1, <5>3, LedConcat
        <5> QED
          BY <2>3, <5>1, <5>2, <5>3 DEF AnswerFirst
      <4> QED
        BY <4>1, <4>2 DEF InOrder, AnswerFirst
    <3> QED
      BY <2>1, <3>1, <3>2, Zenon
  <2>7. ASSUME NEW d \in Conn, d # c
        PROVE  InOrder(socks', d, conns'[d])
    <3>1. conns'[d] = conns[d] /\ InOrder(socks, d, conns[d])
      BY <2>5, <2>7 DEF EarlyInv
    <3>2. InOrder(socks', d, conns[d])
      BY <1>0, <2>2, <2>3, <2>7, <3>1, InOrderStays
    <3> QED
      BY <3>1, <3>2
  <2> QED
    BY <2>5, <2>6, <2>7 DEF EarlyInv
<1>10. ASSUME UNCHANGED linkVars
       PROVE  EarlyInv'
  BY <1>10 DEF linkVars, EarlyInv, Conn
<1> QED
  BY <1>1, <1>2, <1>3, <1>4, <1>5, <1>6, <1>7, <1>8, <1>9, <1>10 DEF LinkNext

(* A connector drops its connection only when a message by name was queued  *)
(* before the answer to its login.                                          *)
THEOREM DropsAreEarly == LinkSpec => []OnlyEarlyDrops
<1>1. LinkInit => LinkInv /\ EarlyInv
  BY LinkInvInductive, EarlyInit
<1>2. (LinkInv /\ EarlyInv) /\ [LinkNext]_linkVars => (LinkInv /\ EarlyInv)'
  BY LinkInvInductive, EarlyStep
<1>3. LinkInv /\ EarlyInv => OnlyEarlyDrops
  BY DEF EarlyInv, InOrder, OnlyEarlyDrops
<1> QED
  BY <1>1, <1>2, <1>3, PTL DEF LinkSpec
===============================================================================

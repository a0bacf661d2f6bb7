# Verification of auengine

auengine is a C++ game server engine: an epoll (or IOCP) network layer, a pool of
threads, a login handshake, and a Lua script that holds the game's logic and is run
under one lock by several threads. This directory models the engine in TLA+, checks
the models with TLC on small instances, and proves the theorems that matter most with
TLAPS for every value of the constants.

The models are of the Linux build. Paths below are relative to `src/Src`.

## The system

### Threads

| thread | code | what it does |
|---|---|---|
| main | `server/main.cpp:36-70` | ticks the timers when more than 20 ms have passed, runs the socket garbage collector, checks the thread pool every 10000 rounds |
| epoll worker (one) | `Shared/Network/SocketMgrLinux.cpp:111` | accepts, receives, cuts packets, does the login handshake, sends what waits when the kernel has room, disconnects |
| send thread | `server/sendthread.cpp` | every 100 ms, moves messages of validated sockets from their queue into the write buffer |
| Lua thread | `server/luathread.cpp` | every 10 ms, runs the script for the messages that have come |
| MySQL threads, console, robots | `server/mysql_thread.cpp`, `gameconsolethread.cpp`, `robotthread.cpp` | batches of queries (switched off by a flag, see `SqlQueues`); console; test clients |

### Components, their state and operations

| component | state | operations | modelled in |
|---|---|---|---|
| circular buffer, `Shared/Network/CircularBuffer.cpp` | a block, region A (older bytes), region B (younger) | Write, Read, Remove, GetSpace, GetContiguiousBytes, IncrementWritten | `CircularBuffer`, `ByteFifo` |
| packet framing, `server/basesocket.cpp`, `SocketLinux.cpp` | the read buffer, the position in OnRead | ReadCallback (`ReadCallbackReceives`), OnRead | `PacketReader` |
| socket and epoll worker, `Shared/Network/Socket*.cpp`, `SocketMgrLinux.cpp` | write buffer, `m_writeMutex`, `m_writeLock`, epoll registration | Send (Burst*), PostEvent, WriteCallback, run | `EpollSocket` |
| life of sockets, `Socket.cpp`, `ListenSocketLinux.h` | `SocketMgr::fds`, the collector's list | accept, Disconnect, Delete, Update | `Sessions` |
| sockets of the server, `server/sockmgr.cpp` | `_socks`: an entry per descriptor with a message queue | InsertSocket, PushMsgToSock, Send, ValidateSocket | `Sessions` |
| login handshake, `server/aulistensock.cpp` | `_accountid`, `m_isOk` | handleMessage, HandleValidate, validateSocket | `Sessions` |
| Lua module, `server/lua_module.cpp` | the queue of messages, `_lua_lock` | PushMsg, HandleMsg, RunLuaFunction... | `Sessions` (messages), `Timers` (the lock) |
| timers, `server/timer.cpp` | the table of timers, `_lock_timer` | addTimer, stopTimer, tick | `Timers` |
| thread pool, `Shared/Threading/ThreadPool.cpp` | active and free sets, `_threadsToExit`, `_threadsEaten`, per thread its target, semaphore, DeleteAfterExit | ExecuteTask, ThreadExit, IntegrityCheck, KillFreeThreads, Shutdown | `ThreadPool` |
| links to other servers, `server/tolua.cpp`, `connsocket.cpp`, `aulistensock.cpp` | `s_servermap` with a descriptor per server, per connection `m_isOk` on both ends | ConnectToServer, HandleValidate, ValidateConnect, ConnSocket::handleMessage, messages by a server's name | `ServerLink` |
| message packing, `server/msgpackager.cpp`, `packager_interface.cpp` | a package and its size, the stack of packages | messageBegin, the add functions, messageEnd, what an error undoes | `Messages`, `Params` |
| parameters, `server/messageconfig_reader.cpp`, `analytical_param.cpp` | the configuration of messages, the position in a message | reading the configuration, ReadParam | `Params`, `Messages` |
| module manager, launcher, `server/modulemanager.cpp`, `launcher.cpp`, `gdata.cpp` | the table of modules, a global pointer for each | RegisterModule, DestroyModule, Init, Start, Shutdown | `Launcher` |
| MySQL module, `server/mysql_module.cpp`, `Shared/Threading/Queue.h` | two batches of queries with a mutex each, `_dbinitflag` | StartSqlQueue, AddSqlQueue, EndSqlQueue, DoWork | `SqlQueues` |
| database library, `Shared/Database` | connections, queues of queries | queries, callbacks | not modelled, see below |

### How they interact

The worker holds `m_readMutex` of a socket from the recv to the end of its handler, and
from there takes `_lock_msg` (to pass a message to Lua) or `_lock_socks` (to insert or
look up an entry). The Lua thread holds `_lua_lock` and `_lock_msg` while the script
runs, and from there takes `_lock_socks` (to answer) or `_lock_timer`. The send thread
holds `_lock_socks` and from there takes `m_writeMutex`. The main thread holds
`_lock_timer` during a tick and from there takes `_lua_lock`, which is the reverse of
what the Lua thread does. A socket is known by its descriptor in every table, queue and
message; the object behind it is deleted by the collector 15 s after its disconnection.

A message of a client goes: kernel, read buffer (`CircularBuffer`), OnRead (`PacketReader`),
handleMessage and the Lua module's queue (`Sessions`), ReadParam by the message's
configuration (`Params`), the script's function, whose answer is put together in a package
(`Messages`), the entry of `_socks` (`Sessions`), the write buffer and the kernel
(`EpollSocket`). Another server is a client of the same kind, whose login is told from a
player's by its key (`ServerLink`).

### What is hard here

- The descriptor is the only name of a session, and the kernel uses it again at once
  (stale entries, stale messages, an epoll_ctl on somebody else's socket).
- Edge-triggered epoll after the first PostEvent: an event not used up is not repeated.
- `m_writeLock` and the buffer's size are read by the worker without `m_writeMutex`.
- Two mutexes that nest both ways around the script.
- A thread of the pool is in neither set at its start, enters the free set before it
  suspends itself, and stays there after it was killed.
- A buffer of two regions in one block, whose contiguous part is not all there is.
- A stack of packages that follows the nesting of the script's runs, until one of them
  ends with an error.
- Sizes, lengths and counts of 16 bits that come from the message itself.
- Two queues swapped with their mutexes while another thread may hold one.
- A module that is destroyed when the threads that use it already run.

What makes each component correct is stated as its module's properties, below;
`PROJECT.json` lists the hazards by line, each with the properties that would show it.

## The modules

One module per component; `MC*` modules instantiate them for TLC, `*Proofs` modules
hold the theorems (`SocketProofs` those about `CircularBuffer`, `PacketReader` and `EpollSocket`, the
others those about the module of their name; `MessagesProofs` those about `Params` too).

### CircularBuffer, ByteFifo

The operations are operators from a buffer record to a buffer record (`Put` for
Write, `Removed`, `Compact` ...), so that `PacketReader` and `EpollSocket` compose
them; the state machine is one buffer with all its callers. Memory is modelled byte by
byte with the value `Uninit` where nothing was written, so that reading past a region
is visible. `ByteFifo` is the abstract specification: a sequence to whose end bytes
are added and from whose front they are taken.

Correct means: the regions lie in the block and do not overlap (`RegionsApart`); B never
exists without A while there are bytes, so that `GetBufferStart` is the oldest byte
(`OldestInA`); a write that leaves the buffer at most half full is not refused, although
room is lost while B exists (`HalfIsUsable`); and the whole implements the queue
(`ImplementsFifo`).

### PacketReader

One connection's receiving half on top of `CircularBuffer`: the client sends packets
(legal or not), the kernel hands over any cut of the stream, one round of OnRead's loop
is one step. `stream` is a ghost: what the client sent and OnRead has not handed over,
cut as the client cut it. Reading the two bytes of a length at `GetBufferStart()` is
modelled as the code does it, two consecutive bytes of memory: when region A holds one
byte only, the second comes from whatever lies behind it.

### EpollSocket

One connected socket with four actors: send thread, worker, kernel and peer. The
kernel is external and modelled from how the code uses it: two queues with a capacity,
level-triggered until the first `epoll_ctl(MOD)`, edge-triggered from then on, an edge
for output only after the send queue was found full. The sender's calls are cut where
another thread can come between (after the write, the lock, the post), the worker's
where it reads state outside `m_writeMutex`.

### Sessions

Any number of socket objects over few descriptors, and the worker, the send thread, the
Lua thread, the collector and the clients. Each handler is one step unless it gives a
lock back in the middle or takes another one, or a lock it does not hold guards what it
reads; `worker`, `sender` and `lua` say where each thread is. validateSocket is cut
between the comparison of the accounts and `setSocketOK` (`aulistensock.cpp:135`): the
Lua thread is then at "setOk" with `_lock_socks` held, and the worker may pass on a second
login in between (`HandleValidate`, `aulistensock.cpp:67`), which takes no lock that
would stop it. A message is the object it came from (a ghost), which is what the
properties compare. `reused` and `overlapped` are ghosts of the two situations in which
the protocol cannot tell sessions apart: a descriptor used again while messages of its
last session are on their way, and a second login before the first was answered.
`DoubleMsgQueue` has two priorities; only the urgent one is used, so a queue is a
sequence. The script is external: it asks for a validation for each login, and may
answer any message it was given or send to any descriptor.

### Timers

The table of timers and the calls around it. Calls nest (tick, script, addTimer,
script), so that each thread has a stack of calls, and who holds which of the two
recursive mutexes follows from the stacks. Each timer has three ghosts: `owed`, the time of
ticks begun since it was added which it has not been given; `reborn`, that it was added under
the identifier of one stopped in the same tick; and `by`, the thread that stored it. A start
may be negative, as addTimer takes it: such a timer is called by its interval only.

`OwnIdentifier` is about addTimer, which chooses an identifier, with start 0 calls the script,
and only then stores the timer. Where the place is no longer free by then, the start is 0 and
the timer that is overwritten was stored by the same thread, hence by that very script; no
other thread gets there, and no addTimer with another start overwrites anything.

### ThreadPool

The threads in thread_proc, and ExecuteTask, IntegrityCheck and Shutdown, each one step
(they hold `_mutex` throughout; Shutdown's loop takes it once per round). The free set,
the flag `DeleteAfterExit`, the semaphore and the counters are as in the code;
`Victims` lets TLC choose among the free threads because the set is ordered by address.
`task` and `running` follow the tasks: the socket worker, whose run() sets `running`
itself and returns after OnShutdown, and jobs that return on their own. `forgiven` is a
ghost: IntegrityCheck has set a negative count of spares to zero after it had killed free
threads, whose end is still to be counted.

### Params, Messages

`Params` has no state: the reading of the messages' configuration, the writers and the
readers of parameters, as operators on sequences of bytes. A fixed type is its width, so
that `UINT32` stands for the signed type too. `Messages` is the state machine on top:
runs of the script open, fill and close messages on a stack of packages, nested in each
other (addTimer with start 0 runs the script at once), each of which an error may end
anywhere; and messages that arrive are read under a configuration with every kind of
entry. `datasize` is an unsigned short (`Wrap`), `body` what the package holds; the length
of a string is one too, and `Cut` is what that leaves of the values. What the
script means to send is a ghost, `open`; `tainted` marks a message whose package the
script no longer has on top because of an error or a size that wrapped.

### ServerLink

A connector and the listener it logs in to, with the epoll worker, the script and the
send thread of the listener. Sockets and kernel are reduced to one queue each way;
descriptors are given out lowest first, as the kernel does, so that a server's next
connection, or a player's, gets the descriptor of the last. `meant` is a ghost in each
message: the connection the script knew when it made it.

### SqlQueues

The three calls of the script and DoWork, cut wherever a mutex is taken or given back,
and the swap cut into its three copies. A queue is its queries and its recursive mutex
(owner and count), since the swap copies both. `copied` tells that a mutex was copied
while a thread held it. `FlagOf` is `_dbinitflag` as Init sets it: false when the database
answers. So DoWork's serving of a batch is in the model, but no reachable state takes it:
what `QueriesInOrder` shows is the order inside the two batches, which hold every query ever
added (`NoneServed`, proved). StartModule may be called again and hands its threads' objects to
the pool once more: each call adds some threads that run DoWork, any of those not running yet.

### Launcher

main.cpp, Launcher and the module manager, one step for each statement a failure or the
Lua thread can come before or after. Objects are numbered as they are made; `alive` are
those not deleted. The scripts register modules and connect to servers, on the main
thread in the init functions ("init") and later on the Lua thread, in main's ticks, on the
console's thread or the robots' ("later"): a call reads the configuration's
pointer in one step and uses it in the next, so that DestroyModule can come between. The uses
of the configuration are recorded, and of no other object.

Launcher::Shutdown begins with the pool's. After Startup that one counts only the threads that
have come to ThreadExit (`ThreadPool.cpp:194-240`): it may return and leave threads behind
(`pool` is then "left"), or wait for ever (`ShutdownHangs`). Both are steps of the model, and
`FailedLaunchLeavesNothing` is about modules, objects and lua_States, of a launch that comes to
its end.

## The runs

| run | expects | checks | distinct states |
|---|---|---|---|
| `CircularBuffer` | pass | `RegionsApart`, `ImplementsFifo`; a block of 6, chunks of up to 3 of two bytes | 5,053 |
| `PacketReader` | pass | `FramesAligned`, `OnlyIllegalDroppedUnlessStraddled`; 4 packets of 2 to 4 bytes in a block of 8 | 77,645 |
| `EpollSocket` | pass | `SendLockExact`, `OnlyLostPeersDropped`, `OutputDrainsUnsplit`, `InputHeardUnsplit`; a block of 4, kernel queues of 2 | 12,760 |
| `Sessions` | pass | `EventTableExact`, `AnswersReachAsker`, `OneAccountPerSocket`; 2 sockets on one descriptor, 2 accounts, 2 messages each | 3,387,254 |
| `SessionsLogin` | pass | `LoginAnswered`; the same with one account | 643,389 |
| `Timers` | pass | `ClockExact`, `OwnIdentifier`, `TimersFire`; 2 threads, 2 timers, 2 calls per run of the script, nesting 4 | 359,361 |
| `ThreadPool` | pass | `SetsAlive`, `EatenIsCovered`, `TasksRun`, `ShutdownEnds`; 4 threads, a worker, a job, a reserve of 1 | 279,558 |
| `Messages` | pass | `SentAsAdded`, `ReadAsAdded`, `ArgumentsAsReceived`; 3 packages, runs nested twice, 9 entries of configuration, a string longer than `Wrap` | 411,281 |
| `ServerLink` | pass | `NoneAstrayWhileOpen`, `OkIsValidated`, `OnlyEarlyDrops`, `LinkComesUp`; a server, a stranger, a player, 3 connections over 2 descriptors | 338,010 |
| `SqlQueues` | pass | `QueriesInOrder`, `CallsReturn`; 2 database threads, 3 queries | 3,031 |
| `Launcher` | pass | `OneObjectEach`, `OnlyConfigUsedDead`, `FailedLaunchLeavesNothing`; 3 modules the scripts register, 7 objects | 140,574 |
| `SessionsFreed` | violation | `NoFreedSocketUsed` | |

A run whose module has a type invariant checks it too, except `CircularBuffer` (there it
is proved) and `SessionsLogin` (checked by `Sessions`). Each property has a mutant: a
definition changed the way a plausible bug would change the code, under which TLC
finds the property violated. The mutated definitions stand beside the ones they
replace, marked `mutant`.

### What the passing runs show

- *CircularBuffer*: 6 is the smallest block in which A and B, the room lost behind A
  and a compaction that overlaps itself all occur; two byte values suffice to see a
  byte out of place.
- *PacketReader*: the block holds two packets of the largest size, the smallest the
  code's constants allow (2000 >= 2 * 500 there). Packets of two bytes, a legal one of
  the largest size and one below the smallest are all sent, in every cut.
- *EpollSocket*: messages of 1 and 2 bytes in a block of 4 make region B and a full
  buffer, a kernel queue of 2 makes EAGAIN, partial sends and edges owed. No lock is
  left taken and nobody is dropped by mistake. Both directions are live under two
  conditions the code does not guarantee, which the properties name: the write buffer
  does not split, and one recv takes all there is.
- *Sessions*: two sessions, one after the other on one descriptor, are enough for every
  confusion of old and new: a third would meet the same tables in the same states.
- *Timers*: starts of 0, 3 and -1, intervals of 2 and 3 and ticks of 1 and 2 ms give every
  order of start, interval and tick; with 2 timers one can be stopped and its
  identifier given away within the other's callback, or overwritten by the addTimer around it.
- *ThreadPool*: 4 threads are the worker's, the reserve's and two that IntegrityCheck
  or ExecuteTask can make. `forgiven` needs six threads with a reserve of one and is not
  reached; `EatenIsCovered` is proved for every number of them, and with a reserve of zero
  three threads reach it (and show that the property needs the condition).
- *Messages*: bytes 0 and 1, messages of up to four bytes behind a header of two, sizes
  modulo 8: a value of four bytes fills a message, the next one exceeds it and a third
  wraps the size. A string of nine bytes has a length that wraps. Players 3 and 23: the
  second is cut to 7, and `SentAsAdded` says that his messages go there. Bodies of every content
  up to four bytes are read.
- *ServerLink*: three connections over two descriptors let a descriptor, its entry and its
  name be used again while a message by name and a login are on their way.
- *SqlQueues*: two database threads can both be between get_size's lock and unlock
  around a swap; three queries make a batch refused behind one not taken. No query is taken.
- *Launcher*: 7 objects are the first three and four registrations, of which any may
  fail and be tried again. It does not show that a failed launch leaves no threads, or that it
  ends: the pool's Shutdown may fail in either way.

### What was met on the way

`SessionsFreed` is the one disagreement between the code and a comment in it that is kept as a
run, with a trace: nothing removes a dead socket's entry from `_socks`; the send thread and a
late validation dereference the object after the collector deleted it.

Other behaviour of the code shows in the models, most of it as a condition in the name
or the text of a property, and is worth knowing:

- A length whose two bytes lie in different regions is read wrongly
  (`server/basesocket.cpp:44`), and a client that sent legal packets only is dropped
  (`straddled`).
- WriteCallback pushes region A only; if the kernel takes it all, no edge comes for
  region B, and it stays in the buffer. Input left in the kernel after one recv is not read
  before the next packet (`OutputDrainsUnsplit`, `InputHeardUnsplit`).
- A PostEvent on a descriptor that has meanwhile been closed and accepted again gives the new
  socket an EPOLLOUT, after which `DecSendLock` wraps the unsigned `m_writeLock`
  (`SessionTypeOK` allows the wrapped value, its width being `Word`).
- Main thread and Lua thread take `_lock_timer` and `_lua_lock` in opposite orders, and
  a tick without a timer keeps `_lock_timer` (`HandlersLeaveTimersAlone`).
- Shutdown of the pool counts the threads in its two sets. One that Startup has made and
  that has not reached ThreadExit yet is in neither, and uses up another's leave to exit;
  `launcher.cpp:59` and `main.cpp:27` call Shutdown exactly then, when Init fails. `ShutdownEnds`
  is about an orderly one; in `Launcher` the other may leave threads or hang.
- A killed thread stays in the free set until it runs. ExecuteTask may take it, and it then
  comes back to the pool twice, with one entry in the set. The count of spares allows for that
  until IntegrityCheck sets a negative count to zero; from then on it may exceed the
  free threads for good (`EatenIsCovered`, `forgiven`).
- A string that does not fit a package is left out and the rest of the message is sent
  (`SentAsAdded`). `AddValueString` (`server/msgpackager.cpp:129`) keeps the length as an unsigned
  short: a string of 65536 bytes or more does not fit, and yet its front, as long as the length
  modulo 65536, goes out. The attempt to prove `SentAsAdded` found it, where the run's strings
  were too short; the property says so now (`Cut`), and the run has such a string.
- A player's id is an unsigned int in a package, and GetPlayerID returns it as an unsigned short
  (`server/msgpackager.h:19`, `msgpackager.cpp:72`): a message for a player above 65535 goes
  to the player of that id modulo 65536, if there is one. `SentAsAdded` and its theorem state the
  player with this cut.
- addTimer with start 0 calls the script before it stores the timer: one that the script adds
  in turn chooses the same identifier and is overwritten, its object lost (`OwnIdentifier`).
- A nested run that fails leaves its package on top, and what the outer run adds goes into it
  (`tainted`).
- Strings are pushed up to their first 0; the last word of a message's types is not checked,
  and a message with such a type, or with REPEAT behind the first place, calls the script's
  function with fewer values than it counted, which is an error of the script
  (`ArgumentsAsReceived`). A REPEAT without a count is accepted, one with the count 0 is not.
- A message by name that is queued before the answer to a login makes the connector drop
  the connection for good (`OnlyEarlyDrops`); a server that is not in the map gets no answer.
- `_dbinitflag` is inverted (`server/mysql_module.cpp:41`, `45`): batches of queries are
  accepted and never served. A mutex copied while it is held is never free again; the
  script then waits for ever, with `_lua_lock` held (`CallsReturn`).
- A script that registers the MySQL module after the start has its Init read the configuration
  module, which is deleted (`OnlyConfigUsedDead`). LuaModule::Init runs twice, and the first
  `lua_State` stays open. The console's exit shuts nothing down.

### Bounds

Every bound is a constant: `Capacity`, `MaxChunk`, `MaxPackets`, `KernelOut`, `KernelIn`,
`Sockets`, `MaxMessages`, `OutputSpace`, `Word` (the values of `m_writeLock`, 2^32 in the
code), `MaxTimers`, `MaxCalls`, `MaxDepth`, `Threads`, `MaxSem`, `MaxValues`, `MaxPackages`,
`MaxRuns`, `MaxLeft`, `MaxBody`, `MaxConn`, `MaxSends`, `MaxQueries`, `MaxObjects`. `Wrap`, `MaxSend` and
`BufferSize` (65536, 25000, 25002 in the code) are 8, 7 and 9 in the run, in the same order. The pool's count of spares
is not kept after Shutdown, when nobody reads it. Deadlock is not checked where the
system may really stop: clients and peers need not send, all threads of the pool end,
two threads of `Timers` block each
other, servers need not connect, and the launcher comes to its end.

### Fairness

- The threads run on (weak fairness): each is a loop without an exit, or, in the pool,
  one that its semaphore controls.
- A wait for a mutex has strong fairness: the mutex is free again and again while its
  other users are busy, and a pthread mutex is granted to a waiter eventually. This is
  the only strong fairness, together with the main loop's ticks in `Timers`, which wait
  for the same mutex.
- The kernel reports what is due and the peer takes what has been sent to it.
- In `ServerLink` and `SqlQueues` the worker, the Lua thread, the send thread and the database
  threads run on; a queue's mutex has strong fairness as above, unless it was copied while
  held, when it is never free again and fairness says nothing.
- Nobody is bound to connect, to close, to batch queries, to send, to log in, to leave, to give a task, to check the pool or to
  shut it down.

## The proofs

All theorems hold for every value of the constants that satisfies the named assumptions
of the modules.

- `SocketProofs`, the buffer: `TypeCorrect`, `RegionsNeverOverlap`, `OldestByteInA`,
  `HalfAlwaysUsable`, `Refinement`. The inductive invariant is `WellFormed`: next to the
  types and the order of the regions it says that while B exists the room lost behind A
  is smaller than the room before A, which is why B was started. `HalfIsUsable`
  alone is not inductive: it says nothing of how much room lies behind A. One lemma per
  operation says that it keeps `WellFormed` and what it does to the content; the
  refinement follows from the latter.
- `SocketProofs`, the packets: `ReaderTypeCorrect`, `ReaderNeverFull`, `FramesStayAligned`,
  `OnlyIllegalDropped`. OnRead leaves less than a packet behind when
  it returns, at most half the block, and the lemma `HalfRoom` of the circular
  buffer gives the room. That the stream is cut where the client cut it is not enough by
  itself to show that no legal client is dropped: `FrameInv` adds that the stream is `Framed`,
  a set of boundaries from its start to its end, each one legal length behind the
  other, which a packet sent extends and a packet handed over shortens.
- `SocketProofs`, the two directions: `EpollTypeCorrect`, `SendLockIsExact`, `NobodyDropped`. The
  invariant relates the lock, the mode and the buffer's size in each state of sender and
  worker: that is where the unprotected reads of the worker are shown to be harmless.
  For `NobodyDropped`: an event that has been reported stays true until the worker
  has used it, since nobody else receives, and the peer can only make room.
- `SessionsProofs`: `SessionTypeCorrect`, `EventTableIsExact`, `AnswersReachTheAsker` and
  `OneAccountEach`, for any number of sockets, descriptors and messages. The invariant follows a message through all its
  stations (worker, Lua's queue, script, entry, sender, output): until a descriptor is
  reused with messages on their way, whatever carries a descriptor was born of the socket
  that has it now, or of one nobody has succeeded yet. `InsertSocket` clears the entry a dead
  socket left, and a socket's output is only filled after it was validated, hence after
  its own insertion. For `OneAccountEach`, `Single`: a socket without a second login has at most one
  login on its way; one that has begun to log in has no entry yet, and from its entry until its
  validation its login is on the way, so that none begins while validateSocket is at it.
- `ThreadPoolProofs`: `PoolTypeCorrect`, `SetsStayAlive`, `BusyThreadsActive`,
  `EatenStaysCovered`. A thread
  that deletes itself leaves the free set only if it is marked. So no unmarked thread may
  reach ThreadExit while it is free, as long as threads are to exit. `WokenWhenTaken`:
  before Shutdown an unmarked free thread is suspended, and only ExecuteTask posts its
  semaphore, which takes it out of the set. `SparedWhenDone`: after Shutdown one can enter the
  free set only when no more threads are to exit, and from then on none is.
  For `EatenStaysCovered` a thread's turns are counted, the times it is still to come to ThreadExit:
  `CoverInv` says that the count of spares, with the threads to exit or with the turns
  beyond the one that makes a thread free, is covered by the free set.
- `SqlQueuesProofs`: `SqlTypeCorrect`, `MutexesHeldInside`, `QueriesStayInOrder`. The last
  says that the batches hold every query ever added, in order: that none is taken is the flag's doing
  (`NoneServed`). The order would hold with the flag set, too, and
  holds whatever happens to the mutexes, because only the script
  moves queries from queue to queue and `EndReadsSize` saw `_querysin` empty before the swap:
  `OrderInv` keeps that emptiness and says where the queries are in each of the swap's
  states; DoWork takes none but the first. `HoldInv` follows the owner and the count of
  each mutex through the swap, as long as none was copied while held.
- `LauncherProofs`: `LauncherTypeCorrect`, `EachModuleOneObject`, `ConfigUsedDeadOnlyThen`,
  `NothingIsLeft`. `PhaseInv` says for each place of the main thread which modules a failure would find
  registered, how many lua_States are open and that no module, object or lua_State is left once it has ended,
  whatever the pool's Shutdown did;
  `ObjectInv` that no object has a number beyond the last one made, and that the one a script
  has just made is none of those registered; `ConfigInv` that the configuration is
  registered and alive until DestroyDeletes, and what pointer a call may have read at which time.
- `ServerLinkProofs`: `LinkTypeCorrect`, `MessagesFindTheirConnection`,
  `OnlyTheValidatedAreOk`, `DropsAreEarly`. Properties about what arrives are not inductive: `RouteInv` follows
  each message, and each descriptor in the tables, from where it was made. Of the
  connections with a descriptor at most one is open, and the descriptor's entry in `_socks` is
  its own from its login on; a message carries the descriptor of the connection it is for, and an answer is
  for one that was validated. `Progress`, what no step takes back, carries all of it over a step that
  changes one connection. `EarlyInv`: until a message by name overtakes it, the answer to a
  login is the first message the connector will get, in front of what is on its way or of its
  entry; before it is queued there is nothing.

- `TimersProofs`: `TimersTypeCorrect`, `ClocksAreExact`, `IdentifiersAreOwn`, `LocksExclude`, for
  any threads, starts, intervals and ticks. That the locks exclude (`TimerLockExclusive`,
  `LuaLockExclusive`) is itself proved, since who holds them follows from the stacks of calls.
  `ClockExact` needs `TickOutermost`: the calls of the script in a tick are on the stack of the
  thread that ticks, above it, so there is one tick and its table of times to come is the only
  one. `OwnIdentifier` needs the exclusion, which keeps another thread's addTimer away, and
  `StoresAtOnce`, that between choosing a place and storing the timer the thread itself is in no
  second addTimer, unless the start is 0; with it, what is stored at the place meanwhile is stored
  by that thread.
- `MessagesProofs`: `MessagesTypeCorrect`, `SendsWhatWasAdded`, `ReadsWhatWasAdded`,
  `ArgumentsAreTheMessages`, for every configuration, every set of values, every body that
  arrives and every size. `SentAsAdded` speaks of the step that sends; `MessagesInv` follows
  the message from its beginning. `OnTop`: the open messages that have not lost
  their package lie on the stack in the order in which the runs opened them, each on the package at
  its own place, which holds what was added (`Holds`). That needs `InRuns` (the runs of the open
  messages are ordered as the messages are, so that a run that fails drops the latest) and `TaintBelow`
  (what has lost its package lies beneath what has not). `Holds` says of a message that has outgrown
  its package that only strings are missing, cut or not; `Adds` bounds each value by the message's
  size. For `ReadAsAdded` the reader follows the writer value by value: after i values it stands
  behind the bytes of i values and has pushed them (`ReadsWritten`), since each value is read
  back from where it was written (`ReadBack`), a string's count because it is below 65536
  (`CountWritten`). For `ArgumentsAsReceived` the writer follows the reader: each type fails, is
  counted only, or takes the next bytes, which written again are those bytes (`ReadOne`).

The writing and the reading of a sequence are recursive functions over its places. The library's
induction theorems take an operator and cannot be used, so the induction is over a set:
`LeastNumber` gets the least number of a set from the well-foundedness of the natural
numbers, `UpTo` says that a set with 0 that hands on to the next number has all of them, and
`Iterated` that a sequence of functions can be applied one after the other, from
which follows that the recursive functions are what they say (`EncodeSteps`, `ReadSteps`).

The constants' assumptions say no more than the code gives: in `Messages` a header is shorter than the
largest message, whose size an unsigned short and whose strings' lengths two bytes can hold; the
buffer is at least as long; and values, configuration and messages that arrive have the types
the code gives them (an identifier is an int, a body any bytes at all, a word of the
configuration any string).

Only model-checked: all liveness (`OutputDrainsUnsplit`, `InputHeardUnsplit`,
`LoginAnswered`, `TimersFire`, `TasksRun`, `ShutdownEnds`, `LinkComesUp`, `CallsReturn`), which is
out of the prover's reach. Every invariant and every action property a run checks is
proved. TLC checked the inductive invariants on the runs' instances before they were proved.

## Not modelled

- **Database library** (`Shared/Database`). With `_dbinitflag` as Init sets it no query of the engine
  reaches it, and nothing calls `Database::StartThreads`.
- **FLOAT parameters** (`server/analytical_param.cpp:265`): their reader takes the bytes of the
  message for an address. Strings longer than the 4096 bytes they are read into, and what an
  addition beyond the end of a package overwrites, are not modelled either.
- **The connector's own SockMgr** after its login, `SockMgr::GetConnSocks` and
  `GetARandomSockfd`, which only read.
- **Overlapping accesses of `std::map`** in `ModuleManager`, taken as atomic.
- `StartModule` of a module that is not registered (`server/tolua.cpp:43`) dereferences NULL; the model
  starts registered modules only.
- **IsConnected in `SockMgr::Send`** (`server/sockmgr.cpp:76`) is one step with the write behind
  it (`EpollSocket`'s `BurstSend`): a disconnection between the two, after which bytes are written to the buffer
  of a closed socket, is not represented.
- **Batches of epoll_wait.** The worker takes one event at a time in the models; a
  second event of the same batch for a descriptor whose socket the first one closed is
  not represented.
- **Tasks that never end** (`server/luathread.cpp:23` and the like): with them Shutdown
  cannot return at all, which is plain; `ShutdownEnds` is about the others.
- **A task's end is one step** in `ThreadPool`: `delete` and the clearing of the target
  (`ThreadPool.cpp:313-315`) are not cut, so that Shutdown's use of a target being deleted is
  not visible (listed as a hazard).
- **Configuration, console, robots, monitor, memcached, logging**: input and output around
  a loop. **luaExport.cpp**: generated. **Windows**: the other build.
- **The game scripts** (`src/Res`): external; a script is an actor that may call the engine at
  any time.

## Plan

Done: `CircularBuffer` and `ByteFifo`, `PacketReader`, `EpollSocket`, `Sessions`, `Timers`,
`ThreadPool`, `Params` and `Messages`, `ServerLink`, `SqlQueues`, `Launcher`; all with proofs of their
safety.

What would come next:

- Finer steps where a hazard has no property yet: batches of epoll_wait, the end of a task.
- A session seen from its client, and the nested messages of the script as a stack of their own, as
  abstract specifications that `Sessions` and `Messages` implement.
- The connector's side of a link on top of `Sessions`, once its reconnection exists: the engine
  makes a connection that was dropped only when a script asks for it again.

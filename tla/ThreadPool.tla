------------------------------ MODULE ThreadPool ------------------------------
(***************************************************************************)
(* The thread pool (src/Src/Shared/Threading/ThreadPool.cpp): the threads, *)
(* each in thread_proc, the active and the free set, and the functions     *)
(* other threads call: ExecuteTask, IntegrityCheck and Shutdown.           *)
(*                                                                         *)
(* All of these hold _mutex from their first statement to their last, and  *)
(* so does ThreadExit: each is one step.  A thread reads its               *)
(* ExecutionTarget, runs it and waits on its semaphore without the mutex.  *)
(***************************************************************************)
EXTENDS Integers, FiniteSets

CONSTANTS
  Threads,     (* bound: threads ever made                                  *)
  Workers,     (* tasks like SocketWorkerThread, which run until OnShutdown *)
  Jobs,        (* tasks that return on their own                            *)
  None,        (* the null pointer                                          *)
  Reserve,     (* THREAD_RESERVE: 10                                        *)
  MaxSem       (* bound: posts a semaphore remembers                        *)

Thread == 1 .. Threads
Task == Workers \cup Jobs

ASSUME PoolAssumption ==
  /\ Threads \in Nat /\ Reserve \in Nat /\ MaxSem \in Nat \ {0}
  /\ IsFiniteSet(Workers) /\ Cardinality(Workers) = 1 /\ Threads > Reserve
  /\ Workers \cap Jobs = {} /\ None \notin Task

VARIABLES
  pc,              (* where each thread is in thread_proc                   *)
  target,          (* ExecutionTarget                                       *)
  runs,            (* the task whose run() the thread is in                 *)
  deleteAfterExit, (* DeleteAfterExit                                       *)
  sem,             (* the semaphore of ControlInterface                     *)
  active, free,    (* m_activeThreads, m_freeThreads                        *)
  toExit,          (* _threadsToExit                                        *)
  eaten,           (* _threadsEaten                                         *)
  task,            (* each task: new, given to ExecuteTask, running, ended  *)
  running,         (* of each task: its OnShutdown has not been called      *)
  shutdown,        (* no, or the thread in Shutdown: called, waiting, done  *)
  killed,          (* ghost: IntegrityCheck has killed a free thread        *)
  forgiven,        (* ghost: and has set a negative eaten to zero after it  *)
  orderly          (* ghost: no thread was on its way into the pool when
                      Shutdown was called                                   *)

threadVars == << pc, target, runs, deleteAfterExit, sem >>
countVars == << active, free, toExit, eaten >>
taskVars == << task, running >>
ghosts == << killed, forgiven, orderly >>
poolVars == << threadVars, countVars, taskVars, shutdown, ghosts >>

(* SpawnWorkerThreads has given the worker to a thread made for it, and     *)
(* Startup has made THREAD_RESERVE more.                                    *)
PoolInit ==
  /\ pc = [t \in Thread |-> IF t <= Reserve + 1 THEN "head" ELSE "unborn"]
  /\ target \in {[t \in Thread |-> IF t = 1 THEN w ELSE None] : w \in Workers}
  /\ runs = [t \in Thread |-> None]
  /\ deleteAfterExit = [t \in Thread |-> FALSE] /\ sem = [t \in Thread |-> 0]
  /\ active = {1} /\ free = {} /\ toExit = 0 /\ eaten = -1
  /\ task = [k \in Task |-> IF k \in Workers THEN "given" ELSE "new"]
  /\ running = [k \in Task |-> TRUE]
  /\ shutdown = "no" /\ killed = FALSE /\ forgiven = FALSE /\ orderly = FALSE

-------------------------------------------------------------------------------

Alive == {t \in Thread : pc[t] \notin {"unborn", "gone"}}
Unborn == {t \in Thread : pc[t] = "unborn"}

(* StartThread: n new threads, the first ones not made yet. *)
Started(n) == {t \in Unborn : Cardinality({u \in Unborn : u < t}) < n}

(* Resume: sem_post. *)
ResumedNot(ts) == sem    \* mutant: nobody is woken
Resumed(ts) == [t \in Thread |-> IF t \in ts /\ sem[t] < MaxSem THEN sem[t] + 1 ELSE sem[t]]

-------------------------------------------------------------------------------
(* thread_proc. *)

(* With a task, run it (SocketWorkerThread::run starts with running = true, *)
(* whatever OnShutdown has said before).                                    *)
RunTask(t) ==
  /\ pc[t] = "head" /\ target[t] # None
  /\ pc' = [pc EXCEPT ![t] = "task"]
  /\ runs' = [runs EXCEPT ![t] = target[t]]
  /\ task' = [task EXCEPT ![target[t]] = "running"]
  /\ running' = [running EXCEPT ![target[t]] = (target[t] \in Workers) \/ @]
  /\ UNCHANGED << target, deleteAfterExit, sem, countVars, shutdown, ghosts >>

NoTask(t) ==
  /\ pc[t] = "head" /\ target[t] = None
  /\ pc' = [pc EXCEPT ![t] = "exit"]
  /\ UNCHANGED << target, runs, deleteAfterExit, sem, countVars, taskVars, shutdown, ghosts >>

(* run() returns, and what ExecutionTarget points to by now is deleted. *)
TaskReturns(t) ==
  /\ pc[t] = "task"
  /\ runs[t] \in Workers => ~running[runs[t]]
  /\ pc' = [pc EXCEPT ![t] = "exit"]
  /\ task' = [k \in Task |-> IF k \in {runs[t], target[t]} THEN "ended" ELSE task[k]]
  /\ target' = [target EXCEPT ![t] = None]
  /\ runs' = [runs EXCEPT ![t] = None]
  /\ UNCHANGED << deleteAfterExit, sem, countVars, running, shutdown, ghosts >>

(* do we have to kill off some threads? *)
MustExitAtZero == toExit >= 0    \* mutant: >= for >
MustExit == toExit > 0

(* (Bound: after Shutdown, when nobody reads it, eaten is not counted.)     *)
ThreadExit(t) ==
  /\ pc[t] = "exit"
  /\ active' = active \ {t}
  /\ IF MustExit
       THEN /\ toExit' = toExit - 1
            /\ free' = IF deleteAfterExit[t] THEN free \ {t} ELSE free
            /\ pc' = [pc EXCEPT ![t] = "gone"]
            /\ UNCHANGED eaten
       ELSE /\ eaten' = IF shutdown = "no" THEN eaten + 1 ELSE eaten
            /\ free' = free \cup {t}
            /\ pc' = [pc EXCEPT ![t] = "suspended"]
            /\ UNCHANGED toExit
  /\ UNCHANGED << target, runs, deleteAfterExit, sem, taskVars, shutdown, ghosts >>

WakeUp(t) ==
  /\ pc[t] = "suspended" /\ sem[t] > 0
  /\ sem' = [sem EXCEPT ![t] = @ - 1]
  /\ pc' = [pc EXCEPT ![t] = "head"]
  /\ UNCHANGED << target, runs, deleteAfterExit, countVars, taskVars, shutdown, ghosts >>

-------------------------------------------------------------------------------
(* The callers. *)

FreeWithout(t) == free \ {t}

(* A free thread if there is one, else a new one. *)
ExecuteTask(k) ==
  /\ shutdown = "no" /\ task[k] = "new"
  /\ \E t \in IF free # {} THEN free ELSE Started(1) :
       /\ target' = [target EXCEPT ![t] = k]
       /\ IF free # {}
            THEN free' = FreeWithout(t) /\ sem' = Resumed({t}) /\ UNCHANGED pc
            ELSE pc' = [pc EXCEPT ![t] = "head"] /\ UNCHANGED << free, sem >>
       /\ active' = active \cup {t}
  /\ eaten' = eaten - 1
  /\ task' = [task EXCEPT ![k] = "given"]
  /\ UNCHANGED << runs, deleteAfterExit, toExit, running, shutdown, ghosts >>

(* The threads in ts, free ones, are told to go. *)
KillUnmarked(ts) ==    \* mutant: DeleteAfterExit is not set
  /\ target' = [t \in Thread |-> IF t \in ts THEN None ELSE target[t]]
  /\ UNCHANGED deleteAfterExit
Kill(ts) ==
  /\ target' = [t \in Thread |-> IF t \in ts THEN None ELSE target[t]]
  /\ deleteAfterExit' = [t \in Thread |-> t \in ts \/ deleteAfterExit[t]]

(* KillFreeThreads: the first threads of the set, which is ordered by       *)
(* address.                                                                 *)
Victims(count) == 
  {ts \in SUBSET free :
     Cardinality(ts) = IF count < Cardinality(free) THEN count ELSE Cardinality(free)}

Spawn(n) ==
  /\ Cardinality(Unborn) >= n
  /\ pc' = [t \in Thread |-> IF t \in Started(n) THEN "head" ELSE pc[t]]
  /\ UNCHANGED << target, runs, deleteAfterExit, sem, active, free, toExit, killed >>

(* "we requested more threads than we had in the pool": as many more. *)
SpawnEatenCounted ==    \* mutant: the new threads are counted before they are free
  /\ eaten < 0
  /\ Spawn(Reserve - eaten)
  /\ eaten' = Reserve
  /\ forgiven' = (forgiven \/ killed)
SpawnEaten ==
  /\ eaten < 0
  /\ Spawn(Reserve - eaten)
  /\ eaten' = 0
  /\ forgiven' = (forgiven \/ killed)

SpawnReserve ==
  /\ eaten >= 0 /\ eaten < Reserve
  /\ Spawn(Reserve - eaten)
  /\ UNCHANGED << eaten, forgiven >>

KillExcess ==
  /\ eaten > Reserve
  /\ \E ts \in Victims(eaten - Reserve) :
       /\ Kill(ts)
       /\ sem' = Resumed(ts)
       /\ toExit' = toExit + Cardinality(ts)
  /\ eaten' = Reserve
  /\ killed' = TRUE
  /\ UNCHANGED << pc, runs, active, free, forgiven >>

IntegrityCheck ==
  /\ shutdown = "no"
  /\ SpawnEaten \/ SpawnReserve \/ KillExcess
  /\ UNCHANGED << taskVars, shutdown, orderly >>

(* Shutdown: every free thread is killed, every task told to end.           *)
Untasked == {t \in active : target[t] = None}
DoomedFree == Cardinality(free)    \* mutant: the active threads are not to exit
Doomed == Cardinality(free) + Cardinality(active)

Shutdown ==
  /\ shutdown = "no"
  /\ Kill(free)
  /\ sem' = Resumed(free \cup Untasked)
  /\ toExit' = toExit + Doomed
  /\ running' = [k \in Task |-> running[k] /\ k \notin {target[t] : t \in active}]
  /\ shutdown' = "called"
  /\ orderly' = (Alive = active \cup free /\ \A k \in Workers : task[k] # "given")
  /\ UNCHANGED << pc, runs, active, free, eaten, task, killed, forgiven >>

(* The loop that waits for all to go: from its second round on it resumes   *)
(* the free threads.                                                        *)
ShutdownWait ==
  /\ shutdown \in {"called", "waiting"}
  /\ shutdown' = IF active = {} /\ free = {} THEN "done" ELSE "waiting"
  /\ sem' = IF shutdown = "waiting" THEN Resumed(free) ELSE sem
  /\ UNCHANGED << pc, target, runs, deleteAfterExit, countVars, taskVars, ghosts >>

-------------------------------------------------------------------------------

ThreadProc(t) == RunTask(t) \/ NoTask(t) \/ TaskReturns(t) \/ ThreadExit(t) \/ WakeUp(t)

PoolNext ==
  \/ \E t \in Thread : ThreadProc(t)
  \/ \E k \in Task : ExecuteTask(k)
  \/ IntegrityCheck \/ Shutdown \/ ShutdownWait

PoolSpec == PoolInit /\ [][PoolNext]_poolVars

(* The threads run on, jobs return, Shutdown waits on.  Nobody is bound to  *)
(* give tasks, to check the pool or to shut it down.                        *)
PoolFairness ==
  /\ \A t \in Thread : WF_poolVars(ThreadProc(t))
  /\ WF_poolVars(ShutdownWait)

FairPoolSpec == PoolSpec /\ PoolFairness

-------------------------------------------------------------------------------
(* Properties. *)

PoolTypeOK ==
  /\ pc \in [Thread -> {"unborn", "head", "task", "exit", "suspended", "gone"}]
  /\ target \in [Thread -> Task \cup {None}] /\ runs \in [Thread -> Task \cup {None}]
  /\ deleteAfterExit \in [Thread -> BOOLEAN] /\ sem \in [Thread -> 0 .. MaxSem]
  /\ active \subseteq Thread /\ free \subseteq Thread
  /\ toExit \in Nat /\ eaten \in Int
  /\ task \in [Task -> {"new", "given", "running", "ended"}]
  /\ running \in [Task -> BOOLEAN]
  /\ shutdown \in {"no", "called", "waiting", "done"}
  /\ killed \in BOOLEAN /\ forgiven \in BOOLEAN /\ orderly \in BOOLEAN

(* The sets hold no thread that has been deleted: neither ExecuteTask nor   *)
(* Shutdown resumes freed memory, although a thread deletes itself and      *)
(* leaves the free set only if it knows that it was killed.                 *)
SetsAlive == active \cup free \subseteq Alive

(* A thread that has a task is active and cannot be given another, as long  *)
(* as no free thread has been killed.                                       *)
BusyIsActive ==
  ~killed => \A t \in Thread : target[t] # None => t \in active /\ t \notin free

(* The pool never counts more spare threads than it has: IntegrityCheck     *)
(* finds all the threads it wants to kill, and spares the reserve.  It      *)
(* holds until, of threads killed before, a negative count is set to zero:  *)
(* one of them that ExecuteTask has taken comes back twice, and is counted  *)
(* twice.                                                                   *)
EatenIsCovered == shutdown = "no" /\ ~forgiven => eaten <= Cardinality(free)

(* ExecuteTask's "resume the thread, and it should start working": a task   *)
(* given to the pool is run, as long as no free thread has been killed.     *)
TasksRun ==
  []~killed => \A k \in Task : task[k] = "given" ~> task[k] # "given"

(* Shutdown ends once the tasks have, if no thread was on its way into the  *)
(* pool, and no worker yet to begin, when it was called.                    *)
ShutdownEnds == shutdown = "called" /\ orderly ~> shutdown = "done"
===============================================================================

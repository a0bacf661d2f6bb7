--------------------------- MODULE ThreadPoolProofs ---------------------------
(***************************************************************************)
(* Proofs about ThreadPool, for any number of threads, jobs and spares: no *)
(* deleted thread is left in the pool's sets, a busy thread is active, and *)
(* the count of spares does not exceed the free threads.                   *)
(***************************************************************************)
EXTENDS ThreadPool, FiniteSetTheorems, TLAPS

(* What SetsAlive rests on.  Up to Shutdown a thread that is not marked is  *)
(* woken only by ExecuteTask, which takes it out of the free set; after it  *)
(* one can enter the free set only when no more threads are to exit.        *)
WokenWhenTaken ==
  \A t \in Thread : ~deleteAfterExit[t] /\ shutdown = "no" =>
    /\ t \in free => pc[t] = "suspended"
    /\ sem[t] # 0 => sem[t] = 1 /\ pc[t] = "suspended" /\ t \notin free
SparedWhenDone ==
  \A t \in free : ~deleteAfterExit[t] /\ shutdown # "no" => toExit = 0

(* What BusyIsActive rests on. *)
MarkedWhenKilled ==
  /\ ~killed /\ shutdown = "no" => \A t \in Thread : ~deleteAfterExit[t]
  /\ ~killed => \A t \in Thread : target[t] # None => pc[t] \in {"head", "task", "suspended"}

SetsInv == SetsAlive /\ WokenWhenTaken /\ SparedWhenDone

-------------------------------------------------------------------------------
(* Type correctness. *)

LEMMA CountedSets ==
  ASSUME NEW S \in SUBSET Thread
  PROVE  Cardinality(S) \in Nat
  <1>1. IsFiniteSet(Thread)
    BY PoolAssumption, FS_Interval DEF Thread
  <1>2. IsFiniteSet(S)
    BY <1>1, FS_Subset
  <1>3. QED BY <1>2, FS_CardinalityType

LEMMA TypesStart == PoolInit => PoolTypeOK
  <1> SUFFICES ASSUME PoolInit PROVE PoolTypeOK
    OBVIOUS
  <1>1. 1 \in Thread /\ MaxSem \in Nat
    BY PoolAssumption DEF Thread
  <1>2. target \in [Thread -> Task \cup {None}]
    BY DEF PoolInit, Task
  <1>3. deleteAfterExit \in [Thread -> BOOLEAN] /\ running \in [Task -> BOOLEAN]
    BY DEF PoolInit
  <1>4. sem \in [Thread -> 0 .. MaxSem]
    BY <1>1 DEF PoolInit
  <1>5. /\ pc \in [Thread -> {"unborn", "head", "task", "exit", "suspended", "gone"}]
        /\ runs \in [Thread -> Task \cup {None}]
        /\ task \in [Task -> {"new", "given", "running", "ended"}]
    BY DEF PoolInit
  <1>6. active \subseteq Thread /\ free \subseteq Thread /\ toExit \in Nat /\ eaten \in Int
    BY <1>1 DEF PoolInit
  <1>7. /\ shutdown \in {"no", "called", "waiting", "done"}
        /\ killed \in BOOLEAN /\ forgiven \in BOOLEAN /\ orderly \in BOOLEAN
    BY DEF PoolInit
  <1>8. QED BY <1>2, <1>3, <1>4, <1>5, <1>6, <1>7 DEF PoolTypeOK

LEMMA ResumedType ==
  ASSUME sem \in [Thread -> 0 .. MaxSem], NEW ts
  PROVE  Resumed(ts) \in [Thread -> 0 .. MaxSem]
  BY PoolAssumption DEF Resumed

LEMMA TypesThreadProc ==
  ASSUME PoolTypeOK, NEW t \in Thread, ThreadProc(t)
  PROVE  PoolTypeOK'
  <1> USE DEF PoolTypeOK, threadVars, countVars, taskVars, ghosts
  <1>1. CASE RunTask(t)
    BY <1>1 DEF RunTask
  <1>2. CASE NoTask(t)
    BY <1>2 DEF NoTask
  <1>3. CASE TaskReturns(t)
    BY <1>3 DEF TaskReturns
  <1>4. CASE ThreadExit(t)
    BY <1>4 DEF ThreadExit, MustExit
  <1>5. CASE WakeUp(t)
    BY <1>5, PoolAssumption DEF WakeUp
  <1>6. QED BY <1>1, <1>2, <1>3, <1>4, <1>5 DEF ThreadProc

LEMMA TypesExecuteTask ==
  ASSUME PoolTypeOK, NEW k \in Task, ExecuteTask(k)
  PROVE  PoolTypeOK'
  <1> USE DEF PoolTypeOK, taskVars, ghosts
  <1>1. PICK t \in IF free # {} THEN free ELSE Started(1) :
          /\ target' = [target EXCEPT ![t] = k]
          /\ IF free # {}
               THEN free' = FreeWithout(t) /\ sem' = Resumed({t}) /\ UNCHANGED pc
               ELSE pc' = [pc EXCEPT ![t] = "head"] /\ UNCHANGED << free, sem >>
          /\ active' = active \cup {t}
    BY DEF ExecuteTask
  <1>2. t \in Thread
    BY <1>1 DEF Started, Unborn
  <1>3. sem' \in [Thread -> 0 .. MaxSem]
    BY <1>1, ResumedType
  <1>4. /\ target' \in [Thread -> Task \cup {None}]
        /\ pc' \in [Thread -> {"unborn", "head", "task", "exit", "suspended", "gone"}]
        /\ active' \subseteq Thread /\ free' \subseteq Thread
    BY <1>1, <1>2 DEF FreeWithout
  <1>5. task' \in [Task -> {"new", "given", "running", "ended"}] /\ eaten' \in Int
    BY DEF ExecuteTask
  <1>6. QED BY <1>3, <1>4, <1>5 DEF ExecuteTask

LEMMA TypesIntegrityCheck ==
  ASSUME PoolTypeOK, IntegrityCheck
  PROVE  PoolTypeOK'
  <1> USE PoolAssumption DEF PoolTypeOK, IntegrityCheck, taskVars
  <1>1. CASE SpawnEaten
    BY <1>1 DEF SpawnEaten, Spawn
  <1>2. CASE SpawnReserve
    BY <1>2 DEF SpawnReserve, Spawn
  <1>3. CASE KillExcess
    <2>1. PICK ts \in Victims(eaten - Reserve) :
            /\ Kill(ts)
            /\ sem' = Resumed(ts)
            /\ toExit' = toExit + Cardinality(ts)
      BY <1>3 DEF KillExcess
    <2>2. Cardinality(ts) \in Nat
      BY <2>1, CountedSets DEF Victims
    <2>3. sem' \in [Thread -> 0 .. MaxSem]
      BY <2>1, ResumedType
    <2>4. QED BY <1>3, <2>1, <2>2, <2>3 DEF KillExcess, Kill
  <1>4. QED BY <1>1, <1>2, <1>3

LEMMA TypesShutdown ==
  ASSUME PoolTypeOK, Shutdown \/ ShutdownWait
  PROVE  PoolTypeOK'
  <1> USE DEF PoolTypeOK, countVars, taskVars, ghosts
  <1>1. sem' \in [Thread -> 0 .. MaxSem]
    BY ResumedType DEF Shutdown, ShutdownWait
  <1>2. CASE Shutdown
    <2>1. Cardinality(free) \in Nat /\ Cardinality(active) \in Nat
      BY CountedSets
    <2>2. /\ target' \in [Thread -> Task \cup {None}] /\ toExit' \in Nat
          /\ shutdown' \in {"no", "called", "waiting", "done"}
      BY <1>2, <2>1 DEF Shutdown, Kill, Doomed
    <2>3. deleteAfterExit' \in [Thread -> BOOLEAN]
      BY <1>2 DEF Shutdown, Kill
    <2>4. running' \in [Task -> BOOLEAN] /\ orderly' \in BOOLEAN
      BY <1>2 DEF Shutdown
    <2>5. QED BY <1>1, <1>2, <2>2, <2>3, <2>4 DEF Shutdown
  <1>3. CASE ShutdownWait
    BY <1>1, <1>3 DEF ShutdownWait
  <1>4. QED BY <1>2, <1>3

(* The pool keeps its type, whatever happens between its calls.             *)
THEOREM PoolTypeCorrect == PoolSpec => []PoolTypeOK
  <1>1. ASSUME PoolTypeOK, [PoolNext]_poolVars
        PROVE  PoolTypeOK'
    <2>1. CASE UNCHANGED poolVars
      BY <1>1, <2>1 DEF PoolTypeOK, poolVars, threadVars, countVars, taskVars, ghosts
    <2>2. CASE PoolNext
      BY <1>1, <2>2, TypesThreadProc, TypesExecuteTask, TypesIntegrityCheck, TypesShutdown
         DEF PoolNext
    <2>3. QED BY <1>1, <2>1, <2>2
  <1>2. QED BY <1>1, TypesStart, PTL DEF PoolSpec

-------------------------------------------------------------------------------

LEMMA SetsStart == PoolInit => SetsInv
  BY PoolAssumption
     DEF PoolInit, SetsInv, SetsAlive, WokenWhenTaken, SparedWhenDone, Alive, Thread

(* A step of a thread. *)
LEMMA SetsThreadProc ==
  ASSUME PoolTypeOK, SetsInv, NEW t \in Thread, ThreadProc(t)
  PROVE  SetsInv'
  <1> USE DEF PoolTypeOK, SetsInv, SetsAlive, WokenWhenTaken, SparedWhenDone, Alive,
              threadVars, countVars, taskVars, ghosts
  <1>1. CASE RunTask(t)
    BY <1>1 DEF RunTask
  <1>2. CASE NoTask(t)
    BY <1>2 DEF NoTask
  <1>3. CASE TaskReturns(t)
    BY <1>3 DEF TaskReturns
  <1>4. CASE ThreadExit(t)
    <2>1. CASE MustExit
      BY <1>4, <2>1 DEF ThreadExit, MustExit
    <2>2. CASE ~MustExit
      BY <1>4, <2>2 DEF ThreadExit, MustExit
    <2>3. QED BY <2>1, <2>2
  <1>5. CASE WakeUp(t)
    BY <1>5 DEF WakeUp
  <1>6. QED BY <1>1, <1>2, <1>3, <1>4, <1>5 DEF ThreadProc

(* A task is given to a free thread, or to one made for it. *)
LEMMA SetsExecuteTask ==
  ASSUME PoolTypeOK, SetsInv, NEW k \in Task, ExecuteTask(k)
  PROVE  SetsInv'
  <1> USE DEF PoolTypeOK, SetsInv, SetsAlive, WokenWhenTaken, SparedWhenDone, Alive
  <1>1. PICK t \in IF free # {} THEN free ELSE Started(1) :
          /\ IF free # {}
               THEN free' = FreeWithout(t) /\ sem' = Resumed({t}) /\ UNCHANGED pc
               ELSE pc' = [pc EXCEPT ![t] = "head"] /\ UNCHANGED << free, sem >>
          /\ active' = active \cup {t}
    BY DEF ExecuteTask
  <1>2. shutdown = "no" /\ shutdown' = "no" /\ deleteAfterExit' = deleteAfterExit
    BY DEF ExecuteTask, ghosts
  <1>3. CASE free # {}
    <2>1. t \in free /\ free' = free \ {t} /\ sem' = Resumed({t}) /\ pc' = pc
      BY <1>1, <1>3 DEF FreeWithout
    <2>2. ~deleteAfterExit[t] => pc[t] = "suspended" /\ sem'[t] = 1
      BY <1>2, <2>1, PoolAssumption DEF Resumed
    <2>3. \A u \in Thread : u # t => sem'[u] = sem[u]
      BY <2>1 DEF Resumed
    <2>4. QED BY <1>1, <1>2, <2>1, <2>2, <2>3
  <1>4. CASE free = {}
    <2>1. t \in Thread /\ pc[t] = "unborn" /\ pc' = [pc EXCEPT ![t] = "head"]
      BY <1>1, <1>4 DEF Started, Unborn
    <2>2. free' = {} /\ sem' = sem
      BY <1>1, <1>4
    <2>3. QED BY <1>1, <1>2, <2>1, <2>2
  <1>5. QED BY <1>3, <1>4

(* New threads are in neither set. *)
LEMMA SetsSpawn ==
  ASSUME PoolTypeOK, SetsInv, NEW n, Spawn(n), UNCHANGED shutdown
  PROVE  SetsInv'
  BY DEF Spawn, Started, Unborn, PoolTypeOK, SetsInv, SetsAlive, WokenWhenTaken,
         SparedWhenDone, Alive

(* A killed thread is marked before it is woken. *)
LEMMA SetsIntegrityCheck ==
  ASSUME PoolTypeOK, SetsInv, IntegrityCheck
  PROVE  SetsInv'
  <1>1. CASE SpawnEaten
    BY <1>1, SetsSpawn DEF SpawnEaten, IntegrityCheck
  <1>2. CASE SpawnReserve
    BY <1>2, SetsSpawn DEF SpawnReserve, IntegrityCheck
  <1>3. CASE KillExcess
    <2>1. PICK ts \in Victims(eaten - Reserve) : Kill(ts) /\ sem' = Resumed(ts)
      BY <1>3 DEF KillExcess
    <2>2. \A t \in Thread : ~deleteAfterExit'[t] => ~deleteAfterExit[t] /\ sem'[t] = sem[t]
      BY <2>1 DEF Kill, Resumed, PoolTypeOK
    <2>3. /\ pc' = pc /\ active' = active /\ free' = free /\ shutdown = "no"
          /\ shutdown' = "no"
      BY <1>3 DEF KillExcess, IntegrityCheck
    <2>4. QED
      BY <2>2, <2>3 DEF PoolTypeOK, SetsInv, SetsAlive, WokenWhenTaken, SparedWhenDone, Alive
  <1>4. QED BY <1>1, <1>2, <1>3 DEF IntegrityCheck

(* Shutdown marks every thread that is free when it is called. *)
LEMMA SetsShutdown ==
  ASSUME PoolTypeOK, SetsInv, Shutdown \/ ShutdownWait
  PROVE  SetsInv'
  <1> USE DEF PoolTypeOK, SetsInv, SetsAlive, WokenWhenTaken, SparedWhenDone, Alive
  <1>1. CASE Shutdown
    BY <1>1 DEF Shutdown, Kill
  <1>2. CASE ShutdownWait
    BY <1>2 DEF ShutdownWait, threadVars, countVars
  <1>3. QED BY <1>1, <1>2

LEMMA SetsStep ==
  ASSUME PoolTypeOK, SetsInv, [PoolNext]_poolVars
  PROVE  SetsInv'
  <1>1. CASE UNCHANGED poolVars
    BY <1>1 DEF SetsInv, SetsAlive, WokenWhenTaken, SparedWhenDone, Alive,
                poolVars, threadVars, countVars
  <1>2. CASE PoolNext
    BY <1>2, SetsThreadProc, SetsExecuteTask, SetsIntegrityCheck, SetsShutdown DEF PoolNext
  <1>3. QED BY <1>1, <1>2

(* No thread that has deleted itself is in the active or the free set, so   *)
(* neither ExecuteTask nor Shutdown touches freed memory.                   *)
THEOREM SetsStayAlive == PoolSpec => []SetsAlive
  <1>1. PoolTypeOK /\ SetsInv /\ [PoolNext]_poolVars => SetsInv'
    BY SetsStep
  <1>2. SetsInv => SetsAlive
    BY DEF SetsInv
  <1>3. QED BY <1>1, <1>2, SetsStart, PoolTypeCorrect, PTL DEF PoolSpec

-------------------------------------------------------------------------------

BusyInv == BusyIsActive /\ MarkedWhenKilled

LEMMA BusyStart == PoolInit => BusyInv
  BY PoolAssumption DEF PoolInit, BusyInv, BusyIsActive, MarkedWhenKilled, Thread

(* A step of a thread. *)
LEMMA BusyThreadProc ==
  ASSUME PoolTypeOK, BusyInv, NEW t \in Thread, ThreadProc(t)
  PROVE  BusyInv'
  <1> USE DEF PoolTypeOK, BusyInv, BusyIsActive, MarkedWhenKilled,
              threadVars, countVars, taskVars, ghosts
  <1>1. CASE RunTask(t)
    BY <1>1 DEF RunTask
  <1>2. CASE NoTask(t)
    BY <1>2 DEF NoTask
  <1>3. CASE TaskReturns(t)
    BY <1>3 DEF TaskReturns
  <1>4. CASE ThreadExit(t)
    <2>1. ~killed => target[t] = None
      BY <1>4 DEF ThreadExit
    <2>2. /\ \A u \in Thread : u # t => pc'[u] = pc[u]
          /\ active' = active \ {t} /\ free' \subseteq free \cup {t}
          /\ UNCHANGED << target, deleteAfterExit, shutdown, killed >>
      BY <1>4 DEF ThreadExit
    <2>3. QED BY <2>1, <2>2
  <1>5. CASE WakeUp(t)
    BY <1>5 DEF WakeUp
  <1>6. QED BY <1>1, <1>2, <1>3, <1>4, <1>5 DEF ThreadProc

(* The thread that gets the task is suspended, or new, and becomes active. *)
LEMMA BusyExecuteTask ==
  ASSUME PoolTypeOK, SetsInv, BusyInv, NEW k \in Task, ExecuteTask(k)
  PROVE  BusyInv'
  <1> USE DEF PoolTypeOK, BusyInv, BusyIsActive, MarkedWhenKilled
  <1>1. PICK t \in IF free # {} THEN free ELSE Started(1) :
          /\ target' = [target EXCEPT ![t] = k]
          /\ IF free # {}
               THEN free' = FreeWithout(t) /\ sem' = Resumed({t}) /\ UNCHANGED pc
               ELSE pc' = [pc EXCEPT ![t] = "head"] /\ UNCHANGED << free, sem >>
          /\ active' = active \cup {t}
    BY DEF ExecuteTask
  <1>2. /\ shutdown = "no"
        /\ UNCHANGED << deleteAfterExit, shutdown, killed >>
    BY DEF ExecuteTask, ghosts
  <1>3. t \in Thread /\ t \notin free' /\ t \in active'
    BY <1>1 DEF Started, Unborn, FreeWithout
  <1>4. ~killed => pc'[t] \in {"head", "task", "suspended"}
    <2>1. CASE free # {}
      BY <1>1, <1>2, <2>1 DEF SetsInv, WokenWhenTaken
    <2>2. CASE free = {}
      BY <1>1, <1>3, <2>2
    <2>3. QED BY <2>1, <2>2
  <1>5. \A u \in Thread : u # t =>
          /\ target'[u] = target[u] /\ pc'[u] = pc[u]
          /\ u \in active => u \in active'
          /\ u \in free' => u \in free
    BY <1>1, <1>3 DEF FreeWithout
  <1>6. QED BY <1>2, <1>3, <1>4, <1>5

(* Killing a free thread is what the property excepts. *)
LEMMA BusyIntegrityCheck ==
  ASSUME PoolTypeOK, BusyInv, IntegrityCheck
  PROVE  BusyInv'
  <1> USE DEF PoolTypeOK, BusyInv, BusyIsActive, MarkedWhenKilled, IntegrityCheck, Spawn
  <1>1. CASE SpawnEaten
    BY <1>1 DEF SpawnEaten
  <1>2. CASE SpawnReserve
    BY <1>2 DEF SpawnReserve
  <1>3. CASE KillExcess
    BY <1>3 DEF KillExcess
  <1>4. QED BY <1>1, <1>2, <1>3

LEMMA BusyShutdown ==
  ASSUME PoolTypeOK, BusyInv, Shutdown \/ ShutdownWait
  PROVE  BusyInv'
  <1> USE DEF PoolTypeOK, BusyInv, BusyIsActive, MarkedWhenKilled
  <1>1. CASE Shutdown
    BY <1>1 DEF Shutdown, Kill
  <1>2. CASE ShutdownWait
    BY <1>2 DEF ShutdownWait, threadVars, countVars, ghosts
  <1>3. QED BY <1>1, <1>2

LEMMA BusyStep ==
  ASSUME PoolTypeOK, SetsInv, BusyInv, [PoolNext]_poolVars
  PROVE  BusyInv'
  <1>1. CASE UNCHANGED poolVars
    BY <1>1 DEF BusyInv, BusyIsActive, MarkedWhenKilled, poolVars, threadVars, countVars, ghosts
  <1>2. CASE PoolNext
    BY <1>2, BusyThreadProc, BusyExecuteTask, BusyIntegrityCheck, BusyShutdown DEF PoolNext
  <1>3. QED BY <1>1, <1>2

(* A thread that has a task is in the active set and not in the free one,   *)
(* so ExecuteTask does not give it a second one, as long as IntegrityCheck  *)
(* has killed no free thread.                                               *)
THEOREM BusyThreadsActive == PoolSpec => []BusyIsActive
  <1>1. PoolTypeOK /\ SetsInv /\ [PoolNext]_poolVars => SetsInv'
    BY SetsStep
  <1>2. PoolTypeOK /\ SetsInv /\ BusyInv /\ [PoolNext]_poolVars => BusyInv'
    BY BusyStep
  <1>3. BusyInv => BusyIsActive
    BY DEF BusyInv
  <1>4. QED BY <1>1, <1>2, <1>3, SetsStart, BusyStart, PoolTypeCorrect, PTL DEF PoolSpec

-------------------------------------------------------------------------------
(* What EatenIsCovered rests on.  Each time a thread still to come to       *)
(* ThreadExit is a turn: the one it is on its way to, and those its         *)
(* semaphore remembers.  A thread that is not free has one coming that      *)
(* brings it back into the set; the others are counted in eaten without a   *)
(* thread more in the set, or are those of killed threads.                  *)
Turns(t) == sem[t] + (IF pc[t] \in {"head", "task", "exit"} THEN 1 ELSE 0)

Extra(t) ==
  IF t \in Alive THEN (IF t \in free THEN Turns(t) ELSE Turns(t) - 1) ELSE 0

ExtraTurns == {p \in Thread \X (1 .. MaxSem + 1) : p[2] <= Extra(p[1])}

CoverInv ==
  /\ \A t \in Unborn : sem[t] = 0
  /\ ~killed /\ shutdown = "no" => toExit = 0
  /\ shutdown = "no" /\ ~forgiven =>
       /\ eaten + toExit <= Cardinality(free)
       /\ eaten + Cardinality(ExtraTurns) <= Cardinality(free)

LEMMA CountedPairs ==
  ASSUME NEW S \in SUBSET (Thread \X (1 .. MaxSem + 1))
  PROVE  IsFiniteSet(S) /\ Cardinality(S) \in Nat
  <1>1. IsFiniteSet(Thread) /\ IsFiniteSet(1 .. MaxSem + 1)
    BY PoolAssumption, FS_Interval DEF Thread
  <1>2. IsFiniteSet(Thread \X (1 .. MaxSem + 1))
    BY <1>1, FS_Product
  <1>3. IsFiniteSet(S)
    BY <1>2, FS_Subset
  <1>4. QED BY <1>3, FS_CardinalityType

LEMMA FiniteThreads ==
  ASSUME NEW S \in SUBSET Thread
  PROVE  IsFiniteSet(S)
  <1>1. IsFiniteSet(Thread)
    BY PoolAssumption, FS_Interval DEF Thread
  <1>2. QED BY <1>1, FS_Subset

LEMMA ExtraRange ==
  ASSUME PoolTypeOK, NEW t \in Thread
  PROVE  Extra(t) \in Int /\ Extra(t) <= MaxSem + 1
  <1>1. sem[t] \in 0 .. MaxSem /\ MaxSem \in Nat
    BY PoolAssumption DEF PoolTypeOK
  <1>2. Turns(t) \in Int /\ Turns(t) <= MaxSem + 1
    BY <1>1 DEF Turns
  <1>3. QED BY <1>1, <1>2 DEF Extra

LEMMA ExtraNext ==
  ASSUME PoolTypeOK', NEW t \in Thread
  PROVE  Extra(t)' \in Int
  <1>1. sem'[t] \in 0 .. MaxSem /\ MaxSem \in Nat
    BY PoolAssumption DEF PoolTypeOK
  <1>2. Turns(t)' \in Int
    BY <1>1 DEF Turns
  <1>3. QED BY <1>2 DEF Extra

(* Nobody gets a turn. *)
LEMMA NoTurnMore ==
  ASSUME PoolTypeOK, PoolTypeOK', \A u \in Thread : Extra(u)' <= Extra(u)
  PROVE  Cardinality(ExtraTurns') <= Cardinality(ExtraTurns)
  <1>1. \A u \in Thread : Extra(u) \in Int
    BY ExtraRange
  <1>2. \A u \in Thread : Extra(u)' \in Int
    BY ExtraNext
  <1>3. ExtraTurns' \subseteq ExtraTurns
    BY <1>1, <1>2 DEF ExtraTurns
  <1>4. ExtraTurns \in SUBSET (Thread \X (1 .. MaxSem + 1))
    BY DEF ExtraTurns
  <1>5. QED BY <1>3, <1>4, CountedPairs, FS_Subset

(* A thread uses one of its extra turns. *)
LEMMA OneTurnLess ==
  ASSUME PoolTypeOK, PoolTypeOK', \A u \in Thread : Extra(u)' <= Extra(u),
         NEW t \in Thread, Extra(t) >= 1, Extra(t)' < Extra(t)
  PROVE  Cardinality(ExtraTurns') + 1 <= Cardinality(ExtraTurns)
  <1> DEFINE used == << t, Extra(t) >>
  <1>1. \A u \in Thread : Extra(u) \in Int /\ Extra(u) <= MaxSem + 1
    BY ExtraRange
  <1>2. \A u \in Thread : Extra(u)' \in Int
    BY ExtraNext
  <1>3. used \in ExtraTurns
    BY <1>1, PoolAssumption DEF ExtraTurns
  <1>4. ExtraTurns' \subseteq ExtraTurns \ {used}
    BY <1>1, <1>2 DEF ExtraTurns
  <1>5. IsFiniteSet(ExtraTurns) /\ Cardinality(ExtraTurns) \in Nat
    BY CountedPairs DEF ExtraTurns
  <1> HIDE DEF used
  <1>6. /\ IsFiniteSet(ExtraTurns \ {used})
        /\ Cardinality(ExtraTurns \ {used}) = Cardinality(ExtraTurns) - 1
    BY <1>3, <1>5, FS_RemoveElement
  <1>7. /\ Cardinality(ExtraTurns') <= Cardinality(ExtraTurns \ {used})
        /\ IsFiniteSet(ExtraTurns')
    BY <1>4, <1>6, FS_Subset
  <1>8. Cardinality(ExtraTurns') \in Nat
    BY <1>7, FS_CardinalityType
  <1>9. QED BY <1>5, <1>6, <1>7, <1>8

(* The threads in ts get one turn each. *)
LEMMA OneTurnEach ==
  ASSUME PoolTypeOK, PoolTypeOK', NEW ts \in SUBSET Thread,
         \A u \in Thread \ ts : Extra(u)' <= Extra(u),
         \A u \in ts : Extra(u)' <= Extra(u) + 1
  PROVE  Cardinality(ExtraTurns') <= Cardinality(ExtraTurns) + Cardinality(ts)
  <1> DEFINE f == [u \in ts |-> << u, Extra(u) + 1 >>]
             more == {f[u] : u \in ts}
  <1>1. \A u \in Thread : Extra(u) \in Int
    BY ExtraRange
  <1>2. \A u \in Thread : Extra(u)' \in Int
    BY ExtraNext
  <1>3. ExtraTurns' \subseteq ExtraTurns \cup more
    <2> SUFFICES ASSUME NEW p \in ExtraTurns', p \notin ExtraTurns PROVE p \in more
      OBVIOUS
    <2>1. PICK u \in Thread, i \in 1 .. MaxSem + 1 : p = << u, i >>
      BY DEF ExtraTurns
    <2>2. i <= Extra(u)' /\ ~(i <= Extra(u))
      BY <2>1 DEF ExtraTurns
    <2>3. u \in ts /\ i = Extra(u) + 1
      BY <1>1, <1>2, <2>2
    <2>4. QED BY <2>1, <2>3
  <1>4. IsFiniteSet(ts)
    BY FiniteThreads
  <1>5. f \in Surjection(ts, more)
    BY DEF Surjection
  <1> HIDE DEF f, more
  <1>6. IsFiniteSet(more) /\ Cardinality(more) <= Cardinality(ts)
    BY <1>4, <1>5, FS_Surjection
  <1>7. IsFiniteSet(ExtraTurns)
    BY CountedPairs DEF ExtraTurns
  <1>8. /\ IsFiniteSet(ExtraTurns \cup more)
        /\ Cardinality(ExtraTurns \cup more)
             = Cardinality(ExtraTurns) + Cardinality(more) - Cardinality(ExtraTurns \cap more)
    BY <1>6, <1>7, FS_Union
  <1>9. IsFiniteSet(ExtraTurns \cap more) /\ IsFiniteSet(ExtraTurns')
        /\ Cardinality(ExtraTurns') <= Cardinality(ExtraTurns \cup more)
    <2>1. ExtraTurns \cap more \in SUBSET more
      OBVIOUS
    <2>2. QED BY <1>3, <1>6, <1>8, <2>1, FS_Subset
  <1>10. /\ Cardinality(ExtraTurns) \in Nat /\ Cardinality(more) \in Nat
         /\ Cardinality(ts) \in Nat /\ Cardinality(ExtraTurns \cap more) \in Nat
         /\ Cardinality(ExtraTurns') \in Nat
    BY <1>4, <1>6, <1>7, <1>9, FS_CardinalityType
  <1>11. QED BY <1>6, <1>8, <1>9, <1>10

LEMMA CoverStart == PoolInit => CoverInv
  <1> SUFFICES ASSUME PoolInit PROVE CoverInv
    OBVIOUS
  <1>1. /\ sem = [t \in Thread |-> 0] /\ toExit = 0 /\ eaten = -1 /\ free = {}
        /\ pc \in [Thread -> {"head", "unborn"}]
    BY DEF PoolInit
  <1>2. ExtraTurns = {}
    BY <1>1, PoolAssumption DEF ExtraTurns, Extra, Turns, Alive
  <1>3. Cardinality(ExtraTurns) = 0 /\ Cardinality(free) = 0
    BY <1>1, <1>2, FS_EmptySet
  <1>4. QED BY <1>1, <1>3 DEF CoverInv, Unborn

(* Up to Shutdown, in a pool that has killed no free thread, each thread    *)
(* that is not free has one turn to come, and a free one none.              *)
LEMMA NoExtraUnlessKilled ==
  ASSUME PoolTypeOK, SetsInv, BusyInv, ~killed, shutdown = "no"
  PROVE  Cardinality(ExtraTurns) = 0
  <1>1. \A t \in Thread : Extra(t) <= 0
    <2> TAKE t \in Thread
    <2>1. ~deleteAfterExit[t]
      BY DEF BusyInv, MarkedWhenKilled
    <2>2. /\ t \in free => pc[t] = "suspended"
          /\ sem[t] # 0 => sem[t] = 1 /\ pc[t] = "suspended" /\ t \notin free
      BY <2>1 DEF SetsInv, WokenWhenTaken
    <2>3. sem[t] \in Nat
      BY PoolAssumption DEF PoolTypeOK
    <2>4. QED BY <2>2, <2>3 DEF Extra, Turns
  <1>2. \A t \in Thread : Extra(t) \in Int
    BY ExtraRange
  <1>3. ExtraTurns = {}
    BY <1>1, <1>2, PoolAssumption DEF ExtraTurns
  <1>4. QED BY <1>3, FS_EmptySet

(* What the counts are, for the arithmetic of the steps. *)
LEMMA CountTypes ==
  ASSUME PoolTypeOK
  PROVE  /\ Cardinality(free) \in Nat /\ Cardinality(ExtraTurns) \in Nat
         /\ toExit \in Nat /\ eaten \in Int /\ Reserve \in Nat /\ MaxSem \in Nat \ {0}
  <1>1. ExtraTurns \in SUBSET (Thread \X (1 .. MaxSem + 1))
    BY DEF ExtraTurns
  <1>2. QED BY <1>1, CountedPairs, CountedSets, PoolAssumption DEF PoolTypeOK

LEMMA CountTypesNext ==
  ASSUME PoolTypeOK'
  PROVE  Cardinality(free') \in Nat /\ Cardinality(ExtraTurns') \in Nat
  <1>1. ExtraTurns' \in SUBSET (Thread \X (1 .. MaxSem + 1))
    BY DEF ExtraTurns
  <1>2. QED BY <1>1, CountedPairs, CountedSets DEF PoolTypeOK

(* A thread in ThreadExit. *)
LEMMA CoverThreadExit ==
  ASSUME PoolTypeOK, PoolTypeOK', SetsInv, CoverInv, NEW t \in Thread, ThreadExit(t)
  PROVE  CoverInv'
  <1>1. /\ pc[t] = "exit" /\ sem[t] \in Nat /\ t \in Alive
        /\ UNCHANGED << sem, deleteAfterExit, shutdown, killed, forgiven >>
    BY PoolAssumption DEF ThreadExit, PoolTypeOK, Alive, ghosts
  <1>2. /\ pc' \in [Thread -> {"unborn", "head", "task", "exit", "suspended", "gone"}]
        /\ pc'[t] \in {"gone", "suspended"}
        /\ \A u \in Thread : u # t => pc'[u] = pc[u] /\ (u \in free' <=> u \in free)
    BY DEF ThreadExit, PoolTypeOK
  <1>3. \A u \in Thread : u # t => Extra(u)' = Extra(u)
    BY <1>1, <1>2 DEF Extra, Turns, Alive
  <1>4. \A u \in Thread : Extra(u) \in Int
    BY ExtraRange
  <1>5. \A u \in Unborn' : sem'[u] = 0
    BY <1>1, <1>2 DEF CoverInv, Unborn
  <1>6. ~killed' /\ shutdown' = "no" => toExit' = 0
    BY <1>1 DEF CoverInv, ThreadExit, MustExit
  <1>7. ASSUME shutdown = "no", ~forgiven
        PROVE  /\ eaten' + toExit' <= Cardinality(free')
               /\ eaten' + Cardinality(ExtraTurns') <= Cardinality(free')
    <2>1. /\ eaten + toExit <= Cardinality(free)
          /\ eaten + Cardinality(ExtraTurns) <= Cardinality(free)
      BY <1>7 DEF CoverInv
    <2>2. t \in free => deleteAfterExit[t]
      BY <1>1, <1>7 DEF SetsInv, WokenWhenTaken
    <2>3. Extra(t) = IF t \in free THEN sem[t] + 1 ELSE sem[t]
      BY <1>1 DEF Extra, Turns
    <2>4. CASE MustExit
      <3>1. /\ toExit' = toExit - 1 /\ eaten' = eaten /\ pc'[t] = "gone"
            /\ free' = free \ {t}
        BY <1>1, <2>2, <2>4 DEF ThreadExit, PoolTypeOK
      <3>2. Extra(t)' = 0
        BY <3>1 DEF Extra, Alive
      <3>3. \A u \in Thread : Extra(u)' <= Extra(u)
        BY <1>1, <1>3, <1>4, <2>3, <3>2
      <3>4. CASE t \in free
        <4>1. Extra(t) >= 1 /\ Extra(t)' < Extra(t)
          BY <1>1, <2>3, <3>2, <3>4
        <4>2. Cardinality(ExtraTurns') + 1 <= Cardinality(ExtraTurns)
          BY <3>3, <4>1, OneTurnLess
        <4>3. Cardinality(free') = Cardinality(free) - 1
          BY <3>1, <3>4, FiniteThreads, FS_RemoveElement DEF PoolTypeOK
        <4>4. QED BY <2>1, <3>1, <4>2, <4>3, CountTypes, CountTypesNext
      <3>5. CASE t \notin free
        <4>1. Cardinality(free') = Cardinality(free)
          <5>1. free' = free
            BY <3>1, <3>5
          <5>2. QED BY <5>1, Zenon
        <4>2. Cardinality(ExtraTurns') <= Cardinality(ExtraTurns)
          BY <3>3, NoTurnMore
        <4>3. QED BY <2>1, <3>1, <4>1, <4>2, CountTypes, CountTypesNext
      <3>6. QED BY <3>4, <3>5
    <2>5. CASE ~MustExit
      <3>1. /\ toExit' = toExit /\ eaten' = eaten + 1 /\ pc'[t] = "suspended"
            /\ free' = free \cup {t}
        BY <1>1, <1>7, <2>5 DEF ThreadExit, PoolTypeOK
      <3>2. toExit = 0
        BY <2>5 DEF MustExit, PoolTypeOK
      <3>3. Extra(t)' = sem[t]
        BY <1>1, <3>1 DEF Extra, Turns, Alive
      <3>4. \A u \in Thread : Extra(u)' <= Extra(u)
        BY <1>1, <1>3, <1>4, <2>3, <3>3
      <3>5. CASE t \in free
        <4>1. Extra(t) >= 1 /\ Extra(t)' < Extra(t)
          BY <1>1, <2>3, <3>3, <3>5
        <4>2. Cardinality(ExtraTurns') + 1 <= Cardinality(ExtraTurns)
          BY <3>4, <4>1, OneTurnLess
        <4>3. Cardinality(free') = Cardinality(free)
          <5>1. free' = free
            BY <3>1, <3>5
          <5>2. QED BY <5>1, Zenon
        <4>4. QED BY <2>1, <3>1, <3>2, <4>2, <4>3, CountTypes, CountTypesNext
      <3>6. CASE t \notin free
        <4>1. Cardinality(free') = Cardinality(free) + 1
          BY <3>1, <3>6, FiniteThreads, FS_AddElement DEF PoolTypeOK
        <4>2. Cardinality(ExtraTurns') <= Cardinality(ExtraTurns)
          BY <3>4, NoTurnMore
        <4>3. QED BY <2>1, <3>1, <3>2, <4>1, <4>2, CountTypes, CountTypesNext
      <3>7. QED BY <3>5, <3>6
    <2>6. QED BY <2>4, <2>5
  <1>8. QED BY <1>1, <1>5, <1>6, <1>7 DEF CoverInv

(* The other steps of a thread. *)
LEMMA CoverThreadProc ==
  ASSUME PoolTypeOK, PoolTypeOK', SetsInv, CoverInv, NEW t \in Thread, ThreadProc(t)
  PROVE  CoverInv'
  <1>1. CASE ThreadExit(t)
    BY <1>1, CoverThreadExit
  <1>2. CASE ~ThreadExit(t)
    <2>1. RunTask(t) \/ NoTask(t) \/ TaskReturns(t) \/ WakeUp(t)
      BY <1>2 DEF ThreadProc
    <2>2. UNCHANGED << deleteAfterExit, active, free, toExit, eaten, shutdown, killed, forgiven >>
      BY <2>1 DEF RunTask, NoTask, TaskReturns, WakeUp, countVars, ghosts
    <2>3. /\ \A u \in Thread : u # t => pc'[u] = pc[u] /\ sem'[u] = sem[u]
          /\ pc[t] \in {"head", "task", "suspended"} /\ pc'[t] \in {"head", "task", "exit"}
          /\ sem'[t] = IF pc[t] = "suspended" THEN sem[t] - 1 ELSE sem[t]
          /\ sem[t] \in Nat
      BY <2>1, PoolAssumption DEF RunTask, NoTask, TaskReturns, WakeUp, PoolTypeOK
    <2>4. Turns(t)' = Turns(t)
      BY <2>3 DEF Turns
    <2>5. \A u \in Thread : Extra(u)' = Extra(u)
      BY <2>2, <2>3, <2>4 DEF Extra, Turns, Alive
    <2>6. \A u \in Unborn' : sem'[u] = 0
      BY <2>3 DEF CoverInv, Unborn
    <2>7. ExtraTurns' = ExtraTurns
      BY <2>5 DEF ExtraTurns
    <2>8. QED BY <2>2, <2>6, <2>7, Zenon DEF CoverInv
  <1>3. QED BY <1>1, <1>2

(* A task for a free thread: the turn it now has coming is the one that     *)
(* brings it back into the free set.                                        *)
LEMMA CoverExecuteTask ==
  ASSUME PoolTypeOK, PoolTypeOK', SetsInv, CoverInv, NEW k \in Task, ExecuteTask(k)
  PROVE  CoverInv'
  <1>1. PICK t \in IF free # {} THEN free ELSE Started(1) :
          IF free # {}
            THEN free' = FreeWithout(t) /\ sem' = Resumed({t}) /\ UNCHANGED pc
            ELSE pc' = [pc EXCEPT ![t] = "head"] /\ UNCHANGED << free, sem >>
    BY DEF ExecuteTask
  <1>2. /\ eaten' = eaten - 1
        /\ UNCHANGED << toExit, shutdown, killed, forgiven >>
    BY DEF ExecuteTask, ghosts
  <1>3. \A u \in Thread : Extra(u) \in Int /\ sem[u] \in Nat
    BY ExtraRange, PoolAssumption DEF PoolTypeOK
  <1>4. CASE free # {}
    <2>1. t \in free /\ t \in Thread /\ t \in Alive /\ free' = free \ {t} /\ pc' = pc
      BY <1>1, <1>4 DEF FreeWithout, PoolTypeOK, SetsInv, SetsAlive
    <2>2. \A u \in Thread : sem'[u] <= (IF u = t THEN sem[u] + 1 ELSE sem[u])
                            /\ (u # t => sem'[u] = sem[u]) /\ sem'[u] \in Nat
      BY <1>1, <1>3, <1>4 DEF Resumed
    <2>3. \A u \in Thread : Extra(u)' <= Extra(u)
      BY <1>3, <2>1, <2>2 DEF Extra, Turns, Alive
    <2>4. Cardinality(ExtraTurns') <= Cardinality(ExtraTurns)
      BY <2>3, NoTurnMore
    <2>5. Cardinality(free') = Cardinality(free) - 1
      BY <2>1, FiniteThreads, FS_RemoveElement DEF PoolTypeOK
    <2>6. \A u \in Unborn' : sem'[u] = 0
      BY <2>1, <2>2 DEF CoverInv, Unborn, Alive
    <2>7. QED
      BY <1>2, <2>4, <2>5, <2>6, CountTypes, CountTypesNext DEF CoverInv
  <1>5. CASE free = {}
    <2>1. /\ t \in Unborn /\ t \in Thread /\ sem[t] = 0
          /\ pc' = [pc EXCEPT ![t] = "head"] /\ free' = free /\ sem' = sem
      BY <1>1, <1>5 DEF Started, Unborn, CoverInv
    <2>2. \A u \in Thread : Extra(u)' <= Extra(u)
      <3>1. Extra(t)' = 0 /\ Extra(t) = 0
        BY <1>5, <2>1 DEF Extra, Turns, Alive, Unborn, PoolTypeOK
      <3>2. \A u \in Thread : u # t => Extra(u)' = Extra(u)
        BY <2>1 DEF Extra, Turns, Alive
      <3>3. QED BY <1>3, <3>1, <3>2
    <2>3. Cardinality(ExtraTurns') <= Cardinality(ExtraTurns)
      BY <2>2, NoTurnMore
    <2>4. Cardinality(free') = Cardinality(free)
      BY <2>1, Zenon
    <2>5. \A u \in Unborn' : sem'[u] = 0
      BY <2>1 DEF CoverInv, Unborn, PoolTypeOK
    <2>6. QED
      BY <1>2, <2>3, <2>4, <2>5, CountTypes, CountTypesNext DEF CoverInv
  <1>6. QED BY <1>4, <1>5

(* New threads have no turn but the one that makes them free. *)
LEMMA CoverSpawn ==
  ASSUME PoolTypeOK, PoolTypeOK', SetsInv, CoverInv, NEW n, Spawn(n)
  PROVE  /\ Cardinality(ExtraTurns') <= Cardinality(ExtraTurns)
         /\ Cardinality(free') = Cardinality(free)
         /\ \A u \in Unborn' : sem'[u] = 0
  <1>1. /\ pc' = [t \in Thread |-> IF t \in Started(n) THEN "head" ELSE pc[t]]
        /\ Started(n) \subseteq Unborn /\ sem' = sem /\ free' = free
    BY DEF Spawn, Started
  <1>2. \A u \in Thread : Extra(u)' <= Extra(u)
    <2> TAKE u \in Thread
    <2>1. Extra(u) \in Int
      BY ExtraRange
    <2>2. CASE u \in Started(n)
      <3>1. pc[u] = "unborn" /\ pc'[u] = "head" /\ sem[u] = 0 /\ u \notin free
        BY <1>1, <2>2 DEF Unborn, CoverInv, SetsInv, SetsAlive, Alive
      <3>2. QED BY <1>1, <3>1 DEF Extra, Turns, Alive
    <2>3. CASE u \notin Started(n)
      <3>1. Extra(u)' = Extra(u)
        BY <1>1, <2>3 DEF Extra, Turns, Alive
      <3>2. QED BY <2>1, <3>1
    <2>4. QED BY <2>2, <2>3
  <1>3. Cardinality(free') = Cardinality(free)
    BY <1>1, Zenon
  <1>4. \A u \in Unborn' : sem'[u] = 0
    BY <1>1 DEF Unborn, CoverInv
  <1>5. QED BY <1>2, <1>3, <1>4, NoTurnMore

(* The threads to kill are all found, and each has a turn more.             *)
LEMMA CoverKillExcess ==
  ASSUME PoolTypeOK, PoolTypeOK', SetsInv, CoverInv, KillExcess, shutdown = "no",
         UNCHANGED shutdown
  PROVE  CoverInv'
  <1>1. PICK ts \in Victims(eaten - Reserve) :
          Kill(ts) /\ sem' = Resumed(ts) /\ toExit' = toExit + Cardinality(ts)
    BY DEF KillExcess
  <1>2. /\ eaten' = Reserve /\ killed' = TRUE /\ eaten > Reserve
        /\ UNCHANGED << pc, free, forgiven >>
    BY DEF KillExcess
  <1>3. ts \subseteq free /\ ts \in SUBSET Thread
    BY <1>1 DEF Victims, PoolTypeOK
  <1>4. \A u \in Thread : sem[u] \in Nat /\ Extra(u) \in Int
    BY ExtraRange, PoolAssumption DEF PoolTypeOK
  <1>5. \A u \in Thread : IF u \in ts THEN sem'[u] <= sem[u] + 1 /\ sem'[u] \in Nat
                                      ELSE sem'[u] = sem[u]
    BY <1>1, <1>4 DEF Resumed
  <1>6. \A u \in Unborn' : sem'[u] = 0
    BY <1>2, <1>3, <1>5 DEF CoverInv, Unborn, SetsInv, SetsAlive, Alive
  <1>7. /\ \A u \in Thread \ ts : Extra(u)' <= Extra(u)
        /\ \A u \in ts : Extra(u)' <= Extra(u) + 1
    BY <1>2, <1>3, <1>4, <1>5 DEF Extra, Turns, Alive
  <1>8. Cardinality(ExtraTurns') <= Cardinality(ExtraTurns) + Cardinality(ts)
    BY <1>3, <1>7, OneTurnEach
  <1>9. Cardinality(free') = Cardinality(free)
    BY <1>2, Zenon
  <1>10. ASSUME ~forgiven
         PROVE  /\ eaten' + toExit' <= Cardinality(free')
                /\ eaten' + Cardinality(ExtraTurns') <= Cardinality(free')
    <2>1. /\ eaten + toExit <= Cardinality(free)
          /\ eaten + Cardinality(ExtraTurns) <= Cardinality(free)
      BY <1>10 DEF CoverInv
    <2>2. Cardinality(ts) = eaten - Reserve
      BY <1>1, <1>2, <2>1, CountTypes DEF Victims
    <2>3. QED
      BY <1>1, <1>2, <1>8, <1>9, <2>1, <2>2, CountTypes, CountTypesNext
  <1>11. QED BY <1>2, <1>6, <1>10 DEF CoverInv

LEMMA CoverIntegrityCheck ==
  ASSUME PoolTypeOK, PoolTypeOK', SetsInv, BusyInv, CoverInv, IntegrityCheck
  PROVE  CoverInv'
  <1>1. shutdown = "no" /\ shutdown' = "no"
    BY DEF IntegrityCheck
  <1>2. CASE SpawnEaten
    <2>1. /\ Spawn(Reserve - eaten) /\ eaten' = 0 /\ forgiven' = (forgiven \/ killed)
          /\ UNCHANGED << toExit, killed >>
      BY <1>2 DEF SpawnEaten, Spawn
    <2>2. /\ Cardinality(ExtraTurns') <= Cardinality(ExtraTurns)
          /\ Cardinality(free') = Cardinality(free)
          /\ \A u \in Unborn' : sem'[u] = 0
      BY <2>1, CoverSpawn
    <2>3. ~killed => toExit = 0 /\ Cardinality(ExtraTurns) = 0
      BY <1>1, NoExtraUnlessKilled DEF CoverInv
    <2>4. ~forgiven' => ~killed
      BY <2>1, Zenon
    <2>5. ASSUME ~forgiven'
          PROVE  /\ eaten' + toExit' <= Cardinality(free')
                 /\ eaten' + Cardinality(ExtraTurns') <= Cardinality(free')
      <3>1. toExit' = 0 /\ eaten' = 0 /\ Cardinality(ExtraTurns) = 0
        BY <2>1, <2>3, <2>4, <2>5
      <3>2. QED BY <2>2, <3>1, CountTypes, CountTypesNext
    <2>6. ~killed' /\ shutdown' = "no" => toExit' = 0
      BY <2>1, <2>3
    <2>7. QED BY <2>2, <2>5, <2>6, Zenon DEF CoverInv
  <1>3. CASE SpawnReserve
    <2>1. /\ Spawn(Reserve - eaten) /\ UNCHANGED << eaten, toExit, killed, forgiven >>
      BY <1>3 DEF SpawnReserve, Spawn
    <2>2. /\ Cardinality(ExtraTurns') <= Cardinality(ExtraTurns)
          /\ Cardinality(free') = Cardinality(free)
          /\ \A u \in Unborn' : sem'[u] = 0
      BY <2>1, CoverSpawn
    <2>3. QED
      BY <1>1, <2>1, <2>2, CountTypes, CountTypesNext DEF CoverInv
  <1>4. CASE KillExcess
    BY <1>1, <1>4, CoverKillExcess
  <1>5. QED BY <1>2, <1>3, <1>4 DEF IntegrityCheck

LEMMA CoverShutdown ==
  ASSUME PoolTypeOK, SetsInv, CoverInv, Shutdown \/ ShutdownWait
  PROVE  CoverInv'
  <1>1. shutdown' # "no"
    BY DEF Shutdown, ShutdownWait
  <1>2. pc' = pc /\ \E ts \in SUBSET Alive : sem' = Resumed(ts) \/ sem' = sem
    <2>1. /\ pc' = pc
          /\ sem' = Resumed(free \cup Untasked) \/ sem' = Resumed(free) \/ sem' = sem
      BY DEF Shutdown, ShutdownWait, threadVars
    <2>2. free \cup Untasked \in SUBSET Alive /\ free \in SUBSET Alive
      BY DEF SetsInv, SetsAlive, Untasked
    <2>3. QED BY <2>1, <2>2
  <1>3. \A u \in Unborn' : sem'[u] = 0
    BY <1>2 DEF CoverInv, Unborn, Alive, Resumed
  <1>4. QED BY <1>1, <1>3 DEF CoverInv

LEMMA CoverStep ==
  ASSUME PoolTypeOK, PoolTypeOK', SetsInv, BusyInv, CoverInv, [PoolNext]_poolVars
  PROVE  CoverInv'
  <1>1. CASE UNCHANGED poolVars
    <2>1. UNCHANGED << pc, sem, free, toExit, eaten, shutdown, killed, forgiven >>
      BY <1>1 DEF poolVars, threadVars, countVars, ghosts
    <2>2. ExtraTurns' = ExtraTurns
      BY <2>1 DEF ExtraTurns, Extra, Turns, Alive
    <2>3. Unborn' = Unborn
      BY <2>1 DEF Unborn
    <2>4. QED BY <2>1, <2>2, <2>3, Zenon DEF CoverInv
  <1>2. CASE PoolNext
    BY <1>2, CoverThreadProc, CoverExecuteTask, CoverIntegrityCheck, CoverShutdown DEF PoolNext
  <1>3. QED BY <1>1, <1>2

(* IntegrityCheck finds all the threads it wants to kill: it never counts   *)
(* more spare threads than are in the free set, unless it has written off   *)
(* threads it had killed before.                                            *)
THEOREM EatenStaysCovered == PoolSpec => []EatenIsCovered
  <1>1. PoolTypeOK /\ SetsInv /\ [PoolNext]_poolVars => SetsInv'
    BY SetsStep
  <1>2. PoolTypeOK /\ SetsInv /\ BusyInv /\ [PoolNext]_poolVars => BusyInv'
    BY BusyStep
  <1>3. PoolTypeOK /\ PoolTypeOK' /\ SetsInv /\ BusyInv /\ CoverInv /\ [PoolNext]_poolVars
          => CoverInv'
    BY CoverStep
  <1>4. PoolTypeOK /\ CoverInv => EatenIsCovered
    BY CountTypes DEF CoverInv, EatenIsCovered
  <1>5. QED
    BY <1>1, <1>2, <1>3, <1>4, SetsStart, BusyStart, CoverStart, PoolTypeCorrect, PTL
       DEF PoolSpec
===============================================================================

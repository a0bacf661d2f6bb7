---------------------------- MODULE SqlQueuesProofs ----------------------------
(***************************************************************************)
(* Theorems about SqlQueues, for any number of database threads and of     *)
(* queries: the types, the order of the queries and the holders of the     *)
(* mutexes.  Only NoneServed rests on the flag, which keeps DoWork from     *)
(* serving: the others would hold if it served.                            *)
(***************************************************************************)
EXTENDS SqlQueues, SequenceTheorems, TLAPS

ScriptState == {"script", "start", "inStart", "add", "inAdd",
                "end", "inEnd", "swap", "swapping", "swapped"}
MysqlState == {"none", "doWork", "inSize"}

(* A mutex is held at least once or not at all. *)
Held(q) == q.owner = NoOne <=> q.count = 0

(* The types, with what keeps the counts of the mutexes and of the queries  *)
(* in their ranges.                                                         *)
SqlTypeInv ==
  /\ SqlTypeOK
  /\ Held(querysin) /\ Held(tquerys) /\ Held(tmp)
  /\ pc[Script] \in ScriptState
  /\ \A t \in Mysql : pc[t] \in MysqlState
  /\ pc[Script] \in {"add", "inAdd"} => nAdded < MaxQueries

-------------------------------------------------------------------------------
(* What the operations on a mutex keep. *)

LEMMA QueueRecord ==
  ASSUME NEW s \in Seq(1 .. MaxQueries), NEW o \in Thread \cup {NoOne}, NEW n \in Nat
  PROVE  [queries |-> s, owner |-> o, count |-> n] \in Queue
  BY DEF Queue

LEMMA QueueParts ==
  ASSUME NEW q \in Queue
  PROVE  /\ q = [queries |-> q.queries, owner |-> q.owner, count |-> q.count]
         /\ q.queries \in Seq(1 .. MaxQueries)
         /\ q.owner \in Thread \cup {NoOne}
         /\ q.count \in Nat
  BY DEF Queue

LEMMA AcquireKeeps ==
  ASSUME NEW q \in Queue, Held(q), NEW t \in Thread
  PROVE  /\ Acquire(q, t) \in Queue /\ Held(Acquire(q, t))
         /\ Acquire(q, t).queries = q.queries /\ Acquire(q, t).owner = t
         /\ Acquire(q, t).count = q.count + 1
<1>1. Acquire(q, t) = [queries |-> q.queries, owner |-> t, count |-> q.count + 1]
  <2>1. PICK r : r = [q EXCEPT !.owner = t]
    OBVIOUS
  <2>2. r = [queries |-> q.queries, owner |-> t, count |-> q.count]
    BY <2>1, QueueParts
  <2>3. Acquire(q, t) = [r EXCEPT !.count = @ + 1]
    BY <2>1, QueueParts DEF Acquire
  <2> QED
    BY <2>2, <2>3
<1>2. q.queries \in Seq(1 .. MaxQueries) /\ q.count + 1 \in Nat /\ q.count + 1 >= 1
  BY QueueParts
<1> QED
  BY <1>1, <1>2, QueueRecord, SqlAssumption DEF Held, Thread

LEMMA ReleaseKeeps ==
  ASSUME NEW q \in Queue, Held(q), NEW t \in Thread
  PROVE  /\ Release(q, t) \in Queue /\ Held(Release(q, t))
         /\ Release(q, t).queries = q.queries
         /\ q.owner # t => Release(q, t) = q
         /\ q.owner = t /\ q.count = 1 => Release(q, t).owner = NoOne
<1>0. NoOne \notin Thread
  BY SqlAssumption DEF Thread
<1>1. CASE q.owner # t
  BY <1>1 DEF Release
<1>2. CASE q.owner = t
  <2>1. q.count \in Nat /\ q.count >= 1 /\ q.queries \in Seq(1 .. MaxQueries)
    BY <1>0, <1>2, QueueParts DEF Held
  <2>2. Release(q, t) = [queries |-> q.queries,
                         owner |-> IF q.count = 1 THEN NoOne ELSE t, count |-> q.count - 1]
    BY <1>2, QueueParts DEF Release, Queue
  <2>3. q.count - 1 \in Nat /\ (q.count # 1 => q.count - 1 >= 1)
    BY <2>1
  <2> QED
    BY <1>0, <1>2, <2>1, <2>2, <2>3, QueueRecord DEF Held
<1> QED
  BY <1>1, <1>2

LEMMA PushKeeps ==
  ASSUME NEW q \in Queue, Held(q), nAdded \in Nat, nAdded < MaxQueries
  PROVE  /\ Push(q) \in Queue /\ Held(Push(q))
         /\ Push(q).queries = Append(q.queries, nAdded + 1)
         /\ q.owner # Script => Push(q).owner = q.owner
         /\ q.owner = Script /\ q.count = 1 => Push(q).owner = NoOne
<1> DEFINE r == [q EXCEPT !.queries = Append(@, nAdded + 1)]
<1>1. nAdded + 1 \in 1 .. MaxQueries
  BY SqlAssumption
<1>2. r \in Queue /\ Held(r) /\ r.owner = q.owner /\ r.count = q.count
      /\ r.queries = Append(q.queries, nAdded + 1)
  <2>1. Append(q.queries, nAdded + 1) \in Seq(1 .. MaxQueries)
    BY <1>1, QueueParts
  <2>2. r = [queries |-> Append(q.queries, nAdded + 1), owner |-> q.owner, count |-> q.count]
    BY QueueParts DEF Queue
  <2>3. q.owner \in Thread \cup {NoOne} /\ q.count \in Nat
    BY QueueParts
  <2> HIDE DEF r
  <2>4. r \in Queue
    BY <2>1, <2>2, <2>3, QueueRecord
  <2> QED
    BY <2>2, <2>4 DEF Held
<1>3. Script \in Thread
  BY DEF Thread
<1>4. Push(q) = Release(r, Script)
  BY DEF Push
<1> HIDE DEF r
<1> QED
  BY <1>2, <1>3, <1>4, ReleaseKeeps

LEMMA EmptyIsQueue == EmptyQueue \in Queue /\ Held(EmptyQueue)
  BY DEF EmptyQueue, Queue, Held

-------------------------------------------------------------------------------
LEMMA SqlTypeInit == SqlInit => SqlTypeInv
<1> SUFFICES ASSUME SqlInit PROVE SqlTypeInv
  OBVIOUS
<1>1. /\ pc[Script] = "script" /\ \A t \in Mysql : pc[t] = "none"
      /\ pc \in [Thread -> {"script", "none"}]
  BY SqlAssumption DEF SqlInit, Thread
<1>2. /\ querysin \in Queue /\ tquerys \in Queue /\ tmp \in Queue
      /\ Held(querysin) /\ Held(tquerys) /\ Held(tmp)
  BY EmptyIsQueue DEF SqlInit
<1>3. SqlTypeOK
  <2>1. pc \in [Thread -> {"none", "doWork", "inSize", "script", "start", "inStart", "add", "inAdd",
                           "end", "inEnd", "swap", "swapping", "swapped"}]
    BY <1>1
  <2>2. nAdded \in 0 .. MaxQueries /\ nServed \in Nat
    BY SqlAssumption DEF SqlInit
  <2>3. registered \in BOOLEAN /\ dbinitflag \in BOOLEAN /\ copied \in BOOLEAN
    BY DEF SqlInit
  <2> QED
    BY <1>2, <2>1, <2>2, <2>3 DEF SqlTypeOK
<1> QED
  BY <1>1, <1>2, <1>3 DEF SqlTypeInv, ScriptState, MysqlState

LEMMA SqlTypeStep ==
  ASSUME SqlTypeInv, [SqlNext]_sqlVars
  PROVE  SqlTypeInv'
<1> USE DEF SqlTypeInv, SqlTypeOK
<1>0. Script \in Thread /\ Mysql \subseteq Thread /\ Script \notin Mysql
  BY SqlAssumption DEF Thread
<1>1. ASSUME NEW connected \in BOOLEAN, RegisterModule(connected)
      PROVE  SqlTypeInv'
  BY <1>1 DEF RegisterModule, FlagOf, Queue, Held
<1>2. ASSUME StartModule
      PROVE  SqlTypeInv'
  <2>1. PICK started \in SUBSET {t \in Mysql : pc[t] = "none"} :
               pc' = [t \in Thread |-> IF t \in started THEN "doWork" ELSE pc[t]]
    BY <1>2 DEF StartModule
  <2>2. /\ pc'[Script] = pc[Script]
        /\ \A t \in Mysql : pc'[t] \in MysqlState
    BY <1>0, <2>1 DEF ScriptState, MysqlState
  <2>3. UNCHANGED << registered, dbinitflag, querysin, tquerys, tmp, nAdded, nServed, copied >>
    BY <1>2 DEF StartModule
  <2> QED
    BY <1>0, <2>1, <2>2, <2>3 DEF Queue, Held
<1>3. ASSUME NEW t \in Mysql, DoWorkAcquires(t)
      PROVE  SqlTypeInv'
  <2>1. querysin' \in Queue /\ Held(querysin)'
    BY <1>0, <1>3, AcquireKeeps DEF DoWorkAcquires
  <2> QED
    BY <1>0, <1>3, <2>1 DEF DoWorkAcquires, Go, ScriptState, MysqlState, Queue, Held
<1>4. ASSUME NEW t \in Mysql, DoWork(t)
      PROVE  SqlTypeInv'
  <2> DEFINE q == AfterSize(querysin, t)
  <2>1. q \in Queue /\ Held(q)
    BY <1>0, ReleaseKeeps DEF AfterSize
  <2>2. querysin' = q \/ (q.queries # << >> /\ querysin' = [q EXCEPT !.queries = Tail(@)])
    BY <1>4 DEF DoWork
  <2>3. nServed' \in Nat
    BY <1>4 DEF DoWork
  <2> HIDE DEF q
  <2>4. q.queries # << >> => Tail(q.queries) \in Seq(1 .. MaxQueries)
    BY <2>1 DEF Queue
  <2>5. querysin' \in Queue /\ Held(querysin)'
    BY <2>1, <2>2, <2>4 DEF Queue, Held
  <2> QED
    BY <1>0, <1>4, <2>3, <2>5 DEF DoWork, Go, ScriptState, MysqlState, Queue, Held
<1>5. ASSUME StartSqlQueue \/ AddSqlQueue \/ EndSqlQueue
      PROVE  SqlTypeInv'
  BY <1>0, <1>5
  DEF StartSqlQueue, AddSqlQueue, EndSqlQueue, Calls, At, Go, ScriptState, MysqlState, Queue, Held
<1>6. ASSUME LockTquerys
      PROVE  SqlTypeInv'
  <2>1. tquerys' \in Queue /\ Held(tquerys)'
    BY <1>0, <1>6, AcquireKeeps DEF LockTquerys
  <2> QED
    BY <1>0, <1>6, <2>1 DEF LockTquerys, At, Go, ScriptState, MysqlState, Queue, Held
<1>7. ASSUME StartReturns
      PROVE  SqlTypeInv'
  <2>1. tquerys' \in Queue /\ Held(tquerys)'
    BY <1>0, <1>7, ReleaseKeeps DEF StartReturns, AfterSize
  <2> QED
    BY <1>0, <1>7, <2>1 DEF StartReturns, At, Go, ScriptState, MysqlState, Queue, Held
<1>8. ASSUME AddReturns
      PROVE  SqlTypeInv'
  <2>1. nAdded < MaxQueries
    BY <1>8 DEF AddReturns, At
  <2>2. tquerys' \in Queue /\ Held(tquerys)'
    BY <1>8, <2>1, PushKeeps DEF AddReturns
  <2>3. nAdded' \in 0 .. MaxQueries
    BY <1>8, <2>1, SqlAssumption DEF AddReturns
  <2> QED
    BY <1>0, <1>8, <2>2, <2>3 DEF AddReturns, At, Go, ScriptState, MysqlState, Queue, Held
<1>9. ASSUME LockQuerysin
      PROVE  SqlTypeInv'
  <2>1. querysin' \in Queue /\ Held(querysin)'
    BY <1>0, <1>9, AcquireKeeps DEF LockQuerysin
  <2> QED
    BY <1>0, <1>9, <2>1 DEF LockQuerysin, At, Go, ScriptState, MysqlState, Queue, Held
<1>10. ASSUME EndReadsSize
       PROVE  SqlTypeInv'
  <2>1. querysin' \in Queue /\ Held(querysin)'
    BY <1>0, <1>10, ReleaseKeeps DEF EndReadsSize, AfterSize
  <2> QED
    BY <1>0, <1>10, <2>1 DEF EndReadsSize, At, Go, ScriptState, MysqlState, Queue, Held
<1>11. ASSUME SwapCopies \/ SwapAssigns \/ SwapEnds
       PROVE  SqlTypeInv'
  BY <1>0, <1>11, EmptyIsQueue
  DEF SwapCopies, SwapAssigns, SwapEnds, At, Go, ScriptState, MysqlState, Held
<1>12. ASSUME UNCHANGED sqlVars
       PROVE  SqlTypeInv'
  BY <1>12 DEF sqlVars, Queue, Held
<1> QED
  BY <1>1, <1>2, <1>3, <1>4, <1>5, <1>6, <1>7, <1>8, <1>9, <1>10, <1>11, <1>12
  DEF SqlNext, ScriptSteps

(* Every variable keeps its type; in particular the count of a mutex never  *)
(* falls below zero, whichever copies of mutexes a swap makes.              *)
THEOREM SqlTypeCorrect == SqlSpec => []SqlTypeOK
<1>1. SqlInit => SqlTypeInv
  BY SqlTypeInit
<1>2. SqlTypeInv /\ [SqlNext]_sqlVars => SqlTypeInv'
  BY SqlTypeStep
<1>3. SqlTypeInv => SqlTypeOK
  BY DEF SqlTypeInv
<1> QED
  BY <1>1, <1>2, <1>3, PTL DEF SqlSpec

-------------------------------------------------------------------------------
(* Who holds a mutex.  Until a swap copies one that is held, a thread that  *)
(* holds one holds it once, and gives it back at the end of the call.       *)
HoldInv ==
  ~copied =>
    /\ querysin.owner \in Mysql => At(querysin.owner, "inSize") /\ querysin.count = 1
    /\ querysin.owner = Script => At(Script, "inEnd") /\ querysin.count = 1
    /\ tquerys.owner = Script => pc[Script] \in {"inStart", "inAdd"} /\ tquerys.count = 1
    /\ tquerys.owner \notin Mysql
    /\ pc[Script] \in {"swapping", "swapped"} => tmp.owner = NoOne

LEMMA HoldInit == SqlInit => HoldInv
  BY SqlAssumption DEF SqlInit, HoldInv, EmptyQueue

LEMMA HoldStep ==
  ASSUME SqlTypeInv, HoldInv, [SqlNext]_sqlVars
  PROVE  HoldInv'
<1> SUFFICES ASSUME ~copied'
             PROVE  HoldInv'
  BY DEF HoldInv
<1>0. /\ Script \in Thread /\ Mysql \subseteq Thread /\ Script \notin Mysql /\ NoOne \notin Thread
      /\ querysin \in Queue /\ tquerys \in Queue /\ tmp \in Queue
      /\ Held(querysin) /\ Held(tquerys) /\ Held(tmp)
      /\ pc \in [Thread -> MysqlState \cup ScriptState] /\ pc[Script] \in ScriptState
      /\ \A t \in Mysql : pc[t] \in MysqlState
      /\ querysin.owner \in Thread \cup {NoOne} /\ tquerys.owner \in Thread \cup {NoOne}
      /\ querysin.count \in Nat /\ tquerys.count \in Nat /\ nAdded \in Nat
  BY SqlAssumption, QueueParts DEF Thread, SqlTypeInv, SqlTypeOK, MysqlState, ScriptState
<1>1. ASSUME NEW connected \in BOOLEAN, RegisterModule(connected)
      PROVE  HoldInv'
  BY <1>1 DEF RegisterModule, HoldInv, At
<1>2. ASSUME StartModule
      PROVE  HoldInv'
  <2>1. /\ UNCHANGED << querysin, tquerys, tmp, copied >>
        /\ \A t \in Thread : pc[t] # "none" => pc'[t] = pc[t]
    BY <1>2 DEF StartModule
  <2> QED
    BY <1>0, <2>1 DEF HoldInv, At, ScriptState
<1>3. ASSUME NEW t \in Mysql, DoWorkAcquires(t)
      PROVE  HoldInv'
  <2>1. /\ UNCHANGED << tquerys, tmp, copied >> /\ querysin' = Acquire(querysin, t)
        /\ pc[t] = "doWork" /\ querysin.owner \in {NoOne, t} /\ pc' = [pc EXCEPT ![t] = "inSize"]
    BY <1>3 DEF DoWorkAcquires, At, Go, FreeFor
  <2>0. t \in Thread /\ t # Script
    BY <1>0
  <2>2. querysin.owner = NoOne /\ querysin.count = 0
    BY <1>0, <2>1 DEF HoldInv, At, Held
  <2>3. querysin'.owner = t /\ querysin'.count = 1
    <3>1. Acquire(querysin, t).owner = t /\ Acquire(querysin, t).count = querysin.count + 1
      BY <1>0, <2>0, AcquireKeeps
    <3> QED
      BY <2>1, <2>2, <3>1
  <2>4. pc'[t] = "inSize" /\ pc'[Script] = pc[Script]
    BY <1>0, <2>0, <2>1
  <2> QED
    BY <1>0, <2>0, <2>1, <2>3, <2>4 DEF HoldInv, At
<1>4. ASSUME NEW t \in Mysql, DoWork(t)
      PROVE  HoldInv'
  <2> DEFINE q == Release(querysin, t)
  <2>1. /\ UNCHANGED << tquerys, tmp, copied >> /\ pc[t] = "inSize" /\ pc' = [pc EXCEPT ![t] = "doWork"]
        /\ querysin' = q \/ querysin' = [q EXCEPT !.queries = Tail(@)]
    BY <1>4 DEF DoWork, At, Go, AfterSize
  <2>2. /\ q \in Queue
        /\ querysin.owner # t => q = querysin
        /\ querysin.owner = t => q.owner = NoOne
    BY <1>0, <2>1, ReleaseKeeps DEF HoldInv, At
  <2> HIDE DEF q
  <2>3. querysin'.owner = q.owner /\ querysin'.count = q.count
    BY <2>1, <2>2, QueueParts DEF Queue
  <2>4. querysin'.owner # t
    BY <1>0, <2>2, <2>3
  <2>5. CASE querysin.owner = t
    BY <1>0, <2>1, <2>2, <2>3, <2>5 DEF HoldInv, At
  <2>6. CASE querysin.owner # t
    BY <1>0, <2>1, <2>2, <2>3, <2>6 DEF HoldInv, At
  <2> QED
    BY <2>5, <2>6
<1>5. ASSUME StartSqlQueue \/ AddSqlQueue \/ EndSqlQueue
      PROVE  HoldInv'
  <2>1. /\ UNCHANGED << querysin, tquerys, tmp, copied >> /\ pc[Script] = "script"
        /\ pc' \in {[pc EXCEPT ![Script] = where] : where \in {"start", "add", "end"}}
    BY <1>5 DEF StartSqlQueue, AddSqlQueue, EndSqlQueue, Calls, At, Go
  <2> QED
    BY <1>0, <2>1 DEF HoldInv, At
<1>6. ASSUME LockTquerys
      PROVE  HoldInv'
  <2>1. /\ UNCHANGED << querysin, tmp, copied >> /\ tquerys' = Acquire(tquerys, Script)
        /\ pc[Script] \in {"start", "add"} /\ tquerys.owner \in {NoOne, Script}
        /\ pc' \in {[pc EXCEPT ![Script] = where] : where \in {"inStart", "inAdd"}}
    BY <1>6 DEF LockTquerys, At, Go, FreeFor
  <2>2. tquerys.owner = NoOne /\ tquerys.count = 0
    BY <1>0, <2>1 DEF HoldInv, At, Held
  <2> QED
    BY <1>0, <2>1, <2>2, AcquireKeeps DEF HoldInv, At
<1>7. ASSUME StartReturns
      PROVE  HoldInv'
  <2>1. /\ UNCHANGED << querysin, tmp, copied >> /\ tquerys' = Release(tquerys, Script)
        /\ pc[Script] = "inStart" /\ pc' = [pc EXCEPT ![Script] = "script"]
    BY <1>7 DEF StartReturns, At, Go, AfterSize
  <2> QED
    BY <1>0, <2>1, ReleaseKeeps DEF HoldInv, At
<1>8. ASSUME AddReturns
      PROVE  HoldInv'
  <2>1. /\ UNCHANGED << querysin, tmp, copied >> /\ tquerys' = Push(tquerys)
        /\ pc[Script] = "inAdd" /\ pc' = [pc EXCEPT ![Script] = "script"]
    BY <1>8 DEF AddReturns, At, Go
  <2>2. nAdded < MaxQueries
    BY <2>1 DEF SqlTypeInv
  <2> QED
    BY <1>0, <2>1, <2>2, PushKeeps DEF HoldInv, At
<1>9. ASSUME LockQuerysin
      PROVE  HoldInv'
  <2>1. /\ UNCHANGED << tquerys, tmp, copied >> /\ querysin' = Acquire(querysin, Script)
        /\ pc[Script] = "end" /\ querysin.owner \in {NoOne, Script}
        /\ pc' = [pc EXCEPT ![Script] = "inEnd"]
    BY <1>9 DEF LockQuerysin, At, Go, FreeFor
  <2>2. querysin.owner = NoOne /\ querysin.count = 0
    BY <1>0, <2>1 DEF HoldInv, At, Held
  <2> QED
    BY <1>0, <2>1, <2>2, AcquireKeeps DEF HoldInv, At
<1>10. ASSUME EndReadsSize
       PROVE  HoldInv'
  <2>1. /\ UNCHANGED << tquerys, tmp, copied >> /\ querysin' = Release(querysin, Script)
        /\ pc[Script] = "inEnd"
        /\ pc' \in {[pc EXCEPT ![Script] = where] : where \in {"swap", "script"}}
    BY <1>10 DEF EndReadsSize, At, Go, AfterSize
  <2>2. querysin'.owner # Script
    BY <1>0, <2>1, ReleaseKeeps DEF HoldInv, At
  <2>3. querysin'.owner \in Mysql => querysin' = querysin
    BY <1>0, <2>1, ReleaseKeeps DEF HoldInv, At
  <2> QED
    BY <1>0, <2>1, <2>2, <2>3 DEF HoldInv, At
<1>11. ASSUME SwapCopies
       PROVE  HoldInv'
  <2>1. /\ UNCHANGED << querysin, tquerys >> /\ tmp' = querysin /\ querysin.owner = NoOne /\ ~copied
        /\ pc[Script] = "swap" /\ pc' = [pc EXCEPT ![Script] = "swapping"]
    BY <1>11 DEF SwapCopies, At, Go
  <2> QED
    BY <1>0, <2>1 DEF HoldInv, At
<1>12. ASSUME SwapAssigns
       PROVE  HoldInv'
  <2>1. /\ UNCHANGED << tquerys, tmp, copied >> /\ querysin' = tquerys
        /\ pc[Script] = "swapping" /\ pc' = [pc EXCEPT ![Script] = "swapped"]
    BY <1>12 DEF SwapAssigns, At, Go
  <2> QED
    BY <1>0, <2>1 DEF HoldInv, At
<1>13. ASSUME SwapEnds
       PROVE  HoldInv'
  <2>1. /\ UNCHANGED << querysin, copied >> /\ tquerys' = tmp
        /\ pc[Script] = "swapped" /\ pc' = [pc EXCEPT ![Script] = "script"]
    BY <1>13 DEF SwapEnds, At, Go
  <2> QED
    BY <1>0, <2>1 DEF HoldInv, At
<1>14. ASSUME UNCHANGED sqlVars
       PROVE  HoldInv'
  BY <1>14 DEF sqlVars, HoldInv, At
<1> QED
  BY <1>1, <1>2, <1>3, <1>4, <1>5, <1>6, <1>7, <1>8, <1>9, <1>10, <1>11, <1>12, <1>13, <1>14
  DEF SqlNext, ScriptSteps

(* A queue's mutex is held by a thread that is not in a call on that queue  *)
(* only after EndSqlQueue's swap has copied a mutex while it was held.      *)
THEOREM MutexesHeldInside == SqlSpec => []HeldOnlyInside
<1>1. SqlInit => SqlTypeInv /\ HoldInv
  BY SqlTypeInit, HoldInit
<1>2. SqlTypeInv /\ HoldInv /\ [SqlNext]_sqlVars => (SqlTypeInv /\ HoldInv)'
  BY SqlTypeStep, HoldStep
<1>3. HoldInv => HeldOnlyInside
  BY DEF HoldInv, HeldOnlyInside
<1> QED
  BY <1>1, <1>2, <1>3, PTL DEF SqlSpec

-------------------------------------------------------------------------------
(* The order of the queries.  While the swap is under way the batch is in   *)
(* _tquerys first, in both queues then, and only in _querysin at the end.   *)
Rest == [i \in 1 .. nAdded - nServed |-> nServed + i]

OrderInv ==
  /\ pc[Script] \in {"swap", "swapping"} => querysin.queries = << >>
  /\ pc[Script] \in {"swapping", "swapped"} => tmp.queries = << >>
  /\ pc[Script] # "swapped" => querysin.queries \o tquerys.queries = Rest
  /\ pc[Script] = "swapped" => querysin.queries = Rest
  /\ nServed <= nAdded

LEMMA EmptyConcat ==
  ASSUME NEW s \in Seq(1 .. MaxQueries)
  PROVE  s \o << >> = s /\ << >> \o s = s
  OBVIOUS

LEMMA Numbers ==
  ASSUME NEW s \in Seq(1 .. MaxQueries)
  PROVE  s \in Seq(Nat)
<1>1. 1 .. MaxQueries \subseteq Nat
  OBVIOUS
<1> QED
  BY <1>1, SeqMonotonic

LEMMA AppendConcat ==
  ASSUME NEW s \in Seq(1 .. MaxQueries), NEW r \in Seq(1 .. MaxQueries), NEW n \in Nat
  PROVE  s \o Append(r, n) = Append(s \o r, n)
<1>1. s \in Seq(Nat) /\ r \in Seq(Nat)
  BY Numbers
<1> QED
  BY <1>1

LEMMA TailConcat ==
  ASSUME NEW s \in Seq(1 .. MaxQueries), NEW r \in Seq(1 .. MaxQueries), s # << >>
  PROVE  Tail(s) \o r = Tail(s \o r)
  OBVIOUS

LEMMA RestNext ==
  ASSUME NEW n \in Nat, NEW k \in Nat, k <= n, NEW s \in Seq(Nat),
         s = [i \in 1 .. n - k |-> k + i]
  PROVE  /\ Append(s, n + 1) = [i \in 1 .. (n + 1) - k |-> k + i]
         /\ s # << >> => k < n /\ Tail(s) = [i \in 1 .. n - (k + 1) |-> (k + 1) + i]
<1>1. Len(s) = n - k
  <2>1. DOMAIN s = 1 .. n - k /\ n - k \in Nat
    OBVIOUS
  <2>2. DOMAIN s = 1 .. Len(s) /\ Len(s) \in Nat
    OBVIOUS
  <2> QED
    BY <2>1, <2>2
<1>2. Append(s, n + 1) = [i \in 1 .. (n + 1) - k |-> k + i]
  <2>1. Append(s, n + 1) = [i \in 1 .. Len(s) + 1 |-> IF i = Len(s) + 1 THEN n + 1 ELSE s[i]]
    OBVIOUS
  <2> QED
    BY <1>1, <2>1
<1>3. ASSUME s # << >>
      PROVE  k < n /\ Tail(s) = [i \in 1 .. n - (k + 1) |-> (k + 1) + i]
  <2>1. Len(s) # 0
    BY <1>3
  <2>2. Tail(s) = [i \in 1 .. Len(s) - 1 |-> s[i + 1]]
    BY <2>1
  <2>3. Len(s) - 1 = n - (k + 1) /\ k < n
    BY <1>1, <2>1
  <2>4. \A i \in 1 .. n - (k + 1) : s[i + 1] = (k + 1) + i
    <3>1. \A j \in 1 .. n - k : s[j] = k + j
      OBVIOUS
    <3>2. ASSUME NEW i \in 1 .. n - (k + 1)
          PROVE  i + 1 \in 1 .. n - k /\ k + (i + 1) = (k + 1) + i
      OBVIOUS
    <3> QED
      BY <3>1, <3>2
  <2>5. Tail(s) = [i \in 1 .. n - (k + 1) |-> s[i + 1]]
    BY <2>2, <2>3
  <2> QED
    BY <2>3, <2>4, <2>5
<1> QED
  BY <1>2, <1>3

LEMMA OrderInit == SqlInit => OrderInv
<1> SUFFICES ASSUME SqlInit PROVE OrderInv
  OBVIOUS
<1>1. pc[Script] = "script"
  BY DEF SqlInit, Thread
<1>2. querysin.queries = << >> /\ tquerys.queries = << >> /\ nAdded = 0 /\ nServed = 0
  BY DEF SqlInit, EmptyQueue
<1>3. Rest = << >>
  BY <1>2 DEF Rest
<1> QED
  BY <1>1, <1>2, <1>3 DEF OrderInv

LEMMA ServedKeeps ==
  ASSUME OrderInv, nAdded \in Nat, nServed \in Nat,
         querysin.queries \in Seq(1 .. MaxQueries), tquerys.queries \in Seq(1 .. MaxQueries),
         querysin.queries # << >>, querysin'.queries = Tail(querysin.queries),
         UNCHANGED << tquerys, tmp, nAdded >>, nServed' = nServed + 1, pc'[Script] = pc[Script]
  PROVE  OrderInv'
<1> DEFINE s == querysin.queries
           r == tquerys.queries
<1>1. pc[Script] \notin {"swap", "swapping"} /\ nServed <= nAdded
  BY DEF OrderInv
<1>2. ASSUME NEW u \in Seq(Nat), u # << >>, u = Rest
      PROVE  nServed' <= nAdded' /\ Tail(u) = Rest'
  <2>1. u = [i \in 1 .. nAdded - nServed |-> nServed + i]
    BY <1>2 DEF Rest
  <2>2. /\ nServed < nAdded
        /\ Tail(u) = [i \in 1 .. nAdded - (nServed + 1) |-> (nServed + 1) + i]
    BY <1>1, <1>2, <2>1, RestNext
  <2> QED
    BY <2>2 DEF Rest
<1>3. CASE pc[Script] = "swapped"
  <2>1. s \in Seq(Nat) /\ s = Rest
    BY <1>3, Numbers DEF OrderInv
  <2>2. nServed' <= nAdded' /\ Tail(s) = Rest'
    BY <1>2, <2>1
  <2> QED
    BY <1>3, <2>2 DEF OrderInv
<1>4. CASE pc[Script] # "swapped"
  <2>1. s \o r \in Seq(Nat) /\ s \o r # << >>
    <3>1. s \in Seq(Nat) /\ r \in Seq(Nat)
      BY Numbers
    <3> QED
      BY <3>1, ConcatProperties, ConcatEqualIffEmpty, EmptySeq
  <2>2. s \o r = Rest
    BY <1>4 DEF OrderInv
  <2>3. nServed' <= nAdded' /\ Tail(s \o r) = Rest'
    BY <1>2, <2>1, <2>2
  <2>4. Tail(s) \o r = Tail(s \o r)
    BY TailConcat
  <2> QED
    BY <1>1, <1>4, <2>3, <2>4 DEF OrderInv
<1> QED
  BY <1>3, <1>4

LEMMA OrderStep ==
  ASSUME SqlTypeInv, OrderInv, [SqlNext]_sqlVars
  PROVE  OrderInv'
<1>0. /\ Script \in Thread /\ Mysql \subseteq Thread /\ Script \notin Mysql
      /\ querysin \in Queue /\ tquerys \in Queue /\ tmp \in Queue
      /\ Held(querysin) /\ Held(tquerys) /\ Held(tmp)
      /\ pc \in [Thread -> MysqlState \cup ScriptState] /\ pc[Script] \in ScriptState
      /\ nAdded \in Nat /\ nServed \in Nat
      /\ querysin.queries \in Seq(1 .. MaxQueries) /\ tquerys.queries \in Seq(1 .. MaxQueries)
      /\ tmp.queries \in Seq(1 .. MaxQueries)
  BY SqlAssumption, QueueParts DEF Thread, SqlTypeInv, SqlTypeOK, MysqlState, ScriptState
<1>a. ASSUME UNCHANGED << nAdded, nServed, tmp >>, querysin'.queries = querysin.queries,
             tquerys'.queries = tquerys.queries, pc'[Script] = pc[Script]
      PROVE  OrderInv'
  BY <1>a DEF OrderInv, Rest
<1>b. ASSUME UNCHANGED << nAdded, nServed, tmp >>, querysin'.queries = querysin.queries,
             tquerys'.queries = tquerys.queries, pc[Script] # "swapped",
             pc'[Script] \notin {"swap", "swapping", "swapped"}
      PROVE  OrderInv'
  BY <1>b DEF OrderInv, Rest
<1>1. ASSUME NEW connected \in BOOLEAN, RegisterModule(connected)
      PROVE  OrderInv'
  BY <1>1, <1>a DEF RegisterModule
<1>2. ASSUME StartModule
      PROVE  OrderInv'
  <2>1. pc'[Script] = pc[Script]
    BY <1>0, <1>2 DEF StartModule, ScriptState
  <2> QED
    BY <1>2, <1>a, <2>1 DEF StartModule
<1>3. ASSUME NEW t \in Mysql, DoWorkAcquires(t)
      PROVE  OrderInv'
  <2>1. pc'[Script] = pc[Script]
    BY <1>0, <1>3 DEF DoWorkAcquires, Go
  <2>2. querysin'.queries = querysin.queries
    BY <1>0, <1>3, AcquireKeeps DEF DoWorkAcquires
  <2> QED
    BY <1>3, <1>a, <2>1, <2>2 DEF DoWorkAcquires
<1>4. ASSUME NEW t \in Mysql, DoWork(t)
      PROVE  OrderInv'
  <2> DEFINE q == Release(querysin, t)
  <2>1. /\ pc'[Script] = pc[Script]
        /\ UNCHANGED << tquerys, tmp, nAdded >>
    BY <1>0, <1>4 DEF DoWork, Go
  <2>2. q \in Queue /\ q.queries = querysin.queries
    BY <1>0, ReleaseKeeps
  <2>3. \/ querysin' = q /\ nServed' = nServed
        \/ /\ q.queries # << >> /\ nServed' = nServed + 1
           /\ querysin' = [q EXCEPT !.queries = Tail(@)]
    BY <1>4 DEF DoWork, AfterSize
  <2> HIDE DEF q
  <2>4. CASE querysin' = q /\ nServed' = nServed
    BY <1>a, <2>1, <2>2, <2>4
  <2>5. CASE q.queries # << >> /\ nServed' = nServed + 1 /\ querysin' = [q EXCEPT !.queries = Tail(@)]
    <3>1. querysin'.queries = Tail(querysin.queries) /\ querysin.queries # << >>
      BY <2>2, <2>5 DEF Queue
    <3> QED
      BY <1>0, <2>1, <2>5, <3>1, ServedKeeps
  <2> QED
    BY <2>3, <2>4, <2>5
<1>5. ASSUME StartSqlQueue \/ AddSqlQueue \/ EndSqlQueue
      PROVE  OrderInv'
  <2>1. /\ UNCHANGED << querysin, tquerys, tmp, nAdded, nServed >> /\ pc[Script] = "script"
        /\ pc' \in {[pc EXCEPT ![Script] = where] : where \in {"start", "add", "end"}}
    BY <1>5 DEF StartSqlQueue, AddSqlQueue, EndSqlQueue, Calls, At, Go
  <2> QED
    BY <1>0, <1>b, <2>1
<1>6. ASSUME LockTquerys
      PROVE  OrderInv'
  <2>1. /\ UNCHANGED << querysin, tmp, nAdded, nServed >> /\ tquerys' = Acquire(tquerys, Script)
        /\ pc[Script] \in {"start", "add"}
        /\ pc' \in {[pc EXCEPT ![Script] = where] : where \in {"inStart", "inAdd"}}
    BY <1>6 DEF LockTquerys, At, Go
  <2>2. tquerys'.queries = tquerys.queries
    BY <1>0, <2>1, AcquireKeeps
  <2> QED
    BY <1>0, <1>b, <2>1, <2>2
<1>7. ASSUME StartReturns
      PROVE  OrderInv'
  <2>1. /\ UNCHANGED << querysin, tmp, nAdded, nServed >> /\ tquerys' = Release(tquerys, Script)
        /\ pc[Script] = "inStart" /\ pc' = [pc EXCEPT ![Script] = "script"]
    BY <1>7 DEF StartReturns, At, Go, AfterSize
  <2>2. tquerys'.queries = tquerys.queries
    BY <1>0, <2>1, ReleaseKeeps
  <2> QED
    BY <1>0, <1>b, <2>1, <2>2
<1>8. ASSUME AddReturns
      PROVE  OrderInv'
  <2>1. /\ UNCHANGED << querysin, tmp, nServed >> /\ tquerys' = Push(tquerys) /\ nAdded' = nAdded + 1
        /\ pc[Script] = "inAdd" /\ pc'[Script] = "script"
    BY <1>0, <1>8 DEF AddReturns, At, Go
  <2>2. nAdded < MaxQueries
    BY <2>1 DEF SqlTypeInv
  <2>3. tquerys'.queries = Append(tquerys.queries, nAdded + 1)
    BY <1>0, <2>1, <2>2, PushKeeps
  <2>4. querysin.queries \o tquerys.queries = Rest /\ nServed <= nAdded
    BY <2>1 DEF OrderInv
  <2>5. querysin.queries \o tquerys.queries \in Seq(Nat)
    <3>1. querysin.queries \in Seq(Nat) /\ tquerys.queries \in Seq(Nat)
      BY <1>0, Numbers
    <3> QED
      BY <3>1, ConcatProperties
  <2>6. Append(querysin.queries \o tquerys.queries, nAdded + 1)
          = [i \in 1 .. (nAdded + 1) - nServed |-> nServed + i]
    BY <1>0, <2>4, <2>5, RestNext DEF Rest
  <2>7. querysin.queries \o Append(tquerys.queries, nAdded + 1)
          = Append(querysin.queries \o tquerys.queries, nAdded + 1)
    <3>1. nAdded + 1 \in Nat
      BY <1>0
    <3> QED
      BY <1>0, <3>1, AppendConcat
  <2>8. querysin'.queries \o tquerys'.queries = Rest'
    BY <2>1, <2>3, <2>6, <2>7 DEF Rest
  <2> QED
    BY <1>0, <2>1, <2>4, <2>8 DEF OrderInv
<1>9. ASSUME LockQuerysin
      PROVE  OrderInv'
  <2>1. /\ UNCHANGED << tquerys, tmp, nAdded, nServed >> /\ querysin' = Acquire(querysin, Script)
        /\ pc[Script] = "end" /\ pc' = [pc EXCEPT ![Script] = "inEnd"]
    BY <1>9 DEF LockQuerysin, At, Go
  <2>2. querysin'.queries = querysin.queries
    BY <1>0, <2>1, AcquireKeeps
  <2> QED
    BY <1>0, <1>b, <2>1, <2>2
<1>10. ASSUME EndReadsSize
       PROVE  OrderInv'
  <2>1. /\ UNCHANGED << tquerys, tmp, nAdded, nServed >> /\ querysin' = Release(querysin, Script)
        /\ pc[Script] = "inEnd"
        /\ pc'[Script] = IF querysin.queries = << >> THEN "swap" ELSE "script"
    BY <1>0, <1>10 DEF EndReadsSize, EndChecks, At, Go, AfterSize
  <2>2. querysin'.queries = querysin.queries
    BY <1>0, <2>1, ReleaseKeeps
  <2> QED
    BY <2>1, <2>2 DEF OrderInv, Rest
<1>11. ASSUME SwapCopies
       PROVE  OrderInv'
  <2>1. /\ UNCHANGED << querysin, tquerys, nAdded, nServed >> /\ tmp' = querysin
        /\ pc[Script] = "swap" /\ pc'[Script] = "swapping"
    BY <1>0, <1>11 DEF SwapCopies, At, Go
  <2> QED
    BY <2>1 DEF OrderInv, Rest
<1>12. ASSUME SwapAssigns
       PROVE  OrderInv'
  <2>1. /\ UNCHANGED << tquerys, tmp, nAdded, nServed >> /\ querysin' = tquerys
        /\ pc[Script] = "swapping" /\ pc'[Script] = "swapped"
    BY <1>0, <1>12 DEF SwapAssigns, At, Go
  <2>2. << >> \o tquerys.queries = tquerys.queries
    BY <1>0, EmptyConcat
  <2> QED
    BY <2>1, <2>2 DEF OrderInv, Rest
<1>13. ASSUME SwapEnds
       PROVE  OrderInv'
  <2>1. /\ UNCHANGED << querysin, nAdded, nServed >> /\ tquerys' = tmp
        /\ pc[Script] = "swapped" /\ pc'[Script] = "script"
    BY <1>0, <1>13 DEF SwapEnds, At, Go
  <2>2. querysin.queries \o << >> = querysin.queries
    BY <1>0, EmptyConcat
  <2> QED
    BY <2>1, <2>2 DEF OrderInv, Rest
<1>14. ASSUME UNCHANGED sqlVars
       PROVE  OrderInv'
  BY <1>14, <1>a DEF sqlVars
<1> QED
  BY <1>1, <1>2, <1>3, <1>4, <1>5, <1>6, <1>7, <1>8, <1>9, <1>10, <1>11, <1>12, <1>13, <1>14
  DEF SqlNext, ScriptSteps

(* Nothing is ever taken: a module that is registered is connected, and     *)
(* then its flag is FALSE.                                                  *)
NoneServed == ~dbinitflag /\ nServed = 0

LEMMA NoneServedStep ==
  ASSUME NoneServed, [SqlNext]_sqlVars
  PROVE  NoneServed'
<1>1. ASSUME NEW connected \in BOOLEAN, RegisterModule(connected)
      PROVE  NoneServed'
  BY <1>1 DEF RegisterModule, FlagOf, NoneServed
<1>2. ASSUME NEW t \in Mysql, DoWork(t)
      PROVE  NoneServed'
  BY <1>2 DEF DoWork, NoneServed
<1>3. CASE UNCHANGED << dbinitflag, nServed >>
  BY <1>3 DEF NoneServed
<1>4. \/ \E connected \in BOOLEAN : RegisterModule(connected)
      \/ \E t \in Mysql : DoWork(t)
      \/ UNCHANGED << dbinitflag, nServed >>
  BY DEF SqlNext, StartModule, DoWorkAcquires, StartSqlQueue, AddSqlQueue, EndSqlQueue, Calls,
         ScriptSteps, LockTquerys, StartReturns, AddReturns, LockQuerysin, EndReadsSize,
         SwapCopies, SwapAssigns, SwapEnds, sqlVars
<1> QED
  BY <1>1, <1>2, <1>3, <1>4

(* The two batches hold the queries not yet taken in the order they were    *)
(* added, whichever mutexes the swaps copy; and no query is ever taken, so  *)
(* they hold every query ever added.                                        *)
THEOREM QueriesStayInOrder == SqlSpec => [](QueriesInOrder /\ NoneServed)
<1>1. SqlInit => SqlTypeInv /\ OrderInv /\ NoneServed
  BY SqlTypeInit, OrderInit DEF SqlInit, NoneServed
<1>2. SqlTypeInv /\ OrderInv /\ NoneServed /\ [SqlNext]_sqlVars =>
        (SqlTypeInv /\ OrderInv /\ NoneServed)'
  BY SqlTypeStep, OrderStep, NoneServedStep
<1>3. OrderInv => QueriesInOrder
  BY DEF OrderInv, QueriesInOrder, Rest
<1> QED
  BY <1>1, <1>2, <1>3, PTL DEF SqlSpec
===============================================================================

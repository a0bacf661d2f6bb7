------------------------------ MODULE SqlQueues -------------------------------
(***************************************************************************)
(* The queries the scripts batch for the database thread:                  *)
(* StartSqlQueue, AddSqlQueue and EndSqlQueue of                           *)
(* src/Src/server/mysql_module.cpp over FQueue (Shared/Threading/Queue.h), *)
(* against the threads that run DoWork for ever (mysql_thread.cpp).        *)
(*                                                                         *)
(* A queue is its queries and its recursive mutex.  EndSqlQueue swaps two  *)
(* whole queues: it copies the bytes of the mutexes, too, without a lock,  *)
(* while a database thread may hold one.  The scripts run one at a time,   *)
(* under _lua_lock: they are one thread here.                              *)
(***************************************************************************)
EXTENDS Integers, Sequences, FiniteSets

CONSTANTS
  Mysql,       (* the threads that StartModule(MYSQL_MODULE, n) has run     *)
  Script,      (* the thread that runs the script                           *)
  NoOne,       (* the owner of a free mutex                                 *)
  MaxQueries   (* bound: queries ever added                                 *)

ASSUME SqlAssumption ==
  Script \notin Mysql /\ NoOne \notin Mysql \cup {Script} /\ MaxQueries \in Nat

Thread == Mysql \cup {Script}

VARIABLES
  registered,  (* g_mysqlmodule: there is a module                          *)
  dbinitflag,  (* its _dbinitflag                                           *)
  querysin,    (* _querysin: the batch for the database threads             *)
  tquerys,     (* _tquerys: the batch the scripts add to                    *)
  tmp,         (* std::swap's copy of _querysin                             *)
  pc,          (* of each thread: where it is                               *)
  nAdded,      (* queries added: they are numbered                          *)
  nServed,     (* queries a database thread took                            *)
  copied       (* a swap copied a mutex that was held                       *)

sqlVars == << registered, dbinitflag, querysin, tquerys, tmp, pc, nAdded, nServed, copied >>

EmptyQueue == [queries |-> << >>, owner |-> NoOne, count |-> 0]

SqlInit ==
  /\ registered = FALSE /\ dbinitflag = FALSE
  /\ querysin = EmptyQueue /\ tquerys = EmptyQueue /\ tmp = EmptyQueue
  /\ pc = [t \in Thread |-> IF t = Script THEN "script" ELSE "none"]
  /\ nAdded = 0 /\ nServed = 0 /\ copied = FALSE

-------------------------------------------------------------------------------
(* The recursive mutex of a queue; Release does not look at its result. *)

FreeFor(q, t) == q.owner \in {NoOne, t}
Acquire(q, t) == [q EXCEPT !.owner = t, !.count = @ + 1]
ReleaseAnyway(q, t) ==     \* mutant: a mutex of another thread is released, too
  [q EXCEPT !.owner = IF q.count = 1 THEN NoOne ELSE @, !.count = @ - 1]
Release(q, t) ==
  IF q.owner # t THEN q
  ELSE [q EXCEPT !.owner = IF q.count = 1 THEN NoOne ELSE t, !.count = @ - 1]

(* get_size, once it has the size. *)
SizeKeepsLock(q, t) ==     \* mutant: of an empty queue get_size returns early, and keeps the mutex
  IF q.queries = << >> THEN [q EXCEPT !.count = 1] ELSE Release(q, t)
AfterSize(q, t) == Release(q, t)

At(t, where) == pc[t] = where
Go(t, where) == pc' = [pc EXCEPT ![t] = where]

-------------------------------------------------------------------------------
(* MysqlModule::Init, through RegisterModule, and Start.  A module whose    *)
(* Init fails is deleted again.                                             *)

FlagOf(connected) == ~connected

RegisterModule(connected) ==
  /\ At(Script, "script") /\ ~registered
  /\ registered' = connected
  /\ dbinitflag' = IF connected THEN FlagOf(connected) ELSE dbinitflag
  /\ UNCHANGED << querysin, tquerys, tmp, pc, nAdded, nServed, copied >>

(* Start gives the pool every MysqlThread, those of an earlier call again:  *)
(* run keeps nothing in the object, so each call adds some threads.         *)
StartModule ==
  /\ At(Script, "script") /\ registered
  /\ \E started \in (SUBSET {t \in Mysql : pc[t] = "none"}) \ {{}} :
       pc' = [t \in Thread |-> IF t \in started THEN "doWork" ELSE pc[t]]
  /\ UNCHANGED << registered, dbinitflag, querysin, tquerys, tmp, nAdded, nServed, copied >>

(* DoWork: the size of _querysin under its mutex; the queries behind it,    *)
(* in one step, and only with the flag set.                                 *)
DoWorkAcquires(t) ==
  /\ At(t, "doWork") /\ FreeFor(querysin, t)
  /\ querysin' = Acquire(querysin, t)
  /\ Go(t, "inSize")
  /\ UNCHANGED << registered, dbinitflag, tquerys, tmp, nAdded, nServed, copied >>

DoWork(t) ==
  /\ At(t, "inSize")
  /\ LET q == AfterSize(querysin, t)
         serves == dbinitflag /\ q.queries # << >>
     IN  /\ querysin' = IF serves THEN [q EXCEPT !.queries = Tail(@)] ELSE q
         /\ nServed' = IF serves THEN nServed + 1 ELSE nServed
  /\ Go(t, "doWork")
  /\ UNCHANGED << registered, dbinitflag, tquerys, tmp, nAdded, copied >>

-------------------------------------------------------------------------------
(* The script's calls, each of which does nothing without a module. *)

Calls(where) ==
  /\ At(Script, "script") /\ registered /\ Go(Script, where)
  /\ UNCHANGED << registered, dbinitflag, querysin, tquerys, tmp, nAdded, nServed, copied >>

StartSqlQueue == Calls("start")
AddSqlQueue == nAdded < MaxQueries /\ Calls("add")
EndSqlQueue == Calls("end")

(* get_size and push take the mutex of _tquerys. *)
LockTquerys ==
  /\ pc[Script] \in {"start", "add"} /\ FreeFor(tquerys, Script)
  /\ tquerys' = Acquire(tquerys, Script)
  /\ Go(Script, IF At(Script, "start") THEN "inStart" ELSE "inAdd")
  /\ UNCHANGED << registered, dbinitflag, querysin, tmp, nAdded, nServed, copied >>

StartReturns ==
  /\ At(Script, "inStart") /\ Go(Script, "script")
  /\ tquerys' = AfterSize(tquerys, Script)
  /\ UNCHANGED << registered, dbinitflag, querysin, tmp, nAdded, nServed, copied >>

Push(q) == Release([q EXCEPT !.queries = Append(@, nAdded + 1)], Script)

AddReturns ==
  /\ At(Script, "inAdd") /\ Go(Script, "script")
  /\ tquerys' = Push(tquerys) /\ nAdded' = nAdded + 1
  /\ UNCHANGED << registered, dbinitflag, querysin, tmp, nServed, copied >>

LockQuerysin ==
  /\ At(Script, "end") /\ FreeFor(querysin, Script)
  /\ querysin' = Acquire(querysin, Script) /\ Go(Script, "inEnd")
  /\ UNCHANGED << registered, dbinitflag, tquerys, tmp, nAdded, nServed, copied >>

EndChecksAlways == TRUE      \* mutant: a batch still there is swapped back
EndChecks == querysin.queries = << >>

EndReadsSize ==
  /\ At(Script, "inEnd")
  /\ querysin' = AfterSize(querysin, Script)
  /\ Go(Script, IF EndChecks THEN "swap" ELSE "script")
  /\ UNCHANGED << registered, dbinitflag, tquerys, tmp, nAdded, nServed, copied >>

(* std::swap: tmp = _querysin, _querysin = _tquerys, _tquerys = tmp. *)
SwapCopies ==
  /\ At(Script, "swap") /\ Go(Script, "swapping")
  /\ tmp' = querysin /\ copied' = (copied \/ querysin.owner # NoOne)
  /\ UNCHANGED << registered, dbinitflag, querysin, tquerys, nAdded, nServed >>

SwapAssigns ==
  /\ At(Script, "swapping") /\ Go(Script, "swapped")
  /\ querysin' = tquerys
  /\ UNCHANGED << registered, dbinitflag, tquerys, tmp, nAdded, nServed, copied >>

SwapEnds ==
  /\ At(Script, "swapped") /\ Go(Script, "script")
  /\ tquerys' = tmp /\ tmp' = EmptyQueue
  /\ UNCHANGED << registered, dbinitflag, querysin, nAdded, nServed, copied >>

ScriptSteps ==
  \/ LockTquerys \/ StartReturns \/ AddReturns
  \/ LockQuerysin \/ EndReadsSize \/ SwapCopies \/ SwapAssigns \/ SwapEnds

SqlNext ==
  \/ \E connected \in BOOLEAN : RegisterModule(connected)
  \/ StartModule
  \/ \E t \in Mysql : DoWorkAcquires(t)
  \/ \E t \in Mysql : DoWork(t)
  \/ StartSqlQueue \/ AddSqlQueue \/ EndSqlQueue
  \/ ScriptSteps

(* A thread goes on when it can; a mutex that is free again and again is    *)
(* obtained.  The script need not call.                                     *)
SqlFairness ==
  /\ \A t \in Mysql : SF_sqlVars(DoWorkAcquires(t)) /\ WF_sqlVars(DoWork(t))
  /\ SF_sqlVars(LockQuerysin) /\ WF_sqlVars(ScriptSteps)

SqlSpec == SqlInit /\ [][SqlNext]_sqlVars /\ SqlFairness

-------------------------------------------------------------------------------
(* The types. *)
Queue == [queries : Seq(1 .. MaxQueries), owner : Thread \cup {NoOne}, count : Nat]

SqlTypeOK ==
  /\ registered \in BOOLEAN /\ dbinitflag \in BOOLEAN /\ copied \in BOOLEAN
  /\ querysin \in Queue /\ tquerys \in Queue /\ tmp \in Queue
  /\ pc \in [Thread -> {"none", "doWork", "inSize", "script", "start", "inStart", "add", "inAdd",
                        "end", "inEnd", "swap", "swapping", "swapped"}]
  /\ nAdded \in 0 .. MaxQueries /\ nServed \in Nat

(* Whatever batches the scripts start, add to and end, and whichever of     *)
(* them EndSqlQueue refuses, the queries not yet taken stay in the two      *)
(* batches in the order they were added.  As Init leaves the flag (FlagOf), *)
(* no thread ever takes one: these are all the queries ever added.          *)
QueriesInOrder ==
  pc[Script] \notin {"swapping", "swapped"} =>
    querysin.queries \o tquerys.queries = [i \in 1 .. nAdded - nServed |-> nServed + i]

(* A queue's mutex is held by a thread that is not in get_size or push of   *)
(* that queue only after a swap has copied a mutex while it was held.       *)
HeldOnlyInside ==
  ~copied =>
    /\ querysin.owner \in Mysql => At(querysin.owner, "inSize")
    /\ querysin.owner = Script => At(Script, "inEnd")
    /\ tquerys.owner = Script => pc[Script] \in {"inStart", "inAdd"}
    /\ tquerys.owner \notin Mysql

(* A call of the script returns, unless a mutex was copied while held: the  *)
(* script then waits for ever, with _lua_lock held.                         *)
CallsReturn == ~At(Script, "script") ~> (At(Script, "script") \/ copied)
===============================================================================

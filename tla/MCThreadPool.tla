----------------------------- MODULE MCThreadPool -----------------------------
(***************************************************************************)
(* Small instance of ThreadPool: a reserve of one thread, the socket       *)
(* worker, a job, and two threads that can still be made.                  *)
(***************************************************************************)
EXTENDS ThreadPool
===============================================================================

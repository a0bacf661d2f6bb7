------------------------------- MODULE MCTimers -------------------------------
(***************************************************************************)
(* Small instance of Timers: the main thread and the Lua thread, ticks of  *)
(* 1 or 2 where a timer's interval is 2 or more.                           *)
(***************************************************************************)
EXTENDS Timers

(* Called at once, when it is due, never. *)
Starts == {0, 3, -1}
===============================================================================

-------------------------------- MODULE Timers --------------------------------
(***************************************************************************)
(* The timers of the scripts (src/Src/server/timer.cpp) and the two        *)
(* recursive mutexes their calls nest: _lock_timer, around the table of    *)
(* timers, and _lua_lock, around every run of the script                   *)
(* (src/Src/server/lua_module.cpp).  The main thread ticks (main.cpp) and  *)
(* calls the script from within the tick; the other threads that run the   *)
(* script, the Lua thread with its messages first of all, call addTimer    *)
(* and stopTimer from within the script.                                   *)
(*                                                                         *)
(* Calls nest (tick, the script, addTimer, the script again), so that each *)
(* thread has a stack of calls, the innermost first.  A mutex is held by   *)
(* the thread whose stack has a call that acquired it.  The script is      *)
(* external: it makes any calls, at most MaxCalls in one run.              *)
(***************************************************************************)
EXTENDS Integers, Sequences, FiniteSets

CONSTANTS
  Main,        (* the thread of main()                                      *)
  Handlers,    (* the other threads that run the script                     *)
  Start,       (* values of addTimer's start, an int of milliseconds        *)
  Interval,    (* values of its interval, all above 0: others are refused   *)
  DTime,       (* milliseconds between two ticks                            *)
  MaxTimers,   (* bound: timers at a time                                   *)
  MaxCalls,    (* bound: calls in one run of the script                     *)
  MaxDepth     (* bound: nesting of calls                                   *)

ASSUME TimersAssumption ==
  /\ Main \notin Handlers
  /\ Start \subseteq Int /\ Interval \subseteq Nat \ {0} /\ DTime \subseteq Nat \ {0}
  /\ MaxTimers \in Nat /\ MaxCalls \in Nat /\ MaxDepth \in Nat

Thread == {Main} \cup Handlers
TimerId == 100 .. 99 + MaxTimers

VARIABLES
  timers,   (* m_timer: the timers there are, by identifier                 *)
  stack,    (* of each thread: the calls it is in, the innermost first      *)
  leaked    (* tick has returned with _lock_timer held                      *)

timerVars == << timers, stack, leaked >>

(* owed is a ghost: milliseconds of the ticks begun since the timer was     *)
(* added that it has not been given; reborn: it was added during a tick     *)
(* under the identifier of a timer whose turn was still to come; by: the    *)
(* thread that stored it.                                                   *)
Timer(start, interval, reborn, by) ==
  [start |-> start, interval |-> interval, now |-> 0,
   owed |-> 0, reborn |-> reborn, by |-> by]

Script == [fn |-> "script", calls |-> MaxCalls]

(* Launcher::Init runs the script on the main thread before the first tick. *)
TimersInit ==
  /\ timers = << >>
  /\ stack = [t \in Thread |-> IF t = Main THEN << Script >> ELSE << >>]
  /\ leaked = FALSE

-------------------------------------------------------------------------------
(* Stacks and locks. *)

In(t, fn) == stack[t] # << >> /\ Head(stack[t]).fn = fn
Top(t) == Head(stack[t])

Calls(t, frame) == stack' = [stack EXCEPT ![t] = << frame >> \o @]
Becomes(t, frames) == stack' = [stack EXCEPT ![t] = frames \o Tail(@)]
Returns(t) == stack' = [stack EXCEPT ![t] = Tail(@)]

Frames(t) == {stack[t][i] : i \in DOMAIN stack[t]}

HoldsTimer(t) ==
  \/ t = Main /\ leaked
  \/ \E f \in Frames(t) : f.fn \in {"tick", "adding"}
HoldsLua(t) == \E f \in Frames(t) : f.fn = "script"

(* A recursive mutex is free for the thread that has it. *)
TimerFree(t) == \A u \in Thread \ {t} : ~HoldsTimer(u)
LuaFree(t) == \A u \in Thread \ {t} : ~HoldsLua(u)

-------------------------------------------------------------------------------
(* The main thread: TickTimer. *)

(* Without a timer tick returns at once, without releasing the mutex. *)
Tick(d) ==
  /\ stack[Main] = << >> /\ TimerFree(Main)
  /\ IF DOMAIN timers = {}
       THEN leaked' = TRUE /\ UNCHANGED << timers, stack >>
       ELSE /\ timers' = [id \in DOMAIN timers |-> [timers[id] EXCEPT !.owed = @ + d]]
            /\ Calls(Main, [fn |-> "tick", dTime |-> d, todo |-> DOMAIN timers])
            /\ UNCHANGED leaked

(* One timer of the list made at the start of the tick, in the order of the *)
(* identifiers: skipped when it is gone, else its clock moves on, and the   *)
(* script is called when start or, failing that, interval has passed.       *)
DueStart(timer, now) == timer.start > 0 /\ timer.start <= now
DueInterval(timer, now) == timer.interval <= now

(* What the timer's clock shows after its turn. *)
ClockTwice(timer, now) ==      \* mutant: interval is subtracted after start, too
  now - (IF DueStart(timer, now) THEN timer.start ELSE 0)
      - (IF DueInterval(timer, now) THEN timer.interval ELSE 0)
ClockForgets(timer, now) ==    \* mutant: the time of a tick without a call is lost
  IF DueStart(timer, now) THEN now - timer.start
  ELSE IF DueInterval(timer, now) THEN now - timer.interval ELSE timer.now
Clock(timer, now) ==
  IF DueStart(timer, now) THEN now - timer.start
  ELSE IF DueInterval(timer, now) THEN now - timer.interval ELSE now

Served(timer, now, d) ==
  [timer EXCEPT !.owed = @ - d, !.now = Clock(timer, now),
                !.start = IF DueStart(timer, now) THEN 0 ELSE @]

(* What is left of the tick after the turn of id. *)
LeftAfterCall(id) ==    \* mutant: the tick ends with its first call
  LET now == timers[id].now + Top(Main).dTime
      called == id \in DOMAIN timers /\ DueInterval(timers[id], now)
  IN  [Top(Main) EXCEPT !.todo = IF called THEN {} ELSE @ \ {id}]
Left(id) == [Top(Main) EXCEPT !.todo = @ \ {id}]

ServeTimer ==
  /\ In(Main, "tick") /\ Top(Main).todo # {}
  /\ \E id \in Top(Main).todo :
       LET d == Top(Main).dTime
           now == timers[id].now + d
       IN  /\ \A other \in Top(Main).todo : id <= other
           /\ IF id \notin DOMAIN timers
                THEN Becomes(Main, << Left(id) >>) /\ UNCHANGED timers
                ELSE /\ timers' = [timers EXCEPT ![id] = Served(@, now, d)]
                     /\ Becomes(Main, IF DueStart(timers[id], now) \/ DueInterval(timers[id], now)
                                        THEN << [fn |-> "callback", id |-> id], Left(id) >>
                                        ELSE << Left(id) >>)
  /\ UNCHANGED leaked

TickEnd ==
  /\ In(Main, "tick") /\ Top(Main).todo = {}
  /\ Returns(Main)
  /\ UNCHANGED << timers, leaked >>

-------------------------------------------------------------------------------
(* The script, under _lua_lock: called back by a timer, or by another       *)
(* thread for a message, a console command or a query's result.             *)

CallUserDataFun(t) ==
  /\ In(t, "callback") /\ LuaFree(t)
  /\ Becomes(t, << Script >>)
  /\ UNCHANGED << timers, leaked >>

HandleMsg(t) ==
  /\ t \in Handlers /\ stack[t] = << >> /\ LuaFree(t)
  /\ Calls(t, Script)
  /\ UNCHANGED << timers, leaked >>

ScriptReturns(t) ==
  /\ In(t, "script")
  /\ Returns(t)
  /\ UNCHANGED << timers, leaked >>

(* The script calls addTimer or stopTimer, which wait for _lock_timer. *)
ScriptAdds(t, start, interval) ==
  /\ In(t, "script") /\ Top(t).calls > 0
  /\ Len(stack[t]) < MaxDepth
  /\ Becomes(t, << [fn |-> "addTimer", start |-> start, interval |-> interval],
                   [Top(t) EXCEPT !.calls = @ - 1] >>)
  /\ UNCHANGED << timers, leaked >>

ScriptStops(t, id) ==
  /\ In(t, "script") /\ Top(t).calls > 0
  /\ Becomes(t, << [fn |-> "stopTimer", id |-> id], [Top(t) EXCEPT !.calls = @ - 1] >>)
  /\ UNCHANGED << timers, leaked >>

-------------------------------------------------------------------------------
(* addTimer: the first free identifier, from 100; with start 0 the script   *)
(* is called before the timer is in the table.                              *)

FreeIds == TimerId \ DOMAIN timers

(* The call of addTimer, with its identifier, and the script inside it when *)
(* it is called first.                                                      *)
Adding(t, id) ==
  [fn |-> "adding", id |-> id, start |-> Top(t).start, interval |-> Top(t).interval]
AddsPast(t, id) ==     \* mutant: <= 0 for == 0
  Becomes(t, IF Top(t).start <= 0 THEN << [fn |-> "callback", id |-> id], Adding(t, id) >>
                                  ELSE << Adding(t, id) >>)
Adds(t, id) ==
  Becomes(t, IF Top(t).start = 0 THEN << [fn |-> "callback", id |-> id], Adding(t, id) >>
                                 ELSE << Adding(t, id) >>)

AddTimer(t) ==
  /\ In(t, "addTimer") /\ TimerFree(t)
  /\ \E id \in FreeIds : (\A other \in FreeIds : id <= other) /\ Adds(t, id)
  /\ UNCHANGED << timers, leaked >>

(* (Bound: a full table refuses the timer, as addTimer does one with no     *)
(* interval.)                                                               *)
AddTimerFull(t) ==
  /\ In(t, "addTimer") /\ TimerFree(t) /\ FreeIds = {}
  /\ Returns(t)
  /\ UNCHANGED << timers, leaked >>

(* The tick in progress, and the timers whose turn is still to come. *)
Ticking == {f \in Frames(Main) : f.fn = "tick"}
ToCome(id) == \E f \in Ticking : id \in f.todo

AddTimerEnd(t) ==
  /\ In(t, "adding")
  /\ LET new == Timer(Top(t).start, Top(t).interval, ToCome(Top(t).id), t) IN
     timers' = [id \in DOMAIN timers \cup {Top(t).id} |->
                  IF id = Top(t).id THEN new ELSE timers[id]]
  /\ Returns(t)
  /\ UNCHANGED leaked

StopTimer(t) ==
  /\ In(t, "stopTimer") /\ TimerFree(t)
  /\ timers' = [id \in DOMAIN timers \ {Top(t).id} |-> timers[id]]
  /\ Returns(t)
  /\ UNCHANGED leaked

-------------------------------------------------------------------------------

ScriptSteps(t) ==
  \/ \E start \in Start, interval \in Interval : ScriptAdds(t, start, interval)
  \/ \E id \in TimerId : ScriptStops(t, id)
  \/ ScriptReturns(t)

LockedSteps(t) == AddTimer(t) \/ AddTimerFull(t) \/ StopTimer(t)

TimersNext ==
  \/ \E d \in DTime : Tick(d)
  \/ ServeTimer \/ TickEnd
  \/ \E t \in Thread :
       \/ CallUserDataFun(t) \/ HandleMsg(t)
       \/ ScriptSteps(t) \/ LockedSteps(t) \/ AddTimerEnd(t)

TimersSpec == TimersInit /\ [][TimersNext]_timerVars

(* The threads run on, the main loop ticks again and again, and a thread    *)
(* that waits for a mutex gets it when it is free again and again.  Nobody  *)
(* is bound to send messages.                                               *)
TimersFairness ==
  /\ WF_timerVars(ServeTimer \/ TickEnd)
  /\ SF_timerVars(\E d \in DTime : Tick(d))
  /\ \A t \in Thread :
       /\ WF_timerVars(ScriptSteps(t)) /\ WF_timerVars(AddTimerEnd(t))
       /\ SF_timerVars(CallUserDataFun(t)) /\ SF_timerVars(LockedSteps(t))

FairTimersSpec == TimersSpec /\ TimersFairness

-------------------------------------------------------------------------------
(* Properties. *)

TimerType ==
  [start : Start \cup {0}, interval : Interval, now : Nat,
   owed : Int, reborn : BOOLEAN, by : Thread]
FrameType ==
  [fn : {"tick"}, dTime : DTime, todo : SUBSET TimerId]
    \cup [fn : {"callback", "stopTimer"}, id : TimerId]
    \cup [fn : {"script"}, calls : 0 .. MaxCalls]
    \cup [fn : {"addTimer"}, start : Start, interval : Interval]
    \cup [fn : {"adding"}, id : TimerId, start : Start, interval : Interval]

TimersTypeOK ==
  /\ DOMAIN timers \subseteq TimerId
  /\ \A id \in DOMAIN timers : timers[id] \in TimerType
  /\ stack \in [Thread -> Seq(FrameType)]
  /\ leaked \in BOOLEAN

(* Each timer is given each tick's time once, whatever timers the script    *)
(* adds and stops meanwhile; one added under the identifier of a timer that *)
(* was stopped in the same tick before its turn is given a tick it did not  *)
(* see.                                                                     *)
ClockExact ==
  \A id \in DOMAIN timers :
    \/ timers[id].reborn
    \/ ToCome(id) /\ \A f \in Ticking : timers[id].owed = f.dTime
    \/ ~ToCome(id) /\ timers[id].owed = 0

(* Two timers come to share an identifier in one way only.  The place in    *)
(* the table that an addTimer chose is still free when it stores its timer, *)
(* or its start is 0 and the timer that is there was stored by its own      *)
(* thread, within the script it called first: that one is overwritten.      *)
(* Another thread never gets there, however long the script runs.           *)
OwnIdentifier ==
  \A t \in Thread : \A f \in Frames(t) :
    f.fn = "adding" /\ f.id \in DOMAIN timers => f.start = 0 /\ timers[f.id].by = t

(* No thread but the main one is inside addTimer or stopTimer. *)
HandlersLeaveTimersAlone ==
  \A t \in Handlers : \A f \in Frames(t) : f.fn \notin {"addTimer", "adding", "stopTimer"}

(* A timer that is there is called or stopped, in spite of the messages and *)
(* the other timers, as long as timers are added and stopped by timers and  *)
(* by the script's initialisation only.                                     *)
TimersFire ==
  []HandlersLeaveTimersAlone =>
    \A id \in TimerId :
      id \in DOMAIN timers ~>
        id \notin DOMAIN timers \/ \E f \in Frames(Main) : f.fn = "callback" /\ f.id = id
===============================================================================

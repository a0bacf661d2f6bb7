----------------------------- MODULE TimersProofs -----------------------------
(***************************************************************************)
(* Proofs about Timers, for every set of threads, every start, interval    *)
(* and length of a tick, and every bound.                                  *)
(***************************************************************************)
EXTENDS Timers, TLAPS

(* The calls a thread is in around its innermost one. *)
Beneath(t) == {stack[t][i] : i \in 2 .. Len(stack[t])}

(* _lock_timer and _lua_lock each have at most one owner. *)
TimerLockExclusive == \A t, u \in Thread : HoldsTimer(t) /\ HoldsTimer(u) => t = u
LuaLockExclusive == \A t, u \in Thread : HoldsLua(t) /\ HoldsLua(u) => t = u

(* A tick is the outermost call of the main thread: ticks do not nest.      *)
TickOutermost ==
  \A t \in Thread : \A i \in DOMAIN stack[t] :
    stack[t][i].fn = "tick" => t = Main /\ i = Len(stack[t])

(* Nothing runs inside an addTimer that has chosen its identifier, but the  *)
(* script it calls when start is 0.                                         *)
StoresAtOnce == \A t \in Thread : \A f \in Beneath(t) : f.fn = "adding" => f.start = 0

Stacks == stack \in [Thread -> Seq(FrameType)]

-------------------------------------------------------------------------------
(* What a step does to the stack of its thread. *)

(* The calls of a thread are its innermost one and those beneath. *)
LEMMA FramesSplit ==
  ASSUME Stacks, NEW t \in Thread
  PROVE  /\ stack[t] = << >> => Frames(t) = {} /\ Beneath(t) = {}
         /\ stack[t] # << >> => /\ Frames(t) = {Top(t)} \cup Beneath(t)
                                /\ Top(t) = stack[t][1] /\ Top(t) \in FrameType
         /\ Beneath(t) \subseteq Frames(t) /\ Frames(t) \subseteq FrameType
  <1>1. stack[t] \in Seq(FrameType)
    BY DEF Stacks
  <1>2. Frames(t) \subseteq FrameType /\ Beneath(t) \subseteq Frames(t)
    BY <1>1 DEF Frames, Beneath
  <1>3. CASE stack[t] = << >>
    BY <1>1, <1>2, <1>3 DEF Frames, Beneath
  <1>4. CASE stack[t] # << >>
    <2>1. Len(stack[t]) \in Nat \ {0} /\ DOMAIN stack[t] = 1 .. Len(stack[t])
      BY <1>1, <1>4
    <2>2. Top(t) = stack[t][1] /\ Top(t) \in FrameType
      BY <1>1, <1>4, <2>1 DEF Top
    <2>3. 1 .. Len(stack[t]) = {1} \cup 2 .. Len(stack[t])
      BY <2>1
    <2>4. Frames(t) = {Top(t)} \cup Beneath(t)
      BY <2>1, <2>2, <2>3 DEF Frames, Beneath
    <2>5. QED BY <1>2, <1>4, <2>2, <2>4
  <1>5. QED BY <1>3, <1>4

(* A step of one thread leaves the calls of the others as they are. *)
LEMMA OthersStay ==
  ASSUME Stacks, NEW t \in Thread, NEW calls, stack' = [stack EXCEPT ![t] = calls],
         NEW u \in Thread, u # t
  PROVE  /\ stack'[u] = stack[u] /\ Frames(u)' = Frames(u) /\ Beneath(u)' = Beneath(u)
         /\ HoldsLua(u)' = HoldsLua(u)
  <1>1. stack'[u] = stack[u]
    BY DEF Stacks
  <1>2. Frames(u)' = Frames(u) /\ Beneath(u)' = Beneath(u)
    BY <1>1 DEF Frames, Beneath
  <1>3. HoldsLua(u)' = HoldsLua(u)
    BY <1>2 DEF HoldsLua
  <1>4. QED BY <1>1, <1>2, <1>3

(* The first call of a thread that was in none. *)
LEMMA Called ==
  ASSUME Stacks, NEW t \in Thread, stack[t] = << >>, NEW frame \in FrameType, Calls(t, frame)
  PROVE  /\ Stacks' /\ stack' = [stack EXCEPT ![t] = << frame >>]
         /\ stack'[t] = << frame >> /\ Frames(t)' = {frame} /\ Beneath(t)' = {}
  <1>1. << frame >> \o stack[t] = << frame >>
    OBVIOUS
  <1>2. stack' = [stack EXCEPT ![t] = << frame >>]
    BY <1>1 DEF Calls
  <1>3. stack'[t] = << frame >>
    BY <1>2 DEF Stacks
  <1>4. Stacks'
    BY <1>2 DEF Stacks
  <1>5. Frames(t)' = {frame} /\ Beneath(t)' = {}
    BY <1>3 DEF Frames, Beneath
  <1>6. QED BY <1>2, <1>3, <1>4, <1>5

(* The innermost call gives way to others. *)
LEMMA Become ==
  ASSUME Stacks, NEW t \in Thread, stack[t] # << >>, NEW frames \in Seq(FrameType),
         Becomes(t, frames)
  PROVE  /\ Stacks' /\ stack' = [stack EXCEPT ![t] = frames \o Tail(stack[t])]
         /\ Len(stack'[t]) = Len(frames) + Len(stack[t]) - 1
         /\ \A i \in 1 .. Len(frames) : stack'[t][i] = frames[i]
         /\ \A i \in Len(frames) + 1 .. Len(stack'[t]) :
              stack'[t][i] = stack[t][i - Len(frames) + 1]
  <1>1. stack[t] \in Seq(FrameType) /\ Tail(stack[t]) \in Seq(FrameType)
    BY DEF Stacks
  <1>2. stack' = [stack EXCEPT ![t] = frames \o Tail(stack[t])]
    BY DEF Becomes
  <1>3. stack'[t] = frames \o Tail(stack[t])
    BY <1>2 DEF Stacks
  <1>4. Stacks'
    BY <1>1, <1>2 DEF Stacks
  <1>5. Len(Tail(stack[t])) = Len(stack[t]) - 1
        /\ \A i \in 1 .. Len(stack[t]) - 1 : Tail(stack[t])[i] = stack[t][i + 1]
    BY <1>1
  <1>6. QED BY <1>1, <1>2, <1>3, <1>4, <1>5

(* It returns. *)
LEMMA Returned ==
  ASSUME Stacks, NEW t \in Thread, stack[t] # << >>, Returns(t)
  PROVE  /\ Becomes(t, << >>)
         /\ Frames(t)' = Beneath(t) /\ Beneath(t)' \subseteq Beneath(t)
  <1>1. stack[t] \in Seq(FrameType) /\ Tail(stack[t]) \in Seq(FrameType)
    BY DEF Stacks
  <1>2. << >> \o Tail(stack[t]) = Tail(stack[t])
    BY <1>1
  <1>3. Becomes(t, << >>)
    BY <1>2 DEF Returns, Becomes
  <1>4. stack'[t] = Tail(stack[t])
    BY DEF Returns, Stacks
  <1>5. Frames(t)' = Beneath(t)
    <2>0. /\ Len(Tail(stack[t])) = Len(stack[t]) - 1
          /\ DOMAIN Tail(stack[t]) = 1 .. Len(stack[t]) - 1
          /\ \A i \in 1 .. Len(stack[t]) - 1 : Tail(stack[t])[i] = stack[t][i + 1]
      BY <1>1
    <2>1. Frames(t)' = {stack[t][i + 1] : i \in 1 .. Len(stack[t]) - 1}
      BY <1>4, <2>0 DEF Frames
    <2>2. \A i \in 1 .. Len(stack[t]) - 1 : i + 1 \in 2 .. Len(stack[t])
      BY <1>1
    <2>3. \A i \in 2 .. Len(stack[t]) : i - 1 \in 1 .. Len(stack[t]) - 1 /\ (i - 1) + 1 = i
      BY <1>1
    <2>4. QED BY <2>1, <2>2, <2>3 DEF Beneath
  <1>6. Beneath(t)' \subseteq Beneath(t)
    <2>1. \A i \in 2 .. Len(stack[t]) - 1 :
            i + 1 \in 2 .. Len(stack[t]) /\ Tail(stack[t])[i] = stack[t][i + 1]
      BY <1>1
    <2>2. Beneath(t)' = {Tail(stack[t])[i] : i \in 2 .. Len(stack[t]) - 1}
      BY <1>1, <1>4 DEF Beneath
    <2>3. QED BY <2>1, <2>2 DEF Beneath
  <1>7. QED BY <1>3, <1>5, <1>6

(* It gives way to one other. *)
LEMMA Replaced ==
  ASSUME Stacks, NEW t \in Thread, stack[t] # << >>, NEW frame \in FrameType,
         Becomes(t, << frame >>)
  PROVE  Frames(t)' = {frame} \cup Beneath(t) /\ Beneath(t)' = Beneath(t)
  <1>1. /\ Len(stack'[t]) = Len(stack[t]) /\ Len(stack[t]) \in Nat \ {0}
        /\ stack'[t][1] = frame
        /\ \A i \in 2 .. Len(stack[t]) : stack'[t][i] = stack[t][i]
        /\ stack'[t] \in Seq(FrameType)
    <2>1. /\ << frame >> \in Seq(FrameType) /\ Len(<< frame >>) = 1 /\ << frame >>[1] = frame
          /\ stack[t] \in Seq(FrameType)
      BY DEF Stacks
    <2>2. /\ Stacks'
          /\ Len(stack'[t]) = 1 + Len(stack[t]) - 1
          /\ \A i \in 1 .. 1 : stack'[t][i] = << frame >>[i]
          /\ \A i \in 1 + 1 .. Len(stack'[t]) : stack'[t][i] = stack[t][i - 1 + 1]
      BY <2>1, Become, Zenon
    <2>3. Len(stack[t]) \in Nat \ {0}
      BY <2>1
    <2>4. QED BY <2>1, <2>2, <2>3 DEF Stacks
  <1>2. Beneath(t)' = Beneath(t)
    BY <1>1 DEF Beneath
  <1>3. 1 .. Len(stack[t]) = {1} \cup 2 .. Len(stack[t])
    BY <1>1
  <1>4. Frames(t)' = {frame} \cup Beneath(t)
    BY <1>1, <1>3 DEF Frames, Beneath
  <1>5. QED BY <1>2, <1>4

(* It gives way to a call inside another. *)
LEMMA Nested ==
  ASSUME Stacks, NEW t \in Thread, stack[t] # << >>, NEW inner \in FrameType,
         NEW outer \in FrameType, Becomes(t, << inner, outer >>)
  PROVE  Frames(t)' = {inner, outer} \cup Beneath(t) /\ Beneath(t)' = {outer} \cup Beneath(t)
  <1>1. /\ Len(stack'[t]) = Len(stack[t]) + 1 /\ Len(stack[t]) \in Nat \ {0}
        /\ stack'[t][1] = inner /\ stack'[t][2] = outer
        /\ \A i \in 3 .. Len(stack[t]) + 1 : stack'[t][i] = stack[t][i - 1]
        /\ stack'[t] \in Seq(FrameType)
    <2> DEFINE both == << inner, outer >>
    <2>1. /\ both \in Seq(FrameType) /\ Len(both) = 2 /\ both[1] = inner /\ both[2] = outer
          /\ stack[t] \in Seq(FrameType)
      BY DEF Stacks
    <2>2. /\ Stacks'
          /\ Len(stack'[t]) = 2 + Len(stack[t]) - 1
          /\ \A i \in 1 .. 2 : stack'[t][i] = both[i]
          /\ \A i \in 2 + 1 .. Len(stack'[t]) : stack'[t][i] = stack[t][i - 2 + 1]
      <3> HIDE DEF both
      <3>1. Becomes(t, both)
        BY DEF both
      <3>2. both \in Seq(FrameType)
        BY <2>1
      <3>3. /\ Stacks'
            /\ Len(stack'[t]) = Len(both) + Len(stack[t]) - 1
            /\ \A i \in 1 .. Len(both) : stack'[t][i] = both[i]
            /\ \A i \in Len(both) + 1 .. Len(stack'[t]) :
                 stack'[t][i] = stack[t][i - Len(both) + 1]
        BY <3>1, <3>2, Become
      <3>4. Len(both) = 2
        BY <2>1
      <3>5. QED BY <3>3, <3>4, Zenon
    <2>3. Len(stack[t]) \in Nat \ {0}
      BY <2>1
    <2> HIDE DEF both
    <2>4. stack'[t] \in Seq(FrameType) /\ stack'[t][1] = inner /\ stack'[t][2] = outer
      BY <2>1, <2>2 DEF Stacks
    <2>5. \A i \in 3 .. Len(stack[t]) + 1 :
            i \in 2 + 1 .. Len(stack'[t]) /\ i - 2 + 1 = i - 1
      BY <2>2, <2>3
    <2>6. \A i \in 3 .. Len(stack[t]) + 1 : stack'[t][i] = stack[t][i - 1]
      BY <2>2, <2>5
    <2>7. Len(stack'[t]) = Len(stack[t]) + 1
      BY <2>2, <2>3
    <2>8. QED BY <2>3, <2>4, <2>6, <2>7
  <1>2. 3 .. Len(stack[t]) + 1 = {i + 1 : i \in 2 .. Len(stack[t])}
    <2>1. \A i \in 3 .. Len(stack[t]) + 1 : i - 1 \in 2 .. Len(stack[t]) /\ i = (i - 1) + 1
      BY <1>1
    <2>2. QED BY <1>1, <2>1
  <1>3. {stack'[t][i] : i \in 3 .. Len(stack[t]) + 1} = Beneath(t)
    <2>1. \A i \in 2 .. Len(stack[t]) : i + 1 \in 3 .. Len(stack[t]) + 1 /\ i + 1 - 1 = i
      BY <1>1
    <2>2. {stack'[t][i] : i \in 3 .. Len(stack[t]) + 1} = {stack'[t][i + 1] : i \in 2 .. Len(stack[t])}
      BY <1>2
    <2>3. \A i \in 2 .. Len(stack[t]) : stack'[t][i + 1] = stack[t][i]
      BY <1>1, <2>1
    <2>4. QED BY <2>2, <2>3 DEF Beneath
  <1>4. 2 .. Len(stack'[t]) = {2} \cup 3 .. Len(stack[t]) + 1
    BY <1>1
  <1>5. 1 .. Len(stack'[t]) = {1, 2} \cup 3 .. Len(stack[t]) + 1
    BY <1>1
  <1>6. Beneath(t)' = {outer} \cup Beneath(t)
    BY <1>1, <1>3, <1>4 DEF Beneath
  <1>7. Frames(t)' = {inner, outer} \cup Beneath(t)
    <2>1. DOMAIN stack'[t] = 1 .. Len(stack'[t])
      BY <1>1
    <2>2. Frames(t)' = {stack'[t][1], stack'[t][2]} \cup {stack'[t][i] : i \in 3 .. Len(stack[t]) + 1}
      BY <1>5, <2>1 DEF Frames
    <2>3. QED BY <1>1, <1>3, <2>2
  <1>8. QED BY <1>6, <1>7

-------------------------------------------------------------------------------
(* The inductive invariant. *)

(* ClockExact rests on the tick being the outermost call, of which there is *)
(* then one; OwnIdentifier on the exclusion by _lock_timer, which tells     *)
(* another thread's addTimer to wait, and on StoresAtOnce, which says that  *)
(* the thread itself is in a second one only inside one with start 0.       *)
TimersInv ==
  /\ TimersTypeOK
  /\ TimerLockExclusive /\ LuaLockExclusive
  /\ TickOutermost /\ StoresAtOnce
  /\ ClockExact /\ OwnIdentifier

(* A tick that gives way to calls stays the outermost one. *)
LEMMA TickStaysOutermost ==
  ASSUME Stacks, TickOutermost, NEW t \in Thread, stack[t] # << >>,
         NEW frames \in Seq(FrameType), Becomes(t, frames),
         \A i \in 1 .. Len(frames) : frames[i].fn = "tick" => In(t, "tick") /\ i = Len(frames)
  PROVE  TickOutermost'
  <1> SUFFICES ASSUME NEW u \in Thread, NEW i \in DOMAIN stack'[u], stack'[u][i].fn = "tick"
               PROVE  u = Main /\ i = Len(stack'[u])
    BY DEF TickOutermost
  <1>1. /\ Stacks' /\ stack' = [stack EXCEPT ![t] = frames \o Tail(stack[t])]
        /\ Len(stack'[t]) = Len(frames) + Len(stack[t]) - 1
        /\ \A j \in 1 .. Len(frames) : stack'[t][j] = frames[j]
        /\ \A j \in Len(frames) + 1 .. Len(stack'[t]) :
             stack'[t][j] = stack[t][j - Len(frames) + 1]
    BY Become
  <1>2. CASE u # t
    <2>1. stack'[u] = stack[u]
      BY <1>1, <1>2 DEF Stacks
    <2>2. QED BY <2>1 DEF TickOutermost
  <1>3. CASE u = t
    <2>1. /\ Len(frames) \in Nat /\ Len(stack[t]) \in Nat \ {0}
          /\ DOMAIN stack[t] = 1 .. Len(stack[t]) /\ i \in 1 .. Len(stack'[t])
      BY <1>1, <1>3 DEF Stacks
    <2>2. CASE i <= Len(frames)
      <3>1. In(t, "tick") /\ i = Len(frames)
        BY <1>1, <1>3, <2>1, <2>2
      <3>2. stack[t][1].fn = "tick" /\ 1 \in DOMAIN stack[t]
        BY <2>1, <3>1, FramesSplit DEF In, Top
      <3>3. t = Main /\ Len(stack[t]) = 1
        BY <3>2 DEF TickOutermost
      <3>4. QED BY <1>1, <1>3, <2>1, <3>1, <3>3
    <2>3. CASE i > Len(frames)
      <3>1. i \in Len(frames) + 1 .. Len(stack'[t])
        BY <2>1, <2>3
      <3>2. /\ stack[t][i - Len(frames) + 1].fn = "tick"
            /\ i - Len(frames) + 1 \in DOMAIN stack[t]
        BY <1>1, <1>3, <2>1, <3>1
      <3>3. t = Main /\ i - Len(frames) + 1 = Len(stack[t])
        BY <3>2 DEF TickOutermost
      <3>4. QED BY <1>1, <1>3, <2>1, <3>3
    <2>4. QED BY <2>1, <2>2, <2>3
  <1>4. QED BY <1>2, <1>3

(* When a tick is the innermost call it is the only one, and in none there  *)
(* is no tick.                                                              *)
LEMMA OneTick ==
  ASSUME Stacks, TickOutermost
  PROVE  /\ In(Main, "tick") => Beneath(Main) = {} /\ Ticking = {Top(Main)}
         /\ stack[Main] = << >> => Ticking = {}
         /\ \A t \in Thread : \A f \in Frames(t) : f.fn = "tick" => t = Main
  <1>1. stack[Main] \in Seq(FrameType) /\ Main \in Thread
    BY DEF Stacks, Thread
  <1>2. ASSUME In(Main, "tick") PROVE Beneath(Main) = {} /\ Ticking = {Top(Main)}
    <2>1. stack[Main] # << >> /\ Top(Main).fn = "tick"
      BY <1>2 DEF In, Top
    <2>2. Top(Main) = stack[Main][1] /\ Frames(Main) = {Top(Main)} \cup Beneath(Main)
      BY <1>1, <2>1, FramesSplit
    <2>3. Len(stack[Main]) = 1
      <3>1. 1 \in DOMAIN stack[Main]
        BY <1>1, <2>1
      <3>2. QED BY <1>1, <2>1, <2>2, <3>1 DEF TickOutermost
    <2>4. Beneath(Main) = {}
      BY <2>3 DEF Beneath
    <2>5. QED BY <2>1, <2>2, <2>4 DEF Ticking
  <1>3. stack[Main] = << >> => Ticking = {}
    BY <1>1, FramesSplit DEF Ticking
  <1>4. \A t \in Thread : \A f \in Frames(t) : f.fn = "tick" => t = Main
    BY DEF TickOutermost, Frames
  <1>5. QED BY <1>2, <1>3, <1>4

(* The locks after a step of one thread that acquires them when free only. *)
LEMMA LocksKept ==
  ASSUME TimerLockExclusive, LuaLockExclusive, NEW t \in Thread,
         \A u \in Thread \ {t} : Frames(u)' = Frames(u),
         t = Main \/ leaked' = leaked,
         HoldsTimer(t)' => HoldsTimer(t) \/ TimerFree(t),
         HoldsLua(t)' => HoldsLua(t) \/ LuaFree(t)
  PROVE  TimerLockExclusive' /\ LuaLockExclusive'
  <1>1. \A u \in Thread \ {t} : HoldsTimer(u)' = HoldsTimer(u)
    BY DEF HoldsTimer
  <1>2. \A u \in Thread \ {t} : HoldsLua(u)' = HoldsLua(u)
    BY DEF HoldsLua
  <1>3. TimerLockExclusive'
    BY <1>1 DEF TimerLockExclusive, TimerFree
  <1>4. LuaLockExclusive'
    BY <1>2 DEF LuaLockExclusive, LuaFree
  <1>5. QED BY <1>3, <1>4

(* A step of one thread that begins and ends no tick and adds no timer.     *)
LEMMA ScriptStep ==
  ASSUME TimersInv, NEW t \in Thread, Stacks', TickOutermost', leaked' = leaked,
         \A u \in Thread \ {t} : Frames(u)' = Frames(u) /\ Beneath(u)' = Beneath(u),
         DOMAIN timers' \subseteq DOMAIN timers,
         \A id \in DOMAIN timers' : timers'[id] = timers[id],
         \A f \in FrameType : f.fn = "tick" => (f \in Frames(t)' <=> f \in Frames(t)),
         HoldsTimer(t)' => HoldsTimer(t) \/ TimerFree(t),
         HoldsLua(t)' => HoldsLua(t) \/ LuaFree(t),
         \A f \in Beneath(t)' : f \in Beneath(t) \/ (f.fn = "adding" => f.start = 0),
         \A f \in Frames(t)' :
           f \in Frames(t) \/ (f.fn = "adding" => f.id \notin DOMAIN timers)
  PROVE  TimersInv'
  <1>1. TimersTypeOK'
    BY DEF TimersInv, TimersTypeOK, Stacks
  <1>2. TimerLockExclusive' /\ LuaLockExclusive'
    BY LocksKept DEF TimersInv
  <1>3. StoresAtOnce'
    BY DEF TimersInv, StoresAtOnce
  <1>4. Ticking' = Ticking
    <2>1. Frames(Main) \subseteq FrameType /\ Frames(Main)' \subseteq FrameType /\ Main \in Thread
      BY DEF Frames, Stacks, Thread, TimersInv, TimersTypeOK
    <2>2. CASE t = Main
      BY <2>1, <2>2 DEF Ticking
    <2>3. CASE t # Main
      BY <2>1, <2>3 DEF Ticking
    <2>4. QED BY <2>2, <2>3
  <1>5. \A id : ToCome(id)' = ToCome(id)
    BY <1>4 DEF ToCome
  <1>6. ClockExact'
    BY <1>4, <1>5 DEF TimersInv, ClockExact
  <1>7. OwnIdentifier'
    BY DEF TimersInv, OwnIdentifier
  <1>8. QED BY <1>1, <1>2, <1>3, <1>6, <1>7 DEF TimersInv

-------------------------------------------------------------------------------
(* The steps of the threads that run the script, none of which begins or    *)
(* ends a tick or stores a timer.                                           *)

LEMMA KeptByCallback ==
  ASSUME TimersInv, NEW t \in Thread, CallUserDataFun(t)
  PROVE  TimersInv'
  <1> USE DEF TimersInv
  <1>1. Stacks /\ stack[t] # << >> /\ Top(t).fn = "callback" /\ LuaFree(t)
        /\ Becomes(t, << Script >>) /\ timers' = timers /\ leaked' = leaked
    BY DEF CallUserDataFun, In, Top, TimersTypeOK, Stacks
  <1>2. Script \in FrameType /\ << Script >> \in Seq(FrameType) /\ Script.fn = "script"
    BY TimersAssumption DEF Script, FrameType
  <1>3. Frames(t)' = {Script} \cup Beneath(t) /\ Beneath(t)' = Beneath(t)
    BY <1>1, <1>2, Replaced
  <1>4. Frames(t) = {Top(t)} \cup Beneath(t)
    BY <1>1, FramesSplit
  <1>5. Stacks' /\ stack' = [stack EXCEPT ![t] = << Script >> \o Tail(stack[t])]
    BY <1>1, <1>2, Become
  <1>6. \A u \in Thread \ {t} : Frames(u)' = Frames(u) /\ Beneath(u)' = Beneath(u)
    BY <1>1, <1>5, OthersStay
  <1>7. TickOutermost'
    <2>1. Len(<< Script >>) = 1 /\ << Script >>[1] = Script
      OBVIOUS
    <2>2. \A i \in 1 .. Len(<< Script >>) : << Script >>[i].fn # "tick"
      BY <1>2, <2>1
    <2>3. QED BY <1>1, <1>2, <2>2, TickStaysOutermost
  <1>8. HoldsTimer(t)' => HoldsTimer(t)
    BY <1>1, <1>2, <1>3, <1>4 DEF HoldsTimer
  <1>9. QED BY <1>1, <1>2, <1>3, <1>4, <1>5, <1>6, <1>7, <1>8, ScriptStep

LEMMA KeptByHandleMsg ==
  ASSUME TimersInv, NEW t \in Thread, HandleMsg(t)
  PROVE  TimersInv'
  <1> USE DEF TimersInv
  <1>1. Stacks /\ stack[t] = << >> /\ LuaFree(t) /\ t # Main
        /\ Calls(t, Script) /\ timers' = timers /\ leaked' = leaked
    BY TimersAssumption DEF HandleMsg, TimersTypeOK, Stacks
  <1>2. Script \in FrameType /\ Script.fn = "script"
    BY TimersAssumption DEF Script, FrameType
  <1>3. /\ Stacks' /\ stack' = [stack EXCEPT ![t] = << Script >>]
        /\ stack'[t] = << Script >> /\ Frames(t)' = {Script} /\ Beneath(t)' = {}
    BY <1>1, <1>2, Called
  <1>4. Frames(t) = {}
    BY <1>1, FramesSplit
  <1>5. \A u \in Thread \ {t} :
          Frames(u)' = Frames(u) /\ Beneath(u)' = Beneath(u) /\ stack'[u] = stack[u]
    BY <1>1, <1>3, OthersStay
  <1>6. TickOutermost'
    <2>1. DOMAIN << Script >> = {1} /\ << Script >>[1] = Script
      OBVIOUS
    <2>2. QED BY <1>2, <1>3, <1>5, <2>1 DEF TickOutermost
  <1>7. ~HoldsTimer(t)'
    BY <1>1, <1>2, <1>3 DEF HoldsTimer
  <1>8. QED BY <1>1, <1>2, <1>3, <1>4, <1>5, <1>6, <1>7, ScriptStep

(* A call that returns, whether it was the script, an addTimer that was     *)
(* refused or a stopTimer.                                                  *)
LEMMA KeptByReturn ==
  ASSUME TimersInv, NEW t \in Thread, stack[t] # << >>, Returns(t), leaked' = leaked,
         Top(t).fn # "tick",
         DOMAIN timers' \subseteq DOMAIN timers,
         \A id \in DOMAIN timers' : timers'[id] = timers[id]
  PROVE  TimersInv'
  <1> USE DEF TimersInv
  <1>1. Stacks
    BY DEF TimersTypeOK, Stacks
  <1>2. Becomes(t, << >>) /\ Frames(t)' = Beneath(t) /\ Beneath(t)' \subseteq Beneath(t)
    BY <1>1, Returned
  <1>3. Frames(t) = {Top(t)} \cup Beneath(t)
    BY <1>1, FramesSplit
  <1>4. << >> \in Seq(FrameType) /\ Len(<< >>) = 0
    OBVIOUS
  <1>5. Stacks' /\ stack' = [stack EXCEPT ![t] = << >> \o Tail(stack[t])]
    BY <1>1, <1>2, <1>4, Become
  <1>6. \A u \in Thread \ {t} : Frames(u)' = Frames(u) /\ Beneath(u)' = Beneath(u)
    BY <1>1, <1>5, OthersStay
  <1>7. TickOutermost'
    <2>1. \A i \in 1 .. Len(<< >>) : << >>[i].fn = "tick" => In(t, "tick") /\ i = Len(<< >>)
      BY <1>4
    <2>2. QED BY <1>1, <1>2, <1>4, <2>1, TickStaysOutermost
  <1>8. HoldsTimer(t)' => HoldsTimer(t)
    BY <1>2, <1>3 DEF HoldsTimer
  <1>9. HoldsLua(t)' => HoldsLua(t)
    BY <1>2, <1>3 DEF HoldsLua
  <1>10. QED BY <1>1, <1>2, <1>3, <1>5, <1>6, <1>7, <1>8, <1>9, ScriptStep

(* The script's call of addTimer or stopTimer. *)
LEMMA KeptByScriptCall ==
  ASSUME TimersInv, NEW t \in Thread, In(t, "script"), Top(t).calls > 0,
         NEW called \in FrameType, called.fn \in {"addTimer", "stopTimer"},
         Becomes(t, << called, [Top(t) EXCEPT !.calls = @ - 1] >>),
         UNCHANGED << timers, leaked >>
  PROVE  TimersInv'
  <1> USE DEF TimersInv
  <1> DEFINE rest == [Top(t) EXCEPT !.calls = @ - 1]
             both == << called, rest >>
  <1>1. Stacks /\ stack[t] # << >> /\ Top(t).fn = "script"
    BY DEF In, Top, TimersTypeOK, Stacks
  <1>2. Frames(t) = {Top(t)} \cup Beneath(t) /\ Top(t) \in FrameType
    BY <1>1, FramesSplit
  <1>3. Top(t) \in [fn : {"script"}, calls : 0 .. MaxCalls]
    BY <1>1, <1>2 DEF FrameType
  <1>4. rest \in FrameType /\ rest.fn = "script"
    <2>1. rest \in [fn : {"script"}, calls : 0 .. MaxCalls]
      BY <1>3, TimersAssumption
    <2>2. QED BY <2>1 DEF FrameType
  <1> HIDE DEF rest
  <1>5. both \in Seq(FrameType) /\ Len(both) = 2 /\ both[1] = called /\ both[2] = rest
    BY <1>4
  <1>6. Frames(t)' = {called, rest} \cup Beneath(t) /\ Beneath(t)' = {rest} \cup Beneath(t)
    BY <1>1, <1>4, Nested DEF rest
  <1> HIDE DEF both
  <1>7. Becomes(t, both)
    BY DEF both, rest
  <1>8. Stacks' /\ stack' = [stack EXCEPT ![t] = both \o Tail(stack[t])]
    BY <1>1, <1>5, <1>7, Become
  <1>9. \A u \in Thread \ {t} : Frames(u)' = Frames(u) /\ Beneath(u)' = Beneath(u)
    BY <1>1, <1>8, OthersStay
  <1>10. TickOutermost'
    <2>1. \A i \in 1 .. Len(both) : both[i].fn # "tick"
      BY <1>4, <1>5
    <2>2. QED BY <1>1, <1>5, <1>7, <2>1, TickStaysOutermost
  <1>11. HoldsTimer(t)' => HoldsTimer(t)
    BY <1>2, <1>4, <1>6 DEF HoldsTimer
  <1>12. HoldsLua(t)
    BY <1>1, <1>2 DEF HoldsLua
  <1>13. QED BY <1>1, <1>2, <1>4, <1>6, <1>8, <1>9, <1>10, <1>11, <1>12, ScriptStep

(* The identifier chosen is free; the lock is, too, or the thread's own. *)
LEMMA KeptByAddTimer ==
  ASSUME TimersInv, NEW t \in Thread, AddTimer(t)
  PROVE  TimersInv'
  <1> USE DEF TimersInv
  <1>1. Stacks /\ stack[t] # << >> /\ Top(t).fn = "addTimer" /\ TimerFree(t)
        /\ timers' = timers /\ leaked' = leaked
    BY DEF AddTimer, In, Top, TimersTypeOK, Stacks
  <1>2. Frames(t) = {Top(t)} \cup Beneath(t) /\ Top(t) \in FrameType
    BY <1>1, FramesSplit
  <1>3. Top(t).start \in Start /\ Top(t).interval \in Interval
    <2>1. Top(t) \in [fn : {"addTimer"}, start : Start, interval : Interval]
      BY <1>1, <1>2 DEF FrameType
    <2>2. QED BY <2>1
  <1>4. PICK id \in FreeIds : Adds(t, id)
    BY DEF AddTimer
  <1>5. id \in TimerId /\ id \notin DOMAIN timers
    BY <1>4 DEF FreeIds
  <1> DEFINE adding == [fn |-> "adding", id |-> id, start |-> Top(t).start,
                        interval |-> Top(t).interval]
             callback == [fn |-> "callback", id |-> id]
  <1>6. adding \in FrameType /\ adding.fn = "adding" /\ adding.start = Top(t).start
        /\ adding.id = id
    BY <1>3, <1>5 DEF FrameType
  <1>7. callback \in FrameType /\ callback.fn = "callback"
    BY <1>5 DEF FrameType
  <1>8. Becomes(t, IF Top(t).start = 0 THEN << callback, adding >> ELSE << adding >>)
    BY <1>4 DEF Adds, Adding
  <1> HIDE DEF adding, callback
  <1>9. PICK frames \in Seq(FrameType) :
          /\ Becomes(t, frames)
          /\ \A i \in 1 .. Len(frames) : frames[i].fn # "tick"
          /\ Frames(t)' \subseteq {callback, adding} \cup Beneath(t)
          /\ Beneath(t) \subseteq Frames(t)'
          /\ \A f \in Beneath(t)' : f \in Beneath(t) \/ (f = adding /\ f.start = 0)
    <2>1. CASE Top(t).start = 0
      <3>1. /\ << callback, adding >> \in Seq(FrameType)
            /\ \A i \in 1 .. Len(<< callback, adding >>) : << callback, adding >>[i].fn # "tick"
        <4> DEFINE both == << callback, adding >>
        <4>1. both \in Seq(FrameType) /\ Len(both) = 2
              /\ both[1] = callback /\ both[2] = adding
          BY <1>6, <1>7
        <4> HIDE DEF both
        <4>2. both \in Seq(FrameType) /\ \A i \in 1 .. Len(both) : both[i].fn # "tick"
          BY <1>6, <1>7, <4>1
        <4>3. QED BY <4>2 DEF both
      <3>2. Becomes(t, << callback, adding >>)
        BY <1>8, <2>1
      <3>3. Frames(t)' = {callback, adding} \cup Beneath(t)
            /\ Beneath(t)' = {adding} \cup Beneath(t)
        BY <1>1, <1>6, <1>7, <3>2, Nested
      <3>4. /\ Frames(t)' \subseteq {callback, adding} \cup Beneath(t)
            /\ Beneath(t) \subseteq Frames(t)'
            /\ \A f \in Beneath(t)' : f \in Beneath(t) \/ (f = adding /\ f.start = 0)
        BY <1>6, <2>1, <3>3
      <3>5. QED BY <3>1, <3>2, <3>4, Zenon
    <2>2. CASE Top(t).start # 0
      <3>1. /\ << adding >> \in Seq(FrameType)
            /\ \A i \in 1 .. Len(<< adding >>) : << adding >>[i].fn # "tick"
        <4>1. << adding >> \in Seq(FrameType) /\ Len(<< adding >>) = 1 /\ << adding >>[1] = adding
          BY <1>6
        <4>2. QED BY <1>6, <4>1
      <3>2. Becomes(t, << adding >>)
        BY <1>8, <2>2
      <3>3. Frames(t)' = {adding} \cup Beneath(t) /\ Beneath(t)' = Beneath(t)
        BY <1>1, <1>6, <3>2, Replaced
      <3>4. /\ Frames(t)' \subseteq {callback, adding} \cup Beneath(t)
            /\ Beneath(t) \subseteq Frames(t)'
            /\ \A f \in Beneath(t)' : f \in Beneath(t) \/ (f = adding /\ f.start = 0)
        BY <3>3
      <3>5. QED BY <3>1, <3>2, <3>4, Zenon
    <2>3. QED BY <2>1, <2>2
  <1>10. Stacks' /\ stack' = [stack EXCEPT ![t] = frames \o Tail(stack[t])]
    BY <1>1, <1>9, Become
  <1>11. \A u \in Thread \ {t} : Frames(u)' = Frames(u) /\ Beneath(u)' = Beneath(u)
    BY <1>1, <1>10, OthersStay
  <1>12. TickOutermost'
    BY <1>1, <1>9, TickStaysOutermost
  <1>13. \A f \in FrameType : f.fn = "tick" => (f \in Frames(t)' <=> f \in Frames(t))
    BY <1>1, <1>2, <1>6, <1>7, <1>9
  <1>14. HoldsLua(t)' => HoldsLua(t)
    BY <1>2, <1>6, <1>7, <1>9 DEF HoldsLua
  <1>15. \A f \in Beneath(t)' : f \in Beneath(t) \/ (f.fn = "adding" => f.start = 0)
    BY <1>9
  <1>16. \A f \in Frames(t)' :
           f \in Frames(t) \/ (f.fn = "adding" => f.id \notin DOMAIN timers)
    BY <1>2, <1>5, <1>6, <1>7, <1>9
  <1>17. QED
    BY <1>1, <1>10, <1>11, <1>12, <1>13, <1>14, <1>15, <1>16, ScriptStep

(* The one place that stores a timer: nobody else is about to store one     *)
(* under its identifier, but an addTimer that lets the script run first.    *)
LEMMA KeptByAddTimerEnd ==
  ASSUME TimersInv, NEW t \in Thread, AddTimerEnd(t)
  PROVE  TimersInv'
  <1> USE DEF TimersInv
  <1> DEFINE top == Top(t)
             new == Timer(top.start, top.interval, ToCome(top.id), t)
  <1>1. Stacks /\ stack[t] # << >> /\ top.fn = "adding" /\ Returns(t) /\ leaked' = leaked
        /\ timers' = [id \in DOMAIN timers \cup {top.id} |->
                        IF id = top.id THEN new ELSE timers[id]]
    BY DEF AddTimerEnd, In, Top, TimersTypeOK, Stacks
  <1>2. Becomes(t, << >>) /\ Frames(t)' = Beneath(t) /\ Beneath(t)' \subseteq Beneath(t)
    BY <1>1, Returned
  <1>3. Frames(t) = {top} \cup Beneath(t) /\ top \in FrameType
    BY <1>1, FramesSplit
  <1>4. << >> \in Seq(FrameType) /\ Len(<< >>) = 0
    OBVIOUS
  <1>5. Stacks' /\ stack' = [stack EXCEPT ![t] = << >> \o Tail(stack[t])]
    BY <1>1, <1>2, <1>4, Become
  <1>6. \A u \in Thread \ {t} : Frames(u)' = Frames(u) /\ Beneath(u)' = Beneath(u)
    BY <1>1, <1>5, OthersStay
  <1>7. TickOutermost'
    <2>1. \A i \in 1 .. Len(<< >>) : << >>[i].fn = "tick" => In(t, "tick") /\ i = Len(<< >>)
      BY <1>4
    <2>2. QED BY <1>1, <1>2, <1>4, <2>1, TickStaysOutermost
  <1>8. TimerLockExclusive' /\ LuaLockExclusive'
    <2>1. HoldsTimer(t)' => HoldsTimer(t)
      BY <1>1, <1>2, <1>3 DEF HoldsTimer
    <2>2. HoldsLua(t)' => HoldsLua(t)
      BY <1>2, <1>3 DEF HoldsLua
    <2>3. QED BY <1>1, <1>6, <2>1, <2>2, LocksKept
  <1>9. StoresAtOnce'
    BY <1>2, <1>6 DEF StoresAtOnce
  <1>10. /\ top.id \in TimerId /\ new \in TimerType
         /\ new.owed = 0 /\ new.reborn = ToCome(top.id) /\ new.by = t
    <2>1. top \in [fn : {"adding"}, id : TimerId, start : Start, interval : Interval]
      BY <1>1, <1>3 DEF FrameType
    <2>2. ToCome(top.id) \in BOOLEAN
      BY DEF ToCome
    <2> HIDE DEF top
    <2>3. QED BY <2>1, <2>2 DEF Timer, TimerType
  <1> HIDE DEF new
  <1>11. TimersTypeOK'
    <2>1. DOMAIN timers' \subseteq TimerId
      BY <1>1, <1>10 DEF TimersTypeOK
    <2>2. \A id \in DOMAIN timers' : timers'[id] \in TimerType
      BY <1>1, <1>10 DEF TimersTypeOK
    <2>3. QED BY <1>1, <1>5, <2>1, <2>2 DEF TimersTypeOK, Stacks
  <1>12. Ticking' = Ticking
    <2>1. Main \in Thread
      BY DEF Thread
    <2>2. CASE t = Main
      BY <1>1, <1>2, <1>3, <2>2 DEF Ticking
    <2>3. CASE t # Main
      BY <1>6, <2>1, <2>3 DEF Ticking
    <2>4. QED BY <2>2, <2>3
  <1>13. \A id : ToCome(id)' = ToCome(id)
    BY <1>12 DEF ToCome
  <1>14. ClockExact'
    <2> SUFFICES ASSUME NEW id \in DOMAIN timers'
                 PROVE  \/ timers'[id].reborn
                        \/ ToCome(id) /\ \A f \in Ticking : timers'[id].owed = f.dTime
                        \/ ~ToCome(id) /\ timers'[id].owed = 0
      BY <1>12, <1>13 DEF ClockExact
    <2>1. CASE id = top.id
      BY <1>1, <1>10, <2>1
    <2>2. CASE id # top.id
      BY <1>1, <2>2 DEF ClockExact
    <2>3. QED BY <2>1, <2>2
  <1>15. OwnIdentifier'
    <2> SUFFICES ASSUME NEW u \in Thread, NEW f \in Frames(u)',
                        f.fn = "adding", f.id \in DOMAIN timers'
                 PROVE  f.start = 0 /\ timers'[f.id].by = u
      BY DEF OwnIdentifier
    <2>1. HoldsTimer(t)
      BY <1>1, <1>3 DEF HoldsTimer
    <2>2. f \in Frames(u)
      BY <1>2, <1>3, <1>6
    <2>3. u = t
      <3>1. HoldsTimer(u)
        BY <2>2 DEF HoldsTimer
      <3>2. QED BY <2>1, <3>1 DEF TimerLockExclusive
    <2>4. f.start = 0
      BY <1>2, <2>3 DEF StoresAtOnce
    <2>5. CASE f.id = top.id
      <3>1. timers'[f.id] = new
        BY <1>1, <2>5
      <3>2. QED BY <1>10, <2>3, <2>4, <3>1
    <2>6. CASE f.id # top.id
      <3>1. f.id \in DOMAIN timers /\ timers'[f.id] = timers[f.id]
        BY <1>1, <2>6
      <3>2. QED BY <2>2, <2>4, <3>1 DEF OwnIdentifier
    <2>7. QED BY <2>5, <2>6
  <1>16. QED BY <1>7, <1>8, <1>9, <1>11, <1>14, <1>15

-------------------------------------------------------------------------------
(* The steps of the tick. *)

(* Without a timer nothing but leaked changes. *)
LEMMA KeptByEmptyTick ==
  ASSUME TimersInv, stack[Main] = << >>, TimerFree(Main), leaked' = TRUE,
         UNCHANGED << timers, stack >>
  PROVE  TimersInv'
  <1> USE DEF TimersInv
  <1>1. Main \in Thread /\ \A t \in Thread : Frames(t)' = Frames(t) /\ Beneath(t)' = Beneath(t)
    BY DEF Thread, Frames, Beneath
  <1>2. TimersTypeOK'
    BY DEF TimersTypeOK
  <1>3. HoldsLua(Main)' = HoldsLua(Main)
    BY <1>1 DEF HoldsLua
  <1>4. TimerLockExclusive' /\ LuaLockExclusive'
    BY <1>1, <1>3, LocksKept
  <1>5. TickOutermost' /\ StoresAtOnce'
    BY <1>1 DEF TickOutermost, StoresAtOnce
  <1>6. Ticking' = Ticking
    BY <1>1 DEF Ticking
  <1>7. ClockExact'
    BY <1>6 DEF ClockExact, ToCome
  <1>8. OwnIdentifier'
    BY <1>1 DEF OwnIdentifier
  <1>9. QED BY <1>2, <1>4, <1>5, <1>7, <1>8

(* At the start of a tick every timer is owed its time, and to come. *)
LEMMA KeptByTickBegin ==
  ASSUME TimersInv, NEW d \in DTime, stack[Main] = << >>, TimerFree(Main),
         timers' = [id \in DOMAIN timers |-> [timers[id] EXCEPT !.owed = @ + d]],
         Calls(Main, [fn |-> "tick", dTime |-> d, todo |-> DOMAIN timers]),
         leaked' = leaked
  PROVE  TimersInv'
  <1> USE DEF TimersInv
  <1> DEFINE frame == [fn |-> "tick", dTime |-> d, todo |-> DOMAIN timers]
  <1>1. Main \in Thread /\ Stacks /\ frame \in FrameType
        /\ frame.fn = "tick" /\ frame.dTime = d /\ frame.todo = DOMAIN timers
    BY DEF Thread, Stacks, TimersTypeOK, FrameType
  <1>2. Calls(Main, frame)
    OBVIOUS
  <1> HIDE DEF frame
  <1>3. /\ Stacks' /\ stack' = [stack EXCEPT ![Main] = << frame >>]
        /\ stack'[Main] = << frame >> /\ Frames(Main)' = {frame} /\ Beneath(Main)' = {}
    BY <1>1, <1>2, Called
  <1>4. \A u \in Thread \ {Main} :
          Frames(u)' = Frames(u) /\ Beneath(u)' = Beneath(u) /\ stack'[u] = stack[u]
    BY <1>1, <1>3, OthersStay
  <1>5. \A id \in DOMAIN timers : timers'[id] \in TimerType /\ timers'[id].owed = timers[id].owed + d
                                  /\ timers'[id].reborn = timers[id].reborn
                                  /\ timers'[id].by = timers[id].by
    <2> SUFFICES ASSUME NEW id \in DOMAIN timers
                 PROVE  /\ timers'[id] \in TimerType /\ timers'[id].owed = timers[id].owed + d
                        /\ timers'[id].reborn = timers[id].reborn /\ timers'[id].by = timers[id].by
      OBVIOUS
    <2>1. timers[id] \in TimerType /\ d \in Nat
      BY TimersAssumption DEF TimersTypeOK
    <2>2. timers'[id] = [timers[id] EXCEPT !.owed = @ + d]
      OBVIOUS
    <2>3. QED BY <2>1, <2>2 DEF TimerType
  <1>6. TimersTypeOK'
    BY <1>3, <1>5 DEF TimersTypeOK, Stacks
  <1>7. TimerLockExclusive' /\ LuaLockExclusive'
    <2>1. ~HoldsLua(Main)'
      BY <1>1, <1>3 DEF HoldsLua
    <2>2. QED BY <1>1, <1>4, <2>1, LocksKept
  <1>8. TickOutermost'
    <2>1. DOMAIN << frame >> = {1} /\ Len(<< frame >>) = 1
      OBVIOUS
    <2>2. QED BY <1>3, <1>4, <2>1 DEF TickOutermost
  <1>9. StoresAtOnce'
    BY <1>3, <1>4 DEF StoresAtOnce
  <1>10. Ticking = {} /\ Ticking' = {frame}
    BY <1>1, <1>3, OneTick DEF Ticking
  <1>11. \A id \in DOMAIN timers : ~ToCome(id) /\ ToCome(id)'
    BY <1>1, <1>10 DEF ToCome
  <1>12. ClockExact'
    <2> SUFFICES ASSUME NEW id \in DOMAIN timers, ~timers'[id].reborn
                 PROVE  ToCome(id)' /\ \A f \in Ticking' : timers'[id].owed = f.dTime
      BY DEF ClockExact
    <2>1. timers[id].owed = 0
      BY <1>5, <1>11 DEF ClockExact
    <2>2. timers'[id].owed = d
      BY <1>5, <2>1, TimersAssumption
    <2>3. QED BY <1>1, <1>10, <1>11, <2>2
  <1>13. OwnIdentifier'
    <2> SUFFICES ASSUME NEW u \in Thread, NEW f \in Frames(u)',
                        f.fn = "adding", f.id \in DOMAIN timers'
                 PROVE  f.start = 0 /\ timers'[f.id].by = u
      BY DEF OwnIdentifier
    <2>1. f \in Frames(u)
      BY <1>1, <1>3, <1>4
    <2>2. f.id \in DOMAIN timers /\ timers'[f.id].by = timers[f.id].by
      BY <1>5
    <2>3. QED BY <2>1, <2>2 DEF OwnIdentifier
  <1>14. QED BY <1>6, <1>7, <1>8, <1>9, <1>12, <1>13

(* What a timer's clock shows after its turn. *)
LEMMA ServedTyped ==
  ASSUME NEW timer \in TimerType, NEW now \in Nat, NEW d \in Nat
  PROVE  /\ Served(timer, now, d) \in TimerType
         /\ Served(timer, now, d).owed = timer.owed - d
         /\ Served(timer, now, d).reborn = timer.reborn
         /\ Served(timer, now, d).by = timer.by
  <1>1. timer.start \in Int /\ timer.interval \in Nat
    <2>1. timer.start \in Start \cup {0} /\ timer.interval \in Interval
      BY DEF TimerType
    <2>2. (\A start \in Start \cup {0} : start \in Int) /\ Interval \subseteq Nat
      BY TimersAssumption
    <2>3. timer.start \in Int
      BY <2>1, <2>2
    <2>4. timer.interval \in Nat
      BY <2>1, <2>2
    <2>5. QED BY <2>3, <2>4
  <1>2. Clock(timer, now) \in Nat
    BY <1>1 DEF Clock, DueStart, DueInterval
  <1> DEFINE start == IF DueStart(timer, now) THEN 0 ELSE timer.start
             clock == Clock(timer, now)
  <1>3. start \in Start \cup {0} /\ clock \in Nat
    BY <1>2 DEF TimerType
  <1>4. Served(timer, now, d) = [timer EXCEPT !.owed = @ - d, !.now = clock, !.start = start]
    BY DEF Served
  <1> HIDE DEF start, clock
  <1>5. timer.owed - d \in Int
    BY DEF TimerType
  <1>6. [timer EXCEPT !.owed = @ - d, !.now = clock, !.start = start] \in TimerType
    BY <1>3, <1>5 DEF TimerType
  <1>7. Served(timer, now, d).owed = timer.owed - d
    BY <1>4 DEF TimerType
  <1>8. Served(timer, now, d).reborn = timer.reborn /\ Served(timer, now, d).by = timer.by
    BY <1>4 DEF TimerType
  <1>9. QED BY <1>4, <1>6, <1>7, <1>8

(* A turn of one timer takes it from those to come and from those owed.     *)
LEMMA KeptByTurn ==
  ASSUME TimersInv, ServeTimer
  PROVE  TimersInv'
  <1> USE DEF TimersInv
  <1>1. Main \in Thread /\ Stacks /\ stack[Main] # << >> /\ In(Main, "tick")
        /\ Top(Main).fn = "tick" /\ leaked' = leaked
    BY DEF Thread, Stacks, TimersTypeOK, ServeTimer, In, Top
  <1>2. Beneath(Main) = {} /\ Ticking = {Top(Main)} /\ Frames(Main) = {Top(Main)}
        /\ Top(Main) \in FrameType
    BY <1>1, OneTick, FramesSplit
  <1> DEFINE d == Top(Main).dTime
  <1>3. Top(Main) \in [fn : {"tick"}, dTime : DTime, todo : SUBSET TimerId]
    BY <1>1, <1>2 DEF FrameType
  <1>4. d \in DTime /\ d \in Nat
    BY <1>3, TimersAssumption
  <1>5. PICK id \in Top(Main).todo :
          LET now == timers[id].now + d
          IN  IF id \notin DOMAIN timers
                THEN Becomes(Main, << Left(id) >>) /\ UNCHANGED timers
                ELSE /\ timers' = [timers EXCEPT ![id] = Served(@, now, d)]
                     /\ Becomes(Main, IF DueStart(timers[id], now) \/ DueInterval(timers[id], now)
                                        THEN << [fn |-> "callback", id |-> id], Left(id) >>
                                        ELSE << Left(id) >>)
    BY DEF ServeTimer
  <1>6. id \in TimerId
    BY <1>3
  <1> DEFINE left == Left(id)
             callback == [fn |-> "callback", id |-> id]
  <1>7. left \in FrameType /\ left.fn = "tick" /\ left.dTime = d
        /\ left.todo = Top(Main).todo \ {id}
    <2>1. left \in [fn : {"tick"}, dTime : DTime, todo : SUBSET TimerId]
          /\ left.dTime = d /\ left.todo = Top(Main).todo \ {id}
      BY <1>3 DEF Left
    <2>2. QED BY <2>1 DEF FrameType
  <1>8. callback \in FrameType /\ callback.fn = "callback"
    BY <1>6 DEF FrameType
  <1>9. Becomes(Main, << left >>) \/ Becomes(Main, << callback, left >>)
    BY <1>5
  <1> HIDE DEF left, callback
  <1>10. PICK frames \in Seq(FrameType) :
           /\ Becomes(Main, frames)
           /\ \A i \in 1 .. Len(frames) : frames[i].fn = "tick" => i = Len(frames)
           /\ left \in Frames(Main)' /\ Frames(Main)' \subseteq {callback, left}
           /\ Beneath(Main)' \subseteq {left}
    <2>1. CASE Becomes(Main, << callback, left >>)
      <3> DEFINE both == << callback, left >>
      <3>1. both \in Seq(FrameType) /\ Len(both) = 2 /\ both[1] = callback /\ both[2] = left
        BY <1>7, <1>8
      <3>2. Frames(Main)' = {callback, left} /\ Beneath(Main)' = {left}
        BY <1>1, <1>2, <1>7, <1>8, <2>1, Nested
      <3>3. Becomes(Main, both)
        BY <2>1
      <3> HIDE DEF both
      <3>4. \A i \in 1 .. Len(both) : both[i].fn = "tick" => i = Len(both)
        BY <1>7, <1>8, <3>1
      <3>5. /\ left \in Frames(Main)' /\ Frames(Main)' \subseteq {callback, left}
            /\ Beneath(Main)' \subseteq {left}
        BY <3>2
      <3>6. QED BY <3>1, <3>3, <3>4, <3>5, Zenon
    <2>2. CASE Becomes(Main, << left >>)
      <3>1. << left >> \in Seq(FrameType) /\ Len(<< left >>) = 1
        BY <1>7
      <3>2. Frames(Main)' = {left} /\ Beneath(Main)' = {}
        BY <1>1, <1>2, <1>7, <2>2, Replaced
      <3>3. \A i \in 1 .. Len(<< left >>) : i = Len(<< left >>)
        BY <3>1
      <3>4. /\ left \in Frames(Main)' /\ Frames(Main)' \subseteq {callback, left}
            /\ Beneath(Main)' \subseteq {left}
        BY <3>2
      <3>5. QED BY <2>2, <3>1, <3>3, <3>4, Zenon
    <2>3. QED BY <1>9, <2>1, <2>2
  <1>11. Stacks' /\ stack' = [stack EXCEPT ![Main] = frames \o Tail(stack[Main])]
    BY <1>1, <1>10, Become
  <1>12. \A u \in Thread \ {Main} : Frames(u)' = Frames(u) /\ Beneath(u)' = Beneath(u)
    BY <1>1, <1>11, OthersStay
  <1>13. TickOutermost'
    BY <1>1, <1>10, TickStaysOutermost
  <1>14. TimerLockExclusive' /\ LuaLockExclusive'
    <2>1. HoldsTimer(Main)
      BY <1>1, <1>2 DEF HoldsTimer
    <2>2. ~HoldsLua(Main)'
      BY <1>7, <1>8, <1>10 DEF HoldsLua
    <2>3. QED BY <1>1, <1>12, <2>1, <2>2, LocksKept
  <1>15. StoresAtOnce'
    BY <1>7, <1>10, <1>12 DEF StoresAtOnce
  <1>16. Ticking' = {left}
    BY <1>7, <1>8, <1>10 DEF Ticking
  <1>17. ToCome(id) /\ ~ToCome(id)' /\ \A other : other # id => ToCome(other)' = ToCome(other)
    BY <1>2, <1>7, <1>16 DEF ToCome
  <1>18. /\ DOMAIN timers' = DOMAIN timers
         /\ \A other \in DOMAIN timers : other # id => timers'[other] = timers[other]
         /\ id \in DOMAIN timers => /\ timers'[id] \in TimerType
                                    /\ timers'[id].owed = timers[id].owed - d
                                    /\ timers'[id].reborn = timers[id].reborn
                                    /\ timers'[id].by = timers[id].by
    <2>1. CASE id \notin DOMAIN timers
      BY <1>5, <2>1
    <2>2. CASE id \in DOMAIN timers
      <3>1. timers' = [timers EXCEPT ![id] = Served(timers[id], timers[id].now + d, d)]
        BY <1>5, <2>2
      <3>2. timers[id] \in TimerType /\ timers[id].now + d \in Nat
        BY <1>4, <2>2 DEF TimersTypeOK, TimerType
      <3>3. timers'[id] = Served(timers[id], timers[id].now + d, d)
        BY <2>2, <3>1
      <3> DEFINE served == Served(timers[id], timers[id].now + d, d)
      <3>4. /\ served \in TimerType /\ served.owed = timers[id].owed - d
            /\ served.reborn = timers[id].reborn /\ served.by = timers[id].by
        BY <1>4, <3>2, ServedTyped
      <3> HIDE DEF d, served
      <3>5. timers'[id] = served /\ timers' = [timers EXCEPT ![id] = served]
        BY <3>1, <3>3 DEF d, served
      <3>6. QED BY <3>4, <3>5
    <2>3. QED BY <2>1, <2>2
  <1>19. TimersTypeOK'
    BY <1>1, <1>11, <1>18 DEF TimersTypeOK, Stacks
  <1>20. ClockExact'
    <2> SUFFICES ASSUME NEW other \in DOMAIN timers, ~timers'[other].reborn
                 PROVE  \/ ToCome(other)' /\ \A f \in Ticking' : timers'[other].owed = f.dTime
                        \/ ~ToCome(other)' /\ timers'[other].owed = 0
      BY <1>18 DEF ClockExact
    <2>1. CASE other = id
      <3>1. timers[id].owed = d
        BY <1>2, <1>17, <1>18, <2>1 DEF ClockExact
      <3>2. QED BY <1>4, <1>17, <1>18, <2>1, <3>1
    <2>2. CASE other # id
      <3>1. timers'[other] = timers[other] /\ ToCome(other)' = ToCome(other)
        BY <1>17, <1>18, <2>2
      <3>2. QED BY <1>2, <1>7, <1>16, <3>1 DEF ClockExact
    <2>3. QED BY <2>1, <2>2
  <1>21. OwnIdentifier'
    <2> SUFFICES ASSUME NEW u \in Thread, NEW f \in Frames(u)',
                        f.fn = "adding", f.id \in DOMAIN timers'
                 PROVE  f.start = 0 /\ timers'[f.id].by = u
      BY DEF OwnIdentifier
    <2>1. f \in Frames(u)
      BY <1>7, <1>8, <1>10, <1>12
    <2>2. f.id \in DOMAIN timers /\ timers'[f.id].by = timers[f.id].by
      BY <1>18
    <2>3. QED BY <2>1, <2>2 DEF OwnIdentifier
  <1>22. QED BY <1>13, <1>14, <1>15, <1>19, <1>20, <1>21

(* The tick ends when no timer is to come. *)
LEMMA KeptByTickEnd ==
  ASSUME TimersInv, TickEnd
  PROVE  TimersInv'
  <1> USE DEF TimersInv
  <1>1. Main \in Thread /\ Stacks /\ stack[Main] # << >> /\ In(Main, "tick")
        /\ Top(Main).todo = {} /\ Returns(Main) /\ timers' = timers /\ leaked' = leaked
    BY DEF Thread, Stacks, TimersTypeOK, TickEnd, In, Top
  <1>2. Beneath(Main) = {} /\ Ticking = {Top(Main)}
    BY <1>1, OneTick
  <1>3. Becomes(Main, << >>) /\ Frames(Main)' = {} /\ Beneath(Main)' = {}
    BY <1>1, <1>2, Returned
  <1>4. << >> \in Seq(FrameType) /\ Len(<< >>) = 0
    OBVIOUS
  <1>5. Stacks' /\ stack' = [stack EXCEPT ![Main] = << >> \o Tail(stack[Main])]
    BY <1>1, <1>3, <1>4, Become
  <1>6. \A u \in Thread \ {Main} : Frames(u)' = Frames(u) /\ Beneath(u)' = Beneath(u)
    BY <1>1, <1>5, OthersStay
  <1>7. TickOutermost'
    <2>1. \A i \in 1 .. Len(<< >>) : << >>[i].fn = "tick" => In(Main, "tick") /\ i = Len(<< >>)
      BY <1>4
    <2>2. QED BY <1>1, <1>3, <1>4, <2>1, TickStaysOutermost
  <1>8. TimerLockExclusive' /\ LuaLockExclusive'
    <2>1. ~HoldsLua(Main)'
      BY <1>3 DEF HoldsLua
    <2>2. HoldsTimer(Main)
      BY <1>1, FramesSplit DEF HoldsTimer, In, Top
    <2>3. QED BY <1>1, <1>6, <2>1, <2>2, LocksKept
  <1>9. StoresAtOnce' /\ OwnIdentifier'
    BY <1>1, <1>3, <1>6 DEF StoresAtOnce, OwnIdentifier
  <1>10. \A id : ~ToCome(id) /\ ~ToCome(id)'
    BY <1>1, <1>2, <1>3 DEF ToCome, Ticking
  <1>11. ClockExact'
    BY <1>1, <1>10 DEF ClockExact
  <1>12. TimersTypeOK'
    BY <1>1, <1>5 DEF TimersTypeOK, Stacks
  <1>13. QED BY <1>7, <1>8, <1>9, <1>11, <1>12

-------------------------------------------------------------------------------
(* The theorems. *)

LEMMA TimersInductive == TimersSpec => []TimersInv
  <1>1. TimersInit => TimersInv
    <2> SUFFICES ASSUME TimersInit PROVE TimersInv
      OBVIOUS
    <2>1. timers = << >> /\ DOMAIN timers = {} /\ leaked = FALSE /\ Main \in Thread
      BY DEF TimersInit, Thread
    <2>2. Script \in FrameType /\ Script.fn = "script"
      BY TimersAssumption DEF Script, FrameType
    <2>3. stack = [t \in Thread |-> IF t = Main THEN << Script >> ELSE << >>]
      BY DEF TimersInit
    <2>4. stack \in [Thread -> Seq(FrameType)]
      BY <2>2, <2>3
    <2>5. \A t \in Thread : /\ t = Main => stack[t] = << Script >>
                            /\ t # Main => stack[t] = << >>
      BY <2>3
    <2>6. DOMAIN << Script >> = {1} /\ Len(<< Script >>) = 1 /\ << Script >>[1] = Script
      OBVIOUS
    <2>7. Frames(Main) = {Script} /\ Beneath(Main) = {}
      BY <2>1, <2>5, <2>6 DEF Frames, Beneath
    <2>8. \A t \in Thread \ {Main} : Frames(t) = {} /\ Beneath(t) = {}
      BY <2>5 DEF Frames, Beneath
    <2>9. TimersTypeOK
      BY <2>1, <2>4 DEF TimersTypeOK
    <2>10. TimerLockExclusive /\ LuaLockExclusive
      BY <2>1, <2>2, <2>7, <2>8 DEF TimerLockExclusive, LuaLockExclusive, HoldsTimer, HoldsLua
    <2>11. TickOutermost
      BY <2>2, <2>5, <2>6 DEF TickOutermost
    <2>12. StoresAtOnce /\ OwnIdentifier /\ ClockExact
      BY <2>1, <2>2, <2>7, <2>8 DEF StoresAtOnce, OwnIdentifier, ClockExact
    <2>13. QED BY <2>9, <2>10, <2>11, <2>12 DEF TimersInv
  <1>2. TimersInv /\ [TimersNext]_timerVars => TimersInv'
    <2> SUFFICES ASSUME TimersInv, [TimersNext]_timerVars PROVE TimersInv'
      OBVIOUS
    <2>1. ASSUME NEW d \in DTime, Tick(d) PROVE TimersInv'
      <3>1. CASE DOMAIN timers = {}
        BY <2>1, <3>1, KeptByEmptyTick DEF Tick
      <3>2. CASE DOMAIN timers # {}
        BY <2>1, <3>2, KeptByTickBegin DEF Tick
      <3>3. QED BY <3>1, <3>2
    <2>2. CASE ServeTimer
      BY <2>2, KeptByTurn
    <2>3. CASE TickEnd
      BY <2>3, KeptByTickEnd
    <2>4. ASSUME NEW t \in Thread, ScriptReturns(t) PROVE TimersInv'
      <3>1. /\ stack[t] # << >> /\ Top(t).fn = "script" /\ Returns(t)
            /\ timers' = timers /\ leaked' = leaked
        BY <2>4 DEF ScriptReturns, In, Top
      <3>2. QED BY <3>1, KeptByReturn
    <2>5. ASSUME NEW t \in Thread, NEW start \in Start, NEW interval \in Interval,
                 ScriptAdds(t, start, interval)
          PROVE  TimersInv'
      <3> DEFINE called == [fn |-> "addTimer", start |-> start, interval |-> interval]
      <3>1. called \in FrameType /\ called.fn = "addTimer"
        BY DEF FrameType
      <3>2. /\ In(t, "script") /\ Top(t).calls > 0 /\ UNCHANGED << timers, leaked >>
            /\ Becomes(t, << called, [Top(t) EXCEPT !.calls = @ - 1] >>)
        BY <2>5 DEF ScriptAdds
      <3> HIDE DEF called
      <3>3. QED BY <3>1, <3>2, KeptByScriptCall
    <2>6. ASSUME NEW t \in Thread, NEW id \in TimerId, ScriptStops(t, id)
          PROVE  TimersInv'
      <3> DEFINE called == [fn |-> "stopTimer", id |-> id]
      <3>1. called \in FrameType /\ called.fn = "stopTimer"
        BY DEF FrameType
      <3>2. /\ In(t, "script") /\ Top(t).calls > 0 /\ UNCHANGED << timers, leaked >>
            /\ Becomes(t, << called, [Top(t) EXCEPT !.calls = @ - 1] >>)
        BY <2>6 DEF ScriptStops
      <3> HIDE DEF called
      <3>3. QED BY <3>1, <3>2, KeptByScriptCall
    <2>7. ASSUME NEW t \in Thread, AddTimerFull(t) PROVE TimersInv'
      <3>1. /\ stack[t] # << >> /\ Top(t).fn = "addTimer" /\ Returns(t)
            /\ timers' = timers /\ leaked' = leaked
        BY <2>7 DEF AddTimerFull, In, Top
      <3>2. QED BY <3>1, KeptByReturn
    <2>8. ASSUME NEW t \in Thread, StopTimer(t) PROVE TimersInv'
      <3>1. /\ stack[t] # << >> /\ Top(t).fn = "stopTimer" /\ Returns(t) /\ leaked' = leaked
            /\ timers' = [id \in DOMAIN timers \ {Top(t).id} |-> timers[id]]
        BY <2>8 DEF StopTimer, In, Top
      <3>2. DOMAIN timers' \subseteq DOMAIN timers
            /\ \A id \in DOMAIN timers' : timers'[id] = timers[id]
        BY <3>1
      <3>3. QED BY <3>1, <3>2, KeptByReturn
    <2>9. CASE UNCHANGED timerVars
      BY <2>9 DEF timerVars, TimersInv, TimersTypeOK, TimerLockExclusive, LuaLockExclusive,
                  TickOutermost, StoresAtOnce, ClockExact, OwnIdentifier, HoldsTimer, HoldsLua,
                  Frames, Beneath, Ticking, ToCome
    <2>10. QED
      BY <2>1, <2>2, <2>3, <2>4, <2>5, <2>6, <2>7, <2>8, <2>9, KeptByCallback, KeptByHandleMsg,
         KeptByAddTimer, KeptByAddTimerEnd, Zenon DEF TimersNext, ScriptSteps, LockedSteps
  <1>3. QED BY <1>1, <1>2, PTL DEF TimersSpec

(* The types of the table of timers and of the threads' calls. *)
THEOREM TimersTypeCorrect == TimersSpec => []TimersTypeOK
  <1>1. TimersInv => TimersTypeOK
    BY DEF TimersInv
  <1>2. QED BY <1>1, TimersInductive, PTL

(* Every timer is given every tick's time once, however the calls of the    *)
(* threads interleave and nest.                                             *)
THEOREM ClocksAreExact == TimersSpec => []ClockExact
  <1>1. TimersInv => ClockExact
    BY DEF TimersInv
  <1>2. QED BY <1>1, TimersInductive, PTL

(* Two timers share an identifier only when the start of one is 0 and the   *)
(* script it calls first adds the other on the same thread: no interleaving *)
(* of threads gives an addTimer's place to another.                         *)
THEOREM IdentifiersAreOwn == TimersSpec => []OwnIdentifier
  <1>1. TimersInv => OwnIdentifier
    BY DEF TimersInv
  <1>2. QED BY <1>1, TimersInductive, PTL

(* No two threads are ever inside _lock_timer, or inside _lua_lock, at a    *)
(* time: the recursive mutexes as the model has them do exclude.            *)
THEOREM LocksExclude == TimersSpec => [](TimerLockExclusive /\ LuaLockExclusive)
  <1>1. TimersInv => TimerLockExclusive /\ LuaLockExclusive
    BY DEF TimersInv
  <1>2. QED BY <1>1, TimersInductive, PTL
===============================================================================

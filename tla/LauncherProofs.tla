---------------------------- MODULE LauncherProofs -----------------------------
(***************************************************************************)
(* Theorems about Launcher, for any set of modules that the scripts        *)
(* register and any number of objects: the types, one object for each      *)
(* module, the uses of the configuration, and what a failed launch leaves. *)
(***************************************************************************)
EXTENDS Launcher, TLAPS

Before == {"init", "load", "spawn", "lua", "again", "refused", "shutdown", "hung"}
Running == {"destroy", "erase", "start", "loop"}

(* No script has run. *)
Quiet == ~luaRuns /\ call = << >> /\ misuses = {}

Nothing == DOMAIN modules = {} /\ alive = {} /\ luaStates = 0

(* What RegisterFirst leaves. *)
FirstTwo ==
  /\ DOMAIN modules = {CONFIG_MODULE, SERVER_MAP}
  /\ modules[CONFIG_MODULE] = 1 /\ modules[SERVER_MAP] = 2
  /\ alive = {1, 2} /\ luaStates = 0

(* What is there in each phase of the launch. *)
PhaseInv ==
  /\ modules = [m \in DOMAIN modules |-> modules[m]]
  /\ call # << >> => \E c \in Call : /\ call = << c >> /\ c.module \in Scripted \cup {None}
                                     /\ c.module = None <=> c.object = None
  /\ main \in Before => Quiet
  /\ main = "init" => Nothing /\ nObjects = 0 /\ globals = [m \in ModuleId |-> None]
  /\ main \in {"load", "spawn", "lua"} => FirstTwo /\ nObjects = 2
  /\ main = "again" => luaStates = 1
  /\ main \in {"scripts"} \cup Running => luaStates = 2
  /\ main = "scripts" => ~luaRuns
  /\ main \in Running => luaRuns
  /\ main = "refused" => FirstTwo
  /\ main \notin {"shutdown", "hung", "ended"} => ~failed
  /\ main = "shutdown" => failed
  /\ main \in {"shutdown", "hung"} => Nothing \/ FirstTwo
  /\ main = "ended" /\ failed => Nothing

LaunchTypeInv == LauncherTypeOK /\ PhaseInv

LEMMA Ids ==
  /\ CONFIG_MODULE \in ModuleId /\ SERVER_MAP \in ModuleId /\ LUA_MODULE \in ModuleId
  /\ CONFIG_MODULE # SERVER_MAP /\ LUA_MODULE # CONFIG_MODULE /\ LUA_MODULE # SERVER_MAP
  /\ Scripted \subseteq ModuleId /\ CONFIG_MODULE \notin Scripted
  /\ MYSQL_MODULE # None /\ MEMCACHED_MODULE # None /\ None \notin ModuleId
  /\ {1, 2, 3} \subseteq Object /\ None \notin Object
  BY LauncherAssumption
  DEF ModuleId, LUA_MODULE, CONFIG_MODULE, ROBOTS_MODULE, MYSQL_MODULE, MEMCACHED_MODULE,
      SERVER_MAP, GAMECONSOLE_MODULE, None, Object

(* Without a Lua module every module is destroyed. *)
LEMMA DestroyAllWithoutLua ==
  ASSUME LUA_MODULE \notin DOMAIN modules
  PROVE  DestroyAll = DOMAIN modules
  BY DEF DestroyAll, DestroyFails

LEMMA ShutdownLeavesNothing ==
  ASSUME Nothing \/ FirstTwo, Shutdown
  PROVE  Nothing' /\ modules' = [m \in DOMAIN modules' |-> modules'[m]]
<1>1. DestroyAll = DOMAIN modules /\ LUA_MODULE \notin DestroyAll
  BY Ids, DestroyAllWithoutLua DEF Nothing, FirstTwo
<1>2. modules' = [m \in {} |-> modules[m]] /\ luaStates' = luaStates
  BY <1>1 DEF Shutdown
<1>3. alive' = {}
  BY <1>1 DEF Shutdown, Nothing, FirstTwo
<1> QED
  BY <1>2, <1>3 DEF Nothing, FirstTwo

(* Registering or deleting an object keeps the types. *)
LEMMA RegisteredTypes ==
  ASSUME LauncherTypeOK, modules = [m \in DOMAIN modules |-> modules[m]],
         NEW m \in ModuleId, NEW object \in Object, NEW ok \in BOOLEAN, Registered(m, object, ok)
  PROVE  /\ DOMAIN modules' \subseteq ModuleId /\ \A n \in DOMAIN modules' : modules'[n] \in Object
         /\ globals' \in [ModuleId -> Object \cup {None}]
         /\ alive' \subseteq Object
         /\ modules' = [n \in DOMAIN modules' |-> modules'[n]]
  BY DEF LauncherTypeOK, Registered, Put

LEMMA LaunchTypeInit == LaunchInit => LaunchTypeInv
<1> SUFFICES ASSUME LaunchInit PROVE LaunchTypeInv
  OBVIOUS
<1>1. LauncherTypeOK
  <2>1. DOMAIN modules = {} /\ nObjects \in 0 .. MaxObjects /\ luaStates \in 0 .. 2
    BY LauncherAssumption DEF LaunchInit
  <2> QED
    BY <2>1 DEF LaunchInit, LauncherTypeOK
<1>2. PhaseInv
  BY DEF LaunchInit, PhaseInv, Quiet, Nothing, Before, Running
<1> QED
  BY <1>1, <1>2 DEF LaunchTypeInv

LEMMA LaunchTypeStep ==
  ASSUME LaunchTypeInv, [LaunchNext]_launchVars
  PROVE  LaunchTypeInv'
<1> USE DEF LaunchTypeInv
<1>0. MaxObjects \in Nat /\ MaxObjects >= 3 /\ nObjects \in Nat
  BY LauncherAssumption DEF LauncherTypeOK
<1>b. MayCall => main \in {"scripts"} \cup Running
  BY DEF MayCall, PhaseInv, Quiet, LauncherTypeOK, Before, Running
<1>c. ASSUME call # << >>
      PROVE  \E c \in Call : /\ call = << c >> /\ call[1] = c
                             /\ c.module # None => c.module \in ModuleId /\ c.object \in Object
  BY <1>c, Ids DEF PhaseInv, Call
<1>d. ASSUME NEW m \in Scripted \cup {None}, NEW object \in Object \cup {None},
             m = None <=> object = None, MayCall, Begins(m, object)
      PROVE  \E c \in Call : /\ call' = << c >> /\ c.module \in Scripted \cup {None}
                             /\ c.module = None <=> c.object = None
  <2>1. ConfigFor(m) \in Object \cup {None}
    BY Ids DEF ConfigFor, GetModule, IsExist, LauncherTypeOK
  <2>2. Runner \in {"init", "later"} /\ main \in {"scripts", "destroy", "erase", "start", "loop"}
    BY <1>d, <1>b DEF Runner, Running
  <2>3. m \in ModuleId \cup {None}
    BY Ids
  <2> DEFINE c == [by |-> Runner, module |-> m, object |-> object, config |-> ConfigFor(m), at |-> main]
  <2>4. c \in Call
    BY <2>1, <2>2, <2>3 DEF Call
  <2>5. call' = << c >>
    BY <1>d DEF Begins
  <2>6. c.module = m /\ c.object = object
    OBVIOUS
  <2> QED
    BY <1>d, <2>4, <2>5, <2>6
<1>1. ASSUME RegisterFirst
      PROVE  LaunchTypeInv'
  <2>1. LauncherTypeOK'
    BY <1>0, <1>1, Ids DEF RegisterFirst, LauncherTypeOK, scriptVars
  <2>2. PhaseInv'
    BY <1>1, Ids DEF RegisterFirst, PhaseInv, scriptVars, Quiet, Nothing, FirstTwo, Before, Running
  <2> QED
    BY <2>1, <2>2
<1>2. ASSUME NEW ok \in BOOLEAN, LoadConfig(ok)
      PROVE  LaunchTypeInv'
  BY <1>2 DEF LoadConfig, LauncherTypeOK, PhaseInv, scriptVars, Quiet, Nothing, FirstTwo, Before,
              Running, Call
<1>3. ASSUME Startup
      PROVE  LaunchTypeInv'
  BY <1>3 DEF Startup, LauncherTypeOK, PhaseInv, scriptVars, Quiet, Nothing, FirstTwo, Before, Running
<1>4. ASSUME NEW ok \in BOOLEAN, RegisterLua(ok)
      PROVE  LaunchTypeInv'
  <2>0. /\ main = "lua" /\ Quiet /\ FirstTwo /\ nObjects = 2 /\ nObjects' = 3 /\ ~failed
        /\ UNCHANGED scriptVars /\ 3 \in Object
    BY <1>4, Ids DEF RegisterLua, PhaseInv, Before
  <2>1. CASE ok
    <3>1. /\ Registered(LUA_MODULE, nObjects', TRUE)
          /\ luaStates' = luaStates + 1 /\ main' = "again" /\ UNCHANGED << pool, failed >>
      BY <1>4, <2>1 DEF RegisterLua
    <3>0. nObjects' \in Object /\ luaStates = 0
      BY <2>0 DEF FirstTwo
    <3>2. /\ LUA_MODULE \in ModuleId /\ TRUE \in BOOLEAN
          /\ modules = [m \in DOMAIN modules |-> modules[m]]
      BY Ids DEF PhaseInv
    <3>3. /\ DOMAIN modules' \subseteq ModuleId /\ \A n \in DOMAIN modules' : modules'[n] \in Object
          /\ globals' \in [ModuleId -> Object \cup {None}]
          /\ alive' \subseteq Object
          /\ modules' = [n \in DOMAIN modules' |-> modules'[n]]
      BY <3>0, <3>1, <3>2, RegisteredTypes
    <3>4. LauncherTypeOK'
      BY <1>0, <2>0, <3>0, <3>1, <3>3 DEF LauncherTypeOK, scriptVars
    <3> QED
      BY <2>0, <3>0, <3>1, <3>3, <3>4 DEF PhaseInv, Quiet, scriptVars, Before, Running
  <2>2. CASE ~ok
    <3>1. /\ Registered(LUA_MODULE, nObjects', FALSE)
          /\ luaStates' = luaStates /\ main' = "refused" /\ UNCHANGED << pool, failed >>
      BY <1>4, <2>2 DEF RegisterLua
    <3>2. modules' = modules /\ alive' = {1, 2}
      BY <2>0, <3>1 DEF Registered, FirstTwo
    <3>3. globals' \in [ModuleId -> Object \cup {None}] /\ nObjects' \in 0 .. MaxObjects
      <4>1. globals' = [globals EXCEPT ![LUA_MODULE] = None]
        BY <3>1 DEF Registered
      <4>2. globals \in [ModuleId -> Object \cup {None}]
        BY DEF LauncherTypeOK
      <4>3. globals' \in [ModuleId -> Object \cup {None}]
        BY <4>1, <4>2
      <4>4. nObjects' \in 0 .. MaxObjects
        BY <1>0, <2>0
      <4> QED
        BY <4>3, <4>4
    <3>4. LauncherTypeOK'
      BY <2>0, <3>1, <3>2, <3>3, Ids DEF LauncherTypeOK, scriptVars
    <3>5. FirstTwo'
      BY <2>0, <3>1, <3>2 DEF FirstTwo
    <3> QED
      BY <2>0, <3>1, <3>2, <3>4, <3>5 DEF PhaseInv, Quiet, scriptVars, Before, Running
  <2> QED
    BY <2>1, <2>2
<1>5. ASSUME InitLua
      PROVE  LaunchTypeInv'
  BY <1>5 DEF InitLua, LauncherTypeOK, PhaseInv, scriptVars, Quiet, Nothing, FirstTwo, Before, Running
<1>6. ASSUME LuaStart
      PROVE  LaunchTypeInv'
  BY <1>6 DEF LuaStart, LauncherTypeOK, PhaseInv, scriptVars, Quiet, Nothing, FirstTwo, Before, Running
<1>7. ASSUME DestroyDeletes
      PROVE  LaunchTypeInv'
  BY <1>7 DEF DestroyDeletes, LauncherTypeOK, PhaseInv, scriptVars, Quiet, Nothing, FirstTwo, Before,
              Running
<1>8. ASSUME DestroyErases
      PROVE  LaunchTypeInv'
  BY <1>8 DEF DestroyErases, Erased, Without, LauncherTypeOK, PhaseInv, scriptVars, Quiet, Nothing,
              FirstTwo, Before, Running
<1>9. ASSUME Start \/ Exits
      PROVE  LaunchTypeInv'
  BY <1>9 DEF Start, Exits, LauncherTypeOK, PhaseInv, scriptVars, Quiet, Nothing, FirstTwo, Before,
              Running
<1>10. ASSUME Shutdown
       PROVE  LaunchTypeInv'
  <2>1. /\ main' \in {"shutdown", "ended"} /\ failed' = TRUE
        /\ UNCHANGED << globals, nObjects, scriptVars >>
    BY <1>10 DEF Shutdown
  <2>2. Quiet /\ (Nothing \/ FirstTwo)
    BY <1>10 DEF Shutdown, PhaseInv, Before
  <2>3. Nothing' /\ modules' = [m \in DOMAIN modules' |-> modules'[m]]
    BY <1>10, <2>2, ShutdownLeavesNothing
  <2>4. pool' \in {"none", "up", "left", "gone"}
    BY <1>10 DEF Shutdown, PoolShutdown, HasThreads, LauncherTypeOK
  <2>5. LauncherTypeOK'
    BY <2>1, <2>2, <2>3, <2>4 DEF LauncherTypeOK, Nothing, Quiet, scriptVars
  <2> QED
    BY <2>1, <2>2, <2>3, <2>5 DEF PhaseInv, Quiet, scriptVars, Before, Running
<1>15. ASSUME ShutdownHangs
       PROVE  LaunchTypeInv'
  <2>1. Quiet /\ (Nothing \/ FirstTwo)
    BY <1>15 DEF ShutdownHangs, PhaseInv, Before
  <2> QED
    BY <1>15, <2>1 DEF ShutdownHangs, LauncherTypeOK, PhaseInv, scriptVars, Quiet, Nothing, FirstTwo,
                       Before, Running
<1>11. ASSUME ScriptConnects
       PROVE  LaunchTypeInv'
  <2>1. \E c \in Call : /\ call' = << c >> /\ c.module \in Scripted \cup {None}
                        /\ c.module = None <=> c.object = None
    BY <1>11, <1>d DEF ScriptConnects
  <2> QED
    BY <1>11, <1>b, <2>1
    DEF ScriptConnects, LauncherTypeOK, PhaseInv, Quiet, Nothing, FirstTwo, Before, Running
<1>12. ASSUME NEW m \in Scripted, ScriptRegisters(m)
       PROVE  LaunchTypeInv'
  <2>0. nObjects' \in Object /\ nObjects' \in 0 .. MaxObjects /\ m # None /\ nObjects' # None
    BY <1>0, <1>12, Ids DEF ScriptRegisters, Object
  <2>1. \E c \in Call : /\ call' = << c >> /\ c.module \in Scripted \cup {None}
                        /\ c.module = None <=> c.object = None
    <3>1. MayCall /\ Begins(m, nObjects')
      BY <1>12 DEF ScriptRegisters
    <3> QED
      BY <1>d, <2>0, <3>1
  <2>2. /\ UNCHANGED << modules, globals, luaStates, pool, luaRuns, main, failed, misuses >>
        /\ main \in {"scripts"} \cup Running /\ alive' \subseteq Object
    BY <1>12, <1>b, <2>0 DEF ScriptRegisters, LauncherTypeOK
  <2>3. LauncherTypeOK'
    BY <2>0, <2>1, <2>2 DEF LauncherTypeOK
  <2>4. PhaseInv'
    BY <2>1, <2>2 DEF PhaseInv, Before, Running
  <2> QED
    BY <2>3, <2>4
<1>13. ASSUME NEW ok \in BOOLEAN, CallEnds(ok)
       PROVE  LaunchTypeInv'
  <2>1. PICK c \in Call : /\ call = << c >> /\ call[1] = c
                          /\ c.module # None => c.module \in ModuleId /\ c.object \in Object
    BY <1>13, <1>c DEF CallEnds
  <2>2. /\ UNCHANGED << nObjects, luaStates, pool, luaRuns, main, failed >> /\ call' = << >>
        /\ misuses' \subseteq Call
    BY <1>13, <2>1 DEF CallEnds, LauncherTypeOK
  <2>3. main \in {"scripts"} \cup Running
    BY <1>13 DEF CallEnds, PhaseInv, Quiet, LauncherTypeOK, Before, Running
  <2>4. /\ DOMAIN modules' \subseteq ModuleId /\ \A n \in DOMAIN modules' : modules'[n] \in Object
        /\ globals' \in [ModuleId -> Object \cup {None}] /\ alive' \subseteq Object
        /\ modules' = [n \in DOMAIN modules' |-> modules'[n]]
    <3>1. CASE c.module = None
      BY <1>13, <2>1, <3>1 DEF CallEnds, LauncherTypeOK, PhaseInv
    <3>2. CASE c.module # None
      <4>1. Registered(c.module, c.object, ok)
        BY <1>13, <2>1, <3>2 DEF CallEnds
      <4>2. c.module \in ModuleId /\ c.object \in Object
        BY <2>1, <3>2
      <4> QED
        BY <4>1, <4>2, RegisteredTypes DEF PhaseInv
    <3> QED
      BY <3>1, <3>2
  <2>5. LauncherTypeOK'
    BY <2>2, <2>4 DEF LauncherTypeOK
  <2>6. PhaseInv'
    BY <2>2, <2>3, <2>4 DEF PhaseInv, Before, Running
  <2> QED
    BY <2>5, <2>6
<1>14. ASSUME UNCHANGED launchVars
       PROVE  LaunchTypeInv'
  BY <1>14 DEF launchVars, LauncherTypeOK, PhaseInv, Quiet, Nothing, FirstTwo
<1> QED
  BY <1>1, <1>2, <1>3, <1>4, <1>5, <1>6, <1>7, <1>8, <1>9, <1>10, <1>11, <1>12, <1>13, <1>14,
     <1>15
  DEF LaunchNext

(* Every variable keeps its type; there are never more than two lua_States. *)
THEOREM LauncherTypeCorrect == LaunchSpec => []LauncherTypeOK
<1>1. LaunchInit => LaunchTypeInv
  BY LaunchTypeInit
<1>2. LaunchTypeInv /\ [LaunchNext]_launchVars => LaunchTypeInv'
  BY LaunchTypeStep
<1>3. LaunchTypeInv => LauncherTypeOK
  BY DEF LaunchTypeInv
<1> QED
  BY <1>1, <1>2, <1>3, PTL DEF LaunchSpec

(* A launch that fails, if it comes to its end, leaves no module, no object *)
(* and no lua_State, although it shuts down twice when it is the Lua module *)
(* that fails.                                                              *)
THEOREM NothingIsLeft == LaunchSpec => []FailedLaunchLeavesNothing
<1>1. LaunchInit => LaunchTypeInv
  BY LaunchTypeInit
<1>2. LaunchTypeInv /\ [LaunchNext]_launchVars => LaunchTypeInv'
  BY LaunchTypeStep
<1>3. LaunchTypeInv => FailedLaunchLeavesNothing
  <2>1. ASSUME modules = [m \in DOMAIN modules |-> modules[m]], DOMAIN modules = {}
        PROVE  modules = << >>
    BY <2>1
  <2> QED
    BY <2>1 DEF LaunchTypeInv, PhaseInv, FailedLaunchLeavesNothing, Nothing
<1> QED
  BY <1>1, <1>2, <1>3, PTL DEF LaunchSpec

-------------------------------------------------------------------------------
(* The objects.  The one a call makes is newer than any that is registered, *)
(* and its module is not registered until the call ends.                    *)
MadeBy(calls) == {calls[i].object : i \in DOMAIN calls} \ {None}
Made == MadeBy(call)
HeldModules == {m \in DOMAIN modules : m # CONFIG_MODULE \/ main # "erase"}

ObjectInv ==
  /\ ~failed =>
       /\ alive = {modules[m] : m \in HeldModules} \cup Made
       /\ \A m, n \in DOMAIN modules : modules[m] = modules[n] => m = n
       /\ \A m \in ModuleId \ {CONFIG_MODULE} : globals[m] = GetModule(m)
       /\ \A m \in DOMAIN modules : modules[m] <= nObjects
  /\ \A c \in Call : call = << c >> /\ c.module # None =>
       /\ c.module \notin DOMAIN modules /\ c.object <= nObjects
       /\ \A m \in DOMAIN modules : modules[m] # c.object

LEMMA MadeByCall ==
  ASSUME NEW calls
  PROVE  /\ calls = << >> => MadeBy(calls) = {}
         /\ \A c \in Call : calls = << c >> => MadeBy(calls) = {c.object} \ {None}
<1>1. ASSUME calls = << >>
      PROVE  MadeBy(calls) = {}
  BY <1>1 DEF MadeBy
<1>2. ASSUME NEW c \in Call, calls = << c >>
      PROVE  MadeBy(calls) = {c.object} \ {None}
  <2>1. DOMAIN calls = {1} /\ calls[1] = c
    BY <1>2
  <2> QED
    BY <2>1 DEF MadeBy
<1> QED
  BY <1>1, <1>2

LEMMA ObjectInit == LaunchInit => ObjectInv
<1> SUFFICES ASSUME LaunchInit PROVE ObjectInv
  OBVIOUS
<1>1. Made = {} /\ DOMAIN modules = {} /\ alive = {} /\ call = << >>
  BY MadeByCall DEF Made, LaunchInit
<1>2. \A c \in Call : call # << c >>
  BY <1>1
<1>3. \A m \in ModuleId : globals[m] = GetModule(m)
  BY <1>1 DEF LaunchInit, GetModule, IsExist
<1>4. {modules[m] : m \in HeldModules} = {}
  BY <1>1 DEF HeldModules
<1> QED
  BY <1>1, <1>2, <1>3, <1>4 DEF ObjectInv

(* A step that neither makes, registers nor deletes an object. *)
LEMMA ObjectsStay ==
  ASSUME ObjectInv, UNCHANGED << modules, globals, alive, nObjects, call >>,
         ~failed' => ~failed, main # "erase", main' # "erase"
  PROVE  ObjectInv'
  BY DEF ObjectInv, Made, HeldModules, GetModule, IsExist

LEMMA ObjectStep ==
  ASSUME LaunchTypeInv, ObjectInv, [LaunchNext]_launchVars
  PROVE  ObjectInv'
<1>0. /\ nObjects \in Nat /\ modules = [m \in DOMAIN modules |-> modules[m]]
      /\ DOMAIN modules \subseteq ModuleId /\ \A m \in DOMAIN modules : modules[m] \in Object
      /\ globals \in [ModuleId -> Object \cup {None}] /\ alive \subseteq Object
      /\ Object \subseteq Nat
  BY LauncherAssumption DEF LaunchTypeInv, LauncherTypeOK, PhaseInv, Object
<1>a. ASSUME call' = << >>
      PROVE  Made' = {} /\ \A c \in Call : call' # << c >>
  BY <1>a, MadeByCall DEF Made
<1>1. ASSUME RegisterFirst
      PROVE  ObjectInv'
  <2>1. /\ call' = << >> /\ nObjects' = 2 /\ alive' = {1, 2} /\ main' = "load"
        /\ DOMAIN modules' = {CONFIG_MODULE, SERVER_MAP}
        /\ modules'[CONFIG_MODULE] = 1 /\ modules'[SERVER_MAP] = 2
    BY <1>1, Ids DEF RegisterFirst, LaunchTypeInv, PhaseInv, Quiet, Before, scriptVars
  <2>2. HeldModules' = {CONFIG_MODULE, SERVER_MAP}
    BY <2>1 DEF HeldModules
  <2>3. alive' = {modules'[m] : m \in HeldModules'}
    BY <2>1, <2>2
  <2>4. ASSUME NEW m \in ModuleId, m # CONFIG_MODULE
        PROVE  globals'[m] = GetModule(m)'
    <3>1. globals[m] = None
      BY <1>1 DEF RegisterFirst, LaunchTypeInv, PhaseInv
    <3>2. globals'[m] = IF m = SERVER_MAP THEN 2 ELSE None
      BY <1>0, <1>1, <2>4, <3>1, Ids DEF RegisterFirst
    <3> QED
      BY <2>1, <2>4, <3>2 DEF GetModule, IsExist
  <2>5. /\ \A m, n \in DOMAIN modules' : modules'[m] = modules'[n] => m = n
        /\ \A m \in DOMAIN modules' : modules'[m] <= nObjects'
    BY <2>1
  <2> QED
    BY <1>a, <2>1, <2>3, <2>4, <2>5 DEF ObjectInv
<1>2. ASSUME (\E ok \in BOOLEAN : LoadConfig(ok)) \/ Startup \/ InitLua \/ LuaStart \/ Start \/ Exits
      PROVE  ObjectInv'
  <2>1. /\ UNCHANGED << modules, globals, alive, nObjects, call >>
        /\ main # "erase" /\ main' # "erase" /\ (~failed' => ~failed)
    BY <1>2 DEF LoadConfig, Startup, InitLua, LuaStart, Start, Exits, scriptVars, LaunchTypeInv, PhaseInv
  <2> QED
    BY <2>1, ObjectsStay
<1>3. ASSUME NEW ok \in BOOLEAN, RegisterLua(ok)
      PROVE  ObjectInv'
  <2>1. /\ call' = << >> /\ nObjects = 2 /\ nObjects' = 3 /\ main = "lua" /\ FirstTwo /\ ~failed
    BY <1>3 DEF RegisterLua, LaunchTypeInv, PhaseInv, Quiet, Before, scriptVars
  <2>2. CASE ok
    <3>1. Registered(LUA_MODULE, nObjects', TRUE)
      BY <1>3, <2>2 DEF RegisterLua
    <3>2. /\ DOMAIN modules' = {CONFIG_MODULE, SERVER_MAP, LUA_MODULE} /\ modules'[LUA_MODULE] = 3
          /\ modules'[CONFIG_MODULE] = 1 /\ modules'[SERVER_MAP] = 2 /\ alive' = {1, 2, 3}
          /\ globals' = [globals EXCEPT ![LUA_MODULE] = 3]
      BY <2>1, <3>1, Ids DEF Registered, Put, FirstTwo
    <3>3. HeldModules' = {CONFIG_MODULE, SERVER_MAP, LUA_MODULE}
      <4>1. main' = "again"
        BY <1>3, <2>2 DEF RegisterLua
      <4> QED
        BY <3>2, <4>1 DEF HeldModules
    <3>4. alive' = {modules'[m] : m \in HeldModules'}
      BY <3>2, <3>3
    <3>5. \A m \in ModuleId \ {CONFIG_MODULE} : globals'[m] = GetModule(m)'
      BY <1>0, <2>1, <3>2, Ids DEF GetModule, IsExist, ObjectInv, FirstTwo
    <3> QED
      BY <1>a, <2>1, <3>2, <3>4, <3>5, Ids DEF ObjectInv
  <2>3. CASE ~ok
    <3>1. Registered(LUA_MODULE, nObjects', FALSE) /\ main' = "refused" /\ failed' = failed
      BY <1>3, <2>3 DEF RegisterLua
    <3>2. /\ modules' = modules /\ alive' = {1, 2} /\ globals' = [globals EXCEPT ![LUA_MODULE] = None]
          /\ DOMAIN modules = {CONFIG_MODULE, SERVER_MAP}
          /\ modules[CONFIG_MODULE] = 1 /\ modules[SERVER_MAP] = 2
      BY <2>1, <3>1 DEF Registered, FirstTwo
    <3>3. HeldModules' = {CONFIG_MODULE, SERVER_MAP}
      BY <3>1, <3>2 DEF HeldModules
    <3>4. alive' = {modules'[m] : m \in HeldModules'}
      BY <3>2, <3>3
    <3>5. \A m \in ModuleId \ {CONFIG_MODULE} : globals'[m] = GetModule(m)'
      BY <1>0, <2>1, <3>2, Ids DEF GetModule, IsExist, ObjectInv
    <3>6. /\ \A m, n \in DOMAIN modules' : modules'[m] = modules'[n] => m = n
          /\ \A m \in DOMAIN modules' : modules'[m] <= nObjects'
      BY <2>1, <3>2
    <3> QED
      BY <1>a, <2>1, <3>4, <3>5, <3>6 DEF ObjectInv
  <2> QED
    BY <2>2, <2>3
<1>4. ASSUME DestroyDeletes
      PROVE  ObjectInv'
  <2>1. UNCHANGED << modules, globals, nObjects, call, failed >> /\ main = "destroy"
    BY <1>4 DEF DestroyDeletes, scriptVars
  <2>2. Made' = Made
    BY <2>1 DEF Made
  <2>3. CASE ~IsExist(CONFIG_MODULE)
    BY <1>4, <2>1, <2>3, ObjectsStay DEF DestroyDeletes
  <2>4. CASE IsExist(CONFIG_MODULE)
    <3>1. main' = "erase" /\ alive' = alive \ {modules[CONFIG_MODULE]}
      BY <1>4, <2>4 DEF DestroyDeletes
    <3>2. HeldModules = DOMAIN modules /\ HeldModules' = DOMAIN modules \ {CONFIG_MODULE}
      BY <2>1, <3>1 DEF HeldModules
    <3>3. modules[CONFIG_MODULE] \notin Made
      <4>1. CASE call = << >>
        BY <4>1, MadeByCall DEF Made
      <4>2. CASE call # << >>
        <5>1. PICK c \in Call : call = << c >> /\ (c.module = None <=> c.object = None)
          BY <4>2 DEF LaunchTypeInv, PhaseInv
        <5>2. Made = {c.object} \ {None}
          BY <5>1, MadeByCall DEF Made
        <5>3. c.module # None => modules[CONFIG_MODULE] # c.object
          BY <2>4, <5>1 DEF ObjectInv, IsExist
        <5> QED
          BY <5>1, <5>2, <5>3
      <4> QED
        BY <4>1, <4>2
    <3>4. ~failed => alive' = {modules'[m] : m \in HeldModules'} \cup Made'
      <4> SUFFICES ASSUME ~failed
                   PROVE  alive' = {modules'[m] : m \in HeldModules'} \cup Made'
        OBVIOUS
      <4>1. /\ alive = {modules[m] : m \in DOMAIN modules} \cup Made
            /\ \A m \in DOMAIN modules : modules[m] = modules[CONFIG_MODULE] => m = CONFIG_MODULE
        BY <2>4, <3>2 DEF ObjectInv, IsExist
      <4> QED
        BY <2>1, <2>2, <3>1, <3>2, <3>3, <4>1
    <3>5. \A m : GetModule(m)' = GetModule(m)
      BY <2>1 DEF GetModule, IsExist
    <3> QED
      BY <2>1, <3>4, <3>5 DEF ObjectInv
  <2> QED
    BY <2>3, <2>4
<1>5. ASSUME DestroyErases
      PROVE  ObjectInv'
  <2>1. /\ UNCHANGED << globals, alive, nObjects, call, failed >> /\ main = "erase" /\ main' = "start"
        /\ modules' = [n \in DOMAIN modules \ {CONFIG_MODULE} |-> modules[n]]
    BY <1>5 DEF DestroyErases, scriptVars, Erased, Without
  <2>2. Made' = Made
    BY <2>1 DEF Made
  <2>3. /\ DOMAIN modules' = DOMAIN modules \ {CONFIG_MODULE}
        /\ \A m \in DOMAIN modules' : modules'[m] = modules[m]
        /\ HeldModules' = DOMAIN modules' /\ HeldModules = DOMAIN modules'
    BY <2>1 DEF HeldModules
  <2>4. {modules'[m] : m \in HeldModules'} = {modules[m] : m \in HeldModules}
    BY <2>3
  <2>5. \A m \in ModuleId \ {CONFIG_MODULE} : GetModule(m)' = GetModule(m)
    BY <2>3 DEF GetModule, IsExist
  <2> QED
    BY <2>1, <2>2, <2>3, <2>4, <2>5 DEF ObjectInv
<1>6. ASSUME Shutdown
      PROVE  ObjectInv'
  <2>1. call' = << >> /\ failed' = TRUE
    BY <1>6 DEF Shutdown, LaunchTypeInv, PhaseInv, Quiet, Before, scriptVars
  <2> QED
    BY <1>a, <2>1 DEF ObjectInv
<1>11. ASSUME ShutdownHangs
       PROVE  ObjectInv'
  <2>1. /\ UNCHANGED << modules, globals, alive, nObjects, call >>
        /\ main # "erase" /\ main' # "erase" /\ (~failed' => ~failed)
    BY <1>11 DEF ShutdownHangs, scriptVars
  <2> QED
    BY <2>1, ObjectsStay
<1>7. ASSUME ScriptConnects
      PROVE  ObjectInv'
  <2>1. /\ UNCHANGED << modules, globals, alive, nObjects, main, failed >> /\ call = << >>
        /\ \A c \in Call : call' = << c >> => c.module = None /\ c.object = None
    BY <1>7 DEF ScriptConnects, MayCall, Begins
  <2>2. Made = {} /\ Made' = {}
    <3>1. PICK c \in Call : call' = << c >>
      <4>1. call' # << >>
        BY <1>7 DEF ScriptConnects, Begins
      <4> QED
        BY <4>1, LaunchTypeStep DEF LaunchTypeInv, LauncherTypeOK
    <3> QED
      BY <2>1, <3>1, MadeByCall DEF Made
  <2>3. HeldModules' = HeldModules /\ \A m : GetModule(m)' = GetModule(m)
    BY <2>1 DEF HeldModules, GetModule, IsExist
  <2> QED
    BY <2>1, <2>2, <2>3 DEF ObjectInv
<1>8. ASSUME NEW m \in Scripted, ScriptRegisters(m)
      PROVE  ObjectInv'
  <2>1. /\ UNCHANGED << modules, globals, main, failed >> /\ call = << >> /\ m \notin DOMAIN modules
        /\ nObjects' = nObjects + 1 /\ alive' = alive \cup {nObjects + 1}
    BY <1>8 DEF ScriptRegisters, MayCall, NewOf, IsExist
  <2>2. \A c \in Call : call' = << c >> => c.module = m /\ c.object = nObjects + 1
    BY <1>8, <2>1 DEF ScriptRegisters, Begins
  <2>3. PICK d \in Call : call' = << d >>
    <3>1. call' # << >>
      BY <1>8 DEF ScriptRegisters, Begins
    <3> QED
      BY <3>1, LaunchTypeStep DEF LaunchTypeInv, LauncherTypeOK
  <2>4. Made = {} /\ Made' = {nObjects + 1}
    <3>1. nObjects + 1 # None
      BY <1>0 DEF None
    <3> QED
      BY <2>1, <2>2, <2>3, <3>1, MadeByCall DEF Made
  <2>5. HeldModules' = HeldModules /\ \A n : GetModule(n)' = GetModule(n)
    BY <2>1 DEF HeldModules, GetModule, IsExist
  <2>6. ~failed
    BY <1>8 DEF ScriptRegisters, MayCall, LaunchTypeInv, LauncherTypeOK, PhaseInv, Quiet, Before
  <2>7. \A n \in DOMAIN modules : modules[n] <= nObjects /\ modules[n] # nObjects + 1
    BY <1>0, <2>6 DEF ObjectInv
  <2> QED
    BY <1>0, <2>1, <2>2, <2>4, <2>5, <2>6, <2>7 DEF ObjectInv
<1>9. ASSUME NEW ok \in BOOLEAN, CallEnds(ok)
      PROVE  ObjectInv'
  <2>1. PICK c \in Call : /\ call = << c >> /\ c.module \in Scripted \cup {None}
                          /\ c.module = None <=> c.object = None
    BY <1>9 DEF CallEnds, LaunchTypeInv, PhaseInv
  <2>2. /\ UNCHANGED << nObjects, main, failed >> /\ call' = << >> /\ call[1] = c /\ ~failed
        /\ Made = {c.object} \ {None} /\ Made' = {}
    <3>1. ~failed
      BY <1>9, <2>1 DEF CallEnds, LaunchTypeInv, LauncherTypeOK, PhaseInv, Quiet, Nothing, Before
    <3> QED
      BY <1>9, <2>1, <3>1, MadeByCall DEF Made, CallEnds
  <2>3. CASE c.module = None
    <3>1. UNCHANGED << modules, globals, alive >>
      BY <1>9, <2>2, <2>3 DEF CallEnds
    <3>2. HeldModules' = HeldModules /\ \A n : GetModule(n)' = GetModule(n) /\ Made = {}
      BY <2>1, <2>2, <2>3, <3>1 DEF HeldModules, GetModule, IsExist
    <3> QED
      BY <1>a, <2>2, <3>1, <3>2 DEF ObjectInv
  <2>4. CASE c.module # None
    <3>1. Registered(c.module, c.object, ok)
      BY <1>9, <2>2, <2>4 DEF CallEnds
    <3>2. /\ c.module \in ModuleId /\ c.module # CONFIG_MODULE /\ c.module \notin DOMAIN modules
          /\ c.object <= nObjects /\ \A m \in DOMAIN modules : modules[m] # c.object
          /\ Made = {c.object}
      BY <2>1, <2>2, <2>4, Ids DEF ObjectInv
    <3>3. /\ alive = {modules[m] : m \in HeldModules} \cup {c.object}
          /\ \A m, n \in DOMAIN modules : modules[m] = modules[n] => m = n
          /\ \A m \in ModuleId \ {CONFIG_MODULE} : globals[m] = GetModule(m)
          /\ \A m \in DOMAIN modules : modules[m] <= nObjects
      BY <2>2, <3>2 DEF ObjectInv
    <3>4. CASE ok
      <4>1. /\ DOMAIN modules' = DOMAIN modules \cup {c.module} /\ modules'[c.module] = c.object
            /\ \A m \in DOMAIN modules : modules'[m] = modules[m]
            /\ globals' = [globals EXCEPT ![c.module] = c.object] /\ alive' = alive \cup {c.object}
        BY <3>1, <3>2, <3>4 DEF Registered, Put
      <4>2. HeldModules' = HeldModules \cup {c.module} /\ HeldModules \subseteq DOMAIN modules
        BY <2>2, <3>2, <4>1 DEF HeldModules
      <4>3. alive' = {modules'[m] : m \in HeldModules'}
        BY <3>3, <4>1, <4>2
      <4>4. \A m \in ModuleId \ {CONFIG_MODULE} : globals'[m] = GetModule(m)'
        BY <1>0, <3>2, <3>3, <4>1 DEF GetModule, IsExist
      <4>5. /\ \A m, n \in DOMAIN modules' : modules'[m] = modules'[n] => m = n
            /\ \A m \in DOMAIN modules' : modules'[m] <= nObjects
        BY <3>2, <3>3, <4>1
      <4> QED
        BY <1>a, <2>2, <4>3, <4>4, <4>5 DEF ObjectInv
    <3>5. CASE ~ok
      <4>1. /\ modules' = modules /\ globals' = [globals EXCEPT ![c.module] = None]
            /\ alive' = alive \ {c.object}
        BY <3>1, <3>5 DEF Registered
      <4>2. HeldModules' = HeldModules /\ HeldModules \subseteq DOMAIN modules
        BY <2>2, <4>1 DEF HeldModules
      <4>3. alive' = {modules'[m] : m \in HeldModules'}
        BY <3>2, <3>3, <4>1, <4>2
      <4>4. \A m \in ModuleId \ {CONFIG_MODULE} : globals'[m] = GetModule(m)'
        BY <1>0, <3>2, <3>3, <4>1 DEF GetModule, IsExist
      <4> QED
        BY <1>a, <2>2, <3>3, <4>1, <4>3, <4>4 DEF ObjectInv
    <3> QED
      BY <3>4, <3>5
  <2> QED
    BY <2>3, <2>4
<1>10. ASSUME UNCHANGED launchVars
       PROVE  ObjectInv'
  <2>1. HeldModules' = HeldModules /\ Made' = Made /\ \A n : GetModule(n)' = GetModule(n)
    BY <1>10 DEF launchVars, HeldModules, Made, GetModule, IsExist
  <2> QED
    BY <1>10, <2>1 DEF launchVars, ObjectInv
<1> QED
  BY <1>1, <1>2, <1>3, <1>4, <1>5, <1>6, <1>7, <1>8, <1>9, <1>10, <1>11 DEF LaunchNext

(* Until a shutdown the objects that exist are those registered, one for    *)
(* each module, and the one whose Init runs; GData agrees with the map.     *)
THEOREM EachModuleOneObject == LaunchSpec => []OneObjectEach
<1>1. LaunchInit => LaunchTypeInv /\ ObjectInv
  BY LaunchTypeInit, ObjectInit
<1>2. LaunchTypeInv /\ ObjectInv /\ [LaunchNext]_launchVars => (LaunchTypeInv /\ ObjectInv)'
  BY LaunchTypeStep, ObjectStep
<1>3. ObjectInv => OneObjectEach
  BY DEF ObjectInv, OneObjectEach, HeldModules, Made, MadeBy
<1> QED
  BY <1>1, <1>2, <1>3, PTL DEF LaunchSpec

-------------------------------------------------------------------------------
(* The configuration.  It is alive, and both pointers to it are right,      *)
(* while the init functions run; its entry has gone when Start is called.   *)
ConfigInv ==
  /\ main \in {"load", "spawn", "lua", "again", "scripts"} =>
       /\ IsExist(CONFIG_MODULE) /\ modules[CONFIG_MODULE] \in alive
       /\ globals[CONFIG_MODULE] = modules[CONFIG_MODULE]
  /\ main \in {"start", "loop"} => ~IsExist(CONFIG_MODULE)
  /\ \A c \in Call : call = << c >> =>
       /\ c.by = "init" => main = "scripts" /\ c.config = modules[CONFIG_MODULE]
       /\ c.by = "later" => c.at \in {"destroy", "erase"} \/ c.module = MYSQL_MODULE \/ c.config = None

ConfigStepInv == LaunchTypeInv /\ ObjectInv /\ ConfigInv /\ OnlyConfigUsedDead

LEMMA ConfigInit == LaunchInit => ConfigInv /\ OnlyConfigUsedDead
<1> SUFFICES ASSUME LaunchInit PROVE ConfigInv /\ OnlyConfigUsedDead
  OBVIOUS
<1>1. \A c \in Call : call # << c >>
  BY DEF LaunchInit
<1> QED
  BY <1>1 DEF LaunchInit, ConfigInv, OnlyConfigUsedDead

LEMMA ConfigStep ==
  ASSUME ConfigStepInv, [LaunchNext]_launchVars
  PROVE  ConfigInv' /\ OnlyConfigUsedDead'
<1>0. /\ LaunchTypeInv /\ ObjectInv /\ ConfigInv /\ OnlyConfigUsedDead /\ LauncherTypeOK /\ PhaseInv
  BY DEF ConfigStepInv, LaunchTypeInv
<1>a. ASSUME call' = << >>, misuses' = misuses,
             main' \in {"load", "spawn", "lua", "again", "scripts"} =>
               /\ IsExist(CONFIG_MODULE)' /\ modules'[CONFIG_MODULE] \in alive'
               /\ globals'[CONFIG_MODULE] = modules'[CONFIG_MODULE],
             main' \in {"start", "loop"} => ~IsExist(CONFIG_MODULE)'
      PROVE  ConfigInv' /\ OnlyConfigUsedDead'
  <2>1. \A c \in Call : call' # << c >>
    BY <1>a
  <2> QED
    BY <1>0, <1>a, <2>1 DEF ConfigInv, OnlyConfigUsedDead
<1>1. ASSUME RegisterFirst
      PROVE  ConfigInv' /\ OnlyConfigUsedDead'
  <2>1. /\ call' = << >> /\ misuses' = misuses /\ main' = "load" /\ IsExist(CONFIG_MODULE)'
        /\ modules'[CONFIG_MODULE] = 1 /\ 1 \in alive'
    BY <1>0, <1>1, Ids DEF RegisterFirst, PhaseInv, Quiet, Before, scriptVars, IsExist
  <2>2. globals'[CONFIG_MODULE] = 1
    BY <1>0, <1>1, Ids DEF RegisterFirst, LauncherTypeOK
  <2> QED
    BY <1>a, <2>1, <2>2
<1>2. ASSUME (\E ok \in BOOLEAN : LoadConfig(ok)) \/ Startup \/ InitLua
      PROVE  ConfigInv' /\ OnlyConfigUsedDead'
  <2>1. /\ UNCHANGED << modules, globals, alive, call, misuses >> /\ call = << >>
        /\ main \in {"load", "spawn", "again"} /\ main' \in {"spawn", "shutdown", "lua", "scripts"}
    BY <1>0, <1>2 DEF LoadConfig, Startup, InitLua, scriptVars, PhaseInv, Quiet, Before
  <2> QED
    BY <1>0, <1>a, <2>1 DEF ConfigInv, IsExist
<1>3. ASSUME NEW ok \in BOOLEAN, RegisterLua(ok)
      PROVE  ConfigInv' /\ OnlyConfigUsedDead'
  <2>1. call' = << >> /\ misuses' = misuses /\ main = "lua"
    BY <1>0, <1>3 DEF RegisterLua, PhaseInv, Quiet, Before, scriptVars
  <2>2. CASE ok
    <3>1. Registered(LUA_MODULE, nObjects', TRUE) /\ main' = "again"
      BY <1>3, <2>2 DEF RegisterLua
    <3>2. /\ CONFIG_MODULE \in DOMAIN modules' /\ modules'[CONFIG_MODULE] = modules[CONFIG_MODULE]
          /\ globals'[CONFIG_MODULE] = globals[CONFIG_MODULE] /\ modules[CONFIG_MODULE] \in alive'
      BY <1>0, <2>1, <3>1, Ids DEF Registered, Put, ConfigInv, IsExist, LauncherTypeOK
    <3> QED
      BY <1>0, <1>a, <2>1, <3>1, <3>2 DEF ConfigInv, IsExist
  <2>3. CASE ~ok
    <3>1. main' = "refused"
      BY <1>3, <2>3 DEF RegisterLua
    <3> QED
      BY <1>a, <2>1, <3>1
  <2> QED
    BY <2>2, <2>3
<1>4. ASSUME LuaStart \/ DestroyDeletes \/ DestroyErases \/ Start \/ Exits
      PROVE  ConfigInv' /\ OnlyConfigUsedDead'
  <2>1. /\ UNCHANGED << call, misuses >> /\ (main = "scripts" => call = << >>)
        /\ main' \in {"destroy", "erase", "start", "loop", "ended"}
        /\ main' \in {"start", "loop"} => ~IsExist(CONFIG_MODULE)'
    BY <1>0, <1>4 DEF LuaStart, DestroyDeletes, DestroyErases, Start, Exits, scriptVars, IsExist,
                      Erased, Without, ConfigInv
  <2>2. \A c \in Call : call = << c >> => c.by = "later"
    BY <1>0, <2>1 DEF ConfigInv, Call
  <2> QED
    BY <1>0, <2>1, <2>2 DEF ConfigInv, OnlyConfigUsedDead
<1>5. ASSUME Shutdown \/ ShutdownHangs
      PROVE  ConfigInv' /\ OnlyConfigUsedDead'
  <2>1. call' = << >> /\ misuses' = misuses /\ main' \in {"shutdown", "hung", "ended"}
    BY <1>0, <1>5 DEF Shutdown, ShutdownHangs, PhaseInv, Quiet, Before, scriptVars
  <2> QED
    BY <1>a, <2>1
<1>6. ASSUME NEW m \in Scripted \cup {None}, NEW object, MayCall, Begins(m, object),
             UNCHANGED << modules, globals, main, misuses >>, alive \subseteq alive'
      PROVE  ConfigInv' /\ OnlyConfigUsedDead'
  <2>1. main \in {"scripts"} \cup Running
    BY <1>0, <1>6 DEF MayCall, PhaseInv, Quiet, LauncherTypeOK, Before, Running
  <2>2. ASSUME NEW c \in Call, call' = << c >>
        PROVE  /\ c.by = Runner /\ c.module = m /\ c.config = ConfigFor(m) /\ c.at = main
    BY <1>6, <2>2 DEF Begins
  <2>3. Runner = "init" => main = "scripts" /\ ConfigFor(m) = modules[CONFIG_MODULE]
    BY <1>0, <1>6, <2>1 DEF Runner, MayCall, PhaseInv, Running, ConfigFor, GetModule, ConfigInv
  <2>4. Runner = "later" =>
          main \in {"destroy", "erase"} \/ m = MYSQL_MODULE \/ ConfigFor(m) = None
    BY <1>0, <2>1 DEF Runner, PhaseInv, Running, ConfigFor, GetModule, ConfigInv
  <2> QED
    BY <1>0, <1>6, <2>2, <2>3, <2>4 DEF ConfigInv, OnlyConfigUsedDead, IsExist
<1>7. ASSUME ScriptConnects
      PROVE  ConfigInv' /\ OnlyConfigUsedDead'
  BY <1>6, <1>7 DEF ScriptConnects
<1>8. ASSUME NEW m \in Scripted, ScriptRegisters(m)
      PROVE  ConfigInv' /\ OnlyConfigUsedDead'
  BY <1>6, <1>8 DEF ScriptRegisters
<1>9. ASSUME NEW ok \in BOOLEAN, CallEnds(ok)
      PROVE  ConfigInv' /\ OnlyConfigUsedDead'
  <2>1. PICK c \in Call : /\ call = << c >> /\ c.module \in Scripted \cup {None}
                          /\ c.module = None <=> c.object = None
    BY <1>0, <1>9 DEF CallEnds, PhaseInv
  <2>2. main' = main /\ call' = << >> /\ call[1] = c /\ \A d \in Call : call' # << d >>
    BY <1>9, <2>1 DEF CallEnds
  <2>3. \/ UNCHANGED << modules, globals, alive >>
        \/ c.module # None /\ Registered(c.module, c.object, ok)
    BY <1>9, <2>2 DEF CallEnds
  <2>4. /\ IsExist(CONFIG_MODULE)' <=> IsExist(CONFIG_MODULE)
        /\ IsExist(CONFIG_MODULE) => modules'[CONFIG_MODULE] = modules[CONFIG_MODULE]
        /\ globals'[CONFIG_MODULE] = globals[CONFIG_MODULE]
        /\ IsExist(CONFIG_MODULE) /\ modules[CONFIG_MODULE] \in alive => modules[CONFIG_MODULE] \in alive'
    <3>1. CASE UNCHANGED << modules, globals, alive >>
      BY <3>1 DEF IsExist
    <3>2. CASE c.module # None /\ Registered(c.module, c.object, ok)
      <4>1. c.module # CONFIG_MODULE /\ \A m \in DOMAIN modules : modules[m] # c.object
        BY <1>0, <2>1, <3>2, Ids DEF ObjectInv
      <4> QED
        BY <1>0, <3>2, <4>1 DEF Registered, Put, IsExist, LauncherTypeOK
    <3> QED
      BY <2>3, <3>1, <3>2
  <2>5. misuses' = misuses \/ (misuses' = misuses \cup {c} /\ c.config \notin alive /\ c.config # None)
    BY <1>9, <2>2 DEF CallEnds, UsesConfig
  <2>6. c.config \notin alive /\ c.config # None =>
          c.by = "later" /\ (c.at \in {"destroy", "erase"} \/ c.module = MYSQL_MODULE)
    BY <1>0, <2>1 DEF ConfigInv, Call
  <2> QED
    BY <1>0, <2>2, <2>4, <2>5, <2>6 DEF ConfigInv, OnlyConfigUsedDead
<1>10. ASSUME UNCHANGED launchVars
       PROVE  ConfigInv' /\ OnlyConfigUsedDead'
  BY <1>0, <1>10 DEF launchVars, ConfigInv, OnlyConfigUsedDead, IsExist
<1> QED
  BY <1>1, <1>2, <1>3, <1>4, <1>5, <1>7, <1>8, <1>9, <1>10 DEF LaunchNext

(* The configuration (whose uses alone are recorded) is used after its end  *)
(* never by the init functions, and later only by a call that began when    *)
(* DestroyModule had begun but not ended (registering a module, connecting  *)
(* to a server or listening), or by MysqlModule::Init.                      *)
THEOREM ConfigUsedDeadOnlyThen == LaunchSpec => []OnlyConfigUsedDead
<1>1. LaunchInit => ConfigStepInv
  BY LaunchTypeInit, ObjectInit, ConfigInit DEF ConfigStepInv
<1>2. ConfigStepInv /\ [LaunchNext]_launchVars => ConfigStepInv'
  BY LaunchTypeStep, ObjectStep, ConfigStep DEF ConfigStepInv
<1>3. ConfigStepInv => OnlyConfigUsedDead
  BY DEF ConfigStepInv
<1> QED
  BY <1>1, <1>2, <1>3, PTL DEF LaunchSpec
===============================================================================

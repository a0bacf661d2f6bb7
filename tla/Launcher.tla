------------------------------- MODULE Launcher -------------------------------
(***************************************************************************)
(* The start of the server: main.cpp and Launcher (launcher.cpp), the      *)
(* modules of ModuleManager (modulemanager.cpp), each with its pointer in  *)
(* GData (gdata.cpp), and what the scripts ask of them through tolua.cpp.  *)
(*                                                                         *)
(* Init starts the Lua thread and destroys the configuration module after  *)
(* it: from then on a script that registers a module or connects to a      *)
(* server may run while, or after, the object goes that it reads.  The     *)
(* scripts run one at a time, under _lua_lock: on the main thread in the   *)
(* init functions; later on the Lua thread, in the main thread's ticks, on *)
(* the console's and on the robots'.  Objects are numbered as they are     *)
(* made.  The accesses of std::map that overlap on two threads are taken   *)
(* as atomic.                                                              *)
(***************************************************************************)
EXTENDS Integers, FiniteSets

CONSTANTS
  Scripted,    (* the modules scripts register                              *)
  MaxObjects   (* bound: objects ever made                                  *)

(* The ids of modulemanager.h. *)
LUA_MODULE == 1
CONFIG_MODULE == 2
ROBOTS_MODULE == 4
MYSQL_MODULE == 5
MEMCACHED_MODULE == 6
SERVER_MAP == 7
GAMECONSOLE_MODULE == 8
ModuleId == {LUA_MODULE, CONFIG_MODULE, ROBOTS_MODULE, MYSQL_MODULE, MEMCACHED_MODULE,
             SERVER_MAP, GAMECONSOLE_MODULE}

ASSUME LauncherAssumption ==
  /\ Scripted \subseteq {ROBOTS_MODULE, MYSQL_MODULE, MEMCACHED_MODULE, GAMECONSOLE_MODULE}
  /\ MaxObjects \in Nat /\ MaxObjects >= 3

None == 0
Object == 1 .. MaxObjects

VARIABLES
  modules,     (* ModuleManager::_modules                                   *)
  globals,     (* the g_...module pointers of GData                         *)
  alive,       (* the objects that exist                                    *)
  nObjects,    (* objects ever made                                         *)
  luaStates,   (* lua_States open                                           *)
  pool,        (* the thread pool's threads: none, up, some left, all gone  *)
  luaRuns,     (* the Lua thread takes messages, other threads may follow   *)
  main,        (* where the main thread is                                  *)
  failed,      (* Init returned false                                       *)
  call,        (* the script's call that uses the configuration, if any     *)
  misuses      (* ghost: the uses of an object that was no more             *)

launchVars ==
  << modules, globals, alive, nObjects, luaStates, pool, luaRuns, main, failed, call, misuses >>
scriptVars == << luaRuns, call, misuses >>

LaunchInit ==
  /\ modules = << >> /\ globals = [m \in ModuleId |-> None]
  /\ alive = {} /\ nObjects = 0 /\ luaStates = 0 /\ pool = "none"
  /\ luaRuns = FALSE /\ main = "init" /\ failed = FALSE /\ call = << >> /\ misuses = {}

-------------------------------------------------------------------------------
(* ModuleManager. *)

IsExist(m) == m \in DOMAIN modules
GetModule(m) == IF IsExist(m) THEN modules[m] ELSE None
Put(m, object) == [n \in DOMAIN modules \cup {m} |-> IF n = m THEN object ELSE modules[n]]
Without(m) == [n \in DOMAIN modules \ {m} |-> modules[n]]

(* RegisterOne, whose Init has said ok, and RegisterModule after it: the    *)
(* object is registered or deleted, and the module's pointer is read from   *)
(* the map again.                                                           *)
RegisteredNull(m, object, ok) ==     \* mutant: a module whose Init failed gets an entry, NULL
  /\ modules' = Put(m, IF ok THEN object ELSE None)
  /\ globals' = [globals EXCEPT ![m] = IF ok THEN object ELSE None]
  /\ alive' = IF ok THEN alive \cup {object} ELSE alive \ {object}
Registered(m, object, ok) ==
  /\ modules' = IF ok THEN Put(m, object) ELSE modules
  /\ globals' = [globals EXCEPT ![m] = IF ok THEN object ELSE None]
  /\ alive' = IF ok THEN alive \cup {object} ELSE alive \ {object}

(* Destroy, the part of each module that matters here: LuaModule's fails    *)
(* without a state.                                                         *)
DestroyFails(m) == m = LUA_MODULE /\ luaStates = 0

(* DestroyAll: the modules are destroyed in the order of their ids, up to   *)
(* the first that refuses.                                                  *)
DestroyFirst ==     \* mutant: the loop does not start over at the map's new first module
  {m \in DOMAIN modules : \A n \in DOMAIN modules : m <= n}
DestroyAll ==
  {m \in DOMAIN modules : \A n \in DOMAIN modules : n <= m => ~DestroyFails(n)}

-------------------------------------------------------------------------------
(* Launcher. *)

(* CONFIG_MODULE and SERVER_MAP; their Init cannot fail. *)
RegisterFirst ==
  /\ main = "init" /\ main' = "load"
  /\ modules' = [m \in {CONFIG_MODULE, SERVER_MAP} |-> IF m = CONFIG_MODULE THEN 1 ELSE 2]
  /\ globals' = [globals EXCEPT ![CONFIG_MODULE] = 1, ![SERVER_MAP] = 2]
  /\ alive' = {1, 2} /\ nObjects' = 2
  /\ UNCHANGED << luaStates, pool, failed, scriptVars >>

LoadConfig(ok) ==
  /\ main = "load"
  /\ main' = IF ok THEN "spawn" ELSE "shutdown"
  /\ failed' = ~ok
  /\ UNCHANGED << modules, globals, alive, nObjects, luaStates, pool, scriptVars >>

Startup ==
  /\ main = "spawn" /\ main' = "lua" /\ pool' = "up"
  /\ UNCHANGED << modules, globals, alive, nObjects, luaStates, failed, scriptVars >>

(* LUA_MODULE: without memory for its state it is not registered. *)
RegisterLua(ok) ==
  /\ main = "lua" /\ nObjects' = nObjects + 1
  /\ Registered(LUA_MODULE, nObjects', ok)
  /\ luaStates' = IF ok THEN luaStates + 1 ELSE luaStates
  /\ main' = IF ok THEN "again" ELSE "refused"
  /\ UNCHANGED << pool, failed, scriptVars >>

(* ThreadPool.Shutdown, after Startup: it counts the threads in the two     *)
(* sets, and Startup's are in neither until each has come to ThreadExit.    *)
(* Threads it missed may be left when it returns; or they take the leave    *)
(* to exit of others, and it never does.  (Module ThreadPool has the        *)
(* details.)                                                                *)
HasThreads == pool \in {"up", "left"}
PoolShutdown == pool' \in IF HasThreads THEN {"left", "gone"} ELSE {pool}

(* Launcher::Shutdown: Init calls it when the Lua module is refused, and    *)
(* main.cpp after an Init that failed, a second time then.                  *)
Shutdown ==
  /\ main \in {"refused", "shutdown"}
  /\ PoolShutdown
  /\ modules' = [m \in DOMAIN modules \ DestroyAll |-> modules[m]]
  /\ alive' = alive \ {modules[m] : m \in DestroyAll}
  /\ luaStates' = IF LUA_MODULE \in DestroyAll THEN luaStates - 1 ELSE luaStates
  /\ main' = IF main = "refused" THEN "shutdown" ELSE "ended"
  /\ failed' = TRUE
  /\ UNCHANGED << globals, nObjects, scriptVars >>

ShutdownHangs ==
  /\ main \in {"refused", "shutdown"} /\ HasThreads
  /\ main' = "hung"
  /\ UNCHANGED << modules, globals, alive, nObjects, luaStates, pool, failed, scriptVars >>

(* LuaModule::Init runs a second time: the first lua_State stays open. *)
InitLua ==
  /\ main = "again" /\ main' = "scripts" /\ luaStates' = luaStates + 1
  /\ UNCHANGED << modules, globals, alive, nObjects, pool, failed, scriptVars >>

(* The scripts' init functions have returned. *)
LuaStart ==
  /\ main = "scripts" /\ call = << >>
  /\ main' = "destroy" /\ luaRuns' = TRUE
  /\ UNCHANGED << modules, globals, alive, nObjects, luaStates, pool, failed, call, misuses >>

(* DestroyModule(CONFIG_MODULE): the object goes before its entry, and      *)
(* g_configmodule keeps pointing at it.                                     *)
DestroyDeletes ==
  /\ main = "destroy"
  /\ IF IsExist(CONFIG_MODULE) THEN main' = "erase" /\ alive' = alive \ {modules[CONFIG_MODULE]}
     ELSE main' = "start" /\ UNCHANGED alive
  /\ UNCHANGED << modules, globals, nObjects, luaStates, pool, failed, scriptVars >>

KeptEntry(m) == modules      \* mutant: the entry of a module that is destroyed stays
Erased(m) == Without(m)

DestroyErases ==
  /\ main = "erase" /\ main' = "start"
  /\ modules' = Erased(CONFIG_MODULE)
  /\ UNCHANGED << globals, alive, nObjects, luaStates, pool, failed, scriptVars >>

(* Start gives the pool the SendThread. *)
Start ==
  /\ main = "start" /\ main' = "loop"
  /\ UNCHANGED << modules, globals, alive, nObjects, luaStates, pool, failed, scriptVars >>

(* The console's exit ends main's loop; nothing is shut down. *)
Exits ==
  /\ main = "loop" /\ main' = "ended"
  /\ UNCHANGED << modules, globals, alive, nObjects, luaStates, pool, failed, scriptVars >>

-------------------------------------------------------------------------------
(* The scripts. *)

(* "later": any thread that runs the script once the Lua thread does. *)
Runner == IF luaRuns THEN "later" ELSE "init"

(* A call reads the pointer to the configuration first: ConnectToServer and *)
(* Listen (module None) and MemcachedModule::Init from the map,             *)
(* MysqlModule::Init from GData.  at is a ghost: where the main thread is.  *)
ConfigFor(m) == IF m = MYSQL_MODULE THEN globals[CONFIG_MODULE] ELSE GetModule(CONFIG_MODULE)

Begins(m, object) ==
  call' = << [by |-> Runner, module |-> m, object |-> object, config |-> ConfigFor(m), at |-> main] >>

MayCall == call = << >> /\ (main = "scripts" \/ luaRuns) /\ main # "ended"

ScriptConnects ==
  /\ MayCall /\ Begins(None, None)
  /\ UNCHANGED << modules, globals, alive, nObjects, luaStates, pool, luaRuns, main, failed, misuses >>

NewOfAny(m) == TRUE          \* mutant: RegisterOne does not ask whether the module is registered
NewOf(m) == ~IsExist(m)

(* A module that is registered is only returned. *)
ScriptRegisters(m) ==
  /\ MayCall /\ NewOf(m) /\ nObjects < MaxObjects
  /\ nObjects' = nObjects + 1 /\ alive' = alive \cup {nObjects'}
  /\ Begins(m, nObjects')
  /\ UNCHANGED << modules, globals, luaStates, pool, luaRuns, main, failed, misuses >>

(* The call goes on, and uses the configuration if it is one that does and  *)
(* has a pointer to it; Init may fail, Memcached's must without one.        *)
UsesConfig(c) == c.module \in {None, MYSQL_MODULE, MEMCACHED_MODULE} /\ c.config # None

CallEnds(ok) ==
  /\ call # << >> /\ main # "ended" /\ call' = << >>
  /\ LET c == call[1]
     IN  /\ misuses' = IF UsesConfig(c) /\ c.config \notin alive THEN misuses \cup {c} ELSE misuses
         /\ ok => c.module # MEMCACHED_MODULE \/ c.config # None
         /\ IF c.module = None THEN UNCHANGED << modules, globals, alive >>
            ELSE Registered(c.module, c.object, ok)
  /\ UNCHANGED << nObjects, luaStates, pool, luaRuns, main, failed >>

LaunchNext ==
  \/ RegisterFirst
  \/ \E ok \in BOOLEAN : LoadConfig(ok)
  \/ Startup
  \/ \E ok \in BOOLEAN : RegisterLua(ok)
  \/ InitLua \/ LuaStart \/ DestroyDeletes \/ DestroyErases \/ Start \/ Exits
  \/ Shutdown \/ ShutdownHangs
  \/ ScriptConnects
  \/ \E m \in Scripted : ScriptRegisters(m)
  \/ \E ok \in BOOLEAN : CallEnds(ok)

LaunchSpec == LaunchInit /\ [][LaunchNext]_launchVars

-------------------------------------------------------------------------------
(* The types. *)
Call == [by : {"init", "later"}, module : ModuleId \cup {None}, object : Object \cup {None},
         config : Object \cup {None},
         at : {"scripts", "destroy", "erase", "start", "loop"}]

LauncherTypeOK ==
  /\ DOMAIN modules \subseteq ModuleId /\ \A m \in DOMAIN modules : modules[m] \in Object
  /\ globals \in [ModuleId -> Object \cup {None}]
  /\ alive \subseteq Object /\ nObjects \in 0 .. MaxObjects /\ luaStates \in 0 .. 2
  /\ pool \in {"none", "up", "left", "gone"} /\ luaRuns \in BOOLEAN /\ failed \in BOOLEAN
  /\ main \in {"init", "load", "spawn", "lua", "again", "scripts", "destroy", "erase", "start",
               "loop", "refused", "shutdown", "hung", "ended"}
  /\ call = << >> \/ \E c \in Call : call = << c >>
  /\ misuses \subseteq Call

(* Until a shutdown the objects that exist are those registered, one for    *)
(* each module, and the one whose Init runs, whichever registrations fail   *)
(* and are tried again; and each pointer of GData, but the configuration's, *)
(* is what the map has.                                                     *)
OneObjectEach ==
  main # "ended" /\ ~failed =>
    LET held == {m \in DOMAIN modules : m # CONFIG_MODULE \/ main # "erase"}
        made == {call[i].object : i \in DOMAIN call} \ {None}
    IN  /\ alive = {modules[m] : m \in held} \cup made
        /\ \A m, n \in held : modules[m] = modules[n] => m = n
        /\ \A m \in ModuleId \ {CONFIG_MODULE} : globals[m] = GetModule(m)

(* A call uses the configuration after its end (the one use the model       *)
(* looks for) only once the scripts run beside the main thread, never in    *)
(* the init functions; and only if the main thread's DestroyModule began    *)
(* before the call read the pointer and the call overtook it (registering   *)
(* a module, connecting to a server or listening), or if it is              *)
(* MysqlModule::Init, whose pointer in GData is never cleared.              *)
OnlyConfigUsedDead ==
  \A c \in misuses : c.by = "later" /\ (c.at \in {"destroy", "erase"} \/ c.module = MYSQL_MODULE)

(* A launch that fails and comes to its end, at whichever point it failed,  *)
(* leaves no module, no object and no lua_State behind, although it shuts   *)
(* down twice when it is the Lua module that fails.  (Threads of the pool   *)
(* it may leave behind, and they may keep it from its end.)                 *)
FailedLaunchLeavesNothing ==
  failed /\ main = "ended" => modules = << >> /\ alive = {} /\ luaStates = 0
===============================================================================

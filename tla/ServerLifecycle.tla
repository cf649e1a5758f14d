--------------------------- MODULE ServerLifecycle ---------------------------
(***************************************************************************)
(* The life of a server (src/src/server.cpp): Server::startModules makes    *)
(* and starts the modules in one order, Server::shutdownModules stops them  *)
(* in another, while requests arrive from the network, or from the threads  *)
(* of an application that uses the C API, and a signal may ask for the end  *)
(* at any moment.                                                           *)
(*                                                                         *)
(* A server runs as the process `ovms', whose one thread starts it, waits   *)
(* for a signal and stops it, or inside an application whose threads call   *)
(* OVMS_ServerStartFromConfigurationFile and OVMS_ServerDelete.  A request  *)
(* keeps a reference to the model manager, which its front end was given    *)
(* when it was made, and may need the lock of the Python interpreter.  The  *)
(* download of a model before serving is the module ServerPull.             *)
(***************************************************************************)
EXTENDS Naturals, FiniteSets

CONSTANTS
    Threads,        \* of the application; the process has one of them
    Main,           \* the thread of the process
    Handlers,       \* requests that may be in work at a time
    Commands,       \* the command lines and settings a server is started with
    MaxMishaps      \* bound, by mode: starts that fail for a reason of the machine

NoThread == "no thread"
ASSUME ThreadsAssumption == Main \in Threads /\ {NoThread, "none", "free"} \cap Threads = {}

Serving == {"SERVING_MODELS", "HF_PULL_AND_START"}
Modes == Serving \cup {"HF_PULL", "MODIFY_CONFIG"}

\* The C API has no setting for the interpreter, nor for pulling.
ASSUME CommandsAssumption ==
    \A c \in Commands :
        /\ c.host \in {"process", "application"} /\ c.mode \in Modes
        /\ {c.grpc, c.rest, c.python, c.watch} \subseteq BOOLEAN
        /\ c.host = "application" => ~c.python /\ c.mode = "SERVING_MODELS"
ASSUME MishapsAssumption == MaxMishaps \in [Modes -> Nat]

VARIABLES
    command,        \* host, mode, and whether there is grpc, rest, python, watch
    alive,          \* the process runs (an application always does)
    mods,           \* Server::modules, with the state of each
    at,             \* what each thread does
    startMtx,       \* its holder
    answer,         \* of the last startFromSettings of each thread
    gil,            \* "none", "free" or the thread that holds it
    loaded,         \* the manager serves something, graphs with Python among it
    watcher,        \* the watcher of the manager: "none", "idle" or "busy"
    drogon,         \* the one HTTP application object of the process
    request,        \* each request in work
    asked,          \* the shutdown request
    exit,           \* how the last process ended
    mishaps

threadVars == <<at, startMtx, answer>>
serverVars == <<command, alive, mods, threadVars, gil, loaded, watcher, drogon,
                request, asked, exit, mishaps>>

ModuleNames == {"pull", "config", "python", "metrics", "manager", "capi", "grpc", "http"}
\* ModuleState, and "absent" for a module that is not in the map.
ModuleStates == {"absent", "NOT_INITIALIZED", "STARTED_INITIALIZE",
                 "INITIALIZED", "STARTED_SHUTDOWN", "SHUTDOWN"}
Starting == {"check", "parse", "config", "pullOnly", "python", "metrics", "grpc",
             "http", "pull", "cloning", "load", "loading", "release"}
Stopping == {"stop", "drainGrpc", "drainHttp", "join"}
NoRequest == [front |-> "none", python |-> FALSE]

ServerTypeOK ==
    /\ command \in Commands
    /\ mods \in [ModuleNames -> ModuleStates]
    /\ at \in [Threads -> {"idle", "enter", "serving", "exit"} \cup Starting \cup Stopping]
    /\ startMtx \in Threads \cup {NoThread}
    /\ answer \in [Threads -> {"none", "OK", "SERVER_ALREADY_STARTING",
                               "SERVER_ALREADY_STARTED", "OPTIONS_USAGE_ERROR", "error"}]
    /\ gil \in {"none", "free"} \cup Threads
    /\ watcher \in {"none", "idle", "busy"}
    /\ drogon \in {"new", "running", "quit"}
    /\ request \in [Handlers -> [front : {"none", "grpc", "http", "capi"}, python : BOOLEAN]]
    /\ {alive, loaded, asked} \subseteq BOOLEAN
    /\ exit \in {"none", "killed", "EX_OK", "EX_USAGE", "EX_FAILURE"}
    /\ mishaps \in 0..MaxMishaps[command.mode]

NoModules == [m \in ModuleNames |-> "absent"]

ServerInit ==
    /\ command \in Commands
    /\ alive = (command.host = "application")
    /\ mods = NoModules
    /\ at = [t \in Threads |-> "idle"]
    /\ startMtx = NoThread
    /\ answer = [t \in Threads |-> "none"]
    /\ gil = "none" /\ loaded = FALSE /\ watcher = "none" /\ drogon = "new"
    /\ request = [h \in Handlers |-> NoRequest]
    /\ asked = FALSE /\ exit = "none" /\ mishaps = 0

Process == command.host = "process"
InWork(front) == {h \in Handlers : request[h].front = front}
Mishap == mishaps < MaxMishaps[command.mode] /\ mishaps' = mishaps + 1
Moves(t, p) == at' = [at EXCEPT ![t] = p]

isReady == mods["manager"] = "INITIALIZED"
isLive(m) == mods[m] = "INITIALIZED"

-----------------------------------------------------------------------------
(* Starting.                                                               *)

\* startFromSettings returns: the process goes on to its loop or, through
\* ModulesShutdownGuard, to the end; an application keeps what there is.
Returns(t, status) ==
    /\ answer' = [answer EXCEPT ![t] = status]
    /\ startMtx' = NoThread
    /\ Moves(t, IF ~Process THEN "idle" ELSE IF status = "OK" THEN "serving" ELSE "stop")

Continues(t, p) == Moves(t, p) /\ UNCHANGED <<startMtx, answer, mishaps>>

\* A module fails to start or something throws: startModules ends there.
Fails(t, status) == Mishap /\ Returns(t, status)

\* Server::start, or a thread of the application starts the server.
CallsStart(t) ==
    /\ at[t] = "idle"
    /\ Process => t = Main /\ ~alive
    /\ Moves(t, "enter")
    /\ alive' = TRUE /\ asked' = FALSE /\ exit' = "none"
    /\ answer' = [answer EXCEPT ![t] = "none"]
    /\ UNCHANGED <<command, mods, startMtx, gil, loaded, watcher, drogon, request, mishaps>>

TriesStartMtx(t) ==
    /\ at[t] = "enter"
    /\ IF startMtx = NoThread
       THEN startMtx' = t /\ Moves(t, "check") /\ UNCHANGED answer
       ELSE /\ answer' = [answer EXCEPT ![t] = "SERVER_ALREADY_STARTING"]
            /\ Moves(t, "idle") /\ UNCHANGED startMtx
    /\ UNCHANGED <<command, alive, mods, gil, loaded, watcher, drogon, request, asked,
                   exit, mishaps>>

ChecksModules(t) ==
    /\ at[t] = "check"
    /\ IF mods = NoModules THEN Continues(t, "parse")
       ELSE Returns(t, "SERVER_ALREADY_STARTED") /\ UNCHANGED mishaps
    /\ UNCHANGED <<command, alive, mods, gil, loaded, watcher, drogon, request, asked, exit>>

ParsesConfig(t) ==
    /\ at[t] = "parse"
    /\ \/ Continues(t, CASE command.mode = "MODIFY_CONFIG" -> "config"
                         [] command.mode = "HF_PULL" -> "pullOnly"
                         [] command.mode \in Serving /\ command.python -> "python"
                         [] OTHER -> "metrics")
       \/ Fails(t, "OPTIONS_USAGE_ERROR")
    /\ UNCHANGED <<command, alive, mods, gil, loaded, watcher, drogon, request, asked, exit>>

\* The module stays in the map whether it started or not.
Starts(m, started) ==
    mods' = [mods EXCEPT ![m] = IF started THEN "INITIALIZED" ELSE "STARTED_INITIALIZE"]

\* The configuration file is written; nothing is served.  The module is
\* INITIALIZED before it does its work.
StartsConfigManager(t) ==
    /\ at[t] = "config"
    /\ Starts("config", TRUE)
    /\ \/ Returns(t, "OK") /\ UNCHANGED mishaps
       \/ Fails(t, "error")
    /\ UNCHANGED <<command, alive, gil, loaded, watcher, drogon, request, asked, exit>>

\* HfPullModelModule::clone, which ModelPull has, begins ...
StartsPull(t) ==
    /\ at[t] \in {"pullOnly", "pull"}
    /\ Starts("pull", TRUE) /\ Continues(t, "cloning")
    /\ UNCHANGED <<command, alive, gil, loaded, watcher, drogon, request, asked, exit>>

\* ... unless libgit2 cannot be initialized.
StartsNoPull(t) ==
    /\ at[t] \in {"pullOnly", "pull"}
    /\ Starts("pull", FALSE) /\ Fails(t, "error")
    /\ UNCHANGED <<command, alive, gil, loaded, watcher, drogon, request, asked, exit>>

\* The interpreter is made, and its lock held from then on.
StartsPython(t) ==
    /\ at[t] = "python"
    /\ gil' = t
    /\ \/ Starts("python", TRUE) /\ Continues(t, "metrics")
       \/ Starts("python", FALSE) /\ Fails(t, "error")
    /\ UNCHANGED <<command, alive, loaded, watcher, drogon, request, asked, exit>>

\* The metrics module never leaves NOT_INITIALIZED; the manager is made here,
\* for the front ends, and started last.
StartsMetrics(t) ==
    /\ at[t] = "metrics"
    /\ mods' = [mods EXCEPT !["metrics"] = "NOT_INITIALIZED",
                            !["manager"] = "NOT_INITIALIZED",
                            !["capi"] = "INITIALIZED"]
    /\ Continues(t, "grpc")
    /\ UNCHANGED <<command, alive, gil, loaded, watcher, drogon, request, asked, exit>>

\* INITIALIZED without a port too: HTTP uses its service.
StartsGrpc(t) ==
    /\ at[t] = "grpc"
    /\ \/ /\ Starts("grpc", TRUE)
          /\ Continues(t, CASE command.rest -> "http"
                            [] ~command.rest /\ command.mode = "HF_PULL_AND_START" -> "pull"
                            [] OTHER -> "load")
       \/ Starts("grpc", FALSE) /\ command.grpc /\ Fails(t, "error")
    /\ UNCHANGED <<command, alive, gil, loaded, watcher, drogon, request, asked, exit>>

\* drogon runs once in a process; a second server waits for it in vain.
StartsHttp(t) ==
    /\ at[t] = "http"
    /\ \/ /\ drogon = "new" /\ drogon' = "running"
          /\ Starts("http", TRUE)
          /\ Continues(t, IF command.mode = "HF_PULL_AND_START" THEN "pull" ELSE "load")
       \/ /\ drogon = "quit" /\ UNCHANGED <<drogon, mishaps>>
          /\ Starts("http", FALSE) /\ Returns(t, "error")
       \/ /\ drogon = "new" /\ drogon' = "quit"
          /\ Starts("http", FALSE) /\ Fails(t, "error")
    /\ UNCHANGED <<command, alive, gil, loaded, watcher, request, asked, exit>>

CloneReturns(t, ok) ==
    /\ at[t] = "cloning"
    /\ IF ok /\ command.mode = "HF_PULL_AND_START"
       THEN Continues(t, "load")
       ELSE Returns(t, IF ok THEN "OK" ELSE "error") /\ UNCHANGED mishaps
    /\ UNCHANGED <<command, alive, mods, gil, loaded, watcher, drogon, request, asked, exit>>

\* ServableManagerModule::start: ModelManager::start loads what it can ...
Loads(t) ==
    /\ at[t] = "load"
    /\ mods' = [mods EXCEPT !["manager"] = "STARTED_INITIALIZE"]
    /\ loaded' \in BOOLEAN
    /\ Continues(t, "loading")
    /\ UNCHANGED <<command, alive, gil, watcher, drogon, request, asked, exit>>

\* ... and starts the watcher, unless one of a few statuses makes it give up.
ManagerStarts(t) ==
    /\ at[t] = "loading"
    /\ \/ /\ mods' = [mods EXCEPT !["manager"] = "INITIALIZED"]
          /\ watcher' = IF command.watch THEN "idle" ELSE "none"
          /\ Continues(t, "release")
       \/ Fails(t, "error") /\ UNCHANGED <<mods, watcher>>
    /\ UNCHANGED <<command, alive, gil, loaded, drogon, request, asked, exit>>

\* A mistake: the lock of the interpreter is kept.
KeepsGIL(t) ==
    /\ at[t] = "release"
    /\ Returns(t, "OK")
    /\ UNCHANGED <<command, alive, mods, gil, loaded, watcher, drogon, request, asked,
                   exit, mishaps>>

ReleasesGIL(t) ==
    /\ at[t] = "release"
    /\ gil' = IF command.python THEN "free" ELSE gil
    /\ Returns(t, "OK")
    /\ UNCHANGED <<command, alive, mods, loaded, watcher, drogon, request, asked, exit, mishaps>>

StartStep(t) ==
    \/ TriesStartMtx(t) \/ ChecksModules(t) \/ ParsesConfig(t) \/ StartsConfigManager(t)
    \/ StartsNoPull(t) \/ StartsPython(t) \/ StartsMetrics(t) \/ StartsGrpc(t)
    \/ StartsHttp(t) \/ Loads(t) \/ ManagerStarts(t) \/ ReleasesGIL(t)

-----------------------------------------------------------------------------
(* Requests and the watcher.                                               *)

Accepts(front) ==
    CASE front = "grpc" -> isLive("grpc") /\ command.grpc
      [] front = "http" -> isLive("http") /\ drogon = "running"
      [] front = "capi" -> ~Process /\ \A t \in Threads : at[t] \notin Stopping

\* A request of the network is with a handler that was made with a reference
\* to the manager; one of the C API looks for the module (getModelManager),
\* and is refused when it is not there.  Only a graph that is loaded needs
\* the interpreter.
Arrives(h, front, python) ==
    /\ alive /\ request[h] = NoRequest
    /\ Accepts(front)
    /\ front = "capi" => isLive("capi") /\ mods["manager"] # "absent"
    /\ python => command.python /\ loaded
    /\ request' = [request EXCEPT ![h] = [front |-> front, python |-> python]]
    /\ UNCHANGED <<command, alive, mods, threadVars, gil, loaded, watcher, drogon,
                   asked, exit, mishaps>>

\* The answer is sent; a part of the work is done under the lock of the
\* interpreter, if need be.
Answers(h) ==
    /\ request[h] # NoRequest
    /\ request[h].python => gil = "free"
    /\ request' = [request EXCEPT ![h] = NoRequest]
    /\ UNCHANGED <<command, alive, mods, threadVars, gil, loaded, watcher, drogon,
                   asked, exit, mishaps>>

\* Not any more once it was signalled to end.
WatcherReloads ==
    /\ watcher = "idle" /\ watcher' = "busy"
    /\ mods["manager"] # "STARTED_SHUTDOWN"
    /\ UNCHANGED <<command, alive, mods, threadVars, gil, loaded, drogon, request,
                   asked, exit, mishaps>>

WatcherSleeps ==
    /\ watcher = "busy" /\ watcher' = "idle"
    /\ UNCHANGED <<command, alive, mods, threadVars, gil, loaded, drogon, request,
                   asked, exit, mishaps>>

\* SIGINT or SIGTERM: requestShutdownFromSignal.
Signal ==
    /\ Process /\ alive /\ ~asked
    /\ asked' = TRUE
    /\ UNCHANGED <<command, alive, mods, threadVars, gil, loaded, watcher, drogon,
                   request, exit, mishaps>>

\* SIGKILL, SIGILL and the like take the process and all it has.
Killed ==
    /\ Process /\ alive
    /\ alive' = FALSE /\ exit' = "killed"
    /\ mods' = NoModules /\ at' = [t \in Threads |-> "idle"] /\ startMtx' = NoThread
    /\ gil' = "none" /\ loaded' = FALSE /\ watcher' = "none" /\ drogon' = "new"
    /\ request' = [h \in Handlers |-> NoRequest] /\ asked' = FALSE
    /\ answer' = [t \in Threads |-> "none"]
    /\ UNCHANGED <<command, mishaps>>

-----------------------------------------------------------------------------
(* Stopping.                                                               *)

\* The loop of startServerFromSettings: only a server waits for the request.
LeavesLoop(t) ==
    /\ at[t] = "serving"
    /\ asked \/ command.mode \notin Serving
    /\ Moves(t, "stop")
    /\ UNCHANGED <<command, alive, mods, startMtx, answer, gil, loaded, watcher, drogon,
                   request, asked, exit, mishaps>>

\* OVMS_ServerDelete, which nothing guards: the application calls it when it
\* has a server, whole or in part, and none of its threads is in another call.
CallsDelete(t) ==
    /\ ~Process /\ mods # NoModules
    /\ \A u \in Threads : at[u] = "idle"
    /\ InWork("capi") = {}
    /\ Moves(t, "stop")
    /\ UNCHANGED <<command, alive, mods, startMtx, answer, gil, loaded, watcher, drogon,
                   request, asked, exit, mishaps>>

\* shutdownModules goes through the modules that have something to stop, in this
\* order; HTTPServerModule::shutdown does nothing without its server.
ShutdownOrder == [grpc |-> 1, http |-> 2, manager |-> 3, python |-> 4]
ToShut == {m \in DOMAIN ShutdownOrder : /\ mods[m] \notin {"absent", "SHUTDOWN"}
                                        /\ m = "http" => drogon = "running"}
Turn(t, m) ==
    /\ at[t] = "stop" /\ m \in ToShut
    /\ \A n \in ToShut : ShutdownOrder[m] <= ShutdownOrder[n]
ensureModuleShutdown(t, m, p) ==
    /\ Turn(t, m)
    /\ mods' = [mods EXCEPT ![m] = "STARTED_SHUTDOWN"] /\ Moves(t, p)
IsShut(t, m) == mods' = [mods EXCEPT ![m] = "SHUTDOWN"] /\ Moves(t, "stop")

\* grpc::Server::Shutdown takes no more requests and returns when none is in
\* work (after a deadline it cancels them, which their handlers need not notice).
StopsGrpc(t) ==
    /\ ensureModuleShutdown(t, "grpc", "drainGrpc")
    /\ UNCHANGED <<command, alive, startMtx, answer, gil, loaded, watcher, drogon, request,
                   asked, exit, mishaps>>

GrpcStopped(t) ==
    /\ at[t] = "drainGrpc" /\ InWork("grpc") = {}
    /\ IsShut(t, "grpc")
    /\ UNCHANGED <<command, alive, startMtx, answer, gil, loaded, watcher, drogon, request,
                   asked, exit, mishaps>>

\* DrogonHttpServer::terminate: drogon quits ...
StopsHttp(t) ==
    /\ ensureModuleShutdown(t, "http", "drainHttp")
    /\ drogon' = "quit"
    /\ UNCHANGED <<command, alive, startMtx, answer, gil, loaded, watcher, request, asked,
                   exit, mishaps>>

\* A mistake: the pool is left to itself.
HttpQuits(t) ==
    /\ at[t] = "drainHttp"
    /\ IsShut(t, "http")
    /\ UNCHANGED <<command, alive, startMtx, answer, gil, loaded, watcher, drogon, request,
                   asked, exit, mishaps>>

\* ... and the pool goes when its threads have finished.
HttpStopped(t) ==
    /\ at[t] = "drainHttp" /\ InWork("http") = {}
    /\ IsShut(t, "http")
    /\ UNCHANGED <<command, alive, startMtx, answer, gil, loaded, watcher, drogon, request,
                   asked, exit, mishaps>>

StopsManager(t) ==
    /\ ensureModuleShutdown(t, "manager", "join")
    /\ UNCHANGED <<command, alive, startMtx, answer, gil, loaded, watcher, drogon, request,
                   asked, exit, mishaps>>

\* ModelManager::join, then the manager itself goes.
JoinsManager(t) ==
    /\ at[t] = "join" /\ watcher # "busy"
    /\ IsShut(t, "manager")
    /\ loaded' = FALSE /\ watcher' = "none"
    /\ UNCHANGED <<command, alive, startMtx, answer, gil, drogon, request, asked, exit,
                   mishaps>>

\* The lock is taken back, if it was released, and the interpreter goes.
StopsPython(t) ==
    /\ Turn(t, "python") /\ gil \in {"free", t}
    /\ IsShut(t, "python") /\ gil' = "none"
    /\ UNCHANGED <<command, alive, startMtx, answer, loaded, watcher, drogon, request,
                   asked, exit, mishaps>>

\* modules.clear(); the process ends after it.
ClearsModules(t) ==
    /\ at[t] = "stop" /\ ToShut = {}
    /\ mods' = NoModules
    /\ Moves(t, IF Process THEN "exit" ELSE "idle")
    /\ UNCHANGED <<command, alive, startMtx, answer, gil, loaded, watcher, drogon, request,
                   asked, exit, mishaps>>

\* statusToExitCode.
Exits(t) ==
    /\ at[t] = "exit"
    /\ exit' = CASE answer[t] = "OK" -> "EX_OK"
                 [] answer[t] = "OPTIONS_USAGE_ERROR" -> "EX_USAGE"
                 [] OTHER -> "EX_FAILURE"
    /\ answer' = [answer EXCEPT ![t] = "none"]
    /\ alive' = FALSE /\ drogon' = "new" /\ Moves(t, "idle")
    /\ UNCHANGED <<command, mods, startMtx, gil, loaded, watcher, request, asked, mishaps>>

StopStep(t) ==
    \/ LeavesLoop(t) \/ StopsGrpc(t) \/ GrpcStopped(t) \/ StopsHttp(t) \/ HttpStopped(t)
    \/ StopsManager(t) \/ JoinsManager(t) \/ StopsPython(t) \/ ClearsModules(t) \/ Exits(t)

-----------------------------------------------------------------------------
ThreadStep(t) == StartStep(t) \/ StopStep(t)

Requests ==
    \E h \in Handlers :
        \/ \E front \in {"grpc", "http", "capi"}, python \in BOOLEAN : Arrives(h, front, python)
        \/ Answers(h)

ServerNext ==
    \/ \E t \in Threads : CallsStart(t) \/ CallsDelete(t) \/ ThreadStep(t)
    \/ \E t \in Threads : StartsPull(t) \/ \E ok \in BOOLEAN : CloneReturns(t, ok)
    \/ Requests \/ WatcherReloads \/ WatcherSleeps
    \/ Signal \/ Killed

ServerSpec == ServerInit /\ [][ServerNext]_serverVars

-----------------------------------------------------------------------------
(* Properties                                                              *)

\* No request and no reload is in work on a manager that does not exist yet or
\* any more, nor on an interpreter or a gRPC service that is gone: the front
\* ends stop, and finish, first, and start last ("we want very precise order
\* of modules shutdown").
NothingOutlivesItsModule ==
    /\ \A h \in Handlers : request[h] # NoRequest =>
          /\ mods["manager"] \notin {"absent", "SHUTDOWN"}
          /\ request[h].front # "capi" => mods["grpc"] # "absent"
          /\ request[h].python => gil # "none"
    /\ watcher # "none" => mods["manager"] \notin {"absent", "SHUTDOWN"}

\* Of several threads that start the server one does, the others are refused,
\* and a server is never started over the modules of another one.
OneServer ==
    /\ \A t \in Threads : at[t] \in Starting => startMtx = t
    /\ \A t \in Threads : at[t] \in {"config", "pullOnly", "python"} => mods = NoModules
    /\ \A t, u \in Threads : at[t] \in Stopping => at[u] \notin Starting \ {"check"}

\* "we want to start the server as quickly as possible to respond with liveness
\* probe": while models are downloaded or loaded the front ends are there, and
\* say that the server is not ready.
LiveBeforeReady ==
    \A t \in Threads :
        /\ at[t] \in {"cloning", "load", "loading"} /\ command.mode \in Serving =>
              /\ isLive("grpc") /\ isLive("capi")
              /\ command.rest => Accepts("http")
        /\ at[t] \in Starting \ {"release", "check"} => ~isReady

\* A process ends with EX_OK only when it was asked to, or has done the one
\* thing it was started for; and it leaves nothing running.
ExitTells ==
    Process /\ ~alive =>
        /\ exit = "EX_OK" => asked \/ command.mode \notin Serving
        /\ mods = NoModules /\ gil = "none" /\ watcher = "none"
        /\ \A h \in Handlers : request[h] = NoRequest

\* What a server promises at any moment of its life.
ServerSafety ==
    /\ ServerTypeOK
    /\ NothingOutlivesItsModule
    /\ OneServer
    /\ LiveBeforeReady
    /\ ExitTells

\* A start that failed after a graph with Python was loaded: the lock of the
\* interpreter is held by the thread that waits for the requests to finish.
HoldsGILWhileDraining ==
    /\ at[Main] \in {"drainGrpc", "drainHttp"} /\ gil = Main /\ answer[Main] # "OK"
    /\ \E h \in Handlers : request[h].python

\* A start or a stop that Main began ends, and the process stops when it is
\* asked to, also when it finds requests and a reload in work.  (The threads of
\* an application are alike: Main is any of them.)
Busy == at[Main] \notin {"idle", "serving"} \/ (at[Main] = "serving" /\ asked)
ServerStops == Busy ~> ~Busy \/ HoldsGILWhileDraining
=============================================================================

-------------------------- MODULE ServerPullProofs --------------------------
(* Proofs about the server and the pull of a model within its start.         *)
EXTENDS ServerPull, TLAPS

-----------------------------------------------------------------------------
(* The server                                                              *)

\* One thread at a time starts the server, one stops it, and a process has no
\* other thread than Main.
ThreadInv ==
    /\ \A t \in Threads : at[t] \in Starting <=> startMtx = t
    /\ Process => \A t \in Threads \ {Main} : at[t] = "idle"
    /\ Process => (alive <=> at[Main] # "idle")
    /\ ~Process => alive /\ \A t \in Threads : at[t] \notin {"serving", "exit"}
    /\ \A t, u \in Threads :
           at[t] \in Stopping /\ t # u => at[u] \in {"idle", "enter", "check"}
    /\ ~Process /\ mods = NoModules => \A t \in Threads : at[t] \notin Stopping

\* What there is at each step of startModules: only its thread changes it.
Before == {"parse", "config", "pullOnly", "python"}
FrontEndsMade == {"pull", "cloning", "load", "loading", "release"}
PhaseInv ==
    \A t \in Threads :
        /\ at[t] \in Before => mods = NoModules
        /\ at[t] = "config" => command.mode = "MODIFY_CONFIG"
        /\ at[t] = "pullOnly" => command.mode = "HF_PULL"
        /\ at[t] = "pull" => command.mode = "HF_PULL_AND_START"
        /\ at[t] = "cloning" => command.mode \in {"HF_PULL", "HF_PULL_AND_START"}
        /\ at[t] \in {"python", "metrics", "grpc", "http", "load", "loading", "release"}
              => command.mode \in Serving
        /\ at[t] = "metrics" =>
              \A m \in ModuleNames \ {"python"} : mods[m] = "absent"
        /\ at[t] = "grpc" => mods["grpc"] = "absent"
        /\ at[t] \in {"grpc", "http"} => mods["http"] = "absent"
        /\ command.python /\ command.mode \in Serving
              /\ at[t] \in {"metrics", "grpc", "http"} \cup FrontEndsMade
              => mods["python"] = "INITIALIZED"
        /\ at[t] \in {"grpc", "http", "pull", "load"} => mods["manager"] = "NOT_INITIALIZED"
        /\ at[t] = "cloning" => mods["manager"] \in {"absent", "NOT_INITIALIZED"}
        /\ at[t] = "loading" => mods["manager"] = "STARTED_INITIALIZE"
        /\ command.mode \in Serving /\ at[t] \in {"grpc", "http"} \cup FrontEndsMade
              => mods["capi"] = "INITIALIZED" /\ mods["manager"] # "absent"
        /\ command.mode \in Serving /\ at[t] \in {"http"} \cup FrontEndsMade
              => mods["grpc"] = "INITIALIZED"
        /\ command.mode \in Serving /\ command.rest /\ at[t] \in FrontEndsMade
              => mods["http"] = "INITIALIZED"

\* The modules agree with what they own, whoever starts or stops them.
ModuleInv ==
    /\ mods["grpc"] # "absent" => mods["manager"] # "absent"
    /\ mods["http"] # "absent" => mods["grpc"] # "absent"
    /\ mods["http"] = "INITIALIZED" <=> drogon = "running"
    /\ mods["python"] \in {"INITIALIZED", "STARTED_INITIALIZE"} <=> gil # "none"
    /\ loaded => mods["manager"] \in {"STARTED_INITIALIZE", "INITIALIZED", "STARTED_SHUTDOWN"}
    /\ loaded /\ command.python => gil # "none"
    /\ watcher # "none" => mods["manager"] \in {"INITIALIZED", "STARTED_SHUTDOWN"}
    /\ \A t \in Threads : at[t] = "exit" => mods = NoModules
    /\ Process /\ ~alive => mods = NoModules /\ drogon = "new"

\* A module is between its two states only while a thread waits for it, and
\* the manager is stopped after the front ends.
StopInv ==
    /\ mods["grpc"] = "STARTED_SHUTDOWN" <=> \E t \in Threads : at[t] = "drainGrpc"
    /\ mods["http"] = "STARTED_SHUTDOWN" <=> \E t \in Threads : at[t] = "drainHttp"
    /\ mods["manager"] = "STARTED_SHUTDOWN" <=> \E t \in Threads : at[t] = "join"
    /\ mods["manager"] = "SHUTDOWN" => \E t \in Threads : at[t] \in Stopping
    /\ mods["manager"] \in {"STARTED_SHUTDOWN", "SHUTDOWN"} =>
          /\ mods["grpc"] \in {"absent", "SHUTDOWN"}
          /\ mods["http"] \notin {"INITIALIZED", "STARTED_SHUTDOWN"}

\* A request is with a front end that has not ended, and with an interpreter
\* only if a graph that needs it was loaded.
RequestInv ==
    \A h \in Handlers :
        /\ request[h].front = "none" => request[h] = NoRequest
        /\ request[h].front = "grpc" => mods["grpc"] \in {"INITIALIZED", "STARTED_SHUTDOWN"}
        /\ request[h].front = "http" => mods["http"] \in {"INITIALIZED", "STARTED_SHUTDOWN"}
        /\ request[h].front = "capi" =>
              /\ mods["manager"] # "absent" /\ ~Process
              /\ \A t \in Threads : at[t] \notin Stopping
        /\ request[h].python => command.python /\ loaded

\* Only a server that was asked to, or has done its one thing, ends well.
EndInv ==
    Process =>
        /\ at[Main] \in Stopping \cup {"exit"} /\ answer[Main] = "OK" =>
              asked \/ command.mode \notin Serving
        /\ ~alive /\ exit = "EX_OK" => asked \/ command.mode \notin Serving

ServerInv ==
    /\ ServerTypeOK /\ ThreadInv /\ PhaseInv /\ ModuleInv /\ StopInv
    /\ RequestInv /\ EndInv

\* What shutdownModules has shut when it comes to a module.
LEMMA GrpcTurn ==
    ASSUME NEW t \in Threads, Turn(t, "grpc")
    PROVE  at[t] = "stop" /\ mods["grpc"] \notin {"absent", "SHUTDOWN"}
BY DEF Turn, ToShut

LEMMA HttpTurn ==
    ASSUME NEW t \in Threads, Turn(t, "http")
    PROVE  /\ at[t] = "stop" /\ mods["http"] \notin {"absent", "SHUTDOWN"}
           /\ drogon = "running" /\ mods["grpc"] \in {"absent", "SHUTDOWN"}
BY DEF Turn, ToShut, ShutdownOrder

LEMMA ManagerTurn ==
    ASSUME NEW t \in Threads, Turn(t, "manager")
    PROVE  /\ at[t] = "stop" /\ mods["manager"] \notin {"absent", "SHUTDOWN"}
           /\ mods["grpc"] \in {"absent", "SHUTDOWN"}
           /\ mods["http"] \in {"absent", "SHUTDOWN"} \/ drogon # "running"
BY DEF Turn, ToShut, ShutdownOrder

LEMMA PythonTurn ==
    ASSUME NEW t \in Threads, Turn(t, "python")
    PROVE  /\ at[t] = "stop" /\ mods["python"] \notin {"absent", "SHUTDOWN"}
           /\ mods["manager"] \in {"absent", "SHUTDOWN"}
           /\ mods["grpc"] \in {"absent", "SHUTDOWN"}
           /\ mods["http"] \in {"absent", "SHUTDOWN"} \/ drogon # "running"
BY DEF Turn, ToShut, ShutdownOrder

LEMMA AllShut ==
    ASSUME ToShut = {}
    PROVE  /\ \A m \in {"grpc", "manager", "python"} : mods[m] \in {"absent", "SHUTDOWN"}
           /\ mods["http"] \in {"absent", "SHUTDOWN"} \/ drogon # "running"
BY DEF ToShut, ShutdownOrder

\* A thread starts the server when it is in no other call.
LEMMA CallsStartKeeps ==
    ASSUME ServerInv, NEW t \in Threads, CallsStart(t)
    PROVE  ServerInv'
<1>1. ServerTypeOK'
  BY DEF ServerInv, CallsStart, Moves, ServerTypeOK
<1>2. ThreadInv'
  BY DEF ServerInv, CallsStart, Process, Moves, ThreadInv, Starting, Stopping,
     ServerTypeOK
<1>3. PhaseInv'
  BY DEF ServerInv, CallsStart, Moves, PhaseInv, Before, FrontEndsMade
<1>4. ModuleInv'
  BY DEF ServerInv, CallsStart, Moves, ModuleInv
<1>5. StopInv'
  BY DEF ServerInv, CallsStart, Moves, StopInv, Stopping
<1>6. RequestInv'
  BY DEF ServerInv, CallsStart, Process, Moves, RequestInv, Stopping
<1>7. EndInv'
  BY DEF ServerInv, CallsStart, Process, EndInv, ServerTypeOK
<1> QED
  BY <1>1, <1>2, <1>3, <1>4, <1>5, <1>6, <1>7 DEF ServerInv

\* The lock of the start is taken, or the thread is refused.
LEMMA TriesStartMtxKeeps ==
    ASSUME ServerInv, NEW t \in Threads, TriesStartMtx(t)
    PROVE  ServerInv'
<1>1. ServerTypeOK'
  BY DEF ServerInv, TriesStartMtx, Moves, ServerTypeOK, Starting
<1>2. ThreadInv'
  BY ThreadsAssumption DEF ServerInv, TriesStartMtx, Moves, ThreadInv,
     Process, Starting, Stopping, ServerTypeOK
<1>3. PhaseInv'
  BY DEF ServerInv, TriesStartMtx, Moves, PhaseInv, ServerTypeOK, Before,
     FrontEndsMade
<1>4. ModuleInv'
  BY DEF ServerInv, TriesStartMtx, Moves, ModuleInv, ServerTypeOK, ThreadInv
<1>5. StopInv'
  BY DEF ServerInv, TriesStartMtx, Moves, StopInv, ServerTypeOK, Stopping
<1>6. RequestInv'
  BY DEF ServerInv, TriesStartMtx, Moves, RequestInv, ServerTypeOK, Process,
     Stopping
<1>7. EndInv'
  BY ThreadsAssumption DEF ServerInv, TriesStartMtx, Moves, EndInv,
     ServerTypeOK, Process, Stopping
<1> QED
  BY <1>1, <1>2, <1>3, <1>4, <1>5, <1>6, <1>7 DEF ServerInv

\* With the lock of the start a thread finds the modules of another start.
LEMMA ChecksModulesKeeps ==
    ASSUME ServerInv, NEW t \in Threads, ChecksModules(t)
    PROVE  ServerInv'
<1>1. ServerTypeOK'
  BY DEF ServerInv, ChecksModules, Continues, Returns, Moves, ServerTypeOK,
     Starting, Stopping
<1>2. ThreadInv'
  BY ThreadsAssumption DEF ServerInv, ChecksModules, Continues, Returns,
     Moves, Process, ThreadInv, Starting, Stopping, ServerTypeOK
<1>3. PhaseInv'
  BY DEF ServerInv, ChecksModules, Continues, Returns, Moves, PhaseInv,
     ServerTypeOK, Before, FrontEndsMade
<1>4. ModuleInv'
  BY DEF ServerInv, ChecksModules, Returns, Moves, Process, ModuleInv,
     ServerTypeOK
<1>5. StopInv'
  BY DEF ServerInv, ChecksModules, Continues, Returns, Moves, StopInv,
     ServerTypeOK, Stopping
<1>6. RequestInv'
  BY DEF ServerInv, ChecksModules, Continues, Returns, Moves, Process,
     RequestInv, ServerTypeOK, Stopping
<1>7. EndInv'
  BY ThreadsAssumption DEF ServerInv, ChecksModules, Continues, Returns,
     Moves, Process, EndInv, ServerTypeOK, Stopping
<1> QED
  BY <1>1, <1>2, <1>3, <1>4, <1>5, <1>6, <1>7 DEF ServerInv

\* What is started next follows from the command.
LEMMA ParsesConfigKeeps ==
    ASSUME ServerInv, NEW t \in Threads, ParsesConfig(t)
    PROVE  ServerInv'
<1>1. ServerTypeOK'
  BY CommandsAssumption, MishapsAssumption DEF ServerInv, ParsesConfig,
     Continues, Fails, Moves, Mishap, Returns, ServerTypeOK, Starting, Stopping
<1>2. ThreadInv'
  BY ThreadsAssumption DEF ServerInv, ParsesConfig, Continues, Fails, Moves,
     Returns, Process, ThreadInv, Starting, Stopping, ServerTypeOK
<1>3. PhaseInv'
  BY CommandsAssumption DEF ServerInv, ParsesConfig, Continues, Fails, Moves,
     Returns, PhaseInv, ServerTypeOK, Before, FrontEndsMade, NoModules, Modes
<1>4. ModuleInv'
  BY DEF ServerInv, ParsesConfig, Continues, Fails, Moves, Returns, Process,
     ModuleInv, ServerTypeOK
<1>5. StopInv'
  BY DEF ServerInv, ParsesConfig, Continues, Fails, Moves, Returns, StopInv,
     ServerTypeOK, Stopping
<1>6. RequestInv'
  BY DEF ServerInv, ParsesConfig, Continues, Fails, Moves, Returns, Process,
     RequestInv, ServerTypeOK, Stopping
<1>7. EndInv'
  BY ThreadsAssumption DEF ServerInv, ParsesConfig, Continues, Fails, Moves,
     Returns, Process, EndInv, ServerTypeOK, Stopping
<1> QED
  BY <1>1, <1>2, <1>3, <1>4, <1>5, <1>6, <1>7 DEF ServerInv

\* The configuration file is written before there is any front end.
LEMMA StartsConfigManagerKeeps ==
    ASSUME ServerInv, NEW t \in Threads, StartsConfigManager(t)
    PROVE  ServerInv'
<1>1. ServerTypeOK'
  BY CommandsAssumption, MishapsAssumption DEF ServerInv, StartsConfigManager,
     Starts, Returns, Fails, Moves, Mishap, ServerTypeOK, ModuleNames,
     ModuleStates, Stopping
<1>2. ThreadInv'
  BY ThreadsAssumption DEF ServerInv, StartsConfigManager, Returns, Fails,
     Moves, Process, ThreadInv, Starting, Stopping, ServerTypeOK
<1>3. PhaseInv'
  BY DEF ServerInv, StartsConfigManager, Returns, Fails, Moves, PhaseInv,
     ThreadInv, ServerTypeOK, Before, FrontEndsMade
<1>4. ModuleInv'
  BY DEF ServerInv, StartsConfigManager, Starts, Returns, Fails, Moves,
     ModuleInv, ServerTypeOK, ThreadInv
<1>5. StopInv'
  BY DEF ServerInv, StartsConfigManager, Starts, Returns, Fails, Moves,
     StopInv, ServerTypeOK, Stopping
<1>6. RequestInv'
  BY DEF ServerInv, StartsConfigManager, Starts, Returns, Fails, Moves,
     Process, RequestInv, ServerTypeOK, Stopping
<1>7. EndInv'
  BY ThreadsAssumption DEF ServerInv, StartsConfigManager, Returns, Fails,
     Moves, Process, EndInv, ServerTypeOK, Stopping
<1> QED
  BY <1>1, <1>2, <1>3, <1>4, <1>5, <1>6, <1>7 DEF ServerInv

\* A pull begins before the models are loaded.
LEMMA StartsPullKeeps ==
    ASSUME ServerInv, NEW t \in Threads, StartsPull(t)
    PROVE  ServerInv'
<1>1. ServerTypeOK'
  BY DEF ServerInv, StartsPull, Starts, Continues, Moves, ServerTypeOK,
     Starting, ModuleStates
<1>2. ThreadInv'
  BY DEF ServerInv, StartsPull, Continues, Moves, ThreadInv, Process,
     Starting, Stopping
<1>3. PhaseInv'
  BY DEF ServerInv, StartsPull, Starts, Continues, Moves, PhaseInv, ThreadInv,
     ServerTypeOK, Before, FrontEndsMade, NoModules, ModuleNames, Serving
<1>4. ModuleInv'
  BY DEF ServerInv, StartsPull, Starts, Continues, Moves, ModuleInv, ThreadInv
<1>5. StopInv'
  BY DEF ServerInv, StartsPull, Starts, Continues, Moves, StopInv, Stopping
<1>6. RequestInv'
  BY DEF ServerInv, StartsPull, Starts, Continues, Moves, RequestInv, Process,
     Stopping
<1>7. EndInv'
  BY ThreadsAssumption DEF ServerInv, StartsPull, Continues, Moves, EndInv,
     ThreadInv, Stopping
<1> QED
  BY <1>1, <1>2, <1>3, <1>4, <1>5, <1>6, <1>7 DEF ServerInv

\* A pull that cannot begin ends the start.
LEMMA StartsNoPullKeeps ==
    ASSUME ServerInv, NEW t \in Threads, StartsNoPull(t)
    PROVE  ServerInv'
<1>1. ServerTypeOK'
  BY CommandsAssumption, MishapsAssumption DEF ServerInv, StartsNoPull,
     Starts, Fails, Mishap, Returns, Moves, ServerTypeOK, ModuleNames,
     ModuleStates, Stopping
<1>2. ThreadInv'
  BY ThreadsAssumption DEF ServerInv, StartsNoPull, Fails, Returns, Moves,
     Process, ThreadInv, Starting, Stopping, ServerTypeOK
<1>3. PhaseInv'
  BY DEF ServerInv, StartsNoPull, Fails, Returns, Moves, PhaseInv, ThreadInv,
     ServerTypeOK, Before, FrontEndsMade
<1>4. ModuleInv'
  BY DEF ServerInv, StartsNoPull, Starts, Fails, Returns, Moves, ModuleInv,
     ThreadInv
<1>5. StopInv'
  BY DEF ServerInv, StartsNoPull, Starts, Fails, Returns, Moves, StopInv,
     Stopping
<1>6. RequestInv'
  BY DEF ServerInv, StartsNoPull, Starts, Fails, Returns, Moves, Process,
     RequestInv, Stopping
<1>7. EndInv'
  BY DEF ServerInv, StartsNoPull, Fails, Returns, Moves, Process, EndInv,
     ServerTypeOK
<1> QED
  BY <1>1, <1>2, <1>3, <1>4, <1>5, <1>6, <1>7 DEF ServerInv

\* The interpreter is there before the graphs that need it.
LEMMA StartsPythonKeeps ==
    ASSUME ServerInv, NEW t \in Threads, StartsPython(t)
    PROVE  ServerInv'
<1>1. ServerTypeOK'
  BY CommandsAssumption, MishapsAssumption DEF ServerInv, StartsPython,
     Starts, Continues, Fails, Moves, Mishap, Returns, ServerTypeOK,
     ModuleStates, Starting, Stopping
<1>2. ThreadInv'
  BY ThreadsAssumption DEF ServerInv, StartsPython, Starts, Continues, Fails,
     Moves, Returns, Process, ThreadInv, Starting, Stopping, ServerTypeOK
<1>3. PhaseInv'
  BY DEF ServerInv, StartsPython, Starts, Continues, Fails, Moves, Returns,
     PhaseInv, ThreadInv, ServerTypeOK, Before, FrontEndsMade, NoModules,
     ModuleNames
<1>4. ModuleInv'
  BY ThreadsAssumption DEF ServerInv, StartsPython, Starts, Continues, Fails,
     Moves, Returns, ModuleInv, ServerTypeOK, ThreadInv, ModuleNames
<1>5. StopInv'
  BY DEF ServerInv, StartsPython, Starts, Continues, Fails, Moves, Returns,
     StopInv, ServerTypeOK, PhaseInv, NoModules, ModuleNames, Before
<1>6. RequestInv'
  BY DEF ServerInv, StartsPython, Starts, Continues, Fails, Moves, Returns,
     Process, RequestInv, ServerTypeOK, ModuleNames, Stopping
<1>7. EndInv'
  BY ThreadsAssumption DEF ServerInv, StartsPython, Continues, Fails, Moves,
     Returns, Process, EndInv, ServerTypeOK, Stopping
<1> QED
  BY <1>1, <1>2, <1>3, <1>4, <1>5, <1>6, <1>7 DEF ServerInv

\* The manager is made before the front ends that refer to it.
LEMMA StartsMetricsKeeps ==
    ASSUME ServerInv, NEW t \in Threads, StartsMetrics(t)
    PROVE  ServerInv'
<1>1. ServerTypeOK'
  BY DEF ServerInv, StartsMetrics, Continues, Moves, ServerTypeOK, Starting,
     ModuleStates
<1>2. ThreadInv'
  BY DEF ServerInv, StartsMetrics, Continues, Moves, ThreadInv, Process,
     Starting, Stopping
<1>3. PhaseInv'
  BY DEF ServerInv, StartsMetrics, Continues, Moves, PhaseInv, ThreadInv,
     ServerTypeOK, Before, FrontEndsMade, ModuleNames
<1>4. ModuleInv'
  BY DEF ServerInv, StartsMetrics, Continues, Moves, ModuleInv, ServerTypeOK,
     ThreadInv, PhaseInv, ModuleNames
<1>5. StopInv'
  BY DEF ServerInv, StartsMetrics, Continues, Moves, StopInv, ServerTypeOK,
     ThreadInv, ModuleNames
<1>6. RequestInv'
  BY DEF ServerInv, StartsMetrics, Continues, Moves, RequestInv, ServerTypeOK,
     Process, ModuleNames, Stopping
<1>7. EndInv'
  BY ThreadsAssumption DEF ServerInv, StartsMetrics, Continues, Moves, EndInv,
     ThreadInv, Stopping
<1> QED
  BY <1>1, <1>2, <1>3, <1>4, <1>5, <1>6, <1>7 DEF ServerInv

\* The gRPC module is started over a manager.
LEMMA StartsGrpcKeeps ==
    ASSUME ServerInv, NEW t \in Threads, StartsGrpc(t)
    PROVE  ServerInv'
<1>1. ServerTypeOK'
  BY CommandsAssumption, MishapsAssumption DEF ServerInv, StartsGrpc, Starts,
     Continues, Fails, Moves, Mishap, Returns, ServerTypeOK, ModuleStates,
     Starting, Stopping
<1>2. ThreadInv'
  BY ThreadsAssumption DEF ServerInv, StartsGrpc, Starts, Continues, Fails,
     Moves, Returns, Process, ThreadInv, Starting, Stopping, ServerTypeOK
<1>3. PhaseInv'
  BY DEF ServerInv, StartsGrpc, Starts, Continues, Fails, Moves, Returns,
     PhaseInv, ThreadInv, ServerTypeOK, Before, FrontEndsMade, ModuleNames
<1>4. ModuleInv'
  BY DEF ServerInv, StartsGrpc, Starts, Continues, Fails, Moves, Returns,
     ModuleInv, ServerTypeOK, ThreadInv, PhaseInv, ModuleNames
<1>5. StopInv'
  BY DEF ServerInv, StartsGrpc, Starts, Continues, Fails, Moves, Returns,
     StopInv, ServerTypeOK, PhaseInv, ModuleNames
<1>6. RequestInv'
  BY DEF ServerInv, StartsGrpc, Starts, Continues, Fails, Moves, Returns,
     Process, RequestInv, ServerTypeOK, PhaseInv, ModuleNames, Stopping
<1>7. EndInv'
  BY ThreadsAssumption DEF ServerInv, StartsGrpc, Starts, Continues, Fails,
     Moves, Returns, Process, EndInv, ServerTypeOK, Stopping
<1> QED
  BY <1>1, <1>2, <1>3, <1>4, <1>5, <1>6, <1>7 DEF ServerInv

\* The HTTP module is started over the services of the gRPC module.
LEMMA StartsHttpKeeps ==
    ASSUME ServerInv, NEW t \in Threads, StartsHttp(t)
    PROVE  ServerInv'
<1>1. ServerTypeOK'
  BY CommandsAssumption, MishapsAssumption DEF ServerInv, StartsHttp, Starts,
     Continues, Returns, Fails, Moves, Mishap, ServerTypeOK, ModuleStates,
     Starting, Stopping
<1>2. ThreadInv'
  BY ThreadsAssumption DEF ServerInv, StartsHttp, Starts, Continues, Returns,
     Fails, Moves, Process, ThreadInv, Starting, Stopping, ServerTypeOK
<1>3. PhaseInv'
  BY DEF ServerInv, StartsHttp, Starts, Continues, Returns, Fails, Moves,
     PhaseInv, ThreadInv, ServerTypeOK, Before, FrontEndsMade, ModuleNames
<1>4. ModuleInv'
  BY DEF ServerInv, StartsHttp, Starts, Continues, Returns, Fails, Moves,
     ModuleInv, ServerTypeOK, ThreadInv, PhaseInv, ModuleNames
<1>5. StopInv'
  BY DEF ServerInv, StartsHttp, Starts, Continues, Returns, Fails, Moves,
     StopInv, ServerTypeOK, PhaseInv, ModuleNames
<1>6. RequestInv'
  BY DEF ServerInv, StartsHttp, Starts, Continues, Returns, Fails, Moves,
     Process, RequestInv, ServerTypeOK, ThreadInv, ModuleInv, StopInv,
     ModuleNames, Stopping
<1>7. EndInv'
  BY ThreadsAssumption DEF ServerInv, StartsHttp, Continues, Returns, Fails,
     Moves, Process, EndInv, ServerTypeOK, Stopping
<1> QED
  BY <1>1, <1>2, <1>3, <1>4, <1>5, <1>6, <1>7 DEF ServerInv

\* The end of a pull ends the start, or lets it go on.
LEMMA CloneReturnsKeeps ==
    ASSUME ServerInv, NEW t \in Threads, NEW ok \in BOOLEAN, CloneReturns(t, ok)
    PROVE  ServerInv'
<1>1. ServerTypeOK'
  BY DEF ServerInv, CloneReturns, Continues, Returns, Moves, ServerTypeOK,
     Starting, Stopping
<1>2. ThreadInv'
  BY ThreadsAssumption DEF ServerInv, CloneReturns, Continues, Returns, Moves,
     Process, ThreadInv, Starting, Stopping, ServerTypeOK
<1>3. PhaseInv'
  BY CommandsAssumption DEF ServerInv, CloneReturns, Continues, Returns,
     Moves, PhaseInv, ServerTypeOK, Before, FrontEndsMade, Modes
<1>4. ModuleInv'
  BY DEF ServerInv, CloneReturns, Continues, Returns, Moves, Process,
     ModuleInv, ServerTypeOK
<1>5. StopInv'
  BY DEF ServerInv, CloneReturns, Continues, Returns, Moves, StopInv,
     ServerTypeOK, Stopping
<1>6. RequestInv'
  BY DEF ServerInv, CloneReturns, Continues, Returns, Moves, Process,
     RequestInv, ServerTypeOK, Stopping
<1>7. EndInv'
  BY ThreadsAssumption DEF ServerInv, CloneReturns, Continues, Returns, Moves,
     Process, EndInv, ServerTypeOK, Stopping
<1> QED
  BY <1>1, <1>2, <1>3, <1>4, <1>5, <1>6, <1>7 DEF ServerInv

\* Models are loaded when the front ends are there.
LEMMA LoadsKeeps ==
    ASSUME ServerInv, NEW t \in Threads, Loads(t)
    PROVE  ServerInv'
<1>1. ServerTypeOK'
  BY DEF ServerInv, Loads, Continues, Moves, ServerTypeOK, Starting,
     ModuleStates
<1>2. ThreadInv'
  BY DEF ServerInv, Loads, Continues, Moves, ThreadInv, Process, Starting,
     Stopping
<1>3. PhaseInv'
  BY DEF ServerInv, Loads, Continues, Moves, PhaseInv, ThreadInv,
     ServerTypeOK, Before, FrontEndsMade, ModuleNames
<1>4. ModuleInv'
  BY DEF ServerInv, Loads, Continues, Moves, ModuleInv, ServerTypeOK,
     ThreadInv, PhaseInv, FrontEndsMade, ModuleNames
<1>5. StopInv'
  BY DEF ServerInv, Loads, Continues, Moves, StopInv, ThreadInv, Stopping
<1>6. RequestInv'
  BY DEF ServerInv, Loads, Continues, Moves, RequestInv, PhaseInv, ModuleInv,
     Process, Stopping
<1>7. EndInv'
  BY ThreadsAssumption DEF ServerInv, Loads, Continues, Moves, EndInv,
     ThreadInv, Stopping
<1> QED
  BY <1>1, <1>2, <1>3, <1>4, <1>5, <1>6, <1>7 DEF ServerInv

\* The manager is the last to be INITIALIZED.
LEMMA ManagerStartsKeeps ==
    ASSUME ServerInv, NEW t \in Threads, ManagerStarts(t)
    PROVE  ServerInv'
<1>1. ServerTypeOK'
  BY CommandsAssumption, MishapsAssumption DEF ServerInv, ManagerStarts,
     Continues, Fails, Moves, Mishap, Returns, ServerTypeOK, ModuleStates,
     Starting, Stopping
<1>2. ThreadInv'
  BY ThreadsAssumption DEF ServerInv, ManagerStarts, Continues, Fails, Moves,
     Returns, Process, ThreadInv, Starting, Stopping, ServerTypeOK
<1>3. PhaseInv'
  BY DEF ServerInv, ManagerStarts, Continues, Fails, Moves, Returns, PhaseInv,
     ThreadInv, ServerTypeOK, Before, FrontEndsMade, ModuleNames
<1>4. ModuleInv'
  BY DEF ServerInv, ManagerStarts, Continues, Fails, Moves, Returns,
     ModuleInv, ServerTypeOK, ThreadInv, ModuleNames
<1>5. StopInv'
  BY DEF ServerInv, ManagerStarts, Continues, Fails, Moves, Returns, StopInv,
     ServerTypeOK, PhaseInv, ModuleNames
<1>6. RequestInv'
  BY DEF ServerInv, ManagerStarts, Continues, Fails, Moves, Returns, Process,
     RequestInv, ServerTypeOK, ModuleNames, Stopping
<1>7. EndInv'
  BY ThreadsAssumption DEF ServerInv, ManagerStarts, Continues, Fails, Moves,
     Returns, Process, EndInv, ServerTypeOK, Stopping
<1> QED
  BY <1>1, <1>2, <1>3, <1>4, <1>5, <1>6, <1>7 DEF ServerInv

\* The interpreter is given to the requests.
LEMMA ReleasesGILKeeps ==
    ASSUME ServerInv, NEW t \in Threads, ReleasesGIL(t)
    PROVE  ServerInv'
<1>1. ServerTypeOK'
  BY DEF ServerInv, ReleasesGIL, Returns, Moves, ServerTypeOK
<1>2. ThreadInv'
  BY ThreadsAssumption DEF ServerInv, ReleasesGIL, Returns, Moves, Process,
     ThreadInv, Starting, Stopping, ServerTypeOK
<1>3. PhaseInv'
  BY DEF ServerInv, ReleasesGIL, Returns, Moves, PhaseInv, Before,
     FrontEndsMade
<1>4. ModuleInv'
  BY DEF ServerInv, ReleasesGIL, Returns, Moves, Process, ModuleInv, PhaseInv,
     FrontEndsMade
<1>5. StopInv'
  BY DEF ServerInv, ReleasesGIL, Returns, Moves, StopInv, Stopping
<1>6. RequestInv'
  BY DEF ServerInv, ReleasesGIL, Returns, Moves, Process, RequestInv, Stopping
<1>7. EndInv'
  BY DEF ServerInv, ReleasesGIL, Returns, Moves, Process, EndInv, Stopping
<1> QED
  BY <1>1, <1>2, <1>3, <1>4, <1>5, <1>6, <1>7 DEF ServerInv

\* The loop of the process ends when it was asked to.
LEMMA LeavesLoopKeeps ==
    ASSUME ServerInv, NEW t \in Threads, LeavesLoop(t)
    PROVE  ServerInv'
<1>1. ServerTypeOK'
  BY DEF ServerInv, LeavesLoop, Moves, ServerTypeOK, Stopping
<1>2. ThreadInv'
  BY DEF ServerInv, LeavesLoop, Moves, ThreadInv, Process, Starting
<1>3. PhaseInv'
  BY DEF ServerInv, LeavesLoop, Moves, PhaseInv, Before, FrontEndsMade
<1>4. ModuleInv'
  BY DEF ServerInv, LeavesLoop, Moves, ModuleInv, ThreadInv
<1>5. StopInv'
  BY DEF ServerInv, LeavesLoop, Moves, StopInv, Stopping
<1>6. RequestInv'
  BY DEF ServerInv, LeavesLoop, RequestInv, ThreadInv
<1>7. EndInv'
  BY DEF LeavesLoop, EndInv
<1> QED
  BY <1>1, <1>2, <1>3, <1>4, <1>5, <1>6, <1>7 DEF ServerInv

\* OVMS_ServerDelete is called with no other call in work.
LEMMA CallsDeleteKeeps ==
    ASSUME ServerInv, NEW t \in Threads, CallsDelete(t)
    PROVE  ServerInv'
<1>1. ServerTypeOK'
  BY DEF ServerInv, CallsDelete, Moves, ServerTypeOK, Stopping
<1>2. ThreadInv'
  BY DEF ServerInv, CallsDelete, Process, Moves, ThreadInv, Starting, Stopping
<1>3. PhaseInv'
  BY DEF CallsDelete, Moves, PhaseInv, Before, FrontEndsMade
<1>4. ModuleInv'
  BY DEF ServerInv, CallsDelete, Process, Moves, ModuleInv
<1>5. StopInv'
  BY DEF ServerInv, CallsDelete, Moves, StopInv, Stopping
<1>6. RequestInv'
  BY DEF ServerInv, CallsDelete, InWork, RequestInv
<1>7. EndInv'
  BY DEF CallsDelete, Process, EndInv
<1> QED
  BY <1>1, <1>2, <1>3, <1>4, <1>5, <1>6, <1>7 DEF ServerInv

\* gRPC is the first to be stopped.
LEMMA StopsGrpcKeeps ==
    ASSUME ServerInv, NEW t \in Threads, StopsGrpc(t)
    PROVE  ServerInv'
<1>1. ServerTypeOK'
  BY DEF ServerInv, StopsGrpc, ensureModuleShutdown, Moves, ServerTypeOK,
     Stopping, ModuleStates
<1>2. ThreadInv'
  BY GrpcTurn DEF ServerInv, StopsGrpc, ensureModuleShutdown, Moves,
     ThreadInv, Process, NoModules, Starting, ServerTypeOK
<1>3. PhaseInv'
  BY GrpcTurn DEF ServerInv, StopsGrpc, ensureModuleShutdown, Moves, PhaseInv,
     ThreadInv, ServerTypeOK, Before, FrontEndsMade
<1>4. ModuleInv'
  BY GrpcTurn DEF ServerInv, StopsGrpc, ensureModuleShutdown, Moves,
     ModuleInv, ThreadInv
<1>5. StopInv'
  BY GrpcTurn DEF ServerInv, StopsGrpc, ensureModuleShutdown, Moves, StopInv,
     ServerTypeOK, ModuleNames
<1>6. RequestInv'
  BY GrpcTurn DEF ServerInv, StopsGrpc, ensureModuleShutdown, RequestInv,
     ServerTypeOK, Starting
<1>7. EndInv'
  BY GrpcTurn DEF ServerInv, StopsGrpc, ensureModuleShutdown, Moves, EndInv,
     ServerTypeOK, Process, Starting
<1> QED
  BY <1>1, <1>2, <1>3, <1>4, <1>5, <1>6, <1>7 DEF ServerInv

\* No gRPC request is left when its module has shut.
LEMMA GrpcStoppedKeeps ==
    ASSUME ServerInv, NEW t \in Threads, GrpcStopped(t)
    PROVE  ServerInv'
<1>1. ServerTypeOK'
  BY DEF ServerInv, GrpcStopped, IsShut, Moves, ServerTypeOK, Stopping,
     ModuleStates
<1>2. ThreadInv'
  BY DEF ServerInv, GrpcStopped, IsShut, Moves, ThreadInv, Process, NoModules,
     Starting, ServerTypeOK
<1>3. PhaseInv'
  BY DEF ServerInv, GrpcStopped, IsShut, Moves, PhaseInv, ThreadInv,
     ServerTypeOK, Before, FrontEndsMade
<1>4. ModuleInv'
  BY DEF ServerInv, GrpcStopped, IsShut, Moves, ModuleInv, ThreadInv, StopInv
<1>5. StopInv'
  BY DEF ServerInv, GrpcStopped, IsShut, Moves, StopInv, ServerTypeOK,
     ThreadInv, ModuleNames
<1>6. RequestInv'
  BY DEF ServerInv, GrpcStopped, InWork, IsShut, RequestInv, ServerTypeOK,
     Starting
<1>7. EndInv'
  BY DEF ServerInv, GrpcStopped, IsShut, Moves, EndInv, ServerTypeOK, Process,
     Starting
<1> QED
  BY <1>1, <1>2, <1>3, <1>4, <1>5, <1>6, <1>7 DEF ServerInv

\* HTTP is stopped after gRPC.
LEMMA StopsHttpKeeps ==
    ASSUME ServerInv, NEW t \in Threads, StopsHttp(t)
    PROVE  ServerInv'
<1>1. ServerTypeOK'
  BY DEF ServerInv, StopsHttp, ensureModuleShutdown, Moves, ServerTypeOK,
     Stopping, ModuleStates
<1>2. ThreadInv'
  BY HttpTurn DEF ServerInv, StopsHttp, ensureModuleShutdown, Moves,
     ThreadInv, Process, NoModules, Starting, ServerTypeOK
<1>3. PhaseInv'
  BY HttpTurn DEF ServerInv, StopsHttp, ensureModuleShutdown, Moves, PhaseInv,
     ThreadInv, ServerTypeOK, Before, FrontEndsMade
<1>4. ModuleInv'
  BY HttpTurn DEF ServerInv, StopsHttp, ensureModuleShutdown, Moves,
     ModuleInv, ServerTypeOK, ThreadInv, ModuleNames
<1>5. StopInv'
  BY HttpTurn DEF ServerInv, StopsHttp, ensureModuleShutdown, Moves, StopInv,
     ServerTypeOK, ModuleInv, ModuleNames
<1>6. RequestInv'
  BY HttpTurn DEF ServerInv, StopsHttp, ensureModuleShutdown, RequestInv,
     ServerTypeOK, Starting
<1>7. EndInv'
  BY HttpTurn DEF ServerInv, StopsHttp, ensureModuleShutdown, Moves, EndInv,
     ServerTypeOK, Process, Starting
<1> QED
  BY <1>1, <1>2, <1>3, <1>4, <1>5, <1>6, <1>7 DEF ServerInv

\* No HTTP request is left when its module has shut.
LEMMA HttpStoppedKeeps ==
    ASSUME ServerInv, NEW t \in Threads, HttpStopped(t)
    PROVE  ServerInv'
<1>1. ServerTypeOK'
  BY DEF ServerInv, HttpStopped, IsShut, Moves, ServerTypeOK, Stopping,
     ModuleStates
<1>2. ThreadInv'
  BY DEF ServerInv, HttpStopped, IsShut, Moves, ThreadInv, Process, NoModules,
     Starting, ServerTypeOK
<1>3. PhaseInv'
  BY DEF ServerInv, HttpStopped, IsShut, Moves, PhaseInv, ThreadInv,
     ServerTypeOK, Before, FrontEndsMade
<1>4. ModuleInv'
  BY DEF ServerInv, HttpStopped, IsShut, Moves, ModuleInv, ThreadInv, StopInv
<1>5. StopInv'
  BY DEF ServerInv, HttpStopped, IsShut, Moves, StopInv, ServerTypeOK,
     ThreadInv, ModuleNames
<1>6. RequestInv'
  BY DEF ServerInv, HttpStopped, InWork, IsShut, RequestInv, ServerTypeOK,
     Starting
<1>7. EndInv'
  BY DEF ServerInv, HttpStopped, IsShut, Moves, EndInv, ServerTypeOK, Process,
     Starting
<1> QED
  BY <1>1, <1>2, <1>3, <1>4, <1>5, <1>6, <1>7 DEF ServerInv

\* The manager is stopped after the front ends.
LEMMA StopsManagerKeeps ==
    ASSUME ServerInv, NEW t \in Threads, StopsManager(t)
    PROVE  ServerInv'
<1>1. ServerTypeOK'
  BY DEF ServerInv, StopsManager, ensureModuleShutdown, Moves, ServerTypeOK,
     Stopping, ModuleStates
<1>2. ThreadInv'
  BY ManagerTurn DEF ServerInv, StopsManager, ensureModuleShutdown, Moves,
     ThreadInv, Process, NoModules, Starting, ServerTypeOK
<1>3. PhaseInv'
  BY ManagerTurn DEF ServerInv, StopsManager, ensureModuleShutdown, Moves,
     PhaseInv, ThreadInv, ServerTypeOK, Before, FrontEndsMade
<1>4. ModuleInv'
  BY ManagerTurn DEF ServerInv, StopsManager, ensureModuleShutdown, Moves,
     ModuleInv, ThreadInv
<1>5. StopInv'
  BY ManagerTurn DEF ServerInv, StopsManager, ensureModuleShutdown, Moves,
     StopInv, ServerTypeOK, ThreadInv, ModuleInv, ModuleNames
<1>6. RequestInv'
  BY ManagerTurn DEF ServerInv, StopsManager, ensureModuleShutdown,
     RequestInv, ServerTypeOK, Starting
<1>7. EndInv'
  BY ManagerTurn DEF ServerInv, StopsManager, ensureModuleShutdown, Moves,
     EndInv, ServerTypeOK, Process, Starting
<1> QED
  BY <1>1, <1>2, <1>3, <1>4, <1>5, <1>6, <1>7 DEF ServerInv

\* No reload is left when the manager has shut.
LEMMA JoinsManagerKeeps ==
    ASSUME ServerInv, NEW t \in Threads, JoinsManager(t)
    PROVE  ServerInv'
<1>1. ServerTypeOK'
  BY DEF ServerInv, JoinsManager, IsShut, Moves, ServerTypeOK, Stopping,
     ModuleStates
<1>2. ThreadInv'
  BY DEF ServerInv, JoinsManager, IsShut, Moves, ThreadInv, Process,
     NoModules, Starting, ServerTypeOK
<1>3. PhaseInv'
  BY DEF ServerInv, JoinsManager, IsShut, Moves, PhaseInv, ThreadInv,
     ServerTypeOK, Before, FrontEndsMade
<1>4. ModuleInv'
  BY DEF ServerInv, JoinsManager, IsShut, Moves, ModuleInv, ThreadInv
<1>5. StopInv'
  BY DEF ServerInv, JoinsManager, IsShut, Moves, StopInv, ServerTypeOK,
     ThreadInv, ModuleNames, Stopping
<1>6. RequestInv'
  BY DEF ServerInv, JoinsManager, RequestInv, ServerTypeOK, StopInv,
     NoRequest, Starting
<1>7. EndInv'
  BY DEF ServerInv, JoinsManager, IsShut, Moves, EndInv, ServerTypeOK,
     Process, Starting
<1> QED
  BY <1>1, <1>2, <1>3, <1>4, <1>5, <1>6, <1>7 DEF ServerInv

\* The interpreter goes when no graph needs it any more.
LEMMA StopsPythonKeeps ==
    ASSUME ServerInv, NEW t \in Threads, StopsPython(t)
    PROVE  ServerInv'
<1>1. ServerTypeOK'
  BY PythonTurn DEF ServerInv, StopsPython, IsShut, Moves, ServerTypeOK,
     ModuleStates
<1>2. ThreadInv'
  BY PythonTurn DEF ServerInv, StopsPython, IsShut, Moves, ThreadInv, Process,
     NoModules, ServerTypeOK
<1>3. PhaseInv'
  BY PythonTurn DEF ServerInv, StopsPython, IsShut, Moves, PhaseInv,
     ThreadInv, ServerTypeOK, Before
<1>4. ModuleInv'
  BY PythonTurn DEF ServerInv, StopsPython, IsShut, Moves, ModuleInv,
     ServerTypeOK, ThreadInv, ModuleNames
<1>5. StopInv'
  BY PythonTurn DEF ServerInv, StopsPython, IsShut, Moves, StopInv
<1>6. RequestInv'
  BY PythonTurn DEF ServerInv, StopsPython, IsShut, Moves, RequestInv, Process
<1>7. EndInv'
  BY PythonTurn DEF ServerInv, StopsPython, IsShut, Moves, EndInv, Process
<1> QED
  BY <1>1, <1>2, <1>3, <1>4, <1>5, <1>6, <1>7 DEF ServerInv

\* The modules are forgotten when each has shut.
LEMMA ClearsModulesKeeps ==
    ASSUME ServerInv, NEW t \in Threads, ClearsModules(t)
    PROVE  ServerInv'
<1>1. ServerTypeOK'
  BY DEF ServerInv, ClearsModules, NoModules, Moves, ServerTypeOK,
     ModuleStates
<1>2. ThreadInv'
  BY DEF ServerInv, ClearsModules, Moves, Process, ThreadInv, Starting,
     Stopping, ServerTypeOK
<1>3. PhaseInv'
  BY DEF ServerInv, ClearsModules, Moves, PhaseInv, ThreadInv, ServerTypeOK,
     FrontEndsMade
<1>4. ModuleInv'
  BY AllShut DEF ServerInv, ClearsModules, NoModules, Process, ModuleInv,
     ModuleNames
<1>5. StopInv'
  BY DEF ServerInv, ClearsModules, NoModules, Moves, StopInv, ServerTypeOK,
     ThreadInv, ModuleNames
<1>6. RequestInv'
  BY AllShut DEF ServerInv, ClearsModules, RequestInv, ModuleInv, StopInv
<1>7. EndInv'
  BY DEF ServerInv, ClearsModules, Moves, Process, EndInv, ServerTypeOK,
     Starting
<1> QED
  BY <1>1, <1>2, <1>3, <1>4, <1>5, <1>6, <1>7 DEF ServerInv

\* The exit code is that of the start.
LEMMA ExitsKeeps ==
    ASSUME ServerInv, NEW t \in Threads, Exits(t)
    PROVE  ServerInv'
<1>1. ServerTypeOK'
  BY DEF ServerInv, Exits, Moves, ServerTypeOK
<1>2. ThreadInv'
  BY DEF ServerInv, Exits, Moves, ThreadInv, Process, Starting, ServerTypeOK
<1>3. PhaseInv'
  BY DEF ServerInv, Exits, Moves, PhaseInv, Before, FrontEndsMade
<1>4. ModuleInv'
  BY DEF ServerInv, Exits, ModuleInv, NoModules, ModuleNames
<1>5. StopInv'
  BY DEF ServerInv, Exits, Moves, StopInv, Stopping
<1>6. RequestInv'
  BY DEF ServerInv, Exits, RequestInv, ThreadInv
<1>7. EndInv'
  BY DEF ServerInv, Exits, EndInv, ThreadInv
<1> QED
  BY <1>1, <1>2, <1>3, <1>4, <1>5, <1>6, <1>7 DEF ServerInv

\* A request finds the modules it is going to use.
LEMMA ArrivesKeeps ==
    ASSUME ServerInv, NEW h \in Handlers, NEW front \in {"grpc", "http", "capi"},
           NEW python \in BOOLEAN, Arrives(h, front, python)
    PROVE  ServerInv'
<1>1. ServerTypeOK'
  BY DEF ServerInv, Arrives, threadVars, ServerTypeOK
<1>2. ThreadInv'
  BY DEF ServerInv, Arrives, threadVars, Process, ThreadInv
<1>3. PhaseInv'
  BY DEF ServerInv, Arrives, threadVars, PhaseInv
<1>4. ModuleInv'
  BY DEF ServerInv, Arrives, threadVars, ModuleInv
<1>5. StopInv'
  BY DEF ServerInv, Arrives, threadVars, StopInv
<1>6. RequestInv'
  <2>1. request \in [Handlers -> [front : {"none", "grpc", "http", "capi"}, python : BOOLEAN]]
    BY DEF ServerInv, ServerTypeOK
  <2>2. /\ request'[h] = [front |-> front, python |-> python]
        /\ \A g \in Handlers : g # h => request'[g] = request[g]
    BY <2>1 DEF Arrives
  <2>3. UNCHANGED <<command, mods, at, loaded, drogon>>
    BY DEF Arrives, threadVars
  <2>4. /\ front = "grpc" => mods["grpc"] = "INITIALIZED"
        /\ front = "http" => mods["http"] = "INITIALIZED"
        /\ front = "capi" => /\ mods["manager"] # "absent" /\ ~Process
                            /\ \A t \in Threads : at[t] \notin Stopping
        /\ python => command.python /\ loaded
    BY DEF Arrives, Accepts, isLive
  <2> QED
    BY <2>2, <2>3, <2>4 DEF ServerInv, RequestInv, Process
<1>7. EndInv'
  BY DEF ServerInv, Arrives, threadVars, Process, EndInv
<1> QED
  BY <1>1, <1>2, <1>3, <1>4, <1>5, <1>6, <1>7 DEF ServerInv

\* A request that ends uses nothing any more.
LEMMA AnswersKeeps ==
    ASSUME ServerInv, NEW h \in Handlers, Answers(h)
    PROVE  ServerInv'
<1>1. ServerTypeOK'
  BY DEF ServerInv, Answers, NoRequest, threadVars, ServerTypeOK
<1>2. ThreadInv'
  BY DEF ServerInv, Answers, threadVars, ThreadInv, Process
<1>3. PhaseInv'
  BY DEF ServerInv, Answers, threadVars, PhaseInv
<1>4. ModuleInv'
  BY DEF ServerInv, Answers, threadVars, ModuleInv, ThreadInv
<1>5. StopInv'
  BY DEF ServerInv, Answers, threadVars, StopInv
<1>6. RequestInv'
  BY DEF ServerInv, Answers, NoRequest, threadVars, RequestInv, Process
<1>7. EndInv'
  BY DEF ServerInv, Answers, threadVars, EndInv, Process
<1> QED
  BY <1>1, <1>2, <1>3, <1>4, <1>5, <1>6, <1>7 DEF ServerInv

\* A reload has a manager that is not stopped.
LEMMA WatcherReloadsKeeps ==
    ASSUME ServerInv, WatcherReloads
    PROVE  ServerInv'
<1>1. ServerTypeOK'
  BY DEF ServerInv, WatcherReloads, threadVars, ServerTypeOK
<1>2. ThreadInv'
  BY DEF ServerInv, WatcherReloads, threadVars, ThreadInv, Process
<1>3. PhaseInv'
  BY DEF ServerInv, WatcherReloads, threadVars, PhaseInv
<1>4. ModuleInv'
  BY DEF ServerInv, WatcherReloads, threadVars, ModuleInv, ThreadInv
<1>5. StopInv'
  BY DEF ServerInv, WatcherReloads, threadVars, StopInv
<1>6. RequestInv'
  BY DEF ServerInv, WatcherReloads, threadVars, RequestInv, Process
<1>7. EndInv'
  BY DEF ServerInv, WatcherReloads, threadVars, EndInv, Process
<1> QED
  BY <1>1, <1>2, <1>3, <1>4, <1>5, <1>6, <1>7 DEF ServerInv

\* A reload ends.
LEMMA WatcherSleepsKeeps ==
    ASSUME ServerInv, WatcherSleeps
    PROVE  ServerInv'
<1>1. ServerTypeOK'
  BY DEF ServerInv, WatcherSleeps, threadVars, ServerTypeOK
<1>2. ThreadInv'
  BY DEF ServerInv, WatcherSleeps, threadVars, ThreadInv, Process
<1>3. PhaseInv'
  BY DEF ServerInv, WatcherSleeps, threadVars, PhaseInv
<1>4. ModuleInv'
  BY DEF ServerInv, WatcherSleeps, threadVars, ModuleInv, ThreadInv
<1>5. StopInv'
  BY DEF ServerInv, WatcherSleeps, threadVars, StopInv
<1>6. RequestInv'
  BY DEF ServerInv, WatcherSleeps, threadVars, RequestInv, Process
<1>7. EndInv'
  BY DEF ServerInv, WatcherSleeps, threadVars, EndInv, Process
<1> QED
  BY <1>1, <1>2, <1>3, <1>4, <1>5, <1>6, <1>7 DEF ServerInv

\* A signal only asks.
LEMMA SignalKeeps ==
    ASSUME ServerInv, Signal
    PROVE  ServerInv'
<1>1. ServerTypeOK'
  BY DEF ServerInv, Signal, threadVars, ServerTypeOK
<1>2. ThreadInv'
  BY DEF ServerInv, Signal, Process, threadVars, ThreadInv
<1>3. PhaseInv'
  BY DEF ServerInv, Signal, threadVars, PhaseInv
<1>4. ModuleInv'
  BY DEF ServerInv, Signal, threadVars, ModuleInv
<1>5. StopInv'
  BY DEF ServerInv, Signal, threadVars, StopInv
<1>6. RequestInv'
  BY DEF ServerInv, Signal, RequestInv
<1>7. EndInv'
  BY DEF Signal, EndInv
<1> QED
  BY <1>1, <1>2, <1>3, <1>4, <1>5, <1>6, <1>7 DEF ServerInv

\* A kill leaves nothing.
LEMMA KilledKeeps ==
    ASSUME ServerInv, Killed
    PROVE  ServerInv'
<1>1. ServerTypeOK'
  BY DEF ServerInv, Killed, NoModules, NoRequest, ServerTypeOK, ModuleStates
<1>2. ThreadInv'
  BY ThreadsAssumption DEF Killed, Process, ThreadInv, Starting
<1>3. PhaseInv'
  BY DEF Killed, PhaseInv, FrontEndsMade
<1>4. ModuleInv'
  BY DEF Killed, NoModules, ModuleInv, ModuleNames
<1>5. StopInv'
  BY DEF Killed, NoModules, StopInv, ModuleNames
<1>6. RequestInv'
  BY DEF Killed, NoRequest, RequestInv
<1>7. EndInv'
  BY ThreadsAssumption DEF Killed, EndInv
<1> QED
  BY <1>1, <1>2, <1>3, <1>4, <1>5, <1>6, <1>7 DEF ServerInv

\* A process or an application begins with nothing.
LEMMA ServerInvInit == ServerInit => ServerInv
<1> SUFFICES ASSUME ServerInit PROVE ServerInv
  OBVIOUS
<1>1. /\ command \in Commands
      /\ command.host \in {"process", "application"}
      /\ MaxMishaps[command.mode] \in Nat
      /\ at = [t \in Threads |-> "idle"] /\ startMtx = NoThread /\ mods = NoModules
      /\ exit = "none" /\ answer = [t \in Threads |-> "none"]
  BY CommandsAssumption, MishapsAssumption DEF ServerInit
<1>2. alive \in BOOLEAN /\ (alive <=> ~Process)
  BY <1>1 DEF ServerInit, Process
<1>3. ServerTypeOK
  <2>1. mods \in [ModuleNames -> ModuleStates]
    BY <1>1 DEF NoModules, ModuleStates
  <2>2. at \in [Threads -> {"idle", "enter", "serving", "exit"} \cup Starting \cup Stopping]
    BY <1>1
  <2>3. request \in [Handlers -> [front : {"none", "grpc", "http", "capi"}, python : BOOLEAN]]
    BY DEF ServerInit, NoRequest
  <2>4. {alive, loaded, asked} \subseteq BOOLEAN
    BY <1>2 DEF ServerInit
  <2>5. mishaps \in 0..MaxMishaps[command.mode]
    BY <1>1 DEF ServerInit
  <2>6. answer \in [Threads -> {"none", "OK", "SERVER_ALREADY_STARTING",
                               "SERVER_ALREADY_STARTED", "OPTIONS_USAGE_ERROR", "error"}]
    BY <1>1
  <2> QED
    BY <1>1, <2>1, <2>2, <2>3, <2>4, <2>5, <2>6 DEF ServerInit, ServerTypeOK
<1>4. ThreadInv
  <2>1. \A t \in Threads : at[t] = "idle"
    BY <1>1
  <2>2. Main \in Threads /\ NoThread \notin Threads
    BY ThreadsAssumption
  <2> QED
    BY <1>2, <1>1, <2>1, <2>2 DEF ThreadInv, Starting, Stopping
<1>5. PhaseInv
  BY DEF ServerInit, PhaseInv, Before, FrontEndsMade
<1>6. ModuleInv
  BY DEF ServerInit, ModuleInv, NoModules, ModuleNames
<1>7. StopInv
  BY DEF ServerInit, StopInv, NoModules, ModuleNames
<1>8. RequestInv
  BY DEF ServerInit, RequestInv, NoRequest
<1>9. EndInv
  <2>1. Process => Main \in Threads
    BY ThreadsAssumption
  <2> QED
    BY <1>1, <2>1 DEF EndInv, Stopping
<1> QED
  BY <1>3, <1>4, <1>5, <1>6, <1>7, <1>8, <1>9 DEF ServerInv

\* A step of ServerLifecycle keeps ServerInv.
LEMMA ServerInvStep == ServerInv /\ [ServerNext]_serverVars => ServerInv'
<1> SUFFICES ASSUME ServerInv, [ServerNext]_serverVars
             PROVE  ServerInv'
  OBVIOUS
<1>1. ASSUME NEW t \in Threads, StartStep(t)
      PROVE  ServerInv'
  BY <1>1, TriesStartMtxKeeps, ChecksModulesKeeps, ParsesConfigKeeps,
     StartsConfigManagerKeeps, StartsNoPullKeeps, StartsPythonKeeps,
     StartsMetricsKeeps, StartsGrpcKeeps, StartsHttpKeeps, LoadsKeeps,
     ManagerStartsKeeps, ReleasesGILKeeps DEF StartStep
<1>2. ASSUME NEW t \in Threads, StopStep(t)
      PROVE  ServerInv'
  BY <1>2, LeavesLoopKeeps, StopsGrpcKeeps, GrpcStoppedKeeps, StopsHttpKeeps,
     HttpStoppedKeeps, StopsManagerKeeps, JoinsManagerKeeps, StopsPythonKeeps,
     ClearsModulesKeeps, ExitsKeeps DEF StopStep
<1>3. CASE Requests
  BY <1>3, ArrivesKeeps, AnswersKeeps DEF Requests
<1>4. CASE UNCHANGED serverVars
  <2> USE <1>4 DEF serverVars, threadVars
  <2>1. ServerTypeOK'
    BY DEF ServerInv, ServerTypeOK
  <2>2. ThreadInv'
    BY DEF ServerInv, ThreadInv, Process
  <2>3. PhaseInv'
    BY DEF ServerInv, PhaseInv
  <2>4. ModuleInv'
    BY DEF ServerInv, ModuleInv, Process
  <2>5. StopInv'
    BY DEF ServerInv, StopInv
  <2>6. RequestInv'
    BY DEF ServerInv, RequestInv, Process
  <2>7. EndInv'
    BY DEF ServerInv, EndInv, Process
  <2> QED
    BY <2>1, <2>2, <2>3, <2>4, <2>5, <2>6, <2>7 DEF ServerInv
<1> QED
  BY <1>1, <1>2, <1>3, <1>4, CallsStartKeeps, CallsDeleteKeeps,
     StartsPullKeeps, CloneReturnsKeeps, WatcherReloadsKeeps,
     WatcherSleepsKeeps, SignalKeeps, KilledKeeps DEF ServerNext, ThreadStep

\* What ServerInv says of the modules, the threads and the requests is what the
\* users of a server rely on.
LEMMA ServerInvSafety == ServerInv => ServerSafety
<1> SUFFICES ASSUME ServerInv PROVE ServerSafety
  OBVIOUS
<1>1. NothingOutlivesItsModule
  BY DEF ServerInv, NothingOutlivesItsModule, ServerTypeOK, ModuleInv, StopInv,
     RequestInv, NoRequest
<1>2. OneServer
  BY DEF ServerInv, OneServer, ThreadInv, PhaseInv, Before, Starting, Stopping
<1>3. LiveBeforeReady
  BY DEF ServerInv, LiveBeforeReady, ServerTypeOK, PhaseInv, ModuleInv, ThreadInv,
     Before, FrontEndsMade, Accepts, isLive, isReady, Starting, Serving, NoModules,
     ModuleNames
<1>4. ExitTells
  BY DEF ServerInv, ExitTells, ServerTypeOK, ModuleInv, EndInv, RequestInv,
     NoModules, ModuleNames
<1> QED
  BY <1>1, <1>2, <1>3, <1>4 DEF ServerInv, ServerSafety

\* Whatever is started, asked and stopped in which order, a server makes its
\* modules before what refers to them and ends them after it, is started once
\* at a time, is live before it is ready, and tells by its exit code whether it
\* did what it was started for (Server::startModules, Server::shutdownModules).
THEOREM ServerIsSafe == ServerSpec => []ServerSafety
<1>1. ServerInit => ServerInv
  BY ServerInvInit
<1>2. ServerInv /\ [ServerNext]_serverVars => ServerInv'
  BY ServerInvStep
<1>3. ServerInv => ServerSafety
  BY ServerInvSafety
<1> QED
  BY <1>1, <1>2, <1>3, PTL DEF ServerSpec

-----------------------------------------------------------------------------
(* The pull                                                                *)

CloneSteps == {"GitInit", "GitFetch", "Checkout", "CloneFinal"}
ResumeSteps == {"Resume", "ResumeCheckout", "Restore", "IndexHead", "ResumeFinal"}
GitSteps == CloneSteps \cup ResumeSteps \cup {"Transfer"}

\* Which steps belong to which kind of model, and to its draft.
KindInv ==
    /\ ~Git => \A r \in Repos : head[r] \in {"Absent", "NoGit"}
    /\ kind # "TextDraft" => repo = "main" /\ head["draft"] = "Absent" /\ ~done["draft"]
    /\ pc = "Down" => repo = "main"
    /\ pc \in GitSteps \cup {"Remove"} => Git
    /\ pc \in {"Parts", "Export"} => ~Git /\ head["main"] = "NoGit"
    /\ pc = "Adapter" => kind = "Image"
    /\ pc = "Remove" => overwrite
    /\ pc \in ResumeSteps => resuming
    /\ pc \notin ResumeSteps \cup {"Transfer"} => ~resuming

\* What git has made of the directory when a step writes to it.
DirectoryInv ==
    /\ \A r \in Repos : head[r] = "Absent" => \A f \in Files : file[r][f] = "Missing"
    /\ \A r \in Repos, f \in Files : file[r][f] = "Pointer" => f \in LfsFiles
    /\ pc \in {"GitInit", "GitFetch"} => \A f \in Files : file[repo][f] = "Missing"
    /\ pc \in GitSteps \ {"GitInit", "GitFetch"} => head[repo] \in {"Unborn", "Born"}

\* The marker is there while a repository is cloned or resumed.
MarkInv ==
    /\ IncompleteIsMarked
    /\ pc \in GitSteps => marker[repo]
    /\ pc = "Remove" => half[repo]

\* What is still to be written is not there yet, or a pointer.
TodoInv ==
    /\ pc \in {"Checkout", "Parts", "Export"} \/ (pc = "Transfer" /\ ~resuming) =>
          \A x \in todo : x[1] = repo /\ file[x[1]][x[2]] = "Missing"
    /\ resuming => \A x \in todo : /\ x[2] \in LfsFiles
                                  /\ file[x[1]][x[2]] \in {"Pointer", "Missing"}
    /\ ~resuming => missing = {}
    /\ \A f \in missing : f \in Plain /\ file[repo][f] = "Missing"
    /\ pc \in {"Transfer", "ResumeCheckout"} => cur \in LfsFiles /\ <<repo, cur>> \notin todo
    /\ pc = "Transfer" => file[repo][cur] = "Pointer"
    /\ pc = "ResumeCheckout" => file[repo][cur] = "Missing"

\* A finished repository gives no run a reason to resume it.
DoneInv ==
    kind \in {"Text", "Image"} /\ done["main"] =>
        /\ ~marker["main"] /\ ~err["main"] /\ pc # "Remove"
        /\ \A f \in Files : file["main"][f] # "Pointer"

\* What a run has left behind it is complete.
BehindInv ==
    /\ repo = "draft" /\ Pulled("main") => Complete("main")
    /\ pc \in {"Adapter", "Graph"} => \A r \in Repos : Pulled(r) => Complete(r)
    /\ pc = "Graph" /\ kind = "Image" => adapter = "Full"
    /\ outcome = "OK" => pc = "Down"
    /\ OkMeansComplete

PullInv ==
    /\ TypeOK /\ KindInv /\ DirectoryInv /\ MarkInv /\ TodoInv /\ DoneInv
    /\ BehindInv

\* The types of what is on disk,
DiskTypes ==
    /\ kind \in Kinds
    /\ head \in [Repos -> {"Absent", "NoGit", "Broken", "Unborn", "Born"}]
    /\ file \in [Repos -> [Files -> Content]]
    /\ part \in [Repos -> [LfsFiles -> {"None", "Good", "Bad"}]]
    /\ index \in [Repos -> SUBSET Files] /\ marker \in [Repos -> BOOLEAN]
       /\ err \in [Repos -> BOOLEAN]
    /\ adapter \in {"Missing", "Full"} /\ graph \in BOOLEAN

\* of what the run remembers,
RunTypes ==
    /\ pc \in {"Down", "Entry", "Remove", "GitInit", "GitFetch", "Checkout", "Transfer",
               "CloneFinal", "Resume", "ResumeCheckout", "Restore", "IndexHead",
               "ResumeFinal", "Parts", "Export", "Adapter", "Graph"}
    /\ repo \in Repos /\ todo \subseteq Repos \X Files /\ missing \subseteq Files
       /\ cur \in Files \cup {None}
    /\ {resuming, overwrite, stop} \subseteq BOOLEAN
    /\ outcome \in Outcomes

\* of the history variables,
GhostTypes ==
    /\ touched \in [Repos -> SUBSET Files] /\ done \in [Repos -> BOOLEAN]
       /\ half \in [Repos -> BOOLEAN]

\* and of what may still go wrong.
FaultTypes ==
    /\ faults \in [Faults -> Nat]

\* --overwrite_models begins to remove the repository only before anything else.
LEMMA BeginRemovalKeeps ==
    ASSUME PullInv, BeginRemoval
    PROVE  PullInv'
<1>1. TypeOK'
  <2>1. (kind \in Kinds)'
    BY DEF PullInv, BeginRemoval, TypeOK
  <2>2. (head \in [Repos -> {"Absent", "NoGit", "Broken", "Unborn", "Born"}])'
    BY DEF PullInv, BeginRemoval, TypeOK
  <2>3. (file \in [Repos -> [Files -> Content]])'
    BY DEF PullInv, BeginRemoval, Nothing, TypeOK, Repos, Content
  <2>4. (part \in [Repos -> [LfsFiles -> {"None", "Good", "Bad"}]])'
    BY DEF PullInv, BeginRemoval, NoPart, TypeOK, Repos
  <2>5. (index \in [Repos -> SUBSET Files] /\ marker \in [Repos -> BOOLEAN]
         /\ err \in [Repos -> BOOLEAN])'
    BY DEF PullInv, BeginRemoval, TypeOK
  <2>6. (adapter \in {"Missing", "Full"} /\ graph \in BOOLEAN)'
    BY DEF PullInv, BeginRemoval, TypeOK
  <2>7. RunTypes'
    BY DEF PullInv, BeginRemoval, Goto, TypeOK, RunTypes
  <2>8. (touched \in [Repos -> SUBSET Files])'
    BY DEF PullInv, BeginRemoval, TypeOK
  <2>9. (done \in [Repos -> BOOLEAN])'
    BY DEF PullInv, BeginRemoval, Nothing, NoPart, Goto, TypeOK, Repos
  <2>10. (half \in [Repos -> BOOLEAN])'
    BY DEF PullInv, BeginRemoval, TypeOK
  <2>11. FaultTypes'
    BY DEF PullInv, BeginRemoval, TypeOK, FaultTypes
  <2> QED
    BY <2>1, <2>2, <2>3, <2>4, <2>5, <2>6, <2>7, <2>8, <2>9, <2>10, <2>11 DEF
       TypeOK, DiskTypes, RunTypes, GhostTypes, FaultTypes
<1>2. KindInv'
  BY DEF PullInv, BeginRemoval, Goto, KindInv, TypeOK, Repos, Git, ResumeSteps
<1>3. DirectoryInv'
  BY DEF PullInv, BeginRemoval, Nothing, Goto, DirectoryInv, TypeOK, Repos,
     GitSteps, CloneSteps, ResumeSteps
<1>4. MarkInv'
  BY DEF PullInv, BeginRemoval, Goto, MarkInv, TypeOK, IncompleteIsMarked,
     Pulled, Complete, Repos, GitSteps, CloneSteps, ResumeSteps
<1>5. TodoInv'
  BY DEF PullInv, BeginRemoval, Nothing, Goto, TodoInv, TypeOK, Repos
<1>6. DoneInv'
  BY DEF PullInv, BeginRemoval, DoneInv, TypeOK, KindInv
<1>7. BehindInv'
  BY DEF PullInv, BeginRemoval, Goto, BehindInv, TypeOK, Pulled, Complete,
     Repos, OkMeansComplete
<1> QED
  BY <1>1, <1>2, <1>3, <1>4, <1>5, <1>6, <1>7 DEF PullInv

\* The .git directory goes last, with the marker.
LEMMA RemoveGitKeeps ==
    ASSUME PullInv, RemoveGit
    PROVE  PullInv'
<1>1. TypeOK'
  BY DEF PullInv, RemoveGit, run, ghosts, TypeOK
<1>2. KindInv'
  BY DEF PullInv, RemoveGit, run, ghosts, KindInv, Git
<1>3. DirectoryInv'
  BY DEF PullInv, RemoveGit, run, DirectoryInv, GitSteps, CloneSteps,
     ResumeSteps
<1>4. MarkInv'
  BY DEF PullInv, RemoveGit, run, ghosts, MarkInv, IncompleteIsMarked, Pulled,
     Complete
<1>5. TodoInv'
  BY DEF PullInv, RemoveGit, run, TodoInv
<1>6. DoneInv'
  BY DEF PullInv, RemoveGit, ghosts, DoneInv
<1>7. BehindInv'
  BY DEF PullInv, RemoveGit, run, ghosts, BehindInv, Pulled, Complete,
     OkMeansComplete
<1> QED
  BY <1>1, <1>2, <1>3, <1>4, <1>5, <1>6, <1>7 DEF PullInv

\* A clone puts its marker before it makes a repository of the directory.
LEMMA BeginCloneKeeps ==
    ASSUME PullInv, BeginClone
    PROVE  PullInv'
<1>1. TypeOK'
  BY DEF PullInv, BeginClone, Removed, Goto, Nothing, NoPart, TypeOK, Content
<1>2. KindInv'
  BY DEF PullInv, BeginClone, Removed, Goto, KindInv, Git, ResumeSteps
<1>3. DirectoryInv'
  BY DEF PullInv, BeginClone, Removed, Goto, Nothing, DirectoryInv, TypeOK
<1>4. MarkInv'
  BY DEF PullInv, BeginClone, Removed, Goto, MarkInv, TypeOK,
     IncompleteIsMarked, Pulled, Complete
<1>5. TodoInv'
  BY DEF PullInv, BeginClone, Removed, Goto, Nothing, TodoInv, TypeOK
<1>6. DoneInv'
  BY DEF PullInv, BeginClone, Removed, Goto, DoneInv, TypeOK
<1>7. BehindInv'
  BY DEF PullInv, BeginClone, Removed, Goto, BehindInv, Pulled, Complete,
     OkMeansComplete
<1> QED
  BY <1>1, <1>2, <1>3, <1>4, <1>5, <1>6, <1>7 DEF PullInv

\* Nothing is checked out yet: git makes the repository.
LEMMA GitInitKeeps ==
    ASSUME PullInv, GitInit
    PROVE  PullInv'
<1>1. TypeOK'
  BY DEF PullInv, GitInit, Goto, ghosts, TypeOK
<1>2. KindInv'
  BY DEF PullInv, GitInit, Goto, ghosts, KindInv, Git, GitSteps, CloneSteps,
     ResumeSteps
<1>3. DirectoryInv'
  BY DEF PullInv, GitInit, Goto, DirectoryInv
<1>4. MarkInv'
  BY DEF PullInv, GitInit, Goto, ghosts, MarkInv, IncompleteIsMarked, Pulled,
     Complete, GitSteps, CloneSteps
<1>5. TodoInv'
  BY DEF PullInv, GitInit, Goto, TodoInv
<1>6. DoneInv'
  BY DEF PullInv, GitInit, Goto, ghosts, DoneInv
<1>7. BehindInv'
  BY DEF PullInv, GitInit, Goto, ghosts, BehindInv, Pulled, Complete,
     OkMeansComplete
<1> QED
  BY <1>1, <1>2, <1>3, <1>4, <1>5, <1>6, <1>7 DEF PullInv

\* Fetched objects give a HEAD, and no file.
LEMMA GitFetchKeeps ==
    ASSUME PullInv, GitFetch
    PROVE  PullInv'
<1>1. TypeOK'
  BY DEF PullInv, GitFetch, Goto, ghosts, TypeOK
<1>2. KindInv'
  BY DEF PullInv, GitFetch, Goto, ghosts, KindInv, Git, GitSteps, CloneSteps,
     ResumeSteps
<1>3. DirectoryInv'
  BY DEF PullInv, GitFetch, Goto, DirectoryInv, TypeOK
<1>4. MarkInv'
  BY DEF PullInv, GitFetch, Goto, ghosts, MarkInv, IncompleteIsMarked, Pulled,
     Complete, GitSteps, CloneSteps
<1>5. TodoInv'
  BY DEF PullInv, GitFetch, Goto, TodoInv, KindInv, DirectoryInv, ResumeSteps
<1>6. DoneInv'
  BY DEF PullInv, GitFetch, Goto, ghosts, DoneInv
<1>7. BehindInv'
  BY DEF PullInv, GitFetch, Goto, ghosts, BehindInv, Pulled, Complete,
     OkMeansComplete
<1> QED
  BY <1>1, <1>2, <1>3, <1>4, <1>5, <1>6, <1>7 DEF PullInv

\* A failed fetch removes only a directory that held no file.
LEMMA GitFetchFailsKeeps ==
    ASSUME PullInv, GitFetchFails
    PROVE  PullInv'
<1>1. TypeOK'
  <2>1. DiskTypes'
    BY DEF PullInv, GitFetchFails, Removed, Nothing, NoPart, TypeOK, Content,
       DiskTypes
  <2>2. RunTypes'
    BY DEF GitFetchFails, End, Repos, Outcomes, RunTypes
  <2>3. GhostTypes'
    BY DEF PullInv, GitFetchFails, ghosts, TypeOK, GhostTypes
  <2>4. FaultTypes'
    BY DEF PullInv, GitFetchFails, TransferFails, Fault, TypeOK, Repos,
       FaultTypes
  <2> QED
    BY <2>1, <2>2, <2>3, <2>4 DEF TypeOK, DiskTypes, RunTypes, GhostTypes,
       FaultTypes
<1>2. KindInv'
  BY DEF PullInv, GitFetchFails, Removed, End, ghosts, KindInv, Git, GitSteps,
     CloneSteps, ResumeSteps
<1>3. DirectoryInv'
  BY DEF PullInv, GitFetchFails, Removed, End, Nothing, DirectoryInv,
     GitSteps, CloneSteps, ResumeSteps
<1>4. MarkInv'
  BY DEF PullInv, GitFetchFails, Removed, End, ghosts, MarkInv,
     IncompleteIsMarked, Pulled, Complete, GitSteps, CloneSteps, ResumeSteps
<1>5. TodoInv'
  BY DEF GitFetchFails, End, TodoInv
<1>6. DoneInv'
  BY DEF PullInv, GitFetchFails, Removed, End, ghosts, Nothing, DoneInv
<1>7. BehindInv'
  BY DEF GitFetchFails, End, BehindInv, OkMeansComplete
<1> QED
  BY <1>1, <1>2, <1>3, <1>4, <1>5, <1>6, <1>7 DEF PullInv

\* The index of a clone is written when all is checked out.
LEMMA CloneWritesIndexKeeps ==
    ASSUME PullInv, CloneWritesIndex
    PROVE  PullInv'
<1>1. TypeOK'
  BY DEF PullInv, CloneWritesIndex, Goto, ghosts, TypeOK
<1>2. KindInv'
  BY DEF PullInv, CloneWritesIndex, Goto, ghosts, KindInv, Git, GitSteps,
     CloneSteps, ResumeSteps
<1>3. DirectoryInv'
  BY DEF PullInv, CloneWritesIndex, Goto, DirectoryInv, GitSteps, CloneSteps
<1>4. MarkInv'
  BY DEF PullInv, CloneWritesIndex, Goto, ghosts, MarkInv, IncompleteIsMarked,
     Pulled, Complete, GitSteps, CloneSteps
<1>5. TodoInv'
  BY DEF PullInv, CloneWritesIndex, Goto, TodoInv
<1>6. DoneInv'
  BY DEF PullInv, CloneWritesIndex, Goto, ghosts, DoneInv
<1>7. BehindInv'
  BY DEF PullInv, CloneWritesIndex, Goto, ghosts, BehindInv, Pulled, Complete,
     OkMeansComplete
<1> QED
  BY <1>1, <1>2, <1>3, <1>4, <1>5, <1>6, <1>7 DEF PullInv

\* A file is removed while the removal is known to be half done.
LEMMA RemoveFileKeeps ==
    ASSUME PullInv, NEW f \in Files, RemoveFile(f)
    PROVE  PullInv'
<1>1. TypeOK'
  BY DEF PullInv, RemoveFile, run, ghosts, TypeOK, Content
<1>2. KindInv'
  BY DEF PullInv, RemoveFile, run, ghosts, KindInv, Git
<1>3. DirectoryInv'
  BY DEF PullInv, RemoveFile, run, DirectoryInv
<1>4. MarkInv'
  BY DEF PullInv, RemoveFile, run, ghosts, MarkInv, IncompleteIsMarked,
     Pulled, Complete
<1>5. TodoInv'
  BY DEF PullInv, RemoveFile, run, TodoInv
<1>6. DoneInv'
  BY DEF PullInv, RemoveFile, ghosts, DoneInv
<1>7. BehindInv'
  BY DEF PullInv, RemoveFile, run, ghosts, BehindInv, Pulled, Complete,
     OkMeansComplete
<1> QED
  BY <1>1, <1>2, <1>3, <1>4, <1>5, <1>6, <1>7 DEF PullInv

\* A checkout writes one file that was missing.
LEMMA CloneCheckoutKeeps ==
    ASSUME PullInv, NEW f \in Files, CloneCheckout(f)
    PROVE  PullInv'
<1>1. TypeOK'
  BY DEF PullInv, CloneCheckout, CheckedOut, ghosts, Goto, TypeOK, Content
<1>2. KindInv'
  BY DEF PullInv, CloneCheckout, CheckedOut, ghosts, Goto, KindInv, Git,
     GitSteps, CloneSteps, ResumeSteps
<1>3. DirectoryInv'
  BY DEF PullInv, CloneCheckout, CheckedOut, Goto, DirectoryInv, GitSteps,
     CloneSteps
<1>4. MarkInv'
  BY DEF PullInv, CloneCheckout, CheckedOut, ghosts, Goto, MarkInv,
     IncompleteIsMarked, Pulled, Complete, GitSteps, CloneSteps
<1>5. TodoInv'
  BY DEF PullInv, CloneCheckout, CheckedOut, Goto, TodoInv, TypeOK, Plain
<1>6. DoneInv'
  BY DEF PullInv, CloneCheckout, CheckedOut, ghosts, Goto, DoneInv, MarkInv,
     GitSteps, CloneSteps
<1>7. BehindInv'
  BY DEF PullInv, CloneCheckout, CheckedOut, ghosts, Goto, BehindInv, Pulled,
     Complete, OkMeansComplete
<1> QED
  BY <1>1, <1>2, <1>3, <1>4, <1>5, <1>6, <1>7 DEF PullInv

\* Resuming removes one pointer, or finds it missing, before it checks it out.
LEMMA ResumeFileKeeps ==
    ASSUME PullInv, NEW f \in Files, ResumeFile(f)
    PROVE  PullInv'
<1>1. TypeOK'
  BY DEF PullInv, ResumeFile, Goto, ghosts, TypeOK, Content
<1>2. KindInv'
  BY DEF PullInv, ResumeFile, Goto, ghosts, KindInv, Git, GitSteps,
     ResumeSteps
<1>3. DirectoryInv'
  BY DEF PullInv, ResumeFile, Goto, DirectoryInv, GitSteps, ResumeSteps
<1>4. MarkInv'
  BY DEF PullInv, ResumeFile, Goto, ghosts, MarkInv, IncompleteIsMarked,
     Pulled, Complete, GitSteps, ResumeSteps
<1>5. TodoInv'
  BY DEF PullInv, ResumeFile, Goto, TodoInv, TypeOK, KindInv, ResumeSteps
<1>6. DoneInv'
  BY DEF PullInv, ResumeFile, Goto, ghosts, DoneInv
<1>7. BehindInv'
  BY DEF PullInv, ResumeFile, Goto, ghosts, BehindInv, Pulled, Complete,
     OkMeansComplete
<1> QED
  BY <1>1, <1>2, <1>3, <1>4, <1>5, <1>6, <1>7 DEF PullInv

\* A plain file that is missing is restored.
LEMMA RestoreFileKeeps ==
    ASSUME PullInv, NEW f \in Files, RestoreFile(f)
    PROVE  PullInv'
<1>1. TypeOK'
  BY DEF PullInv, RestoreFile, Goto, ghosts, TypeOK, Content
<1>2. KindInv'
  BY DEF PullInv, RestoreFile, Goto, ghosts, KindInv, Git, GitSteps,
     ResumeSteps
<1>3. DirectoryInv'
  BY DEF PullInv, RestoreFile, Goto, DirectoryInv, GitSteps, ResumeSteps
<1>4. MarkInv'
  BY DEF PullInv, RestoreFile, Goto, ghosts, MarkInv, IncompleteIsMarked,
     Pulled, Complete, GitSteps, ResumeSteps
<1>5. TodoInv'
  BY DEF PullInv, RestoreFile, Goto, TodoInv, Plain
<1>6. DoneInv'
  BY DEF PullInv, RestoreFile, Goto, ghosts, DoneInv
<1>7. BehindInv'
  BY DEF PullInv, RestoreFile, Goto, ghosts, BehindInv, Pulled, Complete,
     OkMeansComplete
<1> QED
  BY <1>1, <1>2, <1>3, <1>4, <1>5, <1>6, <1>7 DEF PullInv

\* A GGUF file is downloaded to a file that was missing.
LEMMA DownloadPartKeeps ==
    ASSUME PullInv, NEW f \in Files, DownloadPart(f)
    PROVE  PullInv'
<1>1. TypeOK'
  <2>1. DiskTypes'
    BY DEF PullInv, DownloadPart, TypeOK, Repos, Content, DiskTypes
  <2>2. RunTypes'
    BY DEF PullInv, DownloadPart, End, TypeOK, Repos, Outcomes, RunTypes
  <2>3. GhostTypes'
    BY DEF PullInv, DownloadPart, ghosts, TypeOK, GhostTypes
  <2>4. FaultTypes'
    BY DEF PullInv, DownloadPart, Fault, TypeOK, Repos, FaultTypes
  <2> QED
    BY <2>1, <2>2, <2>3, <2>4 DEF TypeOK, DiskTypes, RunTypes, GhostTypes,
       FaultTypes
<1>2. KindInv'
  BY DEF PullInv, DownloadPart, End, ghosts, KindInv, Git, GitSteps,
     CloneSteps, ResumeSteps
<1>3. DirectoryInv'
  BY DEF PullInv, DownloadPart, End, DirectoryInv, TypeOK, KindInv, Repos,
     GitSteps, CloneSteps, ResumeSteps
<1>4. MarkInv'
  BY DEF PullInv, DownloadPart, End, MarkInv, KindInv, IncompleteIsMarked,
     Pulled, GitSteps, CloneSteps, ResumeSteps
<1>5. TodoInv'
  BY DEF PullInv, DownloadPart, End, TodoInv, TypeOK, Plain, Repos
<1>6. DoneInv'
  BY DEF PullInv, DownloadPart, End, ghosts, DoneInv, TypeOK, Repos
<1>7. BehindInv'
  BY DEF PullInv, DownloadPart, End, ghosts, BehindInv, TypeOK, Pulled,
     Complete, Repos, OkMeansComplete
<1> QED
  BY <1>1, <1>2, <1>3, <1>4, <1>5, <1>6, <1>7 DEF PullInv

\* An export writes a file that was missing.
LEMMA ExportFileKeeps ==
    ASSUME PullInv, NEW f \in Files, ExportFile(f)
    PROVE  PullInv'
<1>1. TypeOK'
  <2>1. DiskTypes'
    BY DEF PullInv, ExportFile, TypeOK, Repos, Content, DiskTypes
  <2>2. RunTypes'
    BY DEF PullInv, ExportFile, End, TypeOK, Outcomes, RunTypes
  <2>3. GhostTypes'
    BY DEF PullInv, ExportFile, ghosts, TypeOK, GhostTypes
  <2>4. FaultTypes'
    BY DEF PullInv, ExportFile, Fault, TypeOK, Repos, FaultTypes
  <2> QED
    BY <2>1, <2>2, <2>3, <2>4 DEF TypeOK, DiskTypes, RunTypes, GhostTypes,
       FaultTypes
<1>2. KindInv'
  BY DEF PullInv, ExportFile, End, ghosts, KindInv, Git, GitSteps, CloneSteps,
     ResumeSteps
<1>3. DirectoryInv'
  BY DEF PullInv, ExportFile, End, DirectoryInv, TypeOK, KindInv, Repos,
     GitSteps, CloneSteps, ResumeSteps
<1>4. MarkInv'
  BY DEF PullInv, ExportFile, End, ghosts, MarkInv, TypeOK,
     IncompleteIsMarked, Pulled, Complete, Repos, GitSteps, CloneSteps,
     ResumeSteps
<1>5. TodoInv'
  BY DEF PullInv, ExportFile, End, TodoInv, TypeOK, Plain, Repos
<1>6. DoneInv'
  BY DEF PullInv, ExportFile, End, ghosts, DoneInv, TypeOK, Repos
<1>7. BehindInv'
  BY DEF PullInv, ExportFile, End, ghosts, BehindInv, TypeOK, Pulled,
     Complete, OkMeansComplete
<1> QED
  BY <1>1, <1>2, <1>3, <1>4, <1>5, <1>6, <1>7 DEF PullInv

\* An error of a download ends the run and leaves the marker.
LEMMA LfsErrorFoundKeeps ==
    ASSUME PullInv, NEW p \in {"CloneFinal", "ResumeFinal"}, LfsErrorFound(p)
    PROVE  PullInv'
<1>1. TypeOK'
  BY DEF PullInv, LfsErrorFound, End, ghosts, TypeOK, Repos, Outcomes
<1>2. KindInv'
  BY DEF PullInv, LfsErrorFound, End, ghosts, KindInv, Git, GitSteps,
     CloneSteps, ResumeSteps
<1>3. DirectoryInv'
  BY DEF PullInv, LfsErrorFound, End, DirectoryInv, GitSteps, CloneSteps,
     ResumeSteps
<1>4. MarkInv'
  BY DEF PullInv, LfsErrorFound, End, ghosts, MarkInv, IncompleteIsMarked,
     Pulled, Complete, GitSteps, CloneSteps, ResumeSteps
<1>5. TodoInv'
  BY DEF LfsErrorFound, End, TodoInv
<1>6. DoneInv'
  BY DEF PullInv, LfsErrorFound, End, ghosts, DoneInv
<1>7. BehindInv'
  BY DEF LfsErrorFound, End, BehindInv, OkMeansComplete
<1> QED
  BY <1>1, <1>2, <1>3, <1>4, <1>5, <1>6, <1>7 DEF PullInv

\* The marker goes when no file is missing and none is a pointer.
LEMMA StatusCheckedKeeps ==
    ASSUME PullInv, NEW p \in {"CloneFinal", "ResumeFinal"}, StatusChecked(p)
    PROVE  PullInv'
<1>1. TypeOK'
  <2>1. DiskTypes'
    BY DEF PullInv, StatusChecked, TypeOK, DiskTypes
  <2>2. RunTypes'
    BY DEF PullInv, StatusChecked, Downloaded, End, NextDownload, TypeOK,
       Repos, Outcomes, RunTypes
  <2>3. GhostTypes'
    BY DEF PullInv, StatusChecked, Downloaded, ghosts, TypeOK, GhostTypes
  <2>4. FaultTypes'
    BY DEF PullInv, StatusChecked, TypeOK, FaultTypes
  <2> QED
    BY <2>1, <2>2, <2>3, <2>4 DEF TypeOK, DiskTypes, RunTypes, GhostTypes,
       FaultTypes
<1>2. KindInv'
  BY DEF PullInv, StatusChecked, Downloaded, End, ghosts, NextDownload,
     KindInv, TypeOK, Repos, Git, GitSteps, CloneSteps, ResumeSteps
<1>3. DirectoryInv'
  BY DEF PullInv, StatusChecked, Downloaded, End, NextDownload, DirectoryInv,
     GitSteps, CloneSteps, ResumeSteps
<1>4. MarkInv'
  BY DEF PullInv, StatusChecked, Clean, Downloaded, End, ghosts, NextDownload,
     MarkInv, TypeOK, IncompleteIsMarked, Pulled, Complete, Repos, GitSteps,
     CloneSteps, ResumeSteps
<1>5. TodoInv'
  BY DEF StatusChecked, Downloaded, End, NextDownload, TodoInv
<1>6. DoneInv'
  BY DEF PullInv, StatusChecked, Clean, Downloaded, End, ghosts, NextDownload,
     DoneInv, TypeOK, Repos
<1>7. BehindInv'
  BY DEF PullInv, StatusChecked, Clean, Downloaded, End, NextDownload,
     BehindInv, TypeOK, KindInv, Pulled, Complete, Repos, OkMeansComplete
<1> QED
  BY <1>1, <1>2, <1>3, <1>4, <1>5, <1>6, <1>7 DEF PullInv

\* A directory with nothing to resume is complete, or is not ours.
LEMMA UseExistingKeeps ==
    ASSUME PullInv, UseExisting
    PROVE  PullInv'
<1>1. TypeOK'
  BY DEF PullInv, UseExisting, NextDownload, disk, ghosts, TypeOK, Repos
<1>2. KindInv'
  BY DEF PullInv, UseExisting, NextDownload, disk, ghosts, KindInv, Git,
     ResumeSteps
<1>3. DirectoryInv'
  BY DEF PullInv, UseExisting, NextDownload, disk, DirectoryInv, GitSteps,
     CloneSteps, ResumeSteps
<1>4. MarkInv'
  BY DEF PullInv, UseExisting, NextDownload, disk, ghosts, MarkInv,
     IncompleteIsMarked, Pulled, Complete, GitSteps, CloneSteps, ResumeSteps
<1>5. TodoInv'
  BY DEF UseExisting, NextDownload, TodoInv
<1>6. DoneInv'
  BY DEF PullInv, UseExisting, NextDownload, disk, ghosts, DoneInv
<1>7. BehindInv'
  BY DEF PullInv, UseExisting, HasResumableState, NextDownload, disk, ghosts,
     BehindInv, TypeOK, KindInv, MarkInv, IncompleteIsMarked, Pulled, Complete,
     Repos, OkMeansComplete
<1> QED
  BY <1>1, <1>2, <1>3, <1>4, <1>5, <1>6, <1>7 DEF PullInv

\* A repository that git cannot open ends the run.
LEMMA CannotOpenKeeps ==
    ASSUME PullInv, CannotOpen
    PROVE  PullInv'
<1>1. TypeOK'
  BY DEF PullInv, CannotOpen, End, disk, ghosts, TypeOK, Repos, Outcomes
<1>2. KindInv'
  BY DEF PullInv, CannotOpen, End, disk, ghosts, KindInv, Git, ResumeSteps
<1>3. DirectoryInv'
  BY DEF PullInv, CannotOpen, End, disk, DirectoryInv, GitSteps, CloneSteps,
     ResumeSteps
<1>4. MarkInv'
  BY DEF PullInv, CannotOpen, End, disk, ghosts, MarkInv, IncompleteIsMarked,
     Pulled, Complete, GitSteps, CloneSteps, ResumeSteps
<1>5. TodoInv'
  BY DEF CannotOpen, End, TodoInv
<1>6. DoneInv'
  BY DEF PullInv, CannotOpen, End, disk, ghosts, DoneInv
<1>7. BehindInv'
  BY DEF CannotOpen, End, BehindInv, OkMeansComplete
<1> QED
  BY <1>1, <1>2, <1>3, <1>4, <1>5, <1>6, <1>7 DEF PullInv

\* A repository that lacks something is resumed, under its marker.
LEMMA BeginResumeKeeps ==
    ASSUME PullInv, BeginResume
    PROVE  PullInv'
<1>1. TypeOK'
  BY PullAssumption DEF PullInv, BeginResume, findResumableLfsFiles,
     findMissingTrackedNonLfsFiles, Goto, ghosts, findLfsLikeFiles, MissingLfs,
     TypeOK, Plain
<1>2. KindInv'
  BY DEF PullInv, BeginResume, Goto, ghosts, KindInv, Git, ResumeSteps
<1>3. DirectoryInv'
  BY DEF PullInv, BeginResume, Goto, DirectoryInv
<1>4. MarkInv'
  BY DEF PullInv, BeginResume, Goto, ghosts, MarkInv, TypeOK,
     IncompleteIsMarked, Pulled, Complete
<1>5. TodoInv'
  BY DEF PullInv, BeginResume, findResumableLfsFiles,
     findMissingTrackedNonLfsFiles, Goto, findLfsLikeFiles, MissingLfs, Exists,
     TodoInv, DirectoryInv
<1>6. DoneInv'
  BY DEF PullInv, BeginResume, HasResumableState, ghosts, findLfsLikeFiles,
     DoneInv, KindInv, DirectoryInv, Repos
<1>7. BehindInv'
  BY DEF PullInv, BeginResume, Goto, ghosts, BehindInv, Pulled, Complete,
     OkMeansComplete
<1> QED
  BY <1>1, <1>2, <1>3, <1>4, <1>5, <1>6, <1>7 DEF PullInv

\* A pointer of another repository ends the run and leaves the marker.
LEMMA ResumeForeignKeeps ==
    ASSUME PullInv, ResumeForeign
    PROVE  PullInv'
<1>1. TypeOK'
  BY DEF PullInv, ResumeForeign, End, disk, ghosts, TypeOK, Repos, Outcomes
<1>2. KindInv'
  BY DEF PullInv, ResumeForeign, End, disk, ghosts, KindInv, Git, GitSteps,
     ResumeSteps
<1>3. DirectoryInv'
  BY DEF PullInv, ResumeForeign, End, disk, DirectoryInv, GitSteps,
     CloneSteps, ResumeSteps
<1>4. MarkInv'
  BY DEF PullInv, ResumeForeign, End, disk, ghosts, MarkInv,
     IncompleteIsMarked, Pulled, Complete, GitSteps, CloneSteps, ResumeSteps
<1>5. TodoInv'
  BY DEF ResumeForeign, End, TodoInv
<1>6. DoneInv'
  BY DEF PullInv, ResumeForeign, End, disk, ghosts, DoneInv
<1>7. BehindInv'
  BY DEF ResumeForeign, End, BehindInv, OkMeansComplete
<1> QED
  BY <1>1, <1>2, <1>3, <1>4, <1>5, <1>6, <1>7 DEF PullInv

\* A resumed file is checked out as git has it.
LEMMA ResumeCheckoutKeeps ==
    ASSUME PullInv, ResumeCheckout
    PROVE  PullInv'
<1>1. TypeOK'
  BY DEF PullInv, ResumeCheckout, CheckedOut, Goto, ghosts, TypeOK, Repos,
     Content
<1>2. KindInv'
  BY DEF PullInv, ResumeCheckout, CheckedOut, Goto, ghosts, KindInv, Git,
     GitSteps, ResumeSteps
<1>3. DirectoryInv'
  BY DEF PullInv, ResumeCheckout, CheckedOut, Goto, DirectoryInv, TypeOK,
     Repos, GitSteps, ResumeSteps
<1>4. MarkInv'
  BY DEF PullInv, ResumeCheckout, CheckedOut, Goto, ghosts, MarkInv, TypeOK,
     IncompleteIsMarked, Pulled, Complete, Repos, GitSteps, ResumeSteps
<1>5. TodoInv'
  BY DEF PullInv, ResumeCheckout, CheckedOut, Goto, TodoInv, TypeOK, KindInv,
     Plain, Repos, ResumeSteps
<1>6. DoneInv'
  BY DEF PullInv, ResumeCheckout, ghosts, DoneInv, KindInv, MarkInv, GitSteps,
     ResumeSteps
<1>7. BehindInv'
  BY DEF PullInv, ResumeCheckout, CheckedOut, Goto, ghosts, BehindInv, TypeOK,
     Pulled, Complete, Repos, OkMeansComplete
<1> QED
  BY <1>1, <1>2, <1>3, <1>4, <1>5, <1>6, <1>7 DEF PullInv

\* The plain files that are missing are restored after the downloads.
LEMMA BeginRestoreKeeps ==
    ASSUME PullInv, BeginRestore
    PROVE  PullInv'
<1>1. TypeOK'
  BY DEF PullInv, BeginRestore, Goto, ghosts, TypeOK
<1>2. KindInv'
  BY DEF PullInv, BeginRestore, Goto, ghosts, KindInv, Git, GitSteps,
     ResumeSteps
<1>3. DirectoryInv'
  BY DEF PullInv, BeginRestore, Goto, DirectoryInv, GitSteps, ResumeSteps
<1>4. MarkInv'
  BY DEF PullInv, BeginRestore, Goto, ghosts, MarkInv, IncompleteIsMarked,
     Pulled, Complete, GitSteps, ResumeSteps
<1>5. TodoInv'
  BY DEF PullInv, BeginRestore, Goto, TodoInv
<1>6. DoneInv'
  BY DEF PullInv, BeginRestore, Goto, ghosts, DoneInv
<1>7. BehindInv'
  BY DEF PullInv, BeginRestore, Goto, ghosts, BehindInv, Pulled, Complete,
     OkMeansComplete
<1> QED
  BY <1>1, <1>2, <1>3, <1>4, <1>5, <1>6, <1>7 DEF PullInv

\* A resume that was cancelled leaves the marker.
LEMMA ResumeCancelledKeeps ==
    ASSUME PullInv, ResumeCancelled
    PROVE  PullInv'
<1>1. TypeOK'
  BY DEF PullInv, ResumeCancelled, End, ghosts, TypeOK, Outcomes, Content,
     Repos
<1>2. KindInv'
  BY DEF PullInv, ResumeCancelled, End, ghosts, KindInv, Git, GitSteps,
     ResumeSteps
<1>3. DirectoryInv'
  BY DEF PullInv, ResumeCancelled, End, DirectoryInv, GitSteps, CloneSteps,
     ResumeSteps
<1>4. MarkInv'
  BY DEF PullInv, ResumeCancelled, End, ghosts, MarkInv, IncompleteIsMarked,
     Pulled, Complete, GitSteps, CloneSteps, ResumeSteps
<1>5. TodoInv'
  BY DEF ResumeCancelled, End, TodoInv
<1>6. DoneInv'
  BY DEF PullInv, ResumeCancelled, End, ghosts, DoneInv
<1>7. BehindInv'
  BY DEF ResumeCancelled, End, BehindInv, OkMeansComplete
<1> QED
  BY <1>1, <1>2, <1>3, <1>4, <1>5, <1>6, <1>7 DEF PullInv

\* The index follows the HEAD when the files are there.
LEMMA RestoreGitIndexToHeadKeeps ==
    ASSUME PullInv, restoreGitIndexToHead
    PROVE  PullInv'
<1>1. TypeOK'
  <2>1. DiskTypes'
    BY DEF PullInv, restoreGitIndexToHead, TypeOK, Repos, DiskTypes
  <2>2. RunTypes'
    BY DEF PullInv, restoreGitIndexToHead, Goto, End, TypeOK, Repos, Outcomes,
       RunTypes
  <2>3. GhostTypes'
    BY DEF PullInv, restoreGitIndexToHead, ghosts, TypeOK, GhostTypes
  <2>4. FaultTypes'
    BY DEF PullInv, restoreGitIndexToHead, TypeOK, FaultTypes
  <2> QED
    BY <2>1, <2>2, <2>3, <2>4 DEF TypeOK, DiskTypes, RunTypes, GhostTypes,
       FaultTypes
<1>2. KindInv'
  BY DEF PullInv, restoreGitIndexToHead, Goto, End, ghosts, KindInv, Git,
     GitSteps, ResumeSteps
<1>3. DirectoryInv'
  BY DEF PullInv, restoreGitIndexToHead, Goto, End, DirectoryInv, GitSteps,
     CloneSteps, ResumeSteps
<1>4. MarkInv'
  BY DEF PullInv, restoreGitIndexToHead, Goto, End, ghosts, MarkInv,
     IncompleteIsMarked, Pulled, Complete, GitSteps, CloneSteps, ResumeSteps
<1>5. TodoInv'
  BY DEF PullInv, restoreGitIndexToHead, Goto, End, TodoInv
<1>6. DoneInv'
  BY DEF PullInv, restoreGitIndexToHead, Goto, End, ghosts, DoneInv
<1>7. BehindInv'
  BY DEF PullInv, restoreGitIndexToHead, Goto, End, ghosts, BehindInv, Pulled,
     Complete, OkMeansComplete
<1> QED
  BY <1>1, <1>2, <1>3, <1>4, <1>5, <1>6, <1>7 DEF PullInv

\* The parts of a GGUF model begin in a directory that is not a repository.
LEMMA BeginGgufKeeps ==
    ASSUME PullInv, BeginGguf
    PROVE  PullInv'
<1>1. TypeOK'
  <2>1. DiskTypes'
    BY DEF PullInv, BeginGguf, Nothing, TypeOK, Repos, Content, DiskTypes
  <2>2. (pc \in {"Down", "Entry", "Remove", "GitInit", "GitFetch", "Checkout", "Transfer",
                 "CloneFinal", "Resume", "ResumeCheckout", "Restore", "IndexHead",
                 "ResumeFinal", "Parts", "Export", "Adapter", "Graph"})'
    BY DEF BeginGguf, NextDownload, Goto
  <2>3. (repo \in Repos /\ todo \subseteq Repos \X Files /\ missing \subseteq Files
         /\ cur \in Files \cup {None})'
    BY DEF PullInv, BeginGguf, NextDownload, Goto, TypeOK, Repos
  <2>4. ({resuming, overwrite, stop} \subseteq BOOLEAN)'
    BY DEF PullInv, BeginGguf, NextDownload, Goto, TypeOK
  <2>5. (outcome \in Outcomes)'
    BY DEF PullInv, BeginGguf, NextDownload, Goto, TypeOK
  <2>6. GhostTypes'
    BY DEF PullInv, BeginGguf, TypeOK, GhostTypes
  <2>7. FaultTypes'
    BY DEF PullInv, BeginGguf, TypeOK, FaultTypes
  <2> QED
    BY <2>1, <2>2, <2>3, <2>4, <2>5, <2>6, <2>7 DEF TypeOK, DiskTypes,
       RunTypes, GhostTypes, FaultTypes
<1>2. KindInv'
  BY DEF PullInv, BeginGguf, NextDownload, Goto, KindInv, TypeOK, Git,
     GitSteps, CloneSteps, ResumeSteps
<1>3. DirectoryInv'
  BY DEF PullInv, BeginGguf, Nothing, NextDownload, Goto, DirectoryInv,
     TypeOK, Repos, GitSteps, CloneSteps, ResumeSteps
<1>4. MarkInv'
  BY DEF PullInv, BeginGguf, NextDownload, Goto, MarkInv, TypeOK,
     IncompleteIsMarked, Pulled, Complete, GitSteps, CloneSteps, ResumeSteps
<1>5. TodoInv'
  BY DEF PullInv, BeginGguf, Nothing, checkIfAlreadyExists, NextDownload,
     Goto, Exists, TodoInv, TypeOK, KindInv, ResumeSteps
<1>6. DoneInv'
  BY DEF BeginGguf, DoneInv
<1>7. BehindInv'
  BY DEF PullInv, BeginGguf, NextDownload, Goto, BehindInv, TypeOK, KindInv,
     Pulled, Repos, OkMeansComplete
<1> QED
  BY <1>1, <1>2, <1>3, <1>4, <1>5, <1>6, <1>7 DEF PullInv

\* A GGUF model is complete when each part is.
LEMMA PartsDoneKeeps ==
    ASSUME PullInv, PartsDone
    PROVE  PullInv'
<1>1. TypeOK'
  BY DEF PullInv, PartsDone, Downloaded, disk, NextDownload, TypeOK, Repos
<1>2. KindInv'
  BY DEF PullInv, PartsDone, Downloaded, disk, NextDownload, KindInv,
     GitSteps, CloneSteps, ResumeSteps
<1>3. DirectoryInv'
  BY DEF PullInv, PartsDone, Downloaded, disk, NextDownload, DirectoryInv,
     GitSteps, CloneSteps, ResumeSteps
<1>4. MarkInv'
  BY DEF PullInv, PartsDone, Downloaded, disk, NextDownload, MarkInv,
     IncompleteIsMarked, Pulled, Complete, GitSteps, CloneSteps, ResumeSteps
<1>5. TodoInv'
  BY DEF PartsDone, Downloaded, NextDownload, TodoInv
<1>6. DoneInv'
  BY DEF PullInv, PartsDone, DoneInv, KindInv, Git
<1>7. BehindInv'
  BY DEF PullInv, PartsDone, Downloaded, disk, NextDownload, BehindInv,
     KindInv, Pulled, OkMeansComplete
<1> QED
  BY <1>1, <1>2, <1>3, <1>4, <1>5, <1>6, <1>7 DEF PullInv

\* An export begins in a directory of its own.
LEMMA BeginExportKeeps ==
    ASSUME PullInv, BeginExport
    PROVE  PullInv'
<1>1. TypeOK'
  <2>1. (kind \in Kinds)'
    BY DEF PullInv, BeginExport, TypeOK
  <2>2. (head \in [Repos -> {"Absent", "NoGit", "Broken", "Unborn", "Born"}])'
    BY DEF PullInv, BeginExport, TypeOK, Repos
  <2>3. (file \in [Repos -> [Files -> Content]])'
    BY DEF PullInv, BeginExport, Nothing, TypeOK, Repos, Content
  <2>4. (part \in [Repos -> [LfsFiles -> {"None", "Good", "Bad"}]])'
    BY DEF PullInv, BeginExport, TypeOK
  <2>5. (index \in [Repos -> SUBSET Files] /\ marker \in [Repos -> BOOLEAN]
         /\ err \in [Repos -> BOOLEAN])'
    BY DEF PullInv, BeginExport, TypeOK
  <2>6. (adapter \in {"Missing", "Full"} /\ graph \in BOOLEAN)'
    BY DEF PullInv, BeginExport, TypeOK
  <2>7. (pc \in {"Down", "Entry", "Remove", "GitInit", "GitFetch", "Checkout", "Transfer",
                 "CloneFinal", "Resume", "ResumeCheckout", "Restore", "IndexHead",
                 "ResumeFinal", "Parts", "Export", "Adapter", "Graph"})'
    BY DEF BeginExport, NextDownload, Goto
  <2>8. (repo \in Repos /\ todo \subseteq Repos \X Files /\ missing \subseteq Files
         /\ cur \in Files \cup {None})'
    BY DEF PullInv, BeginExport, NextDownload, Goto, TypeOK, Repos
  <2>9. ({resuming, overwrite, stop} \subseteq BOOLEAN)'
    BY DEF PullInv, BeginExport, NextDownload, Goto, TypeOK
  <2>10. (outcome \in Outcomes)'
    BY DEF PullInv, BeginExport, NextDownload, Goto, TypeOK
  <2>11. GhostTypes'
    BY DEF PullInv, BeginExport, TypeOK, GhostTypes
  <2>12. FaultTypes'
    BY DEF PullInv, BeginExport, TypeOK, FaultTypes
  <2> QED
    BY <2>1, <2>2, <2>3, <2>4, <2>5, <2>6, <2>7, <2>8, <2>9, <2>10, <2>11,
       <2>12 DEF TypeOK, DiskTypes, RunTypes, GhostTypes, FaultTypes
<1>2. KindInv'
  BY DEF PullInv, BeginExport, NextDownload, Goto, KindInv, TypeOK, Repos,
     Git, GitSteps, CloneSteps, ResumeSteps
<1>3. DirectoryInv'
  BY DEF PullInv, BeginExport, NextDownload, Nothing, Goto, DirectoryInv,
     TypeOK, Repos, GitSteps, CloneSteps, ResumeSteps
<1>4. MarkInv'
  BY DEF PullInv, BeginExport, NextDownload, Goto, MarkInv, TypeOK,
     IncompleteIsMarked, Pulled, Complete, Repos, GitSteps, CloneSteps,
     ResumeSteps
<1>5. TodoInv'
  BY DEF PullInv, BeginExport, NextDownload, Nothing, Goto, TodoInv, TypeOK,
     KindInv, ResumeSteps
<1>6. DoneInv'
  BY DEF BeginExport, DoneInv
<1>7. BehindInv'
  BY DEF PullInv, BeginExport, NextDownload, Goto, BehindInv, KindInv, Pulled,
     OkMeansComplete, Git
<1> QED
  BY <1>1, <1>2, <1>3, <1>4, <1>5, <1>6, <1>7 DEF PullInv

\* The adapters come after the model.
LEMMA PullLoraAdaptersKeeps ==
    ASSUME PullInv, pullLoraAdapters
    PROVE  PullInv'
<1>1. TypeOK'
  <2>1. DiskTypes'
    BY DEF PullInv, pullLoraAdapters, TypeOK, DiskTypes
  <2>2. RunTypes'
    BY DEF PullInv, pullLoraAdapters, Goto, End, TypeOK, Repos, Outcomes,
       RunTypes
  <2>3. GhostTypes'
    BY DEF PullInv, pullLoraAdapters, ghosts, TypeOK, GhostTypes
  <2>4. FaultTypes'
    BY DEF PullInv, pullLoraAdapters, Fault, End, TypeOK, FaultTypes
  <2> QED
    BY <2>1, <2>2, <2>3, <2>4 DEF TypeOK, DiskTypes, RunTypes, GhostTypes,
       FaultTypes
<1>2. KindInv'
  BY DEF PullInv, pullLoraAdapters, Goto, End, ghosts, KindInv, Git,
     ResumeSteps
<1>3. DirectoryInv'
  BY DEF PullInv, pullLoraAdapters, Goto, End, DirectoryInv, GitSteps,
     CloneSteps, ResumeSteps
<1>4. MarkInv'
  BY DEF PullInv, pullLoraAdapters, Goto, End, ghosts, MarkInv,
     IncompleteIsMarked, Pulled, Complete, GitSteps, CloneSteps, ResumeSteps
<1>5. TodoInv'
  BY DEF PullInv, pullLoraAdapters, Goto, End, TodoInv
<1>6. DoneInv'
  BY DEF PullInv, pullLoraAdapters, Goto, End, ghosts, DoneInv
<1>7. BehindInv'
  BY DEF PullInv, pullLoraAdapters, Goto, End, ghosts, BehindInv, Pulled,
     Complete, OkMeansComplete
<1> QED
  BY <1>1, <1>2, <1>3, <1>4, <1>5, <1>6, <1>7 DEF PullInv

\* The graph is written, and OK is reported, after all that was pulled.
LEMMA CreateServableConfigKeeps ==
    ASSUME PullInv, createServableConfig
    PROVE  PullInv'
<1>1. TypeOK'
  BY DEF PullInv, createServableConfig, End, ghosts, TypeOK, Repos, Outcomes
<1>2. KindInv'
  BY DEF PullInv, createServableConfig, End, ghosts, KindInv, Git, GitSteps,
     CloneSteps, ResumeSteps
<1>3. DirectoryInv'
  BY DEF PullInv, createServableConfig, End, DirectoryInv, GitSteps,
     CloneSteps, ResumeSteps
<1>4. MarkInv'
  BY DEF PullInv, createServableConfig, End, ghosts, MarkInv,
     IncompleteIsMarked, Pulled, Complete, GitSteps, CloneSteps, ResumeSteps
<1>5. TodoInv'
  BY DEF createServableConfig, End, TodoInv
<1>6. DoneInv'
  BY DEF PullInv, createServableConfig, End, ghosts, DoneInv
<1>7. BehindInv'
  BY DEF PullInv, createServableConfig, End, ghosts, BehindInv, Pulled,
     Complete, OkMeansComplete
<1> QED
  BY <1>1, <1>2, <1>3, <1>4, <1>5, <1>6, <1>7 DEF PullInv

\* A download replaces one pointer.
LEMMA TransferKeeps ==
    ASSUME PullInv, Transfer
    PROVE  PullInv'
<1>1. TypeOK'
  BY DEF PullInv, Transfer, Goto, ghosts, TypeOK, Content
<1>2. KindInv'
  BY DEF PullInv, Transfer, Goto, ghosts, KindInv, Git, GitSteps, ResumeSteps
<1>3. DirectoryInv'
  BY DEF PullInv, Transfer, Goto, DirectoryInv, GitSteps
<1>4. MarkInv'
  BY DEF PullInv, Transfer, Goto, ghosts, MarkInv, IncompleteIsMarked, Pulled,
     Complete, GitSteps
<1>5. TodoInv'
  BY DEF PullInv, Transfer, Goto, TodoInv, TypeOK, Repos
<1>6. DoneInv'
  BY DEF PullInv, Transfer, Goto, ghosts, DoneInv
<1>7. BehindInv'
  BY DEF PullInv, Transfer, Goto, ghosts, BehindInv, Pulled, Complete,
     OkMeansComplete
<1> QED
  BY <1>1, <1>2, <1>3, <1>4, <1>5, <1>6, <1>7 DEF PullInv

\* So does one that starts from zero; it leaves lfs_error.txt.
LEMMA TransferRestartsKeeps ==
    ASSUME PullInv, TransferRestarts
    PROVE  PullInv'
<1>1. TypeOK'
  BY DEF PullInv, TransferRestarts, Goto, ghosts, TypeOK, Content, TodoInv, Repos
<1>2. KindInv'
  BY DEF PullInv, TransferRestarts, Goto, ghosts, KindInv, Git, GitSteps, ResumeSteps
<1>3. DirectoryInv'
  BY DEF PullInv, TransferRestarts, Goto, DirectoryInv, GitSteps
<1>4. MarkInv'
  BY DEF PullInv, TransferRestarts, Goto, ghosts, MarkInv, IncompleteIsMarked, Pulled,
     Complete, GitSteps
<1>5. TodoInv'
  BY DEF PullInv, TransferRestarts, Goto, TodoInv, TypeOK, Repos
<1>6. DoneInv'
  BY DEF PullInv, TransferRestarts, Goto, ghosts, DoneInv, MarkInv, GitSteps
<1>7. BehindInv'
  BY DEF PullInv, TransferRestarts, Goto, ghosts, BehindInv, Pulled, Complete,
     OkMeansComplete
<1> QED
  BY <1>1, <1>2, <1>3, <1>4, <1>5, <1>6, <1>7 DEF PullInv

\* A download that is aborted leaves the pointer.
LEMMA TransferAbortsKeeps ==
    ASSUME PullInv, TransferAborts
    PROVE  PullInv'
<1>1. TypeOK'
  BY DEF PullInv, TransferAborts, TransferFails, Goto, ghosts, Fault, TypeOK,
     TodoInv, Repos
<1>2. KindInv'
  BY DEF PullInv, TransferAborts, Goto, ghosts, KindInv, Git, GitSteps,
     ResumeSteps
<1>3. DirectoryInv'
  BY DEF PullInv, TransferAborts, Goto, DirectoryInv, GitSteps
<1>4. MarkInv'
  BY DEF PullInv, TransferAborts, Goto, ghosts, MarkInv, IncompleteIsMarked,
     Pulled, Complete, GitSteps
<1>5. TodoInv'
  BY DEF PullInv, TransferAborts, Goto, TodoInv
<1>6. DoneInv'
  BY DEF PullInv, TransferAborts, Goto, ghosts, DoneInv, MarkInv, GitSteps
<1>7. BehindInv'
  BY DEF PullInv, TransferAborts, Goto, ghosts, BehindInv, Pulled, Complete,
     OkMeansComplete
<1> QED
  BY <1>1, <1>2, <1>3, <1>4, <1>5, <1>6, <1>7 DEF PullInv

\* A stop is only remembered.
LEMMA StopKeeps ==
    ASSUME PullInv, Stop
    PROVE  PullInv'
<1>1. TypeOK'
  BY DEF PullInv, Stop, Fault, disk, ghosts, TypeOK, Faults
<1>2. KindInv'
  BY DEF PullInv, Stop, disk, ghosts, KindInv, Git
<1>3. DirectoryInv'
  BY DEF PullInv, Stop, disk, DirectoryInv
<1>4. MarkInv'
  BY DEF PullInv, Stop, disk, ghosts, MarkInv, IncompleteIsMarked, Pulled,
     Complete
<1>5. TodoInv'
  BY DEF PullInv, Stop, disk, TodoInv
<1>6. DoneInv'
  BY DEF PullInv, Stop, disk, ghosts, DoneInv
<1>7. BehindInv'
  BY DEF PullInv, Stop, disk, ghosts, BehindInv, Pulled, Complete,
     OkMeansComplete
<1> QED
  BY <1>1, <1>2, <1>3, <1>4, <1>5, <1>6, <1>7 DEF PullInv

\* A kill may tear a file that is being written, which was not complete before.
LEMMA KillKeeps ==
    ASSUME PullInv, Kill
    PROVE  PullInv'
<1>1. TypeOK'
  <2>1. DiskTypes'
    BY DEF PullInv, Kill, TypeOK, Repos, Content, DiskTypes
  <2>2. RunTypes'
    BY DEF Kill, End, Repos, Outcomes, RunTypes
  <2>3. GhostTypes'
    BY DEF PullInv, Kill, ghosts, TypeOK, GhostTypes
  <2>4. FaultTypes'
    BY DEF PullInv, Kill, Fault, TypeOK, Faults, FaultTypes
  <2> QED
    BY <2>1, <2>2, <2>3, <2>4 DEF TypeOK, DiskTypes, RunTypes, GhostTypes,
       FaultTypes
<1>2. KindInv'
  BY DEF PullInv, Kill, End, ghosts, KindInv, Git, GitSteps, CloneSteps,
     ResumeSteps
<1>3. DirectoryInv'
  BY DEF PullInv, Kill, BeingWritten, End, DirectoryInv, TypeOK, KindInv,
     Repos, GitSteps, CloneSteps, ResumeSteps, Git
<1>4. MarkInv'
  BY DEF PullInv, Kill, BeingWritten, End, ghosts, MarkInv, TypeOK, KindInv,
     IncompleteIsMarked, Pulled, Complete, Repos, GitSteps, CloneSteps,
     ResumeSteps
<1>5. TodoInv'
  BY DEF Kill, End, TodoInv
<1>6. DoneInv'
  BY DEF PullInv, Kill, End, ghosts, DoneInv, TypeOK, Repos
<1>7. BehindInv'
  BY DEF Kill, End, BehindInv, OkMeansComplete
<1> QED
  BY <1>1, <1>2, <1>3, <1>4, <1>5, <1>6, <1>7 DEF PullInv

\* A run begins with what the runs before it have left.
LEMMA StartKeeps ==
    ASSUME PullInv, NEW ow \in BOOLEAN, NEW requested \in BOOLEAN, Start(ow, requested)
    PROVE  PullInv'
<1>1. TypeOK'
  BY DEF PullInv, Start, Fault, disk, ghosts, TypeOK, Outcomes
<1>2. KindInv'
  BY DEF PullInv, Start, disk, ghosts, KindInv, Git, GitSteps, CloneSteps,
     ResumeSteps
<1>3. DirectoryInv'
  BY DEF PullInv, Start, disk, DirectoryInv, GitSteps, CloneSteps, ResumeSteps
<1>4. MarkInv'
  BY DEF PullInv, Start, disk, ghosts, MarkInv, IncompleteIsMarked, Pulled,
     Complete, GitSteps, CloneSteps, ResumeSteps
<1>5. TodoInv'
  BY DEF PullInv, Start, disk, TodoInv
<1>6. DoneInv'
  BY DEF PullInv, Start, disk, ghosts, DoneInv
<1>7. BehindInv'
  BY DEF PullInv, Start, disk, ghosts, BehindInv, Pulled, Complete,
     OkMeansComplete
<1> QED
  BY <1>1, <1>2, <1>3, <1>4, <1>5, <1>6, <1>7 DEF PullInv

\* What the user changes or takes away does not count as lacking.
LEMMA UserEditsKeeps ==
    ASSUME PullInv, NEW r \in Repos, NEW f \in Files, UserEdits(r, f)
    PROVE  PullInv'
<1>1. TypeOK'
  BY DEF PullInv, UserEdits, Fault, run, TypeOK, Content, Faults
<1>2. KindInv'
  BY DEF PullInv, UserEdits, run, KindInv, Git
<1>3. DirectoryInv'
  BY DEF PullInv, UserEdits, run, DirectoryInv
<1>4. MarkInv'
  BY DEF PullInv, UserEdits, run, MarkInv, TypeOK, IncompleteIsMarked, Pulled,
     Complete
<1>5. TodoInv'
  BY DEF PullInv, UserEdits, run, TodoInv, KindInv, ResumeSteps
<1>6. DoneInv'
  BY DEF PullInv, UserEdits, run, DoneInv
<1>7. BehindInv'
  BY DEF PullInv, UserEdits, run, BehindInv, TypeOK, Pulled, Complete,
     OkMeansComplete
<1> QED
  BY <1>1, <1>2, <1>3, <1>4, <1>5, <1>6, <1>7 DEF PullInv

-----------------------------------------------------------------------------
(* The server with its pull                                                *)

\* The pull goes on while the server waits for it, and what the server does
\* next depends on how it ended.
PullWithinStart ==
    Pulls =>
        /\ pc # "Down" => at[Main] = "cloning"
        /\ at[Main] \in {"load", "loading", "release", "serving"} => outcome = "OK"
        /\ at[Main] \in Stopping \cup {"exit"} /\ answer[Main] = "OK" => outcome = "OK"
        /\ ~alive /\ exit = "EX_OK" => outcome = "OK"

\* Of a process that pulls only Main does something, and when the pull goes on
\* Main waits for it.
LEMMA PullFacts ==
    ASSUME ServerInv, PullWithinStart, Pulls
    PROVE  /\ Main \in Threads /\ Process
           /\ \A t \in Threads : t # Main => at[t] = "idle"
           /\ alive <=> at[Main] # "idle"
           /\ at \in [Threads -> {"idle", "enter", "serving", "exit"}
                                    \cup Starting \cup Stopping]
           /\ answer \in [Threads -> {"none", "OK", "SERVER_ALREADY_STARTING",
                               "SERVER_ALREADY_STARTED", "OPTIONS_USAGE_ERROR", "error"}]
           /\ pc # "Down" => at[Main] = "cloning"
<1>1. command \in Commands
  BY DEF ServerInv, ServerTypeOK
<1>2. Process
  <2>1. command.host \in {"process", "application"}
        /\ (command.host = "application" => command.mode = "SERVING_MODELS")
    BY <1>1, CommandsAssumption
  <2> QED
    BY <2>1 DEF Pulls, Process
<1>3. Main \in Threads
  BY ThreadsAssumption
<1> QED
  BY <1>2, <1>3 DEF ServerInv, ServerTypeOK, ThreadInv, PullWithinStart

\* What the start and the stop of the server do besides the pull.
LEMMA AloneKeepsPullWithin ==
    ASSUME ServerInv, PullWithinStart, Pulls, NEW t \in Threads,
           CallsStart(t) \/ CallsDelete(t) \/ ThreadStep(t), UNCHANGED vars
    PROVE  PullWithinStart'
<1>1. UNCHANGED <<pc, outcome>>
  BY DEF vars, run
<1>2. t = Main
  <2>1. ~CallsDelete(t)
    BY PullFacts DEF CallsDelete
  <2>2. CallsStart(t) => t = Main
    BY PullFacts DEF CallsStart
  <2>3. ThreadStep(t) => at[t] # "idle"
    BY DEF ThreadStep, StartStep, StopStep, TriesStartMtx, ChecksModules, ParsesConfig,
       StartsConfigManager, StartsNoPull, StartsPython, StartsMetrics, StartsGrpc,
       StartsHttp, Loads, ManagerStarts, ReleasesGIL, LeavesLoop, StopsGrpc, GrpcStopped,
       StopsHttp, HttpStopped, StopsManager, JoinsManager, StopsPython, ClearsModules,
       Exits, ensureModuleShutdown, Turn
  <2> QED
    BY <2>1, <2>2, <2>3, PullFacts
<1> USE PullFacts
<1>3. ASSUME NEW p, at' = [at EXCEPT ![Main] = p],
             UNCHANGED <<command, alive, exit, answer>>, at[Main] # "cloning",
             p \notin {"idle", "cloning"},
             p \in {"load", "loading", "release", "serving"} => outcome = "OK",
             p \in Stopping \cup {"exit"} =>
                at[Main] \in {"serving", "exit"} \cup Stopping
      PROVE  PullWithinStart'
  BY <1>1, <1>3 DEF PullWithinStart, Pulls, Stopping
<1>4. ASSUME NEW p, NEW s, at' = [at EXCEPT ![Main] = p], 
             answer' = [answer EXCEPT ![Main] = s],
             UNCHANGED <<command, alive, exit>>, at[Main] # "cloning",
             p \in {"idle", "serving", "stop"}, at[Main] # "idle",
             s = "OK" => outcome = "OK", p = "serving" => s = "OK"
      PROVE  PullWithinStart'
  BY <1>1, <1>4 DEF PullWithinStart, Pulls, Stopping
<1>5. CASE CallsStart(t)
  BY <1>1, <1>2, <1>5 DEF CallsStart, Moves, PullWithinStart, Pulls, Stopping
<1>6. CASE TriesStartMtx(t)
  <2>1. CASE at' = [at EXCEPT ![Main] = "check"] /\ UNCHANGED answer
    <3>1. UNCHANGED <<command, alive, exit>> /\ at[Main] = "enter"
      BY <1>2, <1>6 DEF TriesStartMtx
    <3> QED
      BY <1>1, <2>1, <3>1 DEF PullWithinStart, Pulls, Stopping
  <2>2. CASE /\ at' = [at EXCEPT ![Main] = "idle"]
             /\ answer' = [answer EXCEPT ![Main] = "SERVER_ALREADY_STARTING"]
    BY <1>2, <1>4, <1>6, <2>2 DEF TriesStartMtx
  <2> QED
    BY <1>2, <1>6, <2>1, <2>2 DEF TriesStartMtx, Moves
<1>7. ASSUME NEW s, Returns(t, s), UNCHANGED <<command, alive, exit>>,
             at[t] \notin {"idle", "cloning"}, s = "OK" => outcome = "OK"
      PROVE  PullWithinStart'
  <2>1. PICK p \in {"serving", "stop"} :
           at' = [at EXCEPT ![Main] = p] /\ (p = "serving" => s = "OK")
    BY <1>2, <1>7 DEF Returns, Moves
  <2> QED
    BY <1>2, <1>4, <1>7, <2>1 DEF Returns
<1>8. ASSUME NEW p, Continues(t, p), UNCHANGED <<command, alive, exit>>,
             at[t] # "cloning", p \in Starting \ {"cloning"},
             p \in {"load", "loading", "release"} => outcome = "OK"
      PROVE  PullWithinStart'
  BY <1>2, <1>3, <1>8 DEF Continues, Moves, Starting, Stopping
<1>9. CASE ChecksModules(t)
  BY <1>7, <1>8, <1>9 DEF ChecksModules, Starting
<1>10. CASE ParsesConfig(t)
  <2>1. CASE Fails(t, "OPTIONS_USAGE_ERROR")
    BY <1>7, <1>10, <2>1 DEF ParsesConfig, Fails
  <2>2. CASE ~Fails(t, "OPTIONS_USAGE_ERROR")
    <3>1. PICK p \in {"config", "pullOnly", "python", "metrics"} : Continues(t, p)
      BY <1>10, <2>2 DEF ParsesConfig
    <3> QED
      BY <1>8, <1>10, <3>1 DEF ParsesConfig, Starting
  <2> QED
    BY <2>1, <2>2
<1>11. ~StartsConfigManager(t)
  BY DEF ServerInv, PhaseInv, StartsConfigManager, Pulls
<1>12. CASE StartsNoPull(t)
  BY <1>7, <1>12 DEF StartsNoPull, Fails
<1>13. CASE StartsPython(t)
  BY <1>7, <1>8, <1>13 DEF StartsPython, Fails, Starting
<1>14. CASE StartsMetrics(t)
  BY <1>8, <1>14 DEF StartsMetrics, Starting
<1>15. at[t] \in {"grpc", "http"} => command.mode = "HF_PULL_AND_START"
  BY DEF ServerInv, PhaseInv, Serving, Pulls
<1>16. CASE StartsGrpc(t)
  <2>1. CASE Fails(t, "error")
    BY <1>7, <1>16, <2>1 DEF StartsGrpc, Fails
  <2>2. CASE ~Fails(t, "error")
    <3>1. command.rest \in BOOLEAN
      BY CommandsAssumption DEF ServerInv, ServerTypeOK
    <3>2. PICK p \in {"http", "pull"} : Continues(t, p)
      BY <1>15, <1>16, <2>2, <3>1 DEF StartsGrpc
    <3> QED
      BY <1>8, <1>16, <3>2 DEF StartsGrpc, Starting
  <2> QED
    BY <2>1, <2>2
<1>17. CASE StartsHttp(t)
  <2>1. \/ Continues(t, "pull") \/ Returns(t, "error")
    BY <1>15, <1>17 DEF StartsHttp, Fails
  <2> QED
    BY <1>7, <1>8, <1>17, <2>1 DEF StartsHttp, Starting
<1>18. at[t] \in {"load", "loading", "release", "serving"} => outcome = "OK"
  BY <1>2 DEF PullWithinStart
<1>19. CASE Loads(t)
  BY <1>8, <1>18, <1>19 DEF Loads, Starting
<1>20. CASE ManagerStarts(t)
  BY <1>7, <1>8, <1>18, <1>20 DEF ManagerStarts, Fails, Starting
<1>21. CASE ReleasesGIL(t)
  BY <1>7, <1>18, <1>21 DEF ReleasesGIL
<1>22. ASSUME NEW p, Moves(t, p), UNCHANGED <<command, alive, exit, answer>>,
              at[t] \in {"serving", "exit"} \cup Stopping, p \in Stopping \cup {"exit"}
       PROVE  PullWithinStart'
  BY <1>2, <1>3, <1>22 DEF Moves, Stopping
<1>23. CASE LeavesLoop(t)
  BY <1>22, <1>23 DEF LeavesLoop, Stopping
<1>24. CASE StopsGrpc(t) \/ StopsHttp(t) \/ StopsManager(t)
  BY <1>22, <1>24 DEF StopsGrpc, StopsHttp, StopsManager, ensureModuleShutdown, Turn, Stopping
<1>25. CASE GrpcStopped(t) \/ HttpStopped(t) \/ JoinsManager(t) \/ StopsPython(t)
  BY <1>22, <1>25 DEF GrpcStopped, HttpStopped, JoinsManager, StopsPython, Turn, IsShut,
     Stopping
<1>26. CASE ClearsModules(t)
  BY <1>22, <1>26 DEF ClearsModules, Stopping
<1>27. CASE Exits(t)
  <2>1. at' = [at EXCEPT ![Main] = "idle"] /\ pc = "Down" /\ command' = command
    BY <1>2, <1>27 DEF Exits, Moves
  <2>2. exit' = "EX_OK" => outcome = "OK"
    BY <1>2, <1>27 DEF Exits, PullWithinStart
  <2> QED
    BY <1>1, <2>1, <2>2 DEF PullWithinStart, Pulls, Stopping
<1> QED
  <2>1. ~CallsDelete(t)
    BY DEF CallsDelete
  <2> QED
    BY <1>5, <1>6, <1>9, <1>10, <1>11, <1>12, <1>13, <1>14, <1>16, <1>17, <1>19, <1>20,
       <1>21, <1>23, <1>24, <1>25, <1>26, <1>27, <2>1 DEF ThreadStep, StartStep, StopStep

\* A step of the server with its pull keeps what holds between the two.
LEMMA PullWithinStep ==
    ASSUME ServerInv, PullInv, PullWithinStart, PullServerNext
    PROVE  PullWithinStart'
<1> SUFFICES ASSUME Pulls' PROVE PullWithinStart'
  BY DEF PullWithinStart
<1>1. command' = command /\ Pulls
  <2>1. ServerAlone \/ Beside => command' = command
    BY DEF ServerAlone, Beside, ThreadStep, StartStep, StopStep, CallsStart, CallsDelete,
       TriesStartMtx, ChecksModules, ParsesConfig, StartsConfigManager, StartsNoPull,
       StartsPython, StartsMetrics, StartsGrpc, StartsHttp, Loads, ManagerStarts,
       ReleasesGIL, LeavesLoop, StopsGrpc, GrpcStopped, StopsHttp, HttpStopped,
       StopsManager, JoinsManager, StopsPython, ClearsModules, Exits, Requests, Arrives,
       Answers, WatcherReloads, WatcherSleeps
  <2>2. ASSUME NEW t \in Threads PROVE PullStep(t) => command' = command
    BY DEF PullStep, CloneReturns, serverVars
  <2>3. ASSUME NEW t \in Threads, NEW ow \in BOOLEAN
        PROVE  PullBegins(t, ow) => command' = command
    BY DEF PullBegins, StartsPull
  <2>4. SignalStops \/ KilledAnywhere \/ UserChanges => command' = command
    BY DEF SignalStops, Signal, KilledAnywhere, Killed, UserChanges, serverVars
  <2>5. command' = command
    BY <2>1, <2>2, <2>3, <2>4 DEF PullServerNext
  <2> QED
    BY <2>5 DEF Pulls
<1>2. CASE ServerAlone
  BY <1>1, <1>2, AloneKeepsPullWithin DEF ServerAlone
<1>3. CASE Beside
  <2>1. UNCHANGED <<pc, outcome, command, at, answer, alive, exit>>
    BY <1>3 DEF Beside, Requests, Arrives, Answers, WatcherReloads, WatcherSleeps,
       threadVars, vars, run
  <2> QED
    BY <2>1 DEF PullWithinStart, Pulls, Stopping
<1> USE PullFacts
<1>4. ASSUME NEW t \in Threads, PullStep(t)
      PROVE  PullWithinStart'
  <2>1. at[t] = "cloning" /\ t = Main /\ alive
    BY <1>1, <1>4 DEF PullStep, CloneReturns
  <2>2. CASE pc' = "Down"
    <3>1. CloneReturns(Main, outcome' = "OK") /\ alive' = alive
      BY <1>4, <2>1, <2>2 DEF PullStep, CloneReturns
    <3>2. CASE outcome' = "OK"
      BY <1>1, <2>1, <2>2, <3>1, <3>2 DEF PullWithinStart
    <3>3. CASE outcome' # "OK"
      <4>1. at'[Main] = "stop" /\ answer'[Main] = "error"
        BY <1>1, <3>1, <3>3 DEF CloneReturns, Returns, Moves
      <4> QED
        BY <2>1, <2>2, <3>1, <4>1 DEF PullWithinStart
    <3> QED
      BY <3>2, <3>3
  <2>3. CASE pc' # "Down"
    <3>1. UNCHANGED <<at, alive, exit, answer>>
      BY <1>4, <2>3 DEF PullStep, serverVars, threadVars
    <3> QED
      BY <2>1, <3>1 DEF PullWithinStart, Stopping
  <2> QED
    BY <2>2, <2>3
<1>5. ASSUME NEW t \in Threads, NEW ow \in BOOLEAN, PullBegins(t, ow)
      PROVE  PullWithinStart'
  <2>1. at[t] \in {"pullOnly", "pull"} /\ t = Main
    BY <1>1, <1>5 DEF PullBegins, StartsPull
  <2>2. at' = [at EXCEPT ![Main] = "cloning"] /\ alive' = alive /\ alive
    BY <1>1, <1>5, <2>1 DEF PullBegins, StartsPull, Continues, Moves
  <2> QED
    BY <1>1, <2>2 DEF PullWithinStart, Stopping
<1>6. \A k : Outside(k) => pc' = "Down" /\ pc = "Down" /\ outcome' = outcome
  BY <1>1 DEF Outside, run
<1>7. CASE SignalStops
  <2>1. UNCHANGED <<at, alive, exit, answer>>
    BY <1>7 DEF SignalStops, Signal, threadVars
  <2>2. outcome' = outcome /\ (pc' # "Down" => pc # "Down")
    BY <1>6, <1>7 DEF SignalStops, Stop
  <2> QED
    BY <1>1, <2>1, <2>2 DEF PullWithinStart, Stopping
<1>8. CASE KilledAnywhere
  <2>1. pc' = "Down"
    BY <1>6, <1>8 DEF KilledAnywhere, Kill, End
  <2>2. at'[Main] = "idle" /\ exit' = "killed"
    BY <1>1, <1>8 DEF KilledAnywhere, Killed
  <2> QED
    BY <2>1, <2>2 DEF PullWithinStart, Stopping
<1>9. CASE UserChanges
  <2>1. UNCHANGED <<at, alive, exit, answer, pc, outcome>>
    BY <1>9 DEF UserChanges, UserEdits, serverVars, threadVars, run
  <2> QED
    BY <1>1, <2>1 DEF PullWithinStart, Stopping
<1> QED
  BY <1>2, <1>3, <1>4, <1>5, <1>7, <1>8, <1>9 DEF PullServerNext

\* Loaded is what is whole.
LEMMA AgreeIsWhole == ServerInv /\ PullInv /\ PullWithinStart => WholeModelServed
<1> SUFFICES ASSUME ServerInv, PullInv, PullWithinStart PROVE WholeModelServed
  OBVIOUS
<1>1. CASE ~Pulls
  BY <1>1 DEF WholeModelServed
<1>2. CASE Pulls
  <2>1. \A t \in Threads :
           at[t] \in {"load", "loading", "release", "serving"} => t = Main
    BY <1>2, PullFacts
  <2>2. at[Main] \in {"load", "loading", "release", "serving"} => outcome = "OK"
    BY <1>2 DEF PullWithinStart
  <2>3. OkMeansComplete
    BY DEF PullInv, BehindInv
  <2>4. ~alive /\ exit = "EX_OK" => outcome = "OK"
    BY <1>2 DEF PullWithinStart
  <2>5. pc # "Down" => \E t \in Threads : at[t] = "cloning"
    BY <1>2, PullFacts
  <2> QED
    BY <2>1, <2>2, <2>3, <2>4, <2>5 DEF WholeModelServed
<1> QED
  BY <1>1, <1>2

\* Nothing was pulled yet.
LEMMA PullInvInit == Init => PullInv
<1> SUFFICES ASSUME Init PROVE PullInv
  OBVIOUS
<1>1. PICK h \in {"Absent", "NoGit"} :
        /\ head = [r \in Repos |-> IF r = "main" THEN h ELSE "Absent"]
        /\ file = [r \in Repos |-> IF r = "main" /\ h = "NoGit"
                                   THEN [f \in Files |-> "Edited"] ELSE Nothing]
        /\ touched = [r \in Repos |-> IF r = "main" /\ h = "NoGit" THEN Files ELSE {}]
  BY DEF Init
<1>2. TypeOK
  <2>1. Nothing \in [Files -> Content] /\ [f \in Files |-> "Edited"] \in [Files -> Content]
    BY DEF Nothing, Content
  <2>2. file \in [Repos -> [Files -> Content]] /\ touched \in [Repos -> SUBSET Files]
    BY <1>1, <2>1
  <2>3. head \in [Repos -> {"Absent", "NoGit", "Broken", "Unborn", "Born"}]
    BY <1>1
  <2>4. part \in [Repos -> [LfsFiles -> {"None", "Good", "Bad"}]]
    BY DEF Init, NoPart
  <2>5. kind \in Kinds /\ faults \in [Faults -> Nat]
    BY PullAssumption DEF Init
  <2> QED
    BY <2>2, <2>3, <2>4, <2>5 DEF Init, TypeOK, Outcomes, Repos, None
<1>3. \A r \in Repos : head[r] \in {"Absent", "NoGit"} /\ ~Pulled(r)
  BY <1>1 DEF Pulled
<1>4. \A r \in Repos, f \in Files : file[r][f] \in {"Edited", "Missing"}
  BY <1>1 DEF Nothing
<1>5. \A r \in Repos : head[r] = "Absent" => \A f \in Files : file[r][f] = "Missing"
  BY <1>1 DEF Nothing
<1>6. head["draft"] = "Absent" /\ \A r \in Repos : ~done[r]
  BY <1>1 DEF Init, Repos
<1>7. KindInv
  BY <1>3, <1>6 DEF Init, KindInv, GitSteps, CloneSteps, ResumeSteps, Repos
<1>8. DirectoryInv
  BY <1>4, <1>5 DEF Init, DirectoryInv, GitSteps, CloneSteps, ResumeSteps
<1>9. MarkInv
  BY <1>3 DEF Init, MarkInv, IncompleteIsMarked, GitSteps, CloneSteps, ResumeSteps
<1>10. TodoInv
  BY DEF Init, TodoInv
<1>11. DoneInv
  BY <1>6 DEF DoneInv, Repos
<1>12. BehindInv
  BY DEF Init, BehindInv, OkMeansComplete
<1> QED
  BY <1>2, <1>7, <1>8, <1>9, <1>10, <1>11, <1>12 DEF PullInv

\* What nothing is done to stays as it is, however often it may still fail.
LEMMA OutsideKeeps ==
    ASSUME PullInv, UNCHANGED <<kind, disk, run, ghosts>>, faults' \in [Faults -> Nat]
    PROVE  PullInv'
<1> USE DEF disk, run, ghosts
<1>1. TypeOK'
  BY DEF PullInv, TypeOK
<1>2. KindInv'
  BY DEF PullInv, KindInv, Git
<1>3. DirectoryInv'
  BY DEF PullInv, DirectoryInv
<1>4. MarkInv'
  BY DEF PullInv, MarkInv, IncompleteIsMarked, Pulled, Complete
<1>5. TodoInv'
  BY DEF PullInv, TodoInv
<1>6. DoneInv'
  BY DEF PullInv, DoneInv
<1>7. BehindInv'
  BY DEF PullInv, BehindInv, OkMeansComplete, Pulled, Complete
<1> QED
  BY <1>1, <1>2, <1>3, <1>4, <1>5, <1>6, <1>7 DEF PullInv

\* A step of the pull keeps PullInv.
LEMMA StepKeeps == PullInv /\ Step => PullInv'
<1> SUFFICES ASSUME PullInv, Step PROVE PullInv'
  OBVIOUS
<1>1. CASE Clone
  BY <1>1, BeginRemovalKeeps, RemoveGitKeeps, BeginCloneKeeps, GitInitKeeps, GitFetchKeeps,
     GitFetchFailsKeeps, CloneWritesIndexKeeps, LfsErrorFoundKeeps, StatusCheckedKeeps,
     RemoveFileKeeps, CloneCheckoutKeeps DEF Clone, finalizeAfterClone
<1>2. CASE ResumePull
  BY <1>2, UseExistingKeeps, CannotOpenKeeps, BeginResumeKeeps, ResumeForeignKeeps,
     ResumeCheckoutKeeps, BeginRestoreKeeps, ResumeCancelledKeeps,
     RestoreGitIndexToHeadKeeps, LfsErrorFoundKeeps, StatusCheckedKeeps, ResumeFileKeeps,
     RestoreFileKeeps DEF ResumePull, FinishResume
<1>3. CASE Others
  BY <1>3, BeginGgufKeeps, PartsDoneKeeps, BeginExportKeeps, PullLoraAdaptersKeeps,
     CreateServableConfigKeeps, DownloadPartKeeps, ExportFileKeeps DEF Others
<1> QED
  BY <1>1, <1>2, <1>3, TransferKeeps, TransferRestartsKeeps, TransferAbortsKeeps DEF Step

\* A step of the server with its pull keeps PullInv.
LEMMA PullInvStep ==
    ASSUME ServerInv, PullInv, [PullServerNext]_allVars
    PROVE  PullInv'
<1>1. CASE UNCHANGED vars
  <2>1. faults' \in [Faults -> Nat]
    BY <1>1 DEF vars, PullInv, TypeOK
  <2> QED
    BY <1>1, <2>1, OutsideKeeps DEF vars
<1>2. ASSUME NEW k \in {"stop", "kill"}, Outside(k)
      PROVE  PullInv'
  <2>1. CASE UNCHANGED vars
    BY <1>1, <2>1
  <2>2. CASE Fault(k) /\ UNCHANGED <<kind, disk, run, ghosts>>
    <3>1. faults \in [Faults -> Nat] /\ faults[k] > 0
          /\ faults' = [faults EXCEPT ![k] = @ - 1]
      BY <2>2 DEF Fault, PullInv, TypeOK
    <3>2. k \in Faults /\ faults[k] - 1 \in Nat
      BY <3>1 DEF Faults
    <3>3. faults' \in [Faults -> Nat]
      BY <3>1, <3>2
    <3> QED
      BY <2>2, <3>3, OutsideKeeps
  <2> QED
    BY <1>2, <2>1, <2>2 DEF Outside
<1>3. ASSUME NEW t \in Threads, NEW ow \in BOOLEAN, PullBegins(t, ow)
      PROVE  PullInv'
  <2>1. asked \in BOOLEAN
    BY DEF ServerInv, ServerTypeOK
  <2> QED
    BY <1>3, <2>1, StartKeeps DEF PullBegins
<1>4. ASSUME NEW t \in Threads, PullStep(t) PROVE PullInv'
  BY <1>4, StepKeeps DEF PullStep
<1>5. CASE ServerAlone \/ Beside \/ UNCHANGED allVars
  BY <1>1, <1>5 DEF ServerAlone, Beside, allVars
<1>6. CASE SignalStops
  BY <1>2, <1>6, StopKeeps DEF SignalStops
<1>7. CASE KilledAnywhere
  BY <1>2, <1>7, KillKeeps DEF KilledAnywhere
<1>8. CASE UserChanges
  BY <1>8, UserEditsKeeps DEF UserChanges
<1> QED
  BY <1>3, <1>4, <1>5, <1>6, <1>7, <1>8 DEF PullServerNext

\* The server with its pull is a server.
LEMMA PullServerIsServer ==
    ServerInv /\ [PullServerNext]_allVars => [ServerNext]_serverVars
<1> SUFFICES ASSUME [PullServerNext]_allVars PROVE [ServerNext]_serverVars
  OBVIOUS
<1>1. ASSUME NEW t \in Threads, PullStep(t) PROVE [ServerNext]_serverVars
  <2>1. CASE pc' = "Down"
    <3>1. PICK ok \in BOOLEAN : ok <=> outcome' = "OK"
      OBVIOUS
    <3>2. CloneReturns(t, ok)
      BY <1>1, <2>1, <3>1 DEF PullStep, CloneReturns
    <3> QED
      BY <3>2 DEF ServerNext
  <2>2. CASE pc' # "Down"
    BY <1>1, <2>2 DEF PullStep
  <2> QED
    BY <2>1, <2>2
<1>2. ASSUME NEW t \in Threads, NEW ow \in BOOLEAN, PullBegins(t, ow)
      PROVE  ServerNext
  BY <1>2 DEF PullBegins, ServerNext
<1>3. ServerAlone \/ Beside \/ SignalStops \/ KilledAnywhere => ServerNext
  BY DEF ServerAlone, Beside, SignalStops, KilledAnywhere, ServerNext
<1>4. UserChanges \/ UNCHANGED allVars => UNCHANGED serverVars
  BY DEF UserChanges, allVars
<1> QED
  BY <1>1, <1>2, <1>3, <1>4 DEF PullServerNext

\* A file that is not there, or is a pointer, of a repository that is in work
\* is all that a step writes.
LEMMA OneFileKept ==
    ASSUME PullInv, NEW g \in Files, NEW c, NEW q \in Repos,
           file' = [file EXCEPT ![q][g] = c],
           file[q][g] \in {"Missing", "Pointer"},
           ~(done[q] /\ kind \in {"Text", "Image"}),
           NEW r \in Repos, NEW f \in Files
    PROVE  /\ file[r][f] = "Edited" => file'[r][f] = file[r][f]
           /\ done[r] /\ f \in touched[r] /\ kind \in {"Text", "Image"}
                 => file'[r][f] = file[r][f]
           /\ file[r][f] = "Full" => file'[r][f] = "Full"
<1>1. file \in [Repos -> [Files -> Content]]
  BY DEF PullInv, TypeOK
<1>2. r # q \/ f # g => file'[r][f] = file[r][f]
  BY <1>1
<1> QED
  BY <1>2

\* A run takes no file away that the user changed or that is complete.
LEMMA ProgramKeepsFiles ==
    ASSUME PullInv, Program, ~overwrite, NEW r \in Repos, NEW f \in Files
    PROVE  /\ file[r][f] = "Edited" => file'[r][f] = file[r][f]
           /\ done[r] /\ f \in touched[r] /\ kind \in {"Text", "Image"}
                 => file'[r][f] = file[r][f]
           /\ file[r][f] = "Full" => file'[r][f] = "Full"
<1> DEFINE Kept == /\ file[r][f] = "Edited" => file'[r][f] = file[r][f]
                   /\ done[r] /\ f \in touched[r] /\ kind \in {"Text", "Image"}
                         => file'[r][f] = file[r][f]
                   /\ file[r][f] = "Full" => file'[r][f] = "Full"
<1> SUFFICES Kept
  OBVIOUS
<1>1. repo \in Repos /\ file \in [Repos -> [Files -> Content]] /\ kind \in Kinds
      /\ done \in [Repos -> BOOLEAN] /\ (kind # "TextDraft" => repo = "main")
      /\ pc # "Remove" /\ cur \in Files \cup {None} /\ "main" \in Repos
      /\ missing \subseteq Files
  BY DEF PullInv, TypeOK, KindInv, Repos
<1>2. file' = file => Kept
  OBVIOUS
\* A repository of git in work is marked, so it is not done.
<1>3. pc \in GitSteps => ~(done[repo] /\ kind \in {"Text", "Image"})
  BY <1>1 DEF PullInv, MarkInv, DoneInv
<1>4. pc \in {"Parts", "Export"} => ~(kind \in {"Text", "Image"})
  BY DEF PullInv, KindInv, Git
<1> HIDE DEF Kept
<1>5. ASSUME NEW g \in Files, NEW c, file' = [file EXCEPT ![repo][g] = c],
             file[repo][g] \in {"Missing", "Pointer"}, pc \in GitSteps
      PROVE  Kept
  BY <1>1, <1>3, <1>5, OneFileKept DEF Kept
<1>6. ASSUME NEW q \in Repos, file' = [file EXCEPT ![q] = Nothing],
             \A g \in Files : file[q][g] = "Missing"
      PROVE  Kept
  <2>1. r # q => file'[r][f] = file[r][f]
    BY <1>1, <1>6
  <2>2. r = q => file'[r][f] = "Missing"
    BY <1>1, <1>6 DEF Nothing
  <2> QED
    BY <1>6, <2>1, <2>2 DEF Kept
<1>7. CASE BeginClone \/ GitFetchFails
  <2>1. file' = [file EXCEPT ![repo] = Nothing]
    BY <1>7 DEF BeginClone, GitFetchFails, Removed
  <2>2. \A g \in Files : file[repo][g] = "Missing"
    BY <1>1, <1>7 DEF BeginClone, GitFetchFails, PullInv, DirectoryInv
  <2> QED
    BY <1>1, <1>6, <2>1, <2>2
<1>8. ASSUME NEW g \in Files, CloneCheckout(g) PROVE Kept
  <2>1. file[repo][g] = "Missing" /\ pc \in GitSteps
    <3>1. \A x \in todo : x[1] = repo /\ file[x[1]][x[2]] = "Missing"
      BY <1>8 DEF CloneCheckout, PullInv, TodoInv
    <3> QED
      BY <1>8, <3>1 DEF CloneCheckout, GitSteps, CloneSteps
  <2>2. PICK c : file' = [file EXCEPT ![repo][g] = c]
    BY <1>8 DEF CloneCheckout, CheckedOut
  <2> QED
    BY <1>5, <2>1, <2>2
<1>9. CASE Transfer \/ TransferRestarts
  <2>1. pc = "Transfer" /\ cur \in LfsFiles /\ file[repo][cur] = "Pointer" /\ cur \in Files
    BY <1>9, PullAssumption DEF Transfer, TransferRestarts, PullInv, TodoInv
  <2>2. PICK c : file' = [file EXCEPT ![repo][cur] = c]
    BY <1>9 DEF Transfer, TransferRestarts
  <2>3. pc \in GitSteps
    BY <2>1 DEF GitSteps
  <2> QED
    BY <1>5, <2>1, <2>2, <2>3
<1>10. ASSUME NEW g \in Files, ResumeFile(g) PROVE Kept
  <2>1. file[repo][g] \in {"Missing", "Pointer"} /\ pc \in GitSteps
    <3>1. resuming
      BY <1>10 DEF ResumeFile, PullInv, KindInv, ResumeSteps
    <3>2. \A x \in todo : file[x[1]][x[2]] \in {"Pointer", "Missing"}
      BY <3>1 DEF PullInv, TodoInv
    <3> QED
      BY <1>10, <3>2 DEF ResumeFile, GitSteps, ResumeSteps
  <2>2. file' = [file EXCEPT ![repo][g] = "Missing"]
    BY <1>10 DEF ResumeFile
  <2> QED
    BY <1>5, <2>1, <2>2
<1>11. CASE ResumeCheckout
  <2>1. /\ cur \in Files /\ file[repo][cur] = "Missing" /\ pc \in GitSteps
    BY <1>11, PullAssumption DEF ResumeCheckout, PullInv, TodoInv, GitSteps, ResumeSteps
  <2>2. CASE file' = file
    BY <1>2, <2>2
  <2>3. CASE file' # file
    <3>1. PICK c : file' = [file EXCEPT ![repo][cur] = c]
      BY <1>11, <2>3 DEF ResumeCheckout, CheckedOut
    <3> QED
      BY <1>5, <2>1, <3>1
  <2> QED
    BY <2>2, <2>3
<1>12. ASSUME NEW g \in Files, RestoreFile(g) PROVE Kept
  <2>1. file[repo][g] = "Missing" /\ pc \in GitSteps
    BY <1>12 DEF RestoreFile, PullInv, TodoInv, GitSteps, ResumeSteps
  <2>2. PICK c : file' = [file EXCEPT ![repo][g] = c]
    <3>1. file' = [file EXCEPT ![repo][g] = IF g \in index[repo] THEN "Full" ELSE @]
      BY <1>12 DEF RestoreFile
    <3> QED
      BY <3>1
  <2> QED
    BY <1>5, <2>1, <2>2
<1>13. ASSUME NEW q \in Repos, NEW g \in Files, NEW c, file' = [file EXCEPT ![q][g] = c],
              file[q][g] = "Missing", pc \in {"Parts", "Export"}
       PROVE  Kept
  BY <1>4, <1>13, OneFileKept DEF Kept
<1>14. ASSUME NEW g \in Files, DownloadPart(g) \/ ExportFile(g) PROVE Kept
  <2>1. file["main"][g] = "Missing" /\ pc \in {"Parts", "Export"}
    <3>1. \A x \in todo : file[x[1]][x[2]] = "Missing"
      BY <1>14 DEF DownloadPart, ExportFile, PullInv, TodoInv
    <3> QED
      BY <1>14, <3>1 DEF DownloadPart, ExportFile
  <2>2. CASE file' = file
    BY <1>2, <2>2
  <2>3. CASE file' # file
    <3>1. PICK c : file' = [file EXCEPT !["main"][g] = c]
      BY <1>14, <2>3 DEF DownloadPart, ExportFile
    <3> QED
      BY <1>1, <1>13, <2>1, <3>1
  <2> QED
    BY <2>2, <2>3
<1>15. CASE BeginExport
  <2>1. CASE file' = file
    BY <1>2, <2>1
  <2>2. CASE file' # file
    <3>1. file' = [file EXCEPT !["main"] = Nothing] /\ head["main"] = "Absent"
      BY <1>15, <2>2 DEF BeginExport
    <3>2. \A g \in Files : file["main"][g] = "Missing"
      BY <1>1, <3>1 DEF PullInv, DirectoryInv
    <3> QED
      BY <1>1, <1>6, <3>1, <3>2
  <2> QED
    BY <2>1, <2>2
<1>16. CASE Kill
  <2>1. CASE file' = file
    BY <1>2, <2>1
  <2>2. CASE file' # file
    <3>1. PICK g \in BeingWritten : file' = [file EXCEPT ![repo][g] = "Torn"]
      BY <1>16, <2>2 DEF Kill
    <3>2. CASE pc \in {"Checkout", "Parts", "Export"}
      <4>1. PICK x \in todo : x[2] = g
        BY <3>1, <3>2 DEF BeingWritten
      <4>2. x[1] = repo /\ file[repo][g] = "Missing" /\ g \in Files
        BY <3>2, <4>1 DEF PullInv, TodoInv, TypeOK
      <4> QED
        BY <1>1, <1>5, <1>13, <3>1, <3>2, <4>2 DEF GitSteps, CloneSteps
    <3>3. CASE pc = "Restore"
      <4>1. g \in missing
        BY <3>1, <3>3 DEF BeingWritten
      <4>2. file[repo][g] = "Missing" /\ g \in Files /\ pc \in GitSteps
        BY <1>1, <3>3, <4>1 DEF PullInv, TodoInv, GitSteps, ResumeSteps
      <4> QED
        BY <1>5, <3>1, <4>2
    <3>4. CASE pc = "ResumeCheckout"
      <4>1. g = cur
        BY <3>1, <3>4 DEF BeingWritten
      <4>2. file[repo][g] = "Missing" /\ g \in Files /\ pc \in GitSteps
        BY <3>4, <4>1, PullAssumption DEF PullInv, TodoInv, GitSteps, ResumeSteps
      <4> QED
        BY <1>5, <3>1, <4>2
    <3>5. CASE pc \notin {"Checkout", "Parts", "Export", "Restore", "ResumeCheckout"}
      BY <3>1, <3>5 DEF BeingWritten
    <3> QED
      BY <3>2, <3>3, <3>4, <3>5
  <2> QED
    BY <2>1, <2>2
\* The other steps write to no file, or need --overwrite_models.
<1>17. CASE \/ RemoveGit \/ GitInit \/ GitFetch \/ CloneWritesIndex \/ finalizeAfterClone
            \/ UseExisting \/ CannotOpen \/ BeginResume \/ ResumeForeign \/ BeginRestore
            \/ ResumeCancelled \/ restoreGitIndexToHead \/ FinishResume
            \/ BeginGguf \/ PartsDone \/ pullLoraAdapters \/ createServableConfig
            \/ TransferAborts \/ Stop
  <2>1. file' = file
    BY <1>17 DEF RemoveGit, GitInit, GitFetch, CloneWritesIndex, finalizeAfterClone,
       LfsErrorFound, StatusChecked, UseExisting, CannotOpen, BeginResume, ResumeForeign,
       BeginRestore, ResumeCancelled, restoreGitIndexToHead, FinishResume, BeginGguf,
       PartsDone, pullLoraAdapters, createServableConfig, TransferAborts, Stop, disk
  <2> QED
    BY <1>2, <2>1
<1>18. ~BeginRemoval /\ \A g \in Files : ~RemoveFile(g)
  BY <1>1 DEF BeginRemoval, RemoveFile
<1>19. CASE Clone
  BY <1>7, <1>8, <1>17, <1>18, <1>19 DEF Clone
<1>20. CASE ResumePull
  BY <1>10, <1>11, <1>12, <1>17, <1>20 DEF ResumePull
<1>21. CASE Others
  BY <1>14, <1>15, <1>17, <1>21 DEF Others
<1> QED
  BY <1>9, <1>16, <1>17, <1>19, <1>20, <1>21 DEF Program, Step

-----------------------------------------------------------------------------
(* The theorems                                                            *)

\* The server with its pull, from its start on.
LEMMA AgreeInvariant == PullServerSpec => [](ServerInv /\ PullInv /\ PullWithinStart)
<1>1. PullServerInit => ServerInv /\ PullInv /\ PullWithinStart
  <2> SUFFICES ASSUME PullServerInit PROVE ServerInv /\ PullInv /\ PullWithinStart
    OBVIOUS
  <2>1. pc = "Down" /\ Main \in Threads /\ at[Main] = "idle" /\ exit = "none"
    BY ThreadsAssumption DEF PullServerInit, ServerInit, Init
  <2>2. PullWithinStart
    BY <2>1 DEF PullWithinStart, Stopping
  <2> QED
    BY <2>2, ServerInvInit, PullInvInit DEF PullServerInit
<1>2. ServerInv /\ PullInv /\ PullWithinStart /\ [PullServerNext]_allVars
        => (ServerInv /\ PullInv /\ PullWithinStart)'
  <2> SUFFICES ASSUME ServerInv, PullInv, PullWithinStart, [PullServerNext]_allVars
               PROVE  ServerInv' /\ PullInv' /\ PullWithinStart'
    OBVIOUS
  <2>1. ServerInv'
    BY PullServerIsServer, ServerInvStep
  <2>2. PullInv'
    BY PullInvStep
  <2>3. PullWithinStart'
    <3>1. CASE PullServerNext
      BY <3>1, PullWithinStep
    <3>2. CASE UNCHANGED allVars
      BY <3>2 DEF allVars, serverVars, threadVars, vars, run, PullWithinStart, Pulls, Stopping
    <3> QED
      BY <3>1, <3>2
  <2> QED
    BY <2>1, <2>2, <2>3
<1> QED
  BY <1>1, <1>2, PTL DEF PullServerSpec

\* Whatever the server is told to pull, and whatever befalls the pull: it keeps
\* the promises of a server, and loads and reports as success only a model that
\* is whole (Server::startModules, HfPullModelModule::clone).
THEOREM ServerWithPullIsSound == PullServerSpec => []ServerIsSound
<1>1. ServerInv /\ PullInv /\ PullWithinStart => ServerIsSound
  BY ServerInvSafety, AgreeIsWhole DEF ServerIsSound
<1> QED
  BY <1>1, AgreeInvariant, PTL

\* A repository that lacks anything the user did not take away is marked on
\* disk at any moment a kill may choose, and OK means complete
\* (docs/pull_hf_models.md, libgit2.cpp).
THEOREM DiskIsTrue == PullServerSpec => []DiskTellsTruth
<1>1. PullInv => DiskTellsTruth
  BY DEF PullInv, MarkInv, BehindInv, DiskTellsTruth
<1> QED
  BY <1>1, AgreeInvariant, PTL

\* No step of a run without --overwrite_models takes a file away that the user
\* changed or that is complete (GitDownloader, resumeLfsDownloadForFile).
THEOREM UsersFilesAreKept == PullServerSpec => FilesKept
<1>1. PullInv => [Program /\ ~overwrite =>
          \A r \in Repos, f \in Files :
             \/ file[r][f] = "Edited"
             \/ done[r] /\ f \in touched[r] /\ kind \in {"Text", "Image"}
             => file'[r][f] = file[r][f]]_vars
  <2> SUFFICES ASSUME PullInv, Program, ~overwrite, NEW r \in Repos, NEW f \in Files,
                      \/ file[r][f] = "Edited"
                      \/ done[r] /\ f \in touched[r] /\ kind \in {"Text", "Image"}
               PROVE  file'[r][f] = file[r][f]
    OBVIOUS
  <2>1. CASE file[r][f] = "Edited"
    BY <2>1, ProgramKeepsFiles
  <2>2. CASE done[r] /\ f \in touched[r] /\ kind \in {"Text", "Image"}
    BY <2>2, ProgramKeepsFiles
  <2> QED
    BY <2>1, <2>2
<1>2. PullInv => [Program /\ ~overwrite =>
          \A r \in Repos, f \in Files : file[r][f] = "Full" => file'[r][f] = "Full"]_vars
  <2> SUFFICES ASSUME PullInv, Program, ~overwrite, NEW r \in Repos, NEW f \in Files,
                      file[r][f] = "Full"
               PROVE  file'[r][f] = "Full"
    OBVIOUS
  <2> QED
    BY ProgramKeepsFiles
<1> QED
  BY <1>1, <1>2, AgreeInvariant, PTL DEF FilesKept, KeepsUserFiles, CompletedFilesKept
=============================================================================

---------------------------- MODULE GraphServing ----------------------------
(* Serving of a MediaPipe graph: its definition, which is reloaded and       *)
(* retired while requests run (mediapipegraphdefinition.cpp), the pool of    *)
(* started graphs that requests share (graphqueue.hpp), and the unary and    *)
(* streaming execution of a request, pooled or on a graph of its own         *)
(* (mediapipegraphexecutor.hpp, kfs_graph_executor_impl.cpp).                *)
(*                                                                           *)
(* MediaPipe itself is external: a graph keeps the packets of its input      *)
(* streams until the set of a timestamp is settled, runs on its own threads  *)
(* and calls the observer of its output for every packet it produces.        *)
EXTENDS Integers, FiniteSets, Sequences, FiniteSetsExt

CONSTANTS
    Requests,        \* requests to the graph
    Inputs,          \* input streams, in the order of a request's tensors
    Files,           \* contents of the graph file, see FileOK
    FirstFile,       \* the file at the start of the server
    RestWorkers, Cores, Threads,   \* sizes a pool is bounded by
    QueueOff,        \* OVMS_GRAPH_QUEUE_OFF is set
    MaxGen,          \* bound: loads of the definition
    MaxMessages,     \* bound: messages of a stream
    MaxClock,        \* bound: the system clock, in microseconds
    None             \* no request

Steps == {"readable", "parses", "inputs", "outputs", "sidePackets", "types",
          "calculators", "nodes", "queue"}
FileOK(f) ==
    /\ f.directive \in {"absent", "auto", "text", "number"}
    /\ f.size \in Int
    /\ f.loopback \in BOOLEAN /\ f.contextless \in BOOLEAN
    /\ f.broken \subseteq Steps

ASSUME RequestsAssumption == None \notin Requests
ASSUME InputsAssumption == Inputs \subseteq Int /\ IsFiniteSet(Inputs) /\ Inputs # {}
ASSUME BoundsAssumption == MaxGen \in Nat \ {0} /\ MaxMessages \in Nat /\ MaxClock \in Nat \ {0}
ASSUME FilesAssumption == FirstFile \in Files /\ \A f \in Files : FileOK(f)
ASSUME SizesAssumption == {RestWorkers, Cores, Threads} \subseteq Nat

VARIABLES
    def,             \* the definition: state, gen, file, pool and size
    manager,         \* what the thread of the configuration does
    handles,         \* requests that hold a ServableDefinitionUnloadGuard
    idle,            \* idle ids of the queue of each generation
    graph,           \* graphs, by key
    req,             \* executions of the requests
    clock            \* system_clock::now

vars == <<def, manager, handles, idle, graph, req, clock>>

-----------------------------------------------------------------------------
(* Validation of a definition *)

\* resolveAutoQueueSize: as many as can be used at once, at least one.
ResolveAutoQueueSize == Max({1, Min({RestWorkers, Cores})})

\* resolveGraphQueueSize: -1 for a file that is refused.  Zero: no pool.
ResolveGraphQueueSize(f) ==
    LET clamped == IF Threads > 0 /\ f.size > Threads THEN Threads ELSE f.size
        asked == IF f.directive = "auto" THEN ResolveAutoQueueSize ELSE clamped
    IN  IF QueueOff \/ f.directive = "absent" THEN 0
        ELSE IF f.directive = "text" \/ (f.directive = "number" /\ f.size < 0)
             THEN -1
        ELSE IF f.directive = "number" /\ f.size = 0 THEN 0
        ELSE IF f.loopback THEN -1      \* generative Python nodes keep state
        ELSE IF f.contextless THEN 0    \* graphs of older versions
        ELSE asked

ValidateForConfigFileExistence(f) == "readable" \notin f.broken
ValidateForConfigLoadableness(f) == "parses" \notin f.broken
CreateInputsInfo(f) == "inputs" \notin f.broken
CreateOutputsInfo(f) == "outputs" \notin f.broken
CreateInputSidePacketsInfo(f) == "sidePackets" \notin f.broken
SetStreamTypes(f) == "types" \notin f.broken
DryInitializeTest(f) == "calculators" \notin f.broken
InitializeNodes(f) == "nodes" \notin f.broken
\* The queue starts all of its graphs, or none is kept.
InitializeQueueIfRequired(f) ==
    ResolveGraphQueueSize(f) > 0 => "queue" \notin f.broken

Validate(f) ==
    /\ ValidateForConfigFileExistence(f) /\ ValidateForConfigLoadableness(f)
    /\ ResolveGraphQueueSize(f) >= 0
    /\ CreateInputsInfo(f) /\ CreateOutputsInfo(f)
    /\ CreateInputSidePacketsInfo(f)
    /\ SetStreamTypes(f) /\ DryInitializeTest(f)
    /\ InitializeNodes(f) /\ InitializeQueueIfRequired(f)

-----------------------------------------------------------------------------
(* Graphs *)

PoolIds == UNION {1..ResolveGraphQueueSize(f) : f \in Files}
Keys == [pool : 1..MaxGen, id : PoolIds] \cup [pool : {0}, id : Requests]

\* GraphHelper::initialize: a started graph.
Fresh == [pending |-> {}, last |-> [i \in Inputs |-> 0], err |-> FALSE,
          closed |-> FALSE, obs |-> None, ctx |-> None]
\* GraphHelper::initialize failed.
Broken == [Fresh EXCEPT !.err = TRUE]

\* MediaPipe: the packets of a timestamp are processed, in the order of
\* timestamps, once every stream has one or can no longer get one.
NextSet(g) == Min({p.ts : p \in g.pending})
Settled(g) ==
    /\ ~g.err /\ g.pending # {}
    /\ \/ g.closed
       \/ \A i \in Inputs : g.last[i] >= NextSet(g)
\* Nothing is left to do once the sources are closed.
RunOut(g) == g.err \/ g.pending = {}

\* The inputs of a message: the first n of them, the last one unreadable if
\* bad; its timestamp: explicit (far ahead of the clock), out of range, or
\* none; a message of a stream may name another servable.
Messages ==
    {m \in [n : 1..Cardinality(Inputs), bad : BOOLEAN, ts : {"now", "far"},
            foreign : {FALSE}] : m.bad => m.n > 1}
    \cup {[n |-> 1, bad |-> FALSE, ts |-> "invalid", foreign |-> FALSE],
          [n |-> 1, bad |-> FALSE, ts |-> "now", foreign |-> TRUE]}
\* deserializeTimestampIfAvailable and checkTimestamp.
DeserializeTimestamp(m, now) ==
    CASE m.ts = "now" -> now [] m.ts = "far" -> MaxClock + 1
      [] OTHER -> -1

FirstInputs(n) == {i \in Inputs : Cardinality({j \in Inputs : j <= i}) <= n}

\* createPacketAndPushIntoGraph: packets of some inputs enter the graph.
AddPackets(g, inputs, ts, r) ==
    [g EXCEPT !.pending = @ \cup {[in |-> i, ts |-> ts, own |-> r] : i \in inputs},
              !.last = [i \in Inputs |-> IF i \in inputs THEN ts ELSE g.last[i]]]

\* createAndPushPacketsImpl: input after input until one fails.  Timestamps of
\* a stream grow, or AddPacketToInputStream and with it the graph fails.
CreateAndPushPackets(g, m, now, r) ==
    LET ts == DeserializeTimestamp(m, now)
        good == IF m.bad THEN m.n - 1 ELSE m.n
        late == {i \in FirstInputs(good) : ts <= g.last[i]}
        pushed == {i \in FirstInputs(good) : ~g.err /\ \A j \in late : i < j}
        after == [AddPackets(g, pushed, ts, r) EXCEPT !.err = g.err \/ late # {}]
    IN  IF ts < 0 THEN [g |-> g, ok |-> FALSE, created |-> 0]
        ELSE [g |-> after, ok |-> good = m.n /\ ~after.err,
              created |-> Cardinality(pushed)]

-----------------------------------------------------------------------------
(* The definition and the thread that reloads it *)

Running(r) == req[r].pc \in {"first", "read", "wait", "fail"}
Holds(r) == req[r].pc \in {"begin", "first", "read", "wait", "fail", "release"}

\* What a successful validation leaves, in generation n.
Loaded(f, n) ==
    [state |-> IF Validate(f) THEN "available" ELSE "failed", gen |-> n,
     file |-> f, size |-> ResolveGraphQueueSize(f),
     pool |-> IF Validate(f) /\ ResolveGraphQueueSize(f) > 0 THEN n ELSE 0]

NoRequest == [pc |-> "new", kind |-> "unary", gen |-> 0,
              key |-> [pool |-> 0, id |-> None], sent |-> 0, partial |-> FALSE,
              got |-> {}]

Init ==
    /\ def = Loaded(FirstFile, 1)
    /\ manager = "idle"
    /\ handles = {}
    /\ idle = [n \in 1..MaxGen |->
                   IF n = 1 /\ def.pool = 1 THEN 1..def.size ELSE {}]
    /\ graph = [k \in Keys |-> Fresh]
    /\ req = [r \in Requests |-> NoRequest]
    /\ clock = 1

\* reload: ReloadEvent keeps new requests out ...
ReloadBegins ==
    /\ manager = "idle" /\ def.gen < MaxGen
    /\ manager' = "reload"
    /\ def' = [def EXCEPT !.state = "reloading"]
    /\ UNCHANGED <<handles, idle, graph, req, clock>>

\* ... and once nobody creates an executor the queue is dropped. With it go
\* the graphs that are idle: ~GraphHelper closes the sources of each and waits
\* until it has run to its end, which takes a while if packets are left in it.
Idle(k) == k.pool > 0 /\ k.id \in idle[k.pool]
ResetQueue ==
    /\ manager \in {"reload", "retire"} /\ handles = {}
    /\ \E k \in Keys : Idle(k) /\ ~RunOut(graph[k])
    /\ manager' = IF manager = "reload" THEN "reload_drops" ELSE "retire_drops"
    /\ def' = [def EXCEPT !.pool = 0]
    /\ idle' = [n \in 1..MaxGen |-> {}]
    /\ graph' = [k \in Keys |-> [graph[k] EXCEPT !.closed = @ \/ Idle(k)]]
    /\ UNCHANGED <<handles, req, clock>>

Owned(k) == \E r \in Requests : Holds(r) /\ req[r].key = k
Dropped(k) == k.pool > 0 /\ (Idle(k) \/ graph[k].closed) /\ ~Owned(k)
GraphsDestroyed ==
    /\ \A k \in Keys : Dropped(k) => RunOut(graph[k])
    /\ graph' = [k \in Keys |-> IF Dropped(k) THEN Fresh ELSE graph[k]]

\* The file is validated; the queue of the new generation is made.
ReloadApplies ==
    /\ \/ manager = "reload" /\ handles = {}
       \/ manager = "reload_drops"
    /\ GraphsDestroyed
    /\ manager' = "idle"
    /\ \E f \in Files :
           /\ def' = Loaded(f, def.gen + 1)
           /\ idle' = [n \in 1..MaxGen |->
                           IF n = def'.pool THEN 1..def'.size ELSE {}]
    /\ UNCHANGED <<handles, req, clock>>

\* retire
RetireBegins ==
    /\ manager = "idle" /\ def.state # "retired"
    /\ manager' = "retire"
    /\ def' = [def EXCEPT !.state = "retired"]
    /\ UNCHANGED <<handles, idle, graph, req, clock>>

RetireApplies ==
    /\ \/ manager = "retire" /\ handles = {}
       \/ manager = "retire_drops"
    /\ GraphsDestroyed
    /\ manager' = "idle"
    /\ def' = [def EXCEPT !.pool = 0]
    /\ idle' = [n \in 1..MaxGen |-> {}]
    /\ UNCHANGED <<handles, req, clock>>

-----------------------------------------------------------------------------
(* create: an executor for a request *)

\* waitForLoaded counts the request first ...
TakeGuard(r) ==
    /\ req[r].pc = "new"
    /\ handles' = handles \cup {r}
    /\ req' = [req EXCEPT ![r].pc = "guarded"]
    /\ UNCHANGED <<def, manager, idle, graph, clock>>

\* ... and then looks at the state.  (The retries of a definition that loads
\* are those of PipelineDefinition.)
CheckAvailable(r) ==
    /\ req[r].pc = "guarded"
    /\ IF def.state = "available"
       THEN /\ req' = [req EXCEPT ![r].pc = "acquire"]
            /\ UNCHANGED handles
       ELSE /\ req' = [req EXCEPT ![r].pc = "ended"]
            /\ handles' = handles \ {r}
    /\ UNCHANGED <<def, manager, idle, graph, clock>>

\* A mistake: the executor keeps the unload guard.
AcquireKeepsGuard(r) ==
    /\ req[r].pc = "acquire" /\ def.pool > 0
    /\ \E id \in idle[def.pool] :
           /\ idle' = [idle EXCEPT ![def.pool] = @ \ {id}]
           /\ req' = [req EXCEPT ![r].pc = "begin", ![r].gen = def.gen,
                                 ![r].key = [pool |-> def.pool, id |-> id]]
    /\ UNCHANGED <<def, manager, handles, graph, clock>>

\* GraphIdGuard waits for an idle graph, the unload guard held.
AcquirePooled(r) ==
    /\ req[r].pc = "acquire" /\ def.pool > 0
    /\ \E id \in idle[def.pool] :
           /\ idle' = [idle EXCEPT ![def.pool] = @ \ {id}]
           /\ req' = [req EXCEPT ![r].pc = "begin", ![r].gen = def.gen,
                                 ![r].key = [pool |-> def.pool, id |-> id]]
    /\ handles' = handles \ {r}
    /\ UNCHANGED <<def, manager, graph, clock>>

\* Without a pool the executor gets no graph.
CreateUnpooled(r) ==
    /\ req[r].pc = "acquire" /\ def.pool = 0
    /\ req' = [req EXCEPT ![r].pc = "begin", ![r].gen = def.gen,
                          ![r].key = [pool |-> 0, id |-> r]]
    /\ handles' = handles \ {r}
    /\ UNCHANGED <<def, manager, idle, graph, clock>>

-----------------------------------------------------------------------------
(* infer and inferStream *)

Pooled(r) == req[r].key.pool > 0
G(r) == graph[req[r].key]

\* requestHasInputSidePackets: refused before the graph is touched.
RefuseSidePackets(r) ==
    /\ req[r].pc = "begin" /\ Pooled(r)
    /\ req' = [req EXCEPT ![r].pc = "release"]
    /\ UNCHANGED <<def, manager, handles, idle, graph, clock>>

\* A graph of one's own may fail to initialize, observe or start.
StartFails(r) ==
    /\ req[r].pc = "begin" /\ ~Pooled(r)
    /\ req' = [req EXCEPT ![r].pc = "release"]
    /\ UNCHANGED <<def, manager, handles, idle, graph, clock>>

\* initializeLlmExecutionContexts, then the observers are swapped; a graph of
\* one's own is started with them.
Begin(r) ==
    /\ req[r].pc = "begin"
    /\ \E kind \in {"unary", "stream"} :
           req' = [req EXCEPT ![r].pc = "first", ![r].kind = kind]
    /\ graph' = [graph EXCEPT ![req[r].key].obs = r, ![req[r].key].ctx = r]
    /\ UNCHANGED <<def, manager, handles, idle, clock>>

\* Time passes; at the bound messages come within one microsecond.
Later == Min({clock + 1, MaxClock})

\* A unary request: all inputs at once, or an error.
PushUnary(r) ==
    /\ req[r].pc = "first" /\ req[r].kind = "unary"
    /\ \E m \in Messages :
       LET push == CreateAndPushPackets(G(r), m, Later, r) IN
       /\ ~m.foreign
       /\ clock' = Later
       /\ graph' = [graph EXCEPT ![req[r].key] = push.g]
       /\ req' = [req EXCEPT ![r].sent = 1,
                      ![r].pc = IF push.ok /\ push.created >= Cardinality(Inputs)
                                THEN "wait" ELSE "fail"]
    /\ UNCHANGED <<def, manager, handles, idle>>

\* A message of a stream: what cannot be pushed is answered with an error and
\* the stream goes on; an error of the graph ends it after any but the first.
ValidateSubsequentRequest(m) == ~m.foreign
StreamMessage(r) ==
    /\ req[r].kind = "stream"
    /\ \/ req[r].pc = "first"
       \/ req[r].pc = "read" /\ req[r].sent < MaxMessages
    /\ \E m \in Messages :
       LET valid == req[r].pc = "first" \/ ValidateSubsequentRequest(m)
           push == CreateAndPushPackets(G(r), m, Later, r)
           after == IF valid THEN push.g ELSE G(r)
       IN
       /\ req[r].pc = "first" => ~m.foreign
       /\ clock' = IF valid THEN Later ELSE clock
       /\ graph' = [graph EXCEPT ![req[r].key] = after]
       /\ req' = [req EXCEPT ![r].sent = @ + 1,
                      ![r].partial = @ \/ /\ valid /\ Pooled(r) /\ ~push.g.err
                                          /\ push.created > 0
                                          /\ push.created < Cardinality(Inputs),
                      ![r].pc = IF @ = "read" /\ after.err THEN "wait"
                                ELSE "read"]
    /\ UNCHANGED <<def, manager, handles, idle>>

PushStream(r) == Pooled(r) /\ StreamMessage(r)
PushStreamUnpooled(r) == ~Pooled(r) /\ StreamMessage(r)

\* waitForNewRequest: the client closes its side of the stream, or is gone.
CloseStream(r) ==
    /\ req[r].pc = "read"
    /\ req' = [req EXCEPT ![r].pc = "wait"]
    /\ graph' = [graph EXCEPT ![req[r].key].closed = ~Pooled(r)]
    /\ UNCHANGED <<def, manager, handles, idle, clock>>

\* The threads of MediaPipe process a set of packets.  The calculators answer,
\* swallow it or fail; the observer serializes the answer for the client and,
\* on a stream, writes it, which fails if the client is gone: the graph fails.
Process(k, outcome) ==
    LET g == graph[k]
        now == {p \in g.pending : p.ts = NextSet(g)}
    IN
    /\ Settled(g)
    /\ graph' = [graph EXCEPT ![k].pending = @ \ now, ![k].err = outcome = "error"]
    /\ req' = IF outcome = "emit" /\ g.obs # None
              THEN [req EXCEPT ![g.obs].got = @ \cup {p.own : p \in now}]
              ELSE req
    /\ UNCHANGED <<def, manager, handles, idle, clock>>

\* WaitUntilIdle returns once nothing is left to schedule; the contexts are
\* reset and the graph is kept, whatever packets wait in it.
WaitUntilIdle(r) ==
    /\ req[r].pc = "wait" /\ Pooled(r) /\ ~Settled(G(r))
    /\ graph' = [graph EXCEPT ![req[r].key].ctx = None]
    /\ req' = [req EXCEPT ![r].pc = IF G(r).err THEN "fail" ELSE "release"]
    /\ UNCHANGED <<def, manager, handles, idle, clock>>

\* A unary request on a graph of its own polls its outputs and needs one of
\* each.
PollOutputs(r) ==
    /\ req[r].pc = "wait" /\ ~Pooled(r) /\ req[r].kind = "unary"
    /\ ~Settled(G(r))
    /\ graph' = [graph EXCEPT ![req[r].key].ctx = None]
    /\ req' = [req EXCEPT ![r].pc = IF G(r).err \/ req[r].got = {} THEN "fail"
                                    ELSE "release"]
    /\ UNCHANGED <<def, manager, handles, idle, clock>>

\* A stream on a graph of its own closes the inputs, which settles all packets,
\* and waits for the end.
WaitUntilDone(r) ==
    /\ req[r].pc = "wait" /\ ~Pooled(r) /\ req[r].kind = "stream"
    /\ ~Settled(G(r))
    /\ graph' = [graph EXCEPT ![req[r].key].ctx = None]
    /\ req' = [req EXCEPT ![r].pc = IF G(r).err THEN "fail" ELSE "release"]
    /\ UNCHANGED <<def, manager, handles, idle, clock>>

\* A mistake: the failed graph goes back to the pool as it is.
ReinitSkipped(r) ==
    /\ req[r].pc = "fail"
    /\ graph' = [graph EXCEPT ![req[r].key].ctx = None]
    /\ req' = [req EXCEPT ![r].pc = "release"]
    /\ UNCHANGED <<def, manager, handles, idle, clock>>

\* The sources of a graph are closed, which runs out what is still in it: by
\* GraphReinitGuard when the request failed, by ~GraphHelper when the request
\* has the last reference to a graph of a queue that is gone.
CloseAllPacketSources(r) ==
    /\ Pooled(r) /\ ~G(r).closed /\ ~RunOut(G(r))
    /\ \/ req[r].pc = "fail"
       \/ req[r].pc = "release" /\ def.pool # req[r].key.pool
    /\ graph' = [graph EXCEPT ![req[r].key].closed = TRUE]
    /\ UNCHANGED <<def, manager, handles, idle, req, clock>>

\* Then a failed graph is started anew, the observers and contexts reset.
Reinitialize(r) ==
    /\ req[r].pc = "fail"
    /\ Pooled(r) => RunOut(G(r))
    /\ \E fresh \in IF Pooled(r) THEN {Fresh, Broken} ELSE {Fresh} :
           graph' = [graph EXCEPT ![req[r].key] = fresh]
    /\ req' = [req EXCEPT ![r].pc = "release"]
    /\ UNCHANGED <<def, manager, handles, idle, clock>>

\* The executor is gone, and with it a graph that no queue owns.
Ended(r) == [req EXCEPT ![r].pc = "ended", ![r].sent = 0,
                        ![r].key = NoRequest.key, ![r].gen = 0]
Freed(r) == IF Pooled(r) /\ def.pool = req[r].key.pool THEN graph
            ELSE [graph EXCEPT ![req[r].key] = Fresh]

\* A mistake: an id is returned to whatever queue there is now.
ReleaseToAnyQueue(r) ==
    /\ req[r].pc = "release"
    /\ idle' = IF Pooled(r) /\ def.pool > 0
               THEN [idle EXCEPT ![def.pool] = @ \cup {req[r].key.id}] ELSE idle
    /\ req' = Ended(r) /\ graph' = Freed(r)
    /\ UNCHANGED <<def, manager, handles, clock>>

\* ~GraphIdGuard: back to its queue, if that still lives.
Release(r) ==
    /\ req[r].pc = "release"
    /\ Pooled(r) /\ def.pool # req[r].key.pool => RunOut(G(r))
    /\ idle' = IF Pooled(r) /\ def.pool = req[r].key.pool
               THEN [idle EXCEPT ![def.pool] = @ \cup {req[r].key.id}] ELSE idle
    /\ req' = Ended(r) /\ graph' = Freed(r)
    /\ UNCHANGED <<def, manager, handles, clock>>

ManagerGoesOn == ResetQueue \/ ReloadApplies \/ RetireApplies
Manager == ReloadBegins \/ RetireBegins \/ ManagerGoesOn

RequestGoesOn(r) ==
    \/ CheckAvailable(r) \/ AcquirePooled(r) \/ CreateUnpooled(r)
    \/ Begin(r) \/ PushUnary(r) \/ PushStream(r) \/ PushStreamUnpooled(r)
    \/ CloseStream(r) \/ WaitUntilIdle(r) \/ PollOutputs(r) \/ WaitUntilDone(r)
    \/ CloseAllPacketSources(r) \/ Reinitialize(r) \/ Release(r)

RequestStep(r) ==
    \/ TakeGuard(r) \/ RefuseSidePackets(r) \/ StartFails(r)
    \/ RequestGoesOn(r)

GraphStep == \E k \in Keys, outcome \in {"emit", "swallow", "error"} :
                 Process(k, outcome)

Next == Manager \/ (\E r \in Requests : RequestStep(r)) \/ GraphStep

Spec == Init /\ [][Next]_vars

\* The threads of the server and of MediaPipe run, and a client ends its
\* stream at last.
FairSpec ==
    /\ Spec
    /\ WF_vars(ManagerGoesOn) /\ WF_vars(GraphStep)
    /\ \A r \in Requests : WF_vars(RequestGoesOn(r))

-----------------------------------------------------------------------------
(* Properties *)

TypeOK ==
    /\ def.state \in {"available", "failed", "reloading", "retired"}
    /\ def.pool \in 0..MaxGen /\ def.gen \in 1..MaxGen
    /\ manager \in {"idle", "reload", "retire", "reload_drops", "retire_drops"}
    /\ handles \subseteq Requests
    /\ \A k \in Keys : /\ {graph[k].obs, graph[k].ctx} \subseteq Requests \cup {None}
                       /\ \A p \in graph[k].pending : p.ts \in 1..MaxClock + 1
    /\ \A r \in Requests : req[r].got \subseteq Requests
    /\ clock \in 1..MaxClock

\* Every graph of the living queue is idle or in the hands of one request, and
\* the ids of a replaced queue never enter another one (graphqueue.hpp:124).
PoolConserved ==
    /\ \A r, q \in Requests :
           (r # q /\ Holds(r) /\ Holds(q)) => req[r].key # req[q].key
    /\ \A n \in 1..MaxGen :
           IF n # def.pool THEN idle[n] = {}
           ELSE /\ idle[n] \cap {req[r].key.id : r \in
                       {q \in Requests : Holds(q) /\ req[q].key.pool = n}} = {}
                /\ idle[n] \cup {req[r].key.id : r \in
                       {q \in Requests : Holds(q) /\ req[q].key.pool = n}}
                   = 1..def.size

\* The observers of a request, which refer to its response, its stream and a
\* mutex on its stack, are called while it runs: a graph with work to do
\* belongs to a running request (mediapipegraphexecutor.hpp:382). Except at the
\* end of a graph whose queue is gone, which has no other work than the packets
\* of streams that ended with inputs missing.
LeftByStreams(g) ==
    \A p \in g.pending : req[p.own].kind = "stream" /\ req[p.own].partial
CallbacksWithinRequest ==
    \A k \in Keys : Settled(graph[k]) =>
        \/ \E r \in Requests : Running(r) /\ req[r].key = k /\ graph[k].obs = r
        \/ /\ k.pool > 0 /\ k.pool # def.pool /\ graph[k].closed
           /\ LeftByStreams(graph[k])

\* A graph waits for its next request without a context of the last one, and
\* with packets only if a stream ended with inputs missing: they stay in the
\* pooled graph, and are the only way in which a request may get an answer to
\* packets of another one (mediapipegraphexecutor.hpp:440).
AnswersAreOwn ==
    /\ \A n \in 1..MaxGen, id \in PoolIds :
           id \in idle[n] =>
               LET g == graph[[pool |-> n, id |-> id]] IN
               g.ctx = None /\ LeftByStreams(g)
    /\ \A r \in Requests : \A q \in req[r].got :
           q # r => req[q].kind = "stream" /\ req[q].partial

\* A request runs on a graph of the definition it was created from, and a pool
\* serves no graph whose nodes keep per-request state that is not swapped
\* (mediapipegraphdefinition.cpp:476, :145).
GraphOfOwnConfig ==
    /\ \A r \in Requests : Holds(r) /\ Pooled(r) => req[r].key.pool = req[r].gen
    /\ def.pool > 0 => /\ def.gen = def.pool
                       /\ ~def.file.loopback /\ ~def.file.contextless

\* Reload and retire end although requests that wait for a graph of the pool
\* hold the definition (mediapipegraphdefinition.cpp:479).
ChangeCompletes == (manager # "idle") ~> (manager = "idle")

\* Graphs of a pool are neither shared nor lost nor of another definition.
PoolSafety == TypeOK /\ PoolConserved /\ GraphOfOwnConfig

\* What a request leaves in a pooled graph reaches nobody.
RequestsIsolated == CallbacksWithinRequest /\ AnswersAreOwn
=============================================================================

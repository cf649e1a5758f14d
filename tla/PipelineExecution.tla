-------------------------- MODULE PipelineExecution --------------------------
(* One execution of a DAG pipeline: the event loop of Pipeline::execute      *)
(* (pipeline.cpp), the sessions of its nodes, and the threads that complete  *)
(* inferences and compete for the streams of the models.                     *)
(*                                                                           *)
(* The loop runs on one thread.  Its steps are split where another thread    *)
(* matters: before each pull, each execution of a session and each disarm.   *)
(* A stream queue enters as the pool it implements (StreamPool): free        *)
(* streams and a FIFO of promises.  What can fail at run time fails by       *)
(* choice, for nodes in Faulty.                                              *)
(*                                                                           *)
(* The pipelines are those PipelineValidation lets pass.  Of a tensor the    *)
(* sizes of its dimensions are kept, and the session it comes from.          *)
EXTENDS NodeSessions, PipelineValidation, TLC

CONSTANTS
    Configs,         \* configurations of pipelines
    Models,          \* models of the DL nodes
    Contended,       \* models that the other client uses
    Faulty,          \* nodes whose work may fail
    Streams,         \* streams of each model
    Other            \* a client of the models outside of the pipeline

ASSUME ContendedAssumption == Contended \subseteq Models
ASSUME StreamsAssumption == Streams \in Nat \ {0}

VARIABLES
    graph,           \* the pipeline, see Created
    request,         \* sizes of the tensors of the request
    pc,              \* where the event loop is
    firstError,      \* firstErrorStatus is an error
    events,          \* finishedNodeQueue
    sessions,        \* nodeSessions of all nodes, by <<node, key>>
    started,         \* startedSessions
    finished,        \* finishedSessions
    feeding,         \* results of the pulled node still to be passed on
    todo,            \* next nodes of the pulled one, with their ready sessions
    deferred,        \* deferredNodeSessions
    newlyDeferred,   \* tmpDeferredNodeSessions
    it,              \* position in deferredNodeSessions
    requests,        \* infer requests of sessions: running, pushed, idle
    pools            \* stream queue of each model

loop == <<pc, firstError, started, finished, todo, deferred, newlyDeferred, it>>
pipeline == <<graph, request>>
vars == <<pipeline, feeding, loop, events, sessions, requests, pools>>

Nodes == DOMAIN graph.node
NodeOf(s) == s[1]
Kind(s) == graph.node[s[1]].kind
Gather(n) == graph.node[n].gather
Model(s) == graph.node[s[1]].model
Previous(n) == {m \in Nodes : n \in ToSet(graph.next[m])}
MayFail(s) == NodeOf(s) \in Faulty

Mapping(from, n) == {c \in graph.connections : c.from = from /\ c.to = n}
MapsInto(from, n) == {c.input : c \in Mapping(from, n)}

\* PipelineDefinition::create: the nodes, connected in any order.
Created(def) ==
    LET names == NodeNames(def)
        Dependants(n) == {c.to : c \in {c \in def.connections : c.from = n}}
    IN  {[node |-> [n \in names |-> FindNode(def, n)],
          connections |-> def.connections,
          next |-> next,
          inputsInfo |-> InputsInfo(def),
          outputsInfo |-> OutputsInfo(def),
          static |-> Static(def) /\ ~ LetThrough(def)] :
            next \in {f \in [names -> UNION {SetToSeqs(Dependants(n)) : n \in names}] :
                         \A n \in names : f[n] \in SetToSeqs(Dependants(n))}}

-----------------------------------------------------------------------------
(* Streams *)

\* getIdleStream: a future that has a stream at once or in its turn.
PoolGet(pool, c) ==
    IF Cardinality(pool.granted) < Streams
    THEN [pool EXCEPT !.granted = @ \cup {c}]
    ELSE [pool EXCEPT !.waiting = Append(@, c)]

\* returnStream hands the stream to the oldest promise.
PoolReturn(pool, c) ==
    IF pool.waiting = <<>>
    THEN [pool EXCEPT !.granted = @ \ {c}]
    ELSE [pool EXCEPT !.granted = (@ \ {c}) \cup {Head(pool.waiting)},
                      !.waiting = Tail(@)]

PoolOf(s) == pools[Model(s)]

-----------------------------------------------------------------------------
(* Sessions.  guard: "none", "armed" (the future was not used), "owned" (the *)
(* stream id is known), "disarmed".                                          *)

NewSession(n, meta) ==
    [meta |-> Outer(meta, Gather(n)),
     remaining |-> Cardinality(Previous(n)) * ShardsCount(meta, Gather(n)),
     used |-> FALSE, shards |-> {}, guard |-> "none"]

SessionOf(n, meta) == <<n, SessionKey(meta, Gather(n))>>

\* NodeInputHandler takes one tensor per input and no shards.
TakesInput(session, shard) ==
    /\ shard.id = 0
    /\ \A x \in session.shards : DOMAIN x.sizes \cap DOMAIN shard.sizes = {}

\* GatherNodeInputHandler takes every shard of an input once.
TakesShard(session, shard) ==
    \A x \in session.shards :
        x.id = shard.id => DOMAIN x.sizes \cap DOMAIN shard.sizes = {}

\* Of two data items for one input the second is refused.
Takes(from, n, session, shard) ==
    /\ Cardinality(MapsInto(from, n)) = Cardinality(Mapping(from, n))
    /\ IF Gather(n) = {} THEN TakesInput(session, shard)
       ELSE TakesShard(session, shard)

NotifyFinishedDependency(session) == [session EXCEPT !.remaining = @ - 1]

GetSession(map, n, meta) ==
    LET s == SessionOf(n, meta)
    IN  IF s \in DOMAIN map THEN map[s] ELSE NewSession(n, meta)

\* A result: the metadata of a session and the sizes of its tensors.
ShardOf(from, n, result) ==
    [from |-> from, id |-> ShardId(result.meta, Gather(n)), meta |-> result.meta,
     sizes |-> [x \in MapsInto(from, n) |->
        result.sizes[(CHOOSE c \in Mapping(from, n) : c.input = x).data]]]

\* setInputs for one result of node from: what the handler refuses fails.
SetInputsOK(map, from, n, result) ==
    /\ Lifo(result.meta, Gather(n))
    /\ Takes(from, n, GetSession(map, n, result.meta), ShardOf(from, n, result))

SetInputs(map, from, n, result) ==
    LET session == GetSession(map, n, result.meta)
    IN  (SessionOf(n, result.meta) :>
            NotifyFinishedDependency([session EXCEPT
                !.shards = @ \cup {ShardOf(from, n, result)}])) @@ map

\* setInputs that fails before it notifies: at most there is a new session.
SetInputsFails(map, n, meta) ==
    IF Lifo(meta, Gather(n))
    THEN (SessionOf(n, meta) :> GetSession(map, n, meta)) @@ map
    ELSE map

\* The last notification of a gathering session puts its shards together.
Consolidates(session) ==
    session.remaining = 0 =>
        \A x, y \in session.shards : x.from = y.from => x.sizes = y.sizes

InputNames(session) == UNION {DOMAIN x.sizes : x \in session.shards}

\* The sizes of an input: those of the collapsed levels, and of a shard.
InputSizes(n, session, input) ==
    LET shard == CHOOSE x \in session.shards : input \in DOMAIN x.sizes
        levels == Inner(shard.meta, Gather(n))
    IN  [i \in DOMAIN levels |-> levels[i].size] \o shard.sizes[input]

IsReady(session) == session.remaining = 0 /\ ~ session.used

ReadySessions(map, n) ==
    {s \in DOMAIN map : NodeOf(s) = n /\ IsReady(map[s])}

\* The destructor of a guard that is not disarmed returns its stream (and
\* waits for it first).
GuardReturns(pool, s) ==
    IF sessions[s].guard \in {"armed", "owned"} THEN PoolReturn(pool, s)
    ELSE pool

\* release drops the guard of a DL session; other sessions have nothing.
ReleasedPools(s) ==
    IF Kind(s) = "dl"
    THEN [pools EXCEPT ![Model(s)] = GuardReturns(@, s)]
    ELSE pools

-----------------------------------------------------------------------------
(* Executing one session.  status is "OK", "NOT_READY" or "ERROR".           *)

Finishes(s) == events' = Append(events, s)

\* Entry and exit nodes only announce themselves.
ExecuteEntryOrExit(s, status) ==
    /\ Kind(s) \in {"entry", "exit"} /\ status = "OK"
    /\ Finishes(s)
    /\ UNCHANGED <<sessions, requests, pools>>

\* A custom node runs its library on the loop's thread: a return code, no or
\* too few outputs, an output without a name or one that is no tensor fail.
ExecuteCustom(s, status) ==
    /\ Kind(s) = "custom"
    /\ status \in (IF MayFail(s) THEN {"OK", "ERROR"} ELSE {"OK"})
    /\ sessions' = [sessions EXCEPT ![s].used = TRUE]
    /\ Finishes(s)
    /\ UNCHANGED <<requests, pools>>

\* DLNodeSession::validate: the inputs are what the model expects.
InputsFit(s) ==
    LET inputs == graph.node[NodeOf(s)].servable.inputs
    IN  \A x \in InputNames(sessions[s]) :
            x \in DOMAIN inputs /\
                Match(inputs[x].shape, InputSizes(NodeOf(s), sessions[s], x))

\* requestExecuteRequiredResources fails: the model is not there, or it
\* refuses an input (by then the inputs count as used).
ExecuteNoResources(s, status) ==
    /\ Kind(s) = "dl" /\ sessions[s].guard = "none"
    /\ status = "ERROR"
    /\ \E refused \in BOOLEAN :
           /\ MayFail(s) \/ (refused /\ ~ InputsFit(s))
           /\ sessions' = [sessions EXCEPT ![s].used = @ \/ refused]
    /\ Finishes(s)
    /\ UNCHANGED <<requests, pools>>

\* The guard of a session asks for a stream when it is made.
Armed(s) ==
    IF sessions[s].guard = "none"
    THEN PoolGet(pools[Model(s)], s)
    ELSE pools[Model(s)]

\* tryGetId: the id is known, or the future has it by now.
HasId(s) == sessions[s].guard = "owned" \/ s \in Armed(s).granted

\* Inputs are set and the inference is started; both may throw.
Infer(s, status) ==
    \/ /\ status = "OK"
       /\ requests' = (s :> "running") @@ requests
       /\ UNCHANGED events
    \/ /\ status = "ERROR" /\ MayFail(s)
       /\ Finishes(s)
       /\ UNCHANGED requests

ExecuteDL(s, status) ==
    /\ Kind(s) = "dl"
    /\ sessions[s].guard = "none" => InputsFit(s)
    /\ pools' = [pools EXCEPT ![Model(s)] = Armed(s)]
    /\ sessions' = [sessions EXCEPT ![s].used = TRUE,
                                    ![s].guard = IF HasId(s) THEN "owned"
                                                 ELSE "armed"]
    /\ IF HasId(s) THEN Infer(s, status)
       ELSE status = "NOT_READY" /\ UNCHANGED <<events, requests>>

Execute(s, status) ==
    \/ ExecuteEntryOrExit(s, status)
    \/ ExecuteCustom(s, status)
    \/ ExecuteNoResources(s, status)
    \/ ExecuteDL(s, status)

-----------------------------------------------------------------------------
(* The event loop *)

EntrySession == <<ENTRY, <<>>>>

\* A request that fits, or one with scalars.
Sizes(info) ==
    FoldLeft(LAMBDA found, dim : {Append(sizes, n) : sizes \in found, n \in dim},
             {<<>>}, info.shape)

Tensors(infos) ==
    {sizes \in [DOMAIN infos -> UNION {Sizes(infos[x]) : x \in DOMAIN infos}] :
        \A x \in DOMAIN infos : sizes[x] \in Sizes(infos[x])}

Requests(inputsInfo) ==
    Tensors(inputsInfo) \cup {[x \in DOMAIN inputsInfo |-> <<>>]}

Init ==
    /\ \E config \in Configs :
           LET def == Parsed(config)
           IN  Validate(def) /\ graph \in Created(def)
    /\ request \in Requests(graph.inputsInfo)
    /\ pc = "pull"
    /\ firstError = FALSE
    /\ sessions = EntrySession :>
           [meta |-> <<>>, remaining |-> 0, used |-> FALSE, shards |-> {},
            guard |-> "none"]
    /\ events = <<EntrySession>>
    /\ started = {EntrySession}
    /\ finished = {}
    /\ feeding = [from |-> ENTRY, rest |-> <<>>]
    /\ todo = <<>> /\ deferred = <<>> /\ newlyDeferred = <<>> /\ it = 1
    /\ requests = <<>>
    /\ pools = [m \in Models |-> [granted |-> {}, waiting |-> <<>>]]

\* A mistake: an error ends the loop although sessions are running.
BreakAtError(done) ==
    pc' = IF started = done \/ firstError THEN "done" ELSE "pull"

BreakIfAllFinished(done) == pc' = IF started = done THEN "done" ELSE "pull"

\* After an error a finished session is only released.
PullAfterError ==
    LET s == Head(events)
    IN  /\ pc = "pull" /\ events # <<>> /\ firstError
        /\ events' = Tail(events)
        /\ finished' = finished \cup {s}
        /\ pools' = ReleasedPools(s)
        /\ sessions' = [sessions EXCEPT ![s].guard = "none"]
        /\ BreakIfAllFinished(finished')
        /\ UNCHANGED <<pipeline, feeding, firstError, started, todo, deferred,
                       newlyDeferred, it, requests>>

\* A DL session waits for its request, and so for the end of its callback,
\* and is released whether its outputs can be copied or not.
FetchDL(s) ==
    /\ Kind(s) = "dl"
    /\ s \in DOMAIN requests => requests[s] = "idle"
    /\ pools' = ReleasedPools(s)

\* Custom nodes, the entry and the exit have nothing to release.
FetchOther(s) == Kind(s) # "dl" /\ UNCHANGED pools

\* EntryNode::validate: a pipeline has no optional inputs, and a tensor of no
\* known precision is never accepted.
RequestAccepted ==
    \A x \in DOMAIN graph.inputsInfo :
        /\ graph.inputsInfo[x].precision # "UNDEFINED"
        /\ Match(graph.inputsInfo[x].shape, request[x])

\* What a session can yield, by data item that a next node takes.
Yields(s) ==
    LET n == graph.node[NodeOf(s)]
        taken == {c.data : c \in {c \in graph.connections : c.from = NodeOf(s)}}
    IN  IF n.kind = "entry" THEN {request}
        ELSE Tensors([x \in taken |-> n.servable.outputs[n.outputs[x]]])

\* demultiplyOutputs: three dimensions, as many shards as configured, not none.
CanSplit(n, sizes) ==
    LET count == graph.node[n].demultiply
    IN  count # None =>
            \A x \in DOMAIN sizes :
                /\ Len(sizes[x]) >= 3
                /\ count # Dynamic => sizes[x][1] = count
                /\ sizes[x][1] > 0

\* fetchResults and demultiplyOutputs; what OpenVINO, a library or the
\* serialization of the response may not have is a choice.
FetchResults(s, sizes, ok) ==
    IF ok THEN (Kind(s) = "entry" => RequestAccepted) /\ CanSplit(NodeOf(s), sizes)
    ELSE \/ MayFail(s)
         \/ Kind(s) = "entry" /\ ~ RequestAccepted
         \/ ~ CanSplit(NodeOf(s), sizes)

\* Node::fetchResults erases the session in every case.
Without(s) == [t \in DOMAIN sessions \ {s} |-> sessions[t]]

Fetched(s, sizes, ok) ==
    /\ pc = "pull" /\ events # <<>> /\ ~ firstError
    /\ s = Head(events)
    /\ FetchDL(s) \/ FetchOther(s)
    /\ FetchResults(s, sizes, ok)
    /\ events' = Tail(events)
    /\ finished' = finished \cup {s}
    /\ sessions' = Without(s)
    /\ UNCHANGED <<pipeline, started, todo, deferred, newlyDeferred, it, requests>>

PullFetchFails(s) ==
    /\ \E sizes \in Yields(s) : Fetched(s, sizes, FALSE)
    /\ firstError' = TRUE
    /\ BreakIfAllFinished(finished')
    /\ UNCHANGED feeding

\* The results of a session: one, or one per shard of a demultiplexer.
Results(s, sizes) ==
    LET n == NodeOf(s)
        meta == sessions[s].meta
        shards == sizes[CHOOSE x \in DOMAIN sizes : TRUE][1]
    IN  IF graph.node[n].demultiply = None
        THEN <<[meta |-> meta, sizes |-> sizes]>>
        ELSE [k \in 1..shards |->
                [meta |-> GenerateSubsessions(meta, n, shards)[k],
                 sizes |-> [x \in DOMAIN sizes |-> Tail(sizes[x])]]]

\* setInputs of each next node goes through all the results.
PullFeedsNext(s) ==
    /\ \E sizes \in Yields(s) :
           /\ Fetched(s, sizes, TRUE)
           /\ LET results == Results(s, sizes)
                  next == graph.next[NodeOf(s)]
                  To(n) == [k \in DOMAIN results |-> [to |-> n, result |-> results[k]]]
              IN  feeding' = [from |-> NodeOf(s),
                              rest |-> FlattenSeq([i \in DOMAIN next |-> To(next[i])])]
    /\ pc' = "feed"
    /\ UNCHANGED firstError

FeedNext ==
    /\ pc = "feed" /\ feeding.rest # <<>>
    /\ LET n == Head(feeding.rest).to
           result == Head(feeding.rest).result
           fed == SetInputs(sessions, feeding.from, n, result)
           session == fed[SessionOf(n, result.meta)]
           taken == SetInputsOK(sessions, feeding.from, n, result)
       IN  \/ /\ taken /\ Consolidates(session)
              /\ sessions' = fed
              /\ feeding' = [feeding EXCEPT !.rest = Tail(@)]
              /\ UNCHANGED firstError
           \/ \* the handler refuses the result, or an output is missing
              /\ n \in Faulty \/ ~ taken
              /\ sessions' = SetInputsFails(sessions, n, result.meta)
              /\ feeding' = [feeding EXCEPT !.rest = <<>>]
              /\ firstError' = TRUE
           \/ \* shards differ, which shows with the last notification only
              /\ taken /\ Gather(n) # {} /\ session.remaining = 0
              /\ n \in Faulty \/ ~ Consolidates(session)
              /\ sessions' = fed
              /\ feeding' = [feeding EXCEPT !.rest = <<>>]
              /\ firstError' = TRUE
    /\ UNCHANGED <<pipeline, pc, started, finished, todo, deferred, newlyDeferred,
                   it, events, requests, pools>>

\* The next nodes with the sessions that are ready.
FeedsDone ==
    /\ pc = "feed" /\ feeding.rest = <<>>
    /\ LET next == graph.next[feeding.from]
       IN  todo' = [k \in DOMAIN next |->
                       [node |-> next[k], ready |-> ReadySessions(sessions, next[k])]]
    /\ pc' = "start"
    /\ UNCHANGED <<pipeline, feeding, firstError, started, finished, deferred,
                   newlyDeferred, it, events, sessions, requests, pools>>

\* One ready session of the next nodes.  An error ends the inner loop only:
\* the following next nodes still start a session each.
StartReady ==
    /\ pc = "start" /\ todo # <<>> /\ Head(todo).ready # {}
    /\ \E s \in Head(todo).ready, status \in {"OK", "NOT_READY", "ERROR"} :
        /\ Execute(s, status)
        /\ started' = started \cup {s}
        /\ newlyDeferred' = IF status = "NOT_READY" THEN Append(newlyDeferred, s)
                            ELSE newlyDeferred
        /\ firstError' = (firstError \/ status = "ERROR")
        /\ todo' = [todo EXCEPT ![1].ready =
                        IF firstError' THEN {} ELSE @ \ {s}]
    /\ UNCHANGED <<pipeline, feeding, pc, finished, deferred, it>>

StartNextNode ==
    /\ pc = "start" /\ todo # <<>> /\ Head(todo).ready = {}
    /\ todo' = Tail(todo)
    /\ UNCHANGED <<pipeline, feeding, pc, firstError, started, finished, deferred,
                   newlyDeferred, it, events, sessions, requests, pools>>

StartsDone ==
    /\ pc = "start" /\ todo = <<>>
    /\ pc' = "deferred" /\ it' = 1
    /\ UNCHANGED <<pipeline, feeding, firstError, started, finished, todo, deferred,
                   newlyDeferred, events, sessions, requests, pools>>

\* A deferred session is tried again; it leaves the list only when it runs.
TryDeferred ==
    /\ pc = "retry" \/ (pc = "deferred" /\ events = <<>>)
    /\ it <= Len(deferred)
    /\ \E status \in {"OK", "NOT_READY", "ERROR"} :
        /\ Execute(deferred[it], status)
        /\ deferred' = IF status = "OK" THEN RemoveAt(deferred, it) ELSE deferred
        /\ it' = IF status = "OK" THEN it ELSE it + 1
        /\ firstError' = (firstError \/ status = "ERROR")
    /\ UNCHANGED <<pipeline, feeding, pc, started, finished, todo, newlyDeferred>>

MergeDeferred ==
    /\ pc = "deferred"
    /\ it > Len(deferred) \/ events # <<>>
    /\ deferred' = deferred \o newlyDeferred
    /\ newlyDeferred' = <<>>
    /\ BreakIfAllFinished(finished)
    /\ UNCHANGED <<pipeline, feeding, firstError, started, finished, todo, it, events,
                   sessions, requests, pools>>

\* tryPull times out.
PullTimesOut ==
    /\ pc = "pull" /\ events = <<>>
    /\ pc' = IF firstError THEN "disarm" ELSE "retry"
    /\ it' = 1
    /\ UNCHANGED <<pipeline, feeding, firstError, started, finished, todo, deferred,
                   newlyDeferred, events, sessions, requests, pools>>

RetryDone ==
    /\ pc = "retry" /\ it > Len(deferred)
    /\ pc' = "pull"
    /\ UNCHANGED <<pipeline, feeding, firstError, started, finished, todo, deferred,
                   newlyDeferred, it, events, sessions, requests, pools>>

\* A mistake: a disarmed session is not counted as finished.
DisarmUncounted ==
    /\ pc = "disarm" /\ it <= Len(deferred)
    /\ LET s == deferred[it]
           ready == s \in PoolOf(s).granted
       IN  /\ pools' = IF ready THEN ReleasedPools(s) ELSE pools
           /\ deferred' = IF ready THEN RemoveAt(deferred, it) ELSE deferred
           /\ it' = IF ready THEN it ELSE it + 1
           /\ sessions' = [sessions EXCEPT ![s].guard =
                               IF ready THEN "disarmed" ELSE @]
    /\ UNCHANGED <<pipeline, feeding, pc, firstError, started, finished, todo,
                   newlyDeferred, events, requests>>

\* tryDisarm: a future that was used already throws.
Disarm ==
    /\ pc = "disarm" /\ it <= Len(deferred)
    /\ LET s == deferred[it]
           guard == IF Kind(s) = "dl" THEN sessions[s].guard ELSE "none"
           ready == s \in PoolOf(s).granted
       IN  \/ /\ guard = "owned"
              /\ pc' = "thrown"
              /\ UNCHANGED <<finished, deferred, it, sessions, pools>>
           \/ /\ guard = "none" \/ (guard = "armed" /\ ready)
              /\ pools' = ReleasedPools(s)
              /\ sessions' = [sessions EXCEPT ![s].guard =
                                  IF guard = "none" THEN "none" ELSE "disarmed"]
              /\ finished' = finished \cup {s}
              /\ deferred' = RemoveAt(deferred, it)
              /\ UNCHANGED <<pc, it>>
           \/ /\ guard = "armed" /\ ~ ready
              /\ it' = it + 1
              /\ UNCHANGED <<pc, finished, deferred, sessions, pools>>
    /\ UNCHANGED <<pipeline, feeding, firstError, started, todo, newlyDeferred, events,
                   requests>>

DisarmDone ==
    /\ pc = "disarm" /\ it > Len(deferred)
    /\ IF deferred # <<>> THEN pc' = "pull" ELSE BreakIfAllFinished(finished)
    /\ UNCHANGED <<pipeline, feeding, firstError, started, finished, todo, deferred,
                   newlyDeferred, it, events, sessions, requests, pools>>

-----------------------------------------------------------------------------
(* Other threads *)

\* The completion callback announces the session, then resets itself.
CallbackPushes(s) ==
    /\ requests[s] = "running"
    /\ requests' = [requests EXCEPT ![s] = "pushed"]
    /\ Finishes(s)
    /\ UNCHANGED <<pipeline, feeding, loop, sessions, pools>>

CallbackResets(s) ==
    /\ requests[s] = "pushed"
    /\ requests' = [requests EXCEPT ![s] = "idle"]
    /\ UNCHANGED <<pipeline, feeding, loop, events, sessions, pools>>

\* Another request of a model of the pipeline.
OtherAsks(m) ==
    /\ m \in Contended
    /\ \E n \in Nodes : graph.node[n].kind = "dl" /\ graph.node[n].model = m
    /\ Other \notin pools[m].granted \cup ToSet(pools[m].waiting)
    /\ pools' = [pools EXCEPT ![m] = PoolGet(@, Other)]
    /\ UNCHANGED <<pipeline, feeding, loop, events, sessions, requests>>

OtherReturns(m) ==
    /\ Other \in pools[m].granted
    /\ pools' = [pools EXCEPT ![m] = PoolReturn(@, Other)]
    /\ UNCHANGED <<pipeline, feeding, loop, events, sessions, requests>>

LoopStep ==
    \/ PullAfterError
    \/ \E s \in DOMAIN sessions :
           PullFetchFails(s) \/ PullFeedsNext(s)
    \/ FeedNext \/ FeedsDone
    \/ StartReady \/ StartNextNode \/ StartsDone
    \/ TryDeferred \/ MergeDeferred
    \/ PullTimesOut \/ RetryDone
    \/ Disarm \/ DisarmDone

CallbackStep(s) == CallbackPushes(s) \/ CallbackResets(s)

OtherStep == \E m \in Models : OtherAsks(m) \/ OtherReturns(m)

\* execute has returned and its callers have gone.
Over == pc = "done" /\ UNCHANGED vars

Next ==
    \/ LoopStep
    \/ \E s \in DOMAIN requests : CallbackStep(s)
    \/ OtherStep
    \/ Over

Spec == Init /\ [][Next]_vars

\* The loop polls; inferences end; other requests end and return streams.
FairSpec ==
    /\ Spec
    /\ WF_vars(LoopStep)
    /\ WF_vars(\E s \in DOMAIN requests : CallbackStep(s))
    /\ \A m \in Models : WF_vars(OtherReturns(m))

-----------------------------------------------------------------------------
(* Properties *)

TypeOK ==
    /\ pc \in {"pull", "feed", "start", "deferred", "retry", "disarm", "done", "thrown"}
    /\ firstError \in BOOLEAN
    /\ ToSet(events) \subseteq started
    /\ \A s \in DOMAIN sessions :
           /\ NodeOf(s) \in Nodes
           /\ sessions[s].remaining \in Nat
           /\ sessions[s].guard \in {"none", "armed", "owned", "disarmed"}
    /\ finished \subseteq started
    /\ ToSet(deferred) \cup ToSet(newlyDeferred) \subseteq started
    /\ DOMAIN requests \subseteq started
    /\ \A m \in Models : Cardinality(pools[m].granted) <= Streams

\* When Pipeline::execute returns, with or without an error, no inference is
\* running whose callback would push into the queue on its stack, and no
\* session has or waits for a stream: the destructors of its guards neither
\* block the request thread nor return a stream late.
NothingLeftBehind ==
    pc = "done" =>
        /\ \A s \in DOMAIN requests : requests[s] # "running"
        /\ \A m \in Models :
               pools[m].granted \cup ToSet(pools[m].waiting) \subseteq {Other}

\* A session that counts as ready has every input: one result of each
\* previous node, or in a gather node every shard of each, once and at its
\* row-major place, in whatever order the sessions ended.
InputsAreWhole ==
    \A s \in DOMAIN sessions :
        sessions[s].remaining = 0 =>
            \A m \in Previous(NodeOf(s)) :
                LET shards == {x \in sessions[s].shards : x.from = m}
                IN  /\ {x.id : x \in shards} = 0..(Cardinality(shards) - 1)
                    /\ \A x \in shards :
                          /\ x.id = RowMajorRank(x.meta, Gather(NodeOf(s)))
                          /\ Cardinality(shards) =
                                ShardsCount(x.meta, Gather(NodeOf(s)))

\* Every session ends once: the loop compares the numbers of started and
\* finished sessions, so an event announced twice or after the session was
\* disarmed would end it early.
EndsOnce ==
    /\ \A i, j \in DOMAIN events : events[i] = events[j] => i = j
    /\ ToSet(events) \cap finished = {}

\* OK is returned only when the exit node was reached and every session that
\* any node ever had was run and its results taken.
OkMeansComplete ==
    pc = "done" /\ ~ firstError =>
        /\ DOMAIN sessions = {}
        /\ \E s \in finished : Kind(s) = "exit"

\* tryDisarm is never called on a future whose stream id was taken already,
\* which would throw out of Pipeline::execute.
DisarmsUnused == pc # "thrown"

\* Every execution returns, whatever fails and however other requests use the
\* models.
ExecutionEnds == <>(pc = "done")

\* The tensors a session starts with are those its servable declared, and
\* the response is what the pipeline announced.
TensorsAsDeclared ==
    \A s \in DOMAIN sessions :
        LET n == NodeOf(s)
            infos == IF Kind(s) = "exit" THEN graph.outputsInfo
                     ELSE graph.node[n].servable.inputs
        IN  sessions[s].remaining = 0 /\ Consolidates(sessions[s]) =>
                \A x \in InputNames(sessions[s]) :
                    /\ x \in DOMAIN infos
                    /\ (graph.static \/ Kind(s) = "exit") /\ infos[x].precision # "UNDEFINED" =>
                           Match(infos[x].shape, InputSizes(n, sessions[s], x))

\* Validation is sound: a pipeline it lets through, with sizes it could check,
\* executes every request of the announced sizes, unless a model, a library
\* or the response fails; no path, level or shape turns out wrong on the way.
ValidatedExecutes ==
    pc = "done" /\ graph.static /\ RequestAccepted /\ Nodes \cap Faulty = {} =>
        ~ firstError

ValidatedPipelinesWork == TensorsAsDeclared /\ ValidatedExecutes

\* Sessions are started, fed and ended as the loop counts on.
SessionsAreSound == TypeOK /\ InputsAreWhole /\ EndsOnce /\ DisarmsUnused

\* What is true when Pipeline::execute returns.
ReturnsClean == NothingLeftBehind /\ OkMeansComplete
=============================================================================

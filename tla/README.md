# A TLA+ verification of the OpenVINO Model Server core

This directory models the parts of the model server that decide *what is served,
when it may change under a running request, and what a request is answered*.
Paths below are those of the repository (`src/` for the C++ code, `docs/` for
the documentation); PROJECT.json gives, for every definition, the exact lines it
models.

## 1. Inventory of the system

| Part | State it keeps | Operations | Talks to |
| --- | --- | --- | --- |
| Stream queue `Queue<T>` (`queue.hpp`) | ring of idle ids, front and back index, FIFO of promises, two mutexes | `getIdleStream`, `tryToGetIdleStream`, `returnStream` | used by guards of inference requests, DAG nodes, graph pools, image generation slots |
| Model instance (`modelinstance.cpp`) | version status, compiled model, tensors info, inference requests queue, guard counter, `loadingMutex` | load, reload, dynamic reload (shape or batch "auto"), retire, cleanup, `waitForLoaded` | predict threads through guards; `Model`; subscribers |
| Inference (`inference_executor.hpp`) | guards on the stack or in a callback | `infer`, `modelInferAsync` | instance, stream queue |
| Model (`model.cpp`) | versions, default version, subscriptions | add, reload, retire, clean up versions | instances, pipelines |
| Version selection (`model_version_policy.cpp`, `modelmanager.cpp`) | policy | filter, `getVersionsToChange`, `reloadModelWithVersions` | model |
| Pipeline definition (`dags/pipelinedefinition.cpp`, `...status.cpp`, `pipeline_factory.cpp`, `pipeline_config_parser.cpp`) | status machine, node infos, connections, node resources, handles counter, subscriptions | create, reload, retire, validate, `create(pipeline)`, notifications | models, cleaner, requests |
| DAG execution (`dags/pipeline.cpp`, nodes, sessions) | event queue, started, finished and deferred sessions, sessions of each node | event loop, execute, fetch, release, disarm, demultiplex, gather | instances, stream queue |
| Model manager (`modelmanager.cpp`) | served configurations, models, resources, file digest, watcher and cleaner threads | `loadConfig`, `configFileReloadNeeded`, `updateConfigurationWithoutConfigFile`, cleanup | everything above, under `configMtx` |
| MediaPipe graphs (`mediapipe_internal/`) | same status machine, graph pool, side packets, LoRA aliases | create, reload, retire, validate, unary and streaming `infer` | stream queue, LLM servables |
| LLM (`llm/`) | executor thread and its condition variable, execution contexts, delta channel | load, validate, add request, step, read, disconnect | OpenVINO GenAI, text streamer, chat API |
| Text streamer and output parser (`llm/ovms_text_streamer.cpp`, `llm/io_processing/`) | tokens in hand, decoding mode, phase, cache, parser states | write, finish, parse a chunk | LLM executors |
| Front ends (`kfs_frontend/`, `http_rest_api_handler.cpp`, `capi_frontend/`) | the C-API's request and response objects, metrics | convert, validate, infer, serialize, count, call back | instances, pipelines, graphs |
| Model pulling (`pull_module/`) | the repository on disk: files, LFS pointers, parts, index, markers | clone, resume, download, overwrite, export | libgit2 with the LFS filter of `third_party/libgit2/lfs.patch`, curl, optimum-cli |
| Chat APIs (`llm/apis/`) | the items a streamed response has opened and closed, what was said of each | serialize a delta, the end, a failure, a unary answer | text streamer, calculator |
| Server (`server.cpp`, the modules' `start` and `shutdown`) | map of modules with their states, start lock, shutdown request, interpreter lock, the one HTTP application | start, shutdown, signal, `OVMS_ServerStartFromConfigurationFile`, `OVMS_ServerDelete` | everything |
| Configuration, file systems, metrics, other parsers | - | conversions and input/output | everything |

What is hard here:

* **Concurrency without locks.** Predict threads take no mutex that the
  configuration thread holds: they increment a counter (an unload guard) and look
  at a status, and the configuration thread sets the status and waits for the
  counter. A predict thread may itself become a loader (dynamic reload). The
  default version, the status of a pipeline and the list of subscribers are read
  and written by several threads without a lock.
* **Shared things that outlive a request.** Streams, inference requests with
  their output buffers, started graphs with packets inside, callbacks that hold
  guards: what one request leaves behind the next one finds.
* **Partial failure.** Loads fail at every step, entries of a file are bad one by
  one, DAG nodes and callbacks fail one by one, and the server must go on serving.
* **Waiting.** Promises, futures, condition variables and notifications can be
  missed; clients disconnect at any moment.
* **The disk.** A pull may be killed at any step and is resumed from what is on
  disk; the configuration file is edited while it is read.
* **Streams of text.** Tokens, decoded text, chunks and tags have different
  boundaries, and each layer holds text back.

What makes each part correct:

* queue: an id has at most one owner, none is lost, a caller that waits is served;
* instance: nothing a request uses changes under it, it runs on its own shape, AVAILABLE means loaded, operations end;
* versions: what the policy asks for is served if it loads, in an order without a gap, and the default version is the highest one served and never a retired one;
* pipeline: requests build whole pipelines from one definition with live custom node managers, no model change is missed, the status machine is never driven into an illegal transition, retired pipelines are unloaded;
* validation: a pipeline that passes can be executed, its demultiplexers and gathers match on every path, and tensors arrive with the sizes it announced;
* execution: every execution ends, complete or with an error; every session gets whole inputs and ends once; no stream, guard or callback is left behind;
* configuration: a name that is checked stands for one servable, OK means the file is in force, a bad entry harms only itself, what did not change is not interrupted, the server converges to the file;
* graphs: pooled graphs are neither shared nor lost, and what one request leaves in a graph reaches no other;
* LLM: what the client is sent is the generation; a disconnection is noticed; every request and the executor end;
* text: the deltas published are the text, wherever it is cut; streamed and unary answers tell the same;
* front ends: OpenVINO never gets a tensor larger than its buffer, the front ends agree, each request is answered and counted once;
* pull: an incomplete repository is marked, OK means complete, user's files stay, repeating the command completes it;
* server: one at a time; no request, reload or interpreter outlives what it uses; live while it loads, ready when it has; a half-pulled model is neither served nor a success; starts and stops end.

## 2. Modules

| Module | Models | Built on |
| --- | --- | --- |
| `StreamQueue` | `Queue<T>` between lock operations | refines `StreamPool` |
| `StreamPool` | the promise of the queue: a set of ids with owners | - |
| `ModelInstance` | one `ModelInstance`, manager and predict threads, synchronous and asynchronous inference | the queue enters as a counted resource of `Nireq` streams, which `StreamPool` justifies |
| `ModelVersions` | `reloadModelWithVersions`, `Model`, policies, default version | an instance enters as its status, reloadable by requests |
| `PipelineDefinition` | one pipeline: configuration thread, requests, notifying predict thread, cleaner | models enter as what validation finds of them |
| `NodeSessions` | metadata of the sessions of a DAG: subsessions, keys, collapsing, shard ids | - |
| `PipelineValidation` | parsing and validation of a pipeline's configuration, its announced inputs and outputs, as operators | - |
| `PipelineExecution` | `Pipeline::execute`, nodes, node sessions, callbacks | `PipelineValidation` gives the pipelines, `NodeSessions` the sessions; the queue enters as `StreamPool` promises |
| `ConfigReload` | `loadConfig` and everything that follows from one reading of the file | a model is its configuration and whether it serves; pipelines are their status and subscriptions |
| `GraphServing` | MediaPipe graph definition, graph pool, unary and streaming execution | the pool's queue enters as its set of idle ids, used as `StreamPool` allows |
| `LlmServing` | calculator, executors, delta channel, disconnections, shutdown | the streamer enters as what it may hold back |
| `OutputParsing` | `OutputParser` and the parsers of LFM2, as operators on text | - |
| `TextStreaming` | `OVMSTextStreamer` | `OutputParsing` |
| `ChatEvents` | serializers of the Responses API and of chat completions, streamed and unary | the deltas `TextStreaming` publishes |
| `RequestValidation` | sizes in `size_t`, request validation, REST binary bodies, as operators | - |
| `InferenceRequests` | one inference from each front end to its answer | `RequestValidation`; one stream, one model |
| `ModelPull` | the pull of a model, its faults, and the disk | - |
| `ServerLifecycle` | start and shutdown of the modules of a server, as a process or inside an application, signals, requests and the watcher meanwhile | requests enter as what they use and that they end |
| `ServerPull` | a server and the model it pulls: the pull is a step of the start | `ServerLifecycle`, `ModelPull` |
| `*Proofs` | the theorems | extend the module they are about |
| `MC*` | instances for TLC | extend the module they check |

In every module one action is the code between two points where another thread
can step in, under the locks the code holds. Variables keep the names of the
fields and locals they stand for. Operators commented "Mutant" or "A mistake",
or standing in a section "Plausible mistakes", are wrong versions of an
operation: no specification uses them. They exist so that each property can be
shown to notice a mistake of its kind in the code.

**StreamQueue.** `front_mut` guards the front of the ring, `queue_mutex` the back
and the promises; a get and a return therefore overlap. A client is one guard
object. `getIdleStream` is GetIdleStream (lock), GetSeesEmpty or ReadsFront, then
GetPushesPromise or ClearsFront. `returnStream` is ReturnLocks, then
ReturnPopsPromise and ReturnSetsValue, or ReturnReservesSlot and
ReturnWritesSlot. `future::get` is FutureGet.

**ModelInstance.** `comps` is what loading replaces: the model, the tensor
information, the compiled model and the queue, each with the shape it was made
for. `Manager` is the thread that holds `configMtx`. A loading operation is the
sequence lock, drain (guards are zero), impl..., loaded or failed; `call` says
which operation it is, so the fallbacks of a dynamic reload (a full reload, then
recovery with the configured shape) are the same code with another `call`, as in
`recoverFromReloadingError`. OpenVINO's own work is a step that succeeds or
fails. `NotifyThrows` is a pipeline that answers the notification of a predict thread
with a `logic_error`: nothing catches it below `reloadModel`, so the mutex is released and
the status stays. `abandoned` is a history variable: the last operation ended so.

**ModelVersions.** The lists of `reloadModelWithVersions` are sets worked through
in ascending order; `BinarySearch` is `std::binary_search` on the listing in
`DirOrder`, sorted or not: `LowerBound` halves the listing as libstdc++ does. Between applications the environment changes
directories, files, policy, configuration and the custom loader's blacklist;
predict requests reload the versions of `Reshaped` at any time (`asked`, `reshaping`), and
each of these reloads may succeed, fail or end in the exception of a pipeline. `byRequest` is
a history variable: the versions whose status a request wrote last.

**PipelineDefinition.** A definition is the map of its DL nodes to models and of
its custom nodes to parameters. Validation passes or fails; it can only pass when
the models are there without dynamic parameters and every manager was
initialized. `Handle` is the status machine. `seen` is a history variable: the
models at the last validation. A notification by a predict thread is two steps,
because `handle` reads the state and writes the next one without a lock. A model
name that exists stays (`ModelManager` keeps its `Model` for ever), a version
(`Versions`) may be absent and appear later: between two configurations the
environment polls the models and changes what validation finds of them.

**PipelineValidation.** A configuration is its nodes and connections; the
metadata of models and libraries ("servables") is part of it, and a dimension is
the set of sizes it allows (up to `MaxSize`). `Parsed` is
`pipeline_config_parser.cpp`, with the response gathering from the demultiplexers
no node gathers from. The operators below it are the methods of `NodeValidator`,
`validateForCycles` (a fold over the steps of the depth-first search) and
`validateDemultiplexerGatherNodesOrder` (all nodes with the stacks of sets they
are reached with); `InputsInfo` and `OutputsInfo` are what the pipeline announces
to clients. Which of several errors is reported, layouts, and the iteration order
of the hash maps are left out.

**NodeSessions, PipelineExecution.** The metadata of a session is the sequence of
its levels; `GenerateSubsessions`, `Collapse` and `ShardId` are the functions of
`nodesessionmetadata.cpp`, and ids have `IdBits` bits. The event loop runs on one
thread: `pc` is "pull" (take a finished session), "feed" (pass its results to
the next nodes, one result of one node at a time), "start" (the ready sessions of
the next nodes), "deferred" and "retry" (sessions without a stream), "disarm"
(after an error). `requests` holds the inferences in flight: the completion
callback first pushes the session into `finishedNodeQueue`, then resets itself
(two steps of `CallbackStep`). `OtherStep` is another client of the same streams.
`graph` is any pipeline that `Validate` lets through and `create` connects, and
`request` the sizes of the request's tensors. Of a tensor the sizes are kept and
the session it comes from: `demultiplyOutputs` splits them, gathering puts the
collapsed levels in front, `DLNodeSession::validate` compares them with the model.

**ConfigReload.** `load` is the frame of `loadConfig`: the document it read, the
section it is at and what is left of it; each `LoadStep` handles one entry, and
requests see the registries between two steps. `WatcherCycle` is the watcher's
wait and check, `Client*` the REST reload (`loadConfig` under `configMtx`, after
the check outside of it). A graph has the aliases its nodes were found to have, also when
its queue then failed to start, before they were compared with other names; `unchecked` is a
history variable: the aliases registered so, or equal to their graph's name. `EditFile` changes or truncates the file; `Break` makes
a model, a graph or a library fail to load, or mends it. `Reloaded` is what
happens to one model (`ModelVersions` has the details), `Notified` the effect of
a changed model on pipelines.

**GraphServing.** The definition goes through validation stage by stage
(`Steps`); what a stage finds is a property of the file. `graph` has one record
per started graph, of the pool or of a request: its observers, the context of its
side packets, its packets not consumed yet, its last timestamp, its error.
`GraphStep` is MediaPipe: a graph consumes the inputs of a timestamp when they
are settled and calls the observer for its output; once its sources are closed
everything is settled. A request begins (guard, then
state), takes a graph or starts its own, sends packets, waits, fails or
reinitializes, and releases. `ResetQueue` is `queue.reset()` in `reload` and `retire` when idle
graphs have packets left: their sources are closed, and the thread goes on when they have
run to their end, as `~GraphHelper` does. `CloseAllPacketSources` is the same for the graph of
a request, before it is reinitialized, or when the request has the last reference to it.
`~GraphIdGuard` locks the weak pointer of its queue for a moment; that the queue may be reset
in that moment, and its graphs then be destroyed by the thread of the request and not by that of
the reload, is left out: the same graphs run to the same end.

**LlmServing.** `Calculator(r)` is `Process` of the HTTP calculator, called by the
graph until it stops the loop; `Executor` is the executor thread: the step loop
of continuous batching or the generate-one loop of the other servables, with the
callback that pushes tokens through the streamer into the channel as steps of its
own. `OnDisconnected` is the callback of the HTTP server, which runs some time
after `Disconnect`. A delta is the number of its token, or 0 for one without text;
`Carries(s, a, b)` says that the deltas `s` are the tokens after `a` up to `b`, each
once and in order. A generation has at least one token (`max_tokens` is refused when
it is 0, `openai_completions.cpp:143`).

**OutputParsing, TextStreaming.** Text is a sequence of numbers, one for each
character that matters. A parser is a record; an operator takes it and a chunk
and gives the parser after it and at most one delta. `WriteToken` decodes the
tokens in hand, holds back the last ones, cuts a chunk and parses it;
`DrainTerminal` is the end of the generation.

**ChatEvents.** No variables of its own: an operator takes the state of a
serializer and a delta and gives the state with the events added. The streams are
folds over the deltas published so far (`st.out`), the last of them with the
reason of the end; that the calculator sends each delta in order and once is
`LlmServing`. A failed stream is the events so far and `SerializeFailedEvent`,
checked at every point where the generation is open.

**RequestValidation, InferenceRequests.** Sizes are computed modulo
`SizeMax + 1`, as in `size_t`. `ValidateInputs` is `RequestValidator::validate`
for KServe and C-API requests in the order of its checks: its loop returns at the first tensor refused, and otherwise
with the last `finalStatus` that was set. `PrepareGrpcRequest` converts a
REST body. `Reload` also fails when `getRequestBatchSize` finds the first input of the
request too short to have the batch position of the first input of the model. One request at a time is being served while an asynchronous one keeps
the stream, the guard and the output buffers; the C-API's request object is built
call by call.

**ModelPull.** A pull is a program (`pc`) over the repositories of what is pulled
(the model, its draft model). `file`, `part`, `index`, `marker` and `err` are on
disk and survive; everything else is the process. `Kill` may come at any step and
leaves a torn file where one was being written; a stop and a failure are
answers of libgit2 and curl. The LFS filter that downloads a file in a checkout is kept here,
as a patch to libgit2 (`third_party/libgit2/lfs.patch`): `Transfer` continues the `.lfs_part`
file and looks at its size only, `TransferRestarts` starts from zero (a part that is too long, a server
that does not resume) and leaves `lfs_error.txt` although the file is whole, and
`TransferAborts` leaves the pointer and `lfs_error.txt`, and no error for the checkout.

**ServerLifecycle, ServerPull.** `at[t]` is where a thread is in `startModules` or
`shutdownModules`; `mods` is `Server::modules` with the `ModuleState` of each
module. Each action starts or stops one module. A stop is in two steps where it waits:
for the requests of gRPC, for the pool of the HTTP server, for the watcher.
`request` says by which front end a request came and whether it needs the lock of
the interpreter, which the starting thread holds from `StartsPython` to
`ReleasesGIL`. The process is one thread, ended by a signal or killed, and started
again; an application has several, which start and delete the server without a lock
of their own. In `ServerPull` the actions of the two modules meet: `PullBegins` and
the last `PullStep` are steps of both, a signal and a kill hit both, and the next
process finds the disk as it was left.

## 3. Runs

| Run | Shows | Instance and why it is enough |
| --- | --- | --- |
| `queue` | `QueueSafety`: ids are never shared, lost or overwritten in the ring; `ImplementsPool`; `ServedWhileReturnsContinue` | three clients, two streams: both streams out, one caller waiting, one returning; the ring wraps |
| `instance` | `InstanceSafety`: a request runs on its shape, AVAILABLE is loaded, LOADING without an error is owned, unless a pipeline's exception ended a request's reload; `NoChangeUnderUse`; `OperationsEnd` | two requests with two shapes that reload the model under each other, one stream, `start_async` may throw, and so may each notification of a request |
| `versions_safety` | `PolicyServed`: OK means served, failed versions are removed, the default is the highest; `ReplacedBeforeRetired` | three versions: one to fail, one to fall back to, one to retire; the highest, which is the default while it serves, is reloaded by requests at any moment; three policies, two configurations |
| `versions_shared` | `DefaultNotRetired`, `ApplicationTerminates` | versions 9 and 10, listed as strings (10 first) and reloaded by requests at any moment, blacklisting |
| `pipeline` | `PipelineSafety`: whole pipelines, legal events; `StateIsCurrent`: no change missed; `NoChangeWhileBuilding`; `EverythingEnds` | one request, one model in every state, two definitions in which one name is a custom node and a DL node; the model is named without a version (`Versions = {}`; see Deviations for one that is a version) |
| `execution` | `SessionsAreSound`: whole inputs, each session ends once, only unused streams are disarmed; `ReturnsClean`: nothing left behind, OK means complete; `ValidatedPipelinesWork`: what validation lets through executes, with the announced sizes; `ExecutionEnds` | two sessions of a demultiplexer for one stream, two branches of one model, nested demultiplexers, one whose library decides the number of shards (zero too), with failures of every kind of node; and all pipelines of two nodes that demultiply and gather in any way, with shapes of two to four dimensions, of which validation accepts one in forty |
| `config` | `NamesAreExclusive`, `LoadApplied`, `UnchangedNotInterrupted`, `RestAnswersTruth`, `Converges` | five files in which names change sides, entries are bad and a model becomes "auto" under a pipeline; one name is in turn the alias of a graph, a model and a graph; a graph has its own name as an alias, and another has the name of a model as its alias and a queue that may fail to start, which registers it unchecked; two edits, so that a file comes, goes and comes back, and an alias outlives the one it was an alias of; one breakage; one REST client |
| `graphs` | `PoolSafety`: graphs of the pool are conserved and of their own definition; `RequestsIsolated`: callbacks within the request, answers its own, both but for what streams that lacked an input leave; `ChangeCompletes` | two requests of up to two messages on a pool of one; three files: pooled, unpooled, pooled with a loopback; one reload |
| `llm` | `AnswersFaithful`: streams are the generation, unary answers are whole; `DisconnectionSeen`; `GenerationEnds` | two requests, eight profiles of the first, on each kind of servable; up to two tokens, held back, sent midstream or empty |
| `parsing` | `DeltasFaithful`: every character published once, in order and as what it is, and the end announced once; `ToolCallsWhole`; `AnswersSound`: every item of a response is opened and closed once around what is said of it, the response ended once, and streamed and unary answers of both APIs are the same | five generations, nine parser configurations, tokens of one or two characters in every division, cut anywhere |
| `requests` | `BuffersSafe`: what OpenVINO gets fits its buffer; `FrontEndsAgree`; `ReloadServes`; `AnsweredOnce` | five-bit `size_t`, so that products wrap; one or two inputs; every batching mode |
| `server` | `ServerIsSound`: nothing outlives the module it uses, one server at a time, live before ready, a half-pulled model is neither served nor a success; `DiskTellsTruth`: an incomplete repository is marked, OK means complete; `FilesKept`; `ServerGetsDone`: repeated pulls complete, starts and stops end | a process with every module, two threads of an application, a process that writes the configuration, one that pulls and serves; `ovms --pull` of every kind with one plain and one LFS file. Up to two kills, and one stop, failure, edit and overwriting (with adapters or a draft model: one kill, or no edit and no overwriting). One request, which may come by any front end at any moment: requests do not wait for one another |

A property that is a conjunction of named parts is one sentence about the
component; its parts are defined and commented just above it.

Bounds. `Nireq`, `StreamsLength`, `Streams`: lengths of a queue. `WaitCheckpoints`: rounds
of `waitForLoaded`; one is enough for every transition of the loop, since rounds
differ in nothing else. `LiveManagers`: managers of one node that are alive at
once; it is never reached for ever, because the cleaner frees managers, and
deadlock is checked. `IntBits`, `IdBits`, `SizeMax`: widths of integers; 16 bits
keep 2^IntBits within TLC's integers. `MaxEdits`, `MaxBreaks`, `MaxRequests`,
`MaxReads`, `Budgets`: how often the
environment acts. `MaxMishaps`: starts that fail because of the machine (none for
`ovms --pull`, whose failures are those of the pull). `MaxGen`: loads of a graph; `MaxMessages`: messages of a
stream; `MaxClock`: values of the clock that timestamps are taken from.
`MaxTokenLength`: characters of a token. `MaxSize`: sizes of a dimension. Interchangeable clients or requests are
not reduced by symmetry where liveness is checked.

Deadlock is checked in `queue`, `versions_*`, `pipeline` and `execution`.
In the others the system may come to rest: `instance` after a leaked guard (see
Deviations), `config` when nobody edits the file and the server has stopped,
`graphs`, `llm` and `requests` when every request has been answered (or
`requests` has met the null dereference of Deviations), `parsing` at the end of a
generation, `server` when the process has ended for good or a failed start waits for a
request that waits for it (see Deviations).

Where a property has conditions. `DefaultNotRetired` needs version numbers that fit an
`int`: with `IntBits = 3` and version 5 the version to ignore is not recognised.
`PolicyServed` and `ReplacedBeforeRetired` need no order of the listing and hold with
requests that reload versions; they state in themselves where the code does less.
`FailedAreRemoved` is about listings in numeric order: listed as strings, versions 8, 9 and 10
come as `<<10, 8, 9>>` and `std::binary_search` misses version 10; the application then ends with
an error, and the default may be a version that failed. `DefaultIsHighest`, `OkMeansServed` and
`ReplacedBeforeRetired` leave out the versions that requests have reloaded since
`reloadModelWithVersions` last touched them: one that is LOADING when the default is
chosen is passed over, one that then fails is nobody's to replace. `LoadApplied` and `Converges` state their exceptions (an unsupported
plugin configuration, "auto" models under a pipeline, a model refused, or a pipeline that fails, for the name of an
alias, a graph that two entries stand for; see Deviations); `UnchangedNotInterrupted`
leaves out a graph that an entry named like its alias reloads. `DeltasFaithful` is
checked on generations in which no ordinary text stands directly before an
opening tag inside the same cache (see Deviations).

Fairness. Threads run: weak fairness of each thread's steps. A thread that keeps
asking for a mutex or a stream gets it: strong fairness of those steps, since
other threads may take them in between. The cleaner and the watcher wake up
periodically (`cleanerRoutine`, `watcher`). OpenVINO's inference, MediaPipe's
graph and GenAI's step end, and so does a graph whose sources are closed. A client of a graph stream ends its stream at last.
The user repeats the pull command, and faults are finitely many; the watcher's cycle
ends. A signal need not come. Nobody is
obliged to send a request, edit a file, disconnect or keep the stream traffic
going: properties that need the arrivals to stop, or the returns to continue, say
so (`OperationsEnd`, `ServedWhileReturnsContinue`, `Converges`).

## 4. Theorems

All for arbitrary values of the constants, from the named assumptions of the
modules: sentinels are not members of the sets they stand beside, lengths and
bounds are numbers, definitions refer to models and versions are models
(`DefinitionsAssumption`, `VersionsAssumption`), a file of the configuration is lists of named
entries, and its sentinels are neither files, names nor threads (`FilesAssumption`,
`ContentsAssumption`, `NamesAssumption`, `ThreadsAssumption`), a graph has a finite set of inputs and
at least one (`InputsAssumption`), the C API neither starts the interpreter nor pulls
(`CommandsAssumption`), the faults that befall a pull are finitely many
(`PullAssumption`), a generation has a token (`ProfilesAssumption`), requests have
the fields of requests and dimensions that `size_t` covers (`RequestsAssumption`), the batch
position of a model's input is in its shape, and a model of batching mode AUTO has no input
of shape AUTO, which makes the mode FIXED (`ModelsAssumption`). TLC evaluates each
of them in the runs.

The three theorems of `ModelManagerProofs` about `ModelVersions` have a hypothesis of their
own, because the code needs it (section 3): `VersionsFitInt`. No other theorem has one. Where the
code does less than one would like (an order of the listing, versions that requests reload,
aliases nobody checked), the property itself says so, and the theorem is about all cases.

Two proofs need induction over data: a bisection and a list worked off one by one, a product
over dimensions and slices cut one by one. It is done with the
least-element principle (`LeastOf`, from the well-foundedness of < on the naturals): the
least step at which a claim fails is not the first, and the step before it carries
it over. That a recursive function has the values its equations say is itself proved so
(`RecursionDefines`: functions on longer and longer beginnings agree).

* `StreamQueueProofs`. **QueueSafe**: `Spec => []QueueSafety`.
  The invariant adds who holds which mutex, where an id is at each point of a
  get (between reading and clearing, the front slot still has it), that a queued
  or popped promise belongs to one waiting client without an id, and that the
  occupied slots are exactly the window from front to back around the ring. The
  counting step (`RoomForReturn`) is the pigeonhole principle: while a client
  returns an id the ring cannot be full. **QueueImplementsPool**: under
  the refinement mapping that sends an id to the client whose guard or future has
  it, every step is a step of `StreamPool` or a stutter.
* `ModelInstanceProofs`. The invariant is ControlInv (mutex,
  guards, calls, status at each point of an operation) and DataInv (what is loaded
  there). **RequestsRunOnTheirShape** (`InstanceSafety`) and **ComponentsStable** (an action
  property) follow. The crux is that a request owns its guard before it looks at
  the status, and an operation changes the status before it looks at the guards.
* `ModelManagerProofs`, of `ModelVersions`. **DefaultOutlivesRetirement**: the default is never a
  version that is being or has been retired, *assuming*, as the next two, that version numbers survive the
  conversion to `int` (`VersionsFitInt`). The property alone is not inductive; RetiringInv
  adds that between the update of the default and the end of the version the two differ.
  **PolicyIsServed** (`PolicyServed`) and **ReplacementsComeFirst** (`ReplacedBeforeRetired`, an
  action property), for every order of the listing and with requests that reload versions at
  any moment. While an application runs, PolicyInv says what its lists hold (ListsInv), what the
  version worked on is (StatusInv), that each version asked for is still to be loaded, serving,
  failed, in the hands of a request or what the policy no longer chooses (LoadingInv, RetireInv),
  that no version but the one worked on and those of requests is above the default (HighestInv),
  and which versions requests can have in hand at each point (RequestsInv): none that is being
  loaded or unloaded, and none that failed. What `std::binary_search` does with a version that
  failed decides the rest. On a listing in order the bisection finds what is there (the lemma
  about it), and the version leaves `availableVersions`; out of order it may stay, the result is an
  error from then on, and the default may be stuck at it (DefaultIsStuck).
* `ModelManagerProofs`, of `ConfigReload`. **NamesStandForOne** (`NamesAreExclusive`): a name is
  one model, pipeline, graph or checked alias in every state of every load, whatever aliases
  graphs have. Aliases that nobody compared with the other names (`unchecked`, section 5) are part of
  the model and break nothing else. Each kind of servable looks for its name among
  the others only when it is new, so the invariant (NamesInv) has to say that what is old was
  looked for: the models that are served, remembered by the load or waiting to be
  tried again exist already (ModelsInv), an alias is one that a graph of its name asked for
  (AliasInv), and while the graph of an entry is between the end of its old self and its
  new aliases, it is the one graph the entry at the head of the list stands for
  (ReloadingInv). TypeInv holds at each stage of a load what the next one may find.
  **RestSpeaksTruth** (`RestAnswersTruth`, an action property): an answer OK speaks of a
  content that the file had during the request, which takes `configMtx` anew for each of
  its calls. SeesInv says for each point of a request that has compared or read the file that
  the content in force is one the file has had since the request began: what the watcher
  or another client loads in between can only be newer.
  **UnchangedStays** (`UnchangedNotInterrupted`, an action property): no step of a load takes a
  model that runs as the file says, or a graph that is as the file says. ReadInv says how far the
  load has come: retirement knows every name that was tried (ModelsReadInv), what was put off
  is tried again with the configuration of the file (GatedInv), and an entry of a name that was
  read is passed over (GraphsReadInv).
  **LoadsAreApplied** (`LoadApplied`): after every load each valid
  model that can be loaded serves as the file says and each pipeline whose models serve is
  available, and a load that returns OK has put all of the file in force. AppliedInv says so of
  each entry from the moment it was handled, and the proof goes through every later step to see
  that it takes nothing back: an alias that is given up may free a name too late for the model
  that was refused for it, `Exclusive` makes the checks of a known pipeline those of a new one, a
  pipeline subscribed to a model keeps it from becoming "auto" in the retry, and a graph that
  stands alone is not the one an entry finds by an alias.
* `PipelineDefinitionProofs`. **PipelinesSafe** and
  **BuildersSeeNoChange** from one invariant. From ReloadEvent or RetireEvent
  until the next validation the pipeline is never available (StatusInv), so no
  request starts to build, and nodes change only when the last guard is gone. The
  other writer of the status, a notification, cannot resurrect it, because it
  cannot have read an available status: an available pipeline is subscribed to no
  model with dynamic parameters (SubscriptionInv). Revalidation does not wait for
  guards, and changes nothing, because every custom node of an available pipeline
  has a manager already and `emplace` keeps it (`InitializeKeepsManagers`).
  **PipelineStateIsCurrent** (`StateIsCurrent`) is about what `seen` has of the models:
  while the configuration thread is between a change of a model and the
  revalidation, the pipeline is marked (`REQUIRES_VALIDATION`) or the thread still has it to
  notify; the exception of `NoChangeMissed` is exactly a version that did not exist when
  `makeSubscriptions` ran (see Deviations).
* `GraphServingProofs`. **GraphPoolIsSafe** (`PoolSafety`),
  **GraphRequestsAreIsolated** (`RequestsIsolated`) and **GraphsStayWithTheirRequest**
  (`GraphsChangeHands`, defined there). The invariant says who holds each
  graph: the queue of its pool, the one request between `getIdleStream` and
  `returnStream`, or the reload that drains the pool (PoolInv, KeyInv); what is in a graph
  that nobody runs (UnusedInv); that every packet in a
  graph is of the request that runs it, or was left by a stream that lacked an input
  (PacketInv), which is why the exceptions in `RequestsIsolated` cannot be dropped; and that the
  sources of a pooled graph are closed only by a request that failed or when its queue is gone, and
  then nobody runs it (ClosedInv): the packets that then reach an observer of the past are those,
  and no others.
  `GraphsChangeHands` maps the ids of each generation's queue to the requests that hold
  them. Only `AcquirePooled` and `Release` change that map (`OthersKeepGraphs`), by a `Take`
  and a `GiveBack` of `StreamPool`, so what **QueueImplementsPool** says of `Queue<T>` is
  all that this model needs of it, for a queue that lives and for one that is gone.
* `ServerPullProofs`. **ServerIsSafe** (`ServerSafety` for `ServerSpec`),
  **ServerWithPullIsSound** (`ServerIsSound`), **DiskIsTrue** (`DiskTellsTruth`) and
  **UsersFilesAreKept** (`FilesKept`). For the server: one thread at a time starts or stops
  it (ThreadInv), what there is at each step of `startModules` and `shutdownModules`
  (PhaseInv and the invariants after it), and who waits for whom with which lock. For
  the pull: at each point of the program, what is on the disk and which marker
  stands for what is missing. The two meet in `PullBegins` and the last `PullStep`, and every
  other step of `ServerPull` is a step of one of them and leaves the other alone.
* `InferenceRequestsProofs`. **RequestsAreAnsweredOnce** (`AnsweredOnce`): only the steps that
  answer count (CountInv); until a C-API call is answered its callback has been told
  nothing, and from `StartAsync` on the stream is the callback's until it has been told
  (CallInv); the stream writes into a buffer of the application only while somebody
  has it (StreamInv). **BuffersAreSafe** (`BuffersSafe`): a count that is ok is the product
  of the dimensions (`CountIsBytes`), so the content check, in `size_t`, compares with the
  bytes needed in unbounded arithmetic (`ContentFits`), and what it found stays true until
  the tensors are made, also through a reload, which changes shapes but neither names nor types
  (ContentInv). The slices of a REST body are one behind the other (`BodyInOrder`).
  **ReloadsServe** (`ReloadServes`): until the reload the request passes every check of every
  input, and it asks for a batch size exactly if the batching mode is AUTO (DemandInv); the new
  shapes are therefore its own, and nothing is left to ask for. **FrontEndsDoAgree**
  (`FrontEndsAgree`): KServe and C-API validation make the same checks of the same tensors
  but for the last, and that one compares the same two numbers.
* `LlmServingProofs`. **DisconnectionIsSeen** (`DisconnectionSeen`) and
  **AnswersAreFaithful** (`AnswersFaithful`). The first follows from where the hook is at each
  stage (ClientInv): between its registration and the look at the connection in
  `ScheduleExecution` a client that leaves is caught by one of the two. The second
  needs to know where each token is. With one request at a time the tokens 1 to
  `made` are, in this order, sent, taken from the channel by the calculator, in the
  channel, and held back by the streamer (ChainInv: three numbers cut them), so
  neither the drain of `prepareLegacyPartialResponse` against a push nor the second
  drain after `finished.wait` can lose, repeat or swap one; a request that is ready
  has all of them out of the streamer unless it failed or was cancelled (LegacyInv).
  With continuous batching they are sent, held back, just read, and in the outputs
  of the handle still to be read (Reading, Preparing, Outputs), after which there is at
  most the one empty output of a request that was stopped or ignored.

The proofs found flaws of the models that TLC's instances did not show, and the
models were corrected after the code:

* two arms of a CASE in `ParsesConfig` and in `StartsGrpc` of `ServerLifecycle`
  overlapped, so that for some commands TLC chose one and left out the other outcome;
* `numberOfPacketsCreated` of `GraphServing` counted packets that could not be pushed;
* in `PipelineDefinition` a poll could bring a model *name* back that the manager never
  forgets; and for versions `StateIsCurrent` is false, which is a deviation of the code;
* `LlmServing` left out the delta without text that an OMNI stream gets midstream,
  when the text has ended and the audio is still to come, and had generations
  without a token;
* `InferenceRequests` took a first input of the request without the model's batch position
  for one that has it; the code answers INTERNAL_ERROR, after it gave up its guard;
* `CreateGraph` of `ConfigReload` left out that `createDefinition` refuses a name that is
  still an alias of a graph that is gone; the files of `config` now lead there.
  `UnchangedNotInterrupted` forgot the graph that another entry reloads by its alias;
  `LoadApplied` and `Converges` forgot the model that is refused for the name of an alias its
  graph gives up later in the load, and the graph that two entries stand for. The files of
  `config` now have both.

Only model-checked:

* all liveness properties: TLAPS 1.4.5 does not reason about fairness (`ServedWhileReturnsContinue`,
  `OperationsEnd`, `ApplicationTerminates`, `EverythingEnds`, `ExecutionEnds`, `Converges`,
  `ChangeCompletes`, `GenerationEnds`, `ServerGetsDone`);
* `TextStreaming`, `OutputParsing` and `ChatEvents`, which declare or reach RECURSIVE operators,
  in whose presence the prover has no SMT solver (`DeltasFaithful`, `ToolCallsWhole`,
  `AnswersSound`);
* `PipelineExecution` (`SessionsAreSound`, `ReturnsClean`, `ValidatedPipelinesWork`), which is about the
  shapes of pipelines that validation lets through: its invariant would have to say what
  the folds of `PipelineValidation` establish of every graph, and where each shard of
  nested demultiplexers is.

## 5. Deviations

Where the code does something its documentation, comments or tests do not say, or
where a property had to name an exception. The models have the behaviour of the
code.

Queue. `getIdleStream` decides to wait under `front_mut` and pushes its promise
later, under `queue_mutex`. A `returnStream` in between refills the ring, and the
caller waits with a stream idle until another caller takes and returns one
(`src/image_gen/pipelines.hpp:39`: "Blocks until a pipeline slot becomes
available").

Versions. Directories are listed in a `std::set` of strings (`modelmanager.cpp:1248`), and
`std::binary_search` (line 1403) needs them in numeric order: with versions of different
numbers of digits a version that failed may stay in the list of available ones. The
application then ends with an error, and a default that failed to reload is not moved.
A version that a request is reloading when the default is chosen is passed over until the next
change. When a version that is registered already fails to reload,
`versionsToStart` is computed again at `modelmanager.cpp:1431` and not used: the
versions the policy falls back to are not started
(`modelmanager_test.cpp:1278` expects the fallback for new versions).

Pipelines that validation accepts although no request can succeed (`LetThrough`
excludes them from `ValidatedPipelinesWork`): a node that gathers from the
demultiplexing request what it takes straight from the request (the announced
input has one dimension too many); two outputs of the response with one name; a
demultiplexing request whose announced inputs have fewer than three dimensions
(`pipelinedefinition.cpp:400` asks nodes for three, `docs/demultiplexing.md:4` for
"at least 2"); an input of the request that only the response uses, which is
announced without a precision. A demultiplexing request connected straight to the
response makes validation throw (`pipelinedefinition.cpp:627`) instead of failing.

Instance, pipeline. `start_async` that throws leaves stream and guard in the
callback, and retiring the version never ends.
`subscriptionManager.notifySubscribers()` (`modelinstance.cpp:1238`, `1517`) is outside any
try block of its function, and `receiveNotification` (`pipelinedefinition.hpp:119`) catches nothing:
a pipeline that is being created or reloaded answers with a `logic_error`, which ends the
reload of a predict thread after `setLoading`. For a change of the batch size it is caught at
`modelinstance.cpp:1427` and answered as INVALID_BATCH_DIMENSION, for a change of shape it goes on to the
front end. The version stays LOADING with the error code OK, so that neither a request nor
`getVersionsToChange` takes it up: only a change of its configuration or its removal does. Changed parameters of a custom node
never reach the manager that `emplace` keeps (`pipelinedefinition.cpp:106`).
`makeSubscriptions` (`pipelinedefinition.cpp:204`) skips a model version that does not exist
when the pipeline is created. The version may appear later, and revalidation then finds
it and makes the pipeline AVAILABLE, still without a subscription: when the version
is retired afterwards nobody marks the pipeline, and it stays AVAILABLE with a version
that is gone, although `pipeline_factory.hpp:102` has revalidation ensure "that all pipelines
are still valid". To see it, take `Models = {m1, m2}`, `Versions = {m2}`, a definition that uses
both, and drop `\ (Versions \ subs)` from `NoChangeMissed`.

Configuration.
* Models after an entry with an unsupported plugin configuration are not loaded,
  and retired if they were (`docs/online_config_changes.md:24` says otherwise).
* A failed graph whose configuration did not change is not tried again, and
  `loadConfig` returns OK. A missing custom loader also returns OK, with the model
  retired.
* A graph named like a LoRA alias of another graph reloads that other graph.
  Names and aliases of retired servables stay occupied. A graph whose LoRA alias is its
  own name is accepted (`mediapipefactory.cpp:209` excludes the graph's own name), and the
  name is then a graph and an alias. So is the name of a graph with an alias that is, in the
  next file, a graph whose alias is the first one's name: the first is reloaded with the
  entry of the other, and its own name becomes an alias. `config` has a graph with its own name.
* `createDefinition` registers the aliases of a new graph whatever `validate` returned
  (`mediapipefactory.cpp:74`), unless a name was occupied. A graph whose queue fails to start
  (`mediapipegraphdefinition.cpp:284`) has its aliases by then (line 538), and they have not been compared
  with other names (line 289): one may be the name of a model, a pipeline or a graph. A model
  of such a name is refused as occupied at the next load and retired with what left the
  file; a pipeline of such a name fails its next validation. `config` has such a graph.
* A model named like a LoRA alias is refused, also when the graph of the alias gives it up
  in the same file: `loadModels` runs first, and the model is not tried again until the file
  changes. When an entry is named like an alias of a graph that has an entry of its own later
  in the list, the first entry reloads that graph and the second reloads it again, without
  the alias: the load is OK and nothing answers to the first entry's name.
* A gated reload reports its error even when the retry succeeds; a gated model
  that has no served configuration is not retried. A model with "auto" parameters
  to which a failed pipeline is subscribed makes every update fail.
* A failure of the metrics section does not set `lastLoadConfigStatus`.
* `isReloadRequired` compares neither mean, scale, color format nor precision.

Graphs.
* A pooled request that lacks an input leaves its packets in the graph, and the
  next request gets them.
* A request that succeeds leaves its observers in the graph (only `reinitialize` resets them),
  and `mediapipegraphexecutor.hpp:384` says that what they refer to outlives "all callbacks because we
  WaitUntilIdle() before returning". When a reload or a retirement resets the queue
  (`mediapipegraphdefinition.cpp:483`, `494`), or a request gives up the last reference to a graph of a
  queue that is gone, `~GraphHelper` (`graphqueue.cpp:71`) closes the sources, which settles the
  packets left of a stream that lacked an input, and the outputs go to the observers of a request
  that has ended. `CallbacksWithinRequest` has this exception and no other.
* A large explicit `OVMS_MP_TIMESTAMP` makes the next
  pooled request fail once. A failed reinitialization leaves a broken graph in the
  pool until the next request fails on it.
* A pooled unary request answers OK even without any output
  (an unpooled one: MEDIAPIPE_EXECUTION_ERROR), and appends several outputs.
* `docs/mediapipe.md:240` gives AUTO as hardware threads / 16; the code takes the
  smaller of rest_workers and cores, clamped.
* A reload waits while a request that holds the unload guard waits for a pooled
  graph that a long stream keeps.

LLM.
* Continuous batching looks at `isDisconnected` before it registers the callback:
  a client that leaves in between is not stopped. A request ignored for lack of
  cache is answered as a normal stop without tokens.
* A failed generation on the other servables is an error status even for a
  Responses stream, where continuous batching sends `response.failed`.

Text.
* Text that stands before an opening tag in one cache is dropped by the reasoning
  parser, or given to the tool parser, although `output_parser.hpp` says that "No
  content is ever discarded at a phase transition".
* The LFM2 parser takes one step per chunk: a generation cut just after the
  opening parenthesis, with tokens of several characters, loses the name.
* An incomplete UTF-8 character at the end is dropped. `end()` leaves the streamer
  open, so a later `finish()` would publish a second last message; no caller does.
* In a Responses stream with text and tool calls the message is added at the
  `output_index` of the first call, and closed at another one, after the calls
  (`docs/model_server_rest_api_responses.md:244`: the message "will have
  `output_index: 1` instead of `0`" after reasoning). `EventsWellFormed` (part of `AnswersSound`) asks for
  one index per item in the other responses.

Requests.
* C-API outputs are not validated when the inputs ask for a reload: a null output
  buffer is dereferenced in `makeTensor` (`serialization.cpp` says it "should be
  rejected in validation"), a buffer that is too small is handed on.
* An exception of an asynchronous inference is reported to the callback as a
  success.
* REST: only the last output that is asked for is kept
  (`docs/model_server_rest_api_kfs.md:332`), `binary_data_output` without outputs
  has no effect, a failure to serialize counts as a success, and a failed
  conversion is not counted for graphs. gRPC exceptions, pipelines that are not
  loaded and C-API requests are not counted.
* `[big, big, 0]` is rejected, `[0, big, big]` is not; the message says "Negative
  or zero dimension" and zero is accepted. Inputs with JSON and binary data in one
  request are refused. Inputs with different batch sizes under batch AUTO reload
  the model and then fail; an output of another batch reloads it too.
* `OVMS_GetServableContext` dereferences null when the model is missing.
  UNAUTHORIZED has no HTTP status. FP16 outputs cannot be serialized to JSON. A
  missing version is MODEL_NAME_MISSING for `OVMS_GetServableState` and
  MODEL_VERSION_MISSING for KServe.

Pull.
* The draft model's directory lies inside the main model's, and
  `findLfsLikeFiles` skips only `.git`: after an interrupted draft pull every run
  tries to resume the draft's pointers in the main repository and fails, until
  `--overwrite_models` (`docs/pull_hf_models.md:122`: "simply re-run the same
  command").
* A kill during the fetch cannot be resumed (line 149 says that what is on disk is
  the same as after a cancel); a kill before `.git` exists leaves a directory that
  is taken for a model; a kill while `--overwrite_models` removes the directory
  makes a later run without the flag answer OK with files missing.
* A damaged part of the right size, or a torn file, is UNCLEAN on every re-run
  (line 155: it is downloaded again). Parts of a GGUF model are written to their
  final path and any existing part counts as complete. An existing directory is
  taken as exported by optimum.
* A cancelled LFS transfer during a clone is reported as LFS_DOWNLOAD_FAILED.

Server.
* A start that fails after `PythonInterpreterModule::start` never releases the lock
  of the interpreter. If graphs with Python nodes were loaded by then
  (`startFromFile` can load them and fail), the shutdown waits, with the lock, for
  requests that need it, and the process hangs (`HoldsGILWhileDraining`).
* `shutdownModules` leaves the C-API module INITIALIZED until it clears the map, so a
  C-API call in another thread during `OVMS_ServerDelete` gets past `getModelManager`
  and uses a manager that is going, and `modules.clear()` runs under a shared lock.
  The model has applications that make no such call.
* A start from the C API that fails leaves its modules in the map: the next one
  is answered SERVER_ALREADY_STARTED until `OVMS_ServerDelete`.
* drogon runs once in a process: a second start with a REST port in one application
  waits five seconds and fails. A start without one works.
* The metrics module never becomes INITIALIZED. Readiness stays true while gRPC
  and HTTP are stopped. The deadline of gRPC's shutdown cancels a request's context, which
  the handlers do not look at.
* `Server::setShutdownRequest` counts its attempts past zero: a lock obtained at the
  last attempt is reported as a failure, and one never obtained as a success.

## 6. Not modelled

Tensors as numbers, images, strings, serialization and formatting; OpenVINO,
MediaPipe, OpenVINO GenAI, libgit2 (but for its LFS filter, a patch that is in the
repository and is modelled by what it leaves on disk), curl, the HTTP and gRPC servers, which are not
in the repository (they enter as steps that succeed or fail); memory reclamation:
dangling references and data races on containers (for instance the unlocked set of
subscribers) are listed as hazards where they matter; an exception in the step of
the continuous batching executor, which exits the process; the Gemma 4 branches of
the output parser, exceptions of parsers and the JSON of tool arguments; the
fields of the chat APIs' JSON, their requests, log probabilities and usage; `index.lock`
left by a kill; authentication and proxies; the Windows service, the profiler, and the
modes that list models or only write a graph, which start no server. PROJECT.json lists every component
with its status.

## 7. Plan

1. Theorems: `SessionsAreSound` and `ReturnsClean` of `PipelineExecution` (sessions and
   streams conserved).
2. Cloud file systems: what a failed download leaves of a version's directory.

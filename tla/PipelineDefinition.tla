-------------------------- MODULE PipelineDefinition --------------------------
(***************************************************************************)
(* One DAG pipeline, PipelineDefinition (src/src/dags), between the        *)
(* configuration thread, the requests that build pipelines from it, the    *)
(* cleaner thread that deinitializes custom node resources, and a predict  *)
(* thread that reloads a model with shape or batch size "auto" and         *)
(* notifies the pipelines subscribed to it.                                *)
(*                                                                         *)
(* The status is written by two threads without a lock: handle() reads     *)
(* the current state and writes the next one, and the predict thread's     *)
(* event is modelled as these two steps.  A model's subscribers are read   *)
(* without a lock too.                                                     *)
(*                                                                         *)
(* A definition is [dl |-> node names to models, custom |-> node names to  *)
(* library parameters]; the rest of a node (connections, shapes, aliases)  *)
(* decides whether validation passes, and validation may always fail.      *)
(* A "model" is what a DL node refers to: a model name, or one version.    *)
(***************************************************************************)
EXTENDS Integers, FiniteSets

CONSTANTS
    Requests,           \* threads that run PipelineDefinition::create
    Models,             \* what DL nodes refer to
    Versions,           \* those that are one version of a model
    Definitions,        \* contents the configuration may give the pipeline
    NoDefinition,       \* the configuration has no such pipeline
    Poll,               \* a cycle without a configuration file to load
    NoModel,
    WaitCheckpoints,    \* waitForLoaded timeout / 1 ms
    LiveManagers        \* bound on the managers alive for one node

ASSUME DefinitionsAssumption ==
    /\ {NoDefinition, Poll} \cap Definitions = {} /\ Poll # NoDefinition
    /\ \A d \in Definitions : \A n \in DOMAIN d.dl : d.dl[n] \in Models
ASSUME VersionsAssumption == Versions \subseteq Models
ASSUME NoModelAssumption == NoModel \notin Models
ASSUME WaitCheckpointsAssumption == WaitCheckpoints \in Nat
ASSUME LiveManagersAssumption == LiveManagers \in Nat \ {0}

VARIABLES
    registered,     \* the name is in PipelineFactory::definitions
    state,          \* PipelineDefinitionStatus
    handles,        \* owners of a ServableDefinitionUnloadGuard
    nodeInfos,
    connections,
    nodeResources,  \* custom node to its manager (CNLIMWrapper)
    resources,      \* managers the cleaner watches: those not deinitialized
    subs,           \* models the definition is subscribed to
    models,         \* what validation finds of each model
    seen,           \* history: models at the last validation
    gated,          \* models refused dynamic parameters while subscribed
    pc, next,       \* the configuration thread and what it applies
    note,           \* the predict thread in receiveNotification
    rpc,            \* the requests
    checkpoints,    \* waitCheckpointsCounter
    built           \* the Pipeline of a request

object == <<nodeInfos, connections, nodeResources>>
config == <<pc, next, gated>>
requests == <<rpc, checkpoints, built>>
vars == <<registered, state, handles, object, resources, subs, models, seen,
          config, note, requests>>

States == {"BEGIN", "RELOADING", "LOADING_PRECONDITION_FAILED",
           "LOADING_PRECONDITION_FAILED_REQUIRED_REVALIDATION",
           "AVAILABLE_REQUIRED_REVALIDATION", "AVAILABLE", "RETIRED"}
Failed == "LOADING_PRECONDITION_FAILED"
FailedStale == "LOADING_PRECONDITION_FAILED_REQUIRED_REVALIDATION"
AvailableStale == "AVAILABLE_REQUIRED_REVALIDATION"

\* Model states: not in ModelManager, without a version validation accepts,
\* fine, or with dynamic parameters, which pipelines may not use.
ModelStates == {"absent", "broken", "ok", "auto"}

EmptyMap == [n \in {} |-> NoModel]
Empty == [dl |-> EmptyMap, custom |-> EmptyMap]
NoPipeline == [nodes |-> Empty, managers |-> EmptyMap]

UsedModels(d) == {d.dl[n] : n \in DOMAIN d.dl}
NodeNames(d) == DOMAIN d.dl \cup DOMAIN d.custom
Managers ==
    UNION {{[node |-> n, params |-> d.custom[n], id |-> i] :
               n \in DOMAIN d.custom, i \in 1 .. LiveManagers} :
           d \in Definitions}

ConfigControl == {"idle", "apply", "unsubscribe", "drain", "connections",
                  "validate", "retire", "retire_drain", "retire_connections",
                  "gate", "thrown"}
RequestControl == {"idle", "check", "unguarded", "wait", "build", "connect",
                   "run", "thrown"}
Holding == {"check", "build", "connect"}

TypeOK ==
    /\ registered \in BOOLEAN
    /\ state \in States
    /\ handles \in SUBSET Requests
    /\ nodeInfos \in Definitions \cup {Empty}
    /\ connections \in Definitions \cup {Empty}
    /\ \A n \in DOMAIN nodeResources : nodeResources[n] \in Managers
    /\ resources \in SUBSET Managers
    /\ subs \in SUBSET Models
    /\ models \in [Models -> ModelStates]
    /\ seen \in [Models -> ModelStates]
    /\ gated \in SUBSET Models
    /\ pc \in ConfigControl
    /\ next \in Definitions \cup {NoDefinition, Poll}
    /\ note \in [model : Models \cup {NoModel}, read : States \cup {"none"}]
    /\ rpc \in [Requests -> RequestControl]
    /\ checkpoints \in [Requests -> 0 .. WaitCheckpoints]
    /\ \A r \in Requests : built[r].nodes \in Definitions \cup {Empty}

NoNote == [model |-> NoModel, read |-> "none"]

Init ==
    /\ registered = FALSE
    /\ state = "BEGIN"
    /\ handles = {}
    /\ nodeInfos = Empty /\ connections = Empty
    /\ nodeResources = EmptyMap /\ resources = {}
    /\ subs = {}
    /\ models = [m \in Models |-> "absent"]
    /\ seen = models
    /\ gated = {}
    /\ pc = "idle" /\ next = Poll
    /\ note = NoNote
    /\ rpc = [r \in Requests |-> "idle"]
    /\ checkpoints = [r \in Requests |-> 0]
    /\ built = [r \in Requests |-> NoPipeline]

-----------------------------------------------------------------------------
(* PipelineDefinitionStatus *)

\* The state after an event; "logic_error" where the code throws.
Handle(s, event) ==
    CASE event = "Reload" ->
           IF s \in {"BEGIN", "RELOADING"} THEN "logic_error" ELSE "RELOADING"
      [] event = "ValidationPassed" ->
           IF s \in {"AVAILABLE", Failed, "RETIRED"} THEN "logic_error"
                                                     ELSE "AVAILABLE"
      [] event = "ValidationFailed" ->
           IF s \in {"AVAILABLE", Failed, "RETIRED"} THEN "logic_error"
                                                     ELSE Failed
      [] event = "UsedModelChanged" ->
           IF s \in {"BEGIN", "RELOADING", "RETIRED"} THEN "logic_error"
           ELSE IF s \in {"AVAILABLE", AvailableStale} THEN AvailableStale
           ELSE FailedStale
      [] event = "Retire" ->
           IF s \in {"BEGIN", "RELOADING", "RETIRED"} THEN "logic_error"
                                                      ELSE "RETIRED"

IsAvailable == state \in {"AVAILABLE", AvailableStale}
CanEndLoaded == IsAvailable \/ state \in {FailedStale, "BEGIN", "RELOADING"}
IsRevalidationRequired == state \in {FailedStale, AvailableStale}

\* The configuration thread handles an event and goes on, or throws.
Fire(event, where) ==
    LET s == Handle(state, event)
    IN IF s = "logic_error" THEN pc' = "thrown" /\ UNCHANGED state
                            ELSE pc' = where /\ state' = s

-----------------------------------------------------------------------------
(* Plausible mistakes in the code below; each is there to show that some    *)
(* property of this module notices it, and no specification uses them.      *)

\* reload does not wait for the requests that build pipelines.
ReloadDoesNotDrain ==
    /\ pc = "drain"
    /\ nodeResources' =
           [n \in {n \in DOMAIN nodeResources :
                     ~ (n \in DOMAIN nodeInfos.custom
                        /\ n \notin NodeNames(next))} |-> nodeResources[n]]
    /\ nodeInfos' = next
    /\ pc' = "connections"
    /\ UNCHANGED <<registered, state, handles, connections, resources, subs,
                   models, seen, next, gated, note, requests>>

\* makeSubscriptions is only called by createDefinition.
ReloadDoesNotSubscribe ==
    /\ pc = "connections"
    /\ connections' = next
    /\ pc' = "validate"
    /\ UNCHANGED <<registered, state, handles, nodeInfos, nodeResources,
                   resources, subs, models, seen, next, gated, note, requests>>

\* waitForLoaded waits for the pipeline with its guard.
SeesNotLoadedKeepsGuard(r) ==
    /\ rpc[r] = "check"
    /\ checkpoints[r] > 0
    /\ ~ IsAvailable
    /\ rpc' = [rpc EXCEPT ![r] = "unguarded"]
    /\ UNCHANGED <<registered, state, handles, object, resources, subs, models,
                   seen, config, note, checkpoints, built>>

-----------------------------------------------------------------------------
(* The configuration thread, under configMtx *)

\* loadConfig: models first, then the pipelines of the file.  Models never
\* leave ModelManager.  A model a pipeline is subscribed to is refused
\* dynamic parameters; such configurations are tried again at the end.
\* Loading a model takes its loadingMutex, which a predict thread that
\* reloads it holds.
LoadModels(touched, found) ==
    LET refused == {m \in touched \cap subs : found[m] = "auto"}
        loaded == touched \ refused
    IN /\ pc = "idle"
       /\ note.model \notin touched
       /\ models' = [m \in Models |-> IF m \in loaded THEN found[m]
                                                     ELSE models[m]]
       /\ gated' = refused
       /\ IF loaded \cap subs = {}
          THEN pc' = "apply" /\ UNCHANGED state
          ELSE Fire("UsedModelChanged", "apply")
       /\ UNCHANGED <<registered, handles, object, resources, subs, seen, note,
                      requests>>

LoadConfig ==
    \E d \in Definitions \cup {NoDefinition}, touched \in SUBSET Models :
        \E found \in [touched -> ModelStates \ {"absent"}] :
            LoadModels(touched, found) /\ next' = d

\* updateConfigurationWithoutConfigFile: versions may come and go, the
\* names and the configurations of models stay; a subscribed model with
\* dynamic parameters is refused, and not tried again.
UpdateConfigurationWithoutConfigFile ==
    \E touched \in SUBSET Models :
        \E found \in [touched -> ModelStates \ {"absent"}] :
            /\ \A m \in touched :
                  /\ models[m] = "absent" => m \in Versions
                  /\ models[m] = "auto" => m \notin subs /\ found[m] # "ok"
                  /\ models[m] = "ok" => found[m] # "auto"
            /\ LoadModels(touched, found)
            /\ next' = Poll

\* revalidatePipelines
RevalidatePipelines ==
    /\ pc = "apply"
    /\ next = Poll
    /\ pc' = IF registered /\ IsRevalidationRequired THEN "validate"
                                                    ELSE "gate"
    /\ UNCHANGED <<registered, state, handles, object, resources, subs, models,
                   seen, next, gated, note, requests>>

\* The models makeSubscriptions finds.
Subscribable(d) == {m \in UsedModels(d) : models[m] # "absent"}

\* PipelineFactory::createDefinition: the new definition is validated before
\* it can be found by name, and subscribed before it is validated.
CreateDefinition ==
    /\ pc = "apply"
    /\ next \in Definitions
    /\ ~ registered
    /\ state' = "BEGIN"
    /\ nodeInfos' = next
    /\ connections' = next
    /\ nodeResources' = EmptyMap
    /\ subs' = Subscribable(next)
    /\ pc' = "validate"
    /\ UNCHANGED <<registered, handles, resources, models, seen, next, gated,
                   note, requests>>

\* PipelineDefinition::reload
ReloadDefinition ==
    /\ pc = "apply"
    /\ next \in Definitions
    /\ registered
    /\ Fire("Reload", "unsubscribe")
    /\ UNCHANGED <<registered, handles, object, resources, subs, models, seen,
                   next, gated, note, requests>>

ResetSubscriptions ==
    /\ pc = "unsubscribe"
    /\ subs' = {}
    /\ pc' = "drain"
    /\ UNCHANGED <<registered, state, handles, object, resources, models, seen,
                   next, gated, note, requests>>

\* Managers of the old custom nodes whose name the new definition does not
\* have are dropped; the others stay.
ReloadDrained ==
    /\ pc = "drain"
    /\ handles = {}
    /\ nodeResources' =
           [n \in {n \in DOMAIN nodeResources :
                     ~ (n \in DOMAIN nodeInfos.custom
                        /\ n \notin NodeNames(next))} |-> nodeResources[n]]
    /\ nodeInfos' = next
    /\ pc' = "connections"
    /\ UNCHANGED <<registered, state, handles, connections, resources, subs,
                   models, seen, next, gated, note, requests>>

ReloadConnections ==
    /\ pc = "connections"
    /\ connections' = next
    /\ subs' = Subscribable(next)
    /\ pc' = "validate"
    /\ UNCHANGED <<registered, state, handles, nodeInfos, nodeResources,
                   resources, models, seen, next, gated, note, requests>>

\* PipelineFactory::retireOtherThan
RetireOtherThan ==
    /\ pc = "apply"
    /\ next = NoDefinition
    /\ registered /\ state # "RETIRED"
    /\ subs' = {}
    /\ pc' = "retire"
    /\ UNCHANGED <<registered, state, handles, object, resources, models, seen,
                   next, gated, note, requests>>

NothingToRetire ==
    /\ pc = "apply"
    /\ next = NoDefinition
    /\ ~ registered \/ state = "RETIRED"
    /\ pc' = "gate"
    /\ UNCHANGED <<registered, state, handles, object, resources, subs, models,
                   seen, next, gated, note, requests>>

Retire ==
    /\ pc = "retire"
    /\ Fire("Retire", "retire_drain")
    /\ UNCHANGED <<registered, handles, object, resources, subs, models, seen,
                   next, gated, note, requests>>

RetireDrained ==
    /\ pc = "retire_drain"
    /\ handles = {}
    /\ nodeResources' = EmptyMap
    /\ nodeInfos' = Empty
    /\ pc' = "retire_connections"
    /\ UNCHANGED <<registered, state, handles, connections, resources, subs,
                   models, seen, next, gated, note, requests>>

RetireConnections ==
    /\ pc = "retire_connections"
    /\ connections' = Empty
    /\ pc' = "gate"
    /\ UNCHANGED <<registered, state, handles, nodeInfos, nodeResources,
                   resources, subs, models, seen, next, gated, note, requests>>

-----------------------------------------------------------------------------
(* PipelineDefinition::validate; ValidationResultNotifier fires the event   *)
(* on every path out of it                                                  *)

\* A model or a MediaPipe graph has the name.  createDefinition then drops
\* the definition; a registered one has failed its validation.
NameOccupied ==
    /\ pc = "validate"
    /\ Fire("ValidationFailed", "gate")
    /\ seen' = models
    /\ IF registered
       THEN UNCHANGED <<object, subs>>
       ELSE /\ nodeInfos' = Empty
            /\ connections' = Empty
            /\ subs' = {}
            /\ UNCHANGED nodeResources
    /\ UNCHANGED <<registered, handles, resources, models, next, gated, note,
                   requests>>

IsFresh(n, i) ==
    [node |-> n, params |-> nodeInfos.custom[n], id |-> i] \notin resources

NewManager(n) ==
    [node |-> n, params |-> nodeInfos.custom[n],
     id |-> CHOOSE i \in 1 .. LiveManagers : IsFresh(n, i)]

\* initializeNodeResources: a manager is initialized for every custom node,
\* up to the first failure, and handed to the cleaner; emplace keeps the one
\* the node already has.
InitializeNodeResources(done) ==
    /\ \A n \in done : \E i \in 1 .. LiveManagers : IsFresh(n, i)
    /\ resources' = resources \cup {NewManager(n) : n \in done}
    /\ nodeResources' = [n \in DOMAIN nodeResources \cup done |->
                            IF n \in DOMAIN nodeResources
                            THEN nodeResources[n] ELSE NewManager(n)]

\* The nodes can be valid: there is a request node, and every model is there
\* without dynamic parameters.
Validatable ==
    /\ nodeInfos # Empty
    /\ \A m \in UsedModels(nodeInfos) : models[m] = "ok"

\* A plausible mistake: the result of initializeNodeResources is not looked
\* at.
ValidateIgnoresInitialize(done, passed) ==
    /\ pc = "validate"
    /\ passed => Validatable
    /\ InitializeNodeResources(done)
    /\ Fire(IF passed THEN "ValidationPassed" ELSE "ValidationFailed", "gate")
    /\ registered' = TRUE
    /\ seen' = models
    /\ UNCHANGED <<handles, nodeInfos, connections, subs, models, next, gated,
                   note, requests>>

Validate(done, passed) ==
    /\ pc = "validate"
    /\ passed => Validatable /\ done = DOMAIN nodeInfos.custom
    /\ InitializeNodeResources(done)
    /\ Fire(IF passed THEN "ValidationPassed" ELSE "ValidationFailed", "gate")
    /\ registered' = TRUE
    /\ seen' = models
    /\ UNCHANGED <<handles, nodeInfos, connections, subs, models, next, gated,
                   note, requests>>

\* tryReloadGatedModelConfigs, after the pipelines of the file are loaded.
TryReloadGatedModelConfigs ==
    LET retried == IF next = Poll THEN {} ELSE gated \ subs
    IN /\ pc = "gate"
       /\ note.model \notin retried
       /\ \E found \in [retried -> {"auto", "broken"}] :
              models' = [m \in Models |-> IF m \in retried THEN found[m]
                                                        ELSE models[m]]
       /\ gated' = {}
       /\ next' = Poll
       /\ pc' = "idle"
       /\ UNCHANGED <<registered, state, handles, object, resources, subs,
                      seen, note, requests>>

-----------------------------------------------------------------------------
(* A predict thread reloads model m for its own shape and notifies          *)

\* receiveNotification: handle() reads the state ...
NotifySubscribers(m) ==
    /\ note = NoNote
    /\ models[m] = "auto"
    /\ m \in subs
    /\ note' = [model |-> m, read |-> state]
    /\ UNCHANGED <<registered, state, handles, object, resources, subs, models,
                   seen, config, requests>>

\* ... and writes the next one, keeps it, or throws.
ReceiveNotification ==
    LET s == Handle(note.read, "UsedModelChanged")
    IN /\ note # NoNote
       /\ state' = IF s \in {"logic_error", note.read} THEN state ELSE s
       /\ note' = NoNote
       /\ UNCHANGED <<registered, handles, object, resources, subs, models,
                      seen, config, requests>>

-----------------------------------------------------------------------------
(* cleanupResources: managers nobody else refers to are deinitialized *)

References ==
    {nodeResources[n] : n \in DOMAIN nodeResources}
        \cup UNION {{built[r].managers[n] : n \in DOMAIN built[r].managers} :
                    r \in Requests}

CleanupResources ==
    /\ resources \ References # {}
    /\ resources' = resources \cap References
    /\ UNCHANGED <<registered, state, handles, object, subs, models, seen,
                   config, note, requests>>

-----------------------------------------------------------------------------
(* PipelineDefinition::create, from waitForLoaded on *)

RGoto(r, where) == rpc' = [rpc EXCEPT ![r] = where]

\* Inference waits; metadata and the C API ask with timeout 0.
Arrive(r, timeout) ==
    /\ rpc[r] = "idle"
    /\ registered
    /\ handles' = handles \cup {r}
    /\ checkpoints' = [checkpoints EXCEPT ![r] = timeout]
    /\ RGoto(r, "check")
    /\ UNCHANGED <<registered, state, object, resources, subs, models, seen,
                   config, note, built>>

SeesAvailable(r) ==
    /\ rpc[r] = "check"
    /\ IsAvailable
    /\ RGoto(r, "build")
    /\ UNCHANGED <<registered, state, handles, object, resources, subs, models,
                   seen, config, note, checkpoints, built>>

\* Within the loop the guard is given up before anything else.
SeesNotLoaded(r) ==
    /\ rpc[r] = "check"
    /\ checkpoints[r] > 0
    /\ ~ IsAvailable
    /\ handles' = handles \ {r}
    /\ RGoto(r, "unguarded")
    /\ UNCHANGED <<registered, state, object, resources, subs, models, seen,
                   config, note, checkpoints, built>>

\* After the last checkpoint the error is returned and the guard destroyed.
WaitTimesOut(r) ==
    /\ rpc[r] = "check"
    /\ checkpoints[r] = 0
    /\ ~ IsAvailable
    /\ handles' = handles \ {r}
    /\ RGoto(r, "idle")
    /\ UNCHANGED <<registered, state, object, resources, subs, models, seen,
                   config, note, checkpoints, built>>

GivesUpOrWaits(r) ==
    /\ rpc[r] = "unguarded"
    /\ RGoto(r, IF CanEndLoaded THEN "wait" ELSE "idle")
    /\ UNCHANGED <<registered, state, handles, object, resources, subs, models,
                   seen, config, note, checkpoints, built>>

\* The condition variable's wait ends, notified or after 1 ms.
WaitEnds(r) ==
    /\ rpc[r] = "wait"
    /\ handles' = handles \cup {r}
    /\ checkpoints' = [checkpoints EXCEPT ![r] = @ - 1]
    /\ RGoto(r, "check")
    /\ UNCHANGED <<registered, state, object, resources, subs, models, seen,
                   config, note, built>>

\* Nodes are made from nodeInfos; nodeResources.at throws when a custom node
\* has no manager, and without nodes there is no entry node.
BuildNodes(r) ==
    /\ rpc[r] = "build"
    /\ IF nodeInfos # Empty
           /\ DOMAIN nodeInfos.custom \subseteq DOMAIN nodeResources
       THEN /\ built' = [built EXCEPT ![r] =
                   [nodes |-> nodeInfos,
                    managers |-> [n \in DOMAIN nodeInfos.custom |->
                                    nodeResources[n]]]]
            /\ RGoto(r, "connect")
            /\ UNCHANGED handles
       ELSE /\ handles' = handles \ {r}
            /\ RGoto(r, "thrown")
            /\ UNCHANGED built
    /\ UNCHANGED <<registered, state, object, resources, subs, models, seen,
                   config, note, checkpoints>>

\* Nodes are connected by connections, which nodes.at checks; the guard ends
\* with create.
ConnectNodes(r) ==
    /\ rpc[r] = "connect"
    /\ handles' = handles \ {r}
    /\ RGoto(r, IF connections = built[r].nodes THEN "run" ELSE "thrown")
    /\ UNCHANGED <<registered, state, object, resources, subs, models, seen,
                   config, note, checkpoints, built>>

\* The pipeline has run, without a guard, and is destroyed.
PipelineEnds(r) ==
    /\ rpc[r] = "run"
    /\ built' = [built EXCEPT ![r] = NoPipeline]
    /\ RGoto(r, "idle")
    /\ UNCHANGED <<registered, state, handles, object, resources, subs, models,
                   seen, config, note, checkpoints>>

-----------------------------------------------------------------------------
ConfigStep ==
    \/ RevalidatePipelines
    \/ CreateDefinition
    \/ ReloadDefinition
    \/ ResetSubscriptions
    \/ ReloadDrained
    \/ ReloadConnections
    \/ RetireOtherThan
    \/ NothingToRetire
    \/ Retire
    \/ RetireDrained
    \/ RetireConnections
    \/ NameOccupied
    \/ \E done \in SUBSET DOMAIN nodeInfos.custom, passed \in BOOLEAN :
          Validate(done, passed)
    \/ TryReloadGatedModelConfigs

RequestStep(r) ==
    \/ SeesAvailable(r)
    \/ SeesNotLoaded(r)
    \/ WaitTimesOut(r)
    \/ GivesUpOrWaits(r)
    \/ WaitEnds(r)
    \/ BuildNodes(r)
    \/ ConnectNodes(r)
    \/ PipelineEnds(r)

Arrives == \E r \in Requests, t \in {0, WaitCheckpoints} : Arrive(r, t)

Next ==
    \/ LoadConfig
    \/ UpdateConfigurationWithoutConfigFile
    \/ ConfigStep
    \/ \E m \in Models : NotifySubscribers(m)
    \/ ReceiveNotification
    \/ CleanupResources
    \/ Arrives
    \/ \E r \in Requests : RequestStep(r)

Spec == Init /\ [][Next]_vars

\* Threads run, and the cleaner wakes up periodically.  Nobody is obliged to
\* send a request or to change the configuration.
Fairness ==
    /\ WF_vars(ConfigStep)
    /\ WF_vars(ReceiveNotification)
    /\ WF_vars(CleanupResources)
    /\ \A r \in Requests : WF_vars(RequestStep(r))

FairSpec == Spec /\ Fairness

-----------------------------------------------------------------------------
(* Properties *)

\* While a request builds its pipeline, nothing it reads changes: not the
\* nodes, the connections or the map of managers, whatever reload, retire
\* and revalidation do meanwhile.  Revalidation does not wait for requests.
NoChangeWhileBuilding ==
    [][(\E r \in Requests : rpc[r] \in {"build", "connect"})
          => UNCHANGED object]_vars

\* A request that got past waitForLoaded builds a whole pipeline: nodes and
\* connections of one definition, a manager for every custom node, and no
\* manager deinitialized while the pipeline runs, long after the guard.
PipelinesAreWhole ==
    \A r \in Requests :
        /\ rpc[r] # "thrown"
        /\ \A n \in DOMAIN built[r].managers :
               built[r].managers[n] \in resources

\* The configuration thread never drives the status machine into a
\* transition it refuses with logic_error, which nothing on that thread
\* catches.
ConfigEventsAreLegal == pc # "thrown"

\* At rest, a pipeline that is not waiting for revalidation was validated
\* against its models as they are: no change of a model is missed.  A version
\* that did not exist when the pipeline subscribed is not subscribed to, and
\* what happens to it later is missed, in both properties below.
NoChangeMissed ==
    pc = "idle" /\ registered /\ state \in {"AVAILABLE", Failed} =>
        \A m \in UsedModels(nodeInfos) \ (Versions \ subs) :
            models[m] = seen[m]

\* "Called after a model reload to ensure all pipelines depending on that
\* model are still valid and can be executed" (pipeline_factory.hpp): at
\* rest, validation would accept the models of an available pipeline.
AvailableCanBeServed ==
    pc = "idle" /\ registered /\ state = "AVAILABLE" =>
        \A m \in UsedModels(nodeInfos) \ (Versions \ subs) : models[m] = "ok"

\* Once new requests stop, loading a configuration ends: reload and retire do
\* not wait for guards for ever.
ConfigurationEnds ==
    (<>[][~ Arrives]_vars) => (pc # "idle" ~> pc = "idle")

\* Every request ends, also while the pipeline is reloaded again and again.
RequestsEnd == \A r \in Requests : rpc[r] # "idle" ~> rpc[r] = "idle"

\* A retired pipeline is "unloaded completely from the server after already
\* running inference operations have been completed": its managers are
\* deinitialized unless the configuration brings it back.
RetiredIsUnloaded ==
    pc = "idle" /\ state = "RETIRED" ~> resources = {} \/ pc # "idle"

\* No thread meets what it has no answer for: a half-built pipeline, a
\* manager that is gone, an illegal event.
PipelineSafety == PipelinesAreWhole /\ ConfigEventsAreLegal

\* The state of the definition is that of its models at rest.
StateIsCurrent == TypeOK /\ NoChangeMissed /\ AvailableCanBeServed

\* Nothing waits for ever: not the configuration thread for guards, not a
\* request for the pipeline, not a manager for its last pipeline.
EverythingEnds == ConfigurationEnds /\ RequestsEnd /\ RetiredIsUnloaded
=============================================================================

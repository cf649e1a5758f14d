----------------------------- MODULE ConfigReload -----------------------------
(***************************************************************************)
(* The configuration file of the server and everything that follows from   *)
(* one reading of it: ModelManager::loadConfig under configMtx, called at  *)
(* start, by the watcher thread and by the REST config reload request,     *)
(* while the file is edited.                                               *)
(*                                                                         *)
(* A load is a sequence of steps over the sections of the file: custom     *)
(* loaders, graphs, models one by one, the models of graph subconfigs,     *)
(* the retirement of what the file no longer has, custom node libraries,   *)
(* pipelines one by one, graphs one by one, and the models that were       *)
(* refused dynamic parameters while a pipeline used them.  Requests see    *)
(* the registries between any two of these steps.                          *)
(*                                                                         *)
(* ModelVersions and PipelineDefinition model what one model or pipeline   *)
(* does with its part of the file; here a model is its configuration and   *)
(* whether it serves.                                                      *)
(***************************************************************************)
EXTENDS Integers, Sequences, FiniteSets, FiniteSetsExt

CONSTANTS
    Files,          \* contents of the file: documents of the schema
    NotJson,        \* content that does not parse
    BadSchema,      \* content that parses but is not of the schema
    Missing,        \* the file cannot be opened
    Names,          \* names of servables, loaders and libraries
    Clients,        \* REST threads in processConfigReloadRequest
    Watcher,        \* the model manager thread; it stands for the main
                    \* thread during the load at start, before it exists
    Fragile,        \* the names that may become impossible to load
    NoOne, NoName,
    MaxEdits, MaxBreaks, MaxRequests,   \* bounds on what the outside does
    MaxReads        \* MAX_CONFIG_JSON_READ_RETRY_COUNT

ASSUME MaxReadsAssumption == MaxReads \in Nat \ {0}
ASSUME BoundsAssumption ==
    MaxEdits \in Nat /\ MaxBreaks \in Nat /\ MaxRequests \in Nat
ASSUME ContentsAssumption ==
    /\ {NotJson, BadSchema, Missing} \cap Files = {}
    /\ Missing \notin {NotJson, BadSchema}
ASSUME ThreadsAssumption ==
    /\ Watcher \notin Clients
    /\ NoOne \notin Clients \cup {Watcher}
ASSUME NamesAssumption == NoName \notin Names /\ Fragile \subseteq Names

(* The entries of the files: of the model lists, of the graphs, which may be *)
(* in either list, of the graphs' own files and of the pipelines.            *)
Entries(list) == {list[i] : i \in DOMAIN list}
IsArray(list) == list \in Seq(Entries(list))
MainEntries == UNION {Entries(f.models) : f \in Files}
GraphEntries == (UNION {Entries(f.graphs) : f \in Files})
                    \cup {e \in MainEntries : e.kind = "graph"}
SubEntries == UNION {Entries(g.sub) : g \in GraphEntries}
PipelineEntries == UNION {Entries(f.pipelines) : f \in Files}

ASSUME FilesAssumption ==
    /\ \A f \in Files :
           IsArray(f.models) /\ IsArray(f.graphs) /\ IsArray(f.pipelines)
    /\ \A g \in GraphEntries : IsArray(g.sub) /\ g.aliases \subseteq Names
    /\ \A e \in MainEntries \cup SubEntries \cup GraphEntries
                  \cup PipelineEntries :
           e.name \in Names
    /\ \A p \in PipelineEntries : p.uses \subseteq Names

VARIABLES
    file, edits,    \* the content of the file, and how often it changed
    broken, breaks, \* models, graphs and libraries that cannot be loaded now
    models,         \* ModelManager::models
    pipelines,      \* PipelineFactory::definitions
    graphs,         \* MediapipeFactory::definitions
    aliases,        \* MediapipeFactory::loraAliases
    unchecked,      \* history: aliases registered without the check of
                    \* their names, or in spite of being their graph's own
    servedConfigs,  \* servedModelConfigs
    loaders,        \* CustomLoaders
    libraries,      \* CustomNodeLibraryManager
    md5,            \* lastConfigFileMD5, as the content it was computed from
    last,           \* lastLoadConfigStatus
    owner,          \* configMtx
    load,           \* the local variables of loadConfig
    at,             \* where each thread is
    sees,           \* history: contents of the file since a request began
    answer,         \* what a request returned
    reloads         \* requests made

registries == <<models, pipelines, graphs, aliases, unchecked, servedConfigs,
                loaders, libraries>>
outside == <<file, edits, broken, breaks>>
threads == <<owner, at, sees, answer, reloads>>
configVars == <<outside, registries, md5, last, load, threads>>

Threads == Clients \cup {Watcher}
Contents == Files \cup {NotJson, BadSchema, Missing}

\* What a model is given: what isReloadRequired compares, whether a
\* parameter is "auto", and its custom loader; cfg 0 is no configuration.
Config(item) == [cfg |-> item.cfg, auto |-> item.auto, loader |-> item.loader]
NoConfig == [cfg |-> 0, auto |-> FALSE, loader |-> NoName]

NoModel == [state |-> "none", config |-> NoConfig]
NoPipeline == [state |-> "none", uses |-> {}, library |-> NoName, subs |-> {}]
NoGraph == [state |-> "none", ver |-> 0]
EmptyFile == [models |-> <<>>, graphs |-> <<>>, pipelines |-> <<>>,
              listed |-> {}, loaders |-> {}, libraries |-> {}, metrics |-> TRUE]

IsRegistered(r, n) == r[n].state # "none"
Serves(r, n) == r[n].state = "available"

NoLoad ==
    [stage |-> "none", doc |-> EmptyFile, reads |-> 0, error |-> "OK",
     todo |-> <<>>, after |-> "none", inFile |-> {}, invalid |-> {},
     fresh |-> [n \in Names |-> NoConfig], gated |-> <<>>, graphs |-> <<>>,
     subs |-> <<>>]
NewLoad == [NoLoad EXCEPT !.stage = "read"]

ConfigInit ==
    /\ file \in Contents /\ edits = 0
    /\ broken \in {{}, Fragile} /\ breaks = 0
    /\ models = [n \in Names |-> NoModel]
    /\ pipelines = [n \in Names |-> NoPipeline]
    /\ graphs = [n \in Names |-> NoGraph]
    /\ aliases = [n \in Names |-> NoName] /\ unchecked = {}
    /\ servedConfigs = [n \in Names |-> NoConfig]
    /\ loaders = {} /\ libraries = {}
    /\ md5 = Missing /\ last = "OK"
    /\ owner = Watcher
    /\ load = NewLoad
    /\ at = [t \in Threads |-> IF t = Watcher THEN "start" ELSE "idle"]
    /\ sees = [c \in Clients |-> {}]
    /\ answer = [c \in Clients |-> "none"]
    /\ reloads = 0

Stages == {"none", "read", "loaders", "parse", "models", "subs", "retire",
           "libraries", "pipelines", "graphs", "gated", "ended"}

ConfigTypeOK ==
    /\ file \in Contents /\ md5 \in Contents
    /\ \A n \in Names :
         /\ models[n].state \in {"none", "new", "available", "failed",
                                 "retired"}
         /\ pipelines[n].state \in {"none", "available", "failed", "stale",
                                    "failed_stale", "retired"}
         /\ graphs[n].state \in {"none", "available", "failed", "retired",
                                 "reloading"}
         /\ pipelines[n].subs \subseteq pipelines[n].uses
         /\ aliases[n] \in Names \cup {NoName}
    /\ unchecked \subseteq Names
    /\ owner \in Threads \cup {NoOne}
    /\ load.stage \in Stages
    /\ (load.stage # "none") = (\E t \in Threads : at[t] \in {"start", "load"})

-----------------------------------------------------------------------------
(* Plausible mistakes *)

\* Names of LoRA aliases are forgotten.
GraphExistsWithoutAliases(n) == IsRegistered(graphs, n)

\* A bad entry of the model list ends it.
SkipInvalidEndsList(item) ==
    [load EXCEPT !.todo = <<>>, !.error = "MODEL_CONFIG_INVALID",
                 !.invalid = @ \cup {item.name}]

\* Only models that were loaded anew count as being in the file.
InFileIfReloaded(n, status) ==
    IF status = "OK_NOT_RELOADED" THEN {} ELSE {n}

\* Only models that loaded are looked at again by the watcher.
NewModelConfigIfLoaded(config, status) ==
    IF status \in {"OK", "OK_RELOADED", "OK_NOT_RELOADED"} THEN config
                                                           ELSE NoConfig

\* The file is read again only after a failure.
ReloadNeededAfterFailure == last # "OK"

-----------------------------------------------------------------------------
(* Names *)

ModelExists(n) == IsRegistered(models, n)
PipelineExists(n) == IsRegistered(pipelines, n)
GraphExists(n) == IsRegistered(graphs, n) \/ aliases[n] # NoName

\* findDefinitionByName: the graph of that name, or the one with that alias.
FindGraph(n) ==
    IF IsRegistered(graphs, n) THEN n
    ELSE IF aliases[n] # NoName /\ IsRegistered(graphs, aliases[n])
         THEN aliases[n] ELSE NoName

AliasesConflict(names, own) ==
    \E a \in names :
        \/ ModelExists(a) \/ PipelineExists(a)
        \/ IsRegistered(graphs, a) /\ a # own
        \/ aliases[a] \notin {NoName, own}

-----------------------------------------------------------------------------
(* Reading the file *)

\* The first failure is the status of the whole load.
FirstError(error, status) == IF error = "OK" THEN status ELSE error

EndLoad(status) ==
    /\ last' = status
    /\ load' = [load EXCEPT !.stage = "ended", !.error = status]

\* parseConfig reads the file again, after a delay, when it is missing or
\* does not parse; the md5 is that of the last content it could read.
ParseConfig ==
    /\ load.stage = "read"
    /\ md5' = IF file # Missing THEN file
              ELSE IF load.reads = 0 THEN Missing ELSE md5
    /\ \/ /\ file \in {Missing, NotJson} /\ load.reads + 1 < MaxReads
          /\ load' = [load EXCEPT !.reads = @ + 1]
          /\ UNCHANGED last
       \/ /\ file \in {Missing, NotJson} /\ load.reads + 1 = MaxReads
          /\ EndLoad(IF file = Missing THEN "CONFIG_FILE_INVALID"
                                       ELSE "JSON_INVALID")
       \/ file = BadSchema /\ EndLoad("JSON_INVALID")
       \/ \* The monitoring section counts at start only, and its failure
          \* leaves lastLoadConfigStatus alone.
          /\ file \in Files
          /\ load' = IF at[Watcher] = "start" /\ ~file.metrics
                     THEN [load EXCEPT !.stage = "ended",
                              !.error = "INVALID_METRICS_ENDPOINT"]
                     ELSE [load EXCEPT !.stage = "loaders", !.doc = file]
          /\ UNCHANGED last
    /\ UNCHANGED <<outside, registries, threads>>

\* createCustomLoader: a loader that is known is kept as it is.
OpenedLoaders(wanted) == {w \in wanted : w \in loaders \/ w \notin broken}

\* Without the section the loaders stay.  With it they are kept, added, or
\* deleted in finalize; one that cannot be opened is an error.
LoadCustomLoadersConfig ==
    /\ load.stage = "loaders"
    /\ LET wanted == load.doc.loaders
           opened == OpenedLoaders(wanted)
           section == "loaders" \in load.doc.listed
       IN /\ loaders' = IF section THEN opened ELSE loaders
          /\ load' = [load EXCEPT !.stage = "parse",
                !.error = IF section /\ opened # wanted
                          THEN "CUSTOM_LOADER_LIBRARY_INVALID" ELSE @]
    /\ UNCHANGED <<outside, models, pipelines, graphs, aliases, unchecked,
                   servedConfigs, libraries, md5, last, threads>>

\* mediapipe_config_list is parsed up to its first bad entry.
ParseMediapipeConfig ==
    /\ load.stage = "parse"
    /\ LET list == load.doc.graphs
           Bad(i) == list[i].kind = "invalid"
           bad == {i \in DOMAIN list : Bad(i)}
           valid == IF bad = {} THEN list ELSE SubSeq(list, 1, Min(bad) - 1)
       IN load' = [load EXCEPT !.stage = "models", !.after = "subs",
                      !.todo = load.doc.models, !.graphs = valid,
                      !.error = IF bad = {} THEN @
                                ELSE FirstError(@, "JSON_INVALID")]
    /\ UNCHANGED <<outside, registries, md5, last, threads>>

-----------------------------------------------------------------------------
(* Models *)

Subscribed(n) == \E p \in Names : n \in pipelines[p].subs

\* reloadModelWithVersions on model n: its status and what becomes of it.
\* A model loads unless it is broken now; ModelVersions has the details.
Reloaded(n, config) ==
    LET m == models[n]
    IN  IF Subscribed(n) /\ config.auto
        THEN [status |-> "REQUESTED_DYNAMIC_PARAMETERS_ON_SUBSCRIBED_MODEL",
              model |-> m]
        ELSE IF config.loader # NoName /\ config.loader \notin loaders
        THEN [status |-> "OK",
              model |-> [m EXCEPT !.state = IF @ \in {"none", "new"} THEN "new"
                                            ELSE "retired"]]
        ELSE IF Serves(models, n) /\ m.config = config
        THEN [status |-> "OK_NOT_RELOADED", model |-> m]
        ELSE IF n \in broken
        THEN [status |-> "MODEL_LOAD_FAILED",
              model |-> [state |-> "failed", config |-> config]]
        ELSE [status |-> "OK_RELOADED",
              model |-> [state |-> "available", config |-> config]]

OkStatus(s) == s \in {"OK", "OK_RELOADED", "OK_NOT_RELOADED"}

\* A model that changed notifies the pipelines subscribed to it.
Notified(changed) ==
    [p \in Names |->
        IF pipelines[p].subs \cap changed = {} THEN pipelines[p]
        ELSE [pipelines[p] EXCEPT !.state =
                 CASE @ = "available" -> "stale"
                   [] @ = "failed" -> "failed_stale"
                   [] OTHER -> @]]

\* Errors of the models of a subconfig are not part of the status.
ModelError(status) ==
    IF load.after = "subs" THEN FirstError(load.error, status) ELSE load.error

\* Every model that was tried is in the file, and its configuration will be
\* looked at again by the watcher, whether or not it loaded.
InFile(n, status) == {n}
NewModelConfig(config, status) == config

ReloadListed(n, config) ==
    LET r == Reloaded(n, config)
        isGated == r.status = "REQUESTED_DYNAMIC_PARAMETERS_ON_SUBSCRIBED_MODEL"
        retry == isGated /\ servedConfigs[n] # NoConfig
    IN  /\ models' = [models EXCEPT ![n] = r.model]
        /\ pipelines' = Notified(IF r.model = models[n] THEN {} ELSE {n})
        /\ servedConfigs' = IF retry THEN [servedConfigs EXCEPT ![n] = NoConfig]
                                     ELSE servedConfigs
        /\ load' = [load EXCEPT
              !.todo = Tail(@),
              !.inFile = @ \cup InFile(n, r.status),
              !.error = IF OkStatus(r.status) THEN @ ELSE ModelError(r.status),
              !.gated = IF retry THEN Append(@, [name |-> n, config |-> config])
                                 ELSE @,
              !.fresh[n] = IF retry THEN servedConfigs[n]
                           ELSE IF isGated THEN @
                           ELSE NewModelConfig(config, r.status)]

SkipInvalid(item) ==
    [load EXCEPT !.todo = Tail(@), !.error = ModelError("MODEL_CONFIG_INVALID"),
                 !.invalid = @ \cup {item.name}]

\* CheckStartFromGraph: an entry with a graph file is a graph.
StartsFromGraph(item) == item.kind = "graph"

\* One entry of a model_config_list.
LoadModel ==
    /\ load.stage = "models" /\ load.todo # <<>>
    /\ LET item == Head(load.todo)
           n == item.name
           Skip(status) == [load EXCEPT !.todo = Tail(@),
                                        !.error = ModelError(status)]
       IN \/ /\ StartsFromGraph(item)
             /\ load' = [load EXCEPT !.todo = Tail(@),
                   !.graphs = IF load.after = "subs" THEN Append(@, item)
                                                     ELSE @]
             /\ UNCHANGED <<models, pipelines, servedConfigs>>
          \/ /\ item.kind = "invalid"
             /\ load' = SkipInvalid(item)
             /\ UNCHANGED <<models, pipelines, servedConfigs>>
          \/ \* An unsupported plugin configuration ends the list.
             /\ item.kind = "unsupported"
             /\ load' = [Skip("PLUGIN_CONFIG_INVALID") EXCEPT !.todo = <<>>]
             /\ UNCHANGED <<models, pipelines, servedConfigs>>
          \/ /\ item.kind = "model"
             /\ IF PipelineExists(n) \/ GraphExists(n) \/ n \in load.inFile
                THEN /\ load' = Skip("MODEL_NAME_OCCUPIED")
                     /\ UNCHANGED <<models, pipelines, servedConfigs>>
                ELSE ReloadListed(n, Config(item))
    /\ UNCHANGED <<outside, graphs, aliases, unchecked, loaders, libraries,
                   md5, last, threads>>

\* loadMediapipeSubConfigModels: the models of each graph's own file; a file
\* that is not valid ends the whole loop.
LoadMediapipeSubConfigModels ==
    /\ \/ /\ load.stage = "models" /\ load.todo = <<>>
          /\ load' = [load EXCEPT !.stage = "subs",
                !.subs = IF load.after = "subs" THEN load.graphs ELSE @]
       \/ /\ load.stage = "subs" /\ load.subs # <<>>
          /\ load' = IF Head(load.subs).subOk
                     THEN [load EXCEPT !.stage = "models", !.after = "more",
                              !.todo = Head(load.subs).sub, !.subs = Tail(@)]
                     ELSE [load EXCEPT !.subs = <<>>]
       \/ /\ load.stage = "subs" /\ load.subs = <<>>
          /\ load' = [load EXCEPT !.stage = "retire"]
    /\ UNCHANGED <<outside, registries, md5, last, threads>>

\* Models that the file no longer has are retired; those it has with an
\* invalid configuration are unloaded and count as failed.
RetireModelsRemovedFromConfigFile ==
    /\ load.stage = "retire"
    /\ LET gone == {n \in Names : ModelExists(n) /\ n \notin load.inFile}
           unload == {n \in gone : models[n].state # "new"}
       IN /\ models' = [n \in Names |->
                           IF n \notin unload THEN models[n]
                           ELSE [models[n] EXCEPT !.state =
                                    IF n \in load.invalid THEN "failed"
                                                          ELSE "retired"]]
          /\ pipelines' = Notified(gone)
    /\ servedConfigs' = load.fresh
    /\ load' = [load EXCEPT !.stage = "libraries"]
    /\ UNCHANGED <<outside, graphs, aliases, unchecked, loaders, libraries,
                   md5, last, threads>>

\* loadLibrary: a library that cannot be opened is skipped without an error.
LoadedLibraries(wanted) == {w \in wanted : w \in libraries \/ w \notin broken}

LoadCustomNodeLibrariesConfig ==
    /\ load.stage = "libraries"
    /\ libraries' = IF "libraries" \notin load.doc.listed THEN libraries
                    ELSE LoadedLibraries(load.doc.libraries)
    /\ load' = [load EXCEPT !.stage = "pipelines", !.inFile = {},
                            !.todo = load.doc.pipelines]
    /\ UNCHANGED <<outside, models, pipelines, graphs, aliases, unchecked,
                   servedConfigs, loaders, md5, last, threads>>

-----------------------------------------------------------------------------
(* Pipelines *)

Validates(n, p) ==
    /\ ~ModelExists(n) /\ ~GraphExists(n)
    /\ p.library = NoName \/ p.library \in libraries
    /\ \A m \in p.uses : Serves(models, m) /\ ~models[m].config.auto

\* processPipelineConfig: a name is loaded once per file; a pipeline that is
\* known is reloaded whether or not its entry changed.
ProcessPipelineConfig ==
    /\ load.stage = "pipelines" /\ load.todo # <<>>
    /\ LET p == Head(load.todo)
           n == p.name
           refused == ~PipelineExists(n) /\ (ModelExists(n) \/ GraphExists(n))
           again == n \in load.inFile
       IN /\ pipelines' =
                IF again \/ refused THEN pipelines
                ELSE [pipelines EXCEPT ![n] =
                        [state |-> IF Validates(n, p) THEN "available"
                                                      ELSE "failed",
                         uses |-> p.uses, library |-> p.library,
                         subs |-> {m \in p.uses : ModelExists(m)}]]
          /\ load' = [load EXCEPT !.todo = Tail(@), !.inFile = @ \cup {n},
                !.error = IF again \/ Validates(n, p) THEN @
                          ELSE FirstError(@, "PIPELINE_DEFINITION_INVALID")]
    /\ UNCHANGED <<outside, models, graphs, aliases, unchecked, servedConfigs,
                   loaders, libraries, md5, last, threads>>

RetiredPipeline(p) == [NoPipeline EXCEPT !.state = "retired"]

RetirePipelinesOtherThan ==
    /\ load.stage = "pipelines" /\ load.todo = <<>>
    /\ pipelines' = [n \in Names |->
                        IF PipelineExists(n) /\ n \notin load.inFile
                        THEN RetiredPipeline(pipelines[n])
                        ELSE pipelines[n]]
    /\ load' = [load EXCEPT !.stage = "graphs", !.todo = load.graphs,
                            !.after = "retire", !.inFile = {}]
    /\ UNCHANGED <<outside, models, graphs, aliases, unchecked, servedConfigs,
                   loaders, libraries, md5, last, threads>>

-----------------------------------------------------------------------------
(* Graphs *)

\* loadMediapipeGraphsConfig first retires what the file does not have.
\* Aliases of a retired graph stay registered.
RetireGraphsOtherThan ==
    /\ load.stage = "graphs" /\ load.after = "retire"
    /\ LET names == {load.graphs[i].name : i \in DOMAIN load.graphs}
       IN graphs' = [n \in Names |->
                        IF IsRegistered(graphs, n) /\ n \notin names
                        THEN [graphs[n] EXCEPT !.state = "retired"]
                        ELSE graphs[n]]
    /\ load' = [load EXCEPT !.after = "graphs"]
    /\ UNCHANGED <<outside, models, pipelines, aliases, unchecked,
                   servedConfigs, loaders, libraries, md5, last, threads>>

\* validate: the status of graph definition own when it is given entry g. A
\* graph that cannot be loaded fails to initialize, unless it has a queue and
\* fails only when the queue starts its graphs; that is before the aliases are
\* compared with the other names.
ValidateGraph(own, g) ==
    IF ModelExists(own) \/ PipelineExists(own)
    THEN "MEDIAPIPE_GRAPH_NAME_OCCUPIED"
    ELSE IF g.name \in broken
    THEN IF g.queued THEN "INTERNAL_ERROR"
                     ELSE "MEDIAPIPE_GRAPH_INITIALIZATION_ERROR"
    ELSE IF AliasesConflict(g.aliases, own) THEN "MEDIAPIPE_GRAPH_NAME_OCCUPIED"
    ELSE "OK"

GraphState(status) == IF status = "OK" THEN "available" ELSE "failed"

\* What a definition has in getLoraAliases after validate: nothing new unless
\* initializeNodes was reached.
FoundAliases(g, status) ==
    IF status \in {"OK", "INTERNAL_ERROR"} THEN g.aliases ELSE {}

RegisterAliases(g, own, new, status) ==
    /\ aliases' = [n \in Names |-> IF n \in new THEN g.name ELSE aliases[n]]
    /\ unchecked' = (unchecked \ new)
                      \cup (IF status = "OK" THEN new \cap {own} ELSE new)

NextGraph(g, status) ==
    load' = [load EXCEPT !.todo = Tail(@), !.after = "graphs",
                !.inFile = @ \cup {g.name},
                !.error = IF status = "OK" THEN @ ELSE FirstError(@, status)]

\* createDefinition: a definition whose name, or alias, is taken is dropped.
\* Any other is kept, and the aliases it has found are registered.
CreateGraph(g) ==
    LET status == IF GraphExists(g.name)
                  THEN "PIPELINE_DEFINITION_ALREADY_EXIST"
                  ELSE ValidateGraph(g.name, g)
        dropped == status \in {"PIPELINE_DEFINITION_ALREADY_EXIST",
                               "MEDIAPIPE_GRAPH_NAME_OCCUPIED"}
    IN  /\ graphs' = IF dropped THEN graphs
                     ELSE [graphs EXCEPT ![g.name] =
                             [state |-> GraphState(status), ver |-> g.ver]]
        /\ RegisterAliases(g, g.name, FoundAliases(g, status), status)
        /\ NextGraph(g, status)

IsReloadRequired(d, g) ==
    graphs[d].state = "retired" \/ g.name # d \/ graphs[d].ver # g.ver

\* reloadDefinition: the aliases of the name are cleared before the reload
\* and those of the new definition registered after it, if it succeeded.
ClearLoraAliases(g, d) ==
    /\ aliases' = [n \in Names |-> IF aliases[n] = g.name THEN NoName
                                                          ELSE aliases[n]]
    /\ unchecked' = {n \in unchecked : aliases[n] # g.name}
    /\ graphs' = [graphs EXCEPT ![d].state = "reloading"]
    /\ load' = [load EXCEPT !.after = "reload"]

ReloadGraph(g, d) ==
    LET status == ValidateGraph(d, g)
    IN  /\ graphs' = [graphs EXCEPT ![d] =
                        [state |-> GraphState(status), ver |-> g.ver]]
        /\ RegisterAliases(g, d, IF status = "OK" THEN g.aliases ELSE {},
                           status)
        /\ NextGraph(g, status)

ProcessMediapipeConfig ==
    /\ load.stage = "graphs" /\ load.todo # <<>> /\ load.after # "retire"
    /\ LET g == Head(load.todo)
           d == FindGraph(g.name)
           done == g.name \in load.inFile
           next == [load EXCEPT !.todo = Tail(@), !.inFile = @ \cup {g.name}]
       IN \/ load.after = "graphs" /\ done
             /\ load' = next /\ UNCHANGED <<graphs, aliases, unchecked>>
          \/ load.after = "graphs" /\ ~done /\ d = NoName
             /\ CreateGraph(g)
          \/ load.after = "graphs" /\ ~done /\ d # NoName
             /\ IF IsReloadRequired(d, g)
                THEN ClearLoraAliases(g, d)
                ELSE load' = next /\ UNCHANGED <<graphs, aliases, unchecked>>
          \/ load.after = "reload"
             /\ ReloadGraph(g, CHOOSE n \in Names :
                                   graphs[n].state = "reloading")
    /\ UNCHANGED <<outside, models, pipelines, servedConfigs, loaders,
                   libraries, md5, last, threads>>

-----------------------------------------------------------------------------
\* Models that were refused are tried once more, now that the pipelines of
\* the file are in place.
TryReloadGatedModelConfigs ==
    /\ load.stage = "gated" /\ load.gated # <<>>
    /\ LET n == Head(load.gated).name
           config == Head(load.gated).config
           r == Reloaded(n, config)
       IN /\ models' = [models EXCEPT ![n] = r.model]
          /\ pipelines' = Notified(IF r.model = models[n] THEN {} ELSE {n})
          /\ servedConfigs' =
                 IF OkStatus(r.status) /\ servedConfigs[n] # NoConfig
                 THEN [servedConfigs EXCEPT ![n] = config]
                 ELSE servedConfigs
          /\ load' = [load EXCEPT !.gated = Tail(@),
                !.error = IF OkStatus(r.status) THEN @
                          ELSE FirstError(@, r.status)]
    /\ UNCHANGED <<outside, graphs, aliases, unchecked, loaders, libraries,
                   md5, last, threads>>

FinishLoad ==
    /\ \/ /\ load.stage = "graphs" /\ load.todo = <<>> /\ load.after = "graphs"
          /\ load' = [load EXCEPT !.stage = "gated"]
          /\ UNCHANGED last
       \/ load.stage = "gated" /\ load.gated = <<>> /\ EndLoad(load.error)
    /\ UNCHANGED <<outside, registries, md5, threads>>

LoadStep ==
    \/ ParseConfig \/ LoadCustomLoadersConfig \/ ParseMediapipeConfig
    \/ LoadModel \/ LoadMediapipeSubConfigModels
    \/ RetireModelsRemovedFromConfigFile \/ LoadCustomNodeLibrariesConfig
    \/ ProcessPipelineConfig \/ RetirePipelinesOtherThan
    \/ RetireGraphsOtherThan \/ ProcessMediapipeConfig
    \/ TryReloadGatedModelConfigs \/ FinishLoad

-----------------------------------------------------------------------------
(* The threads *)

ReloadNeeded == file # Missing /\ file # md5

\* updateConfigurationWithoutConfigFile: every served model is brought up to
\* date with its directory, then pipelines that need it are validated again.
Updated ==
    LET now == {n \in Names : servedConfigs[n] # NoConfig}
        r == [n \in now |-> Reloaded(n, servedConfigs[n])]
        after == [n \in Names |-> IF n \in now THEN r[n].model ELSE models[n]]
        told == Notified({n \in Names : after[n] # models[n]})
        Stale(n) == told[n].state \in {"stale", "failed_stale"}
        Good(n) == /\ told[n].library = NoName \/ told[n].library \in libraries
                   /\ \A m \in told[n].uses : /\ after[m].state = "available"
                                              /\ ~after[m].config.auto
    IN  [models |-> after,
         pipelines |-> [n \in Names |->
             IF Stale(n) THEN [told[n] EXCEPT !.state =
                                  IF Good(n) THEN "available" ELSE "failed"]
             ELSE told[n]],
         status |-> IF \/ \E n \in now : ~OkStatus(r[n].status)
                       \/ \E n \in Names : Stale(n) /\ ~Good(n)
                    THEN "failed"
                    ELSE IF \E n \in now : r[n].status = "OK_RELOADED"
                         THEN "OK_RELOADED" ELSE "OK_NOT_RELOADED"]

UpdateRegistries ==
    /\ models' = Updated.models
    /\ pipelines' = Updated.pipelines
    /\ UNCHANGED <<graphs, aliases, unchecked, servedConfigs, loaders,
                   libraries>>

\* A cycle of the watcher holds configMtx throughout.
WatcherCycle ==
    /\ at[Watcher] = "idle" /\ owner = NoOne
    /\ owner' = Watcher
    /\ IF ReloadNeeded
       THEN at' = [at EXCEPT ![Watcher] = "load"] /\ load' = NewLoad
       ELSE at' = [at EXCEPT ![Watcher] = "update"] /\ UNCHANGED load
    /\ UNCHANGED <<outside, registries, md5, last, sees, answer, reloads>>

\* startFromFile gives up on a few failures only.
WatcherLoaded ==
    /\ at[Watcher] \in {"start", "load"} /\ load.stage = "ended"
    /\ LET fatal == {"CONFIG_FILE_INVALID", "JSON_INVALID",
                     "INVALID_METRICS_ENDPOINT"}
       IN \/ /\ at[Watcher] = "start" /\ load.error \in fatal
             /\ at' = [at EXCEPT ![Watcher] = "stopped"]
             /\ UNCHANGED owner
          \/ /\ at[Watcher] = "start" /\ load.error \notin fatal
             /\ at' = [at EXCEPT ![Watcher] = "idle"]
             /\ owner' = NoOne
          \/ /\ at[Watcher] = "load"
             /\ at' = [at EXCEPT ![Watcher] = "update"]
             /\ UNCHANGED owner
    /\ load' = NoLoad
    /\ UNCHANGED <<outside, registries, md5, last, sees, answer, reloads>>

WatcherUpdate ==
    /\ at[Watcher] = "update"
    /\ UpdateRegistries
    /\ at' = [at EXCEPT ![Watcher] = "idle"]
    /\ owner' = NoOne
    /\ UNCHANGED <<outside, md5, last, load, sees, answer, reloads>>

\* processConfigReloadRequest takes configMtx for each of its calls.
Request(c) ==
    /\ at[c] = "idle" /\ at[Watcher] \notin {"start", "stopped"}
    /\ reloads < MaxRequests
    /\ reloads' = reloads + 1
    /\ at' = [at EXCEPT ![c] = "check"]
    /\ sees' = [sees EXCEPT ![c] = {file}]
    /\ answer' = [answer EXCEPT ![c] = "none"]
    /\ UNCHANGED <<outside, registries, md5, last, owner, load>>

Answer(c, status) ==
    /\ answer' = [answer EXCEPT ![c] = status]
    /\ at' = [at EXCEPT ![c] = "idle"]

ClientChecks(c) ==
    /\ at[c] = "check" /\ owner = NoOne
    /\ \/ file = Missing /\ Answer(c, "CONFIG_FILE_TIMESTAMP_READING_FAILED")
       \/ /\ file # Missing
          /\ at' = [at EXCEPT ![c] = IF ReloadNeeded \/ last # "OK"
                                     THEN "wait" ELSE "update"]
          /\ UNCHANGED answer
    /\ UNCHANGED <<outside, registries, md5, last, owner, load, sees, reloads>>

ClientLoads(c) ==
    /\ at[c] = "wait" /\ owner = NoOne
    /\ owner' = c
    /\ load' = NewLoad
    /\ at' = [at EXCEPT ![c] = "load"]
    /\ UNCHANGED <<outside, registries, md5, last, sees, answer, reloads>>

ClientLoaded(c) ==
    /\ at[c] = "load" /\ load.stage = "ended"
    /\ owner' = NoOne
    /\ load' = NoLoad
    /\ IF load.error = "OK"
       THEN at' = [at EXCEPT ![c] = "update"] /\ UNCHANGED answer
       ELSE Answer(c, load.error)
    /\ UNCHANGED <<outside, registries, md5, last, sees, reloads>>

ClientUpdates(c) ==
    /\ at[c] = "update" /\ owner = NoOne
    /\ UpdateRegistries
    /\ Answer(c, Updated.status)
    /\ UNCHANGED <<outside, md5, last, owner, load, sees, reloads>>

\* The file is replaced; a writer that is not atomic shows other contents in
\* between.
EditFile(content) ==
    /\ edits < MaxEdits /\ content # file
    /\ edits' = edits + 1
    /\ file' = content
    /\ sees' = [c \in Clients |-> IF at[c] = "idle" THEN sees[c]
                                  ELSE sees[c] \cup {content}]
    /\ UNCHANGED <<broken, breaks, registries, md5, last, owner, load, at,
                   answer, reloads>>

\* Directories change while nobody holds configMtx.
Break(n) ==
    /\ breaks < MaxBreaks /\ owner = NoOne
    /\ breaks' = breaks + 1
    /\ broken' = IF n \in broken THEN broken \ {n} ELSE broken \cup {n}
    /\ UNCHANGED <<file, edits, registries, md5, last, load, threads>>

ConfigNext ==
    \/ LoadStep
    \/ WatcherCycle \/ WatcherLoaded \/ WatcherUpdate
    \/ \E c \in Clients : \/ Request(c) \/ ClientChecks(c) \/ ClientLoads(c)
                          \/ ClientLoaded(c) \/ ClientUpdates(c)
    \/ \E content \in Contents : EditFile(content)
    \/ \E n \in Fragile : Break(n)

\* The watcher's wait_for times out again and again and configMtx is not
\* held for ever.
ConfigSpec ==
    /\ ConfigInit /\ [][ConfigNext]_configVars
    /\ WF_configVars(LoadStep) /\ WF_configVars(WatcherCycle)
    /\ WF_configVars(WatcherLoaded) /\ WF_configVars(WatcherUpdate)
    /\ \A c \in Clients : WF_configVars(ClientLoaded(c))

-----------------------------------------------------------------------------
(* Properties *)

\* The models a document asks for: its valid entries, the first of each
\* name, as far as loadModels reads the list.
Wanted(doc) ==
    LET list == doc.models
    IN  {[name |-> list[i].name, config |-> Config(list[i])] : i \in
            {i \in DOMAIN list :
                /\ list[i].kind = "model"
                /\ \A j \in 1 .. i - 1 :
                      /\ list[j].kind # "unsupported"
                      /\ list[j].kind = "model" => list[j].name # list[i].name}}

Runs(w) == Serves(models, w.name) /\ models[w.name].config = w.config
Occupied(n) == PipelineExists(n) \/ GraphExists(n)
LoaderMissing(w) == w.config.loader # NoName /\ w.config.loader \notin loaders

\* A model whose name was taken when loadModels came to it is refused, and
\* retired if it was there. It is not tried again when the name was an alias
\* and its graph gives it up later in the load.
IsAlias(n) == \E g \in GraphEntries : n \in g.aliases
Refused(n) == ~Serves(models, n) /\ (Occupied(n) \/ IsAlias(n))

\* No entry of the list is found as the graph of another, by an alias.
StandsAlone(g, list) ==
    \A h \in GraphEntries :
        /\ h.name # g.name => g.name \notin h.aliases
        /\ h.name = g.name =>
              \A e \in Entries(list) :
                  e.name # g.name => e.name \notin h.aliases

FirstOf(list) ==
    {list[i] : i \in {i \in DOMAIN list :
                         \A j \in 1 .. i - 1 : list[j].name # list[i].name}}

Loaded == load.stage = "ended" /\ load.doc \in Files

\* No two of model, pipeline and graph have the same name, at any moment of a
\* load, and none of them has the name of an alias that was checked when it was
\* registered: the occupation checks of loadModels, PipelineDefinition::validate
\* and MediapipeGraphDefinition::validate see models, pipelines, graphs and LoRA
\* aliases of one another, in the order the sections are loaded.
NamesAreExclusive ==
    \A n \in Names :
        LET uses == {u \in {"model", "pipeline", "graph", "alias"} :
                        CASE u = "model" -> ModelExists(n)
                          [] u = "pipeline" -> PipelineExists(n)
                          [] u = "graph" -> IsRegistered(graphs, n)
                          [] u = "alias" -> aliases[n] # NoName
                                            /\ n \notin unchecked}
        IN  Cardinality(uses) <= 1

\* loadConfig returns OK only when the file is in force: each of its models
\* serves with its new configuration (or names a loader that is not there),
\* each pipeline is available, each graph has its new content, if it is the
\* graph of one entry only.
OkMeansApplied ==
    Loaded /\ load.error = "OK" =>
        /\ \A w \in Wanted(load.doc) : Runs(w) \/ LoaderMissing(w)
        /\ \A p \in FirstOf(load.doc.pipelines) :
              Serves(pipelines, p.name) /\ pipelines[p.name].uses = p.uses
        /\ \A g \in FirstOf(load.graphs) :
              StandsAlone(g, load.graphs) =>
                  IsRegistered(graphs, g.name) /\ graphs[g.name].ver = g.ver

\* One bad entry does not take others down: after a load, with whatever
\* errors, every valid model that can be loaded serves, and every pipeline
\* whose models serve is available; those whose name is an alias apart.
FailureContained ==
    Loaded =>
        /\ \A w \in Wanted(load.doc) :
              \/ Runs(w) \/ w.name \in broken \/ Refused(w.name)
              \/ LoaderMissing(w)
              \/ w.config.auto
        /\ \A p \in FirstOf(load.doc.pipelines) :
              Validates(p.name, p) /\ PipelineExists(p.name) /\ ~IsAlias(p.name)
                  => Serves(pipelines, p.name)

\* A model or a graph that the new file has unchanged is never interrupted
\* by the load, wherever it is in the file and whatever fails around it; but a
\* graph that has the name of an alias of another reloads that one.
UnchangedNotInterrupted ==
    [][LoadStep /\ load.stage # "read" =>
          /\ \A w \in Wanted(load.doc) :
                Runs(w) /\ ~Occupied(w.name) /\ ~LoaderMissing(w)
                    => models'[w.name] = models[w.name]
          /\ \A g \in FirstOf(load.graphs) :
                /\ Serves(graphs, g.name) /\ graphs[g.name].ver = g.ver
                /\ load.stage \in {"graphs", "gated"}
                /\ \A h \in Entries(load.graphs) :
                      h.name # g.name => aliases[h.name] # g.name
                => graphs'[g.name] = graphs[g.name]]_configVars

\* A REST reload that answers OK speaks of a file that was there during the
\* request: the configuration in force was read from a content the file had
\* after the request began, even when the watcher loads in between.
RestAnswersTruth ==
    [][\A c \in Clients :
          answer[c] = "none"
          /\ answer'[c] \in {"OK_RELOADED", "OK_NOT_RELOADED"}
              => md5 \in sees[c]]_configVars

\* Once the outside leaves the file and the directories alone, the server
\* ends up with what the file asks for, however many loads failed before.
Converges ==
    <>[](\/ at[Watcher] = "stopped"
         \/ file = Missing
         \/ /\ md5 = file
            /\ file \in Files => \A w \in Wanted(file) :
                  \/ Runs(w) \/ w.name \in broken \/ Refused(w.name)
                  \/ LoaderMissing(w) \/ w.config.auto)

\* What a load leaves behind, with and without errors.
LoadApplied == ConfigTypeOK /\ OkMeansApplied /\ FailureContained
=============================================================================

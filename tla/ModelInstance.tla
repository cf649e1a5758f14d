---------------------------- MODULE ModelInstance ----------------------------
(***************************************************************************)
(* One served model version, ModelInstance (src/src/modelinstance.cpp),    *)
(* between the configuration thread that loads, reloads, retires and       *)
(* cleans it up and the predict threads that use it.                       *)
(*                                                                         *)
(* Predict threads take no lock: an unload guard (a counter of guards) and *)
(* a look at the status, in that order, must keep the configuration thread *)
(* from unloading what they use; the configuration thread sets the status, *)
(* then waits for the counter to reach zero.  A predict request whose      *)
(* shape differs from the loaded one reloads the model itself (shape or    *)
(* batch size "auto"): it gives its guard up, takes loadingMutex and runs  *)
(* the same loading code.                                                  *)
(*                                                                         *)
(* The status is a plain field; every setter logs at INFO through a mutex, *)
(* which orders it before the read of the counter that follows, so steps   *)
(* interleave as written here.                                             *)
(***************************************************************************)
EXTENDS Integers, FiniteSets

CONSTANTS
    Requests,           \* predict threads
    Manager,            \* the thread that holds ModelManager's configMtx
    NoThread,           \* loadingMutex is free
    Shapes,             \* input shapes a request may have
    ConfigShape,        \* the shape the configuration loads
    NoShape,            \* the component is not loaded
    Nireq,              \* length of the inference requests queue
    WaitCheckpoints,    \* waitForLoaded timeout / 100 ms
    AsyncStartFails     \* whether ov::InferRequest::start_async may throw

Threads == Requests \cup {Manager}

ASSUME ThreadsAssumption == Manager \notin Requests /\ NoThread \notin Threads
ASSUME ShapesAssumption == ConfigShape \in Shapes /\ NoShape \notin Shapes
ASSUME NireqAssumption == Nireq \in Nat \ {0}
ASSUME WaitCheckpointsAssumption == WaitCheckpoints \in Nat

VARIABLES
    state,              \* ModelVersionStatus::state
    error,              \* ModelVersionStatus::errorCode
    loadingMutex,       \* its owner
    guards,             \* threads that own a ModelInstanceUnloadGuard
    comps,              \* model, inputsInfo, compiledModel, inferRequestsQueue
    loaderChanged,      \* isCustomLoaderConfigChanged
    pc,
    call,               \* the loading operation a thread is in
    shape,              \* the request's shape
    checkpoints,        \* waitCheckpointsCounter
    abandoned           \* history: the last operation ended by an exception

vars == <<state, error, loadingMutex, guards, comps, loaderChanged, pc, call,
          shape, checkpoints, abandoned>>
status == <<state, error>>
flags == <<loaderChanged, abandoned>>
locals == <<shape, checkpoints>>

States == {"START", "LOADING", "AVAILABLE", "UNLOADING", "END"}
Errors == {"OK", "UNKNOWN"}
Calls == {"none", "load", "reload", "retire", "cleanup",
          "dynamic", "full", "recover"}
ReloadCalls == {"reload", "dynamic", "full", "recover"}
MaybeShape == Shapes \cup {NoShape}

\* A predict thread between a successful waitForLoaded and the end of its use
\* of the instance.
Using == {"validate", "stream", "infer", "async", "leaked", "responded"}
\* The lock holder after it has seen the counter at zero.
Loading == {"impl", "impl_tensors", "impl_compile", "impl_queue",
            "impl_available"}

RequestControl == {"idle", "check", "wait", "recheck", "reset"} \cup Using
LoaderControl == {"lock", "drain", "temp_drain", "custom_drain", "failed",
                  "loaded", "end"} \cup Loading

Components == [model : BOOLEAN, info : MaybeShape, compiled : MaybeShape,
               queue : MaybeShape]

Unloaded == [model |-> FALSE, info |-> NoShape, compiled |-> NoShape,
             queue |-> NoShape]

TypeOK ==
    /\ state \in States
    /\ error \in Errors
    /\ loadingMutex \in Threads \cup {NoThread}
    /\ guards \in SUBSET Requests
    /\ comps \in Components
    /\ loaderChanged \in BOOLEAN
    /\ pc \in [Threads -> RequestControl \cup LoaderControl]
    /\ call \in [Threads -> Calls]
    /\ shape \in [Requests -> Shapes]
    /\ checkpoints \in [Requests -> 0 .. WaitCheckpoints]
    /\ abandoned \in BOOLEAN

\* A new instance: nothing loaded, not yet visible as available.
Init ==
    /\ state = "START"
    /\ error = "OK"
    /\ loadingMutex = NoThread
    /\ guards = {}
    /\ comps = Unloaded
    /\ loaderChanged = FALSE
    /\ pc = [t \in Threads |-> "idle"]
    /\ call = [t \in Threads |-> "none"]
    /\ shape = [r \in Requests |-> ConfigShape]
    /\ checkpoints = [r \in Requests |-> 0]
    /\ abandoned = FALSE

Goto(t, where) == pc' = [pc EXCEPT ![t] = where]
WillEndUnloaded == state \in {"UNLOADING", "END"}
CanUnloadInstance == guards = {}

-----------------------------------------------------------------------------
(* Plausible mistakes in the code below; each is there to show that some    *)
(* property of this module notices it, and no specification uses them.      *)

\* reloadModel does not wait for the guards.
ReloadDoesNotDrain(t) ==
    /\ pc[t] = "drain"
    /\ call[t] \in ReloadCalls
    /\ Goto(t, IF loaderChanged THEN "custom_drain" ELSE "impl")
    /\ loaderChanged' = FALSE
    /\ UNCHANGED <<status, loadingMutex, guards, comps, abandoned, call,
                   locals>>

\* The dynamic reload releases the mutex without a new guard.
ReturnsUnguarded(t) ==
    /\ pc[t] = "loaded"
    /\ loadingMutex' = NoThread
    /\ call' = [call EXCEPT ![t] = "none"]
    /\ Goto(t, IF call[t] \in {"dynamic", "full"} THEN "stream" ELSE "idle")
    /\ UNCHANGED <<status, guards, comps, flags, locals>>

\* waitForLoaded forgets to reset the guard.
SeesNotLoadedKeepsGuard(r) ==
    /\ pc[r] \in {"check", "recheck"}
    /\ state # "AVAILABLE"
    /\ Goto(r, IF pc[r] = "check" THEN "wait" ELSE "reset")
    /\ UNCHANGED <<status, loadingMutex, guards, comps, flags, call,
                   locals>>

-----------------------------------------------------------------------------
(* Entering a loading operation: the Manager's calls *)

\* Model operations run under configMtx, one at a time; a new instance is
\* loaded first.
ManagerCalls(op) ==
    /\ pc[Manager] = "idle"
    /\ (op = "load") = (state = "START")
    /\ Goto(Manager, "lock")
    /\ call' = [call EXCEPT ![Manager] = op]
    /\ UNCHANGED <<status, loadingMutex, guards, comps, flags, locals>>

LoadModel == ManagerCalls("load")
ReloadModel == ManagerCalls("reload")
RetireModel == ManagerCalls("retire")
CleanupFailedLoad == ManagerCalls("cleanup")

SetCustomLoaderConfigChangeFlag ==
    /\ pc[Manager] = "idle"
    /\ ~ loaderChanged
    /\ loaderChanged' = TRUE
    /\ UNCHANGED <<status, loadingMutex, guards, comps, abandoned, pc, call,
                   locals>>

\* The lock and the status change that follows it.
LockLoading(t) ==
    /\ pc[t] = "lock"
    /\ loadingMutex = NoThread
    /\ loadingMutex' = t
    /\ state' = IF call[t] = "retire" THEN "UNLOADING" ELSE "LOADING"
    /\ error' = IF call[t] = "cleanup" THEN "UNKNOWN" ELSE "OK"
    /\ abandoned' = FALSE
    /\ Goto(t, IF call[t] = "load" THEN "impl" ELSE "drain")
    /\ UNCHANGED <<guards, comps, loaderChanged, call, locals>>

Finish(t) ==
    /\ loadingMutex' = NoThread
    /\ Goto(t, "idle")
    /\ call' = [call EXCEPT ![t] = "none"]

-----------------------------------------------------------------------------
(* reloadModel(config, parameter) and the unloading operations *)

\* The wait for the guards is over; a changed custom loader unloads first.
ReloadDrained(t) ==
    /\ pc[t] = "drain"
    /\ call[t] \in ReloadCalls
    /\ CanUnloadInstance
    /\ Goto(t, IF loaderChanged THEN "custom_drain" ELSE "impl")
    /\ loaderChanged' = FALSE
    /\ UNCHANGED <<status, loadingMutex, guards, comps, abandoned, call,
                   locals>>

\* retireModel(false) inside reloadModel, then loadModelImpl.
CustomLoaderUnload(t) ==
    /\ pc[t] = "custom_drain"
    /\ CanUnloadInstance
    /\ comps' = Unloaded
    /\ Goto(t, "impl")
    /\ UNCHANGED <<status, loadingMutex, guards, flags, call, locals>>

\* retireModel(false) of the full reload and of the recovery, then reloadModel.
TemporaryUnload(t) ==
    /\ pc[t] = "temp_drain"
    /\ CanUnloadInstance
    /\ comps' = Unloaded
    /\ Goto(t, "drain")
    /\ UNCHANGED <<status, loadingMutex, guards, flags, call, locals>>

RetireUnload(t) ==
    /\ pc[t] = "drain"
    /\ call[t] = "retire"
    /\ CanUnloadInstance
    /\ comps' = Unloaded
    /\ Goto(t, "end")
    /\ UNCHANGED <<status, loadingMutex, guards, flags, call, locals>>

RetireEnd(t) ==
    /\ pc[t] = "end"
    /\ state' = "END"
    /\ error' = "OK"
    /\ Finish(t)
    /\ UNCHANGED <<guards, comps, flags, locals>>

CleanupUnload(t) ==
    /\ pc[t] = "drain"
    /\ call[t] = "cleanup"
    /\ CanUnloadInstance
    /\ comps' = Unloaded
    /\ Finish(t)
    /\ UNCHANGED <<status, guards, flags, locals>>

\* unloadModelComponents and loadModelImpl notify the subscribed pipelines
\* before they do anything else.  A pipeline that is being created or reloaded
\* refuses the event with a logic_error; on a predict thread nothing catches
\* it before loadingMutex is released, and the status stays as it is.  (The
\* configuration thread's own notifications are not refused: PipelineSafety
\* of PipelineDefinition.)
NotifyThrows(r) ==
    /\ pc[r] \in {"impl", "temp_drain", "custom_drain"}
    /\ Finish(r)
    /\ abandoned' = TRUE
    /\ UNCHANGED <<status, guards, comps, loaderChanged, locals>>

-----------------------------------------------------------------------------
(* loadModelImpl *)

\* The shape asked for: the request's in a dynamic reload, else the
\* configuration's.
TargetShape(t) ==
    IF call[t] \in {"dynamic", "full"} THEN shape[t] ELSE ConfigShape

\* Subscribers notified, file paths, cache options, and the model read when it
\* is missing or its layout changed.
ImplReadsModel(t) ==
    /\ pc[t] = "impl"
    /\ comps' = [comps EXCEPT !.model = TRUE]
    /\ Goto(t, "impl_tensors")
    /\ UNCHANGED <<status, loadingMutex, guards, flags, call, locals>>

ImplLoadsTensors(t) ==
    /\ pc[t] = "impl_tensors"
    /\ comps' = [comps EXCEPT !.info = TargetShape(t)]
    /\ Goto(t, "impl_compile")
    /\ UNCHANGED <<status, loadingMutex, guards, flags, call, locals>>

ImplCompiles(t) ==
    /\ pc[t] = "impl_compile"
    /\ comps' = [comps EXCEPT !.compiled = comps.info]
    /\ Goto(t, "impl_queue")
    /\ UNCHANGED <<status, loadingMutex, guards, flags, call, locals>>

ImplPreparesQueue(t) ==
    /\ pc[t] = "impl_queue"
    /\ comps' = [comps EXCEPT !.queue = comps.compiled]
    /\ Goto(t, "impl_available")
    /\ UNCHANGED <<status, loadingMutex, guards, flags, call, locals>>

\* Any of the steps may fail, with a status or an exception that is caught; a
\* failed loadTensors may have cleared or
\* replaced the inputs info, a failed loadOVCompiledModel may have replaced
\* the compiled model.  What was loaded stays, the status says failed.
ImplFails(t) ==
    /\ pc[t] \in Loading \ {"impl_available"}
    /\ \/ UNCHANGED comps
       \/ /\ pc[t] = "impl_tensors"
          /\ \E i \in {NoShape, TargetShape(t)} :
                comps' = [comps EXCEPT !.info = i]
       \/ /\ pc[t] = "impl_compile"
          /\ comps' = [comps EXCEPT !.compiled = comps.info]
    /\ state' = "LOADING"
    /\ error' = "UNKNOWN"
    /\ Goto(t, "failed")
    /\ UNCHANGED <<loadingMutex, guards, flags, call, locals>>

ImplSetsAvailable(t) ==
    /\ pc[t] = "impl_available"
    /\ state' = "AVAILABLE"
    /\ error' = "OK"
    /\ Goto(t, "loaded")
    /\ UNCHANGED <<loadingMutex, guards, comps, flags, call, locals>>

-----------------------------------------------------------------------------
(* What follows loadModelImpl *)

\* Back in the caller: a dynamic reload takes a new guard before it releases
\* the mutex; a recovery reports the error that made it necessary.
ReturnsLoaded(t) ==
    /\ pc[t] = "loaded"
    /\ loadingMutex' = NoThread
    /\ call' = [call EXCEPT ![t] = "none"]
    /\ IF call[t] \in {"dynamic", "full"}
       THEN guards' = guards \cup {t} /\ Goto(t, "stream")
       ELSE guards' = guards /\ Goto(t, "idle")
    /\ UNCHANGED <<status, comps, flags, locals>>

ReturnsFailed(t) ==
    /\ pc[t] = "failed"
    /\ call[t] \in {"load", "reload", "recover"}
    /\ Finish(t)
    /\ UNCHANGED <<status, guards, comps, flags, locals>>

\* reshapeWithFullReload after the first failure, recoverFromReloadingError
\* after the second: both retire temporarily and reload.
RetriesReload(t) ==
    /\ pc[t] = "failed"
    /\ call[t] \in {"dynamic", "full"}
    /\ call' = [call EXCEPT ![t] = IF call[t] = "dynamic" THEN "full"
                                                          ELSE "recover"]
    /\ state' = "LOADING"
    /\ error' = "OK"
    /\ Goto(t, "temp_drain")
    /\ UNCHANGED <<loadingMutex, guards, comps, flags, locals>>

-----------------------------------------------------------------------------
(* waitForLoaded *)

\* The guard comes first, the look at the status second.
RequestArrives(r, s) ==
    /\ pc[r] = "idle"
    /\ shape' = [shape EXCEPT ![r] = s]
    /\ checkpoints' = [checkpoints EXCEPT ![r] = WaitCheckpoints]
    /\ guards' = guards \cup {r}
    /\ Goto(r, "check")
    /\ UNCHANGED <<status, loadingMutex, comps, flags, call>>

SeesAvailable(r) ==
    /\ pc[r] \in {"check", "recheck"}
    /\ state = "AVAILABLE"
    /\ Goto(r, "validate")
    /\ UNCHANGED <<status, loadingMutex, guards, comps, flags, call,
                   locals>>

SeesNotLoaded(r) ==
    /\ pc[r] \in {"check", "recheck"}
    /\ state # "AVAILABLE"
    /\ guards' = guards \ {r}
    /\ Goto(r, IF pc[r] = "check" THEN "wait" ELSE "reset")
    /\ UNCHANGED <<status, loadingMutex, comps, flags, call, locals>>

\* wait_for ends, notified or timed out, and the guard is taken again.
WaitEnds(r) ==
    /\ pc[r] = "wait"
    /\ checkpoints[r] > 0
    /\ checkpoints' = [checkpoints EXCEPT ![r] = @ - 1]
    /\ guards' = guards \cup {r}
    /\ Goto(r, "recheck")
    /\ UNCHANGED <<status, loadingMutex, comps, flags, call, shape>>

\* NOT_LOADED_ANYMORE when the version is unloading, else the next round.
AfterRecheck(r) ==
    /\ pc[r] = "reset"
    /\ Goto(r, IF WillEndUnloaded THEN "idle" ELSE "wait")
    /\ UNCHANGED <<status, loadingMutex, guards, comps, flags, call,
                   locals>>

\* NOT_LOADED_YET or NOT_LOADED_ANYMORE.
WaitTimesOut(r) ==
    /\ pc[r] = "wait"
    /\ checkpoints[r] = 0
    /\ Goto(r, "idle")
    /\ UNCHANGED <<status, loadingMutex, guards, comps, flags, call,
                   locals>>

-----------------------------------------------------------------------------
(* infer and modelInferAsync *)

\* Validation reads inputsInfo.
Validates(r) ==
    /\ pc[r] = "validate"
    /\ comps.info = shape[r]
    /\ Goto(r, "stream")
    /\ UNCHANGED <<status, loadingMutex, guards, comps, flags, call,
                   locals>>

\* Reshape or batch size change required: the guard is released before
\* loadingMutex is asked for.
StartsDynamicReload(r) ==
    /\ pc[r] = "validate"
    /\ comps.info # shape[r]
    /\ guards' = guards \ {r}
    /\ call' = [call EXCEPT ![r] = "dynamic"]
    /\ Goto(r, "lock")
    /\ UNCHANGED <<status, loadingMutex, comps, flags, locals>>

\* Neither a static batch size nor shapes were given: INTERNAL_ERROR.
DynamicReloadRejected(r) ==
    /\ pc[r] = "lock"
    /\ call[r] = "dynamic"
    /\ loadingMutex = NoThread
    /\ call' = [call EXCEPT ![r] = "none"]
    /\ Goto(r, "idle")
    /\ UNCHANGED <<status, loadingMutex, guards, comps, flags, locals>>

\* The requests that own a stream of the inference requests queue.
BusyStreams == {r \in Requests : pc[r] \in {"infer", "async", "leaked"}}

\* ExecutingStreamIdGuard: blocks, with the unload guard held, until the queue
\* has an idle stream.
GetsStream(r) ==
    /\ pc[r] = "stream"
    /\ Cardinality(BusyStreams) < Nireq
    /\ Goto(r, "infer")
    /\ UNCHANGED <<status, loadingMutex, guards, comps, flags, call,
                   locals>>

\* modelInferAsync: both guards move into the callback of the OpenVINO
\* request before start_async.
StartsAsync(r) ==
    /\ pc[r] = "infer"
    /\ Goto(r, "async")
    /\ UNCHANGED <<status, loadingMutex, guards, comps, flags, call,
                   locals>>

\* start_async throws: the error is returned, the callback and the guards in
\* it stay with the OpenVINO request.
AsyncStartThrows(r) ==
    /\ AsyncStartFails
    /\ pc[r] = "async"
    /\ Goto(r, "leaked")
    /\ UNCHANGED <<status, loadingMutex, guards, comps, flags, call,
                   locals>>

\* Inference ends, well or not; the stream goes back before the guard.
ReturnsStream(r) ==
    /\ pc[r] \in {"infer", "async"}
    /\ Goto(r, "responded")
    /\ UNCHANGED <<status, loadingMutex, guards, comps, flags, call,
                   locals>>

\* The unload guard is destroyed: after the response, or at once when
\* extraction, validation or prepare() fails.
ReleasesGuard(r) ==
    /\ pc[r] \in {"validate", "stream", "responded"}
    /\ guards' = guards \ {r}
    /\ Goto(r, "idle")
    /\ UNCHANGED <<status, loadingMutex, comps, flags, call, locals>>

-----------------------------------------------------------------------------
LoaderStep(t) ==
    \/ LockLoading(t)
    \/ ReloadDrained(t)
    \/ CustomLoaderUnload(t)
    \/ TemporaryUnload(t)
    \/ RetireUnload(t)
    \/ RetireEnd(t)
    \/ CleanupUnload(t)
    \/ ImplReadsModel(t)
    \/ ImplLoadsTensors(t)
    \/ ImplCompiles(t)
    \/ ImplPreparesQueue(t)
    \/ ImplFails(t)
    \/ ImplSetsAvailable(t)
    \/ ReturnsLoaded(t)
    \/ ReturnsFailed(t)
    \/ RetriesReload(t)

RequestStep(r) ==
    \/ SeesAvailable(r)
    \/ SeesNotLoaded(r)
    \/ WaitEnds(r)
    \/ AfterRecheck(r)
    \/ WaitTimesOut(r)
    \/ Validates(r)
    \/ StartsDynamicReload(r)
    \/ DynamicReloadRejected(r)
    \/ NotifyThrows(r)
    \/ GetsStream(r)
    \/ StartsAsync(r)
    \/ AsyncStartThrows(r)
    \/ ReturnsStream(r)
    \/ ReleasesGuard(r)

ManagerChoice ==
    \/ LoadModel
    \/ ReloadModel
    \/ RetireModel
    \/ CleanupFailedLoad
    \/ SetCustomLoaderConfigChangeFlag

Arrives == \E r \in Requests, s \in Shapes : RequestArrives(r, s)

Next ==
    \/ ManagerChoice
    \/ Arrives
    \/ \E t \in Threads : LoaderStep(t)
    \/ \E r \in Requests : RequestStep(r)

Spec == Init /\ [][Next]_vars

\* Threads run; inference ends; a thread that keeps asking for loadingMutex
\* or for a stream gets it.  Nobody is obliged to send a request or to change
\* the configuration.
Fairness ==
    /\ WF_vars(LoaderStep(Manager))
    /\ SF_vars(LockLoading(Manager))
    /\ \A r \in Requests : /\ WF_vars(LoaderStep(r) \/ RequestStep(r))
                          /\ SF_vars(LockLoading(r) \/ GetsStream(r))

FairSpec == Spec /\ Fairness

-----------------------------------------------------------------------------
(* Properties *)

InUse == \E r \in Requests : pc[r] \in Using

\* The components of an instance never change while a predict request uses
\* them: validation, the wait for a stream, inference and the asynchronous
\* callback all run between two changes.  This is the whole point of the
\* guard-then-status and status-then-count protocol.
NoChangeUnderUse == [][InUse => UNCHANGED comps]_vars

\* A request runs on a queue compiled for its own shape, also when other
\* requests reload the model for theirs ("assure that after reload predict
\* request will block further requests for reloading/unloading until
\* inference is performed").
RunsOnItsShape ==
    \A r \in Requests :
        pc[r] \in {"stream", "infer", "async"} => comps.queue = shape[r]

\* AVAILABLE means that all components are loaded and belong together.
AvailableIsLoaded ==
    state = "AVAILABLE" =>
        /\ comps.model
        /\ comps.queue # NoShape
        /\ comps.queue = comps.compiled
        /\ comps.queue = comps.info

\* A version is left in LOADING without an error, where getVersionsToChange
\* would neither reload nor retry it, by one thing only: the exception of a
\* pipeline that cut the reload of a request short.  Every other end of an
\* operation, with whatever failures and retries, makes the version available,
\* gives it an error or lets it go; and the next operation on an abandoned
\* version takes it up again.
LoadingIsOwned ==
    (state = "LOADING" /\ error = "OK" /\ loadingMutex = NoThread) <=> abandoned

\* Once new requests stop, every load, reload, retire or cleanup ends: the
\* configuration thread does not hang on guards.  The exception is the guard
\* that modelInferAsync has moved into a callback when start_async throws:
\* nothing destroys it, and whoever waits for it waits for ever.
OperationsEnd ==
    (<>[][~ Arrives]_vars) /\ [](\A r \in Requests : pc[r] # "leaked")
        => (pc[Manager] # "idle" ~> pc[Manager] = "idle")

\* What a request, the status and the loader say of an instance is true of
\* its components, at every step of loads, reloads and inferences.
InstanceSafety ==
    TypeOK /\ RunsOnItsShape /\ AvailableIsLoaded /\ LoadingIsOwned
=============================================================================

----------------------- MODULE PipelineDefinitionProofs -----------------------
(***************************************************************************)
(* Requests build whole pipelines, the configuration thread never fires    *)
(* an event the status machine refuses, and at rest no change of a model   *)
(* was missed, for every set of requests, models and definitions.          *)
(*                                                                         *)
(* The argument: a request that builds holds a guard and saw the pipeline  *)
(* available; from ReloadEvent or RetireEvent until the definition has     *)
(* been validated again it is never available (StatusInv), so no request   *)
(* starts to build, and nodes change only after the last guard is gone.    *)
(* The one other writer of the status, a notification of a model with      *)
(* dynamic parameters, cannot have read an available pipeline, because an  *)
(* available pipeline is subscribed to no such model (SubscriptionInv).    *)
(***************************************************************************)
EXTENDS PipelineDefinition, TLAPS

Building(r) == rpc[r] \in {"build", "connect"}
Usable == nodeInfos # Empty
          /\ DOMAIN nodeInfos.custom \subseteq DOMAIN nodeResources

TypeInv ==
    /\ registered \in BOOLEAN
    /\ state \in States
    /\ handles \in SUBSET Requests
    /\ subs \in SUBSET Models
    /\ models \in [Models -> ModelStates]
    /\ pc \in ConfigControl
    /\ note \in [model : Models \cup {NoModel}, read : States \cup {"none"}]
    /\ rpc \in [Requests -> RequestControl]
    /\ built = [r \in Requests |-> built[r]]
    /\ nodeResources = [n \in DOMAIN nodeResources |-> nodeResources[n]]

\* Where the configuration thread is, and what the status can be there.
StatusInv ==
    /\ pc # "thrown"
    /\ pc \in {"idle", "apply", "gate"} /\ registered
          => state \notin {"BEGIN", "RELOADING"}
    /\ pc = "retire" => state \notin {"BEGIN", "RELOADING", "RETIRED"}
    /\ pc = "validate" => state \notin {"AVAILABLE", Failed, "RETIRED"}
    /\ pc \in {"unsubscribe", "drain", "connections"}
          => state \in {"RELOADING", FailedStale}
    /\ pc \in {"retire_drain", "retire_connections"}
          => state \in {"RETIRED", FailedStale}
    /\ pc \notin {"idle", "apply", "gate", "validate"} => registered
    /\ note.read \notin {"AVAILABLE", AvailableStale}

SubscriptionInv ==
    /\ pc \in {"drain", "connections", "retire", "retire_drain",
               "retire_connections"} => subs = {}
    /\ state = "RETIRED" => subs = {}
    /\ subs # {} /\ ~ registered => pc = "validate"
    /\ subs \subseteq UsedModels(nodeInfos)
    /\ IsAvailable => \A m \in subs : models[m] # "auto"

ObjectInv ==
    /\ pc \notin {"connections", "retire_connections"}
          => connections = nodeInfos
    /\ pc \in {"unsubscribe", "drain", "connections"} => next \in Definitions
    /\ pc = "connections" => nodeInfos = next
    /\ pc = "retire_connections" => nodeInfos = Empty
    /\ registered /\ IsAvailable => Usable
    /\ \A n \in DOMAIN nodeResources : nodeResources[n] \in resources

RequestInv ==
    \A r \in Requests :
        /\ rpc[r] # "thrown"
        /\ rpc[r] \in Holding => r \in handles
        /\ rpc[r] # "idle" => registered
        /\ Building(r) => Usable /\ pc \notin {"connections",
                                               "retire_connections"}
        /\ rpc[r] = "connect" => built[r].nodes = nodeInfos
        /\ \A n \in DOMAIN built[r].managers :
               built[r].managers[n] \in resources

PipelineInv ==
    TypeInv /\ StatusInv /\ SubscriptionInv /\ ObjectInv /\ RequestInv

\* The invariant holds of a server that has loaded nothing.
LEMMA PipelineInvInit == Init => PipelineInv
<1> SUFFICES ASSUME Init PROVE PipelineInv
    OBVIOUS
<1> USE NoModelAssumption DEF Init, NoPipeline, Empty, EmptyMap, IsAvailable
<1>1. TypeInv
    BY DEF TypeInv, States, ModelStates, ConfigControl, RequestControl, NoNote
<1>2. StatusInv
    BY DEF StatusInv, AvailableStale, NoNote
<1>3. SubscriptionInv
    BY DEF SubscriptionInv, AvailableStale
<1>4. ObjectInv
    BY DEF ObjectInv, AvailableStale
<1>5. RequestInv
    BY DEF RequestInv, Building, Holding
<1> QED BY <1>1, <1>2, <1>3, <1>4, <1>5 DEF PipelineInv

\* Every step of every thread preserves it.
LEMMA PipelineInvStep == PipelineInv /\ [Next]_vars => PipelineInv'
<1> SUFFICES ASSUME PipelineInv, [Next]_vars PROVE PipelineInv'
    OBVIOUS
<1> USE NoModelAssumption DEF PipelineInv, Failed, FailedStale,
        AvailableStale, object, config, requests
<1>1. CASE LoadConfig
    <2>1. TypeInv'
          BY <1>1 DEF LoadConfig, LoadModels, Fire, Handle, TypeInv, States,
             ModelStates, ConfigControl, RequestControl
    <2>2. StatusInv'
          BY <1>1 DEF LoadConfig, LoadModels, Fire, Handle, StatusInv,
             IsAvailable, TypeInv, SubscriptionInv
    <2>3. SubscriptionInv'
          BY <1>1 DEF LoadConfig, LoadModels, Fire, Handle, SubscriptionInv,
             StatusInv, IsAvailable, UsedModels, TypeInv
    <2>4. ObjectInv'
          BY <1>1 DEF LoadConfig, LoadModels, Fire, Handle, ObjectInv,
             IsAvailable, Usable
    <2>5. RequestInv'
          BY <1>1 DEF LoadConfig, LoadModels, Fire, Handle, RequestInv,
             Building, Usable, Holding
    <2> QED BY <2>1, <2>2, <2>3, <2>4, <2>5
<1>2. CASE UpdateConfigurationWithoutConfigFile
    <2>1. TypeInv'
          BY <1>2 DEF UpdateConfigurationWithoutConfigFile, LoadModels, Fire,
             Handle, TypeInv, States, ModelStates, ConfigControl,
             RequestControl
    <2>2. StatusInv'
          BY <1>2 DEF UpdateConfigurationWithoutConfigFile, LoadModels, Fire,
             Handle, StatusInv, IsAvailable, TypeInv, SubscriptionInv
    <2>3. SubscriptionInv'
          BY <1>2 DEF UpdateConfigurationWithoutConfigFile, LoadModels, Fire,
             Handle, SubscriptionInv, StatusInv, IsAvailable, UsedModels,
             TypeInv
    <2>4. ObjectInv'
          BY <1>2 DEF UpdateConfigurationWithoutConfigFile, LoadModels, Fire,
             Handle, ObjectInv, IsAvailable, Usable
    <2>5. RequestInv'
          BY <1>2 DEF UpdateConfigurationWithoutConfigFile, LoadModels, Fire,
             Handle, RequestInv, Building, Usable, Holding
    <2> QED BY <2>1, <2>2, <2>3, <2>4, <2>5
<1>3. CASE RevalidatePipelines
    <2>1. TypeInv'
          BY <1>3 DEF RevalidatePipelines, IsRevalidationRequired, TypeInv,
             States, ModelStates, ConfigControl, RequestControl
    <2>2. StatusInv'
          BY <1>3 DEF RevalidatePipelines, IsRevalidationRequired, StatusInv
    <2>3. SubscriptionInv'
          BY <1>3 DEF RevalidatePipelines, IsRevalidationRequired,
             SubscriptionInv, IsAvailable
    <2>4. ObjectInv'
          BY <1>3 DEF RevalidatePipelines, IsRevalidationRequired, ObjectInv,
             IsAvailable, Usable
    <2>5. RequestInv'
          BY <1>3 DEF RevalidatePipelines, IsRevalidationRequired, RequestInv,
             Building, Usable, Holding
    <2> QED BY <2>1, <2>2, <2>3, <2>4, <2>5
<1>4. CASE CreateDefinition
    <2>1. TypeInv'
          BY <1>4, DefinitionsAssumption DEF CreateDefinition, Subscribable,
             UsedModels, EmptyMap, TypeInv, States, ModelStates,
             ConfigControl, RequestControl
    <2>2. StatusInv'
          BY <1>4 DEF CreateDefinition, Subscribable, UsedModels, EmptyMap,
             StatusInv
    <2>3. SubscriptionInv'
          BY <1>4 DEF CreateDefinition, Subscribable, UsedModels, EmptyMap,
             SubscriptionInv, IsAvailable
    <2>4. ObjectInv'
          BY <1>4 DEF CreateDefinition, Subscribable, UsedModels, EmptyMap,
             ObjectInv, IsAvailable, Usable
    <2>5. RequestInv'
          BY <1>4 DEF CreateDefinition, Subscribable, UsedModels, EmptyMap,
             RequestInv, Building, Usable, Holding
    <2> QED BY <2>1, <2>2, <2>3, <2>4, <2>5
<1>5. CASE ReloadDefinition
    <2>1. TypeInv'
          BY <1>5 DEF ReloadDefinition, Fire, Handle, TypeInv, States,
             ModelStates, ConfigControl, RequestControl
    <2>2. StatusInv'
          BY <1>5 DEF ReloadDefinition, Fire, Handle, StatusInv
    <2>3. SubscriptionInv'
          BY <1>5 DEF ReloadDefinition, Fire, Handle, SubscriptionInv,
             IsAvailable
    <2>4. ObjectInv'
          BY <1>5 DEF ReloadDefinition, Fire, Handle, ObjectInv, IsAvailable,
             Usable
    <2>5. RequestInv'
          BY <1>5 DEF ReloadDefinition, Fire, Handle, RequestInv, Building,
             Usable, Holding
    <2> QED BY <2>1, <2>2, <2>3, <2>4, <2>5
<1>6. CASE ResetSubscriptions
    <2>1. TypeInv'
          BY <1>6 DEF ResetSubscriptions, TypeInv, States, ModelStates,
             ConfigControl, RequestControl
    <2>2. StatusInv'
          BY <1>6 DEF ResetSubscriptions, StatusInv
    <2>3. SubscriptionInv'
          BY <1>6 DEF ResetSubscriptions, SubscriptionInv, IsAvailable
    <2>4. ObjectInv'
          BY <1>6 DEF ResetSubscriptions, ObjectInv, IsAvailable, Usable
    <2>5. RequestInv'
          BY <1>6 DEF ResetSubscriptions, RequestInv, Building, Usable,
             Holding
    <2> QED BY <2>1, <2>2, <2>3, <2>4, <2>5
<1>7. CASE ReloadDrained
    <2>1. TypeInv'
          BY <1>7 DEF ReloadDrained, TypeInv, States, ModelStates,
             ConfigControl, RequestControl
    <2>2. StatusInv'
          BY <1>7 DEF ReloadDrained, StatusInv
    <2>3. SubscriptionInv'
          BY <1>7 DEF ReloadDrained, SubscriptionInv, IsAvailable
    <2>4. ObjectInv'
          BY <1>7 DEF ReloadDrained, ObjectInv, StatusInv, IsAvailable, Usable
    <2>5. RequestInv'
          BY <1>7 DEF ReloadDrained, RequestInv, Building, Usable, Holding
    <2> QED BY <2>1, <2>2, <2>3, <2>4, <2>5
<1>8. CASE ReloadConnections
    <2>1. TypeInv'
          BY <1>8, DefinitionsAssumption DEF ReloadConnections, Subscribable,
             UsedModels, TypeInv, StatusInv, SubscriptionInv, ObjectInv,
             RequestInv, States, ModelStates, ConfigControl, RequestControl,
             IsAvailable, Usable, Building, Holding, NoNote
    <2>2. StatusInv'
          BY <1>8 DEF ReloadConnections, Subscribable, UsedModels, StatusInv
    <2>3. SubscriptionInv'
          BY <1>8 DEF ReloadConnections, Subscribable, UsedModels, TypeInv,
             StatusInv, SubscriptionInv, ObjectInv, RequestInv, States,
             ModelStates, ConfigControl, RequestControl, IsAvailable, Usable,
             Building, Holding, NoNote
    <2>4. ObjectInv'
          BY <1>8 DEF ReloadConnections, Subscribable, UsedModels, ObjectInv,
             IsAvailable, Usable
    <2>5. RequestInv'
          BY <1>8 DEF ReloadConnections, Subscribable, UsedModels, RequestInv,
             Building, Usable, Holding
    <2> QED BY <2>1, <2>2, <2>3, <2>4, <2>5
<1>9. CASE RetireOtherThan
    <2>1. TypeInv'
          BY <1>9 DEF RetireOtherThan, TypeInv, States, ModelStates,
             ConfigControl, RequestControl
    <2>2. StatusInv'
          BY <1>9 DEF RetireOtherThan, StatusInv
    <2>3. SubscriptionInv'
          BY <1>9 DEF RetireOtherThan, SubscriptionInv, IsAvailable
    <2>4. ObjectInv'
          BY <1>9 DEF RetireOtherThan, ObjectInv, IsAvailable, Usable
    <2>5. RequestInv'
          BY <1>9 DEF RetireOtherThan, RequestInv, Building, Usable, Holding
    <2> QED BY <2>1, <2>2, <2>3, <2>4, <2>5
<1>10. CASE NothingToRetire
    <2>1. TypeInv'
          BY <1>10 DEF NothingToRetire, TypeInv, States, ModelStates,
             ConfigControl, RequestControl
    <2>2. StatusInv'
          BY <1>10 DEF NothingToRetire, StatusInv
    <2>3. SubscriptionInv'
          BY <1>10 DEF NothingToRetire, SubscriptionInv, IsAvailable
    <2>4. ObjectInv'
          BY <1>10 DEF NothingToRetire, ObjectInv, IsAvailable, Usable
    <2>5. RequestInv'
          BY <1>10 DEF NothingToRetire, RequestInv, Building, Usable, Holding
    <2> QED BY <2>1, <2>2, <2>3, <2>4, <2>5
<1>11. CASE Retire
    <2>1. TypeInv'
          BY <1>11 DEF Retire, Fire, Handle, TypeInv, States, ModelStates,
             ConfigControl, RequestControl
    <2>2. StatusInv'
          BY <1>11 DEF Retire, Fire, Handle, StatusInv
    <2>3. SubscriptionInv'
          BY <1>11 DEF Retire, Fire, Handle, SubscriptionInv, IsAvailable
    <2>4. ObjectInv'
          BY <1>11 DEF Retire, Fire, Handle, ObjectInv, IsAvailable, Usable
    <2>5. RequestInv'
          BY <1>11 DEF Retire, Fire, Handle, RequestInv, Building, Usable,
             Holding
    <2> QED BY <2>1, <2>2, <2>3, <2>4, <2>5
<1>12. CASE RetireDrained
    <2>1. TypeInv'
          BY <1>12 DEF RetireDrained, EmptyMap, TypeInv, States, ModelStates,
             ConfigControl, RequestControl
    <2>2. StatusInv'
          BY <1>12 DEF RetireDrained, EmptyMap, StatusInv
    <2>3. SubscriptionInv'
          BY <1>12 DEF RetireDrained, EmptyMap, SubscriptionInv, IsAvailable
    <2>4. ObjectInv'
          BY <1>12 DEF RetireDrained, EmptyMap, ObjectInv, StatusInv,
             IsAvailable, Usable
    <2>5. RequestInv'
          BY <1>12 DEF RetireDrained, EmptyMap, RequestInv, Building, Usable,
             Holding
    <2> QED BY <2>1, <2>2, <2>3, <2>4, <2>5
<1>13. CASE RetireConnections
    <2>1. TypeInv'
          BY <1>13 DEF RetireConnections, TypeInv, States, ModelStates,
             ConfigControl, RequestControl
    <2>2. StatusInv'
          BY <1>13 DEF RetireConnections, StatusInv
    <2>3. SubscriptionInv'
          BY <1>13 DEF RetireConnections, SubscriptionInv, IsAvailable
    <2>4. ObjectInv'
          BY <1>13 DEF RetireConnections, ObjectInv, IsAvailable, Usable
    <2>5. RequestInv'
          BY <1>13 DEF RetireConnections, RequestInv, Building, Usable,
             Holding
    <2> QED BY <2>1, <2>2, <2>3, <2>4, <2>5
<1>14. CASE NameOccupied
    <2>1. TypeInv'
          BY <1>14 DEF NameOccupied, Fire, Handle, Empty, TypeInv, States,
             ModelStates, ConfigControl, RequestControl
    <2>2. StatusInv'
          BY <1>14 DEF NameOccupied, Fire, Handle, Empty, StatusInv
    <2>3. SubscriptionInv'
          BY <1>14 DEF NameOccupied, Fire, Handle, Empty, SubscriptionInv,
             IsAvailable
    <2>4. ObjectInv'
          BY <1>14 DEF NameOccupied, Fire, Handle, Empty, ObjectInv,
             IsAvailable, Usable
    <2>5. RequestInv'
          BY <1>14 DEF NameOccupied, Fire, Handle, Empty, RequestInv,
             Building, Usable, Holding
    <2> QED BY <2>1, <2>2, <2>3, <2>4, <2>5
<1>15. CASE \E done \in SUBSET DOMAIN nodeInfos.custom, passed \in BOOLEAN :
            Validate(done, passed)
    <2>1. TypeInv'
          BY <1>15 DEF Validate, InitializeNodeResources, Validatable, Fire,
             Handle, TypeInv, States, ModelStates, ConfigControl,
             RequestControl
    <2>2. StatusInv'
          BY <1>15 DEF Validate, InitializeNodeResources, Validatable, Fire,
             Handle, StatusInv
    <2>3. SubscriptionInv'
          BY <1>15 DEF Validate, InitializeNodeResources, Validatable, Fire,
             Handle, SubscriptionInv, IsAvailable
    <2>4. ObjectInv'
          BY <1>15 DEF Validate, InitializeNodeResources, Validatable, Fire,
             Handle, ObjectInv, StatusInv, IsAvailable, Usable
    <2>5. RequestInv'
          BY <1>15 DEF Validate, InitializeNodeResources, Validatable, Fire,
             Handle, RequestInv, Building, Usable, Holding
    <2> QED BY <2>1, <2>2, <2>3, <2>4, <2>5
<1>16. CASE TryReloadGatedModelConfigs
    <2>1. TypeInv'
          BY <1>16 DEF TryReloadGatedModelConfigs, TypeInv, States,
             ModelStates, ConfigControl, RequestControl
    <2>2. StatusInv'
          BY <1>16 DEF TryReloadGatedModelConfigs, StatusInv
    <2>3. SubscriptionInv'
          BY <1>16 DEF TryReloadGatedModelConfigs, SubscriptionInv, StatusInv,
             IsAvailable, UsedModels, TypeInv
    <2>4. ObjectInv'
          BY <1>16 DEF TryReloadGatedModelConfigs, ObjectInv, IsAvailable,
             Usable
    <2>5. RequestInv'
          BY <1>16 DEF TryReloadGatedModelConfigs, RequestInv, Building,
             Usable, Holding
    <2> QED BY <2>1, <2>2, <2>3, <2>4, <2>5
<1>17. CASE \E m \in Models : NotifySubscribers(m)
    <2>1. TypeInv'
          BY <1>17 DEF NotifySubscribers, NoNote, TypeInv
    <2>2. StatusInv'
          BY <1>17 DEF NotifySubscribers, NoNote, StatusInv, IsAvailable,
             TypeInv, SubscriptionInv
    <2>3. SubscriptionInv'
          BY <1>17 DEF NotifySubscribers, NoNote, SubscriptionInv, IsAvailable
    <2>4. ObjectInv'
          BY <1>17 DEF NotifySubscribers, NoNote, ObjectInv, IsAvailable,
             Usable
    <2>5. RequestInv'
          BY <1>17 DEF NotifySubscribers, NoNote, RequestInv, Building,
             Usable, Holding
    <2> QED BY <2>1, <2>2, <2>3, <2>4, <2>5
<1>18. CASE ReceiveNotification
    <2>1. TypeInv'
          BY <1>18 DEF ReceiveNotification, Handle, NoNote, TypeInv, States,
             ModelStates, ConfigControl, RequestControl
    <2>2. StatusInv'
          BY <1>18 DEF ReceiveNotification, Handle, NoNote, StatusInv
    <2>3. SubscriptionInv'
          BY <1>18 DEF ReceiveNotification, Handle, NoNote, SubscriptionInv,
             StatusInv, IsAvailable, UsedModels
    <2>4. ObjectInv'
          BY <1>18 DEF ReceiveNotification, Handle, NoNote, ObjectInv,
             StatusInv, IsAvailable, Usable
    <2>5. RequestInv'
          BY <1>18 DEF ReceiveNotification, Handle, NoNote, RequestInv,
             Building, Usable, Holding
    <2> QED BY <2>1, <2>2, <2>3, <2>4, <2>5
<1>19. CASE CleanupResources
    <2>1. TypeInv'
          BY <1>19 DEF CleanupResources, References, TypeInv
    <2>2. StatusInv'
          BY <1>19 DEF CleanupResources, References, StatusInv
    <2>3. SubscriptionInv'
          BY <1>19 DEF CleanupResources, References, SubscriptionInv,
             IsAvailable
    <2>4. ObjectInv'
          BY <1>19 DEF CleanupResources, References, ObjectInv, IsAvailable,
             Usable
    <2>5. RequestInv'
          BY <1>19 DEF CleanupResources, References, RequestInv, Building,
             Usable, Holding
    <2> QED BY <2>1, <2>2, <2>3, <2>4, <2>5
<1>20. CASE Arrives
    <2>1. TypeInv'
          BY <1>20 DEF Arrives, Arrive, RGoto, TypeInv, States, ModelStates,
             ConfigControl, RequestControl
    <2>2. StatusInv'
          BY <1>20 DEF Arrives, Arrive, RGoto, StatusInv
    <2>3. SubscriptionInv'
          BY <1>20 DEF Arrives, Arrive, RGoto, SubscriptionInv, IsAvailable
    <2>4. ObjectInv'
          BY <1>20 DEF Arrives, Arrive, RGoto, ObjectInv, IsAvailable, Usable
    <2>5. RequestInv'
          BY <1>20 DEF Arrives, Arrive, RGoto, RequestInv, Building, Usable,
             Holding
    <2> QED BY <2>1, <2>2, <2>3, <2>4, <2>5
<1>21. CASE \E r \in Requests : SeesAvailable(r)
    <2>1. TypeInv'
          BY <1>21 DEF SeesAvailable, RGoto, TypeInv, States, ModelStates,
             ConfigControl, RequestControl
    <2>2. StatusInv'
          BY <1>21 DEF SeesAvailable, RGoto, StatusInv
    <2>3. SubscriptionInv'
          BY <1>21 DEF SeesAvailable, RGoto, SubscriptionInv, IsAvailable
    <2>4. ObjectInv'
          BY <1>21 DEF SeesAvailable, RGoto, ObjectInv, IsAvailable, Usable
    <2>5. RequestInv'
          BY <1>21 DEF SeesAvailable, RGoto, TypeInv, StatusInv,
             SubscriptionInv, ObjectInv, RequestInv, States, ModelStates,
             ConfigControl, RequestControl, IsAvailable, UsedModels, Usable,
             Building, Holding, NoNote
    <2> QED BY <2>1, <2>2, <2>3, <2>4, <2>5
<1>22. CASE \E r \in Requests : SeesNotLoaded(r)
    <2>1. TypeInv'
          BY <1>22 DEF SeesNotLoaded, RGoto, TypeInv, States, ModelStates,
             ConfigControl, RequestControl
    <2>2. StatusInv'
          BY <1>22 DEF SeesNotLoaded, RGoto, StatusInv
    <2>3. SubscriptionInv'
          BY <1>22 DEF SeesNotLoaded, RGoto, SubscriptionInv, IsAvailable
    <2>4. ObjectInv'
          BY <1>22 DEF SeesNotLoaded, RGoto, ObjectInv, IsAvailable, Usable
    <2>5. RequestInv'
          BY <1>22 DEF SeesNotLoaded, RGoto, RequestInv, ObjectInv, StatusInv,
             Building, Usable, Holding, TypeInv, SubscriptionInv
    <2> QED BY <2>1, <2>2, <2>3, <2>4, <2>5
<1>23. CASE \E r \in Requests : WaitTimesOut(r)
    <2>1. TypeInv'
          BY <1>23 DEF WaitTimesOut, RGoto, TypeInv, States, ModelStates,
             ConfigControl, RequestControl
    <2>2. StatusInv'
          BY <1>23 DEF WaitTimesOut, RGoto, StatusInv
    <2>3. SubscriptionInv'
          BY <1>23 DEF WaitTimesOut, RGoto, SubscriptionInv, IsAvailable
    <2>4. ObjectInv'
          BY <1>23 DEF WaitTimesOut, RGoto, ObjectInv, IsAvailable, Usable
    <2>5. RequestInv'
          BY <1>23 DEF WaitTimesOut, RGoto, RequestInv, ObjectInv, StatusInv,
             Building, Usable, Holding, TypeInv, SubscriptionInv
    <2> QED BY <2>1, <2>2, <2>3, <2>4, <2>5
<1>24. CASE \E r \in Requests : GivesUpOrWaits(r)
    <2>1. TypeInv'
          BY <1>24 DEF GivesUpOrWaits, RGoto, CanEndLoaded, TypeInv, States,
             ModelStates, ConfigControl, RequestControl
    <2>2. StatusInv'
          BY <1>24 DEF GivesUpOrWaits, RGoto, CanEndLoaded, StatusInv
    <2>3. SubscriptionInv'
          BY <1>24 DEF GivesUpOrWaits, RGoto, CanEndLoaded, SubscriptionInv,
             IsAvailable
    <2>4. ObjectInv'
          BY <1>24 DEF GivesUpOrWaits, RGoto, CanEndLoaded, ObjectInv,
             IsAvailable, Usable
    <2>5. RequestInv'
          BY <1>24 DEF GivesUpOrWaits, RGoto, CanEndLoaded, RequestInv,
             Building, Usable, Holding
    <2> QED BY <2>1, <2>2, <2>3, <2>4, <2>5
<1>25. CASE \E r \in Requests : WaitEnds(r)
    <2>1. TypeInv'
          BY <1>25 DEF WaitEnds, RGoto, TypeInv, States, ModelStates,
             ConfigControl, RequestControl
    <2>2. StatusInv'
          BY <1>25 DEF WaitEnds, RGoto, StatusInv
    <2>3. SubscriptionInv'
          BY <1>25 DEF WaitEnds, RGoto, SubscriptionInv, IsAvailable
    <2>4. ObjectInv'
          BY <1>25 DEF WaitEnds, RGoto, ObjectInv, IsAvailable, Usable
    <2>5. RequestInv'
          BY <1>25 DEF WaitEnds, RGoto, RequestInv, Building, Usable, Holding
    <2> QED BY <2>1, <2>2, <2>3, <2>4, <2>5
<1>26. CASE \E r \in Requests : BuildNodes(r)
    <2>1. TypeInv'
          BY <1>26 DEF BuildNodes, RGoto, TypeInv, States, ModelStates,
             ConfigControl, RequestControl
    <2>2. StatusInv'
          BY <1>26 DEF BuildNodes, RGoto, StatusInv
    <2>3. SubscriptionInv'
          BY <1>26 DEF BuildNodes, RGoto, SubscriptionInv, IsAvailable
    <2>4. ObjectInv'
          BY <1>26 DEF BuildNodes, RGoto, ObjectInv, IsAvailable, Usable
    <2>5. RequestInv'
        <3>1. PICK q \in Requests : BuildNodes(q)
            BY <1>26
        <3>2. q \in handles /\ Usable /\ registered
              /\ pc \notin {"connections", "retire_connections"}
            BY <3>1 DEF BuildNodes, RequestInv, Building, Holding
        <3>3. /\ built' = [built EXCEPT ![q] =
                     [nodes |-> nodeInfos,
                      managers |-> [n \in DOMAIN nodeInfos.custom |->
                                        nodeResources[n]]]]
              /\ rpc' = [rpc EXCEPT ![q] = "connect"]
              /\ UNCHANGED <<handles, registered, nodeInfos, nodeResources,
                             resources, pc>>
            BY <3>1, <3>2 DEF BuildNodes, RGoto, Usable, object, config
        <3>4. \A n \in DOMAIN nodeInfos.custom : nodeResources[n] \in resources
            BY <3>2 DEF Usable, ObjectInv
        <3>5. ASSUME NEW r \in Requests
              PROVE  /\ rpc'[r] # "thrown"
                     /\ rpc'[r] \in Holding => r \in handles
                     /\ rpc'[r] # "idle" => registered
                     /\ Building(r)' => Usable
                     /\ rpc'[r] = "connect" => built'[r].nodes = nodeInfos
                     /\ \A n \in DOMAIN built'[r].managers :
                            built'[r].managers[n] \in resources
            BY <3>2, <3>3, <3>4
               DEF RequestInv, Building, Holding, TypeInv
        <3> QED BY <3>2, <3>3, <3>5 DEF RequestInv, Usable
    <2> QED BY <2>1, <2>2, <2>3, <2>4, <2>5
<1>27. CASE \E r \in Requests : ConnectNodes(r)
    <2>1. TypeInv'
          BY <1>27 DEF ConnectNodes, RGoto, TypeInv, States, ModelStates,
             ConfigControl, RequestControl
    <2>2. StatusInv'
          BY <1>27 DEF ConnectNodes, RGoto, StatusInv
    <2>3. SubscriptionInv'
          BY <1>27 DEF ConnectNodes, RGoto, SubscriptionInv, IsAvailable
    <2>4. ObjectInv'
          BY <1>27 DEF ConnectNodes, RGoto, ObjectInv, IsAvailable, Usable
    <2>5. RequestInv'
          BY <1>27 DEF ConnectNodes, RGoto, RequestInv, ObjectInv, StatusInv,
             Building, Usable, Holding, TypeInv, SubscriptionInv
    <2> QED BY <2>1, <2>2, <2>3, <2>4, <2>5
<1>28. CASE \E r \in Requests : PipelineEnds(r)
    <2>1. TypeInv'
          BY <1>28 DEF PipelineEnds, RGoto, NoPipeline, EmptyMap, TypeInv,
             States, ModelStates, ConfigControl, RequestControl
    <2>2. StatusInv'
          BY <1>28 DEF PipelineEnds, RGoto, NoPipeline, EmptyMap, StatusInv
    <2>3. SubscriptionInv'
          BY <1>28 DEF PipelineEnds, RGoto, NoPipeline, EmptyMap,
             SubscriptionInv, IsAvailable
    <2>4. ObjectInv'
          BY <1>28 DEF PipelineEnds, RGoto, NoPipeline, EmptyMap, ObjectInv,
             IsAvailable, Usable
    <2>5. RequestInv'
          BY <1>28 DEF PipelineEnds, RGoto, NoPipeline, EmptyMap, RequestInv,
             Building, Usable, Holding
    <2> QED BY <2>1, <2>2, <2>3, <2>4, <2>5
<1>29. CASE UNCHANGED vars
    <2>1. TypeInv'
          BY <1>29 DEF vars, TypeInv
    <2>2. StatusInv'
          BY <1>29 DEF vars, StatusInv
    <2>3. SubscriptionInv'
          BY <1>29 DEF vars, SubscriptionInv, IsAvailable
    <2>4. ObjectInv'
          BY <1>29 DEF vars, ObjectInv, IsAvailable, Usable
    <2>5. RequestInv'
          BY <1>29 DEF vars, RequestInv, Building, Usable, Holding
    <2> QED BY <2>1, <2>2, <2>3, <2>4, <2>5
<1> QED BY <1>1, <1>2, <1>3, <1>4, <1>5, <1>6, <1>7, <1>8, <1>9, <1>10, <1>11,
   <1>12, <1>13, <1>14, <1>15, <1>16, <1>17, <1>18, <1>19, <1>20, <1>21,
   <1>22, <1>23, <1>24, <1>25, <1>26, <1>27, <1>28, <1>29 DEF Next,
   ConfigStep, RequestStep, Arrives

\* Every reachable state satisfies the invariant.
THEOREM PipelineInvariant == Spec => []PipelineInv
BY PipelineInvInit, PipelineInvStep, PTL DEF Spec

\* A request that waitForLoaded let through builds a whole pipeline, no
\* manager it uses is deinitialized before it has run, and no ReloadEvent,
\* RetireEvent, ValidationPassedEvent or ValidationFailedEvent of the
\* configuration thread, nor a UsedModelChangedEvent it sends, meets a state
\* that refuses it.
THEOREM PipelinesSafe == Spec => []PipelineSafety
<1>1. PipelineInv => PipelinesAreWhole
    BY DEF PipelineInv, RequestInv, PipelinesAreWhole
<1>2. PipelineInv => ConfigEventsAreLegal
    BY DEF PipelineInv, StatusInv, ConfigEventsAreLegal
<1>3. PipelineInv => PipelineSafety
    BY <1>1, <1>2 DEF PipelineSafety
<1> QED BY <1>3, PipelineInvariant, PTL

\* initializeNodeResources leaves the map of managers alone when every
\* custom node has one.
LEMMA InitializeKeepsManagers ==
    ASSUME TypeInv, Usable, NEW done \in SUBSET DOMAIN nodeInfos.custom,
           InitializeNodeResources(done)
    PROVE  nodeResources' = nodeResources
<1>1. DOMAIN nodeResources \cup done = DOMAIN nodeResources
    BY DEF Usable
<1> QED BY <1>1 DEF InitializeNodeResources, TypeInv

\* reload and retire wait for the guards of the requests that build, and the
\* revalidation that does not wait changes nothing these requests read.
THEOREM BuildersSeeNoChange == Spec => NoChangeWhileBuilding
<1>1. ASSUME PipelineInv, [Next]_vars, NEW r \in Requests, Building(r)
      PROVE  UNCHANGED object
    <2> USE <1>1 DEF PipelineInv, object
    <2>1. r \in handles /\ registered /\ Usable
          /\ pc \notin {"connections", "retire_connections"}
        BY DEF RequestInv, Building, Holding
    <2>2. CASE \E done \in SUBSET DOMAIN nodeInfos.custom,
                  passed \in BOOLEAN : Validate(done, passed)
        BY <2>1, <2>2, InitializeKeepsManagers DEF Validate
    <2>3. CASE ReloadDrained \/ RetireDrained
        BY <2>1, <2>3 DEF ReloadDrained, RetireDrained
    <2>4. CASE CreateDefinition \/ NameOccupied
        BY <2>1, <2>4 DEF CreateDefinition, NameOccupied
    <2>5. CASE ReloadConnections \/ RetireConnections
        BY <2>1, <2>5 DEF ReloadConnections, RetireConnections
    <2>6. CASE LoadConfig \/ UpdateConfigurationWithoutConfigFile
        BY <2>6
           DEF LoadConfig, UpdateConfigurationWithoutConfigFile, LoadModels
    <2>7. CASE RevalidatePipelines \/ ReloadDefinition \/ ResetSubscriptions
               \/ RetireOtherThan \/ NothingToRetire \/ Retire
               \/ TryReloadGatedModelConfigs
        BY <2>7
           DEF RevalidatePipelines, ReloadDefinition, ResetSubscriptions,
               RetireOtherThan, NothingToRetire, Retire,
               TryReloadGatedModelConfigs
    <2>8. CASE (\E m \in Models : NotifySubscribers(m)) \/ ReceiveNotification
               \/ CleanupResources \/ Arrives
        BY <2>8
           DEF NotifySubscribers, ReceiveNotification, CleanupResources,
               Arrives, Arrive
    <2>9. CASE \E q \in Requests : RequestStep(q)
        BY <2>9
           DEF RequestStep, SeesAvailable, SeesNotLoaded, WaitTimesOut,
               GivesUpOrWaits, WaitEnds, BuildNodes, ConnectNodes,
               PipelineEnds
    <2>10. CASE UNCHANGED vars
        BY <2>10 DEF vars
    <2> QED BY <2>2, <2>3, <2>4, <2>5, <2>6, <2>7, <2>8, <2>9, <2>10
            DEF Next, ConfigStep
<1>2. PipelineInv /\ [Next]_vars
      => [(\E r \in Requests : rpc[r] \in {"build", "connect"})
             => UNCHANGED object]_vars
    BY <1>1 DEF Building
<1> QED BY <1>2, PipelineInvariant, PTL DEF Spec, NoChangeWhileBuilding

-----------------------------------------------------------------------------
(* The state is current: types in full, and no change of a model missed.   *)

\* What nodes and connections can be, and the nodes of a pipeline.
ContentInv ==
    /\ nodeInfos \in Definitions \cup {Empty}
    /\ connections \in Definitions \cup {Empty}
    /\ \A r \in Requests : built[r].nodes \in Definitions \cup {Empty}

ManagersInv ==
    /\ \A n \in DOMAIN nodeResources : nodeResources[n] \in Managers
    /\ resources \in SUBSET Managers

HistoryInv ==
    /\ seen \in [Models -> ModelStates]
    /\ gated \in SUBSET Models
    /\ next \in Definitions \cup {NoDefinition, Poll}

\* A request gives its guard up only with checkpoints left.
CheckpointsInv ==
    /\ checkpoints \in [Requests -> 0 .. WaitCheckpoints]
    /\ \A r \in Requests :
           rpc[r] \in {"unguarded", "wait"} => checkpoints[r] > 0

DetailInv == ContentInv /\ ManagersInv /\ HistoryInv /\ CheckpointsInv

\* The configuration thread applies nothing, or only a poll.
AtRest == pc \in {"idle", "gate"} \/ (pc = "apply" /\ next = Poll)

\* Models never leave ModelManager, so what was once subscribed to or gated
\* is there, and a name that could not be subscribed to appears only with a
\* configuration file, which reloads the pipeline.
AppearedInv ==
    /\ \A m \in subs \cup gated : models[m] # "absent"
    /\ pc \in {"idle", "apply", "gate"} /\ (~ registered \/ state = "RETIRED")
          => nodeInfos = Empty
    /\ AtRest \/ pc = "validate" =>
          \A m \in UsedModels(nodeInfos) \ (Versions \cup subs) :
              models[m] = "absent"

\* Whoever changes a model the pipeline is subscribed to fires
\* UsedModelChangedEvent.
SeenInv ==
    /\ AtRest /\ registered /\ state \in {"AVAILABLE", Failed} =>
          \A m \in UsedModels(nodeInfos) \ (Versions \ subs) :
              models[m] = seen[m]
    /\ AtRest /\ registered /\ state = "AVAILABLE" =>
          \A m \in UsedModels(nodeInfos) : seen[m] = "ok"

\* No node, no model.
LEMMA EmptyUsesNothing == UsedModels(Empty) = {} /\ DOMAIN Empty.custom = {}
BY DEF UsedModels, Empty, EmptyMap

\* What a definition uses are models.
LEMMA UsedAreModels ==
    ASSUME ContentInv
    PROVE  UsedModels(nodeInfos) \subseteq Models
BY DefinitionsAssumption, EmptyUsesNothing DEF ContentInv, UsedModels

\* The full types hold of a server that has loaded nothing.
LEMMA DetailInvInit == Init => DetailInv
<1> SUFFICES ASSUME Init PROVE DetailInv
    OBVIOUS
<1>1. ContentInv
    BY DEF Init, ContentInv, NoPipeline
<1>2. ManagersInv
    BY DEF Init, ManagersInv, EmptyMap
<1>3. HistoryInv
    BY DEF Init, HistoryInv, ModelStates
<1>4. CheckpointsInv
    BY WaitCheckpointsAssumption DEF Init, CheckpointsInv
<1> QED BY <1>1, <1>2, <1>3, <1>4 DEF DetailInv

\* Every step keeps nodes and connections those of a configuration.
LEMMA ContentStep == PipelineInv /\ ContentInv /\ [Next]_vars => ContentInv'
<1> SUFFICES ASSUME PipelineInv, ContentInv, [Next]_vars PROVE ContentInv'
    OBVIOUS
<1> USE DEF PipelineInv, ContentInv, object, config, requests
<1>1. CASE CreateDefinition
    BY <1>1 DEF CreateDefinition
<1>2. CASE ReloadDrained
    BY <1>2 DEF ReloadDrained, ObjectInv
<1>3. CASE ReloadConnections
    BY <1>3 DEF ReloadConnections, ObjectInv
<1>4. CASE RetireDrained \/ RetireConnections
    BY <1>4 DEF RetireDrained, RetireConnections
<1>5. CASE NameOccupied
    BY <1>5 DEF NameOccupied
<1>6. CASE \E done \in SUBSET DOMAIN nodeInfos.custom, passed \in BOOLEAN :
             Validate(done, passed)
    BY <1>6 DEF Validate
<1>7. CASE \E r \in Requests : BuildNodes(r)
    BY <1>7 DEF BuildNodes, TypeInv
<1>8. CASE \E r \in Requests : PipelineEnds(r)
    BY <1>8 DEF PipelineEnds, TypeInv, NoPipeline
<1>9. CASE LoadConfig \/ UpdateConfigurationWithoutConfigFile
    BY <1>9 DEF LoadConfig, UpdateConfigurationWithoutConfigFile, LoadModels
<1>10. CASE RevalidatePipelines \/ ReloadDefinition \/ ResetSubscriptions
            \/ RetireOtherThan \/ NothingToRetire \/ Retire
            \/ TryReloadGatedModelConfigs
    BY <1>10 DEF RevalidatePipelines, ReloadDefinition, ResetSubscriptions,
       RetireOtherThan, NothingToRetire, Retire, TryReloadGatedModelConfigs
<1>11. CASE (\E m \in Models : NotifySubscribers(m)) \/ ReceiveNotification
            \/ CleanupResources \/ Arrives
    BY <1>11 DEF NotifySubscribers, ReceiveNotification, CleanupResources,
       Arrives, Arrive
<1>12. CASE \E r \in Requests :
              \/ SeesAvailable(r) \/ SeesNotLoaded(r) \/ WaitTimesOut(r)
              \/ GivesUpOrWaits(r) \/ WaitEnds(r) \/ ConnectNodes(r)
    BY <1>12 DEF SeesAvailable, SeesNotLoaded, WaitTimesOut, GivesUpOrWaits,
       WaitEnds, ConnectNodes
<1>13. CASE UNCHANGED vars
    BY <1>13 DEF vars
<1> QED BY <1>1, <1>2, <1>3, <1>4, <1>5, <1>6, <1>7, <1>8, <1>9, <1>10,
        <1>11, <1>12, <1>13 DEF Next, ConfigStep, RequestStep

\* A manager that is initialized is one of the node as it is configured.
LEMMA NewManagerIsManager ==
    ASSUME ContentInv, NEW n \in DOMAIN nodeInfos.custom,
           \E i \in 1 .. LiveManagers : IsFresh(n, i)
    PROVE  NewManager(n) \in Managers
<1> DEFINE i == CHOOSE j \in 1 .. LiveManagers : IsFresh(n, j)
<1>1. i \in 1 .. LiveManagers
    OBVIOUS
<1>2. nodeInfos \in Definitions
    BY EmptyUsesNothing DEF ContentInv
<1>3. NewManager(n) = [node |-> n, params |-> nodeInfos.custom[n], id |-> i]
    BY DEF NewManager
<1> HIDE DEF i
<1>4. NewManager(n) \in
          {[node |-> k, params |-> nodeInfos.custom[k], id |-> j] :
              k \in DOMAIN nodeInfos.custom, j \in 1 .. LiveManagers}
    BY <1>1, <1>3
<1> QED BY <1>2, <1>4 DEF Managers

\* Only managers are handed to the cleaner.
LEMMA ManagersStep ==
    PipelineInv /\ ContentInv /\ ManagersInv /\ [Next]_vars => ManagersInv'
<1> SUFFICES ASSUME PipelineInv, ContentInv, ManagersInv, [Next]_vars
             PROVE  ManagersInv'
    OBVIOUS
<1> USE DEF ManagersInv, object, config, requests
<1>1. CASE CreateDefinition
    BY <1>1 DEF CreateDefinition, EmptyMap
<1>2. CASE ReloadDrained
    BY <1>2 DEF ReloadDrained
<1>3. CASE RetireDrained
    BY <1>3 DEF RetireDrained, EmptyMap
<1>4. ASSUME NEW done \in SUBSET DOMAIN nodeInfos.custom,
             NEW passed \in BOOLEAN, Validate(done, passed)
      PROVE  ManagersInv'
    <2>1. InitializeNodeResources(done)
        BY <1>4 DEF Validate
    <2>2. \A n \in done : NewManager(n) \in Managers
        BY <2>1, NewManagerIsManager DEF InitializeNodeResources
    <2>3. resources' \in SUBSET Managers
        BY <2>1, <2>2 DEF InitializeNodeResources
    <2>4. ASSUME NEW n \in DOMAIN nodeResources'
          PROVE  nodeResources'[n] \in Managers
        BY <2>1, <2>2 DEF InitializeNodeResources
    <2> QED BY <2>3, <2>4
<1>5. CASE CleanupResources
    BY <1>5 DEF CleanupResources
<1>6. CASE NameOccupied \/ ReloadConnections \/ RetireConnections
    BY <1>6 DEF NameOccupied, ReloadConnections, RetireConnections
<1>7. CASE LoadConfig \/ UpdateConfigurationWithoutConfigFile
    BY <1>7 DEF LoadConfig, UpdateConfigurationWithoutConfigFile, LoadModels
<1>8. CASE RevalidatePipelines \/ ReloadDefinition \/ ResetSubscriptions
           \/ RetireOtherThan \/ NothingToRetire \/ Retire
           \/ TryReloadGatedModelConfigs
    BY <1>8 DEF RevalidatePipelines, ReloadDefinition, ResetSubscriptions,
       RetireOtherThan, NothingToRetire, Retire, TryReloadGatedModelConfigs
<1>9. CASE (\E m \in Models : NotifySubscribers(m)) \/ ReceiveNotification
           \/ Arrives
    BY <1>9 DEF NotifySubscribers, ReceiveNotification, Arrives, Arrive
<1>10. CASE \E r \in Requests : RequestStep(r)
    BY <1>10 DEF RequestStep, SeesAvailable, SeesNotLoaded, WaitTimesOut,
       GivesUpOrWaits, WaitEnds, BuildNodes, ConnectNodes, PipelineEnds
<1>11. CASE UNCHANGED vars
    BY <1>11 DEF vars
<1> QED BY <1>1, <1>2, <1>3, <1>4, <1>5, <1>6, <1>7, <1>8, <1>9, <1>10,
        <1>11 DEF Next, ConfigStep

\* What the configuration thread remembers.
LEMMA HistoryStep == PipelineInv /\ HistoryInv /\ [Next]_vars => HistoryInv'
<1> SUFFICES ASSUME PipelineInv, HistoryInv, [Next]_vars PROVE HistoryInv'
    OBVIOUS
<1> USE DEF HistoryInv, object, config, requests
<1>1. CASE LoadConfig \/ UpdateConfigurationWithoutConfigFile
    BY <1>1 DEF LoadConfig, UpdateConfigurationWithoutConfigFile, LoadModels
<1>2. CASE NameOccupied
    BY <1>2 DEF NameOccupied, PipelineInv, TypeInv
<1>3. CASE \E done \in SUBSET DOMAIN nodeInfos.custom, passed \in BOOLEAN :
             Validate(done, passed)
    BY <1>3 DEF Validate, PipelineInv, TypeInv
<1>4. CASE TryReloadGatedModelConfigs
    BY <1>4 DEF TryReloadGatedModelConfigs
<1>5. CASE RevalidatePipelines \/ CreateDefinition \/ ReloadDefinition
           \/ ResetSubscriptions \/ ReloadDrained \/ ReloadConnections
           \/ RetireOtherThan \/ NothingToRetire \/ Retire \/ RetireDrained
           \/ RetireConnections
    BY <1>5 DEF RevalidatePipelines, CreateDefinition, ReloadDefinition,
       ResetSubscriptions, ReloadDrained, ReloadConnections,
       RetireOtherThan, NothingToRetire, Retire, RetireDrained,
       RetireConnections
<1>6. CASE (\E m \in Models : NotifySubscribers(m)) \/ ReceiveNotification
           \/ CleanupResources \/ Arrives
    BY <1>6 DEF NotifySubscribers, ReceiveNotification, CleanupResources,
       Arrives, Arrive
<1>7. CASE \E r \in Requests : RequestStep(r)
    BY <1>7 DEF RequestStep, SeesAvailable, SeesNotLoaded, WaitTimesOut,
       GivesUpOrWaits, WaitEnds, BuildNodes, ConnectNodes, PipelineEnds
<1>8. CASE UNCHANGED vars
    BY <1>8 DEF vars
<1> QED BY <1>1, <1>2, <1>3, <1>4, <1>5, <1>6, <1>7, <1>8 DEF Next, ConfigStep

\* The configuration thread and the model threads leave the requests alone.
LEMMA OthersKeepRequests ==
    ASSUME [Next]_vars
    PROVE  Arrives \/ (\E r \in Requests : RequestStep(r))
           \/ UNCHANGED <<rpc, checkpoints>>
<1> USE DEF object, config, requests
<1>1. CASE LoadConfig \/ UpdateConfigurationWithoutConfigFile
    BY <1>1 DEF LoadConfig, UpdateConfigurationWithoutConfigFile, LoadModels
<1>2. CASE ConfigStep
    BY <1>2 DEF ConfigStep, RevalidatePipelines, CreateDefinition,
       ReloadDefinition, ResetSubscriptions, ReloadDrained,
       ReloadConnections, RetireOtherThan, NothingToRetire, Retire,
       RetireDrained, RetireConnections, NameOccupied, Validate,
       TryReloadGatedModelConfigs
<1>3. CASE (\E m \in Models : NotifySubscribers(m)) \/ ReceiveNotification
           \/ CleanupResources
    BY <1>3 DEF NotifySubscribers, ReceiveNotification, CleanupResources
<1>4. CASE UNCHANGED vars
    BY <1>4 DEF vars
<1> QED BY <1>1, <1>2, <1>3, <1>4 DEF Next

\* The guard is given up only before the last checkpoint.
LEMMA CheckpointsStep ==
    TypeInv /\ CheckpointsInv /\ [Next]_vars => CheckpointsInv'
<1> SUFFICES ASSUME TypeInv, CheckpointsInv, [Next]_vars
             PROVE  CheckpointsInv'
    OBVIOUS
<1> USE WaitCheckpointsAssumption DEF CheckpointsInv, TypeInv, RGoto
<1>1. CASE Arrives
    BY <1>1 DEF Arrives, Arrive
<1>2. ASSUME NEW r \in Requests, WaitEnds(r)
      PROVE  CheckpointsInv'
    <2>1. checkpoints[r] \in 0 .. WaitCheckpoints /\ checkpoints[r] > 0
        BY <1>2 DEF WaitEnds
    <2>2. checkpoints[r] - 1 \in 0 .. WaitCheckpoints
        BY <2>1
    <2> QED BY <1>2, <2>2 DEF WaitEnds
<1>3. CASE \E r \in Requests : SeesNotLoaded(r)
    BY <1>3 DEF SeesNotLoaded
<1>4. CASE \E r \in Requests : GivesUpOrWaits(r)
    BY <1>4 DEF GivesUpOrWaits
<1>5. CASE \E r \in Requests :
             \/ SeesAvailable(r) \/ WaitTimesOut(r) \/ BuildNodes(r)
             \/ ConnectNodes(r) \/ PipelineEnds(r)
    BY <1>5 DEF SeesAvailable, WaitTimesOut, BuildNodes, ConnectNodes,
       PipelineEnds
<1>6. CASE UNCHANGED <<rpc, checkpoints>>
    BY <1>6
<1> QED BY <1>1, <1>2, <1>3, <1>4, <1>5, <1>6, OthersKeepRequests
        DEF RequestStep

\* The four parts together.
LEMMA DetailInvStep == PipelineInv /\ DetailInv /\ [Next]_vars => DetailInv'
BY ContentStep, ManagersStep, HistoryStep, CheckpointsStep
   DEF DetailInv, PipelineInv

\* Loading models finds nothing absent, and leaves the rest as it was.
LEMMA LoadModelsFacts ==
    ASSUME TypeInv, NEW touched \in SUBSET Models,
           NEW found \in [touched -> ModelStates \ {"absent"}],
           LoadModels(touched, found)
    PROVE  /\ pc = "idle"
           /\ UNCHANGED <<registered, nodeInfos, subs, seen>>
           /\ gated' \subseteq subs
           /\ \A m \in Models : models[m] # "absent" => models'[m] # "absent"
           /\ \A m \in Models \ touched : models'[m] = models[m]
           /\ \A m \in subs : models'[m] # models[m] =>
                  state' \notin {"AVAILABLE", Failed}
           /\ state' = state \/ state' \in {AvailableStale, FailedStale}
BY DEF LoadModels, Fire, Handle, TypeInv, object, AvailableStale, FailedStale,
       Failed

\* A server that has loaded nothing has nothing to miss.
LEMMA CurrentInit == Init => AppearedInv /\ SeenInv
BY EmptyUsesNothing DEF Init, AppearedInv, SeenInv, Empty, EmptyMap,
   UsedModels

\* What was subscribed to stays; what could not be subscribed to stays away
\* until the pipeline is reloaded.
LEMMA AppearedStep ==
    PipelineInv /\ PipelineInv' /\ DetailInv /\ AppearedInv /\ [Next]_vars
        => AppearedInv'
<1> SUFFICES ASSUME PipelineInv, PipelineInv', DetailInv, AppearedInv,
                    [Next]_vars
             PROVE  AppearedInv'
    OBVIOUS
<1> USE EmptyUsesNothing, DefinitionsAssumption DEF object, config, requests
<1>0. /\ TypeInv /\ StatusInv /\ ObjectInv /\ pc' # "thrown"
      /\ subs \subseteq Models /\ models \in [Models -> ModelStates]
      /\ UsedModels(nodeInfos) \subseteq Models
    BY UsedAreModels DEF PipelineInv, StatusInv, DetailInv, TypeInv
<1>1. CASE LoadConfig
    <2> PICK d \in Definitions \cup {NoDefinition}, touched \in SUBSET Models :
            \E found \in [touched -> ModelStates \ {"absent"}] :
                LoadModels(touched, found) /\ next' = d
        BY <1>1 DEF LoadConfig
    <2> PICK found \in [touched -> ModelStates \ {"absent"}] :
            LoadModels(touched, found) /\ next' = d
        OBVIOUS
    <2>1. pc' = "apply" /\ next' # Poll
        BY <1>0, DefinitionsAssumption DEF LoadModels, Fire
    <2> QED BY <1>0, <2>1, LoadModelsFacts DEF AppearedInv, AtRest,
            AvailableStale, FailedStale
<1>2. CASE UpdateConfigurationWithoutConfigFile
    <2> PICK touched \in SUBSET Models :
            \E found \in [touched -> ModelStates \ {"absent"}] :
                /\ \A m \in touched : models[m] = "absent" => m \in Versions
                /\ LoadModels(touched, found)
        BY <1>2 DEF UpdateConfigurationWithoutConfigFile
    <2> PICK found \in [touched -> ModelStates \ {"absent"}] :
            /\ \A m \in touched : models[m] = "absent" => m \in Versions
            /\ LoadModels(touched, found)
        OBVIOUS
    <2>1. pc' = "apply"
        BY <1>0 DEF LoadModels, Fire
    <2> QED BY <1>0, <2>1, LoadModelsFacts DEF AppearedInv, AtRest,
            AvailableStale, FailedStale
<1>3. CASE RevalidatePipelines
    BY <1>3 DEF RevalidatePipelines, AppearedInv, AtRest
<1>4. CASE CreateDefinition
    BY <1>0, <1>4 DEF CreateDefinition, AppearedInv, AtRest, Subscribable
<1>5. CASE ReloadDefinition
    BY <1>0, <1>5 DEF ReloadDefinition, Fire, AppearedInv, AtRest
<1>6. CASE ResetSubscriptions
    BY <1>6 DEF ResetSubscriptions, AppearedInv, AtRest
<1>7. CASE ReloadDrained
    BY <1>7 DEF ReloadDrained, AppearedInv, AtRest
<1>8. CASE ReloadConnections
    BY <1>0, <1>8 DEF ReloadConnections, AppearedInv, AtRest, Subscribable,
       ObjectInv
<1>9. CASE RetireOtherThan
    BY <1>9 DEF RetireOtherThan, AppearedInv, AtRest
<1>10. CASE NothingToRetire
    BY <1>10 DEF NothingToRetire, AppearedInv, AtRest
<1>11. CASE Retire
    BY <1>0, <1>11 DEF Retire, Fire, AppearedInv, AtRest
<1>12. CASE RetireDrained
    BY <1>12 DEF RetireDrained, AppearedInv, AtRest
<1>13. CASE RetireConnections
    BY <1>0, <1>13 DEF RetireConnections, AppearedInv, AtRest, ObjectInv
<1>14. CASE NameOccupied
    BY <1>0, <1>14 DEF NameOccupied, Fire, Handle, AppearedInv, AtRest, Failed
<1>15. CASE \E done \in SUBSET DOMAIN nodeInfos.custom, passed \in BOOLEAN :
              Validate(done, passed)
    BY <1>0, <1>15 DEF Validate, Fire, Handle, AppearedInv, AtRest, Failed
<1>16. CASE TryReloadGatedModelConfigs
    <2> DEFINE retried == IF next = Poll THEN {} ELSE gated \ subs
    <2> PICK found \in [retried -> {"auto", "broken"}] :
            models' = [m \in Models |-> IF m \in retried THEN found[m]
                                                      ELSE models[m]]
        BY <1>16 DEF TryReloadGatedModelConfigs
    <2>1. \A m \in Models : models'[m] = "absent" <=> models[m] = "absent"
        BY <1>0 DEF AppearedInv
    <2>2. /\ pc = "gate" /\ gated' = {}
          /\ UNCHANGED <<registered, state, nodeInfos, subs>>
        BY <1>16 DEF TryReloadGatedModelConfigs
    <2> HIDE DEF retried
    <2> QED BY <1>0, <2>1, <2>2 DEF AppearedInv, AtRest
<1>17. CASE \E m \in Models : NotifySubscribers(m)
    BY <1>17 DEF NotifySubscribers, AppearedInv, AtRest
<1>18. CASE ReceiveNotification
    BY <1>18 DEF ReceiveNotification, Handle, AppearedInv, AtRest,
       AvailableStale, FailedStale
<1>19. CASE CleanupResources \/ Arrives
    BY <1>19 DEF CleanupResources, Arrives, Arrive, AppearedInv, AtRest
<1>20. CASE \E r \in Requests : RequestStep(r)
    BY <1>20 DEF RequestStep, SeesAvailable, SeesNotLoaded, WaitTimesOut,
       GivesUpOrWaits, WaitEnds, BuildNodes, ConnectNodes, PipelineEnds,
       AppearedInv, AtRest
<1>21. CASE UNCHANGED vars
    BY <1>21 DEF vars, AppearedInv, AtRest
<1> QED BY <1>1, <1>2, <1>3, <1>4, <1>5, <1>6, <1>7, <1>8, <1>9, <1>10,
        <1>11, <1>12, <1>13, <1>14, <1>15, <1>16, <1>17, <1>18, <1>19,
        <1>20, <1>21 DEF Next, ConfigStep

\* A change of a model the pipeline is subscribed to asks for a validation.
LEMMA SeenStep ==
    PipelineInv /\ PipelineInv' /\ DetailInv /\ AppearedInv /\ SeenInv
        /\ [Next]_vars => SeenInv'
<1> SUFFICES ASSUME PipelineInv, PipelineInv', DetailInv, AppearedInv,
                    SeenInv, [Next]_vars
             PROVE  SeenInv'
    OBVIOUS
<1> USE EmptyUsesNothing, DefinitionsAssumption DEF object, config, requests
<1>0. /\ TypeInv /\ StatusInv /\ ObjectInv /\ pc' # "thrown"
      /\ subs \subseteq Models /\ models \in [Models -> ModelStates]
      /\ UsedModels(nodeInfos) \subseteq Models
    BY UsedAreModels DEF PipelineInv, StatusInv, DetailInv, TypeInv
<1>1. CASE LoadConfig
    <2> PICK d \in Definitions \cup {NoDefinition}, touched \in SUBSET Models :
            \E found \in [touched -> ModelStates \ {"absent"}] :
                LoadModels(touched, found) /\ next' = d
        BY <1>1 DEF LoadConfig
    <2> PICK found \in [touched -> ModelStates \ {"absent"}] :
            LoadModels(touched, found) /\ next' = d
        OBVIOUS
    <2>1. pc' = "apply" /\ next' # Poll
        BY <1>0, DefinitionsAssumption DEF LoadModels, Fire
    <2> QED BY <2>1 DEF SeenInv, AtRest
<1>2. CASE UpdateConfigurationWithoutConfigFile
    <2> PICK touched \in SUBSET Models :
            \E found \in [touched -> ModelStates \ {"absent"}] :
                /\ \A m \in touched : models[m] = "absent" => m \in Versions
                /\ LoadModels(touched, found)
        BY <1>2 DEF UpdateConfigurationWithoutConfigFile
    <2> PICK found \in [touched -> ModelStates \ {"absent"}] :
            /\ \A m \in touched : models[m] = "absent" => m \in Versions
            /\ LoadModels(touched, found)
        OBVIOUS
    <2>1. \A m \in UsedModels(nodeInfos) \ (Versions \cup subs) :
              models'[m] = models[m]
        BY <1>0, LoadModelsFacts DEF AppearedInv, AtRest
    <2>2. CASE state' \in {"AVAILABLE", Failed}
        <3>1. \A m \in UsedModels(nodeInfos) \ (Versions \ subs) :
                  models'[m] = models[m]
            BY <2>1, <2>2, LoadModelsFacts, <1>0
        <3>2. /\ pc = "idle" /\ state' = state
              /\ UNCHANGED <<registered, nodeInfos, subs, seen>>
            BY <2>2, <1>0, LoadModelsFacts
               DEF Failed, AvailableStale, FailedStale
        <3> QED BY <3>1, <3>2 DEF SeenInv, AtRest
    <2> QED BY <2>2 DEF SeenInv
<1>3. CASE RevalidatePipelines
    BY <1>3 DEF RevalidatePipelines, SeenInv, AtRest
<1>4. CASE CreateDefinition \/ ReloadDefinition \/ ResetSubscriptions
           \/ ReloadDrained \/ ReloadConnections \/ RetireOtherThan \/ Retire
           \/ RetireDrained
    BY <1>0, <1>4 DEF CreateDefinition, ReloadDefinition, ResetSubscriptions,
       ReloadDrained, ReloadConnections, RetireOtherThan, Retire,
       RetireDrained, Fire, SeenInv, AtRest
<1>5. CASE NothingToRetire
    BY <1>5 DEF NothingToRetire, SeenInv, Failed
<1>6. CASE RetireConnections
    BY <1>0, <1>6 DEF RetireConnections, SeenInv, ObjectInv
<1>7. CASE NameOccupied
    BY <1>0, <1>7 DEF NameOccupied, Fire, Handle, SeenInv, Failed
<1>8. CASE \E done \in SUBSET DOMAIN nodeInfos.custom, passed \in BOOLEAN :
             Validate(done, passed)
    BY <1>0, <1>8 DEF Validate, Fire, Handle, SeenInv, Failed, Validatable
<1>9. CASE TryReloadGatedModelConfigs
    <2> DEFINE retried == IF next = Poll THEN {} ELSE gated \ subs
    <2> PICK found \in [retried -> {"auto", "broken"}] :
            models' = [m \in Models |-> IF m \in retried THEN found[m]
                                                      ELSE models[m]]
        BY <1>9 DEF TryReloadGatedModelConfigs
    <2>1. pc = "gate" /\ UNCHANGED <<registered, state, nodeInfos, subs, seen>>
        BY <1>9 DEF TryReloadGatedModelConfigs
    <2>2. \A m \in UsedModels(nodeInfos) \ (Versions \cup subs) :
              m \notin retried
        BY <2>1 DEF AppearedInv, AtRest
    <2>3. \A m \in UsedModels(nodeInfos) \ (Versions \ subs) :
              models'[m] = models[m]
        BY <1>0, <2>2
    <2> HIDE DEF retried
    <2> QED BY <2>1, <2>3 DEF SeenInv, AtRest
<1>10. CASE \E m \in Models : NotifySubscribers(m)
    BY <1>10 DEF NotifySubscribers, SeenInv, AtRest
<1>11. CASE ReceiveNotification
    BY <1>11 DEF ReceiveNotification, Handle, SeenInv, AtRest, AvailableStale,
       FailedStale, Failed
<1>12. CASE CleanupResources \/ Arrives
    BY <1>12 DEF CleanupResources, Arrives, Arrive, SeenInv, AtRest
<1>13. CASE \E r \in Requests : RequestStep(r)
    BY <1>13 DEF RequestStep, SeesAvailable, SeesNotLoaded, WaitTimesOut,
       GivesUpOrWaits, WaitEnds, BuildNodes, ConnectNodes, PipelineEnds,
       SeenInv, AtRest
<1>14. CASE UNCHANGED vars
    BY <1>14 DEF vars, SeenInv, AtRest
<1> QED BY <1>1, <1>2, <1>3, <1>4, <1>5, <1>6, <1>7, <1>8, <1>9, <1>10,
        <1>11, <1>12, <1>13, <1>14 DEF Next, ConfigStep

CurrentInv == PipelineInv /\ DetailInv /\ AppearedInv /\ SeenInv

\* Every reachable state satisfies both invariants.
LEMMA CurrentInvariant == Spec => []CurrentInv
<1>1. Init => CurrentInv
    BY PipelineInvInit, DetailInvInit, CurrentInit DEF CurrentInv
<1>2. CurrentInv /\ [Next]_vars => CurrentInv'
    BY PipelineInvStep, DetailInvStep, AppearedStep, SeenStep DEF CurrentInv
<1> QED BY <1>1, <1>2, PTL DEF Spec

\* At rest, a pipeline that is AVAILABLE or LOADING_PRECONDITION_FAILED was
\* validated against the models it is subscribed to, and those it names
\* without a version, as they are, whatever files, polls and predict threads
\* did to them in between; and validation would accept those of an AVAILABLE
\* one (ValidationResultNotifier, receiveNotification, revalidatePipelines).
THEOREM PipelineStateIsCurrent == Spec => []StateIsCurrent
<1>1. CurrentInv => TypeOK
    BY DEF CurrentInv, PipelineInv, TypeInv, DetailInv, ContentInv,
       ManagersInv, HistoryInv, CheckpointsInv, TypeOK
<1>2. CurrentInv => NoChangeMissed
    BY DEF CurrentInv, SeenInv, AtRest, NoChangeMissed
<1>3. CurrentInv => AvailableCanBeServed
    BY DEF CurrentInv, SeenInv, AtRest, AvailableCanBeServed
<1>4. CurrentInv => StateIsCurrent
    BY <1>1, <1>2, <1>3 DEF StateIsCurrent
<1> QED BY <1>4, CurrentInvariant, PTL
=============================================================================

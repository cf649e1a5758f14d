---------------------------- MODULE ModelVersions ----------------------------
(***************************************************************************)
(* The versions of one model: ModelManager::reloadModelWithVersions        *)
(* (src/src/modelmanager.cpp) brings the versions that Model               *)
(* (src/src/model.cpp) serves in line with the version directories, the    *)
(* version policy and the configuration, and keeps the default version,    *)
(* the one a request without a version gets.                               *)
(*                                                                         *)
(* The configuration thread does this one version at a time, under         *)
(* configMtx, while predict requests reload versions for their own shapes  *)
(* (shape "auto").  A version is here its status and the configuration it  *)
(* was loaded with; ModelInstance has the rest.                            *)
(***************************************************************************)
EXTENDS Integers, Sequences, FiniteSets

CONSTANTS
    Versions,           \* version numbers
    DirOrder,           \* the order in which directories are listed
    Policies,           \* version policies the configuration may ask for
    Revisions,          \* configurations that need a reload of one another
    Reshaped,           \* versions that requests reload (shape "auto")
    Blacklisting,       \* whether a custom loader blacklists versions
    IntBits             \* width of int; version numbers have 64 bits

ASSUME VersionsAssumption == Versions \subseteq Nat \ {0}
ASSUME FinitenessAssumption == IsFiniteSet(Versions)
ASSUME PoliciesAssumption ==
    Policies \subseteq
        [kind : {"all"}] \cup [kind : {"latest"}, n : Nat]
            \cup [kind : {"specific"}, versions : SUBSET Versions]
ASSUME DirOrderAssumption ==
    /\ DirOrder \in Seq(Versions)
    /\ \A v \in Versions : \E i \in DOMAIN DirOrder : DirOrder[i] = v
ASSUME IntBitsAssumption == IntBits \in Nat \ {0}

VARIABLES
    disk,               \* version directories
    good,               \* versions that load with the present configuration
    policy,             \* getModelVersionPolicy()
    revision,           \* the present configuration
    blacklist,          \* versions the custom loader blacklists
    vstate,             \* status of each version
    byRequest,          \* history: versions whose status a request wrote last
    loadedWith,         \* getModelConfig() of each version
    default,            \* Model::defaultVersion, 0 if none
    pc,
    available,          \* availableVersions
    toStart,            \* versionsToStart
    toReload,           \* versionsToReload
    toRetire,           \* versionsToRetire
    toCleanup,          \* versionsToCleanup
    failed,             \* versionsFailed
    allFailed,          \* allFailedVersions
    result,             \* blocking_status
    asked,              \* versions a request has decided to reload
    reshaping           \* versions whose loadingMutex a request holds

environment == <<disk, good, policy, revision, blacklist>>
states == <<vstate, byRequest>>
served == <<states, loadedWith, default>>
lists == <<available, toStart, toReload, toRetire, toCleanup, failed, allFailed>>
requests == <<asked, reshaping>>
vars == <<environment, served, pc, lists, result, requests>>

\* "none": no ModelInstance yet.  "failed": LOADING with error UNKNOWN.
VersionStates == {"none", "loading", "failed", "available", "unloading", "end"}

Control == {"idle", "add", "adding", "added", "reload", "reloading",
            "reloaded", "retire", "retiring", "unloading", "cleanup",
            "all", "all_unloading", "all_ended", "clean_all", "all_cleaned"}

TypeOK ==
    /\ disk \in SUBSET Versions
    /\ good \in SUBSET Versions
    /\ policy \in Policies
    /\ revision \in Revisions
    /\ blacklist \in SUBSET Versions
    /\ vstate \in [Versions -> VersionStates]
    /\ loadedWith \in [Versions -> Revisions]
    /\ default \in Versions \cup {0}
    /\ pc \in Control
    /\ \A s \in {available, toStart, toReload, toRetire, toCleanup,
                 allFailed, asked, reshaping, byRequest} : s \in SUBSET Versions
    /\ failed \in Seq(Versions)
    /\ result \in {"none", "OK", "error"}

Registered == {v \in Versions : vstate[v] # "none"}
Available == {v \in Versions : vstate[v] = "available"}

\* The highest version of a set, 0 if it has none.
IsHighest(v, S) == v \in S \cup {0} /\ \A w \in S : w <= v
\* Lists are worked through in ascending order.
IsFirst(v, S) == v \in S /\ \A w \in S : v <= w

\* No version of the model is known.
Init ==
    /\ disk \in SUBSET Versions
    /\ good \in SUBSET Versions
    /\ policy \in Policies
    /\ revision \in Revisions
    /\ blacklist = {}
    /\ vstate = [v \in Versions |-> "none"]
    /\ byRequest = {}
    /\ loadedWith = [v \in Versions |-> revision]
    /\ default = 0
    /\ pc = "idle"
    /\ available = {}
    /\ toStart = {}
    /\ toReload = {}
    /\ toRetire = {}
    /\ toCleanup = {}
    /\ failed = <<>>
    /\ allFailed = {}
    /\ result = "none"
    /\ asked = {}
    /\ reshaping = {}

-----------------------------------------------------------------------------
(* Choosing versions *)

\* ModelVersionPolicy::filter.
Filter(p, versions) ==
    CASE p.kind = "all" -> versions
      [] p.kind = "latest" ->
            {v \in versions : Cardinality({w \in versions : w > v}) < p.n}
      [] p.kind = "specific" -> versions \cap p.versions

\* The requested versions: the policy's, without what the custom loader has
\* blacklisted among the registered ones.
Requested(versions) ==
    Filter(policy, versions) \ (blacklist \cap Registered)

\* A mistake: a retired version that is asked for again is left alone.
ForgetsEnded(v) == vstate[v] = "failed" \/ loadedWith[v] # revision

NeedsReload(v) ==
    \/ vstate[v] \in {"unloading", "end", "failed"}
    \/ loadedWith[v] # revision

VersionsToStart(versions) == Requested(versions) \ Registered
VersionsToReload(versions) ==
    {v \in Requested(versions) \cap Registered : NeedsReload(v)}
VersionsToRetire(versions) ==
    {v \in Registered \ Requested(versions) :
        vstate[v] \notin {"unloading", "end"}}

\* std::lower_bound bisects, whether the range is sorted or not: among the len
\* elements from first on, the first that it takes to be at least v.
LowerBound(s, v) ==
    LET bound[len \in 0 .. Len(s)] ==
            LET half == len \div 2
            IN  [first \in 1 .. Len(s) + 1 - len |->
                    IF len = 0 THEN first
                    ELSE IF s[first + half] < v
                         THEN bound[len - half - 1][first + half + 1]
                         ELSE bound[half][first]]
    IN  bound[Len(s)][1]

BinarySearch(s, v) ==
    LET i == LowerBound(s, v) IN i <= Len(s) /\ s[i] <= v

\* availableVersions in the order of the directory listing.
Listed(versions) ==
    LET list[i \in 0 .. Len(DirOrder)] ==
            IF i = 0 THEN <<>>
            ELSE IF DirOrder[i] \in versions THEN Append(list[i - 1], DirOrder[i])
                                             ELSE list[i - 1]
    IN  list[Len(DirOrder)]

\* A failed version is looked up in what is left, and removed if found.
WithoutFailed(rest, v) ==
    IF BinarySearch(Listed(rest), v) THEN rest \ {v} ELSE rest

AfterFailures ==
    LET left[i \in 0 .. Len(failed)] ==
            IF i = 0 THEN available ELSE WithoutFailed(left[i - 1], failed[i])
    IN  left[Len(failed)]

\* The conversion of a version number to the int parameter ignoredVersion.
ToInt(v) ==
    ((v + 2 ^ (IntBits - 1)) % (2 ^ IntBits)) - 2 ^ (IntBits - 1)

\* updateDefaultVersion(ignoredVersion)
UpdateDefault(ignored) ==
    default' \in {v \in Versions \cup {0} :
                    IsHighest(v, Available \ {ToInt(ignored)})}

SetState(v, s) ==
    /\ vstate' = [vstate EXCEPT ![v] = s]
    /\ byRequest' = byRequest \ {v}

-----------------------------------------------------------------------------
(* The environment: between two applications of the configuration the       *)
(* directories, the files and the configuration change.                     *)

EnvironmentChanges ==
    /\ pc = "idle"
    /\ result' = "none"
    /\ UNCHANGED <<served, pc, lists, requests>>

VersionAppearsOrGoes(v) ==
    /\ EnvironmentChanges
    /\ disk' = IF v \in disk THEN disk \ {v} ELSE disk \cup {v}
    /\ UNCHANGED <<good, policy, revision, blacklist>>

FilesChange(v) ==
    /\ EnvironmentChanges
    /\ good' = IF v \in good THEN good \ {v} ELSE good \cup {v}
    /\ UNCHANGED <<disk, policy, revision, blacklist>>

BlacklistChanges(v) ==
    /\ Blacklisting
    /\ EnvironmentChanges
    /\ blacklist' = IF v \in blacklist THEN blacklist \ {v}
                                       ELSE blacklist \cup {v}
    /\ UNCHANGED <<disk, good, policy, revision>>

ConfigurationChanges(p, r) ==
    /\ EnvironmentChanges
    /\ policy' = p
    /\ revision' = r
    /\ UNCHANGED <<disk, good, blacklist>>

-----------------------------------------------------------------------------
(* reloadModelWithVersions *)

\* A mistake: what is no longer asked for goes first.
RetiresFirst ==
    /\ pc = "idle"
    /\ available' = disk
    /\ toStart' = VersionsToStart(disk)
    /\ toReload' = VersionsToReload(disk)
    /\ toRetire' = VersionsToRetire(disk)
    /\ toCleanup' = {}
    /\ failed' = <<>>
    /\ allFailed' = {}
    /\ result' = "OK"
    /\ pc' = IF toRetire' # {} THEN "retire" ELSE "add"
    /\ UNCHANGED <<environment, served, requests>>

\* The directories are read once; a model whose custom loader is gone is
\* handled by RetireAllVersions.
ReloadModelWithVersions ==
    /\ pc = "idle"
    /\ available' = disk
    /\ toStart' = VersionsToStart(disk)
    /\ toReload' = VersionsToReload(disk)
    /\ toRetire' = VersionsToRetire(disk)
    /\ toCleanup' = {}
    /\ failed' = <<>>
    /\ allFailed' = {}
    /\ result' = "OK"
    /\ pc' = IF VersionsToStart(disk) = {} THEN "reload" ELSE "add"
    /\ UNCHANGED <<environment, served, requests>>

\* addVersion: the instance is registered before it loads.
AddVersion(v) ==
    /\ pc = "add"
    /\ IsFirst(v, toStart)
    /\ SetState(v, "loading")
    /\ loadedWith' = [loadedWith EXCEPT ![v] = revision]
    /\ pc' = "adding"
    /\ UNCHANGED <<environment, default, lists, result, requests>>

AddSucceeds(v) ==
    /\ pc = "adding"
    /\ IsFirst(v, toStart)
    /\ v \in good
    /\ SetState(v, "available")
    /\ pc' = "added"
    /\ UNCHANGED <<environment, loadedWith, default, lists, result, requests>>

AddFails(v) ==
    /\ pc = "adding"
    /\ IsFirst(v, toStart)
    /\ v \notin good
    /\ SetState(v, "failed")
    /\ failed' = Append(failed, v)
    /\ toStart' = toStart \ {v}
    /\ pc' = "add"
    /\ UNCHANGED <<environment, loadedWith, default, available, toReload,
                   toRetire, toCleanup, allFailed, result, requests>>

AddUpdatesDefault(v) ==
    /\ pc = "added"
    /\ IsFirst(v, toStart)
    /\ UpdateDefault(0)
    /\ toStart' = toStart \ {v}
    /\ pc' = "add"
    /\ UNCHANGED <<environment, states, loadedWith, available, toReload,
                   toRetire, toCleanup, failed, allFailed, result, requests>>

AllAdded ==
    /\ pc = "add"
    /\ toStart = {}
    /\ failed = <<>>
    /\ result' = "OK"
    /\ pc' = "reload"
    /\ UNCHANGED <<environment, served, lists, requests>>

\* Versions that did not load are no longer available, and the policy chooses
\* again.
AddFallsBack ==
    /\ pc = "add"
    /\ toStart = {}
    /\ failed # <<>>
    /\ allFailed' = allFailed \cup {failed[i] : i \in DOMAIN failed}
    /\ available' = AfterFailures
    /\ toStart' = VersionsToStart(AfterFailures)
    /\ toReload' = VersionsToReload(AfterFailures)
    /\ toRetire' = VersionsToRetire(AfterFailures)
    /\ result' = "error"
    /\ IF VersionsToStart(AfterFailures) = {}
       THEN pc' = "reload" /\ failed' = failed
       ELSE pc' = "add" /\ failed' = <<>>
    /\ UNCHANGED <<environment, served, toCleanup, requests>>

\* reloadModel: waits for the version's loadingMutex.
ReloadVersion(v) ==
    /\ pc = "reload"
    /\ IsFirst(v, toReload)
    /\ v \notin reshaping
    /\ SetState(v, "loading")
    /\ loadedWith' = [loadedWith EXCEPT ![v] = revision]
    /\ pc' = "reloading"
    /\ UNCHANGED <<environment, default, lists, result, requests>>

ReloadSucceeds(v) ==
    /\ pc = "reloading"
    /\ IsFirst(v, toReload)
    /\ v \in good
    /\ SetState(v, "available")
    /\ pc' = "reloaded"
    /\ UNCHANGED <<environment, loadedWith, default, lists, result, requests>>

\* A mistake: a version that does not load is tried again.
ReloadRetries(v) ==
    /\ pc = "reloading"
    /\ IsFirst(v, toReload)
    /\ v \notin good
    /\ SetState(v, "failed")
    /\ result' = "error"
    /\ pc' = "reload"
    /\ UNCHANGED <<environment, loadedWith, default, lists, requests>>

\* The default version is left as it is.
ReloadFails(v) ==
    /\ pc = "reloading"
    /\ IsFirst(v, toReload)
    /\ v \notin good
    /\ SetState(v, "failed")
    /\ failed' = Append(failed, v)
    /\ toReload' = toReload \ {v}
    /\ result' = "error"
    /\ pc' = "reload"
    /\ UNCHANGED <<environment, loadedWith, default, available, toStart,
                   toRetire, toCleanup, allFailed, requests>>

ReloadUpdatesDefault(v) ==
    /\ pc = "reloaded"
    /\ IsFirst(v, toReload)
    /\ UpdateDefault(0)
    /\ toReload' = toReload \ {v}
    /\ pc' = "reload"
    /\ UNCHANGED <<environment, states, loadedWith, available, toStart,
                   toRetire, toCleanup, failed, allFailed, result, requests>>

\* The versions to retire are computed again, those that failed are cleaned
\* up instead.  Versions the policy now would start are not started.
AllReloaded ==
    /\ pc = "reload"
    /\ toReload = {}
    /\ allFailed' = allFailed \cup {failed[i] : i \in DOMAIN failed}
    /\ available' = AfterFailures
    /\ toStart' = VersionsToStart(AfterFailures)
    /\ toReload' = VersionsToReload(AfterFailures)
    /\ toRetire' = VersionsToRetire(AfterFailures) \ allFailed'
    /\ toCleanup' = VersionsToRetire(AfterFailures) \cap allFailed'
    /\ pc' = "retire"
    /\ UNCHANGED <<environment, served, failed, result, requests>>

-----------------------------------------------------------------------------
(* Model::retireVersions and Model::cleanupFailedLoad *)

\* A mistake: the default is updated for no version in particular.
RetireIgnoresNone(v) ==
    /\ pc = "retire"
    /\ IsFirst(v, toRetire)
    /\ UpdateDefault(0)
    /\ pc' = "retiring"
    /\ UNCHANGED <<environment, states, loadedWith, lists, result, requests>>

\* The default moves away before the version goes.
RetireUpdatesDefault(v) ==
    /\ pc = "retire"
    /\ IsFirst(v, toRetire)
    /\ UpdateDefault(v)
    /\ pc' = "retiring"
    /\ UNCHANGED <<environment, states, loadedWith, lists, result, requests>>

RetireVersion(v) ==
    /\ pc = "retiring"
    /\ IsFirst(v, toRetire)
    /\ v \notin reshaping
    /\ SetState(v, "unloading")
    /\ pc' = "unloading"
    /\ UNCHANGED <<environment, loadedWith, default, lists, result, requests>>

RetireEnds(v) ==
    /\ pc = "unloading"
    /\ IsFirst(v, toRetire)
    /\ SetState(v, "end")
    /\ toRetire' = toRetire \ {v}
    /\ pc' = "retire"
    /\ UNCHANGED <<environment, loadedWith, default, available, toStart,
                   toReload, toCleanup, failed, allFailed, result, requests>>

CleanupUpdatesDefault(v) ==
    /\ pc = "retire"
    /\ toRetire = {}
    /\ IsFirst(v, toCleanup)
    /\ UpdateDefault(v)
    /\ pc' = "cleanup"
    /\ UNCHANGED <<environment, states, loadedWith, lists, result, requests>>

CleanupFailedLoad(v) ==
    /\ pc = "cleanup"
    /\ IsFirst(v, toCleanup)
    /\ v \notin reshaping
    /\ SetState(v, "failed")
    /\ toCleanup' = toCleanup \ {v}
    /\ pc' = "retire"
    /\ UNCHANGED <<environment, loadedWith, default, available, toStart,
                   toReload, toRetire, failed, allFailed, result, requests>>

\* The lists are local to an operation.
ClearLists ==
    /\ available' = {}
    /\ toStart' = {}
    /\ toReload' = {}
    /\ toRetire' = {}
    /\ toCleanup' = {}
    /\ failed' = <<>>
    /\ allFailed' = {}

ApplicationEnds ==
    /\ pc = "retire"
    /\ toRetire = {}
    /\ toCleanup = {}
    /\ ClearLists
    /\ pc' = "idle"
    /\ UNCHANGED <<environment, served, result, requests>>

-----------------------------------------------------------------------------
(* Model::retireAllVersions and Model::cleanupAllVersions *)

\* The model was removed from the configuration or its custom loader is gone.
RetireAllVersions ==
    /\ pc = "idle"
    /\ Registered # {}
    /\ toRetire' = Registered
    /\ result' = "none"
    /\ pc' = "all"
    /\ UNCHANGED <<environment, served, available, toStart, toReload,
                   toCleanup, failed, allFailed, requests>>

RetireAllNext(v) ==
    /\ pc = "all"
    /\ IsFirst(v, toRetire)
    /\ v \notin reshaping
    /\ SetState(v, "unloading")
    /\ pc' = "all_unloading"
    /\ UNCHANGED <<environment, loadedWith, default, lists, result, requests>>

RetireAllUnloaded(v) ==
    /\ pc = "all_unloading"
    /\ IsFirst(v, toRetire)
    /\ SetState(v, "end")
    /\ pc' = "all_ended"
    /\ UNCHANGED <<environment, loadedWith, default, lists, result, requests>>

\* Here the default moves away after the version has gone.
RetireAllUpdatesDefault(v) ==
    /\ pc = "all_ended"
    /\ IsFirst(v, toRetire)
    /\ UpdateDefault(0)
    /\ toRetire' = toRetire \ {v}
    /\ pc' = "all"
    /\ UNCHANGED <<environment, states, loadedWith, available, toStart,
                   toReload, toCleanup, failed, allFailed, result, requests>>

\* The model's entry in the configuration is invalid.
CleanupAllVersions ==
    /\ pc = "idle"
    /\ Registered # {}
    /\ toCleanup' = Registered
    /\ result' = "none"
    /\ pc' = "clean_all"
    /\ UNCHANGED <<environment, served, available, toStart, toReload,
                   toRetire, failed, allFailed, requests>>

CleanupAllNext(v) ==
    /\ pc = "clean_all"
    /\ IsFirst(v, toCleanup)
    /\ v \notin reshaping
    /\ SetState(v, "failed")
    /\ pc' = "all_cleaned"
    /\ UNCHANGED <<environment, loadedWith, default, lists, result, requests>>

CleanupAllUpdatesDefault(v) ==
    /\ pc = "all_cleaned"
    /\ IsFirst(v, toCleanup)
    /\ UpdateDefault(0)
    /\ toCleanup' = toCleanup \ {v}
    /\ pc' = "clean_all"
    /\ UNCHANGED <<environment, states, loadedWith, available, toStart,
                   toReload, toRetire, failed, allFailed, result, requests>>

AllVersionsGone ==
    /\ \/ pc = "all" /\ toRetire = {}
       \/ pc = "clean_all" /\ toCleanup = {}
    /\ ClearLists
    /\ pc' = "idle"
    /\ UNCHANGED <<environment, served, result, requests>>

-----------------------------------------------------------------------------
(* Predict requests that reload a version for their shape *)

\* The version whose loadingMutex the configuration thread holds.
Locked ==
    {v \in Versions : \/ pc = "adding" /\ IsFirst(v, toStart)
                      \/ pc = "reloading" /\ IsFirst(v, toReload)
                      \/ pc \in {"unloading", "all_unloading"}
                            /\ IsFirst(v, toRetire)}

\* A request found the version available and of another shape, and gave its
\* unload guard up.
AsksForShape(v) ==
    /\ v \in Reshaped
    /\ vstate[v] = "available"
    /\ asked' = asked \cup {v}
    /\ UNCHANGED <<environment, served, pc, lists, result, reshaping>>

\* It gets loadingMutex, whatever the status is by now.
StartsReshape(v) ==
    /\ v \in asked
    /\ v \notin reshaping \cup Locked
    /\ asked' = asked \ {v}
    /\ reshaping' = reshaping \cup {v}
    /\ vstate' = [vstate EXCEPT ![v] = "loading"]
    /\ byRequest' = byRequest \cup {v}
    /\ UNCHANGED <<environment, loadedWith, default, pc, lists, result>>

\* The reload, its repetition after a full unload, or the recovery ends; or
\* the exception of a pipeline ends it, and the version is still LOADING.
EndsReshape(v) ==
    /\ v \in reshaping
    /\ reshaping' = reshaping \ {v}
    /\ \E s \in {"available", "failed", "loading"} :
          vstate' = [vstate EXCEPT ![v] = s]
    /\ UNCHANGED <<environment, byRequest, loadedWith, default, pc, lists, result,
                   asked>>

-----------------------------------------------------------------------------
ApplicationStep(v) ==
    \/ AddVersion(v) \/ AddSucceeds(v) \/ AddFails(v) \/ AddUpdatesDefault(v)
    \/ ReloadVersion(v) \/ ReloadSucceeds(v) \/ ReloadFails(v)
    \/ ReloadUpdatesDefault(v)
    \/ RetireUpdatesDefault(v) \/ RetireVersion(v) \/ RetireEnds(v)
    \/ CleanupUpdatesDefault(v) \/ CleanupFailedLoad(v)
    \/ RetireAllNext(v) \/ RetireAllUnloaded(v) \/ RetireAllUpdatesDefault(v)
    \/ CleanupAllNext(v) \/ CleanupAllUpdatesDefault(v)

ListDone ==
    \/ AllAdded
    \/ AddFallsBack
    \/ AllReloaded
    \/ ApplicationEnds
    \/ AllVersionsGone

Application == ListDone \/ \E v \in Versions : ApplicationStep(v)

RequestStep(v) == AsksForShape(v) \/ StartsReshape(v) \/ EndsReshape(v)

Environment ==
    \/ \E v \in Versions : \/ VersionAppearsOrGoes(v)
                           \/ FilesChange(v)
                           \/ BlacklistChanges(v)
    \/ \E p \in Policies, r \in Revisions : ConfigurationChanges(p, r)

Choice ==
    \/ ReloadModelWithVersions
    \/ RetireAllVersions
    \/ CleanupAllVersions

Next ==
    \/ Environment
    \/ Choice
    \/ Application
    \/ \E v \in Versions : RequestStep(v)

Spec == Init /\ [][Next]_vars

\* The configuration thread runs, gets a loadingMutex it keeps asking for, and
\* requests finish their reloads.
Fairness ==
    /\ SF_vars(Application)
    /\ \A v \in Versions : WF_vars(EndsReshape(v))

FairSpec == Spec /\ Fairness

-----------------------------------------------------------------------------
(* Properties *)

\* A request without a version is never sent to a version that is being or has
\* been retired by reloadModelWithVersions: retireVersions moves the default
\* first ("Version to exclude from being selected as the default version").
\* (retireAllVersions, of a model that goes altogether, does not.)
DefaultNotRetired ==
    default # 0 /\ pc \notin {"all_unloading", "all_ended"} =>
        vstate[default] \notin {"none", "unloading", "end"}

\* The listing has these versions in numeric order.  The directories are listed
\* as strings, so with a version of two digits beside one of one it need not.
ListedInOrder(versions) ==
    \A i, j \in DOMAIN DirOrder :
        i < j /\ {DirOrder[i], DirOrder[j]} \subseteq versions
            => DirOrder[i] < DirOrder[j]

\* Between two applications the default version is the highest one that is
\* available, 0 if there is none, also after failures and retirements.  A
\* version that a request has reloaded may be passed over, or kept although
\* it failed; and a default that failed to reload stays when the binary search
\* misses it in a listing out of order.
DefaultIsHighest ==
    pc = "idle" =>
        /\ \/ default \in Available \cup byRequest \cup {0}
           \/ vstate[default] = "failed" /\ ~ ListedInOrder(Versions)
        /\ \A v \in Available \ byRequest : v <= default

\* The versions the policy would serve of those that load.  One that a request
\* is reloading, or has reloaded, was serving when it was looked at.
Expected ==
    Filter(policy, {v \in disk : \/ v \in good \cup byRequest
                                 \/ vstate[v] = "available"})

\* reloadModelWithVersions that returns OK has made the model serve exactly
\* what the policy chooses among the versions that load, whatever was served
\* before, and however the directories are listed; but for the versions that
\* requests have reloaded since, which may have failed, or come back after
\* they were retired.
OkMeansServed ==
    pc = "idle" /\ result = "OK" /\ blacklist = {} =>
        Available \ byRequest = Expected \ byRequest

\* A version that failed to load is not chosen again in the same application
\* ("Removing available version {} due to load failure"), if the search finds
\* it.
FailedAreRemoved ==
    pc = "retire" /\ ListedInOrder(disk) => available \cap allFailed = {}

\* An available version is retired only after everything that the policy asks
\* for instead is available, unless something failed to load, or is in the
\* hands of a request.
ReplacedBeforeRetired ==
    [][ pc = "retiring" /\ pc' = "unloading" /\ result = "OK" =>
            \A w \in Requested(available) \ byRequest :
                vstate[w] = "available" ]_vars

\* Every application ends: the loop that adds versions tries each at most
\* once, and no wait for a loadingMutex lasts.
ApplicationTerminates == pc # "idle" ~> pc = "idle"

\* What an application of the configuration leaves behind: the versions the
\* policy chooses among those that load, and the default among these.
PolicyServed ==
    TypeOK /\ DefaultIsHighest /\ OkMeansServed /\ FailedAreRemoved
==============================================================================

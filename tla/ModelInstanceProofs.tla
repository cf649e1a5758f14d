------------------------- MODULE ModelInstanceProofs -------------------------
(***************************************************************************)
(* Proofs about ModelInstance, for every set of requests and shapes and    *)
(* every number of streams.                                                *)
(*                                                                         *)
(* The safety properties are not inductive: that nobody uses an instance   *)
(* whose components change follows from who holds loadingMutex, what the   *)
(* status says at each point of a loading operation, and that a request    *)
(* owns its guard from before it looked at the status.  ControlInv says    *)
(* this about guards, mutex and status; DataInv says what is loaded.       *)
(***************************************************************************)
EXTENDS ModelInstance, TLAPS

\* Which operations each thread can be in, and where.
CallInv ==
    /\ pc[Manager] \in {"idle"} \cup LoaderControl
    /\ \A t \in Threads : pc[t] \in LoaderControl => call[t] # "none"
    /\ call[Manager] \in {"none", "load", "reload", "retire", "cleanup"}
    /\ \A r \in Requests : call[r] \in {"none", "dynamic", "full", "recover"}
    /\ \A t \in Threads : pc[t] = "temp_drain" =>
          call[t] \in {"full", "recover"}

\* loadingMutex is held throughout a loading operation.
MutexInv ==
    \A t \in Threads : pc[t] \in LoaderControl \ {"lock"} => loadingMutex = t

\* A request that uses the instance, or is about to look at its status, has
\* a guard.
GuardInv ==
    \A r \in Requests :
        pc[r] \in Using \cup {"check", "recheck"} => r \in guards

\* The status tells how far the operation is.
StatusInv ==
    /\ \A t \in Threads :
          pc[t] \in LoaderControl \ {"lock", "loaded"} => state # "AVAILABLE"
    /\ \A t \in Threads : pc[t] = "loaded" => state = "AVAILABLE"
    /\ \A t \in Threads : pc[t] = "failed" => error = "UNKNOWN"
    /\ \A t \in Threads :
          pc[t] = "drain" /\ call[t] = "cleanup" => error = "UNKNOWN"
    /\ \A t \in Threads :
          pc[t] \in LoaderControl \ {"lock"} => state # "START"
    /\ \A t \in Threads :
          \/ pc[t] \in {"impl", "temp_drain", "custom_drain"}
          \/ pc[t] = "drain" /\ call[t] \in ReloadCalls
          => state = "LOADING" /\ error = "OK"

\* Before the first load nothing can be in use.
StartInv ==
    /\ state = "START" =>
          \A r \in Requests : pc[r] \notin Using \cup LoaderControl
    /\ pc[Manager] = "lock" /\ call[Manager] = "load" => state = "START"

\* Nobody uses the instance while its components are replaced.
LoadingInv ==
    \A t \in Threads :
        pc[t] \in Loading => \A r \in Requests : pc[r] \notin Using

Consistent ==
    /\ comps.model
    /\ comps.queue # NoShape
    /\ comps.queue = comps.compiled
    /\ comps.queue = comps.info

\* What loadModelImpl has loaded so far, and that it stays while used.
LoadedInv ==
    /\ \A t \in Threads : pc[t] = "impl_tensors" => comps.model
    /\ \A t \in Threads : pc[t] = "impl_compile" =>
          comps.model /\ comps.info = TargetShape(t)
    /\ \A t \in Threads : pc[t] = "impl_queue" =>
          comps.model /\ comps.info = TargetShape(t)
          /\ comps.compiled = TargetShape(t)
    /\ \A t \in Threads : pc[t] \in {"impl_available", "loaded"} =>
          Consistent /\ comps.queue = TargetShape(t)
    /\ InUse => Consistent

\* The control part: who may be where, with which guard, mutex and status.
ControlInv == CallInv /\ MutexInv /\ GuardInv /\ StatusInv /\ StartInv

\* The data part: what is loaded at each point.
DataInv ==
    /\ LoadingInv
    /\ LoadedInv
    /\ AvailableIsLoaded
    /\ LoadingIsOwned
    /\ RunsOnItsShape

IInv == TypeOK /\ ControlInv /\ DataInv

\* Every step of a thread inside a loading operation keeps the invariant.
LEMMA LoaderStepPreserves ==
    ASSUME IInv, NEW t \in Threads, LoaderStep(t)
    PROVE  IInv'
<1> USE ThreadsAssumption, ShapesAssumption, WaitCheckpointsAssumption, IInv
    DEF Goto, status, flags, locals, Threads, RequestControl, LoaderControl, Using,
        Loading, IInv, TypeOK
<1>1. CASE LockLoading(t)
  <2> USE <1>1 DEF LockLoading
  <2>1. TypeOK'
    BY DEF States, Errors, Calls, Components, MaybeShape
  <2>2. ControlInv'
    BY DEF ControlInv, CallInv, MutexInv, GuardInv, StatusInv, StartInv,
         ReloadCalls
  <2>3. DataInv'
    BY DEF ControlInv, MutexInv, GuardInv, StatusInv, StartInv, DataInv,
           LoadingInv, LoadedInv, Consistent, TargetShape, Components,
           MaybeShape, InUse, AvailableIsLoaded, LoadingIsOwned,
           RunsOnItsShape, CallInv
  <2> QED
    BY <2>1, <2>2, <2>3
<1>2. CASE ReloadDrained(t)
  <2> USE <1>2 DEF ReloadDrained, CanUnloadInstance, ReloadCalls
  <2>1. TypeOK'
    BY DEF States, Errors, Calls, Components, MaybeShape
  <2>2. ControlInv'
    BY DEF ControlInv, CallInv, MutexInv, GuardInv, StatusInv, StartInv,
         ReloadCalls
  <2>3. DataInv'
    BY DEF ControlInv, MutexInv, GuardInv, StatusInv, StartInv, DataInv,
           LoadingInv, LoadedInv, Consistent, TargetShape, Components,
           MaybeShape, InUse, AvailableIsLoaded, LoadingIsOwned,
           RunsOnItsShape, CallInv
  <2> QED
    BY <2>1, <2>2, <2>3
<1>3. CASE CustomLoaderUnload(t)
  <2> USE <1>3 DEF CustomLoaderUnload, CanUnloadInstance, Unloaded
  <2>1. TypeOK'
    BY DEF States, Errors, Calls, Components, MaybeShape
  <2>2. ControlInv'
    BY DEF ControlInv, CallInv, MutexInv, GuardInv, StatusInv, StartInv,
         ReloadCalls
  <2>3. DataInv'
    BY DEF ControlInv, MutexInv, GuardInv, StatusInv, StartInv, DataInv,
           LoadingInv, LoadedInv, Consistent, TargetShape, Components,
           MaybeShape, InUse, AvailableIsLoaded, LoadingIsOwned,
           RunsOnItsShape, CallInv
  <2> QED
    BY <2>1, <2>2, <2>3
<1>4. CASE TemporaryUnload(t)
  <2> USE <1>4 DEF TemporaryUnload, CanUnloadInstance, Unloaded
  <2>1. TypeOK'
    BY DEF States, Errors, Calls, Components, MaybeShape
  <2>2. ControlInv'
    BY DEF ControlInv, CallInv, MutexInv, GuardInv, StatusInv, StartInv,
         ReloadCalls
  <2>3. DataInv'
    BY DEF ControlInv, MutexInv, GuardInv, StatusInv, StartInv, DataInv,
           LoadingInv, LoadedInv, Consistent, TargetShape, Components,
           MaybeShape, InUse, AvailableIsLoaded, LoadingIsOwned,
           RunsOnItsShape, CallInv
  <2> QED
    BY <2>1, <2>2, <2>3
<1>5. CASE RetireUnload(t)
  <2> USE <1>5 DEF RetireUnload, CanUnloadInstance, Unloaded
  <2>1. TypeOK'
    BY DEF States, Errors, Calls, Components, MaybeShape
  <2>2. ControlInv'
    BY DEF ControlInv, CallInv, MutexInv, GuardInv, StatusInv, StartInv,
         ReloadCalls
  <2>3. DataInv'
    BY DEF ControlInv, MutexInv, GuardInv, StatusInv, StartInv, DataInv,
           LoadingInv, LoadedInv, Consistent, TargetShape, Components,
           MaybeShape, InUse, AvailableIsLoaded, LoadingIsOwned,
           RunsOnItsShape, CallInv
  <2> QED
    BY <2>1, <2>2, <2>3
<1>6. CASE RetireEnd(t)
  <2> USE <1>6 DEF RetireEnd, Finish
  <2>1. TypeOK'
    BY DEF States, Errors, Calls, Components, MaybeShape
  <2>2. ControlInv'
    BY DEF ControlInv, CallInv, MutexInv, GuardInv, StatusInv, StartInv,
         ReloadCalls
  <2>3. DataInv'
    BY DEF ControlInv, MutexInv, GuardInv, StatusInv, StartInv, DataInv,
           LoadingInv, LoadedInv, Consistent, TargetShape, Components,
           MaybeShape, InUse, AvailableIsLoaded, LoadingIsOwned,
           RunsOnItsShape, CallInv
  <2> QED
    BY <2>1, <2>2, <2>3
<1>7. CASE CleanupUnload(t)
  <2> USE <1>7 DEF CleanupUnload, CanUnloadInstance, Unloaded, Finish
  <2>1. TypeOK'
    BY DEF States, Errors, Calls, Components, MaybeShape
  <2>2. ControlInv'
    BY DEF ControlInv, CallInv, MutexInv, GuardInv, StatusInv, StartInv,
         ReloadCalls
  <2>3. DataInv'
    BY DEF ControlInv, MutexInv, GuardInv, StatusInv, StartInv, DataInv,
           LoadingInv, LoadedInv, Consistent, TargetShape, Components,
           MaybeShape, InUse, AvailableIsLoaded, LoadingIsOwned,
           RunsOnItsShape, CallInv
  <2> QED
    BY <2>1, <2>2, <2>3
<1>8. CASE ImplReadsModel(t)
  <2> USE <1>8 DEF ImplReadsModel
  <2>1. TypeOK'
    BY DEF States, Errors, Calls, Components, MaybeShape
  <2>2. ControlInv'
    BY DEF ControlInv, CallInv, MutexInv, GuardInv, StatusInv, StartInv,
         ReloadCalls
  <2>3. DataInv'
    BY DEF ControlInv, MutexInv, GuardInv, StatusInv, StartInv, DataInv,
           LoadingInv, LoadedInv, Consistent, TargetShape, Components,
           MaybeShape, InUse, AvailableIsLoaded, LoadingIsOwned,
           RunsOnItsShape, CallInv
  <2> QED
    BY <2>1, <2>2, <2>3
<1>9. CASE ImplLoadsTensors(t)
  <2> USE <1>9 DEF ImplLoadsTensors, TargetShape
  <2>1. TypeOK'
    BY DEF ControlInv, CallInv, States, Errors, Calls, Components, MaybeShape
  <2>2. ControlInv'
    BY DEF ControlInv, CallInv, MutexInv, GuardInv, StatusInv, StartInv,
         ReloadCalls
  <2>3. DataInv'
    BY DEF ControlInv, MutexInv, GuardInv, StatusInv, StartInv, DataInv,
           LoadingInv, LoadedInv, Consistent, TargetShape, Components,
           MaybeShape, InUse, AvailableIsLoaded, LoadingIsOwned,
           RunsOnItsShape, CallInv
  <2> QED
    BY <2>1, <2>2, <2>3
<1>10. CASE ImplCompiles(t)
  <2> USE <1>10 DEF ImplCompiles
  <2>1. TypeOK'
    BY DEF States, Errors, Calls, Components, MaybeShape
  <2>2. ControlInv'
    BY DEF ControlInv, CallInv, MutexInv, GuardInv, StatusInv, StartInv,
         ReloadCalls
  <2>3. DataInv'
    BY DEF ControlInv, MutexInv, GuardInv, StatusInv, StartInv, DataInv,
           LoadingInv, LoadedInv, Consistent, TargetShape, Components,
           MaybeShape, InUse, AvailableIsLoaded, LoadingIsOwned,
           RunsOnItsShape, CallInv
  <2> QED
    BY <2>1, <2>2, <2>3
<1>11. CASE ImplPreparesQueue(t)
  <2> USE <1>11 DEF ImplPreparesQueue
  <2>1. TypeOK'
    BY DEF States, Errors, Calls, Components, MaybeShape
  <2>2. ControlInv'
    BY DEF ControlInv, CallInv, MutexInv, GuardInv, StatusInv, StartInv,
         ReloadCalls
  <2>3. DataInv'
    BY DEF ControlInv, MutexInv, GuardInv, StatusInv, StartInv, DataInv,
           LoadingInv, LoadedInv, Consistent, TargetShape, Components,
           MaybeShape, InUse, AvailableIsLoaded, LoadingIsOwned,
           RunsOnItsShape, CallInv
  <2> QED
    BY <2>1, <2>2, <2>3
<1>12. CASE ImplFails(t)
  <2> USE <1>12 DEF ImplFails, TargetShape
  <2>1. TypeOK'
    BY DEF ControlInv, CallInv, States, Errors, Calls, Components, MaybeShape
  <2>2. ControlInv'
    BY DEF ControlInv, CallInv, MutexInv, GuardInv, StatusInv, StartInv,
         ReloadCalls
  <2>3. DataInv'
    BY DEF ControlInv, MutexInv, GuardInv, StatusInv, StartInv, DataInv,
           LoadingInv, LoadedInv, Consistent, TargetShape, Components,
           MaybeShape, InUse, AvailableIsLoaded, LoadingIsOwned,
           RunsOnItsShape, CallInv
  <2> QED
    BY <2>1, <2>2, <2>3
<1>13. CASE ImplSetsAvailable(t)
  <2> USE <1>13 DEF ImplSetsAvailable
  <2>1. TypeOK'
    BY DEF States, Errors, Calls, Components, MaybeShape
  <2>2. ControlInv'
    BY DEF ControlInv, CallInv, MutexInv, GuardInv, StatusInv, StartInv,
         ReloadCalls
  <2>3. DataInv'
    BY DEF ControlInv, MutexInv, GuardInv, StatusInv, StartInv, DataInv,
           LoadingInv, LoadedInv, Consistent, TargetShape, Components,
           MaybeShape, InUse, AvailableIsLoaded, LoadingIsOwned,
           RunsOnItsShape, CallInv
  <2> QED
    BY <2>1, <2>2, <2>3
<1>14. CASE ReturnsLoaded(t)
  <2> USE <1>14 DEF ReturnsLoaded
  <2>1. TypeOK'
    BY DEF ControlInv, CallInv, States, Errors, Calls, Components, MaybeShape
  <2>2. ControlInv'
    BY DEF ControlInv, CallInv, MutexInv, GuardInv, StatusInv, StartInv,
         ReloadCalls
  <2>3. DataInv'
    BY DEF ControlInv, MutexInv, GuardInv, StatusInv, StartInv, DataInv,
           LoadingInv, LoadedInv, Consistent, TargetShape, Components,
           MaybeShape, InUse, AvailableIsLoaded, LoadingIsOwned,
           RunsOnItsShape, CallInv
  <2> QED
    BY <2>1, <2>2, <2>3
<1>15. CASE ReturnsFailed(t)
  <2> USE <1>15 DEF ReturnsFailed, Finish
  <2>1. TypeOK'
    BY DEF States, Errors, Calls, Components, MaybeShape
  <2>2. ControlInv'
    BY DEF ControlInv, CallInv, MutexInv, GuardInv, StatusInv, StartInv,
         ReloadCalls
  <2>3. DataInv'
    BY DEF ControlInv, MutexInv, GuardInv, StatusInv, StartInv, DataInv,
           LoadingInv, LoadedInv, Consistent, TargetShape, Components,
           MaybeShape, InUse, AvailableIsLoaded, LoadingIsOwned,
           RunsOnItsShape, CallInv
  <2> QED
    BY <2>1, <2>2, <2>3
<1>16. CASE RetriesReload(t)
  <2> USE <1>16 DEF RetriesReload
  <2>1. TypeOK'
    BY DEF States, Errors, Calls, Components, MaybeShape
  <2>2. ControlInv'
    BY DEF ControlInv, CallInv, MutexInv, GuardInv, StatusInv, StartInv,
         ReloadCalls
  <2>3. DataInv'
    BY DEF ControlInv, MutexInv, GuardInv, StatusInv, StartInv, DataInv,
           LoadingInv, LoadedInv, Consistent, TargetShape, Components,
           MaybeShape, InUse, AvailableIsLoaded, LoadingIsOwned,
           RunsOnItsShape, CallInv
  <2> QED
    BY <2>1, <2>2, <2>3
<1> QED
  BY <1>1, <1>2, <1>3, <1>4, <1>5, <1>6, <1>7, <1>8, <1>9, <1>10, <1>11,
     <1>12, <1>13, <1>14, <1>15, <1>16 DEF LoaderStep

\* Every step of a predict request keeps the invariant.
LEMMA RequestStepPreserves ==
    ASSUME IInv, NEW r \in Requests, RequestStep(r)
    PROVE  IInv'
<1> USE ThreadsAssumption, ShapesAssumption, WaitCheckpointsAssumption, IInv
    DEF Goto, status, flags, locals, Threads, RequestControl, LoaderControl, Using,
        Loading, IInv, TypeOK
<1>1. CASE SeesAvailable(r)
  <2> USE <1>1 DEF SeesAvailable
  <2>1. TypeOK'
    BY DEF States, Errors, Calls, Components, MaybeShape
  <2>2. ControlInv'
    BY DEF ControlInv, CallInv, MutexInv, GuardInv, StatusInv, StartInv,
         ReloadCalls
  <2>3. DataInv'
    BY DEF ControlInv, MutexInv, GuardInv, StatusInv, StartInv, DataInv,
           LoadingInv, LoadedInv, Consistent, TargetShape, Components,
           MaybeShape, InUse, AvailableIsLoaded, LoadingIsOwned,
           RunsOnItsShape, CallInv
  <2> QED
    BY <2>1, <2>2, <2>3
<1>2. CASE SeesNotLoaded(r)
  <2> USE <1>2 DEF SeesNotLoaded
  <2>1. TypeOK'
    BY DEF States, Errors, Calls, Components, MaybeShape
  <2>2. ControlInv'
    BY DEF ControlInv, CallInv, MutexInv, GuardInv, StatusInv, StartInv,
         ReloadCalls
  <2>3. DataInv'
    BY DEF ControlInv, MutexInv, GuardInv, StatusInv, StartInv, DataInv,
           LoadingInv, LoadedInv, Consistent, TargetShape, Components,
           MaybeShape, InUse, AvailableIsLoaded, LoadingIsOwned,
           RunsOnItsShape, CallInv
  <2> QED
    BY <2>1, <2>2, <2>3
<1>3. CASE WaitEnds(r)
  <2> USE <1>3 DEF WaitEnds
  <2>1. TypeOK'
    BY DEF States, Errors, Calls, Components, MaybeShape
  <2>2. ControlInv'
    BY DEF ControlInv, CallInv, MutexInv, GuardInv, StatusInv, StartInv,
         ReloadCalls
  <2>3. DataInv'
    BY DEF ControlInv, MutexInv, GuardInv, StatusInv, StartInv, DataInv,
           LoadingInv, LoadedInv, Consistent, TargetShape, Components,
           MaybeShape, InUse, AvailableIsLoaded, LoadingIsOwned,
           RunsOnItsShape, CallInv
  <2> QED
    BY <2>1, <2>2, <2>3
<1>4. CASE AfterRecheck(r)
  <2> USE <1>4 DEF AfterRecheck, WillEndUnloaded
  <2>1. TypeOK'
    BY DEF States, Errors, Calls, Components, MaybeShape
  <2>2. ControlInv'
    BY DEF ControlInv, CallInv, MutexInv, GuardInv, StatusInv, StartInv,
         ReloadCalls
  <2>3. DataInv'
    BY DEF ControlInv, MutexInv, GuardInv, StatusInv, StartInv, DataInv,
           LoadingInv, LoadedInv, Consistent, TargetShape, Components,
           MaybeShape, InUse, AvailableIsLoaded, LoadingIsOwned,
           RunsOnItsShape, CallInv
  <2> QED
    BY <2>1, <2>2, <2>3
<1>5. CASE WaitTimesOut(r)
  <2> USE <1>5 DEF WaitTimesOut
  <2>1. TypeOK'
    BY DEF States, Errors, Calls, Components, MaybeShape
  <2>2. ControlInv'
    BY DEF ControlInv, CallInv, MutexInv, GuardInv, StatusInv, StartInv,
         ReloadCalls
  <2>3. DataInv'
    BY DEF ControlInv, MutexInv, GuardInv, StatusInv, StartInv, DataInv,
           LoadingInv, LoadedInv, Consistent, TargetShape, Components,
           MaybeShape, InUse, AvailableIsLoaded, LoadingIsOwned,
           RunsOnItsShape, CallInv
  <2> QED
    BY <2>1, <2>2, <2>3
<1>6. CASE Validates(r)
  <2> USE <1>6 DEF Validates
  <2>1. TypeOK'
    BY DEF States, Errors, Calls, Components, MaybeShape
  <2>2. ControlInv'
    BY DEF ControlInv, CallInv, MutexInv, GuardInv, StatusInv, StartInv,
         ReloadCalls
  <2>3. DataInv'
    BY DEF ControlInv, MutexInv, GuardInv, StatusInv, StartInv, DataInv,
           LoadingInv, LoadedInv, Consistent, TargetShape, Components,
           MaybeShape, InUse, AvailableIsLoaded, LoadingIsOwned,
           RunsOnItsShape, CallInv
  <2> QED
    BY <2>1, <2>2, <2>3
<1>7. CASE StartsDynamicReload(r)
  <2> USE <1>7 DEF StartsDynamicReload
  <2>1. TypeOK'
    BY DEF States, Errors, Calls, Components, MaybeShape
  <2>2. ControlInv'
    BY DEF ControlInv, CallInv, MutexInv, GuardInv, StatusInv, StartInv,
         ReloadCalls
  <2>3. DataInv'
    BY DEF ControlInv, MutexInv, GuardInv, StatusInv, StartInv, DataInv,
           LoadingInv, LoadedInv, Consistent, TargetShape, Components,
           MaybeShape, InUse, AvailableIsLoaded, LoadingIsOwned,
           RunsOnItsShape, CallInv
  <2> QED
    BY <2>1, <2>2, <2>3
<1>8. CASE DynamicReloadRejected(r)
  <2> USE <1>8 DEF DynamicReloadRejected
  <2>1. TypeOK'
    BY DEF States, Errors, Calls, Components, MaybeShape
  <2>2. ControlInv'
    BY DEF ControlInv, CallInv, MutexInv, GuardInv, StatusInv, StartInv,
         ReloadCalls
  <2>3. DataInv'
    BY DEF ControlInv, MutexInv, GuardInv, StatusInv, StartInv, DataInv,
           LoadingInv, LoadedInv, Consistent, TargetShape, Components,
           MaybeShape, InUse, AvailableIsLoaded, LoadingIsOwned,
           RunsOnItsShape, CallInv
  <2> QED
    BY <2>1, <2>2, <2>3
<1>9. CASE GetsStream(r)
  <2> USE <1>9 DEF GetsStream
  <2>1. TypeOK'
    BY DEF States, Errors, Calls, Components, MaybeShape
  <2>2. ControlInv'
    BY DEF ControlInv, CallInv, MutexInv, GuardInv, StatusInv, StartInv,
         ReloadCalls
  <2>3. DataInv'
    BY DEF ControlInv, MutexInv, GuardInv, StatusInv, StartInv, DataInv,
           LoadingInv, LoadedInv, Consistent, TargetShape, Components,
           MaybeShape, InUse, AvailableIsLoaded, LoadingIsOwned,
           RunsOnItsShape, CallInv
  <2> QED
    BY <2>1, <2>2, <2>3
<1>10. CASE StartsAsync(r)
  <2> USE <1>10 DEF StartsAsync
  <2>1. TypeOK'
    BY DEF States, Errors, Calls, Components, MaybeShape
  <2>2. ControlInv'
    BY DEF ControlInv, CallInv, MutexInv, GuardInv, StatusInv, StartInv,
         ReloadCalls
  <2>3. DataInv'
    BY DEF ControlInv, MutexInv, GuardInv, StatusInv, StartInv, DataInv,
           LoadingInv, LoadedInv, Consistent, TargetShape, Components,
           MaybeShape, InUse, AvailableIsLoaded, LoadingIsOwned,
           RunsOnItsShape, CallInv
  <2> QED
    BY <2>1, <2>2, <2>3
<1>11. CASE AsyncStartThrows(r)
  <2> USE <1>11 DEF AsyncStartThrows
  <2>1. TypeOK'
    BY DEF States, Errors, Calls, Components, MaybeShape
  <2>2. ControlInv'
    BY DEF ControlInv, CallInv, MutexInv, GuardInv, StatusInv, StartInv,
         ReloadCalls
  <2>3. DataInv'
    BY DEF ControlInv, MutexInv, GuardInv, StatusInv, StartInv, DataInv,
           LoadingInv, LoadedInv, Consistent, TargetShape, Components,
           MaybeShape, InUse, AvailableIsLoaded, LoadingIsOwned,
           RunsOnItsShape, CallInv
  <2> QED
    BY <2>1, <2>2, <2>3
<1>12. CASE ReturnsStream(r)
  <2> USE <1>12 DEF ReturnsStream
  <2>1. TypeOK'
    BY DEF States, Errors, Calls, Components, MaybeShape
  <2>2. ControlInv'
    BY DEF ControlInv, CallInv, MutexInv, GuardInv, StatusInv, StartInv,
         ReloadCalls
  <2>3. DataInv'
    BY DEF ControlInv, MutexInv, GuardInv, StatusInv, StartInv, DataInv,
           LoadingInv, LoadedInv, Consistent, TargetShape, Components,
           MaybeShape, InUse, AvailableIsLoaded, LoadingIsOwned,
           RunsOnItsShape, CallInv
  <2> QED
    BY <2>1, <2>2, <2>3
<1>13. CASE ReleasesGuard(r)
  <2> USE <1>13 DEF ReleasesGuard
  <2>1. TypeOK'
    BY DEF States, Errors, Calls, Components, MaybeShape
  <2>2. ControlInv'
    BY DEF ControlInv, CallInv, MutexInv, GuardInv, StatusInv, StartInv,
         ReloadCalls
  <2>3. DataInv'
    BY DEF ControlInv, MutexInv, GuardInv, StatusInv, StartInv, DataInv,
           LoadingInv, LoadedInv, Consistent, TargetShape, Components,
           MaybeShape, InUse, AvailableIsLoaded, LoadingIsOwned,
           RunsOnItsShape, CallInv
  <2> QED
    BY <2>1, <2>2, <2>3
<1>14. CASE NotifyThrows(r)
  <2> USE <1>14 DEF NotifyThrows, Finish
  <2>1. TypeOK'
    BY DEF States, Errors, Calls, Components, MaybeShape
  <2>2. ControlInv'
    BY DEF ControlInv, CallInv, MutexInv, GuardInv, StatusInv, StartInv,
         ReloadCalls
  <2>3. DataInv'
    BY DEF ControlInv, MutexInv, GuardInv, StatusInv, StartInv, DataInv,
           LoadingInv, LoadedInv, Consistent, TargetShape, Components,
           MaybeShape, InUse, AvailableIsLoaded, LoadingIsOwned,
           RunsOnItsShape, CallInv
  <2> QED
    BY <2>1, <2>2, <2>3
<1> QED
  BY <1>1, <1>2, <1>3, <1>4, <1>5, <1>6, <1>7, <1>8, <1>9, <1>10, <1>11,
     <1>12, <1>13, <1>14 DEF RequestStep

\* A new predict request keeps the invariant.
LEMMA ArrivesPreserves ==
    ASSUME IInv, NEW r \in Requests, NEW s \in Shapes, RequestArrives(r, s)
    PROVE  IInv'
<1> USE ThreadsAssumption, ShapesAssumption, WaitCheckpointsAssumption, IInv
    DEF Goto, status, flags, locals, Threads, RequestControl, LoaderControl, Using,
        Loading, IInv, TypeOK
<1>1. CASE RequestArrives(r, s)
  <2> USE <1>1 DEF RequestArrives
  <2>1. TypeOK'
    BY DEF States, Errors, Calls, Components, MaybeShape
  <2>2. ControlInv'
    BY DEF ControlInv, CallInv, MutexInv, GuardInv, StatusInv, StartInv,
         ReloadCalls
  <2>3. DataInv'
    BY DEF ControlInv, MutexInv, GuardInv, StatusInv, StartInv, DataInv,
           LoadingInv, LoadedInv, Consistent, TargetShape, Components,
           MaybeShape, InUse, AvailableIsLoaded, LoadingIsOwned,
           RunsOnItsShape, CallInv
  <2> QED
    BY <2>1, <2>2, <2>3
<1> QED
  BY <1>1

\* A new call of the configuration thread keeps the invariant.
LEMMA ManagerChoicePreserves ==
    ASSUME IInv, ManagerChoice
    PROVE  IInv'
<1> USE ThreadsAssumption, ShapesAssumption, WaitCheckpointsAssumption, IInv
    DEF Goto, status, flags, locals, Threads, RequestControl, LoaderControl, Using,
        Loading, IInv, TypeOK
<1>1. CASE \E op \in Calls \ {"none", "dynamic", "full", "recover"} :
                ManagerCalls(op)
  <2> USE <1>1 DEF ManagerCalls, Calls
  <2>1. TypeOK'
    BY DEF States, Errors, Calls, Components, MaybeShape
  <2>2. ControlInv'
    BY DEF ControlInv, CallInv, MutexInv, GuardInv, StatusInv, StartInv,
         ReloadCalls
  <2>3. DataInv'
    BY DEF ControlInv, MutexInv, GuardInv, StatusInv, StartInv, DataInv,
           LoadingInv, LoadedInv, Consistent, TargetShape, Components,
           MaybeShape, InUse, AvailableIsLoaded, LoadingIsOwned,
           RunsOnItsShape, CallInv
  <2> QED
    BY <2>1, <2>2, <2>3
<1>2. CASE SetCustomLoaderConfigChangeFlag
  <2> USE <1>2 DEF SetCustomLoaderConfigChangeFlag
  <2>1. TypeOK'
    BY DEF States, Errors, Calls, Components, MaybeShape
  <2>2. ControlInv'
    BY DEF ControlInv, CallInv, MutexInv, GuardInv, StatusInv, StartInv,
         ReloadCalls
  <2>3. DataInv'
    BY DEF ControlInv, MutexInv, GuardInv, StatusInv, StartInv, DataInv,
           LoadingInv, LoadedInv, Consistent, TargetShape, Components,
           MaybeShape, InUse, AvailableIsLoaded, LoadingIsOwned,
           RunsOnItsShape, CallInv
  <2> QED
    BY <2>1, <2>2, <2>3
<1> QED
  BY <1>1, <1>2 DEF ManagerChoice, LoadModel, ReloadModel, RetireModel,
     CleanupFailedLoad, Calls

\* The invariant holds when the instance is created.
LEMMA InitEstablishes == Init => IInv
<1> SUFFICES ASSUME Init
             PROVE  IInv
  OBVIOUS
<1> USE ThreadsAssumption, ShapesAssumption, WaitCheckpointsAssumption
    DEF Init, Unloaded, Threads, RequestControl, LoaderControl, Using, Loading
<1>1. TypeOK
  <2>1. comps \in Components
    BY DEF Components, MaybeShape
  <2>2. checkpoints \in [Requests -> 0 .. WaitCheckpoints]
    OBVIOUS
  <2> QED
    BY <2>1, <2>2 DEF TypeOK, States, Errors, Calls
<1>2. ControlInv
  BY DEF ControlInv, CallInv, MutexInv, GuardInv, StatusInv, StartInv,
         ReloadCalls
<1>3. DataInv
  BY DEF DataInv, LoadingInv, LoadedInv, AvailableIsLoaded, LoadingIsOwned,
         RunsOnItsShape, InUse
<1> QED
  BY <1>1, <1>2, <1>3 DEF IInv

\* No step of any thread breaks the invariant.
LEMMA NextPreserves == IInv /\ [Next]_vars => IInv'
<1> SUFFICES ASSUME IInv, [Next]_vars
             PROVE  IInv'
  OBVIOUS
<1>1. CASE ManagerChoice
  BY <1>1, ManagerChoicePreserves
<1>2. CASE Arrives
  BY <1>2, ArrivesPreserves DEF Arrives
<1>3. CASE \E t \in Threads : LoaderStep(t)
  BY <1>3, LoaderStepPreserves
<1>4. CASE \E r \in Requests : RequestStep(r)
  BY <1>4, RequestStepPreserves
<1>5. CASE UNCHANGED vars
  BY <1>5 DEF vars, IInv, TypeOK, ControlInv, CallInv, MutexInv, GuardInv,
              StatusInv, StartInv, DataInv, LoadingInv, LoadedInv, Consistent,
              TargetShape, InUse, AvailableIsLoaded, LoadingIsOwned,
              RunsOnItsShape
<1> QED
  BY <1>1, <1>2, <1>3, <1>4, <1>5 DEF Next

\* Only a lock holder that has seen the guard counter at zero, or that is in
\* loadModelImpl, changes the components; then nobody uses them.
LEMMA StepKeepsUsedComponents ==
    ASSUME IInv, [Next]_vars
    PROVE  InUse => UNCHANGED comps
<1> USE DEF InUse
<1>1. ASSUME NEW t \in Threads, LoaderStep(t)
      PROVE  InUse => UNCHANGED comps
  <2>1. CASE pc[t] \in Loading
    BY <1>1, <2>1 DEF IInv, DataInv, LoadingInv
  <2>2. CASE CustomLoaderUnload(t) \/ TemporaryUnload(t) \/ RetireUnload(t)
             \/ CleanupUnload(t)
    BY <2>2 DEF IInv, ControlInv, GuardInv, CustomLoaderUnload,
                TemporaryUnload, RetireUnload, CleanupUnload,
                CanUnloadInstance
  <2>3. CASE LockLoading(t) \/ ReloadDrained(t) \/ RetireEnd(t)
             \/ ReturnsLoaded(t) \/ ReturnsFailed(t) \/ RetriesReload(t)
    BY <2>3 DEF LockLoading, ReloadDrained, RetireEnd, ReturnsLoaded,
                ReturnsFailed, RetriesReload
  <2> QED
    BY <1>1, <2>1, <2>2, <2>3
       DEF LoaderStep, Loading, ImplReadsModel, ImplLoadsTensors,
           ImplCompiles, ImplPreparesQueue, ImplFails, ImplSetsAvailable
<1>2. ASSUME NEW r \in Requests, RequestStep(r)
      PROVE  UNCHANGED comps
  BY <1>2 DEF RequestStep, SeesAvailable, SeesNotLoaded, WaitEnds,
              AfterRecheck, WaitTimesOut, Validates, StartsDynamicReload,
              DynamicReloadRejected, NotifyThrows, Finish, GetsStream,
              StartsAsync, AsyncStartThrows, ReturnsStream, ReleasesGuard
<1>3. CASE ManagerChoice \/ Arrives \/ UNCHANGED vars
  BY <1>3 DEF ManagerChoice, LoadModel, ReloadModel, RetireModel,
              CleanupFailedLoad, ManagerCalls, Arrives, RequestArrives,
              SetCustomLoaderConfigChangeFlag, vars
<1> QED
  BY <1>1, <1>2, <1>3 DEF Next

\* The invariant holds in every state of every instance.
THEOREM InstanceSafe == Spec => []IInv
<1>1. Init => IInv
  BY InitEstablishes
<1>2. IInv /\ [Next]_vars => IInv'
  BY NextPreserves
<1> QED
  BY <1>1, <1>2, PTL DEF Spec

\* A request that passed validation or its own reload runs on a queue compiled
\* for its shape (modelInferAsync and infer after reloadModelIfRequired), and
\* a version that says AVAILABLE is loaded with components of one shape, for
\* every number of requests, shapes and streams.
THEOREM RequestsRunOnTheirShape == Spec => []InstanceSafety
<1>1. IInv => InstanceSafety
  BY DEF IInv, DataInv, InstanceSafety
<1> QED
  BY <1>1, InstanceSafe, PTL

\* The components of a served version never change while a request uses them
\* (waitForLoaded against reloadModel, retireModel and cleanupFailedLoad), for
\* every number of requests.
THEOREM ComponentsStable == Spec => NoChangeUnderUse
<1>1. IInv /\ [Next]_vars => [InUse => UNCHANGED comps]_vars
  BY StepKeepsUsedComponents
<1> QED
  BY <1>1, InstanceSafe, PTL DEF Spec, NoChangeUnderUse
==============================================================================
